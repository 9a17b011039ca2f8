------------------------------ MODULE MCPythonExec ------------------------------
(* Small instances of the Python tool for TLC: two allowed roots, a directory  *)
(* below one of them, and one outside.                                         *)
EXTENDS PythonExec, TLC

RootP == <<"p">>
RootQ == <<"q">>
Below == <<"p", "s">>
MCPyDirs == {RootP, RootQ, Below}
MCAsked == {RootP, Below, RootQ, <<"x">>}
MCRoots == {RootP, RootQ}

Job(action, names, takes, ends, catches) ==
  [action |-> action, names |-> names, takes |-> takes, ends |-> ends, catches |-> catches]

\* Code that returns, code that takes too long and catches that, installations
\* of nothing and of something that is no package.
MCJobs == {Job("execute", "fine", 1, "returns", FALSE), Job("execute", "fine", 3, "raises", TRUE),
           Job("pip_install", "none", 1, "returns", FALSE),
           Job("os_package_install", "unsafe", 1, "returns", FALSE)}

\* Every way the process of a job can end.
MCEveryEnding ==
  {Job("execute", "fine", 1, ending, FALSE) : ending \in {"returns", "raises", "exits", "killed"}}
  \cup {Job(action, "fine", takes, ending, FALSE) :
          action \in {"pip_install", "os_package_install"}, takes \in {1, 2},
          ending \in {"returns", "exits", "absent"}}

PySpec == PyInit /\ [][PyNext]_pyVars
=============================================================================
