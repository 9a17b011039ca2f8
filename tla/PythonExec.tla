------------------------------ MODULE PythonExec ------------------------------
(***************************************************************************)
(* The Python tool, src/faith_mcp/python_exec: code and package            *)
(* installations that agents ask for, run on the host worker, in the       *)
(* sandbox all callers share, or in a subprocess.  A call publishes its    *)
(* start and awaits; a call for the sandbox then awaits the allocation;    *)
(* the run itself blocks the loop, and its end is published after it.      *)
(*                                                                         *)
(* A path is a sequence of names.  A job says what the process it starts   *)
(* does: how long it takes, how it ends, whether it catches the exception  *)
(* that a timeout raises in it.                                            *)
(***************************************************************************)
EXTENDS Integers, Sequences, SequencesExt

CONSTANTS PyCalls,
          PyDirs,         \* the directories of the host
          PyAsked,        \* the working directories callers ask for
          AllowedRoots,   \* allowed_paths
          HostRoots,      \* host_allowed_paths
          HostWorkers,    \* the values of host_worker_enabled to look at
          PyRuntimes,     \* the runtimes of the sandbox manager to look at
          PyTimeouts,     \* the values timeout_seconds takes
          OsTimeout,      \* the least timeout of an installation of OS packages
          PyJobs,         \* the jobs callers ask for
          MaxPyReloads    \* bound on the changes of the configuration

Actions == {"execute", "pip_install", "os_package_install"}
Endings == {"returns", "raises", "exits", "killed", "absent"}

ASSUME PythonConstants ==
  /\ PyRuntimes \subseteq {"docker", "memory", "none"}
  /\ HostWorkers \subseteq BOOLEAN
  /\ PyTimeouts \subseteq Nat /\ PyTimeouts # {}
  \* paths; of some roots, one is the longest, for allowed_paths is a list
  /\ AllowedRoots \cup HostRoots \cup PyAsked \cup PyDirs \subseteq Seq(STRING)
  /\ \A roots \in SUBSET AllowedRoots : roots # {} =>
       \E root \in roots : \A other \in roots : Len(other) <= Len(root)
  /\ OsTimeout \in Nat /\ MaxPyReloads \in Nat
  /\ PyJobs \subseteq [action : Actions, names : {"none", "fine", "unsafe"},
                       takes : Nat, ends : Endings, catches : BOOLEAN]

VARIABLES pyRuntime,   \* docker, memory, or none: no sandbox manager is given
          hostWorker,  \* host_worker_enabled
          pyTimeout,   \* config.timeout_seconds
          pyReloads,   \* changes of the configuration so far
          pyBox,       \* the shared sandbox: what it mounts, whether its container is there
          pyCall       \* the calls of the tool

pyVars == <<pyRuntime, hostWorker, pyTimeout, pyReloads, pyBox, pyCall>>

NoBox == [mount |-> <<>>, up |-> FALSE, known |-> FALSE]
NowhereYet == <<"nowhere">>
NotCalled == [at |-> "idle"]

PyInit ==
  /\ pyRuntime \in PyRuntimes /\ hostWorker \in HostWorkers
  /\ pyTimeout \in PyTimeouts /\ pyReloads = 0
  /\ pyBox = NoBox
  /\ pyCall = [c \in PyCalls |-> NotCalled]

(***************************************************************************)
(* What a process does, and what the tool makes of it                      *)
(***************************************************************************)
\* The results a run can have; a return value and the output are left out.
Result(timedOut, traceback, exit) == [timedOut |-> timedOut, traceback |-> traceback, exit |-> exit]
Done == Result(FALSE, FALSE, 0)
Cut == Result(TRUE, FALSE, -1)
Success(result) == ~result.timedOut /\ ~result.traceback /\ result.exit = 0

\* The status the process ends with.
ExitStatus(job) ==
  CASE job.ends = "returns" -> 0
    [] job.ends = "killed" -> -9
    [] job.ends = "absent" -> -1
    [] OTHER -> 1

\* subprocess.run, as _run_subprocess and the wrapper of commands report it.
RunSubprocess(job, limit) ==
  IF job.takes > limit THEN Cut ELSE Result(FALSE, FALSE, ExitStatus(job))

\* Code in a subprocess of the tool, which the timeout kills.
ExecuteCode(job, limit) ==
  IF job.takes > limit THEN Cut
  ELSE Result(FALSE, job.ends = "raises", ExitStatus(job))

InstallPackages(job, limit) == IF job.names = "none" THEN Done ELSE RunSubprocess(job, limit)

\* Update, then install, each with a time of its own.
InstallOsPackages(job, limit) ==
  IF job.names = "none" THEN Done
  ELSE RunSubprocess(job, IF limit > OsTimeout THEN limit ELSE OsTimeout)

RunLocally(job, limit) ==
  CASE job.action = "execute" -> ExecuteCode(job, limit)
    [] job.action = "pip_install" -> InstallPackages(job, limit)
    [] OTHER -> InstallOsPackages(job, limit)

\* The wrapper of code: an alarm raises an exception in the code, once.  Code
\* that exits, or is killed, takes the wrapper with it before it can print.
CodeWrapper(job, limit) ==
  CASE job.takes > limit /\ ~job.catches -> [printed |-> TRUE, result |-> Cut]
    [] job.ends = "raises" -> [printed |-> TRUE, result |-> Result(FALSE, TRUE, 1)]
    [] job.ends = "returns" -> [printed |-> TRUE, result |-> Done]
    [] OTHER -> [printed |-> FALSE, result |-> Done]

\* pip without a package fails; apt-get succeeds.  Update and installation
\* share one time.
CommandWrapper(job, limit) ==
  IF job.action = "pip_install"
    THEN IF job.names = "none" THEN Result(FALSE, FALSE, 1) ELSE RunSubprocess(job, limit)
    ELSE RunSubprocess([job EXCEPT !.takes = 2 * @], IF limit > OsTimeout THEN limit ELSE OsTimeout)

\* What _run_in_container reads from the output: the wrapper's payload, or the
\* defaults of ExecutionResult when it printed nothing, whatever the exit status.
RunInContainer(job, limit) ==
  IF job.action = "execute"
    THEN LET wrapper == CodeWrapper(job, limit) IN
         IF wrapper.printed THEN wrapper.result ELSE Done
    ELSE CommandWrapper(job, limit)

(***************************************************************************)
(* Where a call runs                                                       *)
(***************************************************************************)
Inside(dir, roots) == roots = {} \/ \E root \in roots : IsPrefix(root, dir)

\* _resolve_execution_target: host, sandbox, or a refusal.
ExecutionTarget(dir, host) ==
  CASE host /\ hostWorker /\ Inside(dir, IF HostRoots # {} THEN HostRoots ELSE AllowedRoots) -> "host"
    [] ~host /\ Inside(dir, AllowedRoots) -> "sandbox"
    [] OTHER -> "refused"

\* The allowed roots a directory lies below.
Around(dir) == {root \in AllowedRoots : IsPrefix(root, dir)}

\* A bug the runs must notice: the working directory is mounted, not its root.
MountDirectory(dir) == dir

\* _select_mount_root: the longest allowed path around the directory.
MountRoot(dir) ==
  IF Around(dir) = {} THEN dir
  ELSE CHOOSE root \in Around(dir) : \A other \in Around(dir) : Len(other) <= Len(root)

\* _container_working_directory: the path below /workspace.
WorkPath(dir) == SubSeq(dir, Len(MountRoot(dir)) + 1, Len(dir))

\* The directory of the host that this path is, in the shared sandbox.
HostPath(dir) == pyBox.mount \o WorkPath(dir)

(***************************************************************************)
(* The calls                                                               *)
(***************************************************************************)
Step(c, at) == pyCall' = [pyCall EXCEPT ![c].at = at]

\* The end of a run is published: complete, or an error.
Ended(c, result, where) ==
  pyCall' = [pyCall EXCEPT ![c].at = "returned", ![c].result = result, ![c].ranIn = where,
                           ![c].events = Append(@, IF Success(result) THEN "complete" ELSE "error")]

\* run_code and the installations up to the event of the start; the executor and
\* its timeout are those of this moment.
Begun(job, dir, target) ==
  [at |-> IF target = "refused" THEN "refused" ELSE "started", job |-> job, dir |-> dir,
   target |-> target, limit |-> pyTimeout, result |-> Done, ranIn |-> NowhereYet,
   events |-> IF target = "refused" THEN <<>> ELSE <<"started">>]

\* The request of an agent: an action, its arguments, perhaps for the host.
HandleToolCall(c, job, dir, host) ==
  /\ pyCall[c].at = "idle"
  /\ pyCall' = [pyCall EXCEPT ![c] = Begun(job, dir, ExecutionTarget(dir, host))]
  /\ UNCHANGED <<pyRuntime, hostWorker, pyTimeout, pyReloads, pyBox>>

\* The host runner, which this repository does not hold, returns a result or raises.
RunOnHost(c) ==
  /\ pyCall[c].at = "started" /\ pyCall[c].target = "host"
  /\ \/ Ended(c, RunLocally(pyCall[c].job, pyCall[c].limit), pyCall[c].dir)
     \/ Step(c, "raised")
  /\ UNCHANGED <<pyRuntime, hostWorker, pyTimeout, pyReloads, pyBox>>

Local(c) ==
  IF pyCall[c].job.names = "unsafe" /\ pyCall[c].job.action # "execute"
    THEN Step(c, "raised")
    ELSE Ended(c, RunLocally(pyCall[c].job, pyCall[c].limit), pyCall[c].dir)

\* Without a sandbox manager, the sandbox is a subprocess of the tool.
RunWithoutManager(c) ==
  /\ pyCall[c].at = "started" /\ pyCall[c].target = "sandbox" /\ pyRuntime = "none"
  /\ Local(c)
  /\ UNCHANGED <<pyRuntime, hostWorker, pyTimeout, pyReloads, pyBox>>

\* allocate, for the request of _build_request: the shared sandbox is reused
\* with the mount it has, or created with this call's; the call then awaits.
ReuseBox(c) ==
  /\ pyCall[c].at = "started" /\ pyCall[c].target = "sandbox" /\ pyRuntime # "none"
  /\ pyBox.known
  /\ Step(c, "placed")
  /\ UNCHANGED <<pyRuntime, hostWorker, pyTimeout, pyReloads, pyBox>>
CreateBox(c) ==
  /\ pyCall[c].at = "started" /\ pyCall[c].target = "sandbox" /\ pyRuntime # "none"
  /\ ~pyBox.known
  /\ \E up \in {TRUE, pyRuntime = "memory"} :
       /\ pyBox' = [mount |-> MountRoot(pyCall[c].dir), up |-> up, known |-> TRUE]
       /\ Step(c, IF up THEN "placed" ELSE "raised")
  /\ UNCHANGED <<pyRuntime, hostWorker, pyTimeout, pyReloads>>

\* The in-memory runtime has no container to run in.
RunLocalFallback(c) ==
  /\ pyCall[c].at = "placed" /\ pyRuntime = "memory"
  /\ Local(c)
  /\ UNCHANGED <<pyRuntime, hostWorker, pyTimeout, pyReloads, pyBox>>

\* A container that is not there, or unsafe names, raise; a directory that is
\* not there fails the command.
RunSandboxed(c) ==
  /\ pyCall[c].at = "placed" /\ pyRuntime = "docker"
  /\ LET job == pyCall[c].job  path == HostPath(pyCall[c].dir) IN
     IF ~pyBox.up \/ (job.names = "unsafe" /\ job.action # "execute") THEN Step(c, "raised")
     ELSE IF path \notin PyDirs THEN Ended(c, Result(FALSE, FALSE, 126), NowhereYet)
     ELSE Ended(c, RunInContainer(job, pyCall[c].limit), path)
  /\ UNCHANGED <<pyRuntime, hostWorker, pyTimeout, pyReloads, pyBox>>

\* reload_config: a new executor with the same collaborators; calls under way keep theirs.
ReloadTimeout ==
  /\ pyReloads < MaxPyReloads
  /\ pyReloads' = pyReloads + 1
  /\ pyTimeout' \in PyTimeouts \ {pyTimeout}
  /\ UNCHANGED <<pyRuntime, hostWorker, pyBox, pyCall>>

PyNext ==
  \/ \E c \in PyCalls :
       \/ \E job \in PyJobs, dir \in PyAsked, host \in BOOLEAN : HandleToolCall(c, job, dir, host)
       \/ RunOnHost(c) \/ RunWithoutManager(c) \/ ReuseBox(c) \/ CreateBox(c)
       \/ RunLocalFallback(c) \/ RunSandboxed(c)
  \/ ReloadTimeout

(***************************************************************************)
(* Properties                                                              *)
(***************************************************************************)
\* While all calls of the sandbox lie below the same allowed roots, each that
\* runs does so in the directory it asked for, though they share one container:
\* the path of _container_working_directory is relative to what the first of
\* them mounted.
RunsWhereAsked ==
  \A c \in PyCalls :
    pyCall[c].at = "returned" /\ pyCall[c].ranIn \notin {pyCall[c].dir, NowhereYet} =>
      \/ AllowedRoots = {}
      \/ \E d \in PyCalls : /\ pyCall[d].at # "idle" /\ pyCall[d].target = "sandbox"
                            /\ Around(pyCall[d].dir) # Around(pyCall[c].dir)

\* ExecutionResult.success, "only when the subprocess did not time out, did not
\* raise a traceback, and exited with status 0": a call reported as complete
\* ran a process that ended so.
SuccessMeansExitZero ==
  \A c \in PyCalls :
    pyCall[c].at = "returned" /\ pyCall[c].target = "sandbox" /\ pyCall[c].job.names = "fine"
      /\ "complete" \in Range(pyCall[c].events) => ExitStatus(pyCall[c].job) = 0
=============================================================================
