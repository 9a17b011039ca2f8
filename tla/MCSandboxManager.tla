--------------------------- MODULE MCSandboxManager ---------------------------
(* Small instances of the sandbox manager for TLC. *)
EXTENDS SandboxManager, TLC

CONSTANTS t1, t2, t3, a, b

\* Three tasks of two agents.
MCAgentOf == (t1 :> a) @@ (t2 :> b) @@ (t3 :> b)
=============================================================================
