---------------------------- MODULE MCApprovalFlow ----------------------------
(* Small instances of the approval flow for TLC. *)
EXTENDS ApprovalFlow, TLC

CONSTANTS x, y   \* two files of one folder

\* An exact scope covers the file, a folder scope its siblings too.
MCCover == [f \in {x, y} |-> [s \in {"exact", "folder"} |->
              IF s = "exact" THEN {f} ELSE {x, y}]]
MCCoverExact == [f \in {x} |-> [s \in {"exact"} |-> {f}]]

NoRules == [section \in Sections |-> [a \in Agents |-> {}]]

\* The user has allowed y for every agent.
AllowsY == [NoRules EXCEPT !["always_allow"] = [a \in Agents |-> {{y}}]]

Symmetric == Permutations(Requests) \cup Permutations(Calls)
SymmetricAgents == Symmetric \cup Permutations(Agents)
=============================================================================
