----------------------------- MODULE ApprovalGate -----------------------------
(***************************************************************************)
(* What the approval flow promises to the code that asks for an approval,  *)
(* without its futures, maps and suspension points: decisions are recorded *)
(* in the audit log of a request, and the caller, if it gets a decision at *)
(* all, gets the first one recorded.  Later records never change what the  *)
(* caller was told; a caller that gets no decision gets an exception.      *)
(***************************************************************************)
EXTENDS Sequences

CONSTANTS Requests,   \* the calls of request_approval
          Decisions   \* what a user can answer

VARIABLES audit,      \* for every request, the decisions recorded for it
          verdict     \* for every request, what its caller was told

NoVerdict == "none"
Exceptions == {"timeout", "cancelled", "lost"}

Init ==
  /\ audit = [u \in Requests |-> <<>>]
  /\ verdict = [u \in Requests |-> NoVerdict]

Record(u, d) ==
  /\ audit' = [audit EXCEPT ![u] = Append(@, d)]
  /\ UNCHANGED verdict

Return(u) ==
  /\ verdict[u] = NoVerdict
  /\ audit[u] # <<>>
  /\ verdict' = [verdict EXCEPT ![u] = Head(audit[u])]
  /\ UNCHANGED audit

\* The callers in U get an exception: one of them, or all those waiting when
\* the process stops.
Raise(U) ==
  /\ \A u \in U : verdict[u] = NoVerdict
  /\ \E e \in Exceptions : verdict' = [u \in Requests |-> IF u \in U THEN e ELSE verdict[u]]
  /\ UNCHANGED audit

Next ==
  \/ \E u \in Requests, d \in Decisions : Record(u, d)
  \/ \E u \in Requests : Return(u)
  \/ \E U \in SUBSET Requests : Raise(U)

Spec == Init /\ [][Next]_<<audit, verdict>>
=============================================================================
