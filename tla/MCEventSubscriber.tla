-------------------------- MODULE MCEventSubscriber --------------------------
(* Small instances of the PA's event stack for TLC. *)
EXTENDS EventSubscriber, TLC

CONSTANTS a1, a2

BothAndOne == {{a1, a2}, {a1}}

Symmetric == Permutations(Batches)
=============================================================================
