---------------------------- MODULE MCChatRuntime ----------------------------
(* Small instances of the Project Agent's chat and of its session manager. *)
EXTENDS ChatRuntime

\* A conversation long enough for its third turn to compact the first.
Conversation == <<{"urgent"}, {"inventory", "family"}, {"rule", "unfit"}>>
=============================================================================
