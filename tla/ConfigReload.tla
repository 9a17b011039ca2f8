------------------------------ MODULE ConfigReload ------------------------------
(***************************************************************************)
(* The watcher of configuration files of src/faith_pa/config/hot_reload.py *)
(* and the loading behind it.  A poll lists the files, then takes each in  *)
(* turn: it hashes it, and if the hash is new it validates it and awaits   *)
(* the handler, which reads the file again.  The user may edit a file      *)
(* between any two of these reads, and may bring back what a file said     *)
(* before.  A text is a number from 1 up.                                  *)
(***************************************************************************)
EXTENDS Naturals, FiniteSets

CONSTANTS ConfigFiles,
          ConfigTexts,     \* what a file may say, 1 at first, ...
          BrokenTexts,     \* ... and what of it fails the validation
          MaxEdits         \* bound on the edits of files

Missing == 0
Broken(v) == v \in BrokenTexts
NoHash == 0
Hash(v) == v + 1           \* a file that is missing has the hash of nothing

ASSUME ReloadConstants ==
  ConfigTexts \subseteq Nat \ {0} /\ 1 \in ConfigTexts \ BrokenTexts /\ MaxEdits \in Nat

VARIABLES file,       \* what each file says; Missing if there is none
          edits,      \* number of edits
          hash,       \* _hashes, the baselines
          applied,    \* the text the handler of each file read last
          task,       \* the watcher's task: stopped, runs, or died
          listed,     \* the poll: the files it listed, ...
          polling,    \* ... those it has yet to do, ...
          current,    \* ... the file it is at, ...
          seen,       \* ... the hash it took, ...
          step,       \* ... and what comes next
          born,       \* files that a poll found missing, or new, since the start
          restored    \* files that say again what they said when their hash was
                      \* taken, the handler having read another text (a history)

reloadVars == <<file, edits, hash, applied, task, listed, polling, current, seen, step, born,
                restored>>

NoFile == "no file"

ReloadInit ==
  /\ file = [f \in ConfigFiles |-> 1]
  /\ edits = 0
  /\ hash = [f \in ConfigFiles |-> NoHash]
  /\ applied = [f \in ConfigFiles |-> 1]
  /\ task = "stopped" /\ listed = {} /\ polling = {} /\ current = NoFile /\ seen = NoHash
  /\ step = "sleep"
  /\ born = {} /\ restored = {}

\* A file is written, or removed: an editor that replaces a file does both.
EditFile(f, text) ==
  /\ edits < MaxEdits /\ file[f] # text
  /\ edits' = edits + 1
  /\ file' = [file EXCEPT ![f] = text]
  /\ restored' = IF /\ Hash(text) = (IF current = f /\ step = "handled" THEN seen ELSE hash[f])
                    /\ applied[f] # text
                 THEN restored \cup {f} ELSE restored \ {f}
  /\ UNCHANGED <<hash, applied, task, listed, polling, current, seen, step, born>>
RemoveFile(f) ==
  /\ edits < MaxEdits /\ file[f] # Missing
  /\ file' = [file EXCEPT ![f] = Missing]
  /\ UNCHANGED <<edits, hash, applied, task, listed, polling, current, seen, step, born, restored>>

Idle == step' = "sleep" /\ listed' = {} /\ polling' = {} /\ current' = NoFile /\ seen' = NoHash

\* start, with refresh_snapshot; a task that died is taken for a running one.
StartWatcher ==
  /\ task = "stopped"
  /\ task' = "runs"
  /\ hash' = [f \in ConfigFiles |-> IF file[f] = Missing THEN NoHash ELSE Hash(file[f])]
  /\ born' = {f \in ConfigFiles : file[f] # applied[f]}
  /\ Idle
  /\ UNCHANGED <<file, edits, applied, restored>>

\* stop: the task is cancelled wherever it is.
StopWatcher ==
  /\ task # "stopped"
  /\ task' = "stopped"
  /\ Idle
  /\ UNCHANGED <<file, edits, hash, applied, born, restored>>

\* poll_once, discover_files.
BeginPoll ==
  /\ task = "runs" /\ step = "sleep"
  /\ step' = "next"
  /\ listed' = {f \in ConfigFiles : file[f] # Missing}
  /\ polling' = listed'
  /\ UNCHANGED <<file, edits, hash, applied, task, current, seen, born, restored>>

\* The hash of the next file.  A file without baseline gets one, and a file
\* that was removed meanwhile has the hash of nothing.
TakeHash(f) ==
  /\ task = "runs" /\ step = "next" /\ f \in polling
  /\ polling' = polling \ {f}
  /\ IF hash[f] = NoHash
     THEN /\ hash' = [hash EXCEPT ![f] = Hash(file[f])]
          /\ born' = born \cup {f}
          /\ UNCHANGED <<current, seen, step>>
     ELSE /\ IF hash[f] = Hash(file[f]) THEN UNCHANGED <<current, seen, step>>
             ELSE current' = f /\ seen' = Hash(file[f]) /\ step' = "validate"
          /\ UNCHANGED <<hash, born>>
  /\ UNCHANGED <<file, edits, applied, task, listed, restored>>

\* _validate reads the file again: one that fails is announced, and is tried
\* again by the next poll.
Validate ==
  /\ task = "runs" /\ step = "validate"
  /\ step' = IF file[current] = Missing \/ Broken(file[current]) THEN "next" ELSE "handle"
  /\ UNCHANGED <<file, edits, hash, applied, task, listed, polling, current, seen, born, restored>>

\* A bug the runs must notice: the hash is taken of what the file says after
\* the handler has returned.
HandleThenHash ==
  /\ task = "runs" /\ step = "handled"
  /\ step' = "next"
  /\ hash' = [hash EXCEPT ![current] = Hash(file[current])]
  /\ UNCHANGED <<file, edits, applied, task, listed, polling, current, seen, born, restored>>

\* The handler reads the file; nothing catches what it raises.
Handle ==
  /\ task = "runs" /\ step = "handle"
  /\ IF file[current] = Missing \/ Broken(file[current])
     THEN task' = "died" /\ UNCHANGED <<applied, step, restored>>
     ELSE /\ applied' = [applied EXCEPT ![current] = file[current]]
          /\ step' = "handled" /\ restored' = restored \ {current}
          /\ UNCHANGED task
  /\ UNCHANGED <<file, edits, hash, listed, polling, current, seen, born>>

\* The handler returns: the hash is the one that was taken before it.
Handled ==
  /\ task = "runs" /\ step = "handled"
  /\ step' = "next"
  /\ hash' = [hash EXCEPT ![current] = seen]
  /\ UNCHANGED <<file, edits, applied, task, listed, polling, current, seen, born, restored>>

\* The end of a poll: baselines of files that were not listed are dropped.
EndPoll ==
  /\ task = "runs" /\ step = "next" /\ polling = {}
  /\ Idle
  /\ hash' = [f \in ConfigFiles |-> IF f \in listed THEN hash[f] ELSE NoHash]
  /\ born' = born \cup (ConfigFiles \ listed)
  /\ UNCHANGED <<file, edits, applied, task, restored>>

Poll == \/ BeginPoll \/ Validate \/ Handle \/ Handled \/ EndPoll
        \/ \E f \in ConfigFiles : TakeHash(f)

ReloadNext ==
  \/ \E f \in ConfigFiles : RemoveFile(f) \/ \E text \in ConfigTexts : EditFile(f, text)
  \/ StartWatcher \/ StopWatcher \/ Poll

(***************************************************************************)
(* A text that stays in a file and passes the validation is handed to the  *)
(* handler in the end, however the edits and the reads of the polls        *)
(* interleave -- unless the watcher is stopped, has died, or has once seen *)
(* the file missing or new, or the text was there when the file was hashed *)
(* and is brought back after the handler has read another one in its       *)
(* place, which the watcher takes for no change.                           *)
(***************************************************************************)
ChangeIsApplied ==
  \A f \in ConfigFiles :
    \/ []<>(task # "runs")
    \/ <>[](\/ applied[f] = file[f] \/ file[f] = Missing \/ Broken(file[f])
            \/ f \in born \/ f \in restored)
=============================================================================
