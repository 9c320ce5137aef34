----------------------------- MODULE DedupStore -----------------------------
(***************************************************************************)
(* core/mcp_scheduler.py, class DedupStore: the persistent record of which *)
(* report windows have been attempted and how the attempts ended.          *)
(*                                                                         *)
(* `mem' is the dictionary _in_memory of the running process.  `file' is   *)
(* what _load would build from data/dedup_state.jsonl: for every key the   *)
(* last line that parses.  `torn' says that the file ends in a partial     *)
(* line without its newline; the next append is glued to that line, and    *)
(* the two together parse as nothing.                                      *)
(*                                                                         *)
(* The timestamp of a record is read for IN_PROGRESS alone, so the records *)
(* in any other state carry 0.                                             *)
(***************************************************************************)
EXTENDS WindowKeys

CONSTANT Timeout    \* _IN_PROGRESS_TIMEOUT_SECONDS

ASSUME TimeoutConstant == Timeout \in Nat

VARIABLES mem, file, torn

store == <<mem, file, torn>>

State == {"NONE", "IN_PROGRESS", "SUCCESS", "FAILED", "SKIPPED"}

\* A record, and the absence of one.
Record   == [state : State, at : Time]
NoRecord == [state |-> "NONE", at |-> 0]

Stamp(st, t) == [state |-> st, at |-> IF st = "IN_PROGRESS" THEN t ELSE 0]

EmptyStore == [w \in Window |-> [s \in Symbol |-> NoRecord]]

StoreTypeOK ==
    /\ mem  \in [Window -> [Symbol -> Record]]
    /\ file \in [Window -> [Symbol -> Record]]
    /\ torn \in BOOLEAN

StoreInit ==
    /\ mem  = EmptyStore
    /\ file = EmptyStore
    /\ torn = FALSE

-----------------------------------------------------------------------------
(* Reading the dictionary. *)

IsCompleted(w, s) == mem[w][s].state \in {"SUCCESS", "SKIPPED"}

\* Mutant: an IN_PROGRESS record never goes stale.
CanRetry_NeverStale(w, s, t) == mem[w][s].state \in {"NONE", "FAILED"}

\* Mutant: whatever is not IN_PROGRESS may be tried again.
CanRetry_AnythingEnded(w, s, t) ==
    mem[w][s].state = "IN_PROGRESS" => t - mem[w][s].at > Timeout

CanRetry(w, s, t) ==
    \/ mem[w][s].state \in {"NONE", "FAILED"}
    \/ mem[w][s].state = "IN_PROGRESS" /\ t - mem[w][s].at > Timeout

-----------------------------------------------------------------------------
(* Writing: the dictionary first, then one line appended to the file. *)

SetMem(w, s, st, t) == mem' = [mem EXCEPT ![w][s] = Stamp(st, t)]

MarkState(w, s, st, t) ==
    /\ SetMem(w, s, st, t)
    /\ file' = IF torn THEN file ELSE [file EXCEPT ![w][s] = Stamp(st, t)]
    /\ torn' = FALSE

\* The append raises, perhaps after part of the line reached the file: the
\* dictionary already holds the new state.
MarkStateFails(w, s, st, t) ==
    /\ SetMem(w, s, st, t)
    /\ torn' \in {torn, TRUE}
    /\ UNCHANGED file

\* Mutant: the store is not read back.
Load_Nothing == mem' = EmptyStore /\ UNCHANGED <<file, torn>>

\* A new process reads the file back ...
Load == mem' = file /\ UNCHANGED <<file, torn>>

\* ... or cannot open it, logs a warning and starts empty.
LoadFails == mem' = EmptyStore /\ UNCHANGED <<file, torn>>

\* The process dies.  `appending' says that it was inside mark_state, where
\* part of a line may be all that reached the file.
LoseMemory(appending) ==
    /\ torn' \in IF appending THEN {torn, TRUE} ELSE {torn}
    /\ mem' = EmptyStore
    /\ UNCHANGED file
=============================================================================
