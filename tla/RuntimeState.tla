---------------------------- MODULE RuntimeState ----------------------------
(***************************************************************************)
(* core/runtime_support.py, class RuntimeState: the status file of the     *)
(* pipeline.  A request of the API (app/main.py) loads the whole file,     *)
(* changes what it loaded, and saves the whole of it once per mark, while  *)
(* other requests, each in a thread of its own, do the same.  The saves    *)
(* are the writes of AtomicFile.                                           *)
(*                                                                         *)
(* A state is the set of the marks that went into it: the collections that *)
(* success_count counts and the daily builds that last_daily_build lists.  *)
(***************************************************************************)
EXTENDS AtomicFile

CONSTANT Marks      \* how many marks each request makes

MarksOf(w) == {w} \X (1..Marks[w])
Mark       == UNION {MarksOf(w) : w \in Writer}

ASSUME StateConstants ==
    /\ Marks \in [Writer -> Nat]
    /\ Payload = SUBSET Mark

VARIABLES
    phase,          \* where each request stands
    data,           \* self.data of each request
    saved,          \* the marks whose save returned
    mixed           \* requests that had the state in hand with another

state     == <<phase, data, saved, mixed>>
stateVars == <<vars, state>>

Phase == {"work", "holding", "done", "failed"}

StateInit ==
    /\ Init /\ val = [w \in Writer |-> {}]
    /\ phase = [w \in Writer |-> "work"] /\ data = [w \in Writer |-> {}]
    /\ saved = {} /\ mixed = {}

\* load_json_file: a file that is missing or not JSON is read as the default.
Loaded == IF Reading \in Payload THEN Reading ELSE {}

Holding == {w \in Writer : phase[w] = "holding"}

-----------------------------------------------------------------------------
\* Mutant: a request starts from the default, not from the file.
Load_Default(w) ==
    /\ phase[w] = "work" /\ phase' = [phase EXCEPT ![w] = "holding"]
    /\ data' = [data EXCEPT ![w] = {}]
    /\ mixed' = mixed \cup (IF Holding = {} THEN {} ELSE {w} \cup Holding)
    /\ UNCHANGED <<vars, saved>>

\* The request has done its work and makes a RuntimeState.
Load(w) ==
    /\ phase[w] = "work" /\ phase' = [phase EXCEPT ![w] = "holding"]
    /\ data' = [data EXCEPT ![w] = Loaded]
    /\ mixed' = mixed \cup (IF Holding = {} THEN {} ELSE {w} \cup Holding)
    /\ UNCHANGED <<vars, saved>>

\* Mutant: the state is saved before it is marked.
MarkAndSave_Early(w) ==
    /\ phase[w] = "holding"
    /\ \E m \in MarksOf(w) \ data[w] : data' = [data EXCEPT ![w] = @ \cup {m}]
    /\ Call(w) /\ val'[w] = data[w]
    /\ UNCHANGED <<phase, saved, mixed>>

MarkAndSave(w) ==
    /\ phase[w] = "holding"
    /\ \E m \in MarksOf(w) \ data[w] : data' = [data EXCEPT ![w] = @ \cup {m}]
    /\ Call(w) /\ val'[w] = data'[w]
    /\ UNCHANGED <<phase, saved, mixed>>

Saving(w) == (Open(w) \/ Write(w)) /\ UNCHANGED state

\* A save that cannot rename raises, and with it the request.
EndSave(w) ==
    /\ Replace(w)
    /\ IF answer'[w] = "ok"
       THEN saved' = saved \cup (data[w] \cap MarksOf(w)) /\ UNCHANGED phase
       ELSE phase' = [phase EXCEPT ![w] = "failed"] /\ UNCHANGED saved
    /\ UNCHANGED <<data, mixed>>

Answered(w) ==
    /\ phase[w] = "holding" /\ Idle(w) /\ MarksOf(w) \subseteq data[w]
    /\ phase' = [phase EXCEPT ![w] = "done"]
    /\ UNCHANGED <<vars, data, saved, mixed>>

\* The process dies, or a write of it fails.
Fails(w) ==
    /\ phase[w] = "holding" /\ phase' = [phase EXCEPT ![w] = "failed"]
    /\ Die(w) \/ (Idle(w) /\ UNCHANGED vars)
    /\ UNCHANGED <<data, saved, mixed>>

StateNext ==
    \E w \in Writer :
        \/ Load(w) \/ MarkAndSave(w) \/ Saving(w) \/ EndSave(w)
        \/ Answered(w) \/ Fails(w)

StateSpec == StateInit /\ [][StateNext]_stateVars

-----------------------------------------------------------------------------
RequestsOK ==
    /\ phase \in [Writer -> Phase] /\ data \in [Writer -> SUBSET Mark]
    /\ saved \subseteq Mark /\ mixed \subseteq Writer
    /\ \A w \in Writer : ~Idle(w) => phase[w] = "holding" /\ val[w] = data[w]
    /\ \A w, x \in Holding : w # x => w \in mixed
StateTypeOK == TypeOK /\ RequestsOK

\* The marks that must not be lost: those of a request that had the state to
\* itself from its load to its last save.
Owed == {m \in saved : m[1] \notin mixed}

\* Requests that hold the state at the same time lose each other's marks, but,
\* as long as none of their saves overlapped, nobody else's: they loaded them.
MarksKept == ~overlapped => Owed \subseteq Loaded

\* Saves that overlapped may leave a file that is read as the default, so that
\* every mark ever made is gone.  Whoever is left with a file in pieces, or
\* when all is quiet again without its marks, that did not go unnoticed: some
\* request failed.
LossIsAnnounced ==
    /\ BrokenIsAnnounced
    /\ (\A w \in Writer : phase[w] \in {"work", "done"}) => Owed \subseteq Loaded
=============================================================================
