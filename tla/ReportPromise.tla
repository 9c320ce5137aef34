--------------------------- MODULE ReportPromise ---------------------------
(***************************************************************************)
(* What the service promises of its report windows, whatever its parts do  *)
(* to keep it: one report is in hand at a time; a window that is settled   *)
(* is left alone; the report of a window goes out again only after it was  *)
(* lost, because a fault struck between its going out and its being        *)
(* settled or because the service forgot what it had settled.              *)
(***************************************************************************)
EXTENDS Naturals

CONSTANT Window

VARIABLES
    inHand,         \* the window whose report is being made, in a set
    out,            \* the same, once its report is out
    settled,        \* the windows that are done
    sent, lost      \* how often the report of a window went out, and was lost

vars == <<inHand, out, settled, sent, lost>>

More(count, ws) == [w \in Window |-> IF w \in ws THEN count[w] + 1 ELSE count[w]]

Init ==
    /\ inHand = {} /\ out = {} /\ settled = {}
    /\ sent = [w \in Window |-> 0] /\ lost = [w \in Window |-> 0]

Begin(w) ==
    /\ inHand = {} /\ w \notin settled
    /\ inHand' = {w}
    /\ UNCHANGED <<out, settled, sent, lost>>

Send ==
    /\ inHand # {} /\ out = {}
    /\ out' = inHand /\ sent' = More(sent, inHand)
    /\ UNCHANGED <<inHand, settled, lost>>

Done == inHand # {} /\ inHand' = {} /\ out' = {} /\ UNCHANGED sent

\* It ends before the report is out.
Fail == Done /\ out = {} /\ UNCHANGED <<settled, lost>>

Settle == Done /\ settled' = settled \cup out /\ out # {} /\ UNCHANGED lost

\* A fault strikes the window whose report is out.
Lose == Done /\ lost' = More(lost, out) /\ out # {} /\ UNCHANGED settled

\* The service starts without a memory of what it settled.
Forget ==
    /\ inHand = {}
    /\ settled' = {} /\ lost' = More(lost, settled)
    /\ UNCHANGED <<inHand, out, sent>>

Next == (\E w \in Window : Begin(w)) \/ Send \/ Fail \/ Settle \/ Lose \/ Forget

Spec == Init /\ [][Next]_vars

\* The report of a window is out once if it stands, and once for each time it
\* was lost; it is never out twice without having been lost between.
Accounted ==
    \A w \in Window : sent[w] = lost[w] + IF w \in settled \cup out THEN 1 ELSE 0
=============================================================================
