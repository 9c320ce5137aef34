--------------------------- MODULE ReportHandler ---------------------------
(***************************************************************************)
(* What the scheduler may rely on of a report handler, on_intraday or      *)
(* on_daily_close: the assumption McpScheduler makes of it with its        *)
(* actions Deliver, HandlerFails, HandlerSucceeds and HandlerDenies.       *)
(*                                                                         *)
(* A call either ends without a delivery and answers False, or delivers    *)
(* the report once and then answers True.  Only a call that a fault has    *)
(* disturbed may deliver and yet answer False.  A call that answered True  *)
(* is not made again.                                                      *)
(***************************************************************************)
VARIABLES phase, answer, disturbed

vars == <<phase, answer, disturbed>>

Phase  == {"idle", "called", "delivered"}
Answer == {"none", "true", "false"}

Init == phase = "idle" /\ answer = "none" /\ disturbed = FALSE

Call ==
    /\ phase = "idle" /\ answer # "true"
    /\ phase' = "called" /\ answer' = "none" /\ disturbed' = FALSE

\* Something the handler depends on fails; the call goes on.
Disturb ==
    /\ phase # "idle"
    /\ disturbed' = TRUE
    /\ phase' \in {phase, IF phase = "called" THEN "delivered" ELSE phase}
    /\ UNCHANGED answer

Deliver ==
    /\ phase = "called"
    /\ phase' = "delivered"
    /\ UNCHANGED <<answer, disturbed>>

Return(a) == phase' = "idle" /\ answer' = a /\ disturbed' \in {disturbed, TRUE}

Fails    == phase = "called" /\ Return("false")
Succeeds == phase = "delivered" /\ Return("true")
Denies   == phase = "delivered" /\ Return("false") /\ disturbed'

\* The process dies; nobody hears the answer.
Dies == phase # "idle" /\ Return("none")

Next == Call \/ Disturb \/ Deliver \/ Fails \/ Succeeds \/ Denies \/ Dies

Spec == Init /\ [][Next]_vars
=============================================================================
