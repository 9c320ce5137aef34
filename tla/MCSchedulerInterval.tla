------------------------ MODULE MCSchedulerInterval ------------------------
(***************************************************************************)
(* The spacing of intraday briefs, observed with a history variable: the   *)
(* clock reading with which the last completed brief of each market        *)
(* started, the value _last_intraday takes but not lost with the process.  *)
(* One market, one session, no failed write, one restart.                  *)
(***************************************************************************)
EXTENDS McpScheduler

CONSTANTS sym, US

VARIABLE briefAt

OpenMarket    == <<US>>
OneSymbol     == [mk \in {US} |-> {sym}]
NoOffset      == [mk \in {US} |-> 0]
AlwaysRegular ==
    [mk \in {US} |->
        [t \in Time |-> {[open |-> TRUE, session |-> "regular",
                          close |-> NoClose]}]]

ObserveBrief ==
    briefAt' = IF closed' \ closed # {}
               THEN [briefAt EXCEPT ![job.market] = localNow]
               ELSE briefAt

BriefSpec ==
    /\ Init /\ briefAt = [mk \in Market |-> Never]
    /\ [][Next /\ ObserveBrief]_<<vars, briefAt>>

\* "Every 2 hours during active market sessions": a brief starts no earlier than
\* Interval after the start of the last one that completed.
BriefsAreSpaced ==
    [][pc = "intraday" /\ pc' = "marking" /\ briefAt[mkt] # Never
         => now - briefAt[mkt] >= Interval]_<<vars, briefAt>>
=============================================================================
