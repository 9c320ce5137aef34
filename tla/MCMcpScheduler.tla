--------------------------- MODULE MCMcpScheduler ---------------------------
(***************************************************************************)
(* A small instance of McpScheduler.  The unit of time is one hour: an     *)
(* interval of two, a timeout of one, and the post-market delay of a       *)
(* quarter of an hour rounded up to one.                                   *)
(***************************************************************************)
EXTENDS McpScheduler, TLC

CONSTANTS s1, s2, US

\* One market, open until CloseAt and closed after it.  At the close the provider
\* may be late and report it open, not know its state, or leave it out.
Reported(open, session, close) ==
    [open |-> open, session |-> session, close |-> close]

OneMarket        == <<US>>
OneMarketOffset  == [mk \in {US} |-> 0]
TwoSymbols       == [mk \in {US} |-> {s1, s2}]

CloseAt == 2

OneMarketFeed ==
    [mk \in {US} |->
        [t \in Time |->
            IF t < CloseAt THEN {Reported(TRUE, "regular", NoClose)}
            ELSE IF t = CloseAt THEN {Reported(TRUE, "regular", NoClose),
                                      Reported(FALSE, "unknown", NoClose),
                                      NoStatus}
            ELSE {Reported(FALSE, "closed", CloseAt)}]]

Symmetric == Permutations({s1, s2})
=============================================================================
