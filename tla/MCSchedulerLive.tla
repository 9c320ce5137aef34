-------------------------- MODULE MCSchedulerLive --------------------------
(***************************************************************************)
(* Liveness of McpScheduler: two markets that close at different times,    *)
(* one symbol each, a third market without symbols (the HK entry of the    *)
(* default configuration is one), one death of the process and one fault.  *)
(***************************************************************************)
EXTENDS McpScheduler

CONSTANTS sym, US, HK, CN

ThreeMarkets == <<HK, CN, US>>
LiveSymbols  == [mk \in Market |-> IF mk = CN THEN {} ELSE {sym}]
LiveOffset   == [mk \in Market |-> IF mk = HK THEN 12 ELSE 0]
CloseOf      == [mk \in Market |-> IF mk = HK THEN 0 ELSE 1]

LiveFeed ==
    [mk \in Market |->
        [t \in Time |->
            IF t < CloseOf[mk]
            THEN {[open |-> TRUE, session |-> "regular", close |-> NoClose]}
            ELSE {[open |-> FALSE, session |-> "closed",
                   close |-> CloseOf[mk]]}]]

\* The clock of the instance stops at MaxTime; faults strike early enough for a
\* record left IN_PROGRESS to go stale before that.
FaultsEarly ==
    crashes' + faults' > crashes + faults => now + Timeout < MaxTime

LiveSpec == Init /\ [][Next /\ FaultsEarly]_vars /\ Fairness

Served == {mk \in Market : SymbolsOf[mk] # {}}

\* The daily report of every market goes out, or its handler is called again
\* and again: neither a death of the process in any step, nor a failed append,
\* nor what happens to the other markets of the list leaves a market waiting
\* for ever.
EveryMarketServed ==
    \A mk \in Served :
        LET w == DailyWindow(mk, CloseOf[mk])
        IN  \/ <>(delivered[w] >= 1)
            \/ []<>(pc = "handler" /\ job = w)
=============================================================================
