---------------------------- MODULE McpScheduler ----------------------------
(***************************************************************************)
(* core/mcp_scheduler.py, class McpScheduler: the loop run_forever of the  *)
(* service process, with the dedup store it writes, the process manager    *)
(* that restarts it, the clock, the market data provider it polls and the  *)
(* report handlers it calls.                                               *)
(*                                                                         *)
(* The provider is the constant Feed: the statuses it may report of each   *)
(* market at each time.  A handler is seen from outside: it delivers the   *)
(* report to its channels or not, and answers True or not.                 *)
(*                                                                         *)
(* The clock may advance between any two steps, so a status, a clock       *)
(* reading or a dedup answer may be old when it is used.                   *)
(***************************************************************************)
EXTENDS DedupStore, Sequences

CONSTANTS
    Markets,        \* the list `markets', in the order the loop visits it
    Delay,          \* post_market_delay_minutes
    Feed,           \* the statuses the provider may report: market, time
    MaxCrashes,     \* bound on the deaths of the process
    MaxFaults       \* bound on failed writes, failed loads, wrong answers

\* What a provider reports of a market; a close of NoClose is unknown.  A market
\* it leaves out has NoStatus.
NoClose  == -1
Session  == ActiveSession \cup {"closed", "holiday", "unknown", "none"}
Status   == [open : BOOLEAN, session : Session, close : Time \cup {NoClose}]
NoStatus == [open |-> FALSE, session |-> "none", close |-> NoClose]

ASSUME SchedulerConstants ==
    /\ Markets \in Seq(Market) /\ Markets # <<>>
    /\ Delay \in Nat
    /\ Feed \in [Market -> [Time -> SUBSET Status]]
    /\ MaxCrashes \in Nat
    /\ MaxFaults \in Nat

VARIABLES
    (* the environment *)
    now,            \* the clock
    (* the process *)
    pc,             \* where run_forever stands
    m,              \* index in Markets of the market being served
    status,         \* the statuses fetched at the start of the tick
    localNow,       \* the clock reading of the market being served
    job,            \* the window of the run in hand
    todo,           \* the symbols of the run still to be marked
    result,         \* final_state of the run
    lastIntraday,   \* _last_intraday: start of the last successful brief
    lastDaily,      \* _last_daily: dates whose daily report succeeded
    (* observation *)
    delivered,      \* how often the report of a window went out
    excuses,        \* faults that hit a window after its report went out
    blind,          \* the process at work could not read the file
    closed,         \* windows marked SUCCESS since the last such process began
    crashes, faults \* spent of MaxCrashes and of MaxFaults

memory  == <<lastIntraday, lastDaily>>
run     == <<job, todo, result>>
tick    == <<m, status, localNow>>
history == <<delivered, excuses, blind, closed>>
budget  == <<crashes, faults>>
vars    == <<now, pc, tick, run, memory, store, history, budget>>

Never == -1
NoJob == [market |-> Markets[1], type |-> "none", date |-> 0,
          slot |-> <<"none", 0>>]

mkt == Markets[m]

NoStatuses == [mk \in Market |-> NoStatus]
NeverRun   == [mk \in Market |-> [s \in ActiveSession |-> Never]]

Init ==
    /\ now = 0
    /\ pc = "down"
    /\ m = 1 /\ status = NoStatuses /\ localNow = 0
    /\ job = NoJob /\ todo = {} /\ result = "FAILED"
    /\ lastIntraday = NeverRun /\ lastDaily = {}
    /\ StoreInit
    /\ delivered = [w \in Window |-> 0]
    /\ excuses   = [w \in Window |-> 0]
    /\ blind = FALSE
    /\ closed = {}
    /\ crashes = 0 /\ faults = 0

-----------------------------------------------------------------------------
(* The ways a step of the loop leaves its market. *)

\* time.sleep, reached at the end of the markets or through the except clause
\* of the loop; what the tick held is gone.
EndTick ==
    /\ pc' = "sleep"
    /\ m' = 1 /\ status' = NoStatuses /\ localNow' = 0

NoRun == job' = NoJob /\ todo' = {} /\ result' = "FAILED"

\* The clock reading is not used after the intraday part of the market.
GoToDaily == pc' = "daily" /\ localNow' = 0 /\ UNCHANGED <<m, status>>

\* Mutant: the loop does not notice the end of the list.
NextMarket_NoEnd ==
    pc' = "market" /\ m' = m + 1 /\ localNow' = 0 /\ UNCHANGED status

NextMarket ==
    IF m = Len(Markets)
    THEN EndTick
    ELSE pc' = "market" /\ m' = m + 1 /\ localNow' = 0 /\ UNCHANGED status

\* log_run appends to run_logs.jsonl and may raise, which ends the tick.
LogRaises ==
    /\ faults < MaxFaults
    /\ faults' = faults + 1
    /\ EndTick

-----------------------------------------------------------------------------
(* The process: started and restarted by the service manager. *)

\* The window whose report is out while its SUCCESS is not yet in the file for
\* every symbol.
InFlight ==
    {w \in {job} : pc = "delivered" \/ (pc = "recording" /\ result = "SUCCESS")}

Excuse(ws) == [w \in Window |-> IF w \in ws THEN excuses[w] + 1 ELSE excuses[w]]

Boot ==
    /\ pc = "down"
    /\ pc' = "sleep"
    /\ \/ /\ Load
          /\ blind' = FALSE
          /\ UNCHANGED <<excuses, closed, faults>>
       \/ /\ faults < MaxFaults
          /\ faults' = faults + 1
          /\ LoadFails
          /\ blind' = TRUE
          /\ excuses' = Excuse(closed) /\ closed' = {}
    /\ UNCHANGED <<now, tick, run, memory, delivered, crashes>>

\* A kill, a machine fault, or a KeyboardInterrupt: the handler's
\* `except Exception' does not see it and the loop ends.
Crash ==
    /\ pc # "down"
    /\ crashes < MaxCrashes
    /\ crashes' = crashes + 1
    /\ pc' = "down"
    /\ LoseMemory(pc \in {"marking", "recording"})
    /\ m' = 1 /\ status' = NoStatuses /\ localNow' = 0
    /\ NoRun
    /\ lastIntraday' = NeverRun /\ lastDaily' = {}
    /\ excuses' = Excuse(InFlight)
    /\ UNCHANGED <<now, delivered, blind, closed, faults>>

-----------------------------------------------------------------------------
(* One tick: fetch the statuses of all markets, then serve them in order.  *)
(* Nothing happens in time.sleep, so a tick starts from it.                *)

Fetch ==
    /\ pc = "sleep"
    /\ pc' = "market"
    /\ status' \in [Market -> UNION {Feed[mk][now] : mk \in Market}]
    /\ \A mk \in Market : status'[mk] \in Feed[mk][now]
    /\ UNCHANGED <<now, m, localNow, run, memory, store, history, budget>>

\* The provider raised for one of the markets: the whole tick is given up.
FetchFails ==
    /\ pc = "sleep"
    /\ EndTick
    /\ UNCHANGED <<now, run, memory, store, history, budget>>

StartMarket ==
    /\ pc = "market"
    /\ IF SymbolsOf[mkt] = {} \/ status[mkt] = NoStatus
       THEN NextMarket
       ELSE pc' = "intraday" /\ localNow' = now /\ UNCHANGED <<m, status>>
    /\ UNCHANGED <<now, run, memory, store, history, budget>>

\* A clock that no other step waits for.
ClockTick ==
    /\ now < MaxTime
    /\ now' = now + 1
    /\ UNCHANGED <<pc, tick, run, memory, store, history, budget>>

-----------------------------------------------------------------------------
(* Whether a run is due. *)

NoneCompleted(w) == \A s \in SymbolsOf[mkt] : ~IsCompleted(w, s)

\* _is_intraday_window; it reads the clock again.
IsIntradayWindow ==
    LET st   == status[mkt]
        last == lastIntraday[mkt][st.session]
    IN  /\ st.open
        /\ st.session \in ActiveSession
        /\ last = Never \/ now - last >= Interval
        /\ NoneCompleted(IntradayWindow(mkt, now, st.session))

\* _is_post_market_window.
IsPostMarketWindow ==
    LET st   == status[mkt]
        date == LocalDate(mkt, st.close)
    IN  /\ ~st.open
        /\ st.session \notin {"holiday", "unknown", "none"}
        /\ st.close # NoClose
        /\ ~IsWeekend(date)
        /\ now - st.close >= Delay
        /\ <<mkt, date>> \notin lastDaily
        /\ NoneCompleted(DailyWindow(mkt, st.close))

\* Mutant: one symbol that may be retried lets the whole window run.
AllCanRetry_AnySymbol(w) == \E s \in SymbolsOf[mkt] : CanRetry(w, s, now)

AllCanRetry(w) == \A s \in SymbolsOf[mkt] : CanRetry(w, s, now)

StartRun(w) ==
    /\ pc' = "marking" /\ job' = w /\ todo' = SymbolsOf[mkt]
    /\ UNCHANGED <<tick, result, faults>>

\* The run keys carry the date and the bucket of the earlier clock reading.
CheckIntraday ==
    /\ pc = "intraday"
    /\ LET st == status[mkt]
           w  == IntradayWindow(mkt, localNow, st.session)
       IN  \/ IsIntradayWindow /\ AllCanRetry(w) /\ StartRun(w)
           \/ /\ IsIntradayWindow /\ ~AllCanRetry(w)
              /\ (NextMarket /\ UNCHANGED faults) \/ LogRaises
              /\ UNCHANGED run
           \/ /\ ~IsIntradayWindow
              /\ (GoToDaily /\ UNCHANGED faults) \/ (st.open /\ LogRaises)
              /\ UNCHANGED run
    /\ UNCHANGED <<now, memory, store, history, crashes>>

CheckDaily ==
    /\ pc = "daily"
    /\ LET st == status[mkt]
           w  == DailyWindow(mkt, st.close)
       IN  \/ IsPostMarketWindow /\ AllCanRetry(w) /\ StartRun(w)
           \/ /\ ~(IsPostMarketWindow /\ AllCanRetry(w))
              /\ (NextMarket /\ UNCHANGED faults) \/ (~st.open /\ LogRaises)
              /\ UNCHANGED run
    /\ UNCHANGED <<now, memory, store, history, crashes>>

-----------------------------------------------------------------------------
(* One run: mark IN_PROGRESS symbol by symbol, call the handler, mark the  *)
(* outcome symbol by symbol.                                               *)

MarkInProgress ==
    /\ pc = "marking"
    /\ \E s \in todo :
          /\ MarkState(job, s, "IN_PROGRESS", now)
          /\ todo' = todo \ {s}
    /\ pc' = IF todo' = {} THEN "handler" ELSE "marking"
    /\ UNCHANGED <<now, tick, job, result, memory, history, budget>>

\* mark_state raised: the loop's except clause drops the run.
MarkInProgressFails ==
    /\ pc = "marking"
    /\ faults < MaxFaults
    /\ faults' = faults + 1
    /\ \E s \in todo : MarkStateFails(job, s, "IN_PROGRESS", now)
    /\ EndTick /\ NoRun
    /\ UNCHANGED <<now, memory, history, crashes>>

\* The handler's report goes out on its channels.
Deliver ==
    /\ pc = "handler"
    /\ pc' = "delivered"
    /\ delivered' = [delivered EXCEPT ![job] = @ + 1]
    /\ UNCHANGED <<now, tick, run, memory, store, excuses, blind, closed,
                   budget>>

StartRecording(st) == pc' = "recording" /\ result' = st /\ todo' = SymbolsOf[mkt]

\* It ends before delivery: validation failed, or an exception.
HandlerFails ==
    /\ pc = "handler"
    /\ StartRecording("FAILED")
    /\ UNCHANGED <<now, tick, job, memory, store, history, budget>>

HandlerSucceeds ==
    /\ pc = "delivered"
    /\ StartRecording("SUCCESS")
    /\ UNCHANGED <<now, tick, job, memory, store, history, budget>>

\* It delivers and yet answers False: the run log could not be written.
HandlerDenies ==
    /\ pc = "delivered"
    /\ faults < MaxFaults
    /\ faults' = faults + 1
    /\ StartRecording("FAILED")
    /\ excuses' = Excuse(InFlight)
    /\ UNCHANGED <<now, tick, job, memory, store, delivered, blind, closed,
                   crashes>>

\* After the last symbol a success is remembered, and the loop goes on.
FinishRun ==
    LET daily == job.type = "daily_close_report"
        ok    == result = "SUCCESS"
    IN  /\ lastIntraday' =
              IF ok /\ ~daily
              THEN [lastIntraday EXCEPT ![mkt][status[mkt].session] = localNow]
              ELSE lastIntraday
        /\ lastDaily' = IF ok /\ daily THEN lastDaily \cup {<<mkt, job.date>>}
                                       ELSE lastDaily
        /\ closed' = IF ok THEN closed \cup {job} ELSE closed
        /\ IF daily THEN NextMarket ELSE GoToDaily
        /\ NoRun

\* Mutant: the outcome is written as FAILED whatever the handler said.
RecordResult_AlwaysFailed ==
    /\ pc = "recording"
    /\ \E s \in todo :
          /\ MarkState(job, s, "FAILED", now)
          /\ IF todo = {s}
             THEN FinishRun
             ELSE /\ todo' = todo \ {s}
                  /\ UNCHANGED <<pc, tick, job, result, memory, closed>>
    /\ UNCHANGED <<now, delivered, excuses, blind, budget>>

RecordResult ==
    /\ pc = "recording"
    /\ \E s \in todo :
          /\ MarkState(job, s, result, now)
          /\ IF todo = {s}
             THEN FinishRun
             ELSE /\ todo' = todo \ {s}
                  /\ UNCHANGED <<pc, tick, job, result, memory, closed>>
    /\ UNCHANGED <<now, delivered, excuses, blind, budget>>

RecordResultFails ==
    /\ pc = "recording"
    /\ faults < MaxFaults
    /\ faults' = faults + 1
    /\ \E s \in todo : MarkStateFails(job, s, result, now)
    /\ excuses' = Excuse(InFlight)
    /\ EndTick /\ NoRun
    /\ UNCHANGED <<now, memory, delivered, blind, closed, crashes>>

-----------------------------------------------------------------------------

\* The steps the loop takes by itself.
Loop ==
    \/ Fetch \/ FetchFails \/ StartMarket
    \/ CheckIntraday \/ CheckDaily
    \/ MarkInProgress \/ MarkInProgressFails
    \/ Deliver \/ HandlerFails \/ HandlerSucceeds \/ HandlerDenies
    \/ RecordResult \/ RecordResultFails

Next == Boot \/ Crash \/ ClockTick \/ Loop

Spec == Init /\ [][Next]_vars

\* The service manager restarts the process, the clock runs, a handler returns
\* and the provider answers now and then: a poll that fails changes nothing,
\* so fairness of the loop asks for one that succeeds.
Fairness == WF_vars(Boot) /\ WF_vars(ClockTick) /\ WF_vars(Loop)

-----------------------------------------------------------------------------
(* Properties. *)

Job == Window \cup {NoJob}

PC == {"down", "sleep", "market", "intraday", "marking", "handler",
       "delivered", "recording", "daily"}

\* Every variable has its type, and a run in hand is a window of the market
\* being served.
TypeOK ==
    /\ now \in Time /\ pc \in PC
    /\ m \in 1..Len(Markets)
    /\ status \in [Market -> Status] /\ localNow \in Time
    /\ job \in Job /\ todo \in SUBSET Symbol
    /\ result \in {"SUCCESS", "FAILED"}
    /\ pc \in {"marking", "handler", "delivered", "recording"}
          => job \in Window /\ job.market = mkt
    /\ lastIntraday \in [Market -> [ActiveSession -> Time \cup {Never}]]
    /\ lastDaily \subseteq Market \X {w.date : w \in Window}
    /\ StoreTypeOK
    /\ delivered \in [Window -> Nat] /\ excuses \in [Window -> Nat]
    /\ blind \in BOOLEAN /\ closed \subseteq Window
    /\ crashes \in 0..MaxCrashes /\ faults \in 0..MaxFaults

\* A window that ran to the end and was marked SUCCESS stays SUCCESS on disk
\* for all its symbols, through crashes, torn lines and failed appends, until a
\* process starts that cannot read the file.
SuccessSurvives ==
    \A w \in closed : \A s \in SymbolsOf[w.market] : file[w][s].state = "SUCCESS"

\* The report of a window goes out once, and once more for each fault that hit
\* the window between its delivery and its SUCCESS record (a death of the
\* process, a failed append, a handler that denied the delivery) or that hid
\* that record from a starting process.  Restarts at any other moment, timeouts,
\* slow handlers and straddled buckets never repeat a report.
DeliveriesExplained ==
    \A w \in Window :
        delivered[w] = excuses[w] + IF w \in closed \cup InFlight THEN 1 ELSE 0

\* An attempt that is on disk as IN_PROGRESS is not repeated before the timeout
\* has passed, by this process or by one started after it, unless this very
\* process saw the attempt fail or could not read the file.
RetryOnlyAfterTimeout ==
    [][job' # job /\ job' # NoJob =>
         \A s \in SymbolsOf[job'.market] :
            LET r == file[job'][s]
            IN  r.state = "IN_PROGRESS" =>
                  \/ now - r.at > Timeout
                  \/ mem[job'][s].state = "FAILED"
                  \/ blind]_vars

\* The window whose report is still to come, or is out and not settled.
InHand == {w \in {job} : pc \in {"marking", "handler"}} \cup InFlight

Promise == INSTANCE ReportPromise WITH
    inHand  <- InHand,
    out     <- InFlight,
    settled <- closed,
    sent    <- delivered,
    lost    <- excuses

\* With its records, its timeouts and its restarts the scheduler keeps the
\* promise that the service makes: a window that ran to the end is never begun
\* again, and none goes out twice unless a fault took the first one away.
KeepsPromise == Promise!Spec
=============================================================================
