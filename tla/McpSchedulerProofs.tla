------------------------- MODULE McpSchedulerProofs -------------------------
(***************************************************************************)
(* Theorems about McpScheduler, for every calendar of the provider, every  *)
(* list of markets and symbols and every value of the bounds.              *)
(***************************************************************************)
EXTENDS McpScheduler, TLAPS

USE DEF vars, tick, run, memory, store, history, budget

-----------------------------------------------------------------------------
(* Type correctness. *)

\* Every key the loop forms is a window.
LEMMA KeysAreWindows ==
    ASSUME NEW mk \in Market, NEW t \in Time
    PROVE  /\ \A s \in ActiveSession : IntradayWindow(mk, t, s) \in Window
           /\ \A s \in ActiveSession : IntradayWindow(mk, t, s).market = mk
           /\ DailyWindow(mk, t) \in Window
           /\ DailyWindow(mk, t).market = mk
  BY DEF Window, IntradayWindow, DailyWindow

LEMMA ZeroIsTime == 0 \in Time /\ Time \subseteq Nat
  BY KeyConstants DEF Time

\* The market in hand is a market.
LEMMA MktIsMarket ==
    ASSUME m \in 1..Len(Markets)
    PROVE  mkt \in Market
  BY SchedulerConstants DEF mkt

LEMMA ExcuseType ==
    ASSUME TypeOK, NEW ws
    PROVE  Excuse(ws) \in [Window -> Nat]
  BY DEF Excuse, TypeOK

LEMMA InitType == Init => TypeOK
<1> SUFFICES ASSUME Init PROVE TypeOK
  OBVIOUS
<1>1. EmptyStore \in [Window -> [Symbol -> Record]]
  BY ZeroIsTime DEF EmptyStore, NoRecord, Record, State
<1>2. StoreTypeOK
  BY <1>1 DEF Init, StoreInit, StoreTypeOK
<1>3. Len(Markets) \in Nat \ {0} /\ Markets[1] \in Market
  BY SchedulerConstants
<1>4. NoStatuses \in [Market -> Status]
  BY DEF NoStatuses, NoStatus, Status, Session
<1>5. NeverRun \in [Market -> [ActiveSession -> Time \cup {Never}]]
  BY DEF NeverRun
<1>6. blind \in BOOLEAN
  BY Zenon DEF Init
<1> QED
  BY <1>2, <1>3, <1>4, <1>5, <1>6, ZeroIsTime, SchedulerConstants
  DEF Init, TypeOK, PC, Job

\* What the ways to leave a market assign.
LEMMA EndTickType ==
    ASSUME TypeOK, EndTick
    PROVE  /\ pc' = "sleep" /\ m' \in 1..Len(Markets)
           /\ status' \in [Market -> Status] /\ localNow' \in Time
<1>1. NoStatuses \in [Market -> Status]
  BY DEF NoStatuses, NoStatus, Status, Session
<1> QED
  BY <1>1, ZeroIsTime, SchedulerConstants DEF EndTick

LEMMA NextMarketType ==
    ASSUME TypeOK, NextMarket
    PROVE  /\ pc' \in {"sleep", "market"} /\ m' \in 1..Len(Markets)
           /\ status' \in [Market -> Status] /\ localNow' \in Time
<1>1. CASE m = Len(Markets)
  BY <1>1, EndTickType DEF NextMarket
<1>2. CASE m # Len(Markets)
  BY <1>2, ZeroIsTime, SchedulerConstants DEF NextMarket, TypeOK
<1> QED
  BY <1>1, <1>2

\* One record of a store replaced leaves a store.
LEMMA OneRecordReplaced ==
    ASSUME NEW st0 \in [Window -> [Symbol -> Record]], NEW r \in Record,
           NEW w \in Window, NEW s \in Symbol
    PROVE  [st0 EXCEPT ![w][s] = r] \in [Window -> [Symbol -> Record]]
<1> DEFINE row == [st0[w] EXCEPT ![s] = r]
<1>1. row \in [Symbol -> Record]
  OBVIOUS
<1>2. [st0 EXCEPT ![w] = row] \in [Window -> [Symbol -> Record]]
  BY <1>1
<1> QED
  BY <1>2

\* A record that is written is a record.
LEMMA MarkType ==
    ASSUME StoreTypeOK, NEW w \in Window, NEW s \in Symbol,
           NEW st \in State, NEW t \in Time,
           MarkState(w, s, st, t) \/ MarkStateFails(w, s, st, t)
    PROVE  StoreTypeOK'
<1> DEFINE r == Stamp(st, t)
<1>1. r \in Record
  BY ZeroIsTime DEF Stamp, Record
<1>2. /\ mem' = [mem EXCEPT ![w][s] = r]
      /\ file' = file \/ file' = [file EXCEPT ![w][s] = r]
      /\ torn' \in BOOLEAN
  BY DEF MarkState, MarkStateFails, SetMem, StoreTypeOK
<1> HIDE DEF r
<1>3. [mem EXCEPT ![w][s] = r] \in [Window -> [Symbol -> Record]]
  BY <1>1, OneRecordReplaced, Zenon DEF StoreTypeOK
<1>4. [file EXCEPT ![w][s] = r] \in [Window -> [Symbol -> Record]]
  BY <1>1, OneRecordReplaced, Zenon DEF StoreTypeOK
<1> QED
  BY <1>2, <1>3, <1>4 DEF StoreTypeOK

\* So is every record of a store that is read back or lost.
LEMMA ReloadType ==
    ASSUME StoreTypeOK, NEW b \in BOOLEAN, Load \/ LoadFails \/ LoseMemory(b)
    PROVE  StoreTypeOK'
<1>1. EmptyStore \in [Window -> [Symbol -> Record]]
  BY ZeroIsTime DEF EmptyStore, NoRecord, Record, State
<1> QED
  BY <1>1 DEF StoreTypeOK, Load, LoadFails, LoseMemory

\* The market's symbols are symbols, and its window one of the run keys.
LEMMA StartRunType ==
    ASSUME TypeOK, NEW w \in Window, w.market = mkt, StartRun(w),
           UNCHANGED <<now, memory, store, history, crashes>>
    PROVE  TypeOK'
<1>1. SymbolsOf[mkt] \in SUBSET Symbol
  BY MktIsMarket, KeyConstants DEF TypeOK
<1> QED
  BY <1>1 DEF TypeOK, StartRun, PC, Job, StoreTypeOK, store, mkt

\* A step that starts no run and only moves the loop on.
LEMMA MoveOnType ==
    ASSUME TypeOK, pc' \in {"sleep", "market", "intraday", "daily"},
           m' \in 1..Len(Markets), status' \in [Market -> Status],
           localNow' \in Time, faults' \in 0..MaxFaults,
           UNCHANGED <<now, run, memory, store, history, crashes>>
    PROVE  TypeOK'
  BY DEF TypeOK, PC, StoreTypeOK, store

LEMMA LogRaisesType ==
    ASSUME TypeOK, LogRaises
    PROVE  faults' \in 0..MaxFaults
  BY SchedulerConstants DEF TypeOK, LogRaises

\* A status with a known close and a window that is due have typed keys.
LEMMA DueWindows ==
    ASSUME TypeOK
    PROVE  /\ IsIntradayWindow =>
                  LET w == IntradayWindow(mkt, localNow, status[mkt].session)
                  IN  w \in Window /\ w.market = mkt
           /\ IsPostMarketWindow =>
                  LET w == DailyWindow(mkt, status[mkt].close)
                  IN  w \in Window /\ w.market = mkt
<1>1. mkt \in Market /\ localNow \in Time /\ status[mkt] \in Status
  BY MktIsMarket DEF TypeOK
<1>2. IsIntradayWindow => status[mkt].session \in ActiveSession
  BY DEF IsIntradayWindow
<1>3. IsPostMarketWindow => status[mkt].close \in Time
  BY <1>1 DEF IsPostMarketWindow, Status
<1> QED
  BY <1>1, <1>2, <1>3, KeysAreWindows

LEMMA CheckIntradayType ==
    ASSUME TypeOK, CheckIntraday
    PROVE  TypeOK'
<1> DEFINE w == IntradayWindow(mkt, localNow, status[mkt].session)
<1>1. CASE IsIntradayWindow /\ AllCanRetry(w) /\ StartRun(w)
  BY <1>1, DueWindows, StartRunType DEF CheckIntraday
<1>2. CASE NextMarket /\ UNCHANGED run /\ UNCHANGED faults
  BY <1>2, NextMarketType, MoveOnType DEF CheckIntraday, TypeOK
<1>3. CASE LogRaises /\ UNCHANGED run
  BY <1>3, EndTickType, LogRaisesType, MoveOnType DEF CheckIntraday, LogRaises
<1>4. CASE GoToDaily /\ UNCHANGED run /\ UNCHANGED faults
  BY <1>4, ZeroIsTime, MoveOnType DEF CheckIntraday, GoToDaily, TypeOK
<1> QED
  BY <1>1, <1>2, <1>3, <1>4 DEF CheckIntraday

LEMMA CheckDailyType ==
    ASSUME TypeOK, CheckDaily
    PROVE  TypeOK'
<1> DEFINE w == DailyWindow(mkt, status[mkt].close)
<1>1. CASE IsPostMarketWindow /\ AllCanRetry(w) /\ StartRun(w)
  BY <1>1, DueWindows, StartRunType DEF CheckDaily
<1>2. CASE NextMarket /\ UNCHANGED run /\ UNCHANGED faults
  BY <1>2, NextMarketType, MoveOnType DEF CheckDaily, TypeOK
<1>3. CASE LogRaises /\ UNCHANGED run
  BY <1>3, EndTickType, LogRaisesType, MoveOnType DEF CheckDaily, LogRaises
<1> QED
  BY <1>1, <1>2, <1>3 DEF CheckDaily

\* A run in hand is a window of the market being served.
LEMMA RunInHand ==
    ASSUME TypeOK, pc \in {"marking", "handler", "delivered", "recording"}
    PROVE  /\ mkt \in Market /\ job \in Window /\ job.market = mkt
           /\ SymbolsOf[mkt] \in SUBSET Symbol
  BY MktIsMarket, KeyConstants DEF TypeOK

LEMMA MarkInProgressType ==
    ASSUME TypeOK, MarkInProgress
    PROVE  TypeOK'
<1>1. PICK s \in todo : MarkState(job, s, "IN_PROGRESS", now) /\ todo' = todo \ {s}
  BY DEF MarkInProgress
<1>2. StoreTypeOK'
  BY <1>1, RunInHand, MarkType DEF MarkInProgress, TypeOK, State
<1> QED
  BY <1>1, <1>2 DEF MarkInProgress, TypeOK, PC, mkt

LEMMA FailedMarkType ==
    ASSUME TypeOK, MarkInProgressFails \/ RecordResultFails
    PROVE  TypeOK'
<1>1. PICK s \in todo : \/ MarkStateFails(job, s, "IN_PROGRESS", now)
                       \/ MarkStateFails(job, s, result, now)
  BY DEF MarkInProgressFails, RecordResultFails
<1>2. pc \in {"marking", "recording"} /\ EndTick /\ NoRun
  BY DEF MarkInProgressFails, RecordResultFails
<1>3. StoreTypeOK'
  BY <1>1, <1>2, RunInHand, MarkType DEF TypeOK, State
<1>4. faults' \in 0..MaxFaults
  BY SchedulerConstants DEF TypeOK, MarkInProgressFails, RecordResultFails
<1>5. excuses' \in [Window -> Nat]
  BY ExcuseType DEF TypeOK, MarkInProgressFails, RecordResultFails
<1> QED
  BY <1>2, <1>3, <1>4, <1>5, EndTickType
  DEF MarkInProgressFails, RecordResultFails, NoRun, TypeOK, PC, Job

LEMMA HandlerType ==
    ASSUME TypeOK, Deliver \/ HandlerFails \/ HandlerSucceeds \/ HandlerDenies
    PROVE  TypeOK'
<1>1. /\ job \in Window /\ job.market = mkt
      /\ SymbolsOf[mkt] \in SUBSET Symbol
  BY RunInHand DEF Deliver, HandlerFails, HandlerSucceeds, HandlerDenies
<1>2. CASE Deliver
  BY <1>1, <1>2 DEF Deliver, TypeOK, PC, StoreTypeOK, store, mkt
<1>3. CASE HandlerFails
  BY <1>1, <1>3
  DEF HandlerFails, StartRecording, TypeOK, PC, StoreTypeOK, store, mkt
<1>4. CASE HandlerSucceeds
  BY <1>1, <1>4
  DEF HandlerSucceeds, StartRecording, TypeOK, PC, StoreTypeOK, store, mkt
<1>5. CASE HandlerDenies
  <2>1. excuses' \in [Window -> Nat]
    BY <1>5, ExcuseType DEF HandlerDenies
  <2> QED
    BY <1>1, <1>5, <2>1, SchedulerConstants
    DEF HandlerDenies, StartRecording, TypeOK, PC, StoreTypeOK, store, mkt
<1> QED
  BY <1>2, <1>3, <1>4, <1>5

LEMMA FinishRunType ==
    ASSUME TypeOK, pc = "recording", FinishRun
    PROVE  /\ pc' \in {"sleep", "market", "daily"} /\ m' \in 1..Len(Markets)
           /\ status' \in [Market -> Status] /\ localNow' \in Time
           /\ job' = NoJob /\ todo' = {} /\ result' = "FAILED"
           /\ lastIntraday' \in [Market -> [ActiveSession -> Time \cup {Never}]]
           /\ lastDaily' \subseteq Market \X {w.date : w \in Window}
           /\ closed' \subseteq Window
<1>1. mkt \in Market /\ job \in Window
  BY RunInHand
<1>2. /\ pc' \in {"sleep", "market", "daily"} /\ m' \in 1..Len(Markets)
      /\ status' \in [Market -> Status] /\ localNow' \in Time
  BY NextMarketType, ZeroIsTime DEF FinishRun, GoToDaily, TypeOK
<1>3. lastIntraday' \in [Market -> [ActiveSession -> Time \cup {Never}]]
  <2> DEFINE row == [lastIntraday[mkt] EXCEPT ![status[mkt].session] = localNow]
  <2>1. row \in [ActiveSession -> Time \cup {Never}]
    BY <1>1 DEF TypeOK
  <2>2. \/ lastIntraday' = lastIntraday
        \/ lastIntraday' = [lastIntraday EXCEPT ![mkt] = row]
    BY DEF FinishRun
  <2> QED
    BY <1>1, <2>1, <2>2 DEF TypeOK
<1>4. /\ lastDaily' \subseteq Market \X {w.date : w \in Window}
      /\ closed' \subseteq Window
  BY <1>1 DEF FinishRun, TypeOK
<1> QED
  BY <1>2, <1>3, <1>4 DEF FinishRun, NoRun

LEMMA RecordResultType ==
    ASSUME TypeOK, RecordResult
    PROVE  TypeOK'
<1>1. PICK s \in todo :
          /\ MarkState(job, s, result, now)
          /\ \/ FinishRun
             \/ /\ todo' = todo \ {s}
                /\ UNCHANGED <<pc, tick, job, result, memory, closed>>
  BY DEF RecordResult
<1>2. StoreTypeOK'
  BY <1>1, RunInHand, MarkType DEF RecordResult, TypeOK, State
<1>3. CASE FinishRun
  BY <1>2, <1>3, FinishRunType DEF RecordResult, TypeOK, PC, Job
<1>4. CASE /\ todo' = todo \ {s}
           /\ UNCHANGED <<pc, tick, job, result, memory, closed>>
  BY <1>2, <1>4 DEF RecordResult, TypeOK, mkt
<1> QED
  BY <1>1, <1>3, <1>4

LEMMA CrashType ==
    ASSUME TypeOK, Crash
    PROVE  TypeOK'
<1>1. StoreTypeOK'
  <2>1. (pc \in {"marking", "recording"}) \in BOOLEAN
    OBVIOUS
  <2> QED
    BY <2>1, ReloadType DEF Crash, TypeOK
<1>2. excuses' \in [Window -> Nat]
  BY ExcuseType DEF Crash
<1>3. NoStatuses \in [Market -> Status]
  BY DEF NoStatuses, NoStatus, Status, Session
<1>4. NeverRun \in [Market -> [ActiveSession -> Time \cup {Never}]]
  BY DEF NeverRun
<1> QED
  BY <1>1, <1>2, <1>3, <1>4, ZeroIsTime, SchedulerConstants
  DEF Crash, NoRun, TypeOK, PC, Job

LEMMA BootType ==
    ASSUME TypeOK, Boot
    PROVE  TypeOK'
<1>1. StoreTypeOK'
  BY ReloadType DEF Boot, TypeOK
<1>2. excuses' \in [Window -> Nat] /\ closed' \subseteq Window
  BY ExcuseType DEF Boot, TypeOK
<1>3. blind' \in BOOLEAN
  BY Zenon DEF Boot
<1>4. faults' \in 0..MaxFaults
  BY SchedulerConstants DEF Boot, TypeOK
<1> QED
  BY <1>1, <1>2, <1>3, <1>4 DEF Boot, TypeOK, PC, Job, mkt

LEMMA NextType == TypeOK /\ [Next]_vars => TypeOK'
<1> SUFFICES ASSUME TypeOK, [Next]_vars PROVE TypeOK'
  OBVIOUS
<1>1. CASE Boot
  BY <1>1, BootType
<1>2. CASE Crash
  BY <1>2, CrashType
<1>3. CASE ClockTick
  BY <1>3, KeyConstants DEF ClockTick, Time, TypeOK, StoreTypeOK, store, mkt
<1>4. CASE Fetch
  <2>1. status' \in [Market -> Status]
    BY <1>4, SchedulerConstants DEF Fetch, TypeOK
  <2> QED
    BY <1>4, <2>1 DEF Fetch, TypeOK, PC, StoreTypeOK, store
<1>5. CASE FetchFails
  BY <1>5, EndTickType, MoveOnType DEF FetchFails, TypeOK
<1>6. CASE StartMarket
  <2>1. CASE SymbolsOf[mkt] = {} \/ status[mkt] = NoStatus
    BY <1>6, <2>1, NextMarketType, MoveOnType DEF StartMarket, TypeOK
  <2>2. CASE ~(SymbolsOf[mkt] = {} \/ status[mkt] = NoStatus)
    BY <1>6, <2>2, MoveOnType DEF StartMarket, TypeOK
  <2> QED
    BY <2>1, <2>2
<1>7. CASE CheckIntraday
  BY <1>7, CheckIntradayType
<1>8. CASE CheckDaily
  BY <1>8, CheckDailyType
<1>9. CASE MarkInProgress
  BY <1>9, MarkInProgressType
<1>10. CASE MarkInProgressFails \/ RecordResultFails
  BY <1>10, FailedMarkType
<1>11. CASE Deliver \/ HandlerFails \/ HandlerSucceeds \/ HandlerDenies
  BY <1>11, HandlerType
<1>12. CASE RecordResult
  BY <1>12, RecordResultType
<1>13. CASE UNCHANGED vars
  BY <1>13 DEF TypeOK, StoreTypeOK, store, mkt
<1> QED
  BY <1>1, <1>2, <1>3, <1>4, <1>5, <1>6, <1>7, <1>8, <1>9, <1>10, <1>11, <1>12,
     <1>13 DEF Next, Loop

\* The service never leaves its types, and the run in hand is always a window
\* of the market run_forever is serving.
THEOREM TypeCorrect == Spec => []TypeOK
  BY InitType, NextType, PTL DEF Spec

-----------------------------------------------------------------------------
(* The invariants behind the safety properties. *)

Running == {"marking", "handler", "delivered", "recording"}

\* What every run relies on: there is something left to mark, and once a line
\* was appended the file does not end in a partial one.
Shape ==
    /\ pc \in {"marking", "recording"} => todo # {} /\ todo \subseteq SymbolsOf[mkt]
    /\ pc \in {"intraday", "daily"} \cup Running => SymbolsOf[mkt] # {}
    /\ pc \in {"handler", "delivered", "recording"} => ~torn

\* A window that ran to the end is SUCCESS on disk and in memory for all its
\* symbols, it is not the run in hand, and a run being recorded as a success
\* is that far on its way to the same.
ClosedInv ==
    /\ \A w \in closed : \A s \in SymbolsOf[w.market] :
          /\ file[w][s].state = "SUCCESS"
          /\ pc # "down" => mem[w][s].state = "SUCCESS"
    /\ pc \in Running => job \notin closed
    /\ pc = "recording" /\ result = "SUCCESS" =>
          \A s \in SymbolsOf[mkt] \ todo :
             file[job][s].state = "SUCCESS" /\ mem[job][s].state = "SUCCESS"

\* No record is from the future, and an attempt that is open on disk is known
\* to the process as no older than it is, or as ended.
AttemptInv ==
    /\ \A w \in Window, s \in Symbol : file[w][s].at <= now
    /\ ~blind /\ pc # "down" =>
          \A w \in Window, s \in Symbol :
             file[w][s].state = "IN_PROGRESS" =>
                \/ mem[w][s].state \in {"SUCCESS", "FAILED"}
                \/ mem[w][s].state = "IN_PROGRESS" /\ mem[w][s].at >= file[w][s].at

-----------------------------------------------------------------------------
(* What the steps do to the records. *)

\* One record of a store replaced leaves all the others alone.
LEMMA OneRecordRead ==
    ASSUME NEW old \in [Window -> [Symbol -> Record]], NEW new,
           NEW r, NEW w \in Window, NEW s \in Symbol,
           new = [old EXCEPT ![w][s] = r],
           NEW v \in Window, NEW z \in Symbol
    PROVE  new[v][z] = IF v = w /\ z = s THEN r ELSE old[v][z]
<1>1. CASE v = w
  BY <1>1
<1>2. CASE v # w
  BY <1>2
<1> QED
  BY <1>1, <1>2

LEMMA MarkEffect ==
    ASSUME StoreTypeOK, NEW w \in Window, NEW s \in Symbol,
           NEW st \in State, NEW t \in Time,
           MarkState(w, s, st, t) \/ MarkStateFails(w, s, st, t),
           NEW v \in Window, NEW z \in Symbol
    PROVE  /\ mem'[v][z] = IF v = w /\ z = s THEN Stamp(st, t) ELSE mem[v][z]
           /\ file'[v][z] = IF v = w /\ z = s /\ MarkState(w, s, st, t) /\ ~torn
                            THEN Stamp(st, t) ELSE file[v][z]
<1> DEFINE r == Stamp(st, t)
<1>1. /\ mem' = [mem EXCEPT ![w][s] = r]
      /\ file' = IF MarkState(w, s, st, t) /\ ~torn
                 THEN [file EXCEPT ![w][s] = r] ELSE file
  BY DEF MarkState, MarkStateFails, SetMem, StoreTypeOK
<1> HIDE DEF r
<1>2. mem'[v][z] = IF v = w /\ z = s THEN r ELSE mem[v][z]
  BY <1>1, OneRecordRead DEF StoreTypeOK
<1>3. CASE MarkState(w, s, st, t) /\ ~torn
  <2>1. file' = [file EXCEPT ![w][s] = r]
    BY <1>1, <1>3
  <2>2. file'[v][z] = IF v = w /\ z = s THEN r ELSE file[v][z]
    BY <2>1, OneRecordRead DEF StoreTypeOK
  <2> QED
    BY <1>2, <1>3, <2>2 DEF r
<1>4. CASE ~(MarkState(w, s, st, t) /\ ~torn)
  <2>1. file' = file
    BY <1>1, <1>4
  <2> QED
    BY <1>2, <1>4, <2>1 DEF r
<1> QED
  BY <1>3, <1>4

\* No record of an empty store says anything.
LEMMA EmptyEffect ==
    ASSUME NEW w \in Window, NEW s \in Symbol
    PROVE  EmptyStore[w][s] = NoRecord
  BY DEF EmptyStore

\* A look at the windows either starts a run of a window whose symbols may all
\* be tried, or moves the loop on.
LEMMA CheckEffect ==
    ASSUME TypeOK, CheckIntraday \/ CheckDaily
    PROVE  /\ pc \in {"intraday", "daily"} /\ UNCHANGED <<now, store, history>>
           /\ \/ /\ job' \in Window /\ job'.market = mkt /\ AllCanRetry(job')
                 /\ pc' = "marking" /\ todo' = SymbolsOf[mkt] /\ m' = m
              \/ /\ pc' \in {"sleep", "market", "daily"}
                 /\ pc' = "daily" => m' = m
                 /\ UNCHANGED run
<1>1. CASE CheckIntraday
  <2> DEFINE w == IntradayWindow(mkt, localNow, status[mkt].session)
  <2>1. CASE IsIntradayWindow /\ AllCanRetry(w) /\ StartRun(w)
    BY <1>1, <2>1, DueWindows DEF CheckIntraday, StartRun
  <2>2. CASE NextMarket \/ LogRaises \/ GoToDaily
    BY <1>1, <2>2 DEF CheckIntraday, NextMarket, LogRaises, GoToDaily, EndTick,
                      IsIntradayWindow, StartRun
  <2> QED
    BY <1>1, <2>1, <2>2 DEF CheckIntraday
<1>2. CASE CheckDaily
  <2> DEFINE w == DailyWindow(mkt, status[mkt].close)
  <2>1. CASE IsPostMarketWindow /\ AllCanRetry(w) /\ StartRun(w)
    BY <1>2, <2>1, DueWindows DEF CheckDaily, StartRun
  <2>2. CASE (NextMarket \/ LogRaises) /\ UNCHANGED run
    BY <1>2, <2>2 DEF CheckDaily, NextMarket, LogRaises, EndTick
  <2> QED
    BY <1>2, <2>1, <2>2 DEF CheckDaily
<1> QED
  BY <1>1, <1>2

LEMMA FinishRunEffect ==
    ASSUME FinishRun
    PROVE  /\ pc' \in {"sleep", "market", "daily"} /\ (pc' = "daily" => m' = m)
           /\ job' = NoJob
           /\ closed' = IF result = "SUCCESS" THEN closed \cup {job} ELSE closed
  BY DEF FinishRun, NextMarket, EndTick, GoToDaily, NoRun

-----------------------------------------------------------------------------
(* The shape of a run. *)

LEMMA ShapeInit == Init => Shape
  BY DEF Init, Shape, Running

LEMMA ShapeNext == TypeOK /\ Shape /\ [Next]_vars => Shape'
<1> SUFFICES ASSUME TypeOK, Shape, [Next]_vars PROVE Shape'
  OBVIOUS
<1> USE DEF Running
<1>1. CASE Boot \/ Crash \/ Fetch \/ FetchFails
  BY <1>1 DEF Boot, Crash, Fetch, FetchFails, EndTick, Shape
<1>2. CASE ClockTick
  BY <1>2 DEF ClockTick, Shape, store, mkt
<1>3. CASE StartMarket
  <2>1. CASE SymbolsOf[mkt] = {} \/ status[mkt] = NoStatus
    BY <1>3, <2>1 DEF StartMarket, NextMarket, EndTick, Shape
  <2>2. CASE ~(SymbolsOf[mkt] = {} \/ status[mkt] = NoStatus)
    BY <1>3, <2>2 DEF StartMarket, Shape, mkt
  <2> QED
    BY <2>1, <2>2
<1>4. CASE CheckIntraday \/ CheckDaily
  BY <1>4, CheckEffect DEF Shape, mkt
<1>5. CASE MarkInProgress
  BY <1>5 DEF MarkInProgress, MarkState, Shape, mkt
<1>6. CASE MarkInProgressFails \/ RecordResultFails
  BY <1>6 DEF MarkInProgressFails, RecordResultFails, EndTick, Shape
<1>7. CASE Deliver
  BY <1>7 DEF Deliver, Shape, store, mkt
<1>8. CASE HandlerFails \/ HandlerSucceeds \/ HandlerDenies
  BY <1>8 DEF HandlerFails, HandlerSucceeds, HandlerDenies, StartRecording,
              Shape, store, mkt
<1>9. CASE RecordResult
  <2>1. PICK s \in todo :
            /\ MarkState(job, s, result, now)
            /\ \/ FinishRun
               \/ /\ todo # {s} /\ todo' = todo \ {s}
                  /\ UNCHANGED <<pc, tick, job, result, memory, closed>>
    BY <1>9 DEF RecordResult
  <2>2. CASE FinishRun
    BY <1>9, <2>2, FinishRunEffect DEF RecordResult, Shape, mkt
  <2>3. CASE /\ todo # {s} /\ todo' = todo \ {s}
             /\ UNCHANGED <<pc, tick, job, result, memory, closed>>
    BY <1>9, <2>1, <2>3 DEF RecordResult, MarkState, Shape, mkt
  <2> QED
    BY <2>1, <2>2, <2>3
<1>10. CASE UNCHANGED vars
  BY <1>10 DEF Shape, store, mkt
<1> QED
  BY <1>1, <1>2, <1>3, <1>4, <1>5, <1>6, <1>7, <1>8, <1>9, <1>10 DEF Next, Loop

-----------------------------------------------------------------------------
(* What a finished run is worth. *)

\* Every symbol of w is SUCCESS, on disk and for the process at work.
AllSuccess(w) ==
    \A s \in SymbolsOf[w.market] :
        /\ file[w][s].state = "SUCCESS"
        /\ pc # "down" => mem[w][s].state = "SUCCESS"

\* The symbols already recorded of a successful run are SUCCESS.
RecordedSoFar ==
    pc = "recording" /\ result = "SUCCESS" =>
        \A s \in SymbolsOf[mkt] \ todo :
            file[job][s].state = "SUCCESS" /\ mem[job][s].state = "SUCCESS"

\* A mark of the run in hand disturbs no other window.
LEMMA OtherWindows ==
    ASSUME TypeOK, NEW s \in Symbol, NEW st \in State, job \in Window,
           MarkState(job, s, st, now) \/ MarkStateFails(job, s, st, now),
           NEW w \in Window, w # job
    PROVE  mem'[w] = mem[w] /\ file'[w] = file[w]
<1>1. mem' = [mem EXCEPT ![job][s] = Stamp(st, now)]
  BY DEF MarkState, MarkStateFails, SetMem
<1>2. file' = file \/ file' = [file EXCEPT ![job][s] = Stamp(st, now)]
  BY DEF MarkState, MarkStateFails
<1> QED
  BY <1>1, <1>2 DEF TypeOK, StoreTypeOK

LEMMA ClosedInit == Init => ClosedInv
  BY DEF Init, ClosedInv, Running

\* A window whose records a step leaves alone keeps its SUCCESS.
LEMMA AllSuccessKept ==
    ASSUME NEW w \in Window, AllSuccess(w), pc # "down" \/ pc' = "down",
           mem'[w] = mem[w] \/ pc' = "down", file'[w] = file[w]
    PROVE  AllSuccess(w)'
  BY DEF AllSuccess

\* A step that writes no record, and closes and starts no window.
LEMMA ClosedQuiet ==
    ASSUME TypeOK, \A w \in closed : AllSuccess(w),
           pc \in Running => job \notin closed,
           pc # "down" \/ pc' = "down", UNCHANGED <<store, closed>>,
           pc' \in Running => pc \in Running /\ job' = job, ~(pc' = "recording")
    PROVE  /\ \A w \in closed' : AllSuccess(w)'
           /\ pc' \in Running => job' \notin closed'
           /\ RecordedSoFar'
<1>1. \A w \in closed' : AllSuccess(w)'
  BY AllSuccessKept DEF TypeOK, store
<1> QED
  BY <1>1 DEF RecordedSoFar

\* The rows of closed windows survive a mark of a run that is not one of them.
LEMMA ClosedMark ==
    ASSUME TypeOK, NEW s \in Symbol, NEW st \in State, pc \in Running,
           MarkState(job, s, st, now) \/ MarkStateFails(job, s, st, now),
           \A w \in closed : AllSuccess(w), job \notin closed
    PROVE  \A w \in closed : AllSuccess(w)'
<1> SUFFICES ASSUME NEW w \in closed PROVE AllSuccess(w)'
  OBVIOUS
<1>1. w \in Window /\ w # job /\ job \in Window
  BY RunInHand DEF TypeOK, Running
<1>2. mem'[w] = mem[w] /\ file'[w] = file[w]
  BY <1>1, OtherWindows
<1> QED
  BY <1>1, <1>2, AllSuccessKept DEF Running

LEMMA ClosedNext ==
    TypeOK /\ TypeOK' /\ Shape /\ ClosedInv /\ [Next]_vars => ClosedInv'
<1> SUFFICES ASSUME TypeOK, TypeOK', Shape, ClosedInv, [Next]_vars
             PROVE  /\ \A w \in closed' : AllSuccess(w)'
                    /\ pc' \in Running => job' \notin closed'
                    /\ RecordedSoFar'
  BY DEF ClosedInv, AllSuccess, RecordedSoFar
<1>0. /\ \A w \in closed : AllSuccess(w)
      /\ pc \in Running => job \notin closed
      /\ RecordedSoFar
  BY DEF ClosedInv, AllSuccess, RecordedSoFar
<1> USE <1>0
<1>1. CASE Boot
  <2>1. pc' = "sleep" /\ ((Load /\ closed' = closed) \/ closed' = {})
    BY <1>1 DEF Boot
  <2> QED
    BY <1>1, <2>1 DEF Load, AllSuccess, RecordedSoFar, Running
<1>2. CASE Crash
  <2>1. closed' = closed /\ pc' = "down" /\ file' = file
    BY <1>2 DEF Crash, LoseMemory
  <2> QED
    BY <2>1 DEF AllSuccess, RecordedSoFar, Running
<1>3. CASE Fetch \/ FetchFails \/ StartMarket
  BY <1>3, ClosedQuiet
  DEF Fetch, FetchFails, StartMarket, NextMarket, EndTick, Running
<1>4. CASE ClockTick \/ UNCHANGED vars
  BY <1>4 DEF ClockTick, store, mkt, AllSuccess, RecordedSoFar
<1>5. CASE CheckIntraday \/ CheckDaily
  <2>1. /\ UNCHANGED <<store, closed>> /\ pc # "down" /\ pc' # "down"
        /\ pc' # "recording"
    BY <1>5, CheckEffect
  <2>2. \A w \in closed' : AllSuccess(w)'
    BY <2>1 DEF store, AllSuccess
  <2>3. ASSUME pc' \in Running PROVE job' \notin closed
    <3>1. /\ job' \in Window /\ job'.market = mkt /\ AllCanRetry(job')
          /\ SymbolsOf[mkt] # {}
      BY <1>5, <2>3, CheckEffect DEF Shape, Running
    <3>2. PICK s \in SymbolsOf[job'.market] : CanRetry(job', s, now)
      BY <3>1 DEF AllCanRetry
    <3>3. ~AllSuccess(job')
      BY <2>1, <3>2 DEF AllSuccess, CanRetry
    <3> QED
      BY <3>3
  <2> QED
    BY <2>1, <2>2, <2>3 DEF RecordedSoFar
<1>6. CASE MarkInProgress \/ MarkInProgressFails
  <2>1. PICK s \in Symbol : \/ MarkState(job, s, "IN_PROGRESS", now)
                           \/ MarkStateFails(job, s, "IN_PROGRESS", now)
    BY <1>6 DEF MarkInProgress, MarkInProgressFails, TypeOK
  <2>2. /\ pc \in Running /\ closed' = closed /\ pc' # "recording"
        /\ (pc' \in Running => job' = job)
    BY <1>6 DEF MarkInProgress, MarkInProgressFails, EndTick, Running
  <2>3. \A w \in closed : AllSuccess(w)'
    BY <2>1, <2>2, ClosedMark DEF State
  <2> QED
    BY <2>2, <2>3 DEF RecordedSoFar
<1>7. CASE Deliver
  BY <1>7, ClosedQuiet DEF Deliver, Running
<1>8. CASE HandlerFails \/ HandlerSucceeds \/ HandlerDenies
  <2>1. /\ UNCHANGED <<store, closed, job, m>> /\ pc \in Running
        /\ pc # "down" /\ todo' = SymbolsOf[mkt]
    BY <1>8
    DEF HandlerFails, HandlerSucceeds, HandlerDenies, StartRecording, Running
  <2>2. \A w \in closed : AllSuccess(w)'
    BY <2>1 DEF store, AllSuccess
  <2> QED
    BY <2>1, <2>2 DEF RecordedSoFar, mkt
<1>9. CASE RecordResult
  <2>1. PICK s \in todo :
            /\ MarkState(job, s, result, now)
            /\ \/ FinishRun /\ todo = {s}
               \/ /\ todo' = todo \ {s}
                  /\ UNCHANGED <<pc, tick, job, result, memory, closed>>
    BY <1>9 DEF RecordResult
  <2>2. /\ pc = "recording" /\ pc \in Running /\ ~torn /\ s \in Symbol
        /\ job \in Window /\ job.market = mkt /\ SymbolsOf[mkt] \subseteq Symbol
        /\ result \in State /\ now \in Time
    BY <1>9, RunInHand DEF RecordResult, Shape, Running, TypeOK, State
  <2>3. \A w \in closed : AllSuccess(w)'
    BY <2>1, <2>2, ClosedMark
  <2>4. ASSUME result = "SUCCESS", NEW z \in SymbolsOf[mkt] \ (todo \ {s})
        PROVE  file'[job][z].state = "SUCCESS" /\ mem'[job][z].state = "SUCCESS"
    <3>1. CASE z = s
      <4>1. /\ mem'[job][s] = Stamp(result, now)
            /\ file'[job][s] = Stamp(result, now)
        BY <2>1, <2>2, MarkEffect, Zenon DEF TypeOK
      <4> QED
        BY <2>4, <3>1, <4>1 DEF Stamp
    <3>2. CASE z # s
      <4>1. mem'[job][z] = mem[job][z] /\ file'[job][z] = file[job][z]
        BY <2>1, <2>2, <3>2, MarkEffect DEF TypeOK
      <4> QED
        BY <2>2, <2>4, <3>2, <4>1 DEF RecordedSoFar
    <3> QED
      BY <3>1, <3>2
  <2>5. CASE FinishRun /\ todo = {s}
    <3>1. pc' \notin Running /\ closed' \subseteq closed \cup {job}
          /\ (job \in closed' => result = "SUCCESS")
      BY <2>2, <2>5, FinishRunEffect DEF Running
    <3>2. result = "SUCCESS" => \A w \in {job} : AllSuccess(w)'
      BY <2>2, <2>4, <2>5 DEF AllSuccess
    <3> QED
      BY <2>3, <3>1, <3>2 DEF RecordedSoFar, Running
  <2>6. CASE /\ todo' = todo \ {s}
             /\ UNCHANGED <<pc, tick, job, result, memory, closed>>
    BY <2>2, <2>3, <2>4, <2>6 DEF RecordedSoFar, mkt
  <2> QED
    BY <2>1, <2>5, <2>6
<1>10. CASE RecordResultFails
  <2>1. PICK s \in Symbol : MarkStateFails(job, s, result, now)
    BY <1>10 DEF RecordResultFails, TypeOK
  <2>2. /\ pc \in Running /\ closed' = closed /\ pc' \notin Running
        /\ result \in State
    BY <1>10 DEF RecordResultFails, EndTick, Running, TypeOK, State
  <2>3. \A w \in closed : AllSuccess(w)'
    BY <2>1, <2>2, ClosedMark
  <2> QED
    BY <2>2, <2>3 DEF RecordedSoFar, Running
<1> QED
  BY <1>1, <1>2, <1>3, <1>4, <1>5, <1>6, <1>7, <1>8, <1>9, <1>10 DEF Next, Loop

\* No key the loop forms is the idle one.
LEMMA NoJobIsNoWindow == NoJob \notin Window
<1>1. \A w \in Window : w.type \in {"intraday_brief", "daily_close_report"}
  BY DEF Window, IntradayWindow, DailyWindow
<1>2. NoJob.type = "none"
  BY DEF NoJob
<1> QED
  BY <1>1, <1>2

\* Only a look at the windows puts a run in hand.
LEMMA OnlyChecksStart ==
    ASSUME TypeOK, [Next]_vars, job' # job, job' # NoJob
    PROVE  CheckIntraday \/ CheckDaily
  BY FinishRunEffect
  DEF Next, Loop, Boot, Crash, ClockTick, Fetch, FetchFails, StartMarket, NoRun,
      MarkInProgress, MarkInProgressFails, Deliver, HandlerFails,
      HandlerSucceeds, HandlerDenies, RecordResult, RecordResultFails

LEMMA ClosedInvariant == Spec => [](TypeOK /\ Shape /\ ClosedInv)
<1>1. Init => TypeOK /\ Shape /\ ClosedInv
  BY InitType, ShapeInit, ClosedInit
<1>2. TypeOK /\ Shape /\ ClosedInv /\ [Next]_vars
        => (TypeOK /\ Shape /\ ClosedInv)'
  BY NextType, ShapeNext, ClosedNext
<1> QED
  BY <1>1, <1>2, PTL DEF Spec

\* A window that ran to the end stays SUCCESS on disk, through any number of
\* crashes, torn lines and failed appends, until a process cannot read the file.
THEOREM SuccessIsDurable == Spec => []SuccessSurvives
<1>1. ClosedInv => SuccessSurvives
  BY DEF ClosedInv, SuccessSurvives
<1> QED
  BY <1>1, ClosedInvariant, PTL

-----------------------------------------------------------------------------
(* The promise of the service. *)

USE DEF Promise!vars

\* What is in hand and what is out, before a step and after it.
LEMMA Hands ==
    /\ InFlight = IF pc = "delivered" \/ (pc = "recording" /\ result = "SUCCESS")
                  THEN {job} ELSE {}
    /\ InHand = IF pc \in {"marking", "handler"} THEN {job} ELSE InFlight
    /\ InFlight' = IF pc' = "delivered" \/ (pc' = "recording" /\ result' = "SUCCESS")
                   THEN {job'} ELSE {}
    /\ InHand' = IF pc' \in {"marking", "handler"} THEN {job'} ELSE InFlight'
  BY DEF InFlight, InHand

LEMMA PromiseInit == Init => Promise!Init
<1> SUFFICES ASSUME Init PROVE Promise!Init
  OBVIOUS
<1>1. InHand = {} /\ InFlight = {}
  BY Hands DEF Init
<1> QED
  BY <1>1 DEF Init, Promise!Init

\* A step that ends a run without a delivery, or changes nothing of the promise.
LEMMA QuietOrFails ==
    ASSUME UNCHANGED <<delivered, excuses, closed>>,
           InFlight = {}, InFlight' = {}, InHand' \in {InHand, {}}
    PROVE  [Promise!Next]_(Promise!vars)
<1>1. CASE InHand' = InHand
  BY <1>1
<1>2. CASE InHand' # InHand
  <2>1. Promise!Fail
    BY <1>2 DEF Promise!Fail, Promise!Done
  <2> QED
    BY <2>1 DEF Promise!Next
<1> QED
  BY <1>1, <1>2

\* A fault takes the report in flight away, if there is one.
LEMMA LosesOrFails ==
    ASSUME UNCHANGED <<delivered, closed>>, excuses \in [Window -> Nat],
           excuses' = Excuse(InFlight),
           InFlight = {} \/ InHand = InFlight, InFlight' = {}, InHand' = {}
    PROVE  [Promise!Next]_(Promise!vars)
<1>1. CASE InFlight = {}
  <2>1. excuses' = excuses
    BY <1>1 DEF Excuse
  <2> QED
    BY <1>1, <2>1, QuietOrFails
<1>2. CASE InFlight # {}
  <2>1. excuses' = Promise!More(excuses, InFlight)
    BY DEF Excuse, Promise!More
  <2>2. Promise!Lose
    BY <1>2, <2>1 DEF Promise!Lose, Promise!Done
  <2> QED
    BY <2>2 DEF Promise!Next
<1> QED
  BY <1>1, <1>2

LEMMA PromiseNext ==
    TypeOK /\ Shape /\ ClosedInv /\ [Next]_vars => [Promise!Next]_(Promise!vars)
<1> SUFFICES ASSUME TypeOK, Shape, ClosedInv, [Next]_vars
             PROVE  [Promise!Next]_(Promise!vars)
  OBVIOUS
<1>0. delivered \in [Window -> Nat] /\ excuses \in [Window -> Nat]
  BY DEF TypeOK
<1>1. CASE Boot
  <2>1. InHand = {} /\ InFlight = {} /\ InHand' = {} /\ InFlight' = {}
    BY <1>1, Hands DEF Boot
  <2>2. CASE UNCHANGED <<excuses, closed>>
    BY <1>1, <2>1, <2>2, QuietOrFails DEF Boot
  <2>3. CASE excuses' = Excuse(closed) /\ closed' = {}
    <3>1. excuses' = Promise!More(excuses, closed)
      BY <2>3 DEF Excuse, Promise!More
    <3>2. Promise!Forget
      BY <1>1, <2>1, <2>3, <3>1 DEF Promise!Forget, Boot
    <3> QED
      BY <3>2 DEF Promise!Next
  <2> QED
    BY <1>1, <2>2, <2>3 DEF Boot
<1>2. CASE Crash
  <2>1. /\ InHand' = {} /\ InFlight' = {} /\ (InFlight = {} \/ InHand = InFlight)
        /\ excuses' = Excuse(InFlight) /\ UNCHANGED <<delivered, closed>>
    BY <1>2, Hands DEF Crash
  <2> QED
    BY <1>0, <2>1, LosesOrFails
<1>3. CASE Fetch \/ FetchFails \/ StartMarket
  <2>1. /\ pc \in {"sleep", "market"} /\ pc' \in {"sleep", "market", "intraday"}
        /\ UNCHANGED <<delivered, excuses, closed>>
    BY <1>3 DEF Fetch, FetchFails, StartMarket, NextMarket, EndTick
  <2>2. InHand = {} /\ InFlight = {} /\ InHand' = {} /\ InFlight' = {}
    BY <2>1, Hands
  <2> QED
    BY <2>1, <2>2, QuietOrFails
<1>4. CASE ClockTick \/ UNCHANGED vars
  <2>1. UNCHANGED <<pc, job, result, delivered, excuses, closed>>
    BY <1>4 DEF ClockTick
  <2>2. InHand' = InHand /\ InFlight' = InFlight
    BY <2>1, Hands
  <2> QED
    BY <2>1, <2>2
<1>5. CASE CheckIntraday \/ CheckDaily
  <2>1. /\ pc \in {"intraday", "daily"} /\ UNCHANGED <<delivered, excuses, closed>>
        /\ InHand = {} /\ InFlight = {}
    BY <1>5, CheckEffect, Hands
  <2>2. CASE /\ job' \in Window /\ job'.market = mkt /\ AllCanRetry(job')
             /\ pc' = "marking"
    <3>1. job' \notin closed
      <4>1. PICK s \in SymbolsOf[job'.market] : CanRetry(job', s, now)
        BY <2>1, <2>2 DEF AllCanRetry, Shape
      <4>2. mem[job'][s].state # "SUCCESS"
        BY <4>1 DEF CanRetry
      <4> QED
        BY <2>1, <4>1, <4>2 DEF ClosedInv
    <3>2. InHand' = {job'} /\ InFlight' = {}
      BY <2>2, Hands
    <3>3. Promise!Begin(job')
      BY <2>1, <3>1, <3>2 DEF Promise!Begin
    <3> QED
      BY <2>2, <3>3 DEF Promise!Next
  <2>3. CASE pc' \in {"sleep", "market", "daily"}
    <3>1. InHand' = {} /\ InFlight' = {}
      BY <2>3, Hands
    <3> QED
      BY <2>1, <3>1, QuietOrFails
  <2> QED
    BY <1>5, <2>2, <2>3, CheckEffect
<1>6. CASE MarkInProgress \/ MarkInProgressFails
  <2>1. /\ pc = "marking" /\ UNCHANGED <<delivered, excuses, closed>>
        /\ \/ pc' \in {"marking", "handler"} /\ job' = job
           \/ pc' = "sleep"
    BY <1>6 DEF MarkInProgress, MarkInProgressFails, EndTick
  <2>2. InFlight = {} /\ InFlight' = {} /\ InHand' \in {InHand, {}}
    BY <2>1, Hands
  <2> QED
    BY <2>1, <2>2, QuietOrFails
<1>7. CASE Deliver
  <2>1. /\ pc = "handler" /\ pc' = "delivered" /\ job' = job
        /\ UNCHANGED <<excuses, closed>>
    BY <1>7 DEF Deliver
  <2>2. InHand = {job} /\ InFlight = {} /\ InHand' = {job} /\ InFlight' = {job}
    BY <2>1, Hands
  <2>3. delivered' = Promise!More(delivered, InHand)
    BY <1>0, <1>7, <2>2 DEF Deliver, Promise!More
  <2>4. Promise!Send
    BY <2>1, <2>2, <2>3 DEF Promise!Send
  <2> QED
    BY <2>4 DEF Promise!Next
<1>8. CASE HandlerFails \/ HandlerSucceeds
  <2>1. /\ UNCHANGED <<job, delivered, excuses, closed>> /\ pc' = "recording"
        /\ \/ pc = "handler" /\ result' = "FAILED"
           \/ pc = "delivered" /\ result' = "SUCCESS"
    BY <1>8 DEF HandlerFails, HandlerSucceeds, StartRecording
  <2>2. CASE pc = "handler" /\ result' = "FAILED"
    <3>1. InFlight = {} /\ InFlight' = {} /\ InHand' = {}
      BY <2>1, <2>2, Hands
    <3> QED
      BY <2>1, <3>1, QuietOrFails
  <2>3. CASE pc = "delivered" /\ result' = "SUCCESS"
    <3>1. InFlight' = InFlight /\ InHand' = InHand
      BY <2>1, <2>3, Hands
    <3> QED
      BY <2>1, <3>1
  <2> QED
    BY <2>1, <2>2, <2>3
<1>9. CASE HandlerDenies
  <2>1. /\ pc = "delivered" /\ pc' = "recording" /\ result' = "FAILED"
        /\ excuses' = Excuse(InFlight) /\ UNCHANGED <<delivered, closed>>
    BY <1>9 DEF HandlerDenies, StartRecording
  <2>2. InHand' = {} /\ InFlight' = {} /\ InHand = InFlight
    BY <2>1, Hands
  <2> QED
    BY <1>0, <2>1, <2>2, LosesOrFails
<1>10. CASE RecordResult
  <2>1. pc = "recording" /\ UNCHANGED <<delivered, excuses>>
    BY <1>10 DEF RecordResult
  <2>2. CASE FinishRun
    <3>1. /\ pc' \in {"sleep", "market", "daily"}
          /\ closed' = IF result = "SUCCESS" THEN closed \cup {job} ELSE closed
      BY <2>2, FinishRunEffect
    <3>2. InHand' = {} /\ InFlight' = {}
      BY <3>1, Hands
    <3>3. CASE result = "SUCCESS"
      <4>1. InFlight = {job} /\ InHand = {job}
        BY <2>1, <3>3, Hands
      <4>2. Promise!Settle
        BY <2>1, <3>1, <3>2, <3>3, <4>1 DEF Promise!Settle, Promise!Done
      <4> QED
        BY <4>2 DEF Promise!Next
    <3>4. CASE result # "SUCCESS"
      <4>1. InFlight = {}
        BY <2>1, <3>4, Hands
      <4> QED
        BY <2>1, <3>1, <3>2, <3>4, <4>1, QuietOrFails
    <3> QED
      BY <3>3, <3>4
  <2>3. CASE UNCHANGED <<pc, job, result, closed>>
    <3>1. InHand' = InHand /\ InFlight' = InFlight
      BY <2>3, Hands
    <3> QED
      BY <2>1, <2>3, <3>1
  <2> QED
    BY <1>10, <2>2, <2>3 DEF RecordResult
<1>11. CASE RecordResultFails
  <2>1. /\ pc = "recording" /\ pc' = "sleep"
        /\ excuses' = Excuse(InFlight) /\ UNCHANGED <<delivered, closed>>
    BY <1>11 DEF RecordResultFails, EndTick
  <2>2. InHand' = {} /\ InFlight' = {} /\ InHand = InFlight
    BY <2>1, Hands
  <2> QED
    BY <1>0, <2>1, <2>2, LosesOrFails
<1> QED
  BY <1>1, <1>2, <1>3, <1>4, <1>5, <1>6, <1>7, <1>8, <1>9, <1>10, <1>11
  DEF Next, Loop

\* However many markets, symbols, faults and restarts there are and whatever the
\* provider reports, the scheduler keeps the promise of ReportPromise: a window
\* that ran to the end is begun again only after a start that could not read
\* the file, and a report goes out again only after a fault took it away.
THEOREM SchedulerKeepsPromise == Spec => KeepsPromise
  BY ClosedInvariant, PromiseInit, PromiseNext, PTL
  DEF Spec, KeepsPromise, Promise!Spec

-----------------------------------------------------------------------------
(* How often a report goes out. *)

\* The count that the promise keeps right.
Owed(w) == IF w \in closed \cup InFlight THEN 1 ELSE 0

LEMMA AccountInit == Init => DeliveriesExplained
<1> SUFFICES ASSUME Init, NEW w \in Window PROVE delivered[w] = excuses[w] + Owed(w)
  BY DEF DeliveriesExplained, Owed
<1>1. InFlight = {} /\ closed = {}
  BY Hands DEF Init
<1> QED
  BY <1>1 DEF Init, Owed

\* No step of the promise unbalances the account: it is enough that what is in
\* hand is not settled.
LEMMA AccountNext ==
    ASSUME TypeOK, TypeOK', Shape, ClosedInv, DeliveriesExplained, [Next]_vars
    PROVE  DeliveriesExplained'
<1> SUFFICES ASSUME NEW w \in Window PROVE delivered'[w] = excuses'[w] + Owed(w)'
  BY DEF DeliveriesExplained, Owed
<1>0. /\ delivered[w] = excuses[w] + Owed(w) /\ delivered[w] \in Nat /\ excuses[w] \in Nat
  BY DEF DeliveriesExplained, Owed, TypeOK
<1>1. InFlight \subseteq InHand
  BY Hands
<1>2. \A v \in InHand : v \notin closed
  BY Hands DEF ClosedInv, Running
<1>3. \A c, ws : Promise!More(c, ws)[w] = IF w \in ws THEN c[w] + 1 ELSE c[w]
  BY DEF Promise!More
<1>4. CASE \E v \in Window : Promise!Begin(v)
  BY <1>0, <1>4 DEF Promise!Begin, Owed
<1>5. CASE Promise!Send
  <2>1. /\ delivered' = Promise!More(delivered, InHand) /\ InFlight = {}
        /\ InFlight' = InHand /\ UNCHANGED <<excuses, closed>>
    BY <1>5 DEF Promise!Send
  <2> QED
    BY <1>0, <1>2, <1>3, <2>1 DEF Owed
<1>6. CASE Promise!Fail
  BY <1>0, <1>6 DEF Promise!Fail, Promise!Done, Owed
<1>7. CASE Promise!Settle
  BY <1>0, <1>7 DEF Promise!Settle, Promise!Done, Owed
<1>8. CASE Promise!Lose
  <2>1. /\ excuses' = Promise!More(excuses, InFlight) /\ InFlight' = {}
        /\ UNCHANGED <<delivered, closed>>
    BY <1>8 DEF Promise!Lose, Promise!Done
  <2> QED
    BY <1>0, <1>1, <1>2, <1>3, <2>1 DEF Owed
<1>9. CASE Promise!Forget
  <2>1. /\ excuses' = Promise!More(excuses, closed) /\ closed' = {}
        /\ InHand = {} /\ InFlight' = InFlight /\ delivered' = delivered
    BY <1>9 DEF Promise!Forget
  <2> QED
    BY <1>0, <1>1, <1>3, <2>1 DEF Owed
<1>10. CASE UNCHANGED Promise!vars
  BY <1>0, <1>10 DEF Owed
<1> QED
  BY <1>4, <1>5, <1>6, <1>7, <1>8, <1>9, <1>10, PromiseNext DEF Promise!Next

\* The report of a window goes out once, and once more only for a fault that hit
\* it between its delivery and its SUCCESS record or that hid that record from a
\* starting process, however many markets, symbols, faults and restarts there
\* are and whatever the provider reports.
THEOREM DeliveriesAreExplained == Spec => []DeliveriesExplained
<1>1. Init => DeliveriesExplained
  BY AccountInit
<1>2. /\ TypeOK /\ Shape /\ ClosedInv /\ TypeOK' /\ DeliveriesExplained /\ [Next]_vars
      => DeliveriesExplained'
  BY AccountNext
<1> QED
  BY <1>1, <1>2, ClosedInvariant, PTL DEF Spec

-----------------------------------------------------------------------------
(* Attempts left open. *)

LEMMA AttemptInit == Init => AttemptInv
<1> SUFFICES ASSUME Init PROVE AttemptInv
  OBVIOUS
<1>1. \A w \in Window, s \in Symbol : file[w][s] = NoRecord
  BY EmptyEffect DEF Init, StoreInit
<1> QED
  BY <1>1 DEF Init, AttemptInv, NoRecord

\* What AttemptInv says of one record.
OnTime(w, s) == file[w][s].at <= now

Known(w, s) ==
    file[w][s].state = "IN_PROGRESS" =>
        \/ mem[w][s].state \in {"SUCCESS", "FAILED"}
        \/ mem[w][s].state = "IN_PROGRESS" /\ mem[w][s].at >= file[w][s].at

\* A mark of any state but SKIPPED or NONE leaves every record known.
LEMMA AttemptMark ==
    ASSUME TypeOK, NEW z \in Symbol, job \in Window,
           NEW st \in {"IN_PROGRESS", "SUCCESS", "FAILED"}, now' = now,
           MarkState(job, z, st, now) \/ MarkStateFails(job, z, st, now),
           NEW w \in Window, NEW s \in Symbol, OnTime(w, s)
    PROVE  OnTime(w, s)' /\ (Known(w, s) => Known(w, s)')
<1>1. CASE w = job /\ s = z
  <2>1. /\ mem'[w][s] = Stamp(st, now)
        /\ file'[w][s] \in {Stamp(st, now), file[w][s]}
    BY <1>1, MarkEffect DEF TypeOK, State
  <2>2. now \in Nat /\ file[w][s].at \in Nat
    BY ZeroIsTime DEF TypeOK, StoreTypeOK, Record
  <2> QED
    BY <2>1, <2>2 DEF OnTime, Known, Stamp
<1>2. CASE ~(w = job /\ s = z)
  <2>1. mem'[w][s] = mem[w][s] /\ file'[w][s] = file[w][s]
    BY <1>2, MarkEffect DEF TypeOK, State
  <2> QED
    BY <2>1 DEF OnTime, Known
<1> QED
  BY <1>1, <1>2

LEMMA AttemptNext ==
    TypeOK /\ TypeOK' /\ AttemptInv /\ [Next]_vars => AttemptInv'
<1> SUFFICES ASSUME TypeOK, TypeOK', [Next]_vars,
                    NEW w \in Window, NEW s \in Symbol, OnTime(w, s),
                    ~blind /\ pc # "down" => Known(w, s)
             PROVE  /\ OnTime(w, s)'
                    /\ ~blind' /\ pc' # "down" => Known(w, s)'
  BY DEF AttemptInv, OnTime, Known
<1>0. now \in Nat /\ file[w][s].at \in Nat
  BY ZeroIsTime DEF TypeOK, StoreTypeOK, Record
<1>1. CASE Boot
  <2>1. OnTime(w, s)'
    BY <1>1 DEF Boot, Load, LoadFails, OnTime
  <2>2. ~blind' => mem' = file /\ file' = file
    BY <1>1 DEF Boot, Load, TypeOK
  <2> QED
    BY <1>0, <2>1, <2>2 DEF Known
<1>2. CASE Crash
  BY <1>2 DEF Crash, LoseMemory, OnTime
<1>3. CASE ClockTick
  BY <1>0, <1>3 DEF ClockTick, store, OnTime, Known
<1>4. CASE MarkInProgress \/ MarkInProgressFails
  <2>1. PICK z \in todo : \/ MarkState(job, z, "IN_PROGRESS", now)
                         \/ MarkStateFails(job, z, "IN_PROGRESS", now)
    BY <1>4 DEF MarkInProgress, MarkInProgressFails
  <2>2. /\ job \in Window /\ z \in Symbol /\ pc # "down"
        /\ now' = now /\ blind' = blind
    BY <1>4, RunInHand DEF MarkInProgress, MarkInProgressFails, TypeOK
  <2> QED
    BY <2>1, <2>2, AttemptMark
<1>5. CASE RecordResult \/ RecordResultFails
  <2>1. PICK z \in todo : \/ MarkState(job, z, result, now)
                         \/ MarkStateFails(job, z, result, now)
    BY <1>5 DEF RecordResult, RecordResultFails
  <2>2. /\ job \in Window /\ z \in Symbol /\ pc # "down"
        /\ now' = now /\ blind' = blind
        /\ result \in {"IN_PROGRESS", "SUCCESS", "FAILED"}
    BY <1>5, RunInHand DEF RecordResult, RecordResultFails, TypeOK
  <2> QED
    BY <2>1, <2>2, AttemptMark
<1>6. CASE UNCHANGED <<now, store, blind>> /\ (pc # "down" \/ pc' = "down")
  BY <1>6 DEF store, OnTime, Known
<1> QED
  BY <1>1, <1>2, <1>3, <1>4, <1>5, <1>6, CheckEffect
  DEF Next, Loop, Fetch, FetchFails, StartMarket, Deliver, HandlerFails,
      HandlerSucceeds, HandlerDenies

\* An attempt that is open on disk is not repeated before the timeout, unless
\* the process that repeats it saw it fail.
THEOREM NoEarlyRetry == Spec => RetryOnlyAfterTimeout
<1> DEFINE Open(s) ==
        file[job'][s].state = "IN_PROGRESS" =>
            \/ now - file[job'][s].at > Timeout
            \/ mem[job'][s].state = "FAILED"
            \/ blind
<1>1. Init => TypeOK /\ AttemptInv
  BY InitType, AttemptInit
<1>2. TypeOK /\ AttemptInv /\ [Next]_vars => (TypeOK /\ AttemptInv)'
  BY NextType, AttemptNext
<1>3. TypeOK /\ AttemptInv /\ [Next]_vars
        => [job' # job /\ job' # NoJob =>
              \A s \in SymbolsOf[job'.market] : Open(s)]_vars
  <2> SUFFICES ASSUME TypeOK, AttemptInv, [Next]_vars, job' # job, job' # NoJob,
                      NEW s \in SymbolsOf[job'.market], ~blind,
                      file[job'][s].state = "IN_PROGRESS",
                      mem[job'][s].state # "FAILED"
               PROVE  now - file[job'][s].at > Timeout
    BY DEF TypeOK
  <2>1. /\ pc # "down" /\ job' \in Window /\ job'.market = mkt
        /\ AllCanRetry(job')
    BY OnlyChecksStart, CheckEffect
  <2>2. s \in Symbol /\ CanRetry(job', s, now)
    BY <2>1, MktIsMarket, KeyConstants DEF AllCanRetry, TypeOK
  <2>3. /\ mem[job'][s].state = "IN_PROGRESS"
        /\ mem[job'][s].at >= file[job'][s].at
    BY <2>1, <2>2 DEF AttemptInv, CanRetry
  <2>4. /\ now \in Nat /\ mem[job'][s].at \in Nat /\ file[job'][s].at \in Nat
    BY <2>1, <2>2, ZeroIsTime DEF TypeOK, StoreTypeOK, Record
  <2> QED
    BY <2>2, <2>3, <2>4, TimeoutConstant DEF CanRetry
<1> QED
  BY <1>1, <1>2, <1>3, PTL DEF Spec, RetryOnlyAfterTimeout
=============================================================================
