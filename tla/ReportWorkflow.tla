--------------------------- MODULE ReportWorkflow ---------------------------
(***************************************************************************)
(* scripts/market_report_agent.py, _run_report_workflow: one call is one   *)
(* attempt at the report of one window, and the scheduler calls again for  *)
(* the same window until a call answers True.  With it the collector, the  *)
(* cleaner, the validator, the data store and the notifier it calls.       *)
(*                                                                         *)
(* A dataset is reduced to what the validator tells apart.  A write to the *)
(* run log or to a file may fail, a channel may fail, or deliver and be    *)
(* believed to have failed, and the process may die at any step.           *)
(***************************************************************************)
EXTENDS Naturals, Sequences, FiniteSets

CONSTANTS
    Symbol,         \* the symbols of the market, never none
    Type,           \* the report type of the window
    Channels,       \* the enabled notification channels, in sending order
    Retries,        \* SMTP_RETRIES
    MaxRuns,        \* bound on the calls
    MaxFaults       \* bound on failed writes, failed sends and deaths

ReportType == {"intraday_brief", "daily_close_report"}
Channel    == {"console", "email", "webhook"}

\* The console is always enabled.
ASSUME WorkflowConstants ==
    /\ Symbol # {} /\ "*" \notin Symbol
    /\ Type \in ReportType
    /\ Channels \in Seq(Channel) /\ Channels # <<>>
    /\ \A i, j \in 1..Len(Channels) : Channels[i] = Channels[j] => i = j
    /\ Retries \in Nat
    /\ MaxRuns \in Nat /\ MaxFaults \in Nat

VARIABLES
    pc,             \* the step of the workflow, or "idle"
    ds,             \* the dataset in hand
    ch, attempt,    \* the channel being tried, and the tries it has had
    results,        \* notifier_results
    answer,         \* what the last call returned
    runlog,         \* run_logs.jsonl: the last status per row of this call
    report,         \* the call whose report the report file holds, 0: none whole
    (* observation *)
    runs,           \* calls made
    copies,         \* copies of the report that reached each channel
    unconfirmed,    \* copies whose sender was told that they failed
    out,            \* a copy went out in this call
    hit,            \* a fault struck this call
    repeats,        \* faults that struck a call while it was dispatching
    faults          \* spent of MaxFaults

call  == <<ds, ch, attempt, results>>
files == <<runlog, report>>
sends == <<copies, unconfirmed, out>>
vars  == <<pc, call, answer, files, runs, sends, hit, repeats, faults>>

-----------------------------------------------------------------------------
(* The data. *)

\* A symbol's quote: none was returned, it is an outlier or has no timestamp,
\* it is of another day, of today but older than an hour, or fresh.
Quote == {"absent", "outlier", "other_day", "stale", "fresh"}

\* The market status the collector fetched: none, a session in which a brief
\* may run, a session whose close is known, on a weekday, at least the delay
\* ago and not after the status itself, or anything else.
MarketStatus == {"none", "active", "closed", "other"}

\* `aligned': the symbols with candles and intraday points of the trading date.
Dataset ==
    [quotes : [Symbol -> Quote], aligned : SUBSET Symbol, market : MarketStatus]

NoData == [quotes |-> [s \in Symbol |-> "absent"], aligned |-> {},
           market |-> "none"]

\* McpDataCleaner: an outlier is dropped.
Clean(d) ==
    [d EXCEPT !.quotes = [s \in Symbol |->
        IF d.quotes[s] = "outlier" THEN "absent" ELSE d.quotes[s]]]

\* McpDataValidator's tests on the symbols of S: every one must have a quote, and
\* the market must be in the session the report is about; a daily report also
\* needs fresh quotes and complete candles and intraday points of the trading
\* date.
ValidFor(S, d) ==
    /\ \A s \in S : d.quotes[s] # "absent"
    /\ IF Type = "intraday_brief"
       THEN d.market = "active"
       ELSE /\ d.market = "closed"
            /\ S \subseteq d.aligned
            /\ \A s \in S : d.quotes[s] = "fresh"

\* The validator makes them on all symbols of the market.
Validated(d) == ValidFor(Symbol, d)

-----------------------------------------------------------------------------
(* The run log. *)

Row    == Symbol \cup {"*"}
Status == {"NONE", "PENDING", "RUNNING", "DATA_COLLECTED", "DATA_VALIDATED",
           "ANALYZED", "REPORT_GENERATED", "DISPATCHED", "PARTIAL_FAILED",
           "SKIPPED", "FAILED"}

Rows(S, st) == [r \in Row |-> IF r \in S THEN st ELSE runlog[r]]

\* The steps that write one row for the whole market, and what follows them.
StageLog == [RUNNING          |-> "collect",
             DATA_COLLECTED   |-> "validate",
             DATA_VALIDATED   |-> "save_clean",
             ANALYZED         |-> "save_report",
             REPORT_GENERATED |-> "send"]

Stage == DOMAIN StageLog

Step == {"idle", "PENDING", "collect", "validate", "SKIPPED", "save_clean",
         "save_report", "send", "dispatch", "FAILED"} \cup Stage

Dispatching == {"send", "dispatch"}

-----------------------------------------------------------------------------

Init ==
    /\ pc = "idle" /\ ds = NoData
    /\ ch = 1 /\ attempt = 0 /\ results = <<>>
    /\ answer = "none"
    /\ runlog = [r \in Row |-> "NONE"] /\ report = 0
    /\ runs = 0
    /\ copies = [c \in Channel |-> 0] /\ unconfirmed = [c \in Channel |-> 0]
    /\ out = FALSE /\ hit = FALSE /\ repeats = 0 /\ faults = 0

Fault == faults < MaxFaults /\ faults' = faults + 1 /\ hit' = TRUE

NoFault == UNCHANGED <<hit, faults, repeats>>

\* The call returns, or the exception of its first or last write reaches the
\* scheduler, which takes it as a False.
Return(a) ==
    /\ pc' = "idle" /\ answer' = a
    /\ ds' = NoData /\ ch' = 1 /\ attempt' = 0 /\ results' = <<>>

Call ==
    /\ pc = "idle" /\ answer # "true" /\ runs < MaxRuns
    /\ pc' = "PENDING" /\ answer' = "none"
    /\ runlog' = [r \in Row |-> "NONE"]
    /\ runs' = runs + 1 /\ out' = FALSE /\ hit' = FALSE
    /\ UNCHANGED <<call, report, copies, unconfirmed, repeats, faults>>

LogPending ==
    /\ pc = "PENDING"
    /\ runlog' = Rows(Symbol, "PENDING")
    /\ pc' = "RUNNING"
    /\ UNCHANGED <<call, answer, report, runs, sends>> /\ NoFault

LogStage ==
    /\ pc \in Stage
    /\ runlog' = Rows({"*"}, pc)
    /\ pc' = StageLog[pc]
    /\ UNCHANGED <<call, answer, report, runs, sends>> /\ NoFault

Collect ==
    /\ pc = "collect"
    /\ ds' \in Dataset
    /\ pc' = "DATA_COLLECTED"
    /\ UNCHANGED <<ch, attempt, results, answer, files, runs, sends>> /\ NoFault

\* Cleaning and validating.
Validate ==
    /\ pc = "validate"
    /\ pc' = IF Validated(Clean(ds)) THEN "DATA_VALIDATED" ELSE "SKIPPED"
    /\ ds' = Clean(ds)
    /\ UNCHANGED <<ch, attempt, results, answer, files, runs, sends>> /\ NoFault

\* Mutant: a dataset that does not validate is skipped silently.
LogSkipped_Silently ==
    /\ pc = "SKIPPED"
    /\ Return("false")
    /\ UNCHANGED <<files, runs, sends>> /\ NoFault

LogSkipped ==
    /\ pc = "SKIPPED"
    /\ runlog' = Rows(Symbol, "SKIPPED")
    /\ Return("false")
    /\ UNCHANGED <<report, runs, sends>> /\ NoFault

SaveClean ==
    /\ pc = "save_clean" /\ pc' = "ANALYZED"
    /\ UNCHANGED <<call, answer, files, runs, sends>> /\ NoFault

\* Mutant: a report of the day that is there already is left in place.
SaveReport_KeepsFirst ==
    /\ pc = "save_report" /\ pc' = "REPORT_GENERATED"
    /\ report' = IF report = 0 THEN runs ELSE report
    /\ UNCHANGED <<call, answer, runlog, runs, sends>> /\ NoFault

SaveReport ==
    /\ pc = "save_report" /\ pc' = "REPORT_GENERATED"
    /\ report' = runs
    /\ UNCHANGED <<call, answer, runlog, runs, sends>> /\ NoFault

-----------------------------------------------------------------------------
(* CompositeNotifier.send: every channel in turn, whatever the others did. *)

Tries(c) == IF c = "email" THEN Retries ELSE 1

\* Mutant: the loop over the channels does not notice its end.
NextChannel_NoEnd(ok) ==
    results' = Append(results, ok) /\ attempt' = 0 /\ ch' = ch + 1 /\ UNCHANGED pc

NextChannel(ok) ==
    /\ results' = Append(results, ok) /\ attempt' = 0
    /\ IF ch = Len(Channels) THEN pc' = "dispatch" /\ UNCHANGED ch
                             ELSE ch' = ch + 1 /\ UNCHANGED pc

SendConfirmed ==
    /\ pc = "send" /\ attempt < Tries(Channels[ch])
    /\ copies' = [copies EXCEPT ![Channels[ch]] = @ + 1] /\ out' = TRUE
    /\ NextChannel(TRUE)
    /\ UNCHANGED <<ds, answer, files, runs, unconfirmed>> /\ NoFault

\* The channel refuses or cannot be reached.
SendFails ==
    /\ pc = "send" /\ attempt < Tries(Channels[ch])
    /\ attempt' = attempt + 1
    /\ UNCHANGED <<pc, ds, ch, results, answer, files, runs, sends>> /\ NoFault

\* The copy arrives and the call that sent it raises all the same: server.quit
\* after server.sendmail, or the answer of the webhook.
SendUnconfirmed ==
    /\ pc = "send" /\ attempt < Tries(Channels[ch])
    /\ Fault
    /\ copies' = [copies EXCEPT ![Channels[ch]] = @ + 1] /\ out' = TRUE
    /\ unconfirmed' = [unconfirmed EXCEPT ![Channels[ch]] = @ + 1]
    /\ attempt' = attempt + 1
    /\ UNCHANGED <<pc, ds, ch, results, answer, files, runs, repeats>>

\* Mutant: a channel that failed ends the loop over the channels.
GiveUp_StopsAll ==
    /\ pc = "send" /\ attempt = Tries(Channels[ch])
    /\ results' = Append(results, FALSE) /\ attempt' = 0
    /\ pc' = "dispatch" /\ UNCHANGED ch
    /\ UNCHANGED <<ds, answer, files, runs, sends>> /\ NoFault

GiveUp ==
    /\ pc = "send" /\ attempt = Tries(Channels[ch])
    /\ NextChannel(FALSE)
    /\ UNCHANGED <<ds, answer, files, runs, sends>> /\ NoFault

\* Mutant: one failed channel fails the dispatch.
DispatchStatus_AllOrNothing ==
    IF \A i \in DOMAIN results : results[i] THEN "DISPATCHED" ELSE "FAILED"

\* _resolve_dispatch_status.
DispatchStatus ==
    IF \A i \in DOMAIN results : results[i] THEN "DISPATCHED"
    ELSE IF \A i \in DOMAIN results : ~results[i] THEN "FAILED"
    ELSE "PARTIAL_FAILED"

LogDispatch ==
    /\ pc = "dispatch"
    /\ runlog' = Rows({"*"}, DispatchStatus)
    /\ Return(IF DispatchStatus # "FAILED" THEN "true" ELSE "false")
    /\ UNCHANGED <<report, runs, sends>> /\ NoFault

-----------------------------------------------------------------------------
(* Failures. *)

\* The handler of the exception: one FAILED row per symbol, and False.
LogFailed ==
    /\ pc = "FAILED"
    /\ runlog' = Rows(Symbol, "FAILED")
    /\ Return("false")
    /\ UNCHANGED <<report, runs, sends>> /\ NoFault

\* A fault after the report went out makes the scheduler repeat the call.
CountRepeat == repeats' = IF out /\ pc \in Dispatching THEN repeats + 1 ELSE repeats

\* Something the provider did not answer: a quote, candles, points, the status.
Gaps(d) ==
    \/ \E s \in Symbol : d.quotes[s] = "absent"
    \/ d.aligned # Symbol
    \/ d.market = "none"

\* One of the four requests to the provider raised, for one of its symbols; the
\* others were made, and collect raises whatever they returned.  `ds' is what
\* the provider answered; nothing reads it any more.
CollectRaises ==
    /\ pc = "collect" /\ pc' = "FAILED"
    /\ ds' \in {d \in Dataset : Gaps(d)}
    /\ UNCHANGED <<ch, attempt, results, answer, files, runs, sends>> /\ NoFault

\* The writes before the `try' and those of its handler are not caught.
Uncaught == {"PENDING", "FAILED"}

Raise == IF pc \in Uncaught THEN Return("false")
                           ELSE pc' = "FAILED" /\ UNCHANGED <<call, answer>>

\* log_run raises, with some of the rows written.
LogRaises ==
    /\ pc \in Stage \cup {"PENDING", "SKIPPED", "dispatch", "FAILED"}
    /\ Fault /\ CountRepeat
    /\ LET rows == IF pc \in {"PENDING", "SKIPPED", "FAILED"} THEN Symbol ELSE {"*"}
           st   == IF pc = "dispatch" THEN DispatchStatus ELSE pc
       IN  \E S \in SUBSET rows : runlog' = Rows(S, st)
    /\ Raise
    /\ UNCHANGED <<report, runs, sends>>

\* A snapshot or the report cannot be written; the report file of the day is
\* truncated before it is written.
SaveRaises ==
    /\ pc \in {"save_clean", "save_report"}
    /\ Fault
    /\ report' \in IF pc = "save_report" THEN {report, 0} ELSE {report}
    /\ Raise
    /\ UNCHANGED <<runlog, runs, sends, repeats>>

\* The process dies in the middle of the call.
Die ==
    /\ pc # "idle"
    /\ Fault /\ CountRepeat
    /\ report' \in IF pc = "save_report" THEN {report, 0} ELSE {report}
    /\ Return("none")
    /\ UNCHANGED <<runlog, runs, sends>>

Next ==
    \/ Call \/ LogPending \/ LogStage \/ Collect \/ Validate \/ LogSkipped
    \/ SaveClean \/ SaveReport
    \/ SendConfirmed \/ SendFails \/ SendUnconfirmed \/ GiveUp \/ LogDispatch
    \/ LogFailed \/ CollectRaises \/ LogRaises \/ SaveRaises \/ Die

Spec == Init /\ [][Next]_vars

-----------------------------------------------------------------------------
(* Properties. *)

TypeOK ==
    /\ pc \in Step /\ ds \in Dataset
    /\ ch \in 1..Len(Channels) /\ attempt \in Nat /\ results \in Seq(BOOLEAN)
    /\ answer \in {"none", "true", "false"}
    /\ runlog \in [Row -> Status] /\ report \in Nat /\ runs \in Nat
    /\ copies \in [Channel -> Nat] /\ unconfirmed \in [Channel -> Nat]
    /\ out \in BOOLEAN /\ hit \in BOOLEAN /\ repeats \in Nat
    /\ faults \in 0..MaxFaults

\* However often the scheduler repeats a call, a channel gets one copy, one more
\* for each copy whose sender was told it had failed, and one more for each
\* fault that struck a call while its report was going out.  A channel that
\* failed, a validation that failed and a retry of either repeat nothing.
CopiesExplained ==
    \A c \in Channel : copies[c] <= 1 + unconfirmed[c] + repeats

\* The answer tells the scheduler the truth: after a True some channel has the
\* report; after a False none got it in this call, unless a fault struck it.
AnswerTellsDelivery ==
    /\ pc = "idle" /\ answer = "true" => out
    /\ pc = "idle" /\ answer = "false" /\ out => hit

\* So does the run log: a call that answered True ends DISPATCHED or
\* PARTIAL_FAILED with no symbol FAILED or SKIPPED, and a call that answered
\* False ends FAILED or SKIPPED unless a fault struck it.
LogTellsAnswer ==
    pc = "idle" =>
        /\ answer = "true" =>
              /\ runlog["*"] \in {"DISPATCHED", "PARTIAL_FAILED"}
              /\ \A s \in Symbol : runlog[s] = "PENDING"
        /\ answer = "false" /\ ~hit =>
              \/ runlog["*"] = "FAILED"
              \/ \A s \in Symbol : runlog[s] \in {"FAILED", "SKIPPED"}

\* A failed channel does not keep the report from the channels after it.
EveryChannelTried == pc = "dispatch" => Len(results) = Len(Channels)

\* What goes out is the report of this very call, whole on disk, whatever writes
\* of this call and of earlier ones for the window failed half way.  It is never
\* a partial one: the code sends only what has a quote for every symbol, and for
\* a daily report a fresh one of the trading date with candles and intraday
\* points.  The repository's documents promise something else (next property).
SentIsSavedAndComplete ==
    [][copies' # copies =>
         /\ report = runs
         /\ \A s \in Symbol : ds.quotes[s] \notin {"absent", "outlier"}
         /\ Type = "daily_close_report" =>
               ds.aligned = Symbol /\ \A s \in Symbol : ds.quotes[s] = "fresh"]_vars

\* skills/market_report_generation/SKILL.md:51, "Partial data: Report is generated
\* for available symbols only; missing symbols are listed", and :48; and
\* skills/market_report_data_collection/SKILL.md:68, "If a quote/candle/intraday
\* call fails, log the error and skip that symbol", and :71.  So a call that no
\* fault struck is given up only if there is no symbol with valid data.
PartialDataIsReported ==
    pc \in {"SKIPPED", "FAILED"} /\ ~hit =>
        \A S \in SUBSET Symbol \ {{}} : ~ValidFor(S, ds)

-----------------------------------------------------------------------------
(* The workflow is the handler the scheduler expects. *)

Handler == INSTANCE ReportHandler WITH
    phase     <- IF pc = "idle" THEN "idle" ELSE IF out THEN "delivered" ELSE "called",
    disturbed <- hit

\* Each call of _run_report_workflow is a call of the handler that McpScheduler
\* assumes: it answers True only after a report went out, and after it went out
\* answers False or raises only if a fault struck the call.
ImplementsHandler == Handler!Spec
=============================================================================
