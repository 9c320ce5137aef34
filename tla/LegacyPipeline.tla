--------------------------- MODULE LegacyPipeline ---------------------------
(***************************************************************************)
(* scripts/run_pipeline.py: the loop that collects the quotes of one       *)
(* market, normalizes them, mails a report after every period and, after   *)
(* the close, builds the metrics of the day and mails the daily report;    *)
(* and what scripts/daily_check.py says of the files it leaves.            *)
(*                                                                         *)
(* One market and one trading day.  Time is counted in slots: the session, *)
(* the minutes before the daily build is due, the rest of the day (Late),  *)
(* and the next date (Over).  The loop reads the clock once a round.       *)
(* Line 400 uses a logger that is assigned after it, so that main() ends   *)
(* there at this commit; the module is about the loop behind it.           *)
(***************************************************************************)
EXTENDS Integers, FiniteSets

CONSTANTS
    Symbol, Recipient,
    Windows,        \* get_market_windows: their number,
    WindowSlots,    \* and the slots of one
    PeriodSlots,    \* EMAIL_INTRADAY_INTERVAL_HOURS
    Interval,       \* DATA_COLLECTION_INTERVAL_SECONDS
    CollectTries,   \* COLLECT_RETRY_ATTEMPTS
    SmtpTries,      \* SMTP_RETRIES, once for each address of the server
    MaxFaults,      \* bound on the steps that fail
    MaxCrashes      \* bound on the restarts

Close == Windows * WindowSlots
Late  == Close + 1
Over  == Close + 2

ASSUME LegacyConstants ==
    /\ Symbol # {} /\ Recipient # {}
    /\ IsFiniteSet(Symbol) /\ IsFiniteSet(Recipient)
    /\ Windows \in Nat \ {0} /\ WindowSlots \in Nat \ {0}
    /\ PeriodSlots \in Nat \ {0} /\ Interval \in Nat \ {0}
    /\ CollectTries \in Nat \ {0} /\ SmtpTries \in Nat \ {0}
    /\ MaxFaults \in Nat /\ MaxCrashes \in Nat

VARIABLES
    clock, faults, crashes,
    pc, now, last,      \* the round, its time, the last round that collected
    batch, attempt,     \* lines still to append, and the number of the attempt
    mailing, ok,        \* the mail of the round, and whether it went out
    raw, torn, bad,     \* raw file: its lines, a line cut off at its end, and
                        \* whether some line of it cannot be parsed
    norm,               \* lines of the normalized file
    parts, built,       \* lines in the window files, and which of them exist
    daily,              \* lines that went into daily.json
    files,              \* which of the other files exist
    sent, failed,       \* RuntimeState: the marks of the mails,
    errors,             \* and the steps it recorded an error of
    fetched,            \* lines that were to be appended
    copies, troubled,   \* what reached a mailbox; mails with an attempt cut off
                        \* or refused
    missed              \* mails that left out lines they should show

time  == <<clock, faults, crashes>>
round == <<pc, now, last, batch, attempt, mailing, ok>>
disk  == <<raw, torn, bad, norm, parts, built, daily, files>>
state == <<sent, failed, errors>>
seen  == <<fetched, copies, troubled, missed>>
vars  == <<time, round, disk, state, seen>>

Window == 1..Windows
\* The mails of a day: the daily one, and one for each full period.
Daily  == 0
Key    == {Daily} \cup 1..(Close \div PeriodSlots)
\* A quote may be one slot old when it is collected.
Line   == [symbol : Symbol, at : 0..(Close - 1), event : -1..(Close - 1)]
Failing == {"collect", "normalize", "metrics", "daily_quality"}
PC     == {"idle", "collect", "append", "normalize", "intraday", "send", "mark",
           "windows", "daily", "quality", "mail"}

Init ==
    /\ clock \in 0..Close /\ faults = 0 /\ crashes = 0
    /\ pc = "idle" /\ now = 0 /\ last = -Interval
    /\ batch = {} /\ attempt = 1 /\ mailing = Daily /\ ok = FALSE
    /\ raw = {} /\ torn = FALSE /\ bad = FALSE /\ norm = {}
    /\ parts = [w \in Window |-> {}] /\ built = {} /\ daily = {} /\ files = {}
    /\ sent = {} /\ failed = {} /\ errors = {}
    /\ fetched = {} /\ copies = [k \in Key |-> [r \in Recipient |-> 0]]
    /\ troubled = {} /\ missed = {}

-----------------------------------------------------------------------------
GoTo(next)       == pc' = next
At(here, next)   == pc = here /\ GoTo(next)
Fault            == faults < MaxFaults /\ faults' = faults + 1 /\ UNCHANGED <<clock, crashes>>
Record(step)     == errors' = errors \cup {step} /\ UNCHANGED <<sent, failed>>
Keep             == UNCHANGED <<now, last, batch, attempt, mailing, ok>>

Tick ==
    /\ clock < Over /\ clock' = clock + 1
    /\ UNCHANGED <<faults, crashes, round, disk, state, seen>>

Open == now < Close

\* Mutant: a round of the next date goes on with the files of this one.
BeginBetween_NextDate ==
    /\ At("idle", "windows")
    /\ now' = clock /\ (clock - last < Interval \/ (clock >= Late /\ last >= 0))
    /\ UNCHANGED <<last, batch, attempt, mailing, ok, time, disk, state, seen>>

\* A round that collects: the interval is over, or the process has just begun.
\* Within the hours of Late the interval is over again and again.
BeginDue ==
    /\ At("idle", "collect") /\ clock < Over
    /\ now' = clock /\ (clock - last >= Interval \/ clock = Late)
    /\ UNCHANGED <<last, batch, attempt, mailing, ok, time, disk, state, seen>>

BeginBetween ==
    /\ At("idle", "windows") /\ clock < Over
    /\ now' = clock /\ (clock - last < Interval \/ (clock = Late /\ last >= 0))
    /\ UNCHANGED <<last, batch, attempt, mailing, ok, time, disk, state, seen>>

-----------------------------------------------------------------------------
(* collect_market *)

CollectClosed ==
    /\ At("collect", "normalize") /\ ~Open /\ Keep
    /\ UNCHANGED <<time, disk, state, seen>>

Quotes ==
    /\ At("collect", "append") /\ Open
    /\ \E e \in {now - 1, now} :
            batch' = {[symbol |-> s, at |-> now, event |-> e] : s \in Symbol}
    /\ UNCHANGED <<now, last, attempt, mailing, ok, time, disk, state, seen>>

\* The provider logs a failure and returns no quotes: nothing is tried again and
\* nothing recorded.
QuotesEmpty ==
    /\ At("collect", "normalize") /\ Open /\ attempt' = 1 /\ Fault
    /\ UNCHANGED <<now, last, batch, mailing, ok, disk, state, seen>>

\* append_raw_records writes a line; behind one that was cut off it becomes a
\* part of that one.
Append ==
    /\ pc = "append" /\ GoTo("append")
    /\ \E l \in batch :
        /\ batch' = batch \ {l} /\ fetched' = fetched \cup {l}
        /\ raw' = IF torn THEN raw ELSE raw \cup {l}
    /\ torn' = FALSE /\ files' = files \cup {"raw"}
    /\ UNCHANGED <<now, last, attempt, mailing, ok, bad, norm, parts, built, daily,
                   copies, troubled, missed, time, state>>

Appended ==
    /\ At("append", "normalize") /\ batch = {} /\ attempt' = 1
    /\ UNCHANGED <<now, last, batch, mailing, ok, time, disk, state, seen>>

\* The client or the store raises; the next attempt fetches all symbols again.
CollectFails ==
    /\ pc \in {"collect", "append"} /\ Open /\ Fault /\ Record("collect")
    /\ GoTo(IF attempt < CollectTries THEN "collect" ELSE "normalize")
    /\ attempt' = (IF attempt < CollectTries THEN attempt + 1 ELSE 1) /\ batch' = {}
    /\ torn' \in {torn, torn \/ batch # {}} /\ bad' = (bad \/ torn')
    /\ files' = IF torn' THEN files \cup {"raw"} ELSE files
    /\ UNCHANGED <<now, last, mailing, ok, raw, norm, parts, built, daily, seen>>

-----------------------------------------------------------------------------
(* normalize_existing_raw, send_intraday_reports *)

Normalize ==
    /\ At("normalize", "intraday") /\ Keep
    /\ IF "raw" \in files
       THEN norm' = raw /\ files' = files \cup {"normalized"}
       ELSE UNCHANGED <<norm, files>>
    /\ UNCHANGED <<raw, torn, bad, parts, built, daily, time, state, seen>>

NormalizeFails ==
    /\ At("normalize", "intraday") /\ "raw" \in files /\ Fault /\ Record("normalize")
    /\ Keep /\ UNCHANGED <<disk, seen>>

\* intraday_email_window: the last full period, while the market is open.
Period == now \div PeriodSlots
InPeriod(k, l) == l.at \div PeriodSlots = k - 1

IntradayDue ==
    Open /\ Period >= 1 /\ Period \notin sent /\ {"raw", "normalized"} \subseteq files

Intraday ==
    /\ pc = "intraday" /\ IntradayDue /\ GoTo("send") /\ mailing' = Period
    /\ missed' = IF {l \in raw : InPeriod(Period, l)} \subseteq norm
                 THEN missed ELSE missed \cup {Period}
    /\ UNCHANGED <<now, last, batch, attempt, ok, fetched, copies,
                   troubled, time, disk, state>>

IntradaySkipped ==
    /\ At("intraday", "windows") /\ ~IntradayDue /\ last' = now
    /\ UNCHANGED <<now, batch, attempt, mailing, ok, time, disk, state, seen>>

-----------------------------------------------------------------------------
(* send_email and the mark of the mail *)

\* Copies beyond the second are not told apart.
Reach(s) ==
    copies' = [copies EXCEPT ![mailing] =
        [r \in Recipient |-> IF r \in s /\ @[r] < 2 THEN @[r] + 1 ELSE @[r]]]
Trouble == troubled' = troubled \cup {mailing}

Send ==
    /\ At("send", "mark") /\ Reach(Recipient) /\ ok' = TRUE /\ attempt' = 1
    /\ UNCHANGED <<now, last, batch, mailing, fetched, troubled, missed, time, disk, state>>

\* An attempt that fails may have reached some of the recipients: refused ones
\* are an error although the others got the mail, and so is a lost connection.
SendFails ==
    /\ pc = "send" /\ Fault /\ Trouble
    /\ \E s \in SUBSET Recipient : Reach(s)
    /\ GoTo(IF attempt < SmtpTries THEN "send" ELSE "mark")
    /\ attempt' = (IF attempt < SmtpTries THEN attempt + 1 ELSE 1) /\ ok' = FALSE
    /\ UNCHANGED <<now, last, batch, mailing, fetched, missed, disk, state>>

\* Mutant: a mail that failed is not marked.
Mark_Silent ==
    /\ At("mark", IF mailing = Daily THEN "idle" ELSE "windows")
    /\ last' = IF mailing = Daily THEN last ELSE now
    /\ IF ok THEN sent' = sent \cup {mailing} /\ failed' = failed \ {mailing}
             ELSE UNCHANGED <<sent, failed>>
    /\ ok' = FALSE /\ mailing' = Daily
    /\ UNCHANGED <<now, batch, attempt, errors, time, disk, seen>>

Mark ==
    /\ At("mark", IF mailing = Daily THEN "idle" ELSE "windows")
    /\ last' = IF mailing = Daily THEN last ELSE now
    /\ IF ok THEN sent' = sent \cup {mailing} /\ failed' = failed \ {mailing}
             ELSE failed' = failed \cup {mailing} /\ UNCHANGED sent
    /\ ok' = FALSE /\ mailing' = Daily
    /\ UNCHANGED <<now, batch, attempt, errors, time, disk, seen>>

-----------------------------------------------------------------------------
(* build_finished_windows, build_daily_after_close *)

End(w)   == w * WindowSlots
WindowOf(l) == l.event \div WindowSlots + 1
Lines(w) == {l \in norm : WindowOf(l) = w}
Ended    == {w \in Window : End(w) <= now}

\* Mutant: the window under way is built too.
NextWindow_Early ==
    /\ pc = "windows" /\ "normalized" \in files /\ GoTo("windows") /\ Keep
    /\ \E w \in {v \in Window : End(v) - WindowSlots <= now} \ built :
        /\ \A v \in Ended \ built : w <= v
        /\ parts' = [parts EXCEPT ![w] = Lines(w)] /\ built' = built \cup {w}
    /\ files' = files \cup {"metrics"}
    /\ UNCHANGED <<raw, torn, bad, norm, daily, time, state, seen>>

\* windows_day makes the directory; the windows that have ended and have no file
\* get one, in their order, from the normalized lines read before.
NextWindow ==
    /\ pc = "windows" /\ "normalized" \in files /\ GoTo("windows") /\ Keep
    /\ \E w \in Ended \ built :
        /\ \A v \in Ended \ built : w <= v
        /\ parts' = [parts EXCEPT ![w] = Lines(w)] /\ built' = built \cup {w}
    /\ files' = files \cup {"metrics"}
    /\ UNCHANGED <<raw, torn, bad, norm, daily, time, state, seen>>

WindowsDone ==
    /\ At("windows", "daily") /\ Keep
    /\ \/ "normalized" \notin files /\ UNCHANGED files
       \/ "normalized" \in files /\ Ended \subseteq built
          /\ files' = files \cup {"metrics"}
    /\ UNCHANGED <<raw, torn, bad, norm, parts, built, daily, time, state, seen>>

WindowsFail ==
    /\ At("windows", "daily") /\ "normalized" \in files /\ Fault /\ Record("metrics")
    /\ files' \in {files, files \cup {"metrics"}} /\ Keep
    /\ UNCHANGED <<raw, torn, bad, norm, parts, built, daily, seen>>

\* should_build_daily wants the day's file to be missing: with that file and
\* without the quality file nothing is built and nothing mailed.
DailyDue  == now = Late /\ "metrics" \in files
DailyMade == {"daily", "quality"} \subseteq files

DailySkipped ==
    /\ At("daily", "idle") /\ Keep
    /\ ~DailyDue \/ ("daily" \in files /\ ~DailyMade)
    /\ UNCHANGED <<time, disk, state, seen>>

DailyThere ==
    /\ At("daily", "mail") /\ DailyDue /\ DailyMade /\ Keep
    /\ UNCHANGED <<time, disk, state, seen>>

BuildDaily ==
    /\ At("daily", "quality") /\ DailyDue /\ "daily" \notin files /\ Keep
    /\ daily' = UNION {parts[w] : w \in built} /\ files' = files \cup {"daily"}
    /\ UNCHANGED <<raw, torn, bad, norm, parts, built, time, state, seen>>

\* quality_day
BuildQuality ==
    /\ At("quality", "mail") /\ files' = files \cup {"quality"} /\ Keep
    /\ UNCHANGED <<raw, torn, bad, norm, parts, built, daily, time, state, seen>>

DailyFails ==
    /\ \/ pc = "daily" /\ DailyDue /\ "daily" \notin files
       \/ pc = "quality"
    /\ GoTo("idle") /\ Fault /\ Record("daily_quality") /\ Keep
    /\ UNCHANGED <<disk, seen>>

\* Lines the daily report should show: all but those that came when the file of
\* their window had been due, for a file that exists is not built again.
InTime(l) == WindowOf(l) \in Window /\ l.at < End(WindowOf(l))

\* Mutants: the mail goes out every round; the mail is tried once.
MailDue_Again == pc = "mail"
MailDue_Once  == Daily \notin sent \cup failed

MailDue == Daily \notin sent

DailyMail ==
    /\ pc = "mail" /\ MailDue /\ GoTo("send") /\ mailing' = Daily
    /\ missed' = IF bad \/ {l \in fetched : InTime(l)} \subseteq daily
                 THEN missed ELSE missed \cup {Daily}
    /\ UNCHANGED <<now, last, batch, attempt, ok, fetched, copies,
                   troubled, time, disk, state>>

DailyMailed ==
    /\ At("mail", "idle") /\ ~MailDue /\ Keep
    /\ UNCHANGED <<time, disk, state, seen>>

-----------------------------------------------------------------------------
\* The process is started again: it knows the files and the marks.
Crash ==
    /\ pc # "idle" /\ GoTo("idle") /\ crashes < MaxCrashes /\ crashes' = crashes + 1
    /\ now' = 0 /\ last' = -Interval /\ batch' = {} /\ attempt' = 1
    /\ mailing' = Daily /\ ok' = FALSE
    /\ torn' \in {torn, torn \/ batch # {}} /\ bad' = (bad \/ torn')
    /\ files' = IF torn' THEN files \cup {"raw"} ELSE files
    /\ IF pc = "send" THEN Trouble /\ \E s \in SUBSET Recipient : Reach(s)
       ELSE IF pc = "mark" THEN Trouble /\ UNCHANGED copies
       ELSE UNCHANGED <<troubled, copies>>
    /\ UNCHANGED <<clock, faults, raw, norm, parts, built, daily, state, fetched, missed>>

\* One step of a round, of which those that fail are bounded.
Step ==
    \/ CollectClosed \/ Quotes \/ Append \/ Appended
    \/ Normalize \/ Intraday \/ IntradaySkipped \/ Send \/ Mark
    \/ NextWindow \/ WindowsDone
    \/ DailySkipped \/ DailyThere \/ BuildDaily \/ BuildQuality
    \/ DailyMail \/ DailyMailed

Failure ==
    \/ QuotesEmpty \/ CollectFails \/ NormalizeFails \/ SendFails
    \/ WindowsFail \/ DailyFails

Next == Tick \/ BeginDue \/ BeginBetween \/ Step \/ Failure \/ Crash

Spec == Init /\ [][Next]_vars

\* The loop sleeps ten seconds a round and its steps return; in the hours after
\* the close the interval is over in round after round.
Live == Spec /\ WF_vars(Step) /\ WF_vars(BeginDue \/ BeginBetween) /\ SF_vars(BeginDue)

-----------------------------------------------------------------------------
(* scripts/daily_check.py: what is critical in the files of the market. *)
\* check_jsonl; a raw file has a line, if only one that was cut off.
RawMissing        == "raw" \notin files
\* check_normalized
NormalizedMissing == "normalized" \notin files \/ norm = {}
\* check_metrics
MetricsMissing    == "metrics" \notin files \/ built = {}
DailyMissing      == "daily" \notin files
\* check_quality
QualityMissing    == "quality" \notin files

\* evaluate_summary
Critical ==
    RawMissing \/ NormalizedMissing \/ MetricsMissing \/ DailyMissing \/ QualityMissing

TypeOK ==
    /\ clock \in 0..Over /\ faults \in 0..MaxFaults /\ crashes \in 0..MaxCrashes
    /\ pc \in PC /\ now \in 0..Late /\ last \in -Interval..Late
    /\ batch \in SUBSET Line /\ attempt \in Nat \ {0}
    /\ mailing \in Key /\ ok \in BOOLEAN
    /\ raw \in SUBSET Line /\ torn \in BOOLEAN /\ bad \in BOOLEAN
    /\ norm \in SUBSET Line /\ parts \in [Window -> SUBSET Line]
    /\ built \in SUBSET Window /\ daily \in SUBSET Line
    /\ files \in SUBSET {"raw", "normalized", "metrics", "daily", "quality"}
    /\ sent \in SUBSET Key /\ failed \in SUBSET Key /\ errors \in SUBSET Failing
    /\ fetched \in SUBSET Line /\ copies \in [Key -> [Recipient -> 0..2]]
    /\ troubled \in SUBSET Key /\ missed \in SUBSET Key

\* A mail that leaves out lines it should show is a mail of a day on which the
\* state recorded an error of normalize or of the metrics, or whose raw file has
\* a line that cannot be parsed, which the daily mail counts.
LossIsTold == missed # {} => errors \cap {"normalize", "metrics"} # {}

\* A mail that is marked sent has reached every recipient, so that no restart
\* may take for sent what was not; and nobody gets a mail twice, although it is
\* tried again round after round until it is marked, unless an attempt at it
\* failed or a crash came before the mark.
SentIsDelivered == \A k \in sent : \A r \in Recipient : copies[k][r] >= 1
NoNeedlessCopy ==
    \A k \in Key : (\E r \in Recipient : copies[k][r] = 2) => k \in troubled
MailsAreAccounted == SentIsDelivered /\ NoNeedlessCopy

\* A day whose last round began after the build was due, and ran to its end, has
\* its daily mail, or the mark of a failed one, or daily_check calls the market
\* critical.
DayIsReported ==
    pc = "idle" /\ now = Late /\ fetched # {} =>
        Daily \in sent \cup failed \/ Critical

\* After the close the daily report of a day with data goes out at last, if the
\* hours suffice, but for a day whose quality file could not be built.
DailyComesOut ==
    (clock = Late /\ fetched # {}) ~>
        (Daily \in sent \/ clock = Over \/ ("daily" \in files /\ "quality" \notin files))
=============================================================================
