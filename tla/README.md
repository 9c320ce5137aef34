# Verification of the market report agent

TLA+ models of the report agent of this repository, checked with TLC on small
instances and proved with TLAPS for every value of the constants. Paths below
are relative to `src/`.

## 1. The system

Two programs share this repository.

* The **service** (`scripts/market_report_agent.py`), run by systemd with
  `Restart=always`. One loop polls a market data provider over MCP, decides
  which reports are due, and for each of them collects, cleans, validates,
  writes and sends. It persists a dedup log, a run log, snapshots and reports.
* The **offline pipeline**: collections append raw lines to a day's file; jobs
  started by the HTTP API (`app/main.py`, each request in a thread of its own),
  by `scripts/run_post_market.sh` or by the command line derive the files of
  the day (normalized lines, metrics of each window, the day, its quality) and
  publish products of it (summary, timeline, features, archive, health,
  narrative). They meet only on disk. The same files are kept by the loop that
  the service replaced (`scripts/run_pipeline.py`: collect, normalize, windows,
  day, mails) and, for the US market outside its session, by
  `scripts/extended_pipeline.py` and `extended_report.py`.
* Both, and the scripts around them, announce what they did through
  `core/notification.py`, which keeps an archive of the day.

```
  systemd --> run_forever (McpScheduler) --poll--> LongbridgeMcpClient --> MCP
                 |  DedupStore (memory + JSONL)        ^  ToolPolicy
                 | handler(market, symbols, date)      |
                 v                                     |
              _run_report_workflow --collect-----------+
                 | clean, validate, save, CompositeNotifier -> channels
                 v  run log, snapshots, report

  POST /collect/run            --> raw lines of the day
  POST /pipeline/daily/run     --> normalize, metrics, daily, quality
  POST /reports/post-market/run,
  run_post_market.sh           --> the same, then finalize, products,
                                   archive, health, narrative
  each request                 --> its mark in runtime/pipeline_status.json
```

### Inventory

| component | state | operations | hard behaviour | what makes it correct |
|---|---|---|---|---|
| Report scheduler, `core/mcp_scheduler.py` 183-587 | `_last_intraday`, `_last_daily`, position in the loop | poll, two report decisions per market, marks before and after a handler | death and restart between any two writes, status and clock read before a long handler and used after it, retries after a timeout | a report is neither repeated without a reason nor lost |
| Dedup store, 60-180 | records in memory, JSONL file | `mark_state`, `is_completed`, `can_retry`, `_load` | memory is set before the append, torn line, unreadable file | what ended stays ended after a restart |
| Windows and dates, 183-330 | none | bucket of the local day, trading date | day boundary, time zones | one window per bucket and market |
| Report workflow, `scripts/market_report_agent.py` 40-330 | run log rows, report and snapshot files | the stages of one run, the answer to the scheduler | every stage may raise, so may the log itself | the answer and the log tell what happened |
| Collector, cleaner, validator, `core/mcp_collector.py`, `mcp_cleaner.py`, `mcp_validator.py` | none | one dataset per run | a provider that fails between two calls | nothing partial goes on |
| Report store and run log, `core/mcp_datastore.py` | files | `log_run`, `save_*` | a write that fails half way | a report that went out is on disk |
| Notification channels, `core/mcp_notifier.py` | none | console, e-mail with retries, webhook | a send that arrives and reports failure | every channel tried, copies explained |
| Market data client, `clients/longbridge_mcp_client.py` | discovery result or its error, session | discovery, mapped calls | endpoint, tools and authorization change while it runs | fail closed; recovers |
| Tool policy, `app/policy/tool_policy.py` | discovered tools, mapping | `update_from_discovery`, `check_tool` | decisions of long ago | only approved, discovered tools are called |
| Atomic files, `core/data_pipeline.py` 90-109, `core/post_market/common.py` 32-37, `core/runtime_support.py` 22-29 | target and temporary name | write, then rename | one temporary name for all writers | a reader sees a whole file |
| Offline day, `core/data_pipeline.py` 217-760, `core/post_market/` | the day's files | normalize to narrative, see section 3 | death between two files, collections meanwhile | files of one day belong together |
| HTTP API, `app/main.py` | none of its own | requests that start the above | threads | as the jobs |
| Runtime state, `core/runtime_support.py` 65-200 | one JSON file | load, change, save as a whole | lost updates, unreadable file read as default | no mark is lost |
| Notification archive, `core/notification.py` | one file | append, then read-modify-write in place | several processes, equal ids | every notification keeps its line and gets its own results |
| Legacy loop, `scripts/run_pipeline.py`, `core/email_reporter.py`, `market_data_store.py` | last round that collected, marks of `RuntimeState`, the day's files | collect with retries, normalize, windows, day, mails | lines repeated, cut off or late, mails that fail in part, restarts between mail and mark | what a report leaves out is on record; the daily report comes out |
| Daily check, `scripts/daily_check.py` | none | reads the day's files | runs against a day that failed half way | a day without a report is critical |
| Rows, grades and quality, `core/data_pipeline.py` 112-1006, `core/time_series_quality.py` | none | rows, window metrics, day, quality report | repeated, unpriced, untimed answers; thresholds | numbers and grades are those of the answers |
| Calendar and sessions, `core/market_calendar.py`, `extended_session.py`, `trading_hours.py`, `time_model.py` | none | session, window and night of a moment | weekends, New York's change of clocks, edges | sessions do not overlap, windows partition them |
| Extended session, `scripts/extended_pipeline.py`, `extended_report.py` | one file a night, its reports | collect once, report | a collection under way at the end of the night | a report shows its night |
| Report generator, `core/mcp_report_generator.py` | none | formatting | none | wording only |
| AI analysis, configuration and deployment | none or files | see `PROJECT.json` | one network call | |

`PROJECT.json` lists every component with what is modelled of it, and the
hazards of this code at their lines with the properties that cover them.

## 2. Modules

| module | models | extends |
|---|---|---|
| `WindowKeys` | clock, local time, buckets, window keys | |
| `DedupStore` | memory and file of the dedup store | `WindowKeys` |
| `ReportPromise` | what the service promises of its report windows (abstract) | |
| `McpScheduler` | `run_forever`, its process, clock, provider, handlers; refines `ReportPromise` | `DedupStore` |
| `ReportHandler` | what the scheduler expects of a handler (abstract) | |
| `ReportWorkflow` | one handler call in full; refines `ReportHandler` | |
| `ToolPolicy` | the tools and what may be called | |
| `MarketClient` | discovery and calls of a process against a changing provider | `ToolPolicy` |
| `AtomicFile` | one file, several writers; names, inodes and open files apart | |
| `OfflineDay` | the files of one market and day, the jobs that derive them | |
| `RuntimeState` | the status file, loaded, marked and saved by requests | `AtomicFile` |
| `NotificationArchive` | the archive of a day and the processes that notify | |
| `LegacyPipeline` | a market's day in the legacy loop, its files, marks and mails; `daily_check` | |
| `MarketHours` | sessions, windows, nights; regular and extended collections and reports | |
| `QuoteRows` | raw lines of a day and every number and grade that decides | |
| `*Proofs` | theorems about the module of that name; `OfflineDayProofs` has those of `QuoteRows` too, the day's files and its numbers | that module, `TLAPS` |
| `MC*` | constants, symmetry and observers for TLC | the module checked |

A definition named `X_Something` next to `X` is `X` with a mistake in it. No
specification uses these; replacing `X` by one makes TLC find the property that
`PROJECT.json` names for it violated.

## 3. How the models correspond to the code

**Scheduler.** `pc` is the statement of `run_forever` (458-587) the process
stands at: `sleep`, `market` (head of the loop over markets), `intraday` and
`daily` (the two decisions), `marking` (IN_PROGRESS for every symbol),
`handler`, `delivered` (the report is out, the handler has not returned),
`recording` (result for every symbol). Each mark of one symbol is a step, since
each is an append of its own; a death (`Crash`) may come before any of them,
and may leave the line torn. `ClockTick` may come between any two steps, so
`status` and `localNow` are old when used. `HandlerDenies` is a handler that
delivered and still answers False or raises. `delivered`, `excuses`, `closed`
and `blind` observe; nothing in the loop reads them. `closed` are the windows
that ran to the end since the last start that could not read the file: such a
start forgets them, and each gets an excuse. `KeepsPromise` maps them to
`ReportPromise`, in which a window is in hand, out, settled or none of these; the
rest, the marks symbol by symbol, the two copies of the records,
the timeouts and the clock, are steps that it does not see.

**Workflow.** `pc` is the stage `_run_report_workflow` will log next; `runlog`
holds the last row of the run (`*`) and of each symbol; `copies` counts what
each channel received over all calls for one window, so a repeated call is part
of the behaviour. Every step that touches disk or network may fail, and `Die`
ends the process in any of them. `ImplementsHandler` maps `pc` and `out` to the
phases of `ReportHandler`, the very assumption with which `McpScheduler` models
its handlers: the two models fit together at that interface.

**Client.** A tick of the scheduler is a market status request, and a report a
collection of five requests (`Requests`) for each target; `EndpointChanges`
moves the endpoint, the tools on offer and the accepted authorization between
any two calls, and `Stop` and `Boot` restart the process with the authorization
in the environment file at that time. `discovery = "failed"` is the kept
`_discovery_error`.

**Atomic file.** The three functions of that shape are one algorithm: open the
temporary name for writing (which empties the inode it names), write, close,
rename. `Left` gives what an inode holds when several writers filled it: the
payload of one or a mixture. A writer whose temporary name is gone gets an
error; `Die` may leave the temporary file behind.

**Offline day.** A file is reduced to the collections it was made of, the
windows that went into it, and its finalized mark. `step` names the file a job
writes next, in the order of `run_daily_build` and `run_post_market_pipeline`;
files written under their own name (archive, checksum, narrative) may be left
torn by `Die`, the others change in one step, which `AtomicFile` justifies for
jobs that do not overlap. The manifest keeps, besides the checksum of the
archive it was made for, the size of the raw file at the moment it is written,
which is later than the archive: when lines were collected between the two, the
manifest's size is that of more lines than the archive holds. `ArchiveMatches`
says that this is the only way in which they may disagree.

**Runtime state.** A status file is reduced to the set of marks that went into
it (`success_count` counts them, `last_daily_build` lists them). A request loads
it after its work, and for each mark changes what it loaded and saves all of it;
each save is a `Call`, `Open`, `Write` and `Replace` of `AtomicFile`, interleaved
with those of other requests. `Fails` is a death or an exception anywhere.

**Archive.** A line keeps which call wrote it and whose results stand in it, or
that it is no JSON (`Torn`) or not even UTF-8 (`Broken`); `id` says which
notifications are equal (`build_notification_id` knows the second, the title and
the body), `ended` whether the last line has its end: what is appended to one
that has none becomes a part of it. `Open` and `Write` are the two halves of
`write_text`, `Beyond` what is left of lines that others appended in between.
The append may fail or die with a part of the line written (`AppendPart`), a
title may hold a line end that `splitlines` knows, so that its line is read as
several (`AppendLine`), and reading, opening and writing may raise an `OSError`
that `update_archive_results` swallows (`GiveUp`, `WriteFails`), the last after
the file was emptied; a `Broken` file makes the call raise (`ReadRaises`).
`raced` and `cut` observe that two calls met at the file and that a rewriting
ended half way; `appended` are the calls whose line is in the file as one of its
own.

**Legacy loop.** `pc` is the step of a round of `main` (444-477) and `now` the
one time the round reads; `batch` are the lines of a collection still to be
appended, one by one, as `append_raw_records` does. `raw`, `norm`, `parts` and
`daily` say which lines went into which file, so that a report that lacks one is
seen (`missed`); `torn` is a line that was cut off, which swallows the next.
`sent`, `failed` and `errors` are what `RuntimeState` keeps of it, `copies` what
reached each mailbox. `Critical` is `daily_check`'s judgement of the files. A
round after the close collects nothing and goes straight to the builds. A slot
stands for the time between two collections, `Late` for the hours in which the
day may be built, `Over` for the next date, on which the loop looks at other
files. `recent_errors` holds twenty entries; the model keeps which steps are in
it.

**Hours.** Moments are half hours of UTC and local times are moments plus an
offset, so that sessions, windows and nights are compared as the code compares
them, across the zones; New York's offset changes at `Change`, in a night at
seven o'clock UTC, forward or back.
`fetching` is a collection that read the clock and has not appended yet.
A regular line has the moment of its collection, which decides its file, and a
source timestamp of its own, which alone decides its window (`BelongsTo`):
`EventTime` is any moment `Shift` allows around the collection, or none, for
`normalize_event_timestamp` reads what the provider says of the last trade.
In autumn the clocks change an hour earlier than at `Change`; no rule looks at
that hour of a Sunday. A report that is forced before the end of the night
stays in place and is not made again; without `--date` the script looks for the
night to come, which has never ended, and reports nothing.

**Rows.** A line is reduced to symbol, source timestamp, price and cumulative
volume; turnover goes with the volume. `Repeated` and `Valid` are the flags that
make a row invalid, `Numbers` the numbers of a symbol in a window, and
`SymbolMetrics` adds its integrity report (duplicates, gaps, a counter reset, the
longest run of one price) and the flag `stale_price`; `Grade`,
`WindowStatus` and `OverallGrade` the three classifications with their
thresholds as fractions. Rounding to four places moves no threshold for windows
of less than a thousand points. The time series is one of all rows, whatever
their symbol, as in `check_time_series_quality`, so that of two symbols with
equal timestamps, or different volumes, no day is ever `good`.

## 4. What the runs check

| run | property | meaning |
|---|---|---|
| `scheduler` | `TypeOK` | types; a run in hand is of the market served |
| | `DeliveriesExplained` | deliveries of a window = its faults between delivery and SUCCESS record, and starts that could not read that record, and one if it stands: an equation, so no report is repeated and no fault counted without a cause |
| | `SuccessSurvives` | a window that ended SUCCESS stays SUCCESS on disk through crashes, torn lines, failed appends |
| | `RetryOnlyAfterTimeout` | an attempt IN_PROGRESS on disk is not repeated before the timeout, also by a later process |
| | `KeepsPromise` | every behaviour is one of `ReportPromise`: one window at a time, none begun again once settled, none out twice without having been lost |
| `scheduler_live` | `EveryMarketServed` | every market's daily report goes out, or is tried for ever |
| `workflow` | `CopiesExplained`, `LogTellsAnswer`, `EveryChannelTried` | see the comments in the module |
| | `SentIsSavedAndComplete` | what goes out is this call's report, whole on disk, made of clean data of every symbol: never a partial one, which the code does not make and the documents promise (see below) |
| | `ImplementsHandler` | every behaviour is one of `ReportHandler`; its answers are therefore true |
| `client` | `FailClosed`, `DatasetIsWhole` | nothing unvetted is called; a dataset has every answer, from its own tick |
| | `OutageHeals`, `RestartHeals` | datasets come again after an outage once tools are known, and always after a restart |
| `day` | `DayIsOneBuild` | the day is at all times made of all its windows, from one set of raw lines |
| | `PostMarketIsDone` | an answered post-market job leaves a final day, products of that very day, an archive of all its lines with its own checksum, and a manifest of that archive, whose raw size alone may be of a later moment |
| `state` | `StateTypeOK` | types; a request saves what it has in hand |
| | `MarksKept` | marks of a request that shared the status file with no other are never lost while no saves overlap |
| | `SerialWritesAreAtomic` | saves that do not overlap are atomic for readers, and none of them fails |
| | `LossIsAnnounced` | saves that overlap may leave the file in pieces or make it forget every mark; then some request failed |
| `archive` | `QuietArchiveIsWhole` | unless two calls meet at the file or a rewriting ends half way, by a death or by a swallowed `OSError`, every line that was written whole is there once, with torn lines around it, and holds the results of its call, if that returned without giving up |
| | `ResultsAreItsOwn` | whoever meets whom, no line shows another notification's results |
| `legacy` | `LossIsTold` | a mail that lacks lines it should show belongs to a day with a recorded error of normalize or metrics |
| | `MailsAreAccounted` | marked sent means that all recipients have it; a second copy has a failed attempt or a crash behind it |
| | `DayIsReported` | a day that ran to its end has its daily mail, or the mark of a failed one, or is critical |
| | `DailyComesOut` | the daily mail of a day with data goes out at last, but for a day whose quality file could not be built |
| `hours` | `OneMarketAtATime` | no two of the three collections are due at one moment |
| | `LinesAreFiledOnce` | a regular line is counted in one window if its source's timestamp lies in a session of its file's date, and in none if not; an extended line is in the file of its night and no other |
| | `ReportIsWhole` | a report that was not forced lacks at most the line of a collection under way |
| `rows` | `RepeatsAreOnlyCounted` | each repeated line is counted as one duplicate in its window's integrity report; it may change how stale a price looks, but no price, volume, gap or grade, no ranking by them, and not whether the day may be analysed |
| | `VolumeIsTradedOnce` | the windows' volumes add up to no more than was traded |
| | `GradeIsBacked` | what a usable day, a good day and a ranked symbol promise of the raw file |

Some of the statements above were easy to get wrong. The scheduler's memory
says SUCCESS while the append failed, and the next process repeats the report:
that is an `excuse`, not an error, and the property counts exactly these. A
post-market job that dies after the mark of the day and before the archive
leaves a day that the script calls finalized for ever, so `PostMarketIsDone`
excuses a skipped script after a death. `LossIsAnnounced` is the best that
holds when saves overlap. `OutageHeals` needs a discovery that once succeeded.
`LossIsTold` knows two ways to lose a line without an error of the metrics: a
line that came when its window's file had been due, which no report of the day
will show, and one cut off, which the mail's count of parse errors tells.
`DailyComesOut` excepts a day whose `quality_day` failed after `daily_day`:
`should_build_daily` then finds the day's file and the step is skipped ever
after, which `daily_check` calls critical. `RepeatsAreOnlyCounted` needs the
provider's counter not to go back, for a repeated row takes part in the search
for a reset. A repeated line does cost a day its `good`, and `stale_price` may
move a symbol in the two rankings of the weakest quality, which count flags.
`LinesAreFiledOnce` does not say that every line is in a window: a quote stamped
before the open, in the lunch break, at the close, on another day or not at all
is in none, however well the moment of its collection was chosen.
`QuietArchiveIsWhole` has to excuse `cut`: after `write_text` emptied the file a
full disk is enough, and the caller is told nothing.

### Disagreements between code and documentation

Two are runs of their own that TLC refutes, since no other property covers what
they are about.

| run | what the text says | what the code does |
|---|---|---|
| `brief_interval` | intraday briefs are an interval apart | `_last_intraday` is lost with the process, and the next one sends a brief right after a bucket boundary |
| `partial_report` | a symbol whose request failed is skipped (`skills/market_report_data_collection/SKILL.md` 68, 71), a report is made for the available symbols and lists the missing ones (`skills/market_report_generation/SKILL.md` 48, 51) | `mcp_collector.py` 113 raises for the whole market if a request failed for one symbol, and the run is FAILED; `mcp_validator.py` 77 refuses a dataset without a quote of each, and the run is SKIPPED |

The others are facts of the models' actions:

* `market_report_agent.py` 219-220, "Returns False only if the workflow failed
  completely": a run whose data did not validate is logged SKIPPED and returns
  False as well (`LogSkipped`).
* `README.md` 250 repairs a failed discovery by repairing URL, network and
  header: the failure is kept for the life of the process (`Refuse`).
* `core/data_pipeline.py` 91, "Write JSON through a temporary file and atomic
  replace": overlapping calls rename each other's half-written file
  (`AtomicFile`, `Open`).
* `skills/market_report_data_collection/SKILL.md` 76, "Never guess market
  status": `longbridge_mcp_client.py` 582 makes a closed market of a reply that
  cannot be read (an answer like any other in `CallAnswered`).
* `docs/time_model.md` 22, "Longbridge quote timestamps are treated as
  market-local time, not UTC": `normalize_source_timestamp` reads them in the
  provider's zone, Asia/Shanghai, as `tests/test_time_model.py` expects.

## 5. Bounds, and why they are enough

* `scheduler`: one market, two symbols, six hours around a close, an interval
  of two hours, a timeout of one, one death and one fault. Two symbols are
  needed for a run that is marked in part; the interval contains a close and a
  bucket boundary; one death and one fault at every place gives every pair of
  them, which is what the retry logic distinguishes. Deaths and faults are
  counters in guards (`MaxCrashes`, `MaxFaults`), time ends at `MaxTime`.
* `scheduler_live`: three markets, one without symbols (as the default
  configuration has), that close at different times. `FaultsEarly` stops the
  deaths and faults a timeout before time ends: a retry needs time left.
* `workflow`: three channels, two tries of e-mail, two symbols, three calls for
  one window, two faults anywhere: enough for a repeated call after a fault that
  is itself hit by one.
* `client`: an endpoint that offers all tools, all but the required
  `market_status`, two of them one of which is forbidden, or none; two
  authorizations; no bound on changes or restarts.
* `state`: a collection with two marks and three daily builds, each made once: one
  request that had the file to itself, two that break it, one that meets the
  broken file; six inodes, which are as many as can be named or open at once.
* `archive`: three calls, two ids: two equal ones and a third; two steps, anywhere,
  that fail, die or write a line that reads as several (`MaxFaults`): a torn line
  and a second fault of a call that has to live with it.
* `legacy`: a session of two windows and two mail periods of two slots each, a
  collection every second slot with two attempts, two recipients, one failure
  and one restart anywhere. The safety properties also hold with two symbols and
  two failures (16 million states).
* `hours`: the edges of the sessions in either season on the days before and
  after a weekend, two lines, of which one regular (`MaxRegular`), and one report:
  of regular lines the property speaks one by one, all others relate two lines
  or a line and a report. Source timestamps are on time, half an hour off either
  way, over every edge, and eight hours off (`Shift`), a UTC time without a zone,
  which is read as Shanghai's.
* `rows`: one or two symbols, a window with room for a surplus point and a full
  one, one odd answer or failed collection anywhere; a good, a usable and a
  poor day, and each grade of a window but `minor_missing`, are reached. A price is
  stale after two repetitions (`Stale`; the code's constant is 5), so that windows
  of four ticks have stale prices and fresh ones.
* `day`: three windows, three collections, four jobs, two deaths: a job that dies
  in a rebuild of a final day after another has, and one more after both.
  Symmetric windows are permuted; so are symbols, writers and payloads.

`CHECK_DEADLOCK FALSE` stands where calls (`workflow`, `archive`), jobs and
collections (`day`), requests (`state`), moments (`hours`) or the day (`legacy`,
`rows`) are bounded and the bound is simply reached.

## 6. Fairness

The scheduler's liveness uses weak fairness of `Boot`, `ClockTick` and `Loop`.
The service template says `Restart=always`, so a dead process is started again.
The clock runs. The loop goes on after every exception (`mcp_scheduler.py`
580-587), no call of it waits for ever by itself, and a poll that fails leaves
the state as it was, so fairness of the loop says that polls do not fail for
ever. The client uses weak fairness of `Boot` and of one step of the running
tick. No property relies on a fault or a recovery of the environment happening:
`OutageHeals` and `RestartHeals` assume the recovery in their premise.

The legacy loop uses weak fairness of a step of the round and of its beginning:
no step waits for ever, the failed ones are bounded, and the loop sleeps ten
seconds. It uses strong fairness of `BeginDue`: in the hours after the close the
interval is over again and again, whatever the slots of the model say.

## 7. What is proved

Every theorem holds for all values of the constants that satisfy the named
assumptions: any markets, symbols, windows, writers, channels, any feed, any
numbers of crashes, faults, jobs, any moments and weekdays. All follow from an inductive invariant, shown
for `Init` and for each action, and a `PTL` step.

| theorem | property | invariant and argument |
|---|---|---|
| `TypeCorrect` | `TypeOK` | with `Shape` (what is empty where the loop has no run in hand) |
| `SuccessIsDurable` | `SuccessSurvives` | `ClosedInv`: closed windows are SUCCESS on disk and, in a running process, in memory, and no run in hand is closed; during recording the symbols already marked are so |
| `SchedulerKeepsPromise` | `KeepsPromise` | initial states map to initial states, and under `ClosedInv` every step to a step of `ReportPromise` or a stutter: a window is begun only if all its symbols may be retried, so none is closed |
| `DeliveriesAreExplained` | `DeliveriesExplained` | from the promise: each of its steps keeps the account, since what is in hand is not settled |
| `NoEarlyRetry` | `RetryOnlyAfterTimeout` | `AttemptInv`: what is IN_PROGRESS on disk is in memory no older, or ended there |
| `WorkflowTypeCorrect`, `AnswersAreTrue`, `NoChannelIsSkipped` | `TypeOK`, `AnswerTellsDelivery`, `EveryChannelTried` | `DispatchInv`: results so far are those of the channels before this one, and the report is out if and, but for a fault, only if one of them is True |
| `CopiesAreExplained` | `CopiesExplained` | `CopiesInv`: a channel has one copy more than its excuses only while its True result stands |
| `LogIsTrue` | `LogTellsAnswer` | `LogInv`: no symbol row is ended before the run leaves the happy path |
| `OnlyVettedReportsGoOut` | `SentIsSavedAndComplete` | `DataInv`: from validation on, the data is valid and clean and has every symbol, and the report on disk is this call's |
| `WorkflowIsHandler` | `ImplementsHandler` | initial states map to initial states and every step to a step or a stutter, under `TypeOK` and `DispatchInv` |
| `ClientTypeCorrect`, `NothingUnvetted` | `TypeOK`, `FailClosed` | `VettedInv`: a mapped tool was discovered, and a process that discovered saw every required tool |
| `DatasetsAreWhole` | `DatasetIsWhole` | `WholeInv`: every earlier request of the tick without an error is answered for all its targets, the current one for those not in `todo` |
| `FileTypeCorrect`, `SerialAtomicity` | `TypeOK`, `SerialWritesAreAtomic` | `SerialInv`: as long as no calls overlapped, one writer is active, the published inode is not the temporary one and holds a payload |
| `StateTypeCorrect`, `MarksAreKept` | `StateTypeOK`, `MarksKept` | every step is one of `AtomicFile` or leaves its variables alone, so `SerialInv` holds; `KeptInv`: whoever has the state in hand has every owed mark in it |
| `BrokenFileIsAnnounced`, `LossesAreAnnounced` | `BrokenIsAnnounced` (a part of `LossIsAnnounced`), `LossIsAnnounced` | `AnnounceInv`, `LossInv`: count the writers between opening and renaming against the temporary name. While there are more of them than names (`Contended`) one of them will fail, and nothing but a failure ends that; while there are not, the only one is alone with its text, the file is whole, and whoever has the state in hand has every owed mark |
| `ArchiveTypeCorrect`, `ResultsStayOwn` | `TypeOK`, `ResultsAreItsOwn` | `OwnInv`: the lines of the file and of every text in a call's hand are scrap or show only results of an equal call that has them, through every rewriting, overlap, failed write and torn append |
| `QuietArchive` | `QuietArchiveIsWhole` | `QuietInv`: one call at most rewrites the file; what it has in hand is the file with its results put in, and all lines are in the file or, while it is empty, in that hand, whatever scrap is among them. A rewriting that fails or dies half way sets `cut`, every other fault leaves whole lines alone. `Whole` is a property of a sequence of lines, with a lemma for each way to change one |
| `DayTypeCorrect`, `DayIsWhole` | `TypeOK`, `DayIsOneBuild` | `BuildInv`: before the day is made, every window was built from the one normalized file the job loaded, whatever an earlier job left |
| `PostMarketDone` | `PostMarketIsDone` | `PlanInv`: what each step of the job has made is still there when the job ends; the manifest is made of the checksum's archive and of the raw lines by then, of which there are no fewer |
| `LegacyTypeCorrect`, `MailsAccounted` | `TypeOK`, `MailsAreAccounted` | `MailInv`: a mail under way is not marked, who is about to mark it has reached everyone, and what nobody marked and nothing troubled has reached nobody |
| `LossesAreTold` | `LossIsTold` | a chain over the files: `RawInv` (raw file = what was fetched), `NormInv` (normalized = raw, from a normalization to the next collection), `WindowInv` (a window's file has what came before its end), `DailyInv` (so has the day's), each but for a recorded error or an unparsable line |
| `DaysAreReported` | `DayIsReported` | `EndInv`: how each way out of the last round leaves marks and files |
| `HoursTypeCorrect`, `NeverTwoMarkets` | `TypeOK`, `OneMarketAtATime` | arithmetic of the offsets: the sessions are disjoint residues of 48 half hours |
| `FiledOnce` | `LinesAreFiledOnce` | `Edge`: the edges of sessions and windows are the same moments in UTC and local time, since the clocks change at another hour; `WindowOfMoment`: the windows of a date hold exactly the moments of its sessions, each in one of them, so a source timestamp, wherever it falls, is counted once or not at all; `NightIs`: a night's bounds are the nearest sessions; `FiledInv`: a line was collected in its session |
| `ReportsAreWhole` | `ReportIsWhole` | `ReportInv`: the night of an unforced report is over, so a later line was under way |
| `RowsTypeCorrect` | `RowsTypeOK` | `RowsInv`: with `InOrder`: a symbol's lines that have a timestamp are in the order of their timestamps, for an old answer only repeats the last one |
| `VolumeTradedOnce` | `VolumeIsTradedOnce` | by `InOrder`, earliest and latest points of a window are earliest and latest in the file; windows follow each other, so their volumes telescope: an induction over the windows bounds their sum by what was traded up to the last of them |
| `GradeBacked` | `GradeIsBacked` | no invariant beyond the type: two valid points of a symbol have two timestamps, so a window has no more points than timestamps with a price; neighbours in the order of rows are neighbours in time |
| `RepeatsAreCounted` | `RepeatsAreOnlyCounted` | the new lines are `Repeated`, so points and the rows that are not repeats stay; new rows have timestamps the window already had, so its set of timestamps, and with it its gaps, stays while its rows grow by their number; where no counter goes back, rows neither fall before nor after |

Each strengthening was an invariant of TLC before it was proved.

Only model-checked: all liveness (`EveryMarketServed`, `OutageHeals`,
`RestartHeals`, `DailyComesOut`), because the prover has no rule for fairness or
`ENABLED`. Every other property of a passing run is stated by a theorem.

Sums over windows and symbols (`SumFunctionOnSet`) are folds over sets. The
induction theorems of the library take an operator, which the provers cannot
instantiate; `OfflineDayProofs` states induction with sets instead (`EveryNatural`,
`EveryFiniteSet`), from the fact that a set of numbers has a least one
(`LeastNatural`, by `WFMin`), and gets from it what a sum is of one more element.
No model declares a `RECURSIVE` operator, so nothing stands in the way of
proofs about later modules that extend these.

Assumptions on constants (`SchedulerConstants` and so on) are stated where the
constants are declared, and TLC evaluates them in every run.

## 8. Abstractions and what they leave out

* A death is that of the process: what was written and closed is on disk. Power
  loss is not modelled, nor `fsync`.
* A torn dedup line is a prefix that does not parse; it is skipped when the file
  is loaded. A file that cannot be opened counts as empty, as in the code; a read
  that fails midway, which keeps the records read so far, is not modelled.
* A tick's sleep and fetch are one step; the clock readings within one decision
  are one. Time stamps are kept only for IN_PROGRESS records, the only ones the
  code compares. Symbols, and the windows of a day, are handled in any order.
  The interval is at least one unit. A daily window is looked for until the
  market opens again.
* Of the data a report is made of, the model keeps whether a quote is there,
  an outlier, stale, or of another day, and which symbols have matching candles
  and points; a market status is active, closed or other. Logging, the audit
  line (its failure is swallowed, `mcp_notifier.py` 72-77) and the best-effort raw
  snapshot are left out. An unconfigured e-mail channel returns False at once,
  which is a channel whose tries all fail. The `event_alert` branch of the
  workflow is not reachable from the scheduler.
* Of the client, `get_fundamentals` and `health_check` are not called by the
  service, and a reply is either data or text that cannot be read. Below a call
  there is no transport.
* Inodes are a finite set large enough never to run out.
* Jobs on a day do not overlap in `OfflineDay`; on one file they do in
  `AtomicFile` and `RuntimeState`. The marks in the runtime state are left out. The
  `already_finalized` branch of the finalizer is not taken by any job, since each
  has just rebuilt the day. A daily build after a post-market job un-finalizes
  the day; `daily_check.py` warns of it.
* The text of a rewritten notification archive is written at once, or cut short:
  a call that reads while another writes is `raced`, and sees the file before,
  emptied or after.
* Of the legacy loop, the reference data (`build_reference_for_open_markets`,
  which no later step reads) and a status file that cannot be written are left
  out; texts and tables of its mails are not modelled.
* Of the rows, spreads, volatility, drawdowns, the price jumps of the time series,
  the rankings of one window and the two of the weakest quality, which also count
  flags, are left out: no grade depends on them. Timestamps are parsed before
  the model begins.
* Of the extended report, what it computes from its lines. Holidays are not known
  to the code, so they are not to the model.

## 9. Met while reading, not modelled

* `scripts/run_pipeline.py` 400 uses `logger` before `main` assigns it, so the
  legacy loop ends with an `UnboundLocalError`.
* `longbridge_mcp_client.py` 48-50 requires a tool `market_status` that no
  operation is mapped to; an endpoint without it is refused altogether.
* `--health` makes a client of its own, so it may be healthy while the service's
  client keeps a failed discovery.

## 10. Plan

Done, in this order: 1 `WindowKeys`, `DedupStore`, `McpScheduler`;
2 `ReportHandler`, `ReportWorkflow`; 3 `ToolPolicy`, `MarketClient`;
4 `AtomicFile`; 5 `OfflineDay`; 6 `RuntimeState`; 7 `LegacyPipeline`;
8 `MarketHours`, each with its proofs; 9 `NotificationArchive`; 10 `QuoteRows`;
11 theorems of `NotificationArchive`, of `LossIsAnnounced` and of `QuoteRows`;
12 `ReportPromise` and the proof that `McpScheduler` implements it.

Next:

13. `DailyClose`: quote age, gates and timeouts of a daily report (3600 s each)
    against the scheduler's clock: a report that is retried for ever.
14. Jobs of the offline day that overlap on a whole day, over `AtomicFile`.
