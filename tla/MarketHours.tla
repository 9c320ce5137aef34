----------------------------- MODULE MarketHours -----------------------------
(***************************************************************************)
(* The hours of the markets and what hangs on them: core/market_calendar,  *)
(* core/trading_hours and core/time_model for the regular collection,      *)
(* core/extended_session for the US collection before and after it         *)
(* (scripts/extended_pipeline.py), and the report of a night               *)
(* (scripts/extended_report.py).                                           *)
(*                                                                         *)
(* Moments are half hours of UTC, days have 48 of them, and a local time   *)
(* is a moment plus the offset of its zone.  New York changes its offset   *)
(* once, in a night, forward or back.                                      *)
(***************************************************************************)
EXTENDS Integers, FiniteSets

CONSTANTS
    First,          \* weekday of day 0, Monday being 0
    Moment,         \* the moments looked at
    Change,         \* the moment at which New York changes its clocks
    Shift,          \* by how much a source's timestamp may differ from the
                    \* moment at which its quote is collected
    MaxLines,       \* bounds on the lines that are collected,
    MaxRegular,     \* on those of them that are regular ones
    MaxReports,     \* and on the reports
    None            \* no moment

\* Clocks change at seven o'clock UTC, two o'clock of the winter time.
ASSUME HoursConstants ==
    /\ First \in 0..6 /\ Change \in Int /\ Change % 48 = 14
    /\ Moment \subseteq Int /\ None \notin Moment /\ Shift \subseteq Int
    /\ MaxLines \in Nat /\ MaxRegular \in Nat /\ MaxReports \in Nat

VARIABLES
    now,
    winter, summer, \* offset of New York before and after Change
    fetching,       \* the moment at which an extended collection began, or None
    lines,          \* the lines of the raw files
    reports         \* the extended reports

zone == <<winter, summer>>
vars == <<now, zone, fetching, lines, reports>>

Market == {"HK", "US"}

-----------------------------------------------------------------------------
(* core/time_model.py, core/market_calendar.py *)

Half(h, m) == 2 * h + m \div 30

NewYork(u)   == u + (IF u < Change THEN winter ELSE summer)
HongKong(u)  == u + 16
Local(m, u)  == IF m = "HK" THEN HongKong(u) ELSE NewYork(u)

\* astimezone(UTC) of a local time; none of those below is in the hour that the
\* change leaves out or repeats.
Utc(m, t) ==
    IF m = "HK" THEN t - 16
    ELSE IF t - winter < Change THEN t - winter ELSE t - summer

Date(t)    == t \div 48
Time(t)    == t % 48
Weekday(d) == (First + d) % 7
At(d, t)   == 48 * d + t

\* MARKET_SESSIONS and is_market_open
Session(m) ==
    IF m = "HK"
    THEN {<<Half(9, 30), Half(12, 0)>>, <<Half(13, 0), Half(16, 0)>>}
    ELSE {<<Half(9, 30), Half(16, 0)>>}

Within(s, t) == s[1] <= t /\ t < s[2]

IsMarketOpen(m, u) ==
    /\ Weekday(Date(Local(m, u))) < 5
    /\ \E s \in Session(m) : Within(s, Time(Local(m, u)))

\* WINDOW_CONFIG
WindowConfig(m) ==
    IF m = "HK"
    THEN {<<19, 21>>, <<21, 23>>, <<23, 24>>, <<26, 28>>, <<28, 30>>, <<30, 32>>}
    ELSE {<<19, 21>>, <<21, 23>>, <<23, 25>>, <<25, 27>>, <<27, 29>>, <<29, 31>>,
          <<31, 32>>}

\* get_market_windows
MarketWindows(m, d) ==
    {<<Utc(m, At(d, w[1])), Utc(m, At(d, w[2]))>> : w \in WindowConfig(m)}

\* Mutant: the end of a window belongs to it.
BelongsTo_Closed(l, w) == l.source # None /\ w[1] <= l.source /\ l.source <= w[2]

\* record_belongs_to_window of core/data_pipeline.py goes by the time that the
\* source gave the quote; a line without one belongs to no window.
BelongsTo(l, w) == l.source # None /\ Within(w, l.source)

-----------------------------------------------------------------------------
(* core/extended_session.py *)

PremarketOpen == Half(4, 0)
RegularOpen   == Half(9, 30)
RegularClose  == Half(16, 0)
AfterClose    == Half(20, 0)

\* Mutant: the session before the open is not told from the regular one.
CollectExtended_Long(u) ==
    /\ Weekday(Date(NewYork(u))) < 5
    /\ \/ Within(<<PremarketOpen, RegularOpen + 1>>, Time(NewYork(u)))
       \/ Within(<<RegularClose, AfterClose>>, Time(NewYork(u)))

\* extended_collect_decision
CollectExtended(u) ==
    /\ Weekday(Date(NewYork(u))) < 5
    /\ \/ Within(<<PremarketOpen, RegularOpen>>, Time(NewYork(u)))
       \/ Within(<<RegularClose, AfterClose>>, Time(NewYork(u)))

\* The nearest weekday before and after a day.
WeekdayBefore(d) ==
    CHOOSE e \in (d - 3)..(d - 1) :
        Weekday(e) < 5 /\ \A f \in (e + 1)..(d - 1) : Weekday(f) >= 5
WeekdayAfter(d) ==
    CHOOSE e \in (d + 1)..(d + 3) :
        Weekday(e) < 5 /\ \A f \in (d + 1)..(e - 1) : Weekday(f) >= 5

\* previous_regular_close and next_regular_open: the dates of them.
PreviousRegularClose(t) ==
    IF Weekday(Date(t)) < 5 /\ Time(t) >= RegularClose
    THEN Date(t) ELSE WeekdayBefore(Date(t))
NextRegularOpen(t) ==
    IF Weekday(Date(t)) < 5 /\ Time(t) < RegularOpen
    THEN Date(t) ELSE WeekdayAfter(Date(t))

\* get_us_extended_window: its id, and the trading date, which is that of its end.
ExtendedWindow(u) ==
    <<PreviousRegularClose(NewYork(u)), NextRegularOpen(NewYork(u))>>

-----------------------------------------------------------------------------
\* The lines, each of the file of its session, and of its date or window.
Regular(m, u, source) ==
    [session |-> "regular", market |-> m, at |-> u, source |-> source,
     file |-> <<Date(Local(m, u)), Date(Local(m, u))>>]

\* Mutant: the time of the line is that of New York.
Extended_Wall(u) == [session |-> "extended", market |-> "US", at |-> NewYork(u),
                     file |-> ExtendedWindow(u)]

Extended(u)   == [session |-> "extended", market |-> "US", at |-> u,
                  file |-> ExtendedWindow(u)]
Line ==
    [session : {"regular"}, market : Market, at : Moment, source : {None} \cup Int,
     file : Int \X Int]
    \cup [session : {"extended"}, market : Market, at : Moment, file : Int \X Int]

Init ==
    /\ now \in Moment /\ \A u \in Moment : now <= u
    /\ winter \in {-10, -8} /\ summer = -18 - winter
    /\ fetching = None /\ lines = {} /\ reports = {}

\* Quotes are a matter of seconds, so that the clock moves on once at most while
\* they are fetched.
Tick ==
    /\ fetching \in {None, now}
    /\ \E u \in Moment :
        now < u /\ (\A v \in Moment : v <= now \/ u <= v) /\ now' = u
    /\ UNCHANGED <<zone, fetching, lines, reports>>

Room == Cardinality(lines) < MaxLines

\* normalize_event_timestamp: the source's timestamp as it is read.  It is that of
\* a trade, maybe an old one, by the source's clock, a text without a zone is
\* taken for Shanghai's, and one that cannot be read is none.
EventTime(u) == {None} \cup {u + s : s \in Shift}

\* collect_market and append_raw_records: the file is that of the moment of the
\* collection, whatever the timestamp.
CollectRegular(m) ==
    /\ IsMarketOpen(m, now) /\ Room
    /\ Cardinality({l \in lines : l.session = "regular"}) < MaxRegular
    /\ \E source \in EventTime(now) : lines' = lines \cup {Regular(m, now, source)}
    /\ UNCHANGED <<now, zone, fetching, reports>>

\* collect_once looks at the clock before it asks for the quotes,
BeginExtended ==
    /\ fetching = None /\ CollectExtended(now) /\ fetching' = now
    /\ UNCHANGED <<now, zone, lines, reports>>

\* and appends them some time later, to the file of the moment it began, or has
\* none to append.
EndExtended ==
    /\ fetching # None /\ fetching' = None
    /\ \/ Room /\ lines' = lines \cup {Extended(fetching)}
       \/ UNCHANGED lines
    /\ UNCHANGED <<now, zone, reports>>

\* extended_window_has_ended
HasEnded(d) == now >= Utc("US", At(d, RegularOpen))

\* find_extended_raw_path: the file of the window that ends on the date.
Night(d) == {l \in lines : l.session = "extended" /\ l.file[2] = d}

\* Mutant: the report of a night is made in the night.
MakeReport_Early(d, force) ==
    LET made == [date |-> d, lines |-> Night(d), forced |-> force,
                 fetching |-> fetching]
        path == {r \in reports : r.date = d /\ (r.lines = {}) = (Night(d) = {})}
    IN /\ force \/ (now >= Utc("US", At(d, PremarketOpen)) /\ path = {})
       /\ reports' = (reports \ path) \cup {made} /\ Cardinality(reports') <= MaxReports
       /\ UNCHANGED <<now, zone, fetching, lines>>

\* main of extended_report.  The path of a report names the window of its first
\* line, or the date when it has none; a report that exists stays.
MakeReport(d, force) ==
    LET made == [date |-> d, lines |-> Night(d), forced |-> force,
                 fetching |-> fetching]
        path == {r \in reports : r.date = d /\ (r.lines = {}) = (Night(d) = {})}
    IN /\ force \/ (HasEnded(d) /\ path = {})
       /\ reports' = (reports \ path) \cup {made} /\ Cardinality(reports') <= MaxReports
       /\ UNCHANGED <<now, zone, fetching, lines>>

\* Without --date the report is that of the night to come.
DefaultDate == NextRegularOpen(NewYork(now))

Next ==
    \/ Tick
    \/ \E m \in Market : CollectRegular(m)
    \/ BeginExtended \/ EndExtended
    \/ \E d \in {l.file[2] : l \in lines} \cup {DefaultDate}, force \in BOOLEAN :
            MakeReport(d, force)

Spec == Init /\ [][Next]_vars

-----------------------------------------------------------------------------
TypeOK ==
    /\ now \in Moment /\ winter \in {-10, -8} /\ summer \in {-10, -8}
    /\ fetching \in Moment \cup {None} /\ lines \subseteq Line
    /\ \A r \in reports :
        r.date \in Int /\ r.lines \subseteq lines /\ r.fetching \in Moment \cup {None}

\* No two collections begin at the same moment: HK and US are never open at once,
\* the extended collection stands still while the US market is open, whatever the
\* season, and its rules agree with those of the calendar about when that is.
OneMarketAtATime ==
    /\ ~(IsMarketOpen("HK", now) /\ IsMarketOpen("US", now))
    /\ ~(CollectExtended(now) /\ IsMarketOpen("US", now))

\* The metrics of the windows never count a regular line twice, and count it if
\* and only if its source's timestamp says that the market was open, on the date
\* in whose file the line is: a quote stamped before the open, in the lunch break,
\* at the close, on another day or not at all is in no window, in either season.
RegularLineHasItsWindow ==
    \A l \in lines : l.session = "regular" =>
        LET counted == {w \in MarketWindows(l.market, l.file[1]) : BelongsTo(l, w)}
        IN /\ Cardinality(counted) <= 1
           /\ counted # {} <=> /\ l.source # None
                               /\ IsMarketOpen(l.market, l.source)
                               /\ Date(Local(l.market, l.source)) = l.file[1]

\* Two extended lines share a file if and only if the US market was not open in
\* between, weekends and a change of the clocks included, and the files of two
\* nights do not share a date.
FileIsOneNight ==
    \A k, l \in {x \in lines : x.session = "extended"} : k.at <= l.at =>
        /\ k.file = l.file <=> \A u \in k.at..l.at : ~IsMarketOpen("US", u)
        /\ k.file[2] = l.file[2] => k.file = l.file
LinesAreFiledOnce == RegularLineHasItsWindow /\ FileIsOneNight

\* A report that nobody forced shows every line of its night, the ones to come
\* included, but for the line of a collection that was under way; it is the only
\* one that a later run would not put right.
ReportIsWhole ==
    \A r \in reports : ~r.forced =>
        \A l \in Night(r.date) : l \in r.lines \/ l.at = r.fetching
=============================================================================
