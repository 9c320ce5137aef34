----------------------------- MODULE WindowKeys -----------------------------
(***************************************************************************)
(* The report windows of the scheduler and the clock they are cut from.    *)
(* A window is what _make_window_key names: one market, one report type,   *)
(* one market-local trading date and one slot of that date.  The dedup     *)
(* store keeps one record per window and symbol.                           *)
(*                                                                         *)
(* Time is counted in units of an arbitrary fixed length; Interval,        *)
(* DayLength and every other duration are multiples of that unit.          *)
(***************************************************************************)
EXTENDS Integers

CONSTANTS
    Market,         \* market codes: "US", "HK", ...
    Symbol,         \* watched symbols
    SymbolsOf,      \* symbols_by_market: the symbols configured for a market
    MaxTime,        \* bound on the clock
    DayLength,      \* one calendar day
    Interval,       \* intraday_interval_hours
    Offset,         \* market-local time minus UTC
    FirstWeekday    \* weekday (Monday is 0) of local date 0

ASSUME KeyConstants ==
    /\ SymbolsOf \in [Market -> SUBSET Symbol]
    /\ MaxTime \in Nat
    /\ DayLength \in Nat \ {0}
    /\ Interval \in Nat \ {0}
    /\ Offset \in [Market -> Nat]
    /\ FirstWeekday \in 0..6

Time == 0..MaxTime

\* The sessions in which an intraday brief may run.
ActiveSession == {"regular", "extended_pre", "extended_post"}

LocalTime(mk, t) == t + Offset[mk]
LocalDate(mk, t) == LocalTime(mk, t) \div DayLength
IsWeekend(date)  == (date + FirstWeekday) % 7 >= 5

\* The first local hour of the interval that t falls in.
Bucket(mk, t) == (((LocalTime(mk, t) % DayLength) \div Interval)) * Interval

IntradayWindow(mk, t, session) ==
    [market |-> mk, type |-> "intraday_brief", date |-> LocalDate(mk, t),
     slot |-> <<session, Bucket(mk, t)>>]

DailyWindow(mk, close) ==
    [market |-> mk, type |-> "daily_close_report", date |-> LocalDate(mk, close),
     slot |-> <<"close", 0>>]

Window ==
    {IntradayWindow(mk, t, s) : mk \in Market, t \in Time, s \in ActiveSession}
        \cup {DailyWindow(mk, c) : mk \in Market, c \in Time}
=============================================================================
