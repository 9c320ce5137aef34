------------------------------- MODULE QuoteRows -------------------------------
(***************************************************************************)
(* One market day of the offline pipeline, in numbers: the raw lines that  *)
(* a day's collections append (core/market_data_store.py) and what         *)
(* core/data_pipeline.py and core/time_series_quality.py make of them:     *)
(* the normalized rows, the metrics of a window, the day's metrics and     *)
(* its quality report.                                                     *)
(*                                                                         *)
(* Time is counted in ticks of the session; a window is some ticks long    *)
(* and expects fewer points than that, since a source timestamp may fall   *)
(* anywhere.  A line keeps what the numbers tell apart: its symbol, its    *)
(* source timestamp (NoTime if it has none), its price (NoPrice, zero, is  *)
(* also the client's answer for one that is missing) and the cumulative    *)
(* volume, with which the turnover goes.  The files that these numbers are *)
(* written to, and how stale those may be, are those of OfflineDay.        *)
(***************************************************************************)
EXTENDS Integers, Sequences, FiniteSets, FiniteSetsExt, Functions

CONSTANTS
    Symbols,        \* the symbols there are, in their order
    Ticks,          \* the ticks of each window, in order,
    Expected,       \* and the points it expects
    Gap,            \* ticks between two lines that the time series calls a gap
    Stale,          \* times that a price is repeated in a row until it is stale
    Moves,          \* what a symbol may do between two answers: its price, its trade
    MaxFaults       \* bound on answers out of the ordinary and failed collections

ASSUME RowsConstants ==
    /\ Symbols \in Seq(STRING) /\ Len(Symbols) > 0 /\ IsInjective(Symbols)
    /\ Ticks \in Seq(Nat \ {0}) /\ Len(Ticks) > 0
    /\ Expected \in Seq(Nat \ {0}) /\ Len(Expected) = Len(Ticks)
    /\ Gap \in Nat /\ Stale \in Nat \ {0} /\ MaxFaults \in Nat
    /\ Moves \in [Range(Symbols) -> SUBSET [price : Nat \ {0}, trade : Nat]]

VARIABLES
    asked,          \* the service is configured with the first so many Symbols
    clock,          \* the tick at which the service collects next
    lines,          \* the day's raw file
    faults

rowsVars == <<asked, clock, lines, faults>>

Symbol    == Range(Symbols)
Asked     == {Symbols[i] : i \in 1..asked}
DayWindow == DOMAIN Ticks
NoTime    == 0
NoPrice   == 0

\* The tick at which a window ends; the windows follow each other.
End     == [w \in 0..Len(Ticks) |-> SumFunctionOnSet(Ticks, 1..w)]
Close   == End[Len(Ticks)]
TicksOf == [w \in DayWindow |-> (End[w - 1] + 1)..End[w]]

-----------------------------------------------------------------------------
(* Collection *)

Of(s) == {i \in DOMAIN lines : lines[i].symbol = s}

\* The cumulative volume of a symbol, as the provider last gave it.
Volume(s) == IF Of(s) = {} THEN 0 ELSE lines[Max(Of(s))].volume

\* Mutant: the provider's time is read in the wrong zone.
Quote_Ahead(s, m) ==
    [symbol |-> s, time |-> clock + 1, price |-> m.price, volume |-> Volume(s) + m.trade]

Quote(s, m) ==
    [symbol |-> s, time |-> clock, price |-> m.price, volume |-> Volume(s) + m.trade]

Ordinary(s) == {Quote(s, m) : m \in Moves[s]}

\* Before its first trade a symbol has no price, a source timestamp may be
\* missing, the counter may start again, and a symbol that does not trade is
\* quoted with the timestamp of its last answer.
Spoilt(q) == {[q EXCEPT !.price = NoPrice], [q EXCEPT !.time = NoTime], [q EXCEPT !.volume = 0]}

Odd(s) ==
    (UNION {Spoilt(q) : q \in Ordinary(s)})
    \cup (IF Of(s) = {} THEN {} ELSE {lines[Max(Of(s))]})

\* append_raw_records writes the answers of one collection line by line.
Write(answer, first) == lines' = lines \o [i \in 1..first |-> answer[Symbols[i]]]

Answers(oddOnes) ==
    {a \in [Asked -> UNION {Ordinary(s) \cup Odd(s) : s \in Asked}] :
        \A s \in Asked : a[s] \in IF s \in oddOnes THEN Odd(s) ELSE Ordinary(s)}

CollectLines ==
    /\ clock <= Close
    /\ \E oddOnes \in SUBSET Asked : \E answer \in Answers(oddOnes) :
        /\ faults + Cardinality(oddOnes) <= MaxFaults
        /\ faults' = faults + Cardinality(oddOnes)
        /\ Write(answer, asked)
    /\ clock' = clock + 1
    /\ UNCHANGED asked

\* A write or the mark of the collection fails: the service collects again, and
\* the answers may have the timestamps of those already written.
CollectLinesFails ==
    /\ clock <= Close /\ faults < MaxFaults
    /\ \E answer \in Answers({}), first \in 1..asked : Write(answer, first)
    /\ faults' = faults + 1
    /\ UNCHANGED <<asked, clock>>

\* No collection is due, or the provider's failure is answered with no quotes.
Pass ==
    /\ clock <= Close
    /\ clock' = clock + 1
    /\ UNCHANGED <<asked, lines, faults>>

-----------------------------------------------------------------------------
(* Normalized rows *)

\* Mutant: rows are told apart by all they hold.
Repeated_Whole(i) == lines[i].time # NoTime /\ \E j \in 1..(i - 1) : lines[j] = lines[i]

\* A line whose symbol and timestamp an earlier line had, valid or not.
Repeated(i) ==
    /\ lines[i].time # NoTime
    /\ \E j \in 1..(i - 1) : lines[j].symbol = lines[i].symbol /\ lines[j].time = lines[i].time

Valid(i) == lines[i].time # NoTime /\ lines[i].price # NoPrice /\ ~Repeated(i)

Points(rows) == {i \in rows : Valid(i)}

Timed == {i \in DOMAIN lines : lines[i].time # NoTime}

RowsOf(s, w) == {i \in Timed \cap Of(s) : lines[i].time \in TicksOf[w]}

\* Rows are sorted by time and, at one time, by symbol; the sort is stable.
Rank(s) == CHOOSE i \in DOMAIN Symbols : Symbols[i] = s

Precedes(i, j) ==
    \/ lines[i].time < lines[j].time
    \/ /\ lines[i].time = lines[j].time
       /\ \/ Rank(lines[i].symbol) < Rank(lines[j].symbol)
          \/ lines[i].symbol = lines[j].symbol /\ i < j

Earliest(rows) == CHOOSE i \in rows : \A j \in rows \ {i} : Precedes(i, j)
Latest(rows)   == CHOOSE i \in rows : \A j \in rows \ {i} : Precedes(j, i)

\* Of the rows, j is the one after i.
Follows(rows, i, j) ==
    Precedes(i, j) /\ \A k \in rows : ~(Precedes(i, k) /\ Precedes(k, j))

Falls(rows) ==
    \E i, j \in rows : lines[j].volume < lines[i].volume /\ Follows(rows, i, j)

-----------------------------------------------------------------------------
(* Metrics of a window *)

Grade(points, delta, reset, expected) ==
    LET missing == IF points < expected THEN expected - points ELSE 0
        weak    == points < 3 \/ delta <= 0 \/ reset
    IN  IF 5 * missing > 2 * expected           THEN "unusable"
        ELSE IF 5 * missing > expected \/ weak   THEN "poor"
        ELSE IF 20 * missing > expected          THEN "minor_missing"
        ELSE "good"

\* Mutant: a window's volume is the cumulative one.
VolumeDelta_Last(points) ==
    IF Cardinality(points) < 2 THEN 0 ELSE lines[Latest(points)].volume

VolumeDelta(points) ==
    IF Cardinality(points) < 2 THEN 0
    ELSE lines[Latest(points)].volume - lines[Earliest(points)].volume

\* The rows from i to j.
Stretch(rows, i, j) == {k \in rows : ~Precedes(k, i) /\ ~Precedes(j, k)}

\* The longest run of rows with the price of the row before, valid or not.
MaxStaleRun(rows) ==
    LET level == {p \in rows \X rows :
                    \A k \in Stretch(rows, p[1], p[2]) : lines[k].price = lines[p[1]].price}
    IN  Max({0} \cup {Cardinality(Stretch(rows, p[1], p[2])) - 1 : p \in level})

\* check_time_series_integrity.  Since rows are sorted, as many timestamps do not
\* increase as are duplicates.
IntegrityReport(rows) ==
    LET times == {lines[i].time : i \in rows}
    IN  [duplicates |-> Cardinality(rows) - Cardinality(times),
         gaps  |-> {p \in times \X times :
                        p[2] - p[1] > Gap /\ \A t \in times : t <= p[1] \/ p[2] <= t},
         reset |-> Falls(rows),
         run   |-> MaxStaleRun(rows)]

\* The numbers of a symbol in a window.  The price numbers are all of the points'
\* prices, in the order of their times; so are the flags for prices and spreads.
Numbers(s, w) ==
    LET rows   == RowsOf(s, w)
        points == Points(rows)
        delta  == VolumeDelta(points)
    IN  [seen   |-> rows # {},
         points |-> Cardinality(points),
         prices |-> {<<lines[i].time, lines[i].price>> : i \in points},
         delta  |-> delta,
         grade  |-> Grade(Cardinality(points), delta, Falls(rows), Expected[w])]

\* All that a window's file has of a symbol; stale is the flag stale_price.
SymbolMetrics(s, w) ==
    LET report == IntegrityReport(RowsOf(s, w))
    IN  [numbers |-> Numbers(s, w), integrity |-> report, stale |-> report.run >= Stale]

\* A window's file has the metrics of the symbols that have a row in it.  What
\* follows reads the numbers alone; the two rankings of the weakest quality, left
\* out, also count the flags.
DayMetrics == [s \in Symbol |-> [w \in DayWindow |-> Numbers(s, w)]]

WindowStatus(m, w) ==
    LET seen == {s \in Symbol : m[s][w].seen}
        worst(n, d) == \E s \in seen : d * (Expected[w] - m[s][w].points) > n * Expected[w]
    IN  IF seen = {}          THEN "missing"
        ELSE IF worst(2, 5)   THEN "unusable"
        ELSE IF worst(1, 20)  THEN "partial"
        ELSE "finalized"

-----------------------------------------------------------------------------
(* The day's metrics *)

Usable(m, s) == {w \in DayWindow : m[s][w].seen /\ m[s][w].grade # "unusable"}

\* The sum of the windows' volumes that are positive.
DailyVolume(m, s) ==
    SumFunctionOnSet([w \in DayWindow |-> m[s][w].delta], {w \in Usable(m, s) : m[s][w].delta > 0})

\* The symbols that the summary of the market ranks by their day's return.
Ranked(m) ==
    {s \in Symbol : /\ \E w \in Usable(m, s) : m[s][w].points > 0
                    /\ \A w \in DayWindow : m[s][w].seen => w \in Usable(m, s)}

-----------------------------------------------------------------------------
(* The quality report *)

\* The time series is one of all rows, whatever their symbol.
TimeSeriesWarns ==
    \/ \E i, j \in Timed :
        /\ lines[i].time = lines[j].time \/ lines[j].time - lines[i].time > Gap
        /\ Follows(Timed, i, j)
    \/ Falls(Timed)

Told == {lines[i].symbol : i \in DOMAIN lines}

ExpectedInAll     == SumFunction(Expected)
PointsInAll(m, s) == SumFunction([w \in DayWindow |-> m[s][w].points])

\* Mutant: the best symbol decides, not the worst.
LacksMoreThan_Best(n, m) ==
    Told # {} /\ \A s \in Told : 10 * (ExpectedInAll - PointsInAll(m, s)) > n * ExpectedInAll

LacksMoreThan(n, m) ==
    \E s \in Told : 10 * (ExpectedInAll - PointsInAll(m, s)) > n * ExpectedInAll

OverallGrade(m) ==
    LET windows(status) == {w \in DayWindow : WindowStatus(m, w) = status}
        critical == Cardinality(windows("unusable")) >= 2 \/ LacksMoreThan(7, m)
        warned   == windows("missing") # {} \/ LacksMoreThan(2, m) \/ TimeSeriesWarns
    IN  IF lines = <<>>   THEN "unusable"
        ELSE IF critical  THEN "poor"
        ELSE IF warned    THEN "minor_issue"
        ELSE "good"

UsableForAnalysis(m) == OverallGrade(m) \in {"good", "minor_issue"}

-----------------------------------------------------------------------------
RowsInit == asked \in DOMAIN Symbols /\ clock = 1 /\ lines = <<>> /\ faults = 0

RowsNext == CollectLines \/ CollectLinesFails \/ Pass

RowsSpec == RowsInit /\ [][RowsNext]_rowsVars

-----------------------------------------------------------------------------
(* Properties *)

\* The raw file has a line for each answer, none from a time that has not come.
Line == [symbol : Symbol, time : 0..Close, price : Nat, volume : Nat]

RowsTypeOK ==
    /\ asked \in DOMAIN Symbols /\ clock \in 1..(Close + 1) /\ faults \in 0..MaxFaults
    /\ lines \in Seq(Line) /\ \A i \in DOMAIN lines : lines[i].time <= clock
    /\ Len(lines) <= (clock - 1 + faults) * asked

\* The provider's cumulative volume of a symbol never went back.
Steady(s) == \A i, j \in Of(s) : i < j => lines[i].volume <= lines[j].volume

Known(line) ==
    line.time # NoTime
    /\ \E i \in DOMAIN lines : lines[i].symbol = line.symbol /\ lines[i].time = line.time

\* A collection that is repeated after a failure (run_pipeline.collect_market
\* marks it only at its end) and an answer with an old timestamp add lines that
\* the file has already.  Unless the provider's counter went back, the window of
\* each counts it once as a duplicate, and may find a price staler or less stale
\* for it, which is a flag in the rankings of the weakest quality; but no price,
\* volume, gap or grade of any window changes, no other ranking, and not whether
\* the day may be analysed - they cost at most the grade "good".
RepeatsAreOnlyCounted ==
    [][(/\ lines' # lines
        /\ \A i \in (Len(lines) + 1)..Len(lines') : Known(lines'[i])
        /\ \A s \in Symbol : Steady(s)')
       => /\ \A s \in Symbol, w \in DayWindow :
                LET old   == SymbolMetrics(s, w)
                    new   == SymbolMetrics(s, w)'
                    added == RowsOf(s, w)' \ RowsOf(s, w)
                IN  /\ new.numbers = old.numbers
                    /\ new.integrity.duplicates = old.integrity.duplicates + Cardinality(added)
                    /\ new.integrity.gaps = old.integrity.gaps
                    /\ new.integrity.reset = old.integrity.reset
          /\ Ranked(DayMetrics)' = Ranked(DayMetrics)
          /\ UsableForAnalysis(DayMetrics)' = UsableForAnalysis(DayMetrics)]_rowsVars

\* The windows' volumes of a day never add up to more than was traded between
\* the first and the last answer, however many lines are repeated, unpriced or
\* missing, unless the counter went back.
VolumeIsTradedOnce ==
    LET m == DayMetrics
    IN  \A s \in Told :
            Steady(s) => DailyVolume(m, s) <= Volume(s) - lines[Min(Of(s))].volume

\* What a day's grade and its ranking promise of the raw file: a day that may be analysed has
\* for every symbol in the file three tenths of the points it should have, each
\* with a timestamp of its own, and not two windows of which a symbol that was
\* seen has less than three fifths; a good day has four fifths of them, a line
\* in every window, no gap, no timestamp twice; and a symbol ranked in the
\* market's summary has three fifths of the points of every window that has a
\* line of it, for of a window without one the day's metrics say nothing.
Stamps(s, w) ==
    {t \in TicksOf[w] : \E i \in DOMAIN lines :
        lines[i].symbol = s /\ lines[i].time = t /\ lines[i].price # NoPrice}

GradeIsBacked ==
    LET has(s) == SumFunction([w \in DayWindow |-> Cardinality(Stamps(s, w))])
        thin   == {w \in DayWindow : \E i \in DOMAIN lines :
                    /\ lines[i].time \in TicksOf[w]
                    /\ 5 * Cardinality(Stamps(lines[i].symbol, w)) < 3 * Expected[w]}
        times  == {lines[i].time : i \in Timed}
        m      == DayMetrics
        grade  == OverallGrade(m)
    IN  /\ grade \in {"good", "minor_issue"} =>
            /\ Told # {} /\ \A s \in Told : 10 * has(s) >= 3 * ExpectedInAll
            /\ Cardinality(thin) <= 1
        /\ grade = "good" =>
            /\ \A s \in Told : 10 * has(s) >= 8 * ExpectedInAll
            /\ \A w \in DayWindow : times \cap TicksOf[w] # {}
            /\ Cardinality(Timed) = Cardinality(times)
            /\ \A t \in times : (\E u \in times : u > t) => \E u \in times : u > t /\ u <= t + Gap
        /\ \A s \in Ranked(m), w \in DayWindow :
            (\E i \in DOMAIN lines : lines[i].symbol = s /\ lines[i].time \in TicksOf[w])
                => 5 * Cardinality(Stamps(s, w)) >= 3 * Expected[w]
=============================================================================
