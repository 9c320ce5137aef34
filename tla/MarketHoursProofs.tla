-------------------------- MODULE MarketHoursProofs --------------------------
(* What MarketHours promises at every moment and for every weekday to begin  *)
(* with: sessions do not overlap, every line has its window or its night.    *)
EXTENDS MarketHours, FiniteSetTheorems, TLAPS

-----------------------------------------------------------------------------
(* Local times. *)

Zones == winter \in {-10, -8} /\ summer \in {-10, -8}

LEMMA Halves ==
    /\ PremarketOpen = 8 /\ RegularOpen = 19 /\ RegularClose = 32 /\ AfterClose = 40
    /\ Session("HK") = {<<19, 24>>, <<26, 32>>} /\ Session("US") = {<<19, 32>>}
BY DEF Half, PremarketOpen, RegularOpen, RegularClose, AfterClose, Session

LEMMA LocalTimes ==
    ASSUME Zones, NEW u \in Int
    PROVE  /\ NewYork(u) \in Int /\ HongKong(u) \in Int
           /\ \A m : Local(m, u) \in Int
BY HoursConstants DEF Zones, NewYork, HongKong, Local

LEMMA DatesAndTimes ==
    ASSUME NEW t \in Int
    PROVE  /\ Date(t) \in Int /\ Time(t) \in 0..47 /\ t = 48 * Date(t) + Time(t)
           /\ Weekday(Date(t)) \in 0..6
BY HoursConstants DEF Date, Time, Weekday

LEMMA Before ==
    ASSUME NEW t \in Int, NEW d \in Int, NEW h \in 0..47
    PROVE  /\ At(d, h) \in Int
           /\ t < At(d, h) <=> Date(t) < d \/ (Date(t) = d /\ Time(t) < h)
<1>1. Date(t) \in Int /\ Time(t) \in 0..47 /\ t = 48 * Date(t) + Time(t)
  BY DatesAndTimes
<1>2. At(d, h) = 48 * d + h /\ At(d, h) \in Int
  BY DEF At
<1>3. CASE Date(t) < d
  BY <1>1, <1>2, <1>3
<1>4. CASE Date(t) = d
  BY <1>1, <1>2, <1>4
<1>5. CASE Date(t) > d
  <2>1. Date(t) >= d + 1
    BY <1>1, <1>5
  <2> QED
    BY <1>1, <1>2, <2>1
<1> QED
  BY <1>1, <1>3, <1>4, <1>5

\* The edges of sessions and windows are the same moments in UTC and in local
\* time, for the clocks change at another time of the day.
LEMMA Edge ==
    ASSUME Zones, NEW m \in Market, NEW d \in Int, NEW h \in 8..40, NEW u \in Int
    PROVE  /\ Utc(m, At(d, h)) \in Int
           /\ u < Utc(m, At(d, h)) <=> Local(m, u) < At(d, h)
<1>1. PICK k \in Int : Change = 48 * k + 14
  <2>1. Change = 48 * (Change \div 48) + 14 /\ Change \div 48 \in Int
    BY HoursConstants
  <2> QED
    BY <2>1
<1>2. At(d, h) = 48 * d + h /\ At(d, h) \in Int
  BY DEF At
<1>3. CASE m = "HK"
  BY <1>2, <1>3 DEF Utc, Local, HongKong
<1>4. CASE m = "US"
  BY <1>1, <1>2, <1>4 DEF Utc, Local, NewYork, Zones
<1> QED
  BY <1>3, <1>4 DEF Market

-----------------------------------------------------------------------------
(* Weekdays. *)

LEMMA WeekdayBeforeIs ==
    ASSUME NEW d \in Int
    PROVE  /\ WeekdayBefore(d) \in Int /\ WeekdayBefore(d) < d
           /\ Weekday(WeekdayBefore(d)) < 5
           /\ \A e \in Int : Weekday(e) < 5 /\ e < d => e <= WeekdayBefore(d)
<1> DEFINE P(e) == Weekday(e) < 5 /\ \A f \in (e + 1)..(d - 1) : Weekday(f) >= 5
<1>1. \E e \in (d - 3)..(d - 1) : P(e)
  <2>1. CASE Weekday(d - 1) < 5
    BY <2>1
  <2>2. CASE Weekday(d - 1) >= 5 /\ Weekday(d - 2) < 5
    <3>1. \A f \in (d - 1)..(d - 1) : f = d - 1
      OBVIOUS
    <3>2. P(d - 2)
      BY <2>2, <3>1
    <3> QED
      BY <3>2
  <2>3. CASE Weekday(d - 1) >= 5 /\ Weekday(d - 2) >= 5
    <3>1. Weekday(d - 3) < 5
      BY <2>3, HoursConstants DEF Weekday
    <3>2. \A f \in (d - 2)..(d - 1) : f = d - 1 \/ f = d - 2
      OBVIOUS
    <3>3. P(d - 3)
      BY <2>3, <3>1, <3>2
    <3> QED
      BY <3>3
  <2>4. Weekday(d - 1) \in Int /\ Weekday(d - 2) \in Int
    BY HoursConstants DEF Weekday
  <2> QED
    BY <2>1, <2>2, <2>3, <2>4
<1>2. WeekdayBefore(d) \in (d - 3)..(d - 1) /\ P(WeekdayBefore(d))
  BY <1>1 DEF WeekdayBefore
<1>3. ASSUME NEW e \in Int, Weekday(e) < 5, e < d PROVE e <= WeekdayBefore(d)
  <2>1. Weekday(e) \in Int
    BY HoursConstants DEF Weekday
  <2> QED
    BY <1>2, <1>3, <2>1
<1> QED
  BY <1>2, <1>3

LEMMA WeekdayAfterIs ==
    ASSUME NEW d \in Int
    PROVE  /\ WeekdayAfter(d) \in Int /\ WeekdayAfter(d) > d
           /\ Weekday(WeekdayAfter(d)) < 5
           /\ \A e \in Int : Weekday(e) < 5 /\ e > d => e >= WeekdayAfter(d)
<1> DEFINE P(e) == Weekday(e) < 5 /\ \A f \in (d + 1)..(e - 1) : Weekday(f) >= 5
<1>1. \E e \in (d + 1)..(d + 3) : P(e)
  <2>1. CASE Weekday(d + 1) < 5
    BY <2>1
  <2>2. CASE Weekday(d + 1) >= 5 /\ Weekday(d + 2) < 5
    <3>1. \A f \in (d + 1)..(d + 1) : f = d + 1
      OBVIOUS
    <3>2. P(d + 2)
      BY <2>2, <3>1
    <3> QED
      BY <3>2
  <2>3. CASE Weekday(d + 1) >= 5 /\ Weekday(d + 2) >= 5
    <3>1. Weekday(d + 3) < 5
      BY <2>3, HoursConstants DEF Weekday
    <3>2. \A f \in (d + 1)..(d + 2) : f = d + 1 \/ f = d + 2
      OBVIOUS
    <3>3. P(d + 3)
      BY <2>3, <3>1, <3>2
    <3> QED
      BY <3>3
  <2>4. Weekday(d + 1) \in Int /\ Weekday(d + 2) \in Int
    BY HoursConstants DEF Weekday
  <2> QED
    BY <2>1, <2>2, <2>3, <2>4
<1>2. WeekdayAfter(d) \in (d + 1)..(d + 3) /\ P(WeekdayAfter(d))
  BY <1>1 DEF WeekdayAfter
<1>3. ASSUME NEW e \in Int, Weekday(e) < 5, e > d PROVE e >= WeekdayAfter(d)
  <2>1. Weekday(e) \in Int
    BY HoursConstants DEF Weekday
  <2> QED
    BY <1>2, <1>3, <2>1
<1> QED
  BY <1>2, <1>3

\* The bounds of a night are the nearest close before it and open after it.
LEMMA NextOpenIs ==
    ASSUME NEW t \in Int
    PROVE  /\ NextRegularOpen(t) \in Int /\ Weekday(NextRegularOpen(t)) < 5
           /\ t < At(NextRegularOpen(t), 19)
           /\ \A d \in Int : Weekday(d) < 5 /\ t < At(d, 19) => NextRegularOpen(t) <= d
<1>0. /\ Date(t) \in Int /\ Time(t) \in 0..47 /\ Weekday(Date(t)) \in 0..6
      /\ RegularOpen = 19
      /\ \A d \in Int : t < At(d, 19) <=> Date(t) < d \/ (Date(t) = d /\ Time(t) < 19)
  BY Before, Halves, DatesAndTimes
<1>1. CASE Weekday(Date(t)) < 5 /\ Time(t) < RegularOpen
  <2>1. NextRegularOpen(t) = Date(t)
    BY <1>1 DEF NextRegularOpen
  <2> QED
    BY <1>0, <1>1, <2>1
<1>2. CASE ~(Weekday(Date(t)) < 5 /\ Time(t) < RegularOpen)
  <2>1. NextRegularOpen(t) = WeekdayAfter(Date(t))
    BY <1>2 DEF NextRegularOpen
  <2>2. /\ WeekdayAfter(Date(t)) \in Int /\ WeekdayAfter(Date(t)) > Date(t)
        /\ Weekday(WeekdayAfter(Date(t))) < 5
        /\ \A e \in Int : Weekday(e) < 5 /\ e > Date(t) => e >= WeekdayAfter(Date(t))
    BY DatesAndTimes, WeekdayAfterIs
  <2>3. t < At(WeekdayAfter(Date(t)), 19)
    BY <1>0, <2>2
  <2>4. ASSUME NEW d \in Int, Weekday(d) < 5, t < At(d, 19)
        PROVE  WeekdayAfter(Date(t)) <= d
    <3>1. d > Date(t)
      BY <1>0, <1>2, <2>4
    <3> QED
      BY <2>2, <2>4, <3>1
  <2> QED
    BY <2>1, <2>2, <2>3, <2>4
<1> QED
  BY <1>1, <1>2

LEMMA LastCloseIs ==
    ASSUME NEW t \in Int
    PROVE  /\ PreviousRegularClose(t) \in Int /\ Weekday(PreviousRegularClose(t)) < 5
           /\ ~(t < At(PreviousRegularClose(t), 32))
           /\ \A d \in Int : Weekday(d) < 5 /\ ~(t < At(d, 32))
                                => d <= PreviousRegularClose(t)
<1>0. /\ Date(t) \in Int /\ Time(t) \in 0..47 /\ Weekday(Date(t)) \in 0..6
      /\ RegularClose = 32
      /\ \A d \in Int : t < At(d, 32) <=> Date(t) < d \/ (Date(t) = d /\ Time(t) < 32)
  BY Before, Halves, DatesAndTimes
<1>1. CASE Weekday(Date(t)) < 5 /\ Time(t) >= RegularClose
  <2>1. PreviousRegularClose(t) = Date(t)
    BY <1>1 DEF PreviousRegularClose
  <2> QED
    BY <1>0, <1>1, <2>1
<1>2. CASE ~(Weekday(Date(t)) < 5 /\ Time(t) >= RegularClose)
  <2>1. PreviousRegularClose(t) = WeekdayBefore(Date(t))
    BY <1>2 DEF PreviousRegularClose
  <2>2. /\ WeekdayBefore(Date(t)) \in Int /\ WeekdayBefore(Date(t)) < Date(t)
        /\ Weekday(WeekdayBefore(Date(t))) < 5
        /\ \A e \in Int : Weekday(e) < 5 /\ e < Date(t) => e <= WeekdayBefore(Date(t))
    BY DatesAndTimes, WeekdayBeforeIs
  <2>3. ~(t < At(WeekdayBefore(Date(t)), 32))
    BY <1>0, <2>2
  <2>4. ASSUME NEW d \in Int, Weekday(d) < 5, ~(t < At(d, 32))
        PROVE  d <= WeekdayBefore(Date(t))
    <3>1. d < Date(t)
      BY <1>0, <1>2, <2>4
    <3> QED
      BY <2>2, <2>4, <3>1
  <2> QED
    BY <2>1, <2>2, <2>3, <2>4
<1> QED
  BY <1>1, <1>2

-----------------------------------------------------------------------------
(* Sessions. *)

Opening(d) == Utc("US", At(d, 19))
Closing(d) == Utc("US", At(d, 32))

LEMMA OpensAndCloses ==
    ASSUME Zones, NEW d \in Int
    PROVE  /\ Opening(d) \in Int /\ Closing(d) \in Int /\ Opening(d) < Closing(d)
           /\ \A e \in Int : d < e => Opening(d) < Opening(e) /\ Closing(d) < Closing(e)
BY HoursConstants DEF Opening, Closing, Utc, At, Zones

LEMMA SessionOfNewYork ==
    ASSUME Zones, NEW u \in Int
    PROVE  IsMarketOpen("US", u) <=>
               \E d \in Int : Weekday(d) < 5 /\ Opening(d) <= u /\ u < Closing(d)
<1> DEFINE t == Local("US", u)
<1>1. /\ t \in Int /\ Date(t) \in Int /\ Time(t) \in 0..47
  BY LocalTimes, DatesAndTimes
<1>2. \A d \in Int : /\ Opening(d) \in Int /\ Closing(d) \in Int
                     /\ u < Opening(d) <=> t < At(d, 19)
                     /\ u < Closing(d) <=> t < At(d, 32)
  BY Edge DEF Market, Opening, Closing
<1>4. IsMarketOpen("US", u) <=> Weekday(Date(t)) < 5 /\ 19 <= Time(t) /\ Time(t) < 32
  <2>1. \A k \in 0..47 : (\E s \in Session("US") : Within(s, k)) <=> 19 <= k /\ k < 32
    <3>1. \A k : Within(<<19, 32>>, k) <=> 19 <= k /\ k < 32
      BY DEF Within
    <3>2. Session("US") = {<<19, 32>>}
      BY Halves
    <3> QED
      BY <3>1, <3>2, Zenon
  <2> QED
    BY <1>1, <2>1 DEF IsMarketOpen
<1> HIDE DEF t
<1>3. \A d \in Int : t < At(d, 19) <=> Date(t) < d \/ (Date(t) = d /\ Time(t) < 19)
  BY <1>1, Before
<1>6. \A d \in Int : t < At(d, 32) <=> Date(t) < d \/ (Date(t) = d /\ Time(t) < 32)
  BY <1>1, Before
<1>5. \A d \in Int : Opening(d) <= u /\ u < Closing(d)
                        <=> Date(t) = d /\ 19 <= Time(t) /\ Time(t) < 32
  BY <1>1, <1>2, <1>3, <1>6
<1> QED
  BY <1>1, <1>4, <1>5

LEMMA HongKongIsAsleep ==
    ASSUME Zones, NEW u \in Int
    PROVE  ~(IsMarketOpen("HK", u) /\ IsMarketOpen("US", u))
<1>1. IsMarketOpen("HK", u) => (u + 16) % 48 \in 19..31
  BY Halves DEF IsMarketOpen, Within, Local, HongKong, Time
<1>2. IsMarketOpen("US", u) => (u - 10) % 48 \in 19..31 \/ (u - 8) % 48 \in 19..31
  BY Halves, HoursConstants DEF IsMarketOpen, Within, Local, NewYork, Time, Zones
<1>3. ~((u + 16) % 48 \in 19..31 /\ (u - 10) % 48 \in 19..31)
  OBVIOUS
<1>4. ~((u + 16) % 48 \in 19..31 /\ (u - 8) % 48 \in 19..31)
  OBVIOUS
<1> QED
  BY <1>1, <1>2, <1>3, <1>4

LEMMA ExtendedIsNotRegular ==
    ASSUME Zones, NEW u \in Int, CollectExtended(u)
    PROVE  ~IsMarketOpen("US", u)
<1>1. Time(NewYork(u)) \in 0..47
  BY LocalTimes, DatesAndTimes
<1> QED
  BY <1>1, Halves DEF CollectExtended, IsMarketOpen, Within, Local

-----------------------------------------------------------------------------
(* Nights. *)

LEMMA NightIs ==
    ASSUME Zones, NEW u \in Int
    PROVE  LET w == ExtendedWindow(u) IN
           /\ w \in Int \X Int
           /\ Weekday(w[1]) < 5 /\ Weekday(w[2]) < 5
           /\ Closing(w[1]) <= u /\ u < Opening(w[2])
           /\ \A d \in Int : Weekday(d) < 5 /\ Closing(d) <= u => d <= w[1]
           /\ \A d \in Int : Weekday(d) < 5 /\ u < Opening(d) => w[2] <= d
<1> DEFINE t == Local("US", u)
<1>1. t \in Int /\ t = NewYork(u)
  BY LocalTimes DEF Local
<1>2. \A d \in Int : /\ Opening(d) \in Int /\ Closing(d) \in Int
                     /\ u < Opening(d) <=> t < At(d, 19)
                     /\ u < Closing(d) <=> t < At(d, 32)
  BY Edge DEF Market, Opening, Closing
<1>3. ExtendedWindow(u) = <<PreviousRegularClose(t), NextRegularOpen(t)>>
  BY <1>1 DEF ExtendedWindow
<1> HIDE DEF t
<1>4. /\ NextRegularOpen(t) \in Int /\ Weekday(NextRegularOpen(t)) < 5
      /\ t < At(NextRegularOpen(t), 19)
      /\ \A d \in Int : Weekday(d) < 5 /\ t < At(d, 19) => NextRegularOpen(t) <= d
  BY <1>1, NextOpenIs
<1>5. /\ PreviousRegularClose(t) \in Int /\ Weekday(PreviousRegularClose(t)) < 5
      /\ ~(t < At(PreviousRegularClose(t), 32))
      /\ \A d \in Int : Weekday(d) < 5 /\ ~(t < At(d, 32)) => d <= PreviousRegularClose(t)
  BY <1>1, LastCloseIs
<1> QED
  BY <1>2, <1>3, <1>4, <1>5

\* A session in between parts two nights, and nothing else does.
LEMMA SessionParts ==
    ASSUME Zones, NEW a \in Int, NEW b \in Int, ~IsMarketOpen("US", a),
           NEW u \in a..b, IsMarketOpen("US", u)
    PROVE  ExtendedWindow(a)[2] # ExtendedWindow(b)[2]
<1>1. PICK d \in Int : Weekday(d) < 5 /\ Opening(d) <= u /\ u < Closing(d)
  BY SessionOfNewYork
<1>2. Opening(d) \in Int /\ Closing(d) \in Int
  BY OpensAndCloses
<1>3. a < Opening(d)
  BY <1>1, <1>2, SessionOfNewYork
<1>4. ExtendedWindow(a)[2] <= d
  BY <1>1, <1>3, NightIs
<1>5. /\ ExtendedWindow(b)[2] \in Int /\ b < Opening(ExtendedWindow(b)[2])
      /\ Opening(ExtendedWindow(b)[2]) \in Int
  BY NightIs, OpensAndCloses
<1>6. Opening(d) < Opening(ExtendedWindow(b)[2])
  BY <1>1, <1>2, <1>5
<1>7. ExtendedWindow(b)[2] > d
  <2>1. ASSUME NEW e \in Int, e <= d PROVE Opening(e) <= Opening(d)
    <3>1. e = d \/ (e < d /\ Opening(e) < Opening(d))
      BY <2>1, OpensAndCloses
    <3>2. Opening(e) \in Int /\ Opening(d) \in Int
      BY OpensAndCloses
    <3> QED
      BY <3>1, <3>2
  <2> QED
    BY <1>2, <1>5, <1>6, <2>1
<1>8. ExtendedWindow(a)[2] \in Int
  BY NightIs
<1> QED
  BY <1>4, <1>5, <1>7, <1>8

LEMMA NightGoesOn ==
    ASSUME Zones, NEW a \in Int, NEW b \in Int, a <= b,
           \A u \in a..b : ~IsMarketOpen("US", u)
    PROVE  ExtendedWindow(a) = ExtendedWindow(b)
<1> DEFINE v == ExtendedWindow(a)
           w == ExtendedWindow(b)
<1>1. /\ v \in Int \X Int /\ Weekday(v[1]) < 5 /\ Weekday(v[2]) < 5
      /\ Closing(v[1]) <= a /\ a < Opening(v[2])
      /\ \A d \in Int : Weekday(d) < 5 /\ Closing(d) <= a => d <= v[1]
      /\ \A d \in Int : Weekday(d) < 5 /\ a < Opening(d) => v[2] <= d
  BY NightIs
<1>2. /\ w \in Int \X Int /\ Weekday(w[1]) < 5 /\ Weekday(w[2]) < 5
      /\ Closing(w[1]) <= b /\ b < Opening(w[2])
      /\ \A d \in Int : Weekday(d) < 5 /\ Closing(d) <= b => d <= w[1]
      /\ \A d \in Int : Weekday(d) < 5 /\ b < Opening(d) => w[2] <= d
  BY NightIs
<1> HIDE DEF v, w
<1>3. \A d \in Int : Opening(d) \in Int /\ Closing(d) \in Int /\ Opening(d) < Closing(d)
  BY OpensAndCloses
<1>4. \A d \in Int : Weekday(d) < 5 => \A u \in a..b : ~(Opening(d) <= u /\ u < Closing(d))
  BY SessionOfNewYork
<1>5. v[2] = w[2]
  <2>1. v[2] <= w[2]
    BY <1>1, <1>2, <1>3
  <2>2. ASSUME v[2] < w[2] PROVE FALSE
    <3>1. Opening(v[2]) <= b
      BY <1>1, <1>2, <1>3, <2>2
    <3>2. Opening(v[2]) \in a..b
      BY <1>1, <1>3, <3>1
    <3> QED
      BY <1>1, <1>3, <1>4, <3>2
  <2> QED
    BY <1>1, <1>2, <2>1, <2>2
<1>6. v[1] = w[1]
  <2>1. v[1] <= w[1]
    BY <1>1, <1>2, <1>3
  <2>2. ASSUME v[1] < w[1] PROVE FALSE
    <3>1. a < Closing(w[1]) /\ Closing(w[1]) <= b
      BY <1>1, <1>2, <1>3, <2>2
    <3>2. Closing(w[1]) - 1 \in a..b
      BY <1>2, <1>3, <3>1
    <3> QED
      BY <1>2, <1>3, <1>4, <3>2
  <2> QED
    BY <1>1, <1>2, <2>1, <2>2
<1> QED
  BY <1>1, <1>2, <1>5, <1>6 DEF v, w

-----------------------------------------------------------------------------
(* Windows. *)

LEMMA WindowsPartSessions ==
    ASSUME NEW m \in Market, NEW k \in 0..47, \E s \in Session(m) : Within(s, k)
    PROVE  \E c \in WindowConfig(m) :
             /\ Within(c, k)
             /\ \A e \in WindowConfig(m) : Within(e, k) => e = c
<1>1. CASE m = "HK"
  <2>1. k \in 19..23 \cup 26..31
    BY <1>1, Halves DEF Within
  <2> QED
    BY <1>1, <2>1 DEF WindowConfig, Within
<1>2. CASE m = "US"
  <2>1. k \in 19..31
    BY <1>2, Halves DEF Within
  <2> QED
    BY <1>2, <2>1 DEF WindowConfig, Within
<1> QED
  BY <1>1, <1>2 DEF Market

LEMMA WindowsAreInSessions ==
    ASSUME NEW m \in Market, NEW k \in 0..47, NEW c \in WindowConfig(m), Within(c, k)
    PROVE  \E s \in Session(m) : Within(s, k)
<1>1. CASE m = "HK"
  <2>1. k \in 19..23 \cup 26..31
    BY <1>1 DEF WindowConfig, Within
  <2>2. Within(<<19, 24>>, k) \/ Within(<<26, 32>>, k)
    BY <2>1 DEF Within
  <2> QED
    BY <1>1, <2>2, Halves
<1>2. CASE m = "US"
  <2>1. k \in 19..31
    BY <1>2 DEF WindowConfig, Within
  <2>2. Within(<<19, 32>>, k)
    BY <2>1 DEF Within
  <2> QED
    BY <1>2, <2>2, Halves
<1> QED
  BY <1>1, <1>2 DEF Market

\* The windows of an open day hold the moments of its sessions, each in one of
\* them, and no other moment.
LEMMA WindowOfMoment ==
    ASSUME Zones, NEW m \in Market, NEW d \in Int, Weekday(d) < 5, NEW u \in Int
    PROVE  LET counted == {w \in MarketWindows(m, d) : Within(w, u)}
           IN /\ Cardinality(counted) <= 1
              /\ counted # {} <=> IsMarketOpen(m, u) /\ Date(Local(m, u)) = d
<1> DEFINE t == Local(m, u)
           h == Time(t)
           win(c) == <<Utc(m, At(d, c[1])), Utc(m, At(d, c[2]))>>
           counted == {w \in MarketWindows(m, d) : Within(w, u)}
<1>1. t \in Int
  BY LocalTimes
<1>2. h \in 0..47 /\ Date(t) \in Int
  BY <1>1, DatesAndTimes
<1>3. IsMarketOpen(m, u) /\ Date(t) = d
        <=> Date(t) = d /\ \E s \in Session(m) : Within(s, h)
  BY DEF IsMarketOpen
<1>4. MarketWindows(m, d) = {win(c) : c \in WindowConfig(m)}
  BY DEF MarketWindows
<1>5. \A x \in 0..47 : t < At(d, x) <=> Date(t) < d \/ (Date(t) = d /\ h < x)
  <2> HIDE DEF t
  <2> QED
    BY <1>1, <1>2, Before
<1> HIDE DEF h
<1>6. \A e \in WindowConfig(m) : e[1] \in 8..40 /\ e[2] \in 8..40 /\ e[1] < e[2]
  BY DEF WindowConfig
<1>7. ASSUME NEW e \in WindowConfig(m)
      PROVE  Within(win(e), u) <=> Date(t) = d /\ Within(e, h)
  <2>1. e[1] \in 8..40 /\ e[2] \in 8..40
    BY <1>6
  <2>2. /\ Utc(m, At(d, e[1])) \in Int /\ Utc(m, At(d, e[2])) \in Int
        /\ u < Utc(m, At(d, e[1])) <=> t < At(d, e[1])
        /\ u < Utc(m, At(d, e[2])) <=> t < At(d, e[2])
    BY <2>1, Edge
  <2>3. e[1] \in 0..47 /\ e[2] \in 0..47
    BY <2>1
  <2>4. /\ t < At(d, e[1]) <=> Date(t) < d \/ (Date(t) = d /\ h < e[1])
        /\ t < At(d, e[2]) <=> Date(t) < d \/ (Date(t) = d /\ h < e[2])
    BY <1>5, <2>3
  <2>5. Within(win(e), u) <=> ~(u < Utc(m, At(d, e[1]))) /\ u < Utc(m, At(d, e[2]))
    BY <2>2 DEF Within
  <2>6. Within(e, h) <=> ~(h < e[1]) /\ h < e[2]
    BY <1>2, <2>3 DEF Within
  <2> HIDE DEF t, win
  <2> QED
    BY <1>2, <2>1, <2>2, <2>4, <2>5, <2>6
<1> HIDE DEF win, t
<1>8. CASE Date(t) = d /\ \E s \in Session(m) : Within(s, h)
  <2>1. PICK c \in WindowConfig(m) :
              Within(c, h) /\ \A e \in WindowConfig(m) : Within(e, h) => e = c
    BY <1>2, <1>8, WindowsPartSessions
  <2>2. counted = {win(c)}
    BY <1>4, <1>7, <1>8, <2>1
  <2>3. Cardinality(counted) = 1
    BY <2>2, FS_Singleton
  <2> QED
    BY <1>3, <1>8, <2>2, <2>3 DEF t
<1>9. CASE ~(Date(t) = d /\ \E s \in Session(m) : Within(s, h))
  <2>1. counted = {}
    BY <1>2, <1>4, <1>7, <1>9, WindowsAreInSessions
  <2>2. Cardinality(counted) = 0
    BY <2>1, FS_EmptySet
  <2> QED
    BY <1>3, <1>9, <2>1, <2>2 DEF t
<1> QED
  BY <1>8, <1>9

-----------------------------------------------------------------------------
(* What every step keeps. *)

\* Zones do not change, so that neither do sessions and nights.
LEMMA ZonesStay ==
    ASSUME UNCHANGED zone
    PROVE  /\ \A u : (ExtendedWindow(u))' = ExtendedWindow(u)
           /\ \A u : (CollectExtended(u))' = CollectExtended(u)
           /\ \A m, u : (IsMarketOpen(m, u))' = IsMarketOpen(m, u)
           /\ \A m, u : (Local(m, u))' = Local(m, u)
           /\ \A d : (Opening(d))' = Opening(d)
BY DEF zone, ExtendedWindow, CollectExtended, IsMarketOpen, Local, NewYork, Opening, Utc

LEMMA ZonesOK == TypeOK => Zones /\ now \in Int
BY HoursConstants DEF TypeOK, Zones

LEMMA TypeInit == Init => TypeOK
BY DEF Init, TypeOK, Line

LEMMA WindowIsPair ==
    ASSUME Zones, NEW u \in Int PROVE ExtendedWindow(u) \in Int \X Int
BY NightIs

LEMMA TypeNext == TypeOK /\ [Next]_vars => TypeOK'
<1> SUFFICES ASSUME TypeOK, [Next]_vars PROVE TypeOK'
  OBVIOUS
<1> USE DEF TypeOK, zone
<1>0. Zones /\ now \in Int
  BY ZonesOK
<1>1. CASE UNCHANGED vars
  BY <1>1 DEF vars
<1>2. CASE Tick
  BY <1>2 DEF Tick
<1>3. ASSUME NEW m \in Market, CollectRegular(m) PROVE TypeOK'
  <2>1. PICK source \in EventTime(now) : lines' = lines \cup {Regular(m, now, source)}
    BY <1>3 DEF CollectRegular
  <2>2. source \in {None} \cup Int
    BY <1>0, HoursConstants DEF EventTime
  <2>3. Date(Local(m, now)) \in Int
    BY <1>0, LocalTimes, DatesAndTimes
  <2>4. Regular(m, now, source) \in Line
    BY <2>2, <2>3 DEF Regular, Line
  <2> QED
    BY <1>3, <2>1, <2>4 DEF CollectRegular
<1>4. CASE BeginExtended
  BY <1>4 DEF BeginExtended
<1>5. CASE EndExtended
  <2>1. fetching \in Moment /\ fetching \in Int
    BY <1>5, HoursConstants DEF EndExtended
  <2>2. Extended(fetching) \in Line
    BY <1>0, <2>1, WindowIsPair DEF Extended, Line, Market
  <2> QED
    BY <1>5, <2>2 DEF EndExtended
<1>6. ASSUME NEW d \in {l.file[2] : l \in lines} \cup {DefaultDate},
             NEW force \in BOOLEAN, MakeReport(d, force)
      PROVE  TypeOK'
  <2>1. d \in Int
    BY <1>0, LocalTimes, NextOpenIs DEF Line, DefaultDate
  <2>2. Night(d) \subseteq lines
    BY DEF Night
  <2>3. \A r \in reports' : r \in reports \/
            (r.date = d /\ r.lines = Night(d) /\ r.fetching = fetching)
    BY <1>6 DEF MakeReport
  <2> QED
    BY <1>6, <2>1, <2>2, <2>3 DEF MakeReport
<1> QED
  BY <1>1, <1>2, <1>3, <1>4, <1>5, <1>6 DEF Next

\* Moments, lines and reports stay what they are in every step.
THEOREM HoursTypeCorrect == Spec => []TypeOK
BY TypeInit, TypeNext, PTL DEF Spec

LEMMA OneMarket == TypeOK => OneMarketAtATime
BY ZonesOK, HongKongIsAsleep, ExtendedIsNotRegular DEF OneMarketAtATime

\* HK, US and the extended session are never due at one moment.
THEOREM NeverTwoMarkets == Spec => []OneMarketAtATime
BY HoursTypeCorrect, OneMarket, PTL

-----------------------------------------------------------------------------
(* Files. *)

\* A line was collected in its session and is in the file of that moment, which is
\* that of an open day, whatever its source says.
FiledInv ==
    /\ fetching # None => CollectExtended(fetching)
    /\ \A l \in lines : l.session = "regular" =>
            IsMarketOpen(l.market, l.at) /\ l.file[1] = Date(Local(l.market, l.at))
    /\ \A l \in lines : l.session = "extended" =>
            CollectExtended(l.at) /\ l.file = ExtendedWindow(l.at)

LEMMA FiledInit == Init => FiledInv
BY DEF Init, FiledInv

LEMMA FiledNext == TypeOK /\ FiledInv /\ [Next]_vars => FiledInv'
<1> SUFFICES ASSUME TypeOK, FiledInv, [Next]_vars PROVE FiledInv'
  OBVIOUS
<1>1. UNCHANGED zone
  BY DEF Next, vars, zone, Tick, CollectRegular, BeginExtended, EndExtended, MakeReport
<1>2. CASE UNCHANGED <<fetching, lines>>
  BY <1>1, <1>2, ZonesStay DEF FiledInv
<1>3. ASSUME NEW m \in Market, CollectRegular(m) PROVE FiledInv'
  <2>1. PICK source : fetching' = fetching /\ lines' = lines \cup {Regular(m, now, source)}
    BY <1>3 DEF CollectRegular
  <2>2. LET l == Regular(m, now, source)
        IN /\ l.session = "regular" /\ IsMarketOpen(l.market, l.at)
           /\ l.file[1] = Date(Local(l.market, l.at))
    BY <1>3 DEF CollectRegular, Regular
  <2> HIDE DEF FiledInv
  <2> QED
    BY <1>1, <2>1, <2>2, ZonesStay DEF FiledInv
<1>4. CASE BeginExtended
  BY <1>1, <1>4, ZonesStay DEF FiledInv, BeginExtended
<1>5. CASE EndExtended
  <2>1. LET l == Extended(fetching)
        IN l.session = "extended" /\ CollectExtended(l.at) /\ l.file = ExtendedWindow(l.at)
    BY <1>5 DEF EndExtended, Extended, FiledInv
  <2>2. fetching' = None /\ lines' \subseteq lines \cup {Extended(fetching)}
    BY <1>5 DEF EndExtended
  <2> QED
    BY <1>1, <2>1, <2>2, ZonesStay DEF FiledInv
<1> QED
  BY <1>2, <1>3, <1>4, <1>5 DEF Next, vars, Tick, MakeReport

LEMMA Filed == TypeOK /\ FiledInv => LinesAreFiledOnce
<1> SUFFICES ASSUME TypeOK, FiledInv PROVE LinesAreFiledOnce
  OBVIOUS
<1>0. Zones /\ \A l \in lines : l.at \in Int /\ l.market \in Market
  BY ZonesOK, HoursConstants DEF TypeOK, Line
<1>1. ASSUME NEW l \in lines, l.session = "regular"
      PROVE  LET counted == {w \in MarketWindows(l.market, l.file[1]) : BelongsTo(l, w)}
             IN /\ Cardinality(counted) <= 1
                /\ counted # {} <=> /\ l.source # None
                                    /\ IsMarketOpen(l.market, l.source)
                                    /\ Date(Local(l.market, l.source)) = l.file[1]
  <2> DEFINE counted == {w \in MarketWindows(l.market, l.file[1]) : BelongsTo(l, w)}
  <2>1. l.market \in Market /\ l.file[1] \in Int /\ l.source \in {None} \cup Int
    BY <1>1 DEF TypeOK, Line
  <2>2. Weekday(l.file[1]) < 5
    BY <1>1 DEF FiledInv, IsMarketOpen
  <2>3. CASE l.source = None
    <3>1. counted = {}
      BY <2>3 DEF BelongsTo
    <3>2. Cardinality(counted) = 0
      BY <3>1, FS_EmptySet
    <3> QED
      BY <2>3, <3>1, <3>2
  <2>4. CASE l.source # None
    <3>1. l.source \in Int
      BY <2>1, <2>4
    <3>2. counted = {w \in MarketWindows(l.market, l.file[1]) : Within(w, l.source)}
      BY <2>4 DEF BelongsTo
    <3> QED
      BY <1>0, <2>1, <2>2, <2>4, <3>1, <3>2, WindowOfMoment, SMTT(30)
  <2> QED
    BY <2>3, <2>4
<1>4. RegularLineHasItsWindow
  BY <1>1 DEF RegularLineHasItsWindow
<1>2. ASSUME NEW k \in lines, NEW l \in lines, k.session = "extended",
             l.session = "extended", k.at <= l.at
      PROVE  /\ k.file = l.file <=> \A u \in k.at..l.at : ~IsMarketOpen("US", u)
             /\ k.file[2] = l.file[2] => k.file = l.file
  <2>1. /\ k.at \in Int /\ l.at \in Int /\ ~IsMarketOpen("US", k.at)
        /\ k.file = ExtendedWindow(k.at) /\ l.file = ExtendedWindow(l.at)
    BY <1>0, <1>2, ExtendedIsNotRegular DEF FiledInv
  <2>2. (\E u \in k.at..l.at : IsMarketOpen("US", u)) => k.file[2] # l.file[2]
    BY <1>0, <2>1, SessionParts
  <2>3. (\A u \in k.at..l.at : ~IsMarketOpen("US", u)) => k.file = l.file
    BY <1>0, <1>2, <2>1, NightGoesOn
  <2> QED
    BY <2>2, <2>3
<1>3. FileIsOneNight
  BY <1>2 DEF FileIsOneNight
<1> QED
  BY <1>3, <1>4 DEF LinesAreFiledOnce

\* No regular line is counted in two windows, and it is counted in one if and only
\* if its source's timestamp lies in a session of its file's date; files partition
\* the nights.
THEOREM FiledOnce == Spec => []LinesAreFiledOnce
<1>1. Init => TypeOK /\ FiledInv
  BY TypeInit, FiledInit
<1>2. TypeOK /\ FiledInv /\ [Next]_vars => (TypeOK /\ FiledInv)'
  BY TypeNext, FiledNext
<1> QED
  BY <1>1, <1>2, Filed, PTL DEF Spec

-----------------------------------------------------------------------------
(* Reports. *)

\* An unforced report is of a night that is over, so that a collection that will
\* still add to it was under way when it was made.
ReportInv ==
    /\ \A r \in reports : ~r.forced =>
            /\ now >= Opening(r.date)
            /\ fetching # None /\ ExtendedWindow(fetching)[2] = r.date
                    => fetching = r.fetching
    /\ ReportIsWhole

LEMMA ReportInit == Init => ReportInv
BY DEF Init, ReportInv, ReportIsWhole

LEMMA ReportNext == TypeOK /\ ReportInv /\ [Next]_vars => ReportInv'
<1> SUFFICES ASSUME TypeOK, ReportInv, [Next]_vars PROVE ReportInv'
  OBVIOUS
<1>0. /\ Zones /\ now \in Int
      /\ \A r \in reports : r.date \in Int /\ Opening(r.date) \in Int
  BY ZonesOK, OpensAndCloses DEF TypeOK
<1>1. /\ UNCHANGED zone
      /\ \A u : (ExtendedWindow(u))' = ExtendedWindow(u)
      /\ \A d : (Opening(d))' = Opening(d)
  BY ZonesStay DEF Next, vars, zone, Tick, CollectRegular, BeginExtended, EndExtended,
     MakeReport
<1>2. CASE UNCHANGED vars
  BY <1>1, <1>2 DEF ReportInv, ReportIsWhole, Night, vars
<1>3. CASE Tick
  <2>1. now' \in Int /\ now < now'
    BY <1>3, HoursConstants DEF Tick
  <2> QED
    BY <1>0, <1>1, <1>3, <2>1 DEF ReportInv, ReportIsWhole, Night, Tick
<1>4. ASSUME NEW m \in Market, CollectRegular(m) PROVE ReportInv'
  <2>1. \A d : (Night(d))' = Night(d)
    BY <1>4 DEF CollectRegular, Night, Regular
  <2> QED
    BY <1>1, <1>4, <2>1 DEF ReportInv, ReportIsWhole, CollectRegular
<1>5. CASE BeginExtended
  <2>1. \A d : (Night(d))' = Night(d)
    BY <1>5 DEF BeginExtended, Night
  <2>2. ASSUME NEW r \in reports, ~r.forced PROVE ExtendedWindow(now)[2] # r.date
    BY <1>0, <2>2, NightIs DEF ReportInv
  <2> QED
    BY <1>1, <1>5, <2>1, <2>2 DEF ReportInv, ReportIsWhole, BeginExtended
<1>6. CASE EndExtended
  <2>1. \A d : \A l \in (Night(d))' : l \in Night(d) \/
            (l.at = fetching /\ ExtendedWindow(fetching)[2] = d)
    BY <1>6 DEF EndExtended, Night, Extended
  <2> QED
    BY <1>1, <1>6, <2>1 DEF ReportInv, ReportIsWhole, EndExtended
<1>7. ASSUME NEW d \in {l.file[2] : l \in lines} \cup {DefaultDate},
             NEW force \in BOOLEAN, MakeReport(d, force)
      PROVE  ReportInv'
  <2>1. /\ now' = now /\ fetching' = fetching /\ lines' = lines
        /\ \A r \in reports' : r \in reports \/
             (r.date = d /\ r.lines = Night(d) /\ r.forced = force /\ r.fetching = fetching)
    BY <1>7 DEF MakeReport
  <2>2. \A e : (Night(e))' = Night(e)
    BY <2>1 DEF Night
  <2>3. ~force => now >= Opening(d)
    BY <1>7, Halves DEF MakeReport, HasEnded, Opening
  <2> QED
    BY <1>1, <2>1, <2>2, <2>3 DEF ReportInv, ReportIsWhole
<1> QED
  BY <1>2, <1>3, <1>4, <1>5, <1>6, <1>7 DEF Next

\* The report of a night shows all its lines, also those that come after it was
\* made, but for one that was under way.
THEOREM ReportsAreWhole == Spec => []ReportIsWhole
<1>1. Init => TypeOK /\ ReportInv
  BY TypeInit, ReportInit
<1>2. TypeOK /\ ReportInv /\ [Next]_vars => (TypeOK /\ ReportInv)'
  BY TypeNext, ReportNext
<1>3. ReportInv => ReportIsWhole
  BY DEF ReportInv
<1> QED
  BY <1>1, <1>2, <1>3, PTL DEF Spec
=============================================================================
