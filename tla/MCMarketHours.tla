----------------------------- MODULE MCMarketHours -----------------------------
(* From a Thursday afternoon to the Monday evening; the clocks of New York      *)
(* change on the Sunday, at seven o'clock UTC.  Of the half hours, those at the  *)
(* edges of the sessions, in New York before and after the change.               *)
EXTENDS MarketHours

NewYorkEdge  == {8, 18, 19, 31, 32, 40}
HongKongEdge == {19, 23, 24, 26, 31, 32}

Edges ==
    {At(d, t) + o : d \in {0, 1, 4}, t \in NewYorkEdge, o \in {8, 10}}
    \cup {At(1, t) - 16 : t \in HongKongEdge}

Moments == {u \in Edges : u >= At(0, 40)}

\* On time, a little off either way, and eight hours off: a time of UTC without a
\* zone, taken for Shanghai's.
Shifts == {-16, -1, 0, 1}
=============================================================================
