------------------------------ MODULE MCQuoteRows ------------------------------
(* Two symbols: "A" trades at one price and idles at another, "B" always trades. *)
(* The first window has room for a surplus point, the second is full.            *)
EXTENDS QuoteRows

Pair  == <<"A", "B">>
Short == <<4, 2>>
Three == <<3, 2>>

Trading ==
    [s \in {"A", "B"} |->
        {[price |-> 2, trade |-> 1]} \cup (IF s = "A" THEN {[price |-> 1, trade |-> 0]} ELSE {})]
=============================================================================
