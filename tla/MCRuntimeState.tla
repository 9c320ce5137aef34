--------------------------- MODULE MCRuntimeState ---------------------------
(* A collection of two outputs and three daily builds, in threads of the API.*)
EXTENDS RuntimeState, TLC

CONSTANTS collect, b1, b2, b3, i1, i2, i3, i4, i5, i6

MCMarks  == [w \in Writer |-> IF w = collect THEN 2 ELSE 1]
MCStates ==
    {s : s \in SUBSET ({<<w, 1>> : w \in Writer} \cup {<<collect, 2>>})}

Symmetric == Permutations({b1, b2, b3})
=============================================================================
