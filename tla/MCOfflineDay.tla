---------------------------- MODULE MCOfflineDay ----------------------------
(* A day of three windows, of which one job after another dies anywhere.     *)
EXTENDS OfflineDay, TLC

CONSTANTS open, noon, close

Symmetric == Permutations(Window)
=============================================================================
