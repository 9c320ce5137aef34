------------------------ MODULE MCNotificationArchive ------------------------
(* Three notifications of one day, some of which may be equal. *)
EXTENDS NotificationArchive, TLC

Symmetric == Permutations(Call) \cup Permutations(Id)
=============================================================================
