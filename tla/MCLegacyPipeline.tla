--------------------------- MODULE MCLegacyPipeline ---------------------------
(* A day of two windows, which are also the periods of the intraday mails. *)
EXTENDS LegacyPipeline
=============================================================================
