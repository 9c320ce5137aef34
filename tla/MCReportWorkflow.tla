-------------------------- MODULE MCReportWorkflow --------------------------
(***************************************************************************)
(* Small instances of ReportWorkflow.                                      *)
(***************************************************************************)
EXTENDS ReportWorkflow

CONSTANTS s1, s2

AllChannels == <<"console", "email", "webhook">>
ConsoleOnly == <<"console">>
=============================================================================
