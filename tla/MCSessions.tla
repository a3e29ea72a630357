------------------------------ MODULE MCSessions ------------------------------
(* Instance of ExecSessions for TLC.                                           *)
EXTENDS ExecSessions
=============================================================================
