-------------------------------- MODULE MCExec --------------------------------
(* Instance of ExecServerClient for TLC.                                       *)
EXTENDS ExecServerClient
=============================================================================
