-------------------------------- MODULE MCRead --------------------------------
(* Instance of ExecRead for TLC.                                               *)
EXTENDS ExecRead
=============================================================================
