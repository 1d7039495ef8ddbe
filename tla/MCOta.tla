------------------------------- MODULE MCOta -------------------------------
(* The instance of Ota the runs check.                                     *)
EXTENDS Ota
=============================================================================
