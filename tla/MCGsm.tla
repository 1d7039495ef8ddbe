------------------------------- MODULE MCGsm -------------------------------
(* The instance of Gsm the runs check.                                     *)
EXTENDS Gsm
=============================================================================
