----------------------------- MODULE MCFileStack -----------------------------
(* The instances of FileStack the runs check. *)
EXTENDS FileStack
=============================================================================
