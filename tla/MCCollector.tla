----------------------------- MODULE MCCollector -----------------------------
(* Small instances of Collector. *)
EXTENDS Collector
=============================================================================
