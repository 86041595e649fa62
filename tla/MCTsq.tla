------------------------------- MODULE MCTsq -------------------------------
(* Small instances of Tsq for TLC. *)
EXTENDS Tsq
=============================================================================
