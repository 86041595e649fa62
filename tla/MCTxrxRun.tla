----------------------------- MODULE MCTxrxRun ------------------------------
(* Instances of TxrxRun for TLC; the constants are given in the cfg files. *)
EXTENDS TxrxRun
=============================================================================
