------------------------------ MODULE MCXdpTx ------------------------------
(* XdpTx for TLC; the constants are in the configuration.                  *)
EXTENDS XdpTx
=============================================================================
