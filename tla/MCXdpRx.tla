------------------------------ MODULE MCXdpRx ------------------------------
(* Small instances of XdpRx for TLC. *)
EXTENDS XdpRx
=============================================================================
