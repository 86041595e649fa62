------------------------------- MODULE Ring --------------------------------
(***************************************************************************)
(* Positions on the rings that process and kernel share.  All rings of a   *)
(* socket have frames_per_ring slots; libbpf keeps free-running indices    *)
(* and masks them, here an index is always reduced.                        *)
(***************************************************************************)
EXTENDS Integers

CONSTANT N   \* x_opt->frames_per_ring

ASSUME NAssumption == N \in Nat \ {0}

Slot == 0 .. N - 1

(* Wrap(h + k) is the k-th slot after h, and Dist(h, s) is how far slot s  *)
(* lies after h.                                                           *)
Wrap(k) == IF k >= N THEN k - N ELSE k
Dist(h, s) == IF s >= h THEN s - h ELSE s - h + N
=============================================================================
