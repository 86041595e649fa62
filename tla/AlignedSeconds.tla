--------------------------- MODULE AlignedSeconds ---------------------------
(***************************************************************************)
(* What the tsq listener promises of its output file: a growing list of    *)
(* seconds, each reported by both connected talkers, none twice and none   *)
(* out of order.  Which seconds make it into the file is left open.        *)
(***************************************************************************)
EXTENDS Integers, Sequences

CONSTANT Slot   \* the listener's connections

VARIABLES
  reported,     \* reported[i]: the seconds received on connection i
  rows          \* the second of each row of the output file

absVars == <<reported, rows>>

AbsInit == /\ reported = [i \in Slot |-> {}]
           /\ rows = <<>>

(* A talker reports a second.                                              *)
Report(i, s) == /\ s \in Nat
                /\ reported' = [reported EXCEPT ![i] = @ \cup {s}]
                /\ UNCHANGED rows

(* The listener writes a row for a second that all connections reported    *)
(* and that is later than every row before.                                *)
Record(s) == /\ \A i \in Slot : s \in reported[i]
             /\ \A k \in DOMAIN rows : rows[k] < s
             /\ rows' = Append(rows, s)
             /\ UNCHANGED reported

AbsNext == \/ \E i \in Slot : \E s \in reported'[i] : Report(i, s)
           \/ \E s \in UNION {reported[i] : i \in Slot} : Record(s)

AbsSpec == AbsInit /\ [][AbsNext]_absVars
=============================================================================
