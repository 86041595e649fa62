---------------------------- MODULE NumberedLink ----------------------------
(***************************************************************************)
(* What the programs' packet links promise to the scripts that read their  *)
(* logs.  One side gives out numbers without a gap; the other logs numbers *)
(* that have been given out, in their order.  Losses and repetitions are   *)
(* allowed, inventions and reorderings are not.  With that, equal numbers  *)
(* are neighbours in the log, which the scripts' uniq relies on.           *)
(***************************************************************************)
EXTENDS Integers, Sequences

VARIABLES
  first,    \* the first number
  sent,     \* the number given out last
  log       \* the numbers logged

linkVars == <<first, sent, log>>

LinkInit == first \in Int /\ sent = first - 1 /\ log = <<>>

Number == sent' = sent + 1 /\ UNCHANGED <<first, log>>

Log(n) ==
  /\ n <= sent
  /\ IF log = <<>> THEN n >= first ELSE n >= log[Len(log)]
  /\ log' = Append(log, n)
  /\ UNCHANGED <<first, sent>>

LinkNext == Number \/ \E n \in first .. sent : Log(n)

LinkSpec == LinkInit /\ [][LinkNext]_linkVars
=============================================================================
