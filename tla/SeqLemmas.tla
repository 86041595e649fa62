----------------------------- MODULE SeqLemmas ------------------------------
(***************************************************************************)
(* Facts about sequences that the proofs cite: what the elements of a      *)
(* sequence are after Append, Tail, and putting an element in front.       *)
(***************************************************************************)
EXTENDS Integers, Sequences, TLAPS, SequenceTheorems

(* Elements and length of a sequence.                                      *)
LEMMA SeqFacts ==
  ASSUME NEW S, NEW q \in Seq(S)
  PROVE  /\ Len(q) \in Nat /\ DOMAIN q = 1 .. Len(q)
         /\ \A k \in 1 .. Len(q) : q[k] \in S
         /\ q = <<>> <=> Len(q) = 0
OBVIOUS

(* An appended sequence: its type, its old elements and the new one.       *)
LEMMA AppendFacts ==
  ASSUME NEW S, NEW q \in Seq(S), NEW e \in S
  PROVE  /\ Append(q, e) \in Seq(S) /\ Append(q, e) # <<>>
         /\ Len(q) \in Nat /\ Len(Append(q, e)) = Len(q) + 1
         /\ \A k \in 1 .. Len(q) : Append(q, e)[k] = q[k]
         /\ Append(q, e)[Len(q) + 1] = e
OBVIOUS

(* The tail of a sequence: its type, and every element is one of the rest. *)
LEMMA TailFacts ==
  ASSUME NEW S, NEW q \in Seq(S), q # <<>>
  PROVE  /\ Tail(q) \in Seq(S)
         /\ Len(q) \in Nat /\ Len(q) >= 1 /\ Len(Tail(q)) = Len(q) - 1
         /\ \A k \in 1 .. Len(Tail(q)) : k + 1 \in 1 .. Len(q) /\ Tail(q)[k] = q[k + 1]
         /\ Head(q) = q[1] /\ q[1] \in S
OBVIOUS

(* The first element twice: every element is one of the old ones.          *)
LEMMA DoubledFacts ==
  ASSUME NEW S, NEW q \in Seq(S), q # <<>>
  PROVE  /\ <<Head(q)>> \o q \in Seq(S)
         /\ Len(q) \in Nat /\ Len(q) >= 1 /\ Len(<<Head(q)>> \o q) = Len(q) + 1
         /\ (<<Head(q)>> \o q)[1] = q[1] /\ q[1] \in S
         /\ \A k \in 2 .. Len(q) + 1 : (<<Head(q)>> \o q)[k] = q[k - 1]
<1>1. <<Head(q)>> \in Seq(S) /\ Len(<<Head(q)>>) = 1 /\ <<Head(q)>>[1] = q[1] /\ q[1] \in S
  OBVIOUS
<1>2. Len(q) \in Nat /\ Len(q) >= 1
  OBVIOUS
<1> DEFINE d == <<Head(q)>> \o q
<1>3. d \in Seq(S) /\ Len(d) = 1 + Len(q)
  BY <1>1, ConcatProperties
<1>4. \A k \in 1 .. 1 + Len(q) : d[k] = IF k <= 1 THEN <<Head(q)>>[k] ELSE q[k - 1]
  BY <1>1, ConcatProperties
<1> QED
  BY <1>1, <1>2, <1>3, <1>4
=============================================================================
