----------------------------- MODULE RingLemmas -----------------------------
(***************************************************************************)
(* Arithmetic of positions on a ring, for every ring size.  An arc is the  *)
(* set of slots s with Dist(h, s) < k: k slots from h on.                  *)
(***************************************************************************)
EXTENDS Ring, TLAPS

(* What Wrap computes.                                                     *)
LEMMA WrapValue ==
  ASSUME NEW h \in Slot, NEW k \in 0 .. N
  PROVE  /\ Wrap(h + k) \in Slot
         /\ k < N - h => Wrap(h + k) = h + k
         /\ k >= N - h => Wrap(h + k) = h + k - N
BY NAssumption DEF Wrap, Slot

(* What Dist computes.                                                     *)
LEMMA DistValue ==
  ASSUME NEW h \in Slot, NEW s \in Slot
  PROVE  /\ Dist(h, s) \in Slot
         /\ s >= h => Dist(h, s) = s - h
         /\ s < h => Dist(h, s) = s - h + N
BY NAssumption DEF Dist, Slot

(* A distance is a natural number below N.                                 *)
LEMMA DistNat ==
  ASSUME NEW h \in Slot, NEW s \in Slot
  PROVE  Dist(h, s) \in Nat /\ Dist(h, s) < N
<1>1. Dist(h, s) \in Slot
  BY DistValue
<1> QED
  BY <1>1, NAssumption DEF Slot

(* An arc that grows by one entry gains the slot at its end.               *)
LEMMA ArcGrows ==
  ASSUME NEW h \in Slot, NEW k \in 0 .. N - 1
  PROVE  /\ Wrap(Wrap(h + k) + 1) = Wrap(h + (k + 1))
         /\ \A s \in Slot : Dist(h, s) < k + 1 => Dist(h, s) < k \/ s = Wrap(h + k)
<1> USE NAssumption DEF Slot
<1>1. k \in 0 .. N /\ k + 1 \in 0 .. N /\ 1 \in 0 .. N
  OBVIOUS
<1>2. Wrap(Wrap(h + k) + 1) = Wrap(h + (k + 1))
  <2> DEFINE w == Wrap(h + k)
             x == Wrap(w + 1)
             y == Wrap(h + (k + 1))
  <2>1. w \in Slot /\ (k < N - h => w = h + k) /\ (k >= N - h => w = h + k - N)
    BY <1>1, WrapValue
  <2>2. x \in Slot /\ (1 < N - w => x = w + 1) /\ (1 >= N - w => x = w + 1 - N)
    BY <1>1, <2>1, WrapValue
  <2>3. /\ y \in Slot
        /\ k + 1 < N - h => y = h + (k + 1)
        /\ k + 1 >= N - h => y = h + (k + 1) - N
    BY <1>1, WrapValue
  <2> HIDE DEF w, x, y
  <2>4. x = y
    BY <2>1, <2>2, <2>3
  <2> QED
    BY <2>4 DEF w, x, y
<1>3. ASSUME NEW s \in Slot, Dist(h, s) < k + 1 PROVE Dist(h, s) < k \/ s = Wrap(h + k)
  <2> DEFINE w == Wrap(h + k)
             d == Dist(h, s)
  <2>1. (k < N - h => w = h + k) /\ (k >= N - h => w = h + k - N) /\ w \in Slot
    BY <1>1, WrapValue
  <2>2. d \in Slot /\ (s >= h => d = s - h) /\ (s < h => d = s - h + N)
    BY DistValue
  <2>3. d < k + 1
    BY <1>3
  <2> HIDE DEF w, d
  <2>4. d < k \/ s = w
    BY <2>1, <2>2, <2>3
  <2> QED
    BY <2>4 DEF w, d
<1> QED
  BY <1>2, <1>3

(* An arc that loses its first entry keeps its end and all other slots.    *)
LEMMA ArcShrinks ==
  ASSUME NEW h \in Slot, NEW k \in 1 .. N
  PROVE  /\ Wrap(h + 1) \in Slot
         /\ Wrap(Wrap(h + 1) + (k - 1)) = Wrap(h + k)
         /\ \A s \in Slot : Dist(Wrap(h + 1), s) < k - 1 => Dist(h, s) < k /\ s # h
<1> USE NAssumption DEF Slot
<1> DEFINE g == Wrap(h + 1)
<1>1. g \in Slot /\ (1 < N - h => g = h + 1) /\ (1 >= N - h => g = h + 1 - N)
  BY WrapValue
<1>2. Wrap(g + (k - 1)) = Wrap(h + k)
  <2> HIDE DEF g
  <2> DEFINE x == Wrap(g + (k - 1))
             y == Wrap(h + k)
  <2>0. k - 1 \in 0 .. N /\ k \in 0 .. N
    OBVIOUS
  <2>1. /\ x \in Slot
        /\ k - 1 < N - g => x = g + (k - 1)
        /\ k - 1 >= N - g => x = g + (k - 1) - N
    BY <1>1, <2>0, WrapValue
  <2>2. y \in Slot /\ (k < N - h => y = h + k) /\ (k >= N - h => y = h + k - N)
    BY WrapValue
  <2> HIDE DEF x, y
  <2>3. x = y
    BY <1>1, <2>1, <2>2
  <2> QED
    BY <2>3 DEF x, y
<1>3. ASSUME NEW s \in Slot, Dist(g, s) < k - 1 PROVE Dist(h, s) < k /\ s # h
  <2> HIDE DEF g
  <2> DEFINE d == Dist(g, s)
             e == Dist(h, s)
  <2>1. d \in Slot /\ (s >= g => d = s - g) /\ (s < g => d = s - g + N)
    BY <1>1, DistValue
  <2>2. e \in Slot /\ (s >= h => e = s - h) /\ (s < h => e = s - h + N)
    BY DistValue
  <2>3. d < k - 1
    BY <1>3
  <2> HIDE DEF d, e
  <2>4. e < k /\ s # h
    BY <1>1, <2>1, <2>2, <2>3
  <2> QED
    BY <2>4 DEF e
<1> QED
  BY <1>1, <1>2, <1>3

(* Three consecutive arcs r, n, f of a, b and c slots that share e slots,  *)
(* and where each begins.                                                  *)
LEMMA ThreeArcs ==
  ASSUME NEW r \in Slot, NEW n \in Slot, NEW f \in Slot,
         NEW a \in 0 .. N, NEW b \in 0 .. N, NEW c \in 0 .. N, NEW e \in 0 .. 1,
         n = Wrap(r + a), f = Wrap(n + b), a + b + c = N + e, e <= a
  PROVE  /\ e = 0 => Wrap(f + c) = r
         /\ \A s \in Slot :
              /\ (Dist(r, s) < a /\ ~(e = 1 /\ s = r)) \/ Dist(n, s) < b \/ Dist(f, s) < c
              /\ ~(Dist(f, s) < c /\ Dist(n, s) < b)
              /\ ~(Dist(f, s) < c /\ Dist(r, s) < a /\ ~(e = 1 /\ s = r))
              /\ ~(Dist(n, s) < b /\ Dist(r, s) < a /\ ~(e = 1 /\ s = r))
<1> USE NAssumption DEF Slot
<1>1. (a < N - r => n = r + a) /\ (a >= N - r => n = r + a - N)
  BY WrapValue
<1>2. (b < N - n => f = n + b) /\ (b >= N - n => f = n + b - N)
  BY WrapValue
<1>3. e = 0 => Wrap(f + c) = r
  <2> DEFINE w == Wrap(f + c)
  <2>1. w \in Slot /\ (c < N - f => w = f + c) /\ (c >= N - f => w = f + c - N)
    BY WrapValue
  <2> HIDE DEF w
  <2>2. e = 0 => w = r
    BY <1>1, <1>2, <2>1
  <2> QED
    BY <2>2 DEF w
<1>4. ASSUME NEW s \in Slot
      PROVE  /\ (Dist(r, s) < a /\ ~(e = 1 /\ s = r)) \/ Dist(n, s) < b \/ Dist(f, s) < c
             /\ ~(Dist(f, s) < c /\ Dist(n, s) < b)
             /\ ~(Dist(f, s) < c /\ Dist(r, s) < a /\ ~(e = 1 /\ s = r))
             /\ ~(Dist(n, s) < b /\ Dist(r, s) < a /\ ~(e = 1 /\ s = r))
  <2> DEFINE dr == Dist(r, s)
             dn == Dist(n, s)
             df == Dist(f, s)
  <2>1. dr \in Slot /\ (s >= r => dr = s - r) /\ (s < r => dr = s - r + N)
    BY DistValue
  <2>2. dn \in Slot /\ (s >= n => dn = s - n) /\ (s < n => dn = s - n + N)
    BY DistValue
  <2>3. df \in Slot /\ (s >= f => df = s - f) /\ (s < f => df = s - f + N)
    BY DistValue
  <2> HIDE DEF dr, dn, df
  <2>4. /\ (dr < a /\ ~(e = 1 /\ s = r)) \/ dn < b \/ df < c
        /\ ~(df < c /\ dn < b)
        /\ ~(df < c /\ dr < a /\ ~(e = 1 /\ s = r))
        /\ ~(dn < b /\ dr < a /\ ~(e = 1 /\ s = r))
    BY <1>1, <1>2, <2>1, <2>2, <2>3
  <2> QED
    BY <2>4 DEF dr, dn, df
<1> QED
  BY <1>3, <1>4

(* Two arcs one after the other end where their union ends.                *)
LEMMA ArcsJoin ==
  ASSUME NEW h \in Slot, NEW a \in 0 .. N, NEW b \in 0 .. N, a + b <= N
  PROVE  Wrap(Wrap(h + a) + b) = Wrap(h + (a + b))
<1> USE NAssumption DEF Slot
<1> DEFINE w == Wrap(h + a)
           x == Wrap(w + b)
           y == Wrap(h + (a + b))
<1>1. w \in Slot /\ (a < N - h => w = h + a) /\ (a >= N - h => w = h + a - N)
  BY WrapValue
<1>2. x \in Slot /\ (b < N - w => x = w + b) /\ (b >= N - w => x = w + b - N)
  BY <1>1, WrapValue
<1>3. /\ y \in Slot
      /\ a + b < N - h => y = h + (a + b)
      /\ a + b >= N - h => y = h + (a + b) - N
  <2>1. a + b \in 0 .. N
    OBVIOUS
  <2> QED
    BY <2>1, WrapValue
<1> HIDE DEF w, x, y
<1>4. x = y
  BY <1>1, <1>2, <1>3
<1> QED
  BY <1>4 DEF w, x, y

(* Seen from one slot further on, every other slot is one nearer.          *)
LEMMA DistStep ==
  ASSUME NEW h \in Slot, NEW s \in Slot, Dist(Wrap(h + 1), s) < N - 1
  PROVE  Dist(h, s) = Dist(Wrap(h + 1), s) + 1
<1> USE NAssumption DEF Slot
<1> DEFINE g == Wrap(h + 1)
           d == Dist(g, s)
           e == Dist(h, s)
<1>1. g \in Slot /\ (1 < N - h => g = h + 1) /\ (1 >= N - h => g = h + 1 - N)
  BY WrapValue
<1>2. d \in Slot /\ (s >= g => d = s - g) /\ (s < g => d = s - g + N)
  BY <1>1, DistValue
<1>3. e \in Slot /\ (s >= h => e = s - h) /\ (s < h => e = s - h + N)
  BY DistValue
<1>4. d < N - 1
  OBVIOUS
<1> HIDE DEF g, d, e
<1>5. e = d + 1
  BY <1>1, <1>2, <1>3, <1>4
<1> QED
  BY <1>5 DEF g, d, e

(* The slot k places after h, for k below N, is at distance k.             *)
LEMMA DistOfWrap ==
  ASSUME NEW h \in Slot, NEW k \in Slot
  PROVE  Wrap(h + k) \in Slot /\ Dist(h, Wrap(h + k)) = k
<1> USE NAssumption DEF Slot
<1> DEFINE w == Wrap(h + k)
           d == Dist(h, w)
<1>1. w \in Slot /\ (k < N - h => w = h + k) /\ (k >= N - h => w = h + k - N)
  BY WrapValue
<1>2. d \in Slot /\ (w >= h => d = w - h) /\ (w < h => d = w - h + N)
  BY <1>1, DistValue
<1> HIDE DEF w, d
<1>3. d = k
  BY <1>1, <1>2
<1> QED
  BY <1>1, <1>3 DEF w, d
=============================================================================
