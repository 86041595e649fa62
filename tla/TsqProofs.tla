------------------------------ MODULE TsqProofs ------------------------------
(***************************************************************************)
(* Tsq for any set of talkers and any number of PPS events: type           *)
(* correctness, rows strictly increasing, waiting samples fresh, and the   *)
(* refinement of AlignedSeconds.                                           *)
(*                                                                         *)
(* RowsIncreasing is not inductive: that a new sample is later than every  *)
(* row needs that rows hold seconds reported on both connections           *)
(* (RowsReported), that what is still in a stream is later than what was   *)
(* reported from it (StreamsAhead), and that a slot has reported nothing   *)
(* before its id was read (SlotsFilled).                                   *)
(***************************************************************************)
EXTENDS Tsq, TLAPS

(* Records wait in a stream in increasing order, below the next second.    *)
StreamsIncreasing ==
  \A t \in Talkers : second[t] > 0 /\ \A k \in 1 .. Len(stream[t].recs) :
    /\ stream[t].recs[k] < second[t]
    /\ \A l \in 1 .. Len(stream[t].recs) : k < l => stream[t].recs[k] < stream[t].recs[l]

(* What was reported on a connection lies before all that is still to come.*)
StreamsAhead ==
  \A i \in Slot : \A r \in reported[i] :
    /\ conns[i] \in Talkers
    /\ r < second[conns[i]]
    /\ \A k \in 1 .. Len(stream[conns[i]].recs) : r < stream[conns[i]].recs[k]

(* Which slots have a talker, and when.                                    *)
SlotsFilled ==
  /\ \A i \in Slot : conns[i] # NoTalker => tpc[conns[i]] # "init"
  /\ \A i \in Slot : known[i] => conns[i] # NoTalker
  /\ \A i \in Slot : ~known[i] => reported[i] = {}
  /\ lpc \in {"start", "head", "select", "scan"} => Full \/ halt_sig
  /\ lpc = "accept" => ~Full

RowsReported == \A k \in 1 .. Len(rows) : \A i \in Slot : rows[k] \in reported[i]

IInv == /\ TypeOK /\ StreamsIncreasing /\ StreamsAhead /\ SlotsFilled
        /\ RowsReported /\ WaitingSamplesAreFresh /\ RowsIncreasing

(***************************************************************************)
(* Facts about sequences.                                                  *)
(***************************************************************************)

(* An appended sequence: its type, its old elements and the new one.       *)
LEMMA AppendFacts ==
  ASSUME NEW q \in Seq(Nat), NEW e \in Nat
  PROVE  /\ Append(q, e) \in Seq(Nat)
         /\ Len(Append(q, e)) = Len(q) + 1
         /\ \A k \in 1 .. Len(q) : Append(q, e)[k] = q[k]
         /\ Append(q, e)[Len(q) + 1] = e
OBVIOUS

(* The tail of a sequence: its type, and every element is one of the rest. *)
LEMMA TailFacts ==
  ASSUME NEW q \in Seq(Nat), q # <<>>
  PROVE  /\ Tail(q) \in Seq(Nat)
         /\ Len(Tail(q)) = Len(q) - 1
         /\ Len(q) \in Nat /\ Len(q) >= 1
         /\ \A k \in 1 .. Len(Tail(q)) : Tail(q)[k] = q[k + 1]
         /\ Head(q) = q[1] /\ q[1] \in Nat
OBVIOUS

(* Elements and length of a sequence of naturals.                          *)
LEMMA SeqFacts ==
  ASSUME NEW q \in Seq(Nat)
  PROVE  Len(q) \in Nat /\ DOMAIN q = 1 .. Len(q) /\ \A k \in 1 .. Len(q) : q[k] \in Nat
OBVIOUS

(* A function updated with a value of its range.                           *)
LEMMA UpdateType ==
  ASSUME NEW T, NEW S, NEW f \in [T -> S], NEW t \in T, NEW s \in S
  PROVE  [f EXCEPT ![t] = s] \in [T -> S]
OBVIOUS

(***************************************************************************)
(* What a read leaves in a stream.                                         *)
(***************************************************************************)

(* AfterRead keeps the type and leaves a suffix of the records: without    *)
(* the first when that was a sample.                                       *)
LEMMA AfterReadFacts ==
  ASSUME NEW s \in [left : Nat, recs : Seq(Nat)]
  PROVE  /\ AfterRead(s) \in [left : Nat, recs : Seq(Nat)]
         /\ Len(AfterRead(s).recs) \in Nat
         /\ \/ AfterRead(s).recs = s.recs /\ Sample(s) = 0
            \/ \A k \in 1 .. Len(AfterRead(s).recs) :
                 k + 1 \in 1 .. Len(s.recs) /\ AfterRead(s).recs[k] = s.recs[k + 1]
         /\ Sample(s) # 0 => s.recs # <<>> /\ Sample(s) = s.recs[1] /\ 1 \in 1 .. Len(s.recs)
         /\ Sample(s) \in Nat
<1>1. CASE s.recs = <<>> \/ s.left = BUFFER_SIZE - 1
  <2>1. AfterRead(s) = [left |-> 0, recs |-> s.recs]
    BY <1>1 DEF AfterRead, Stream
  <2>2. AfterRead(s) \in [left : Nat, recs : Seq(Nat)] /\ AfterRead(s).recs = s.recs
    BY <2>1
  <2>3. Sample(s) = 0
    BY <1>1, BufferAssumption DEF Sample
  <2> QED
    BY <2>2, <2>3, SeqFacts
<1>2. CASE s.recs # <<>> /\ s.left # BUFFER_SIZE - 1
  <2>1. s.recs \in Seq(Nat) /\ s.left \in Nat
    OBVIOUS
  <2>2. /\ Tail(s.recs) \in Seq(Nat)
        /\ Len(Tail(s.recs)) = Len(s.recs) - 1
        /\ Len(s.recs) \in Nat /\ Len(s.recs) >= 1
        /\ \A k \in 1 .. Len(Tail(s.recs)) : Tail(s.recs)[k] = s.recs[k + 1]
        /\ Head(s.recs) = s.recs[1] /\ s.recs[1] \in Nat
    BY <1>2, <2>1, TailFacts
  <2>3. AfterRead(s) = [left |-> s.left + 1, recs |-> Tail(s.recs)]
    BY <1>2 DEF AfterRead, Stream
  <2>4. AfterRead(s).recs = Tail(s.recs)
    BY <2>3
  <2>5. AfterRead(s) \in [left : Nat, recs : Seq(Nat)]
    BY <2>1, <2>2, <2>3
  <2>6. \A k \in 1 .. Len(AfterRead(s).recs) :
          k + 1 \in 1 .. Len(s.recs) /\ AfterRead(s).recs[k] = s.recs[k + 1]
    BY <2>2, <2>4
  <2>7. /\ Sample(s) # 0 => Sample(s) = s.recs[1]
        /\ Sample(s) \in Nat
    BY <2>2 DEF Sample
  <2> QED
    BY <1>2, <2>2, <2>4, <2>5, <2>6, <2>7
<1> QED
  BY <1>1, <1>2

(* A read from one stream keeps all streams increasing and ahead.          *)
LEMMA ReadKeepsStreams ==
  ASSUME TypeOK, StreamsIncreasing, NEW t \in Talkers,
         stream' = [stream EXCEPT ![t] = AfterRead(@)], second' = second
  PROVE  /\ stream' \in [Talkers -> [left : Nat, recs : Seq(Nat)]]
         /\ StreamsIncreasing'
         /\ \A u \in Talkers : \A k \in 1 .. Len(stream'[u].recs) :
              \E l \in 1 .. Len(stream[u].recs) : stream'[u].recs[k] = stream[u].recs[l]
<1>1. stream \in [Talkers -> [left : Nat, recs : Seq(Nat)]] /\ second \in [Talkers -> Nat]
  BY DEF TypeOK
<1>2. stream'[t] = AfterRead(stream[t]) /\ \A u \in Talkers : u # t => stream'[u] = stream[u]
  BY <1>1
<1>3. /\ stream'[t] \in [left : Nat, recs : Seq(Nat)]
      /\ Len(stream'[t].recs) \in Nat
      /\ \/ stream'[t].recs = stream[t].recs
         \/ \A k \in 1 .. Len(stream'[t].recs) :
              k + 1 \in 1 .. Len(stream[t].recs) /\ stream'[t].recs[k] = stream[t].recs[k + 1]
  BY <1>1, <1>2, AfterReadFacts
<1>4. stream' \in [Talkers -> [left : Nat, recs : Seq(Nat)]]
  <2>1. AfterRead(stream[t]) \in [left : Nat, recs : Seq(Nat)]
    BY <1>2, <1>3
  <2> QED
    BY <1>1, <2>1
<1>5. StreamsIncreasing'
  <2> SUFFICES ASSUME NEW u \in Talkers
               PROVE  /\ second[u] > 0
                      /\ \A k \in 1 .. Len(stream'[u].recs) :
                           /\ stream'[u].recs[k] < second[u]
                           /\ \A l \in 1 .. Len(stream'[u].recs) :
                                k < l => stream'[u].recs[k] < stream'[u].recs[l]
    BY DEF StreamsIncreasing
  <2>1. CASE u = t
    <3> SUFFICES ASSUME NEW k \in 1 .. Len(stream'[t].recs)
                 PROVE  /\ stream'[t].recs[k] < second[t]
                        /\ \A l \in 1 .. Len(stream'[t].recs) :
                             k < l => stream'[t].recs[k] < stream'[t].recs[l]
      BY <2>1 DEF StreamsIncreasing
    <3>0. CASE stream'[t].recs = stream[t].recs
      BY <3>0 DEF StreamsIncreasing
    <3> SUFFICES ASSUME stream'[t].recs # stream[t].recs
                 PROVE  /\ stream'[t].recs[k] < second[t]
                        /\ \A l \in 1 .. Len(stream'[t].recs) :
                             k < l => stream'[t].recs[k] < stream'[t].recs[l]
      BY <3>0
    <3>1. k + 1 \in 1 .. Len(stream[t].recs) /\ stream'[t].recs[k] = stream[t].recs[k + 1]
      BY <1>3
    <3>2. stream'[t].recs[k] < second[t]
      BY <3>1 DEF StreamsIncreasing
    <3>3. ASSUME NEW l \in 1 .. Len(stream'[t].recs), k < l
          PROVE  stream'[t].recs[k] < stream'[t].recs[l]
      <4>1. l + 1 \in 1 .. Len(stream[t].recs) /\ stream'[t].recs[l] = stream[t].recs[l + 1]
        BY <1>3
      <4>2. k + 1 < l + 1
        BY <1>3, <3>3
      <4> QED
        BY <3>1, <4>1, <4>2 DEF StreamsIncreasing
    <3> QED
      BY <3>2, <3>3
  <2>2. CASE u # t
    BY <1>2, <2>2 DEF StreamsIncreasing
  <2> QED
    BY <2>1, <2>2
<1>6. ASSUME NEW u \in Talkers, NEW k \in 1 .. Len(stream'[u].recs)
      PROVE  \E l \in 1 .. Len(stream[u].recs) : stream'[u].recs[k] = stream[u].recs[l]
  <2>1. CASE u = t
    BY <1>3, <2>1
  <2>2. CASE u # t
    BY <1>2, <2>2
  <2> QED
    BY <2>1, <2>2
<1> QED
  BY <1>4, <1>5, <1>6

(***************************************************************************)
(* The inductive invariant.                                                *)
(***************************************************************************)

(* Init establishes the strengthened invariant.                            *)
LEMMA InitIInv == Init => IInv
<1> SUFFICES ASSUME Init PROVE IInv
  OBVIOUS
<1> USE SecAssumption, TalkerAssumption DEF Init
<1>0. <<>> \in Seq(Nat) /\ Len(<<>>) = 0 /\ FirstSec \in Nat /\ FirstSec > 0
  OBVIOUS
<1>1. TypeOK
  <2>1. stream \in [Talkers -> [left : Nat, recs : Seq(Nat)]]
    <3>1. stream = [t \in Talkers |-> [left |-> 0, recs |-> <<>>]]
      BY DEF Stream
    <3> HIDE DEF Init
    <3> QED
      BY <1>0, <3>1
  <2>2. /\ tpc \in [Talkers -> TalkerState]
        /\ second \in [Talkers -> Nat]
    BY DEF TalkerState
  <2>3. /\ conns \in [Slot -> Talkers \cup {NoTalker}] /\ known \in [Slot -> BOOLEAN]
        /\ valid \in [Slot -> BOOLEAN] /\ cli_data \in [Slot -> Nat]
        /\ reported \in [Slot -> SUBSET Nat]
    OBVIOUS
  <2>4. /\ lpc = "clients" /\ readfds \subseteq Slot /\ skip_slot \in BOOLEAN
        /\ keep_data_slot \in Slot /\ keep_data \in Nat /\ halt_sig \in BOOLEAN
    BY DEF Slot
  <2>5. rows \in Seq(Nat)
    OBVIOUS
  <2> HIDE DEF Init
  <2> QED
    BY <2>1, <2>2, <2>3, <2>4, <2>5 DEF TypeOK, ListenerState
<1>2. StreamsIncreasing
  <2>1. \A t \in Talkers : stream[t].recs = <<>> /\ second[t] = FirstSec
    BY DEF Stream
  <2> HIDE DEF Init
  <2>2. \A t \in Talkers : Len(stream[t].recs) = 0 /\ second[t] > 0
    BY <1>0, <2>1
  <2>3. \A k \in 1 .. 0 : FALSE
    OBVIOUS
  <2> QED
    BY <2>2, <2>3, Zenon DEF StreamsIncreasing
<1>3. StreamsAhead /\ SlotsFilled
  <2>1. \A i \in Slot : reported[i] = {} /\ conns[i] = NoTalker /\ known[i] = FALSE
    OBVIOUS
  <2>2. lpc = "clients"
    OBVIOUS
  <2> HIDE DEF Init
  <2> QED
    BY <2>1, <2>2 DEF StreamsAhead, SlotsFilled
<1>4. RowsReported /\ WaitingSamplesAreFresh /\ RowsIncreasing
  BY DEF RowsReported, WaitingSamplesAreFresh, RowsIncreasing
<1> QED
  BY <1>1, <1>2, <1>3, <1>4 DEF IInv

(* A step that leaves slots, samples and rows alone keeps what is said     *)
(* about them.                                                             *)
LEMMA MatchUnchanged ==
  ASSUME IInv, UNCHANGED <<matchVars, reported>>
  PROVE  RowsReported' /\ WaitingSamplesAreFresh' /\ RowsIncreasing'
BY DEF IInv, matchVars, RowsReported, WaitingSamplesAreFresh, RowsIncreasing

(* A talker connects: no slot has it yet.                                  *)
LEMMA TalkerConnectIInv ==
  ASSUME NEW t \in Talkers, IInv, TalkerConnect(t) PROVE IInv'
<1> USE DEF IInv, TalkerConnect, listenerVars
<1>1. /\ stream \in [Talkers -> [left : Nat, recs : Seq(Nat)]]
      /\ stream' = [stream EXCEPT ![t] = [left |-> 0, recs |-> <<0>>]]
      /\ UNCHANGED <<second, conns, known, reported, lpc, halt_sig>>
  BY DEF TypeOK, Stream
<1>2. /\ stream'[t].recs = <<0>> /\ <<0>> \in Seq(Nat)
      /\ \A u \in Talkers : u # t => stream'[u] = stream[u]
  BY <1>1
<1>3. TypeOK'
  <2>1. stream' \in [Talkers -> [left : Nat, recs : Seq(Nat)]]
    <3>1. [left |-> 0, recs |-> <<0>>] \in [left : Nat, recs : Seq(Nat)]
      OBVIOUS
    <3> QED
      BY <1>1, <3>1, UpdateType, Zenon
  <2>2. tpc' = [tpc EXCEPT ![t] = "wait"]
    OBVIOUS
  <2>3. tpc \in [Talkers -> TalkerState]
    BY DEF TypeOK
  <2> HIDE DEF TalkerConnect
  <2>4. tpc' \in [Talkers -> TalkerState]
    BY <2>2, <2>3 DEF TalkerState
  <2> USE DEF TalkerConnect
  <2> QED
    BY <2>1, <2>4 DEF TypeOK, matchVars
<1>4. StreamsIncreasing'
  <2> SUFFICES ASSUME NEW u \in Talkers
               PROVE  /\ second[u] > 0
                      /\ \A k \in 1 .. Len(stream'[u].recs) :
                           /\ stream'[u].recs[k] < second[u]
                           /\ \A l \in 1 .. Len(stream'[u].recs) :
                                k < l => stream'[u].recs[k] < stream'[u].recs[l]
    BY <1>1 DEF StreamsIncreasing
  <2>1. CASE u = t
    <3>1. second[t] \in Nat /\ second[t] > 0
      BY DEF TypeOK, StreamsIncreasing
    <3>2. Len(<<0>>) = 1 /\ <<0>>[1] = 0
      OBVIOUS
    <3> QED
      BY <1>2, <2>1, <3>1, <3>2
  <2>2. CASE u # t
    BY <1>2, <2>2 DEF StreamsIncreasing
  <2> QED
    BY <2>1, <2>2
<1>5. \A i \in Slot : conns[i] # t
  BY TalkerAssumption DEF SlotsFilled, TypeOK
<1>6. StreamsAhead'
  BY <1>1, <1>2, <1>5 DEF StreamsAhead
<1>7. SlotsFilled'
  BY <1>1, <1>5 DEF SlotsFilled, TypeOK, Full
<1> QED
  BY <1>3, <1>4, <1>6, <1>7, MatchUnchanged

(* A PPS event: the new record is later than all before.                   *)
LEMMA TalkerSampleIInv ==
  ASSUME NEW t \in Talkers, IInv, TalkerSample(t) PROVE IInv'
<1> USE DEF IInv, TalkerSample, listenerVars
<1> DEFINE q == stream[t].recs
           n == second[t]
           qq == stream'[t].recs
<1>1. /\ stream \in [Talkers -> [left : Nat, recs : Seq(Nat)]]
      /\ second \in [Talkers -> Nat] /\ q \in Seq(Nat) /\ n \in Nat /\ n > 0
      /\ UNCHANGED <<tpc, conns, known, reported, lpc, halt_sig>>
  BY DEF TypeOK, StreamsIncreasing
<1>2. \A u \in Talkers : u # t => stream'[u] = stream[u] /\ second'[u] = second[u]
  BY <1>1
<1>3. second'[t] = n + 1
  BY <1>1
<1>4. /\ stream' \in [Talkers -> [left : Nat, recs : Seq(Nat)]]
      /\ qq = q \/ qq = Append(q, n)
  <2>1. CASE stream' = stream
    BY <1>1, <2>1
  <2>2. CASE stream' = [stream EXCEPT ![t].recs = Append(@, n)]
    <3>1. Append(q, n) \in Seq(Nat) /\ stream[t].left \in Nat
      BY <1>1, AppendFacts
    <3> HIDE DEF TalkerSample, IInv
    <3>2. stream'[t] = [stream[t] EXCEPT !.recs = Append(q, n)]
      BY <1>1, <2>2
    <3>3. stream'[t] = [left |-> stream[t].left, recs |-> Append(q, n)]
      BY <1>1, <3>2
    <3>4. stream'[t] \in [left : Nat, recs : Seq(Nat)] /\ qq = Append(q, n)
      BY <3>1, <3>3
    <3>5. stream' = [stream EXCEPT ![t] = stream'[t]]
      BY <1>1, <2>2
    <3> QED
      BY <1>1, <3>4, <3>5
  <2> QED
    BY <2>1, <2>2
<1>5. /\ Len(q) \in Nat /\ \A k \in 1 .. Len(q) : q[k] \in Nat
      /\ Len(Append(q, n)) = Len(q) + 1
      /\ \A k \in 1 .. Len(q) : Append(q, n)[k] = q[k]
      /\ Append(q, n)[Len(q) + 1] = n
  BY <1>1, AppendFacts, SeqFacts
<1>6. \A k \in 1 .. Len(q) : q[k] < n /\ \A l \in 1 .. Len(q) : k < l => q[k] < q[l]
  BY DEF StreamsIncreasing
<1>7. TypeOK'
  <2>1. second' \in [Talkers -> Nat]
    BY <1>1
  <2> QED
    BY <1>4, <2>1 DEF TypeOK, matchVars
<1>8. \A k \in 1 .. Len(qq) : qq[k] < n + 1 /\ \A l \in 1 .. Len(qq) : k < l => qq[k] < qq[l]
  <2> HIDE DEF q, n, qq
  <2>1. CASE qq = q
    BY <1>1, <1>5, <1>6, <2>1
  <2>2. CASE qq = Append(q, n)
    <3> SUFFICES ASSUME NEW k \in 1 .. Len(q) + 1
                 PROVE  /\ qq[k] < n + 1
                        /\ \A l \in 1 .. Len(q) + 1 : k < l => qq[k] < qq[l]
      BY <1>5, <2>2
    <3>1. \A l \in 1 .. Len(q) + 1 : l \in 1 .. Len(q) \/ l = Len(q) + 1
      BY <1>5
    <3>2. CASE k \in 1 .. Len(q)
      BY <1>1, <1>5, <1>6, <2>2, <3>1, <3>2
    <3>3. CASE k = Len(q) + 1
      BY <1>1, <1>5, <2>2, <3>3
    <3> QED
      BY <3>1, <3>2, <3>3
  <2> QED
    BY <1>4, <2>1, <2>2
<1>9. StreamsIncreasing'
  <2> SUFFICES ASSUME NEW u \in Talkers
               PROVE  /\ second'[u] > 0
                      /\ \A k \in 1 .. Len(stream'[u].recs) :
                           /\ stream'[u].recs[k] < second'[u]
                           /\ \A l \in 1 .. Len(stream'[u].recs) :
                                k < l => stream'[u].recs[k] < stream'[u].recs[l]
    BY DEF StreamsIncreasing
  <2>1. CASE u = t
    BY <1>1, <1>3, <1>8, <2>1
  <2>2. CASE u # t
    BY <1>2, <2>2 DEF StreamsIncreasing
  <2> QED
    BY <2>1, <2>2
<1>10. StreamsAhead'
  <2> SUFFICES ASSUME NEW i \in Slot, NEW r \in reported[i]
               PROVE  /\ conns[i] \in Talkers
                      /\ r < second'[conns[i]]
                      /\ \A k \in 1 .. Len(stream'[conns[i]].recs) : r < stream'[conns[i]].recs[k]
    BY <1>1 DEF StreamsAhead
  <2>1. /\ conns[i] \in Talkers /\ r < second[conns[i]]
        /\ \A k \in 1 .. Len(stream[conns[i]].recs) : r < stream[conns[i]].recs[k]
    BY DEF StreamsAhead
  <2>2. CASE conns[i] = t
    <3>1. r < n /\ r \in Nat /\ \A k \in 1 .. Len(q) : r < q[k]
      BY <2>1, <2>2 DEF TypeOK
    <3>2. \A k \in 1 .. Len(qq) : r < qq[k]
      <4> HIDE DEF q, n, qq
      <4>1. CASE qq = q
        BY <3>1, <4>1
      <4>2. CASE qq = Append(q, n)
        BY <1>5, <3>1, <4>2
      <4> QED
        BY <1>4, <4>1, <4>2
    <3> QED
      BY <1>1, <1>3, <2>1, <2>2, <3>1, <3>2
  <2>3. CASE conns[i] # t
    BY <1>2, <2>1, <2>3
  <2> QED
    BY <2>2, <2>3
<1>11. SlotsFilled'
  BY <1>1 DEF SlotsFilled, Full
<1> QED
  BY <1>7, <1>9, <1>10, <1>11, MatchUnchanged

(* A step that changes at most where the talkers and the listener are, the *)
(* set of ready slots and the signal flag, and keeps SlotsFilled.          *)
LEMMA ControlStep ==
  ASSUME IInv, UNCHANGED <<second, stream, conns, known, matchVars, reported>>,
         tpc' \in [Talkers -> TalkerState], lpc' \in ListenerState,
         readfds' \subseteq Slot, halt_sig' \in BOOLEAN, SlotsFilled'
  PROVE  IInv'
<1>1. TypeOK'
  BY DEF IInv, TypeOK, matchVars
<1>2. StreamsIncreasing' /\ StreamsAhead'
  BY DEF IInv, StreamsIncreasing, StreamsAhead
<1> QED
  BY <1>1, <1>2, MatchUnchanged DEF IInv

(* The listener moves on, is signalled, fails or deadlocks; a talker       *)
(* leaves: all are control steps.                                          *)
LEMMA ControlIInv ==
  ASSUME IInv,
         \/ AcceptHead \/ AcceptFails \/ SendStart \/ LoopHead \/ Select
         \/ ScanHalted \/ Signal \/ SignalInLock
         \/ \E i \in Slot : SocketFails(i)
         \/ \E t \in Talkers : TalkerExit(t)
         \/ UNCHANGED vars
  PROVE  IInv'
<1> USE DEF IInv, TypeOK, SlotsFilled, Full, ListenerState, talkerVars
<1>1. CASE AcceptHead
  BY <1>1, ControlStep DEF AcceptHead
<1>2. CASE AcceptFails
  BY <1>2, ControlStep DEF AcceptFails
<1>3. CASE SendStart
  <2>1. tpc' \in [Talkers -> TalkerState]
    BY <1>3 DEF SendStart, TalkerState
  <2>2. \A t \in Talkers : tpc[t] # "init" => tpc'[t] # "init"
    BY <1>3 DEF SendStart
  <2> QED
    BY <1>3, <2>1, <2>2, ControlStep DEF SendStart
<1>4. CASE LoopHead
  BY <1>4, ControlStep DEF LoopHead
<1>5. CASE Select
  BY <1>5, ControlStep DEF Select
<1>6. CASE ScanHalted
  BY <1>6, ControlStep DEF ScanHalted
<1>7. CASE Signal
  BY <1>7, ControlStep DEF Signal, Terminated
<1>8. CASE SignalInLock
  BY <1>8, ControlStep DEF SignalInLock
<1>9. CASE \E i \in Slot : SocketFails(i)
  BY <1>9, ControlStep DEF SocketFails
<1>10. ASSUME NEW t \in Talkers, TalkerExit(t) PROVE IInv'
  <2>1. tpc' \in [Talkers -> TalkerState]
    BY <1>10 DEF TalkerExit, TalkerState
  <2>2. \A u \in Talkers : tpc[u] # "init" => tpc'[u] # "init"
    BY <1>10 DEF TalkerExit
  <2> QED
    BY <1>10, <2>1, <2>2, ControlStep DEF TalkerExit, listenerVars
<1>11. CASE UNCHANGED vars
  BY <1>11, ControlStep DEF vars
<1> QED
  BY <1>1, <1>2, <1>3, <1>4, <1>5, <1>6, <1>7, <1>8, <1>9, <1>10, <1>11

(* A connection is accepted into a slot that has reported nothing.         *)
LEMMA AcceptIInv ==
  ASSUME NEW t \in Talkers, IInv, Accept(t) PROVE IInv'
<1> USE DEF IInv, Accept, talkerVars
<1>1. FreeSlot \in Slot /\ ~known[FreeSlot]
  BY DEF SlotsFilled, Full, FreeSlot, Slot, TypeOK
<1>2. /\ conns'[FreeSlot] = t
      /\ \A i \in Slot : i # FreeSlot => conns'[i] = conns[i]
      /\ conns' \in [Slot -> Talkers \cup {NoTalker}]
  BY <1>1 DEF TypeOK
<1>3. TypeOK'
  BY <1>2 DEF TypeOK, matchVars, ListenerState
<1>4. StreamsIncreasing'
  BY DEF StreamsIncreasing
<1>5. StreamsAhead'
  BY <1>1, <1>2 DEF StreamsAhead, SlotsFilled
<1>6. SlotsFilled'
  BY <1>1, <1>2, TalkerAssumption DEF SlotsFilled, TypeOK
<1> QED
  BY <1>3, <1>4, <1>5, <1>6, MatchUnchanged

(* A read from a connected talker leaves what was reported behind all that *)
(* is still in the streams.                                                *)
LEMMA ReadKeepsAhead ==
  ASSUME IInv, NEW t \in Talkers,
         stream' = [stream EXCEPT ![t] = AfterRead(@)], UNCHANGED <<second, conns>>
  PROVE  \A i \in Slot : \A r \in reported[i] :
           /\ conns[i] \in Talkers
           /\ r < second[conns[i]]
           /\ \A k \in 1 .. Len(stream'[conns[i]].recs) : r < stream'[conns[i]].recs[k]
<1> SUFFICES ASSUME NEW i \in Slot, NEW r \in reported[i]
             PROVE  /\ conns[i] \in Talkers
                    /\ r < second[conns[i]]
                    /\ \A k \in 1 .. Len(stream'[conns[i]].recs) :
                         r < stream'[conns[i]].recs[k]
  OBVIOUS
<1>1. /\ conns[i] \in Talkers /\ r < second[conns[i]]
      /\ \A l \in 1 .. Len(stream[conns[i]].recs) : r < stream[conns[i]].recs[l]
  BY DEF IInv, StreamsAhead
<1>2. \A u \in Talkers : \A k \in 1 .. Len(stream'[u].recs) :
        \E l \in 1 .. Len(stream[u].recs) : stream'[u].recs[k] = stream[u].recs[l]
  BY ReadKeepsStreams DEF IInv
<1> QED
  BY <1>1, <1>2

(* The id is read: the slot is now known, and has a talker.                *)
LEMMA ReadUidIInv ==
  ASSUME NEW i \in Slot, IInv, ReadUid(i) PROVE IInv'
<1> USE DEF ReadUid, talkerVars
<1>1. conns[i] \in Talkers /\ UNCHANGED <<second, conns, reported, tpc>>
  BY DEF IInv, TypeOK
<1>2. /\ stream' \in [Talkers -> [left : Nat, recs : Seq(Nat)]]
      /\ StreamsIncreasing'
  BY <1>1, ReadKeepsStreams DEF IInv
<1>3. /\ known' \in [Slot -> BOOLEAN] /\ known'[i] = TRUE
      /\ \A j \in Slot : j # i => known'[j] = known[j]
  BY DEF IInv, TypeOK
<1>4. TypeOK'
  BY <1>2, <1>3 DEF IInv, TypeOK, matchVars, ListenerState
<1>5. StreamsAhead'
  BY <1>1, ReadKeepsAhead DEF StreamsAhead
<1>6. SlotsFilled'
  BY <1>1, <1>3 DEF IInv, SlotsFilled
<1> QED
  BY <1>2, <1>4, <1>5, <1>6, MatchUnchanged DEF IInv

(* A slot is read while no signal is pending: it has a talker.             *)
LEMMA ReadSlotConnected ==
  ASSUME NEW i \in Slot, IInv, ReadSlot(i)
  PROVE  /\ conns[i] \in Talkers /\ Full
         /\ stream' = [stream EXCEPT ![conns[i]] = AfterRead(@)]
         /\ UNCHANGED <<second, tpc, conns, known, lpc, rows, halt_sig>>
<1>1. Full
  BY DEF ReadSlot, IInv, SlotsFilled
<1>2. conns[i] # NoTalker
  BY <1>1 DEF Full, IInv, SlotsFilled
<1>3. conns[i] \in Talkers
  BY <1>2 DEF IInv, TypeOK
<1> QED
  BY <1>1, <1>3 DEF ReadSlot, talkerVars

(* A sample just read is later than everything recorded, and earlier than  *)
(* everything its talker has still to deliver.                             *)
LEMMA SampleIsFresh ==
  ASSUME NEW i \in Slot, IInv, ReadSlot(i), Sample(stream[conns[i]]) # 0
  PROVE  LET got == Sample(stream[conns[i]])
         IN  /\ got \in Nat
             /\ got < second[conns[i]]
             /\ \A k \in 1 .. Len(stream'[conns[i]].recs) : got < stream'[conns[i]].recs[k]
             /\ \A k \in 1 .. Len(rows) : rows[k] < got
<1> DEFINE t == conns[i]
           s == stream[t]
           got == Sample(s)
<1>1. t \in Talkers /\ stream' = [stream EXCEPT ![t] = AfterRead(@)]
  BY ReadSlotConnected
<1>2. stream \in [Talkers -> [left : Nat, recs : Seq(Nat)]]
  BY DEF IInv, TypeOK
<1>3. s \in [left : Nat, recs : Seq(Nat)] /\ stream'[t] = AfterRead(s)
  BY <1>1, <1>2
<1>4. /\ got = s.recs[1] /\ 1 \in 1 .. Len(s.recs) /\ got \in Nat
      /\ \A k \in 1 .. Len(stream'[t].recs) :
           k + 1 \in 1 .. Len(s.recs) /\ stream'[t].recs[k] = s.recs[k + 1]
  BY <1>3, AfterReadFacts
<1>5. got < second[t] /\ \A l \in 1 .. Len(s.recs) : 1 < l => got < s.recs[l]
  BY <1>1, <1>4 DEF IInv, StreamsIncreasing
<1>6. ASSUME NEW k \in 1 .. Len(stream'[t].recs) PROVE got < stream'[t].recs[k]
  <2>1. Len(stream'[t].recs) \in Nat
    BY <1>3, AfterReadFacts
  <2>2. 1 < k + 1
    BY <2>1
  <2> QED
    BY <1>4, <1>5, <2>2
<1>7. \A k \in 1 .. Len(rows) : rows[k] < got
  BY <1>1, <1>4 DEF IInv, RowsReported, StreamsAhead
<1> QED
  BY <1>4, <1>5, <1>6, <1>7

(* Reading a slot: the kept sample is put back, a new one is stored, or    *)
(* nothing is.                                                             *)
LEMMA ReadSlotIInv ==
  ASSUME NEW i \in Slot, IInv, ReadSlot(i) PROVE IInv'
<1> DEFINE t == conns[i]
           got == Sample(stream[t])
<1>1. /\ t \in Talkers /\ Full
      /\ stream' = [stream EXCEPT ![t] = AfterRead(@)]
      /\ UNCHANGED <<second, tpc, conns, known, lpc, rows, halt_sig>>
  BY ReadSlotConnected
<1>2. /\ stream' \in [Talkers -> [left : Nat, recs : Seq(Nat)]]
      /\ StreamsIncreasing'
  BY <1>1, ReadKeepsStreams DEF IInv
<1>3. \A j \in Slot : \A r \in reported[j] :
        /\ conns[j] \in Talkers
        /\ r < second[conns[j]]
        /\ \A k \in 1 .. Len(stream'[conns[j]].recs) : r < stream'[conns[j]].recs[k]
  BY <1>1, ReadKeepsAhead
<1>4. RowsIncreasing'
  BY <1>1 DEF IInv, RowsIncreasing
<1>5. /\ UNCHANGED <<skip_slot, keep_data_slot, keep_data>> /\ readfds' \subseteq Slot
      /\ rows \in Seq(Nat) /\ DOMAIN rows = 1 .. Len(rows)
  BY DEF ReadSlot, IInv, TypeOK
<1>6. CASE skip_slot /\ keep_data_slot = i
  <2>1. /\ cli_data' = [cli_data EXCEPT ![i] = keep_data]
        /\ valid' = [valid EXCEPT ![i] = TRUE] /\ reported' = reported
    BY <1>6 DEF ReadSlot
  <2>2. TypeOK'
    <3>1. cli_data' \in [Slot -> Nat] /\ valid' \in [Slot -> BOOLEAN]
      BY <2>1 DEF IInv, TypeOK
    <3> QED
      BY <1>1, <1>2, <1>5, <2>1, <3>1 DEF IInv, TypeOK
  <2>3. WaitingSamplesAreFresh'
    <3>1. keep_data \in reported[i] /\ \A k \in DOMAIN rows : rows[k] < keep_data
      BY <1>6 DEF IInv, WaitingSamplesAreFresh
    <3> QED
      BY <1>1, <1>5, <2>1, <3>1 DEF IInv, TypeOK, WaitingSamplesAreFresh
  <2> QED
    BY <1>1, <1>2, <1>3, <1>4, <2>1, <2>2, <2>3
       DEF IInv, StreamsAhead, SlotsFilled, RowsReported, Full
<1>7. CASE ~(skip_slot /\ keep_data_slot = i) /\ got # 0
  <2>1. /\ cli_data' = [cli_data EXCEPT ![i] = got]
        /\ valid' = [valid EXCEPT ![i] = TRUE]
        /\ reported' = [reported EXCEPT ![i] = @ \cup {got}]
    BY <1>7 DEF ReadSlot
  <2>2. /\ got \in Nat /\ got < second[t]
        /\ \A k \in 1 .. Len(stream'[t].recs) : got < stream'[t].recs[k]
        /\ \A k \in 1 .. Len(rows) : rows[k] < got
    BY <1>7, SampleIsFresh
  <2> HIDE DEF got
  <2>3. /\ cli_data'[i] = got /\ valid'[i] = TRUE /\ reported'[i] = reported[i] \cup {got}
        /\ \A j \in Slot : j # i => /\ cli_data'[j] = cli_data[j] /\ valid'[j] = valid[j]
                                    /\ reported'[j] = reported[j]
    BY <2>1 DEF IInv, TypeOK
  <2>4. TypeOK'
    <3>1. cli_data' \in [Slot -> Nat] /\ valid' \in [Slot -> BOOLEAN]
      BY <2>1, <2>2 DEF IInv, TypeOK
    <3>2. reported' \in [Slot -> SUBSET Nat]
      BY <2>1, <2>2 DEF IInv, TypeOK
    <3> QED
      BY <1>1, <1>2, <1>5, <3>1, <3>2 DEF IInv, TypeOK
  <2>5. StreamsAhead'
    BY <1>1, <1>3, <2>2, <2>3 DEF StreamsAhead
  <2>6. SlotsFilled'
    BY <1>1, <2>3 DEF IInv, SlotsFilled, Full
  <2>7. RowsReported'
    BY <1>1, <2>3 DEF IInv, RowsReported
  <2>8. WaitingSamplesAreFresh'
    BY <1>1, <1>5, <2>2, <2>3 DEF IInv, TypeOK, WaitingSamplesAreFresh
  <2> QED
    BY <1>2, <1>4, <2>4, <2>5, <2>6, <2>7, <2>8 DEF IInv
<1>8. CASE ~(skip_slot /\ keep_data_slot = i) /\ got = 0
  <2>1. UNCHANGED <<cli_data, valid, reported>>
    BY <1>8 DEF ReadSlot
  <2>2. TypeOK'
    BY <1>1, <1>2, <1>5, <2>1 DEF IInv, TypeOK
  <2> QED
    BY <1>1, <1>2, <1>3, <1>4, <1>5, <2>1, <2>2
       DEF IInv, StreamsAhead, SlotsFilled, RowsReported, Full, WaitingSamplesAreFresh
<1> QED
  BY <1>6, <1>7, <1>8

(* The comparison of two samples: a row is added when the seconds agree,   *)
(* the newer sample is kept when they are adjacent, both are dropped else. *)
LEMMA MatchIInv ==
  ASSUME IInv, Match PROVE IInv'
<1> DEFINE a == cli_data[0]
           b == cli_data[1]
<1>1. CASE ~data_ready
  <2>1. UNCHANGED <<second, tpc, stream, conns, known, matchVars, reported, readfds, halt_sig>>
    BY <1>1 DEF Match, talkerVars
  <2>2. lpc' = "head" /\ lpc = "scan"
    BY DEF Match
  <2>3. SlotsFilled'
    BY <2>1, <2>2 DEF IInv, SlotsFilled, Full
  <2> QED
    BY <2>1, <2>2, <2>3, ControlStep DEF IInv, TypeOK, ListenerState
<1>2. CASE data_ready
  <2>1. /\ a \in Nat /\ b \in Nat /\ a \in reported[0] /\ b \in reported[1]
        /\ \A k \in DOMAIN rows : rows[k] < a /\ rows[k] < b
        /\ 0 \in Slot /\ 1 \in Slot
    BY <1>2 DEF data_ready, IInv, TypeOK, Slot, WaitingSamplesAreFresh
  <2>2. /\ UNCHANGED <<second, tpc, stream, conns, known, reported, readfds, halt_sig>>
        /\ lpc = "scan" /\ lpc' = "head"
        /\ valid' = [i \in Slot |-> FALSE] /\ cli_data' = [i \in Slot |-> 0]
    BY <1>2 DEF Match, reset_data_ready, talkerVars
  <2>3. \/ /\ a = b /\ rows' = Append(rows, a) /\ skip_slot' = FALSE
           /\ keep_data_slot' = keep_data_slot /\ keep_data' = 0
        \/ /\ rows' = rows /\ skip_slot' = TRUE /\ keep_data_slot' = 0 /\ keep_data' = a
        \/ /\ rows' = rows /\ skip_slot' = TRUE /\ keep_data_slot' = 1 /\ keep_data' = b
        \/ /\ rows' = rows /\ skip_slot' = FALSE
           /\ keep_data_slot' = keep_data_slot /\ keep_data' = 0
    <3> DEFINE e == a - b
    <3>1. e \in Int /\ (e = 0 <=> a = b)
      BY <2>1
    <3>2. Compare(e)
      BY <1>2 DEF Match
    <3> HIDE DEF e
    <3>3. /\ skip_slot' = (e = 1 \/ e = -1)
          /\ keep_data_slot' = IF e = 1 THEN 0 ELSE IF e = -1 THEN 1 ELSE keep_data_slot
          /\ keep_data' = IF e = 1 THEN a ELSE IF e = -1 THEN b ELSE 0
          /\ rows' = IF e = 0 THEN Append(rows, a) ELSE rows
      BY <3>2, Zenon DEF Compare
    <3> HIDE DEF a, b
    <3>4. CASE e = 1
      <4>1. e # 0
        BY <3>4
      <4> QED
        BY <3>3, <3>4, <4>1, Zenon
    <3>5. CASE e = -1
      <4>1. e # 0 /\ e # 1
        BY <3>5
      <4> QED
        BY <3>3, <3>5, <4>1, Zenon
    <3>6. CASE e = 0
      <4>1. e # 1 /\ e # -1
        BY <3>6
      <4> QED
        BY <3>1, <3>3, <3>6, <4>1, Zenon
    <3>7. CASE e # 1 /\ e # -1 /\ e # 0
      BY <3>3, <3>7, Zenon
    <3> QED
      BY <3>4, <3>5, <3>6, <3>7, Zenon
  <2>4. /\ rows \in Seq(Nat) /\ DOMAIN rows = 1 .. Len(rows) /\ Len(rows) \in Nat
        /\ \A k \in 1 .. Len(rows) : rows[k] \in Nat
    BY SeqFacts DEF IInv, TypeOK
  <2>5. /\ Append(rows, a) \in Seq(Nat) /\ DOMAIN Append(rows, a) = 1 .. Len(rows) + 1
        /\ Len(Append(rows, a)) = Len(rows) + 1
        /\ \A k \in 1 .. Len(rows) : Append(rows, a)[k] = rows[k]
        /\ Append(rows, a)[Len(rows) + 1] = a
        /\ \A k \in 1 .. Len(rows) + 1 : k \in 1 .. Len(rows) \/ k = Len(rows) + 1
    BY <2>1, <2>4, AppendFacts, SeqFacts
  <2> HIDE DEF a, b
  <2>6. TypeOK'
    <3>1. rows' \in Seq(Nat) /\ skip_slot' \in BOOLEAN
      BY <2>3, <2>4, <2>5
    <3>2. keep_data_slot' \in Slot /\ keep_data' \in Nat
      BY <2>1, <2>3 DEF IInv, TypeOK
    <3>3. valid' \in [Slot -> BOOLEAN] /\ cli_data' \in [Slot -> Nat]
      BY <2>2
    <3> QED
      BY <2>2, <3>1, <3>2, <3>3 DEF IInv, TypeOK, ListenerState
  <2>7. StreamsIncreasing' /\ StreamsAhead'
    BY <2>2 DEF IInv, StreamsIncreasing, StreamsAhead
  <2>8. SlotsFilled'
    BY <2>2 DEF IInv, SlotsFilled, Full
  <2>9. RowsReported'
    <3>1. CASE rows' = rows
      BY <2>2, <3>1 DEF IInv, RowsReported
    <3>2. CASE a = b /\ rows' = Append(rows, a)
      <4> SUFFICES ASSUME NEW k \in 1 .. Len(rows) + 1, NEW i \in Slot
                   PROVE  Append(rows, a)[k] \in reported[i]
        BY <2>2, <2>5, <3>2 DEF RowsReported
      <4>1. a \in reported[i]
        BY <2>1, <3>2 DEF Slot
      <4> QED
        BY <2>5, <4>1 DEF IInv, RowsReported
    <3> QED
      BY <2>3, <3>1, <3>2
  <2>10. RowsIncreasing'
    <3>1. CASE rows' = rows
      BY <3>1 DEF IInv, RowsIncreasing
    <3>2. CASE rows' = Append(rows, a)
      <4> SUFFICES ASSUME NEW j \in 1 .. Len(rows) + 1, NEW k \in 1 .. Len(rows) + 1, j < k
                   PROVE  Append(rows, a)[j] < Append(rows, a)[k]
        BY <2>5, <3>2 DEF RowsIncreasing
      <4>1. j \in 1 .. Len(rows)
        BY <2>4
      <4>2. CASE k \in 1 .. Len(rows)
        BY <2>4, <2>5, <4>1, <4>2 DEF IInv, RowsIncreasing
      <4>3. CASE k = Len(rows) + 1
        BY <2>1, <2>4, <2>5, <4>1, <4>3
      <4> QED
        BY <2>5, <4>2, <4>3
    <3> QED
      BY <2>3, <3>1, <3>2
  <2>11. WaitingSamplesAreFresh'
    BY <2>1, <2>2, <2>3 DEF WaitingSamplesAreFresh
  <2> QED
    BY <2>6, <2>7, <2>8, <2>9, <2>10, <2>11 DEF IInv
<1> QED
  BY <1>1, <1>2

(***************************************************************************)
(* The theorems.                                                           *)
(***************************************************************************)

(* IInv holds in every state the listener and its talkers reach.           *)
THEOREM Inductive == Spec => []IInv
<1>1. Init => IInv
  BY InitIInv
<1>2. IInv /\ [Next]_vars => IInv'
  BY TalkerConnectIInv, TalkerSampleIInv, ControlIInv, AcceptIInv, ReadUidIInv,
     ReadSlotIInv, MatchIInv, Zenon DEF Next, Talker, Listener
<1> QED
  BY <1>1, <1>2, PTL DEF Spec

(* Every variable keeps its type.                                          *)
THEOREM TypeCorrect == Spec => []TypeOK
BY Inductive, PTL DEF IInv

(* Rows of listener()'s output file never repeat a second or go back.      *)
THEOREM Increasing == Spec => []RowsIncreasing
BY Inductive, PTL DEF IInv

(* Samples waiting in cli_data or keep_data are newer than every row.      *)
THEOREM Fresh == Spec => []WaitingSamplesAreFresh
BY Inductive, PTL DEF IInv

(* Steps of the listener are steps of AlignedSeconds: a stored sample is a *)
(* Report, a row a Record, all others stutter.                             *)
LEMMA StepRefines ==
  ASSUME IInv, [Next]_vars PROVE [Abs!AbsNext]_(Abs!absVars)
<1> USE DEF Abs!absVars
<1>1. ASSUME NEW i \in Slot, ReadSlot(i) PROVE [Abs!AbsNext]_(Abs!absVars)
  <2>1. UNCHANGED rows
    BY <1>1, ReadSlotConnected
  <2>2. CASE reported' = reported
    BY <2>1, <2>2
  <2>3. CASE reported' # reported
    <3> DEFINE got == Sample(stream[conns[i]])
    <3>1. got # 0 /\ reported' = [reported EXCEPT ![i] = @ \cup {got}]
      BY <1>1, <2>3 DEF ReadSlot
    <3>2. got \in Nat
      BY <1>1, <3>1, SampleIsFresh
    <3> HIDE DEF got
    <3>3. got \in reported'[i]
      BY <3>1 DEF IInv, TypeOK
    <3> QED
      BY <2>1, <3>1, <3>2, <3>3 DEF Abs!AbsNext, Abs!Report
  <2> QED
    BY <2>2, <2>3
<1>2. ASSUME Match PROVE [Abs!AbsNext]_(Abs!absVars)
  <2>1. reported' = reported
    BY <1>2 DEF Match
  <2>2. CASE rows' = rows
    BY <2>1, <2>2
  <2>3. CASE rows' # rows
    <3>1. /\ \A i \in Slot : valid[i]
          /\ cli_data[0] - cli_data[1] = 0 /\ rows' = Append(rows, cli_data[0])
      BY <1>2, <2>3 DEF Match, Compare, data_ready, matchVars
    <3>2. cli_data[0] = cli_data[1] /\ 0 \in Slot /\ 1 \in Slot
      BY <3>1 DEF IInv, TypeOK, Slot
    <3>3. /\ \A i \in Slot : cli_data[0] \in reported[i]
          /\ \A k \in DOMAIN rows : rows[k] < cli_data[0]
      BY <3>1, <3>2 DEF IInv, WaitingSamplesAreFresh, Slot
    <3>4. Abs!Record(cli_data[0])
      BY <2>1, <3>1, <3>3 DEF Abs!Record
    <3> QED
      BY <3>2, <3>3, <3>4 DEF Abs!AbsNext
  <2> QED
    BY <2>2, <2>3
<1>3. CASE UNCHANGED <<rows, reported>>
  BY <1>3
<1>4. ASSUME NEW t \in Talkers, TalkerConnect(t) \/ TalkerSample(t) \/ TalkerExit(t) \/ Accept(t)
      PROVE  UNCHANGED <<rows, reported>>
  BY <1>4 DEF TalkerConnect, TalkerSample, TalkerExit, Accept, listenerVars, matchVars
<1>5. ASSUME NEW i \in Slot, ReadUid(i) \/ SocketFails(i)
      PROVE  UNCHANGED <<rows, reported>>
  BY <1>5 DEF ReadUid, SocketFails, matchVars
<1>6. ASSUME \/ AcceptHead \/ AcceptFails \/ SendStart \/ LoopHead \/ Select
             \/ ScanHalted \/ Signal \/ SignalInLock \/ UNCHANGED vars
      PROVE  UNCHANGED <<rows, reported>>
  BY <1>6 DEF AcceptHead, AcceptFails, SendStart, LoopHead, Select, ScanHalted,
              Signal, SignalInLock, vars, matchVars
<1> QED
  BY <1>1, <1>2, <1>3, <1>4, <1>5, <1>6, Zenon DEF Next, Talker, Listener

(* The listener implements AlignedSeconds: whatever the talkers, the       *)
(* framing of their streams and the signals, the file is a growing list of *)
(* seconds that both connections reported.                                 *)
THEOREM Refinement == Spec => ImplementsAlignedSeconds
<1>1. Init => Abs!AbsInit
  BY DEF Init, Abs!AbsInit
<1>2. IInv /\ [Next]_vars => [Abs!AbsNext]_(Abs!absVars)
  BY StepRefines
<1> QED
  BY <1>1, <1>2, Inductive, PTL DEF Spec, ImplementsAlignedSeconds, Abs!AbsSpec
=============================================================================
