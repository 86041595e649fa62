----------------------------- MODULE XdpTxProofs -----------------------------
(***************************************************************************)
(* XdpTx for every ring size, every driver that holds fewer frames than a  *)
(* ring, and any number of packets.                                        *)
(*                                                                         *)
(* The argument has three layers.  Core is inductive by itself: types, the *)
(* account that outstanding_tx keeps, and where the frames are.  On top of *)
(* it Faithful relates the frames still to be sent to the numbers the      *)
(* thread wrote, and Polled says what polling adds.                        *)
(***************************************************************************)
EXTENDS XdpTx, RingLemmas

(* The thread is inside the loop body.                                     *)
Sending == pc \in {"poll", "fill", "reserve", "kick"}

(* No packet beyond the last, and while one is in hand one is left.        *)
Counting == Sending => i < FramesToSend + Flush

(* outstanding_tx is what the process has posted and not seen completed.   *)
(* It grows only when update_txstats finds no completion, and then all of  *)
(* it is in the tx ring or with the driver.                                *)
Counted == /\ outstanding_tx = txLen + nicLen + compLen
           /\ nicLen + compLen <= N
           /\ pc \notin {"kick", "exited"} => outstanding_tx <= N + NicCap
           /\ outstanding_tx <= N + NicCap + 1

(* Driver and tx ring are consecutive arcs that end at cur_tx.             *)
Aligned == /\ txHead = Wrap(nicHead + nicLen)
           /\ cur_tx = Wrap(txHead + txLen)

InNic(s) == Dist(nicHead, s) < nicLen
InPlace == \A s \in Slot : /\ InTx(s) => tx[s] = s
                           /\ InNic(s) => nic[s] = s

(* Only received packets spoil frames.                                     *)
Untouched == received = 0 => \A s \in Slot : umem[s] # Foreign

(* The slot the driver puts on the wire next, and how many numbers of      *)
(* wanted are still to follow: the unsent ones and one that is written but *)
(* not posted.                                                             *)
First == Wrap(nicHead + read)
ToCome == Unsent + IF pc = "reserve" THEN 1 ELSE 0

Holds(s, k) == umem[s] = wanted[k] \/ (umem[s] = Foreign /\ received > 0)
Faithful ==
  ~overrun => /\ ToCome <= N
              /\ Len(wanted) = Len(wire) + ToCome
              /\ \A s \in Slot : Dist(First, s) < ToCome
                                   => Holds(s, Len(wire) + 1 + Dist(First, s))

(* With polling the tx ring holds rising numbers below the next one, and   *)
(* the frame that is written is not in the ring.                           *)
Rising ==
  enable_poll /\ received = 0 =>
    \A s, t \in Slot : InTx(s) /\ InTx(t) /\ Dist(txHead, s) < Dist(txHead, t)
                          => umem[s] < umem[t]
Polled ==
  enable_poll /\ received = 0 =>
    /\ pc \in {"fill", "reserve"} => txLen < N
    /\ pc = "reserve" => umem[cur_tx] = i
    /\ \A s \in Slot : /\ InTx(s) => umem[s] <= i
                       /\ InTx(s) /\ pc \notin {"kick", "exited"} => umem[s] < i

Core == TypeOK /\ Counting /\ Counted /\ Aligned /\ InPlace /\ Untouched

----------------------------------------------------------------------------
(* Init establishes every part.                                            *)
LEMMA InitAll == Init => Core /\ WireFaithful /\ Faithful /\ Polled /\ Rising
<1> SUFFICES ASSUME Init
             PROVE  Core /\ WireFaithful /\ Faithful /\ Polled /\ Rising
  OBVIOUS
<1> USE NAssumption, NicAssumption, CountAssumption DEF Init
<1>1. TypeOK
  <2>1. 0 \in Slot /\ 0 \in 0 .. N /\ 0 \in 0 .. NicCap /\ 0 \in 0 .. FramesToSend + Flush
    BY DEF Slot
  <2>2. umem \in [Slot -> Content] /\ tx \in [Slot -> Slot] /\ nic \in [Slot -> Slot]
    BY <2>1 DEF Content
  <2>3. wanted \in Seq(Nat) /\ wire \in Seq(Content)
    OBVIOUS
  <2> QED
    BY <2>1, <2>2, <2>3 DEF TypeOK
<1>2. Counting /\ Counted /\ Aligned /\ Untouched
  BY DEF Counting, Sending, Counted, Aligned, Wrap, Untouched, Template, Foreign
<1>3. \A s \in Slot : Dist(0, s) \in Nat /\ ~(Dist(0, s) < 0)
  BY DEF Dist, Slot
<1>4. InPlace
  BY <1>3 DEF InPlace, InTx, InNic
<1>5. ToCome = 0 /\ First = 0
  BY DEF ToCome, Unsent, First, Wrap
<1>6. WireFaithful /\ Faithful
  BY <1>3, <1>5 DEF WireFaithful, Faithful
<1>7. Polled /\ Rising
  BY <1>3 DEF Polled, Rising, InTx, Template, Foreign
<1> QED
  BY <1>1, <1>2, <1>4, <1>6, <1>7 DEF Core

----------------------------------------------------------------------------
(* The core, for the steps of the driver.                                  *)

(* The tx arc loses its first slot, the driver's arc gains it.             *)
LEMMA TakesCore == Core /\ DriverTakes => Core'
<1> SUFFICES ASSUME Core, DriverTakes PROVE Core'
  OBVIOUS
<1> USE NAssumption, NicAssumption DEF Core, DriverTakes, countVars
<1>1. /\ nicHead \in Slot /\ nicLen \in 0 .. N - 1 /\ nicLen + 1 \in 0 .. NicCap
      /\ txHead \in Slot /\ txLen \in 1 .. N
      /\ tx \in [Slot -> Slot] /\ nic \in [Slot -> Slot]
  BY DEF TypeOK
<1>2. Wrap(nicHead + nicLen) = txHead
  BY DEF Aligned
<1>3. tx[txHead] = txHead
  <2>1. Dist(txHead, txHead) = 0
    BY <1>1 DEF Dist, Slot
  <2> QED
    BY <1>1, <2>1 DEF InPlace, InTx
<1>4. nic' = [nic EXCEPT ![txHead] = txHead]
  BY <1>2, <1>3
<1>5. /\ Wrap(txHead + 1) \in Slot
      /\ Wrap(Wrap(txHead + 1) + (txLen - 1)) = Wrap(txHead + txLen)
      /\ \A s \in Slot : Dist(Wrap(txHead + 1), s) < txLen - 1 => Dist(txHead, s) < txLen
  BY <1>1, ArcShrinks
<1>6. /\ Wrap(txHead + 1) = Wrap(nicHead + (nicLen + 1))
      /\ \A s \in Slot : Dist(nicHead, s) < nicLen + 1 => Dist(nicHead, s) < nicLen \/ s = txHead
  BY <1>1, <1>2, ArcGrows
<1>7. TypeOK'
  <2>1. nic' \in [Slot -> Slot]
    BY <1>1, <1>4
  <2>2. nicLen' \in 0 .. NicCap /\ txLen' \in 0 .. N /\ read' \in 0 .. nicLen'
    BY <1>1 DEF TypeOK
  <2> QED
    BY <1>5, <2>1, <2>2 DEF TypeOK
<1>8. Counting' /\ Counted' /\ Untouched'
  BY <1>1 DEF Counting, Sending, Counted, TypeOK, Untouched
<1>9. Aligned'
  BY <1>5, <1>6 DEF Aligned
<1>10. InPlace'
  <2> SUFFICES ASSUME NEW s \in Slot
               PROVE  /\ Dist(txHead', s) < txLen' => tx[s] = s
                      /\ Dist(nicHead, s) < nicLen' => nic'[s] = s
    BY DEF InPlace, InTx, InNic, Dist
  <2>1. Dist(txHead', s) < txLen' => tx[s] = s
    BY <1>5 DEF InPlace, InTx
  <2>2. CASE s = txHead
    BY <1>1, <1>4, <2>1, <2>2
  <2>3. CASE s # txHead
    BY <1>1, <1>4, <1>6, <2>1, <2>3 DEF InPlace, InNic
  <2> QED
    BY <2>2, <2>3
<1> QED
  BY <1>7, <1>8, <1>9, <1>10

(* A frame goes on the wire: only read and wire change.                    *)
LEMMA SendsCore == Core /\ DriverSends => Core'
<1> SUFFICES ASSUME Core, DriverSends PROVE Core'
  OBVIOUS
<1> USE NAssumption, NicAssumption DEF Core, DriverSends, countVars
<1>1. Wrap(nicHead + read) \in Slot
  <2>1. nicHead \in Slot /\ read \in 0 .. N
    BY DEF TypeOK
  <2> QED
    BY <2>1, WrapValue
<1>2. umem[nic[Wrap(nicHead + read)]] \in Content
  BY <1>1 DEF TypeOK
<1>3. wire' \in Seq(Content) /\ read' \in 0 .. nicLen
  BY <1>2 DEF TypeOK
<1>4. TypeOK'
  BY <1>3 DEF TypeOK
<1>5. Counting' /\ Counted' /\ Aligned' /\ InPlace' /\ Untouched'
  BY DEF Counting, Sending, Counted, Untouched, Aligned, InPlace, InTx, InNic, Dist, Wrap
<1> QED
  BY <1>4, <1>5

(* The driver's arc loses its first slot.                                  *)
LEMMA CompletesCore == Core /\ DriverCompletes => Core'
<1> SUFFICES ASSUME Core, DriverCompletes PROVE Core'
  OBVIOUS
<1> USE NAssumption, NicAssumption DEF Core, DriverCompletes, countVars
<1>1. nicHead \in Slot /\ nicLen \in 1 .. N
  BY DEF TypeOK
<1>2. /\ Wrap(nicHead + 1) \in Slot
      /\ Wrap(Wrap(nicHead + 1) + (nicLen - 1)) = Wrap(nicHead + nicLen)
      /\ \A s \in Slot : Dist(Wrap(nicHead + 1), s) < nicLen - 1 => Dist(nicHead, s) < nicLen
  BY <1>1, ArcShrinks
<1>3. TypeOK' /\ Counting' /\ Counted' /\ Untouched'
  BY <1>1, <1>2 DEF TypeOK, Untouched, Counting, Sending, Counted
<1>4. Aligned'
  BY <1>2 DEF Aligned, Wrap
<1>5. InPlace'
  BY <1>2 DEF InPlace, InTx, InNic, Dist
<1> QED
  BY <1>3, <1>4, <1>5

(* A received packet changes the contents of a frame and nothing else.     *)
LEMMA ReceivesCore == Core /\ DriverReceives => Core'
<1> SUFFICES ASSUME Core, DriverReceives PROVE Core'
  OBVIOUS
<1> USE NAssumption, NicAssumption DEF Core, DriverReceives, countVars
<1>1. umem' \in [Slot -> Content]
  BY DEF TypeOK, Content
<1>2. TypeOK'
  BY <1>1 DEF TypeOK
<1>3. Counting' /\ Counted' /\ Aligned' /\ InPlace' /\ Untouched'
  BY DEF TypeOK, Untouched, Counting, Sending, Counted, Aligned, InPlace, InTx, InNic, Dist, Wrap
<1> QED
  BY <1>2, <1>3

----------------------------------------------------------------------------
(* The core, for the steps of the thread.                                  *)

(* Steps that move only the program counter, the loop's count or a         *)
(* frame's contents.                                                       *)
LEMMA QuietCore ==
  ASSUME Core, LoopHead \/ Poll \/ Fill \/ ReserveFails \/ KickFails \/ Signal
  PROVE  Core'
<1> USE NAssumption, NicAssumption, CountAssumption DEF Core, ringVars, countVars
<1>1. /\ UNCHANGED <<tx, txHead, txLen, nic, nicHead, nicLen, read, compLen, received>>
      /\ UNCHANGED <<cur_tx, outstanding_tx, enable_poll>>
  BY DEF LoopHead, Poll, Fill, ReserveFails, KickFails, Signal
<1>2. Aligned' /\ InPlace'
  BY <1>1 DEF Aligned, InPlace, InTx, InNic, Dist, Wrap
<1>3. Counted'
  BY <1>1 DEF Counted, LoopHead, Poll, Fill, ReserveFails, KickFails, Signal
<1>4. Counting'
  BY DEF TypeOK, Counting, Sending, LoopHead, Poll, Fill, ReserveFails, KickFails, Signal
<1>5. TypeOK'
  <2>1. i' \in 0 .. FramesToSend + Flush
    BY DEF TypeOK, Counting, Sending, LoopHead, Poll, Fill, ReserveFails, KickFails, Signal
  <2>2. umem' \in [Slot -> Content] /\ wanted' \in Seq(Nat) /\ overrun' \in BOOLEAN
    <3>1. CASE Fill
      <4>1. i \in Nat /\ i \in Content /\ Foreign \in Content
        BY DEF TypeOK, Content
      <4>2. umem' \in [Slot -> Content]
        BY <3>1, <4>1 DEF Fill, TypeOK
      <4>3. wanted' \in Seq(Nat)
        BY <3>1, <4>1 DEF Fill, TypeOK
      <4>4. overrun' \in BOOLEAN
        BY <3>1 DEF Fill, TypeOK
      <4> QED
        BY <4>2, <4>3, <4>4
    <3>2. CASE ~Fill
      BY <3>2 DEF TypeOK, LoopHead, Poll, ReserveFails, KickFails, Signal
    <3> QED
      BY <3>1, <3>2
  <2>3. pc' \in {"loop", "poll", "fill", "reserve", "kick", "last", "exited"}
    BY DEF TypeOK, LoopHead, Poll, Fill, ReserveFails, KickFails, Signal
  <2>4. halt_tx_sig' \in BOOLEAN /\ wire' = wire
    BY DEF TypeOK, LoopHead, Poll, Fill, ReserveFails, KickFails, Signal
  <2> QED
    BY <1>1, <2>1, <2>2, <2>3, <2>4 DEF TypeOK
<1>6. Untouched'
  <2>1. CASE Fill
    <3>1. i # Foreign
      BY DEF TypeOK, Foreign
    <3> QED
      BY <1>1, <2>1, <3>1 DEF Fill, Untouched, TypeOK
  <2>2. CASE ~Fill
    BY <1>1, <2>2 DEF Untouched, LoopHead, Poll, ReserveFails, KickFails, Signal
  <2> QED
    BY <2>1, <2>2
<1> QED
  BY <1>2, <1>3, <1>4, <1>5, <1>6

(* The tx arc gains the slot at its end, which is cur_tx.                  *)
LEMMA SubmitCore == Core /\ Submit => Core'
<1> SUFFICES ASSUME Core, Submit PROVE Core'
  OBVIOUS
<1> USE NAssumption, NicAssumption DEF Core, Submit
<1>1. /\ txHead \in Slot /\ txLen \in 0 .. N - 1 /\ cur_tx \in Slot
      /\ tx \in [Slot -> Slot]
  BY DEF TypeOK
<1>2. Wrap(txHead + txLen) = cur_tx
  BY DEF Aligned
<1>3. tx' = [tx EXCEPT ![cur_tx] = cur_tx]
  BY <1>2
<1>4. /\ Wrap(cur_tx + 1) = Wrap(txHead + (txLen + 1))
      /\ \A s \in Slot : Dist(txHead, s) < txLen + 1 => Dist(txHead, s) < txLen \/ s = cur_tx
  BY <1>1, <1>2, ArcGrows
<1>5. cur_tx' \in Slot
  BY <1>1, WrapValue DEF NextFrame
<1>6. TypeOK'
  <2>1. tx' \in [Slot -> Slot]
    BY <1>1, <1>3
  <2>2. txLen' \in 0 .. N /\ outstanding_tx' \in Nat
    BY <1>1 DEF TypeOK
  <2> QED
    BY <1>5, <2>1, <2>2 DEF TypeOK
<1>7. Counting' /\ Counted' /\ Untouched'
  BY <1>1 DEF Counting, Sending, Counted, TypeOK, Untouched
<1>8. Aligned'
  BY <1>4 DEF Aligned, NextFrame, Wrap
<1>9. InPlace'
  <2> SUFFICES ASSUME NEW s \in Slot
               PROVE  /\ Dist(txHead, s) < txLen' => tx'[s] = s
                      /\ InNic(s) => nic[s] = s
    BY DEF InPlace, InTx, InNic, Dist
  <2>1. InNic(s) => nic[s] = s
    BY DEF InPlace
  <2>2. CASE s = cur_tx
    BY <1>1, <1>3, <2>1, <2>2
  <2>3. CASE s # cur_tx
    BY <1>1, <1>3, <1>4, <2>1, <2>3 DEF InPlace, InTx
  <2> QED
    BY <2>2, <2>3
<1> QED
  BY <1>6, <1>7, <1>8, <1>9

(* update_txstats keeps the account and brings it down to N + NicCap: when *)
(* it finds no completion, all that is outstanding is in the tx ring or    *)
(* with the driver.                                                        *)
LEMMA StatsCore == Core /\ (Kick \/ Cleanup) => Core'
<1> SUFFICES ASSUME Core, Kick \/ Cleanup PROVE Core'
  OBVIOUS
<1> USE NAssumption, NicAssumption, CountAssumption DEF Core
<1>1. /\ UNCHANGED <<umem, tx, txHead, txLen, nic, nicHead, nicLen, read, received>>
      /\ UNCHANGED <<cur_tx, enable_poll, halt_tx_sig, wanted, wire, overrun>>
      /\ pc' \in {"loop", "exited"}
      /\ update_txstats
  BY DEF Kick, Cleanup
<1>2. Aligned' /\ InPlace' /\ Untouched'
  BY <1>1 DEF Aligned, InPlace, InTx, InNic, Dist, Wrap, Untouched
<1>3. Counted' /\ compLen' \in 0 .. N /\ outstanding_tx' \in Nat
  BY <1>1 DEF Counted, update_txstats, TypeOK
<1>4. i' \in 0 .. FramesToSend + Flush
  BY DEF Kick, Cleanup, TypeOK, Counting, Sending
<1>5. TypeOK'
  BY <1>1, <1>3, <1>4 DEF TypeOK
<1>6. Counting'
  BY <1>1 DEF Counting, Sending
<1> QED
  BY <1>2, <1>3, <1>5, <1>6

(* The core holds in every reachable state.                                *)
THEOREM CoreInductive == Spec => []Core
<1>1. Core /\ [Next]_vars => Core'
  <2> SUFFICES ASSUME Core, [Next]_vars PROVE Core'
    OBVIOUS
  <2>1. CASE Sender
    BY <2>1, QuietCore, SubmitCore, StatsCore DEF Sender
  <2>2. CASE Driver
    BY <2>2, TakesCore, SendsCore, CompletesCore, ReceivesCore DEF Driver
  <2>3. CASE Signal
    BY <2>3, QuietCore
  <2>4. CASE UNCHANGED vars
    BY <2>4 DEF vars, ringVars, countVars, Core, TypeOK, Counting, Sending, Counted,
                Aligned, InPlace, InTx, InNic, Dist, Wrap, Untouched
  <2> QED
    BY <2>1, <2>2, <2>3, <2>4 DEF Next, Exited
<1> QED
  BY <1>1, InitAll, PTL DEF Spec

(* Every variable keeps its type: ring positions stay on the ring, no ring *)
(* overflows, the loop sends no packet too many.                           *)
THEOREM TypeCorrect == Spec => []TypeOK
BY CoreInductive, PTL DEF Core

(* A driver that holds fewer frames than a ring never finds tx and         *)
(* completion ring both full when the thread fails to reserve.             *)
THEOREM Unstuck == Spec => []NeverStuck
<1>1. Core => NeverStuck
  BY NAssumption, NicAssumption DEF Core, Counted, TypeOK, NeverStuck
<1> QED
  BY <1>1, CoreInductive, PTL

----------------------------------------------------------------------------
(* What goes on the wire.                                                  *)

(* The frame written by Fill is the first one after those still unsent.    *)
LEMMA CurTxFollows ==
  ASSUME Core, Unsent < N
  PROVE  /\ First \in Slot /\ Unsent \in Slot
         /\ cur_tx = Wrap(First + Unsent)
         /\ Dist(First, cur_tx) = Unsent
<1> USE NAssumption, NicAssumption DEF Core
<1>1. /\ nicHead \in Slot /\ read \in 0 .. N /\ nicLen \in 0 .. N /\ txLen \in 0 .. N
      /\ nicLen - read \in 0 .. N /\ read + (nicLen - read) = nicLen
  BY DEF TypeOK
<1>2. First \in Slot
  BY <1>1, WrapValue DEF First
<1>3. Unsent \in Slot /\ (nicLen - read) + txLen <= N
  BY <1>1 DEF Unsent, Slot
<1>4. Wrap(First + (nicLen - read)) = txHead
  BY <1>1, ArcsJoin DEF Aligned, First
<1>5. Wrap(First + ((nicLen - read) + txLen)) = cur_tx
  BY <1>1, <1>2, <1>3, <1>4, ArcsJoin DEF Aligned
<1>6. cur_tx = Wrap(First + Unsent)
  BY <1>5 DEF Unsent
<1> QED
  BY <1>2, <1>3, <1>6, DistOfWrap

(* Steps that leave contents, histories and the frames to come alone.      *)
LEMMA SameToCome ==
  ASSUME Faithful, WireFaithful, First' = First, ToCome' = ToCome,
         UNCHANGED <<umem, wanted, wire, received, overrun>>
  PROVE  Faithful' /\ WireFaithful'
BY DEF Faithful, WireFaithful, Holds, Dist

(* The next frame goes on the wire with the number that was wanted.        *)
LEMMA SendsFaithful ==
  ASSUME Core, Faithful, WireFaithful, DriverSends
  PROVE  Faithful' /\ WireFaithful'
<1> USE NAssumption, NicAssumption DEF Core, DriverSends, countVars
<1> SUFFICES ASSUME ~overrun PROVE Faithful' /\ WireFaithful'
  BY DEF Faithful, WireFaithful
<1>1. /\ nicHead \in Slot /\ read \in 0 .. N - 1 /\ First \in Slot
      /\ nicLen \in 0 .. N /\ txLen \in 0 .. N /\ read < nicLen
  <2>1. nicHead \in Slot /\ read \in 0 .. N - 1
    BY DEF TypeOK
  <2> QED
    BY <2>1, WrapValue DEF First, TypeOK
<1>2. nic[First] = First
  <2>1. read \in Slot
    BY <1>1 DEF Slot
  <2>2. Dist(nicHead, First) = read
    BY <1>1, <2>1, DistOfWrap DEF First
  <2> QED
    BY <1>1, <2>2 DEF InPlace, InNic
<1>3. First' = Wrap(First + 1) /\ First' \in Slot
  <2>1. First' = Wrap(First + 1)
    BY <1>1, ArcGrows DEF First
  <2>2. Wrap(First + 1) \in Slot
    BY <1>1, WrapValue
  <2> QED
    BY <2>1, <2>2
<1>4. ToCome \in 1 .. N /\ ToCome' = ToCome - 1
  BY <1>1 DEF ToCome, Unsent, Faithful
<1>5. /\ wire' = Append(wire, umem[First]) /\ wire \in Seq(Content) /\ wanted \in Seq(Nat)
      /\ Len(wanted) = Len(wire) + ToCome /\ Len(wire) \in Nat
      /\ umem[First] \in Content
  BY <1>1, <1>2 DEF First, TypeOK, Faithful
<1>6. Len(wire') = Len(wire) + 1 /\ wire'[Len(wire) + 1] = umem[First]
      /\ \A k \in 1 .. Len(wire) : wire'[k] = wire[k]
  BY <1>5
<1>7. Holds(First, Len(wire) + 1)
  <2>1. Dist(First, First) = 0
    BY <1>1 DEF Dist, Slot
  <2> QED
    BY <1>1, <1>4, <1>5, <2>1 DEF Faithful
<1>8. WireFaithful'
  <2>1. Len(wire') <= Len(wanted)
    BY <1>4, <1>5, <1>6
  <2>2. ASSUME NEW k \in 1 .. Len(wire')
        PROVE  wire'[k] = wanted[k] \/ (wire'[k] = Foreign /\ received > 0)
    <3>1. CASE k = Len(wire) + 1
      BY <1>6, <1>7, <3>1 DEF Holds
    <3>2. CASE k # Len(wire) + 1
      <4>1. k \in 1 .. Len(wire)
        BY <1>5, <1>6, <3>2
      <4> QED
        BY <1>6, <4>1 DEF WireFaithful
    <3> QED
      BY <3>1, <3>2
  <2> QED
    BY <2>1, <2>2 DEF WireFaithful
<1>9. Faithful'
  <2>1. ToCome' <= N /\ Len(wanted') = Len(wire') + ToCome'
    BY <1>4, <1>5, <1>6
  <2>2. ASSUME NEW s \in Slot, Dist(First', s) < ToCome'
        PROVE  Holds(s, Len(wire') + 1 + Dist(First', s))
    <3>1. Dist(First', s) \in Nat
      BY <1>3, DistNat
    <3>2. Dist(First, s) = Dist(First', s) + 1
      <4>1. Dist(Wrap(First + 1), s) < N - 1
        BY <1>3, <1>4, <2>2, <3>1
      <4> QED
        BY <1>1, <1>3, <4>1, DistStep
    <3>3. Dist(First, s) < ToCome
      BY <1>4, <2>2, <3>1, <3>2
    <3>4. Holds(s, Len(wire) + 1 + Dist(First, s))
      BY <3>3 DEF Faithful
    <3>5. Len(wire) + 1 + Dist(First, s) = Len(wire') + 1 + Dist(First', s)
      BY <1>5, <1>6, <3>1, <3>2
    <3> QED
      BY <3>4, <3>5
  <2>3. (\A s \in Slot : Dist(First, s) < ToCome => Holds(s, Len(wire) + 1 + Dist(First, s)))'
    BY <2>2 DEF Holds, Dist
  <2> QED
    BY <2>1, <2>3 DEF Faithful
<1> QED
  BY <1>8, <1>9

(* A received packet can only turn a frame into a foreign one.             *)
LEMMA ReceivesFaithful ==
  ASSUME Core, Faithful, WireFaithful, DriverReceives
  PROVE  Faithful' /\ WireFaithful'
<1> USE NAssumption, NicAssumption DEF Core, DriverReceives, countVars
<1>1. First' = First /\ ToCome' = ToCome /\ received' > 0 /\ received \in Slot
  BY DEF First, ToCome, Unsent, Wrap, TypeOK, Slot
<1>2. WireFaithful'
  BY <1>1 DEF WireFaithful, TypeOK
<1>3. ASSUME NEW s \in Slot, NEW k \in Nat, Holds(s, k) PROVE Holds(s, k)'
  <2>1. umem' = [umem EXCEPT ![received] = Foreign] /\ umem \in [Slot -> Content]
    BY DEF TypeOK
  <2> QED
    BY <1>1, <1>3, <2>1 DEF Holds
<1>4. Faithful'
  <2> SUFFICES ASSUME ~overrun, NEW s \in Slot, Dist(First, s) < ToCome
               PROVE  Holds(s, Len(wire) + 1 + Dist(First, s))'
    BY <1>1 DEF Faithful, Dist, Holds
  <2>1. Holds(s, Len(wire) + 1 + Dist(First, s))
    BY DEF Faithful
  <2>2. Len(wire) + 1 + Dist(First, s) \in Nat
    <3>1. Len(wire) \in Nat
      BY DEF TypeOK
    <3>2. nicHead \in Slot /\ read \in 0 .. N
      BY DEF TypeOK
    <3>3. Dist(First, s) \in Nat
      BY <3>2, WrapValue, DistNat DEF First
    <3> QED
      BY <3>1, <3>3
  <2>3. (First = First)' /\ Len(wire') = Len(wire) /\ First' = First
    BY <1>1
  <2> QED
    BY <1>3, <2>1, <2>2, <2>3 DEF Holds, Dist
<1> QED
  BY <1>2, <1>4

(* Without an overrun the written frame is none of the unsent ones and     *)
(* comes right after them.                                                 *)
LEMMA FillFaithful ==
  ASSUME Core, Faithful, WireFaithful, Fill
  PROVE  Faithful' /\ WireFaithful'
<1> USE NAssumption, NicAssumption DEF Core, Fill, ringVars, countVars
<1> SUFFICES ASSUME ~overrun' PROVE Faithful' /\ WireFaithful'
  BY DEF Faithful, WireFaithful
<1>1. ~overrun /\ Unsent < N
  <2>1. ~overrun /\ ~(Unsent >= N)
    OBVIOUS
  <2>2. Unsent \in Int
    BY DEF Unsent, TypeOK
  <2> QED
    BY <2>1, <2>2
<1>2. First \in Slot /\ Unsent \in Slot /\ Dist(First, cur_tx) = Unsent /\ cur_tx \in Slot
  BY <1>1, CurTxFollows DEF TypeOK
<1>3. First' = First /\ ToCome = Unsent /\ ToCome' = Unsent + 1
  <2>1. First' = First /\ Unsent' = Unsent
    BY DEF First, Unsent, Wrap
  <2>2. Unsent \in Int
    BY <1>2 DEF Slot
  <2> QED
    BY <2>1, <2>2 DEF ToCome
<1>4. /\ wanted \in Seq(Nat) /\ i \in Nat /\ wanted' = Append(wanted, i)
      /\ Len(wire) \in Nat /\ Len(wanted) = Len(wire) + Unsent
  BY <1>1, <1>3 DEF TypeOK, Faithful
<1>5. /\ Len(wanted') = Len(wanted) + 1 /\ wanted'[Len(wanted) + 1] = i
      /\ \A k \in 1 .. Len(wanted) : wanted'[k] = wanted[k]
  BY <1>4
<1>6. WireFaithful'
  <2>1. Len(wire) <= Len(wanted')
    BY <1>2, <1>4, <1>5 DEF Slot
  <2>2. ASSUME NEW k \in 1 .. Len(wire)
        PROVE  wire[k] = wanted'[k] \/ (wire[k] = Foreign /\ received > 0)
    <3>1. k \in 1 .. Len(wanted)
      BY <1>2, <1>4 DEF Slot
    <3> QED
      BY <1>1, <1>5, <3>1 DEF WireFaithful
  <2> QED
    BY <2>1, <2>2 DEF WireFaithful
<1>8. Faithful'
  <2>1. ToCome' <= N /\ Len(wanted') = Len(wire') + ToCome'
    BY <1>2, <1>3, <1>4, <1>5 DEF Slot
  <2>2. ASSUME NEW s \in Slot, Dist(First, s) < Unsent + 1
        PROVE  Holds(s, Len(wire) + 1 + Dist(First, s))'
    <3>1. CASE s = cur_tx
      <4>1. Len(wire) + 1 + Dist(First, s) = Len(wanted) + 1
        BY <1>2, <1>4, <3>1 DEF Slot
      <4>2. umem'[s] = i \/ (umem'[s] = Foreign /\ umem[s] = Foreign)
        BY <1>2, <3>1 DEF TypeOK
      <4>3. umem[s] = Foreign => received > 0
        BY DEF Untouched, TypeOK
      <4> QED
        BY <1>3, <1>5, <4>1, <4>2, <4>3 DEF Holds, Dist
    <3>2. CASE s # cur_tx
      <4>1. Dist(First, s) < Unsent
        <5>1. Unsent \in 0 .. N - 1 /\ cur_tx = Wrap(First + Unsent)
          BY <1>1, CurTxFollows DEF Slot
        <5> QED
          BY <1>2, <2>2, <3>2, <5>1, ArcGrows
      <4>2. Holds(s, Len(wire) + 1 + Dist(First, s))
        BY <1>1, <1>3, <4>1 DEF Faithful
      <4>3. Dist(First, s) \in Nat
        BY <1>2, DistNat
      <4>4. Len(wire) + 1 + Dist(First, s) \in 1 .. Len(wanted)
        BY <1>2, <1>4, <4>1, <4>3 DEF Slot
      <4>5. umem'[s] = umem[s]
        BY <3>2 DEF TypeOK
      <4> QED
        BY <1>3, <1>5, <4>2, <4>4, <4>5 DEF Holds, Dist
    <3> QED
      BY <3>1, <3>2
  <2> QED
    BY <1>3, <2>1, <2>2 DEF Faithful, Dist
<1> QED
  BY <1>6, <1>8

(* As long as nothing was overrun the wire carries the wanted numbers, for *)
(* every ring size and however driver and thread interleave.               *)
THEOREM Faithfulness == Spec => []WireFaithful
<1> DEFINE F == Faithful /\ WireFaithful
<1>1. Core /\ F /\ [Next]_vars => F'
  <2> SUFFICES ASSUME Core, Faithful, WireFaithful, [Next]_vars
               PROVE  Faithful' /\ WireFaithful'
    OBVIOUS
  <2> USE NAssumption, NicAssumption DEF Core
  <2>1. CASE DriverTakes
    <3>1. First' = First /\ ToCome' = ToCome
      BY <2>1 DEF DriverTakes, First, ToCome, Unsent, TypeOK, Wrap
    <3> QED
      BY <2>1, <3>1, SameToCome DEF DriverTakes
  <2>2. CASE DriverSends
    BY <2>2, SendsFaithful
  <2>3. CASE DriverCompletes
    <3>1. nicHead \in Slot /\ read \in 1 .. N
      BY <2>3 DEF DriverCompletes, TypeOK
    <3>2. First' = First
      BY <2>3, <3>1, ArcShrinks DEF DriverCompletes, First
    <3>3. ToCome' = ToCome
      BY <2>3 DEF DriverCompletes, ToCome, Unsent, TypeOK
    <3> QED
      BY <2>3, <3>2, <3>3, SameToCome DEF DriverCompletes
  <2>4. CASE DriverReceives
    BY <2>4, ReceivesFaithful
  <2>5. CASE Fill
    BY <2>5, FillFaithful
  <2>6. CASE ReserveFails
    <3>1. overrun
      BY <2>6 DEF ReserveFails, Faithful, ToCome, Unsent, TypeOK
    <3> QED
      BY <2>6, <3>1 DEF ReserveFails, Faithful, WireFaithful
  <2>7. CASE Submit
    <3>1. First' = First /\ ToCome' = ToCome
      BY <2>7 DEF Submit, First, ToCome, Unsent, TypeOK, Wrap
    <3> QED
      BY <2>7, <3>1, SameToCome DEF Submit
  <2>8. CASE LoopHead \/ Poll \/ Kick \/ KickFails \/ Cleanup \/ Signal \/ UNCHANGED vars
    <3>1. /\ UNCHANGED <<umem, wanted, wire, received, overrun>>
          /\ UNCHANGED <<nicHead, nicLen, read, txLen>>
          /\ pc' = "reserve" <=> pc = "reserve"
      BY <2>8 DEF LoopHead, Poll, Kick, KickFails, Cleanup, Signal, vars, ringVars
    <3>2. First' = First /\ ToCome' = ToCome
      BY <3>1 DEF First, ToCome, Unsent, Wrap
    <3> QED
      BY <3>1, <3>2, SameToCome
  <2> QED
    BY <2>1, <2>2, <2>3, <2>4, <2>5, <2>6, <2>7, <2>8 DEF Next, Sender, Driver, Exited
<1>2. Init => F
  BY InitAll
<1>3. F => WireFaithful
  OBVIOUS
<1> HIDE DEF F
<1> QED
  BY <1>1, <1>2, <1>3, CoreInductive, PTL DEF Spec

----------------------------------------------------------------------------
(* What polling adds.                                                      *)

(* Steps that leave the tx ring and the frames alone, and move the loop's  *)
(* count only forwards.                                                    *)
LEMMA SamePolled ==
  ASSUME Core, Polled, Rising,
         UNCHANGED <<umem, txHead, txLen, cur_tx, enable_poll, received>>,
         \/ pc' = pc /\ i' = i
         \/ pc' = "fill" /\ i' = i /\ pc # "exited" /\ pc # "kick" /\ (enable_poll => txLen < N)
         \/ pc' \notin {"fill", "reserve", "kick", "exited"} /\ i' = i + 1
         \/ /\ pc' \notin {"fill", "reserve"} /\ i' = i
            /\ pc' \in {"kick", "exited"} \/ pc \notin {"kick", "exited"}
  PROVE  Polled' /\ Rising'
<1> USE NAssumption, NicAssumption DEF Core
<1>1. Rising'
  BY DEF Rising, InTx, Dist
<1>2. \A s \in Slot : InTx(s)' <=> InTx(s)
  BY DEF InTx, Dist
<1>3. i \in Nat /\ \A s \in Slot : umem[s] \in Int
  BY DEF TypeOK, Content, Template, Foreign
<1>4. Polled'
  BY <1>2, <1>3 DEF Polled
<1> QED
  BY <1>1, <1>4

(* The ring loses its first entry.                                         *)
LEMMA TakesPolled ==
  ASSUME Core, Polled, Rising, DriverTakes
  PROVE  Polled' /\ Rising'
<1> USE NAssumption, NicAssumption DEF Core, DriverTakes, countVars
<1>1. txHead \in Slot /\ txLen \in 1 .. N /\ Wrap(txHead + 1) \in Slot
  <2>1. txHead \in Slot /\ txLen \in 1 .. N
    BY DEF TypeOK
  <2> QED
    BY <2>1, WrapValue
<1>2. ASSUME NEW s \in Slot, InTx(s)'
      PROVE  /\ InTx(s)
             /\ Dist(txHead, s) = Dist(txHead', s) + 1
             /\ Dist(txHead', s) \in Nat
  <2>1. Dist(Wrap(txHead + 1), s) < txLen - 1
    BY <1>2 DEF InTx, Dist
  <2>2. Dist(txHead', s) \in Nat
    BY <1>1, DistNat
  <2>3. Dist(Wrap(txHead + 1), s) < N - 1
    BY <1>1, <2>1, <2>2
  <2>4. Dist(txHead, s) = Dist(txHead', s) + 1
    BY <1>1, <2>3, DistStep
  <2> QED
    BY <1>1, <2>1, <2>2, <2>4 DEF InTx
<1>3. Polled'
  BY <1>1, <1>2 DEF Polled
<1>4. Rising'
  <2> SUFFICES ASSUME enable_poll, received = 0, NEW s \in Slot, NEW t \in Slot,
                      InTx(s)', InTx(t)', Dist(txHead', s) < Dist(txHead', t)
               PROVE  umem[s] < umem[t]
    BY DEF Rising, Dist
  <2>1. InTx(s) /\ InTx(t) /\ Dist(txHead, s) < Dist(txHead, t)
    BY <1>2
  <2> QED
    BY <2>1 DEF Rising
<1> QED
  BY <1>3, <1>4

(* The frame that is written is not in the ring.                           *)
LEMMA FillPolled ==
  ASSUME Core, Polled, Rising, Fill
  PROVE  Polled' /\ Rising'
<1> USE NAssumption, NicAssumption DEF Core, Fill, ringVars, countVars
<1> SUFFICES ASSUME enable_poll, received = 0 PROVE Polled' /\ Rising'
  BY DEF Polled, Rising
<1>1. txHead \in Slot /\ txLen \in Slot /\ cur_tx \in Slot /\ i \in Nat
  BY DEF TypeOK, Polled, Slot
<1>2. Dist(txHead, cur_tx) = txLen
  BY <1>1, DistOfWrap DEF Aligned
<1>3. \A s \in Slot : InTx(s) => s # cur_tx
  <2>1. ~(txLen < txLen)
    BY <1>1 DEF Slot
  <2> QED
    BY <1>2, <2>1 DEF InTx
<1>4. umem' = [umem EXCEPT ![cur_tx] = i] /\ umem \in [Slot -> Content]
  BY <1>1 DEF Untouched, TypeOK
<1>5. umem'[cur_tx] = i /\ \A s \in Slot : InTx(s) => umem'[s] = umem[s]
  BY <1>1, <1>3, <1>4
<1>6. \A s \in Slot : InTx(s)' <=> InTx(s)
  BY DEF InTx, Dist
<1>7. Polled'
  BY <1>5, <1>6 DEF Polled
<1>8. Rising'
  BY <1>5, <1>6 DEF Rising, Dist
<1> QED
  BY <1>7, <1>8

(* The new last entry has the largest number.                              *)
LEMMA SubmitPolled ==
  ASSUME Core, Polled, Rising, Submit
  PROVE  Polled' /\ Rising'
<1> USE NAssumption, NicAssumption DEF Core, Submit
<1> SUFFICES ASSUME enable_poll, received = 0 PROVE Polled' /\ Rising'
  BY DEF Polled, Rising
<1>1. txHead \in Slot /\ txLen \in Slot /\ cur_tx \in Slot /\ i \in Nat
  BY DEF TypeOK, Slot
<1>2. Dist(txHead, cur_tx) = txLen /\ umem[cur_tx] = i
  BY <1>1, DistOfWrap DEF Aligned, Polled
<1>3. \A s \in Slot : InTx(s)' => InTx(s) \/ s = cur_tx
  <2>1. txLen \in 0 .. N - 1 /\ cur_tx = Wrap(txHead + txLen)
    BY <1>1 DEF Slot, Aligned
  <2>2. \A s \in Slot : Dist(txHead, s) < txLen + 1 => Dist(txHead, s) < txLen \/ s = cur_tx
    BY <1>1, <2>1, ArcGrows
  <2> QED
    BY <2>2 DEF InTx, Dist
<1>4. \A s \in Slot : umem[s] \in Int /\ Dist(txHead, s) \in Nat
  <2>1. \A s \in Slot : umem[s] \in Int
    BY DEF TypeOK, Content, Template, Foreign
  <2>2. \A s \in Slot : Dist(txHead, s) \in Nat
    BY <1>1, DistNat
  <2> QED
    BY <2>1, <2>2
<1>5. Polled'
  BY <1>1, <1>2, <1>3, <1>4 DEF Polled
<1>6. Rising'
  <2> SUFFICES ASSUME NEW s \in Slot, NEW t \in Slot, InTx(s)', InTx(t)',
                      Dist(txHead, s) < Dist(txHead, t)
               PROVE  umem[s] < umem[t]
    BY DEF Rising, Dist
  <2>1. Dist(txHead, t) < txLen + 1
    BY DEF InTx, Dist
  <2>2. InTx(s)
    BY <1>1, <1>2, <1>3, <1>4, <2>1 DEF Slot
  <2>3. CASE t = cur_tx
    BY <1>2, <2>2, <2>3 DEF Polled
  <2>4. CASE t # cur_tx
    BY <1>3, <2>2, <2>4 DEF Rising
  <2> QED
    BY <2>3, <2>4
<1> QED
  BY <1>5, <1>6

(* With polling and nothing received on the queue, the frames of the tx    *)
(* ring keep their numbers however far the driver lags behind.             *)
THEOREM PollingProtects == Spec => []PolledQueueIntact
<1> DEFINE P == Polled /\ Rising
<1>1. Core /\ P /\ [Next]_vars => P'
  <2> SUFFICES ASSUME Core, Polled, Rising, [Next]_vars
               PROVE  Polled' /\ Rising'
    OBVIOUS
  <2> USE NAssumption, NicAssumption DEF Core
  <2>1. CASE DriverTakes
    BY <2>1, TakesPolled
  <2>2. CASE DriverSends \/ DriverCompletes \/ Signal \/ UNCHANGED vars
    BY <2>2, SamePolled DEF DriverSends, DriverCompletes, Signal, vars, ringVars, countVars
  <2>3. CASE DriverReceives
    <3>1. received' # 0
      BY <2>3 DEF DriverReceives, TypeOK
    <3> QED
      BY <3>1 DEF Polled, Rising
  <2>4. CASE Fill
    BY <2>4, FillPolled
  <2>5. CASE Submit
    BY <2>5, SubmitPolled
  <2>6. CASE LoopHead \/ Poll \/ KickFails \/ Cleanup
    BY <2>6, SamePolled DEF LoopHead, Poll, KickFails, Cleanup, ringVars, countVars
  <2>7. CASE ReserveFails \/ Kick
    BY <2>7, SamePolled DEF ReserveFails, Kick, ringVars, countVars
  <2> QED
    BY <2>1, <2>2, <2>3, <2>4, <2>5, <2>6, <2>7 DEF Next, Sender, Driver, Exited
<1>2. Init => P
  BY InitAll
<1>3. Core /\ P => PolledQueueIntact
  BY DEF Core, InPlace, Rising, PolledQueueIntact
<1> HIDE DEF P
<1> QED
  BY <1>1, <1>2, <1>3, CoreInductive, PTL DEF Spec
=============================================================================
