----------------------------- MODULE XdpRxProofs -----------------------------
(***************************************************************************)
(* XdpRx for every ring size N, every set of sequence numbers and any      *)
(* number of arrivals: type correctness, one owner per frame, delivered    *)
(* packets intact, the reserve loop never spins.                           *)
(*                                                                         *)
(* Ownership is not inductive: it follows from where the frames are.  The  *)
(* strengthening says that the three rings are consecutive arcs of one     *)
(* circle (Aligned), that inside its arc every ring holds frame s in slot  *)
(* s (InPlace), and what the receiving thread knows while it has a         *)
(* descriptor in hand (InHand).                                            *)
(***************************************************************************)
EXTENDS XdpRx, RingLemmas

(* One entry is in two arcs between submit and release.                    *)
Held == IF pc = "release" THEN 1 ELSE 0

Aligned == /\ nicHead = Wrap(rxHead + rxLen)
           /\ fillHead = Wrap(nicHead + nicLen)
           /\ fillLen + nicLen + rxLen = N + Held

InPlace == \A s \in Slot : /\ fill[s] = s
                           /\ InNic(s) => nic[s] = s
                           /\ Dist(rxHead, s) < rxLen => rx[s] = s

InHand == /\ pc \in {"reserve", "process", "submit", "release"} => rxLen > 0
          /\ pc \in {"process", "submit"} => idx_fq = rxHead

IInv == TypeOK /\ Aligned /\ InPlace /\ InHand /\ DeliveredIntact

(* Every slot lies in exactly one arc, and with no submitted entry pending *)
(* the fill producer stands at the rx consumer.                            *)
LEMMA ArcsPartition ==
  ASSUME TypeOK, Aligned, InHand
  PROVE  /\ pc # "release" => FillProd = rxHead
         /\ \A s \in Slot : /\ InFill(s) \/ InNic(s) \/ InRx(s)
                            /\ ~(InFill(s) /\ InNic(s))
                            /\ ~(InFill(s) /\ InRx(s))
                            /\ ~(InNic(s) /\ InRx(s))
<1>1. Held \in 0 .. 1 /\ Held <= rxLen /\ (Held = 1 <=> pc = "release")
  BY NAssumption DEF Held, InHand, TypeOK
<1>2. /\ fillLen \in 0 .. N /\ nicLen \in 0 .. N /\ rxLen \in 0 .. N
      /\ fillHead \in Slot /\ nicHead \in Slot /\ rxHead \in Slot
      /\ nicHead = Wrap(rxHead + rxLen) /\ fillHead = Wrap(nicHead + nicLen)
      /\ rxLen + nicLen + fillLen = N + Held
  BY NAssumption DEF TypeOK, Aligned, Held
<1> HIDE DEF Held
<1>3. /\ Held = 0 => Wrap(fillHead + fillLen) = rxHead
      /\ \A s \in Slot :
           /\ (Dist(rxHead, s) < rxLen /\ ~(Held = 1 /\ s = rxHead))
                \/ Dist(nicHead, s) < nicLen \/ Dist(fillHead, s) < fillLen
           /\ ~(Dist(fillHead, s) < fillLen /\ Dist(nicHead, s) < nicLen)
           /\ ~(Dist(fillHead, s) < fillLen /\ Dist(rxHead, s) < rxLen /\ ~(Held = 1 /\ s = rxHead))
           /\ ~(Dist(nicHead, s) < nicLen /\ Dist(rxHead, s) < rxLen /\ ~(Held = 1 /\ s = rxHead))
  BY <1>1, <1>2, ThreeArcs
<1> QED
  BY <1>1, <1>3 DEF FillProd, InFill, InNic, InRx

(* Init establishes the strengthened invariant.                            *)
LEMMA InitIInv == Init => IInv
<1> SUFFICES ASSUME Init PROVE IInv
  OBVIOUS
<1> USE NAssumption, ArrivalsAssumption DEF Init, create_umem, create_xsk_info, Slot
<1>1. TypeOK
  <2>1. /\ fill \in [Slot -> Slot] /\ nic \in [Slot -> Slot] /\ rx \in [Slot -> Slot]
        /\ fillLen \in 0 .. N /\ nicLen \in 0 .. N /\ rxLen \in 0 .. N
        /\ fillHead \in Slot /\ nicHead \in Slot /\ rxHead \in Slot /\ idx_fq \in Slot
    OBVIOUS
  <2>2. umem \in [Slot -> Packet \cup {NoPacket}] /\ stored \in [Slot -> Packet \cup {NoPacket}]
    OBVIOUS
  <2>3. arrived \in 0 .. MaxArrivals
    OBVIOUS
  <2> QED
    BY <2>1, <2>2, <2>3 DEF TypeOK
<1>2. Aligned /\ InHand
  BY DEF Aligned, Wrap, Held, InHand
<1>3. InPlace /\ DeliveredIntact
  BY DEF InPlace, DeliveredIntact, InNic, InRx, Dist
<1> QED
  BY <1>1, <1>2, <1>3 DEF IInv

(* The driver takes a frame: the fill arc shrinks, the driver's grows.     *)
LEMMA DriverTakesFrameIInv == IInv /\ DriverTakesFrame => IInv'
<1> SUFFICES ASSUME IInv, DriverTakesFrame PROVE IInv'
  OBVIOUS
<1> USE NAssumption DEF IInv, DriverTakesFrame, dataVars, loopVars
<1> DEFINE t == Wrap(nicHead + nicLen)
<1>1. /\ nicHead \in Slot /\ nicLen \in 0 .. N - 1
      /\ fillHead \in Slot /\ fillLen \in 1 .. N
  BY DEF TypeOK
<1>2. t = fillHead /\ t \in Slot /\ fill[fillHead] = fillHead
  BY <1>1 DEF Aligned, InPlace
<1>3. /\ Wrap(t + 1) = Wrap(nicHead + (nicLen + 1))
      /\ \A s \in Slot : Dist(nicHead, s) < nicLen + 1 => Dist(nicHead, s) < nicLen \/ s = t
  BY <1>1, ArcGrows
<1>4. Wrap(fillHead + 1) \in Slot
  BY <1>1, ArcShrinks
<1>5. nic' = [nic EXCEPT ![fillHead] = fillHead] /\ nicHead' = nicHead
  BY <1>2
<1>6. TypeOK'
  <2>1. nic' \in [Slot -> Slot]
    BY <1>1, <1>5 DEF TypeOK
  <2>2. nicLen' \in 0 .. N /\ fillLen' \in 0 .. N
    BY <1>1
  <2> QED
    BY <1>4, <2>1, <2>2 DEF TypeOK
<1>7. Aligned' /\ InHand'
  <2>1. fillHead' = Wrap(nicHead' + nicLen')
    BY <1>2, <1>3
  <2>2. (nicHead = Wrap(rxHead + rxLen))'
    BY DEF Aligned, Wrap
  <2>3. (fillLen + nicLen + rxLen = N + Held)'
    BY <1>1 DEF TypeOK, Aligned, Held
  <2> QED
    BY <2>1, <2>2, <2>3 DEF Aligned, InHand, Wrap
<1>8. InPlace'
  <2> SUFFICES ASSUME NEW s \in Slot
               PROVE  /\ fill[s] = s
                      /\ Dist(nicHead, s) < nicLen' => nic'[s] = s
                      /\ Dist(rxHead, s) < rxLen => rx[s] = s
    BY DEF InPlace, InNic, Dist
  <2>1. CASE s = fillHead
    BY <1>1, <1>5, <2>1 DEF InPlace, TypeOK
  <2>2. CASE s # fillHead
    BY <1>1, <1>2, <1>3, <1>5, <2>2 DEF InPlace, TypeOK, InNic
  <2> QED
    BY <2>1, <2>2
<1>9. DeliveredIntact'
  BY DEF DeliveredIntact, InRx, Dist
<1> QED
  BY <1>6, <1>7, <1>8, <1>9

(* A packet arrives: the driver's arc shrinks, the rx arc grows.           *)
LEMMA PacketArrivesIInv ==
  ASSUME NEW p \in Packet, IInv, PacketArrives(p) PROVE IInv'
<1> USE NAssumption DEF IInv, PacketArrives, loopVars
<1>1. /\ nicHead \in Slot /\ nicLen \in 1 .. N
      /\ rxHead \in Slot /\ rxLen \in 0 .. N - 1
  BY DEF TypeOK
<1>2. Wrap(rxHead + rxLen) = nicHead /\ nic[nicHead] = nicHead
  <2>1. Dist(nicHead, nicHead) = 0
    BY <1>1 DEF Dist, Slot
  <2> QED
    BY <1>1, <2>1 DEF Aligned, InPlace, InNic
<1>3. /\ Wrap(nicHead + 1) = Wrap(rxHead + (rxLen + 1))
      /\ \A s \in Slot : Dist(rxHead, s) < rxLen + 1 => Dist(rxHead, s) < rxLen \/ s = nicHead
  BY <1>1, <1>2, ArcGrows
<1>4. /\ Wrap(nicHead + 1) \in Slot
      /\ Wrap(Wrap(nicHead + 1) + (nicLen - 1)) = Wrap(nicHead + nicLen)
      /\ \A s \in Slot : Dist(Wrap(nicHead + 1), s) < nicLen - 1 => Dist(nicHead, s) < nicLen
  BY <1>1, ArcShrinks
<1>5. /\ umem' = [umem EXCEPT ![nicHead] = p]
      /\ stored' = [stored EXCEPT ![nicHead] = p]
      /\ rx' = [rx EXCEPT ![nicHead] = nicHead]
  BY <1>2
<1>6. TypeOK'
  <2> DEFINE P == Packet \cup {NoPacket}
  <2>0. /\ rx \in [Slot -> Slot] /\ umem \in [Slot -> P] /\ stored \in [Slot -> P]
        /\ p \in P
    BY DEF TypeOK
  <2> HIDE DEF P, PacketArrives, IInv
  <2>1. rx' \in [Slot -> Slot] /\ umem' \in [Slot -> P] /\ stored' \in [Slot -> P]
    BY <1>1, <1>5, <2>0
  <2> USE DEF P, PacketArrives, IInv
  <2>2. nicLen' \in 0 .. N /\ rxLen' \in 0 .. N
    BY <1>1
  <2>3. arrived' \in 0 .. MaxArrivals
    BY ArrivalsAssumption DEF TypeOK
  <2> QED
    BY <1>4, <2>1, <2>2, <2>3 DEF TypeOK
<1>7. Aligned' /\ InHand'
  <2>1. nicHead' = Wrap(rxHead' + rxLen')
    BY <1>3
  <2>2. fillHead' = Wrap(nicHead' + nicLen')
    BY <1>4 DEF Aligned
  <2>3. (fillLen + nicLen + rxLen = N + Held)'
    BY <1>1 DEF TypeOK, Aligned, Held
  <2>4. InHand'
    BY <1>1 DEF InHand
  <2> QED
    BY <2>1, <2>2, <2>3, <2>4 DEF Aligned, Wrap
<1>8. InPlace'
  <2> SUFFICES ASSUME NEW s \in Slot
               PROVE  /\ fill[s] = s
                      /\ Dist(nicHead', s) < nicLen' => nic[s] = s
                      /\ Dist(rxHead, s) < rxLen' => rx'[s] = s
    BY DEF InPlace, InNic, Dist
  <2>1. Dist(nicHead', s) < nicLen' => nic[s] = s
    BY <1>4 DEF InPlace, InNic
  <2>2. Dist(rxHead, s) < rxLen' => rx'[s] = s
    BY <1>1, <1>3, <1>5 DEF InPlace, TypeOK
  <2> QED
    BY <2>1, <2>2 DEF InPlace
<1>9. DeliveredIntact'
  <2> SUFFICES ASSUME NEW s \in Slot, InRx(s)' PROVE umem'[rx'[s]] = stored'[s]
    BY DEF DeliveredIntact
  <2>1. CASE s = nicHead
    BY <1>1, <1>5, <2>1 DEF TypeOK
  <2>2. CASE s # nicHead
    <3>1. InRx(s)
      BY <1>3, <2>2 DEF InRx, Dist
    <3>2. rx[s] = s
      BY <3>1 DEF InPlace, InRx
    <3>3. rx'[s] = s /\ umem'[s] = umem[s] /\ stored'[s] = stored[s]
      BY <1>1, <1>5, <2>2, <3>2 DEF TypeOK
    <3> QED
      BY <3>1, <3>2, <3>3 DEF DeliveredIntact
  <2> QED
    BY <2>1, <2>2
<1> QED
  BY <1>6, <1>7, <1>8, <1>9

(* A step of the receiving thread: only submit and release move an arc.    *)
LEMMA ReceiverIInv == IInv /\ Receiver => IInv'
<1> SUFFICES ASSUME IInv, Receiver PROVE IInv'
  OBVIOUS
<1> USE NAssumption DEF IInv, ringVars, dataVars, loopVars
<1>1. CASE LoopHead
  <2>1. TypeOK' /\ InPlace'
    BY <1>1 DEF LoopHead, TypeOK, InPlace, InNic
  <2>2. Aligned' /\ InHand'
    BY <1>1 DEF LoopHead, TypeOK, Aligned, InHand, Held, Wrap
  <2>3. DeliveredIntact'
    BY <1>1 DEF LoopHead, DeliveredIntact, InRx
  <2> QED
    BY <2>1, <2>2, <2>3
<1>2. CASE Reserve
  <2>1. FillProd = rxHead
    BY <1>2, ArcsPartition DEF Reserve
  <2>2. TypeOK' /\ InPlace'
    BY <1>2, <2>1 DEF Reserve, TypeOK, InPlace, InNic
  <2>3. Aligned' /\ InHand'
    BY <1>2, <2>1 DEF Reserve, TypeOK, Aligned, InHand, Held, Wrap
  <2>4. DeliveredIntact'
    BY <1>2 DEF Reserve, DeliveredIntact, InRx
  <2> QED
    BY <2>2, <2>3, <2>4
<1>3. CASE Process
  <2>1. rx[rxHead] \in Slot /\ umem[rx[rxHead]] \in Packet \cup {NoPacket}
    BY DEF TypeOK
  <2>2. glob_rx_seq' \in Nat
    BY <1>3, <2>1, SeqAssumption DEF Process, TypeOK, Packet, NoPacket, Accepted
  <2>3. TypeOK' /\ InPlace'
    BY <1>3, <2>2 DEF Process, TypeOK, InPlace, InNic
  <2>4. Aligned' /\ InHand'
    BY <1>3 DEF Process, TypeOK, Aligned, InHand, Held, Wrap
  <2>5. DeliveredIntact'
    BY <1>3 DEF Process, DeliveredIntact, InRx
  <2> QED
    BY <2>3, <2>4, <2>5
<1>4. CASE SubmitFill
  <2>1. TypeOK'
    BY <1>4 DEF SubmitFill, TypeOK, Aligned, InHand, Held
  <2>2. Aligned' /\ InHand'
    BY <1>4 DEF SubmitFill, TypeOK, Aligned, InHand, Held, Wrap
  <2>3. InPlace' /\ DeliveredIntact'
    BY <1>4 DEF SubmitFill, InPlace, InNic, DeliveredIntact, InRx
  <2> QED
    BY <2>1, <2>2, <2>3
<1>5. CASE ReleaseRx
  <2> USE <1>5 DEF ReleaseRx
  <2>1. rxHead \in Slot /\ rxLen \in 1 .. N
    BY DEF TypeOK, InHand
  <2>2. /\ rxHead' \in Slot
        /\ Wrap(rxHead' + rxLen') = Wrap(rxHead + rxLen)
        /\ \A s \in Slot : Dist(rxHead', s) < rxLen' => Dist(rxHead, s) < rxLen /\ s # rxHead
    BY <2>1, ArcShrinks
  <2>3. TypeOK'
    BY <2>1, <2>2 DEF TypeOK
  <2>4. Aligned' /\ InHand'
    <3>1. fillHead' = Wrap(nicHead' + nicLen')
      BY DEF Aligned
    <3>2. (fillLen + nicLen + rxLen = N + Held)'
      BY <2>1 DEF TypeOK, Aligned, Held
    <3>3. nicHead' = Wrap(rxHead' + rxLen')
      BY <2>2 DEF Aligned
    <3> QED
      BY <3>1, <3>2, <3>3 DEF Aligned, InHand, Wrap
  <2>5. \A s \in Slot : (Dist(rxHead, s) < rxLen)' => Dist(rxHead, s) < rxLen /\ s # rxHead
    BY <2>2 DEF Dist
  <2>6. InPlace'
    BY <2>5 DEF InPlace, InNic, Dist
  <2>7. DeliveredIntact'
    BY <2>5 DEF DeliveredIntact, InRx
  <2> QED
    BY <2>3, <2>4, <2>6, <2>7
<1>6. CASE Cleanup
  <2>1. TypeOK' /\ InPlace'
    BY <1>6 DEF Cleanup, TypeOK, InPlace, InNic
  <2>2. Aligned' /\ InHand'
    BY <1>6 DEF Cleanup, TypeOK, Aligned, InHand, Held, Wrap
  <2>3. DeliveredIntact'
    BY <1>6 DEF Cleanup, DeliveredIntact, InRx
  <2> QED
    BY <2>1, <2>2, <2>3
<1> QED
  BY <1>1, <1>2, <1>3, <1>4, <1>5, <1>6 DEF Receiver

(* The strengthened invariant holds in every reachable state.              *)
THEOREM Inductive == Spec => []IInv
<1>1. IInv /\ [Next]_vars => IInv'
  <2> SUFFICES ASSUME IInv, [Next]_vars PROVE IInv'
    OBVIOUS
  <2>1. CASE Receiver
    BY <2>1, ReceiverIInv
  <2>2. CASE Driver
    BY <2>2, DriverTakesFrameIInv, PacketArrivesIInv DEF Driver
  <2>3. CASE Signal
    BY <2>3 DEF Signal, IInv, TypeOK, Aligned, InPlace, InHand, DeliveredIntact,
                Held, InNic, InRx, ringVars, dataVars, Wrap, Dist
  <2>4. CASE UNCHANGED vars
    BY <2>4 DEF vars, IInv, TypeOK, Aligned, InPlace, InHand, DeliveredIntact,
                Held, InNic, InRx, ringVars, dataVars, loopVars, Wrap, Dist
  <2> QED
    BY <2>1, <2>2, <2>3, <2>4 DEF Next, Exited
<1> QED
  BY <1>1, InitIInv, PTL DEF Spec

(* Every variable keeps its type: in particular no ring index leaves the   *)
(* ring and no ring holds more than N entries.                             *)
THEOREM TypeCorrect == Spec => []TypeOK
BY Inductive, PTL DEF IInv

(* The stale-slot resubmission of afxdp_recv_pkt gives every frame exactly *)
(* one owner, whatever the ring size.                                      *)
THEOREM Ownership == Spec => []OneOwnerPerFrame
<1>1. IInv => OneOwnerPerFrame
  <2> SUFFICES ASSUME IInv PROVE OneOwnerPerFrame
    OBVIOUS
  <2>1. \A s \in Slot : /\ InFill(s) \/ InNic(s) \/ InRx(s)
                        /\ ~(InFill(s) /\ InNic(s))
                        /\ ~(InFill(s) /\ InRx(s))
                        /\ ~(InNic(s) /\ InRx(s))
    BY ArcsPartition DEF IInv
  <2>2. \A s \in Slot : /\ fill[s] = s
                        /\ InNic(s) => nic[s] = s
                        /\ InRx(s) => rx[s] = s
    BY DEF IInv, InPlace, InRx
  <2>3. /\ KernelFrames = {s \in Slot : InFill(s) \/ InNic(s)}
        /\ ProcessFrames = {s \in Slot : InRx(s)}
    BY <2>2 DEF KernelFrames, ProcessFrames
  <2> QED
    BY <2>1, <2>2, <2>3 DEF OneOwnerPerFrame
<1> QED
  BY <1>1, Inductive, PTL

(* No packet is overwritten between its delivery and the end of its        *)
(* processing.                                                             *)
THEOREM Intact == Spec => []DeliveredIntact
BY Inductive, PTL DEF IInv

(* The busy loop on xsk_ring_prod__reserve ends at its first iteration.    *)
THEOREM NoSpin == Spec => []ReserveNeverSpins
<1>1. IInv => ReserveNeverSpins
  BY NAssumption DEF IInv, TypeOK, Aligned, InHand, Held, ReserveNeverSpins
<1> QED
  BY <1>1, Inductive, PTL

(* What afxdp_recv_pkt submits is the frame it has just consumed.          *)
THEOREM Resubmits == Spec => []ResubmitsConsumedFrame
<1>1. IInv => ResubmitsConsumedFrame
  <2> SUFFICES ASSUME IInv, pc \in {"process", "submit"}
               PROVE  idx_fq = FillProd /\ fill[idx_fq] = rx[rxHead]
    BY DEF ResubmitsConsumedFrame
  <2>1. idx_fq = rxHead /\ rxLen > 0 /\ FillProd = rxHead
    BY ArcsPartition DEF IInv, InHand
  <2>2. rxHead \in Slot /\ Dist(rxHead, rxHead) = 0
    BY NAssumption DEF IInv, TypeOK, Slot, Dist
  <2>3. fill[rxHead] = rxHead /\ rx[rxHead] = rxHead
    BY <2>1, <2>2 DEF IInv, InPlace
  <2> QED
    BY <2>1, <2>3
<1> QED
  BY <1>1, Inductive, PTL
=============================================================================
