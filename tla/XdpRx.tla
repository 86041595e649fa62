------------------------------- MODULE XdpRx -------------------------------
(***************************************************************************)
(* The AF_XDP receiver of txrx-tsn (txrx-afxdp.c and the MODE_RX branch of *)
(* main in txrx.c).                                                        *)
(*                                                                         *)
(* One umem of N frames travels round a circle: the process posts free     *)
(* frames to the fill ring, the driver takes them, stores a packet in each *)
(* and posts a descriptor to the rx ring, and afxdp_recv_pkt consumes one  *)
(* descriptor at a time and gives a frame back.  afxdp_recv_pkt never      *)
(* writes the fill-ring slot it submits: whatever address create_umem left *)
(* there is posted again.  The module asks whether that gives back the     *)
(* frame that was consumed and no other.                                   *)
(*                                                                         *)
(* A ring is a function from slots to frame numbers with the consumer's    *)
(* position ("head") and the number of entries between consumer and        *)
(* producer ("len"); libbpf's free-running indices are these modulo N.     *)
(* A frame's address is frame number * frame_size.                         *)
(***************************************************************************)
EXTENDS Ring

CONSTANTS
  FramesToSend,    \* opt.frames_to_send
  SeqLimit,        \* 50 * 1000 * 1000, the first sequence number refused
  Seqs,            \* sequence numbers that occur in packets
  MaxArrivals      \* bound: packets that arrive in one behaviour

ASSUME SeqAssumption == /\ Seqs \subseteq Nat
                        /\ FramesToSend \in Nat
                        /\ SeqLimit \in Nat
ASSUME ArrivalsAssumption == MaxArrivals \in Nat

VARIABLES
  fill, fillHead, fillLen,   \* pktbuff->rx_fill_ring
  nic, nicHead, nicLen,      \* frames the driver holds, oldest first
  rx, rxHead, rxLen,         \* xsk->rx_ring
  umem,                      \* what each frame holds
  stored,                    \* history: what the driver stored for rx slot s
  pc,                        \* where the receiving thread is
  idx_fq,                    \* fill slot reserved by afxdp_recv_pkt
  glob_rx_seq, halt_tx_sig, rx_npkts,
  arrived                    \* packets stored by the driver so far

ringVars == <<fill, fillHead, fillLen, nic, nicHead, nicLen, rx, rxHead, rxLen>>
dataVars == <<umem, stored, arrived>>
loopVars == <<glob_rx_seq, halt_tx_sig, rx_npkts>>
vars == <<ringVars, dataVars, loopVars, pc, idx_fq>>

(* A packet as afxdp_recv_pkt tells packets apart: a zero-length           *)
(* descriptor, a frame with another header, or a TSN frame with its        *)
(* payload's sequence number.                                              *)
Packet == [kind : {"tsn"}, seq : Seqs] \cup [kind : {"other", "empty"}, seq : {0}]
NoPacket == [kind |-> "none", seq |-> 0]

\* Faulty: the producer index is not masked.
FillProd_Unmasked == fillHead + fillLen

(* The producer's position in the fill ring.                               *)
FillProd == Wrap(fillHead + fillLen)

(* The header, sequence and priority test of afxdp_recv_pkt.               *)
Accepted(p) == p.kind = "tsn" /\ p.seq > 0 /\ p.seq < SeqLimit

\* Faulty: the address of the previous frame.
create_umem_OffByOne == /\ fill = [s \in Slot |-> IF s = 0 THEN 0 ELSE s - 1]
                        /\ fillHead = 0 /\ fillLen = N
                        /\ umem = [s \in Slot |-> NoPacket]

\* Faulty: the last frame is not posted.
create_umem_OneShort == /\ fill = [s \in Slot |-> s]
                        /\ fillHead = 0 /\ fillLen = N - 1
                        /\ umem = [s \in Slot |-> NoPacket]

----------------------------------------------------------------------------
(* create_umem posts every frame once, slot i holding frame i; the rings   *)
(* of the new socket are zeroed memory.                                    *)
create_umem == /\ fill = [s \in Slot |-> s]
               /\ fillHead = 0 /\ fillLen = N
               /\ umem = [s \in Slot |-> NoPacket]

create_xsk_info == /\ rx = [s \in Slot |-> 0]
                   /\ rxHead = 0 /\ rxLen = 0
                   /\ rx_npkts = 0

Init == /\ create_umem
        /\ create_xsk_info
        /\ nic = [s \in Slot |-> 0] /\ nicHead = 0 /\ nicLen = 0
        /\ stored = [s \in Slot |-> NoPacket]
        /\ pc = "loop" /\ idx_fq = 0
        /\ glob_rx_seq = 0 /\ halt_tx_sig = FALSE
        /\ arrived = 0

----------------------------------------------------------------------------
(* The kernel and the driver.  They take frames in the order of the fill   *)
(* ring and complete them in the order they were taken.                    *)

(* The driver takes the oldest entry of the fill ring as a buffer.         *)
DriverTakesFrame ==
  /\ fillLen > 0 /\ nicLen < N
  /\ nic' = [nic EXCEPT ![Wrap(nicHead + nicLen)] = fill[fillHead]]
  /\ nicLen' = nicLen + 1
  /\ fillHead' = Wrap(fillHead + 1) /\ fillLen' = fillLen - 1
  /\ UNCHANGED <<fill, nicHead, rx, rxHead, rxLen, dataVars, loopVars, pc, idx_fq>>

(* A packet arrives, is stored in the oldest buffer, and its descriptor is *)
(* posted to the rx ring.                                                  *)
PacketArrives(p) ==
  /\ nicLen > 0 /\ rxLen < N
  /\ arrived < MaxArrivals
  /\ arrived' = arrived + 1
  /\ LET f == nic[nicHead]
         s == Wrap(rxHead + rxLen)
     IN  /\ umem' = [umem EXCEPT ![f] = p]
         /\ stored' = [stored EXCEPT ![s] = p]
         /\ rx' = [rx EXCEPT ![s] = f]
  /\ rxLen' = rxLen + 1
  /\ nicHead' = Wrap(nicHead + 1) /\ nicLen' = nicLen - 1
  /\ UNCHANGED <<fill, fillHead, fillLen, nic, rxHead, loopVars, pc, idx_fq>>

----------------------------------------------------------------------------
(* The receiving thread: the loop of main and afxdp_recv_pkt.              *)

\* Faulty: no return when nothing was received.
LoopHead_NoPeek ==
  /\ pc = "loop"
  /\ pc' = IF halt_tx_sig THEN "cleanup" ELSE "reserve"
  /\ UNCHANGED <<ringVars, dataVars, loopVars, idx_fq>>

(* while (!halt_tx_sig): leave the loop, or call afxdp_recv_pkt, which     *)
(* peeks one descriptor; with none it returns and main tests glob_rx_seq.  *)
LoopHead ==
  /\ pc = "loop"
  /\ pc' = IF halt_tx_sig THEN "cleanup"
           ELSE IF rxLen > 0 THEN "reserve"
           ELSE IF glob_rx_seq >= FramesToSend THEN "cleanup" ELSE "loop"
  /\ UNCHANGED <<ringVars, dataVars, loopVars, idx_fq>>

(* xsk_ring_prod__reserve; on a full fill ring the thread spins here.      *)
Reserve ==
  /\ pc = "reserve"
  /\ fillLen < N
  /\ idx_fq' = FillProd
  /\ pc' = "process"
  /\ UNCHANGED <<ringVars, dataVars, loopVars>>

\* Faulty: only the next sequence number counts.
Process_InOrder ==
  /\ pc = "process"
  /\ LET p == umem[rx[rxHead]]
     IN  glob_rx_seq' = IF Accepted(p) /\ p.seq = glob_rx_seq + 1 THEN p.seq ELSE glob_rx_seq
  /\ pc' = "submit"
  /\ UNCHANGED <<ringVars, dataVars, halt_tx_sig, rx_npkts, idx_fq>>

(* The body of the for loop: the packet is read in place and, when         *)
(* accepted, its sequence number becomes glob_rx_seq.                      *)
Process ==
  /\ pc = "process"
  /\ LET p == umem[rx[rxHead]]
     IN  glob_rx_seq' = IF Accepted(p) THEN p.seq ELSE glob_rx_seq
  /\ pc' = "submit"
  /\ UNCHANGED <<ringVars, dataVars, halt_tx_sig, rx_npkts, idx_fq>>

(* xsk_ring_prod__submit: the reserved slot goes to the driver with the    *)
(* address it already holds.                                               *)
SubmitFill ==
  /\ pc = "submit"
  /\ fillLen' = fillLen + 1
  /\ pc' = "release"
  /\ UNCHANGED <<fill, fillHead, nic, nicHead, nicLen, rx, rxHead, rxLen,
                 dataVars, loopVars, idx_fq>>

\* Faulty: the descriptor is not released.
ReleaseRx_Forgotten ==
  /\ pc = "release"
  /\ rx_npkts' = rx_npkts + 1
  /\ pc' = IF glob_rx_seq >= FramesToSend THEN "cleanup" ELSE "loop"
  /\ UNCHANGED <<ringVars, dataVars, glob_rx_seq, halt_tx_sig, idx_fq>>

(* xsk_ring_cons__release, the packet counter, and main's test whether the *)
(* last frame has been seen.                                               *)
ReleaseRx ==
  /\ pc = "release"
  /\ rxHead' = Wrap(rxHead + 1) /\ rxLen' = rxLen - 1
  /\ rx_npkts' = rx_npkts + 1
  /\ pc' = IF glob_rx_seq >= FramesToSend THEN "cleanup" ELSE "loop"
  /\ UNCHANGED <<fill, fillHead, fillLen, nic, nicHead, nicLen, rx,
                 dataVars, glob_rx_seq, halt_tx_sig, idx_fq>>

(* xdpsock_cleanup: socket and umem are deleted and the process exits.     *)
Cleanup ==
  /\ pc = "cleanup"
  /\ pc' = "exited"
  /\ UNCHANGED <<ringVars, dataVars, loopVars, idx_fq>>

(* SIGINT, SIGTERM or SIGABRT.                                             *)
Signal ==
  /\ pc # "exited" /\ ~halt_tx_sig
  /\ halt_tx_sig' = TRUE
  /\ UNCHANGED <<ringVars, dataVars, glob_rx_seq, rx_npkts, pc, idx_fq>>

Receiver == LoopHead \/ Reserve \/ Process \/ SubmitFill \/ ReleaseRx \/ Cleanup

(* Once the process has exited the kernel no longer serves its umem.       *)
Driver == /\ pc # "exited"
          /\ DriverTakesFrame \/ \E p \in Packet : PacketArrives(p)

(* The process is gone.                                                    *)
Exited == pc = "exited" /\ UNCHANGED vars

Next == Receiver \/ Driver \/ Signal \/ Exited

(* The receiving thread is always runnable; nothing is assumed of traffic. *)
Spec == Init /\ [][Next]_vars /\ WF_vars(Receiver)

----------------------------------------------------------------------------
TypeOK ==
  /\ fill \in [Slot -> Slot] /\ nic \in [Slot -> Slot] /\ rx \in [Slot -> Slot]
  /\ fillHead \in Slot /\ nicHead \in Slot /\ rxHead \in Slot
  /\ fillLen \in 0 .. N /\ nicLen \in 0 .. N /\ rxLen \in 0 .. N
  /\ umem \in [Slot -> Packet \cup {NoPacket}]
  /\ stored \in [Slot -> Packet \cup {NoPacket}]
  /\ pc \in {"loop", "reserve", "process", "submit", "release", "cleanup", "exited"}
  /\ idx_fq \in Slot
  /\ glob_rx_seq \in Nat /\ halt_tx_sig \in BOOLEAN /\ rx_npkts \in Nat
  /\ arrived \in 0 .. MaxArrivals

(* Slots between consumer and producer of each ring.  The descriptor whose *)
(* frame has been submitted but not yet released is no longer the          *)
(* process's.                                                              *)
InFill(s) == Dist(fillHead, s) < fillLen
InNic(s) == Dist(nicHead, s) < nicLen
InRx(s) == Dist(rxHead, s) < rxLen /\ ~(pc = "release" /\ s = rxHead)

KernelFrames == {fill[s] : s \in {t \in Slot : InFill(t)}}
                  \cup {nic[s] : s \in {t \in Slot : InNic(t)}}
ProcessFrames == {rx[s] : s \in {t \in Slot : InRx(t)}}

(* Ownership: no frame is with the kernel and with the process at once, no *)
(* frame is posted twice to the driver, and no frame is ever lost.  The    *)
(* stale slot that afxdp_recv_pkt submits must hold the consumed frame.    *)
OneOwnerPerFrame ==
  /\ KernelFrames \cap ProcessFrames = {}
  /\ KernelFrames \cup ProcessFrames = Slot
  /\ \A s, t \in Slot : /\ InFill(s) /\ InNic(t) => fill[s] # nic[t]
                        /\ InFill(s) /\ InFill(t) /\ s # t => fill[s] # fill[t]

(* A packet delivered to the process is still in its frame, unmodified by  *)
(* later arrivals, until the process submits the frame again.              *)
DeliveredIntact == \A s \in Slot : InRx(s) => umem[rx[s]] = stored[s]

(* The reserve loop of afxdp_recv_pkt never spins: with a descriptor in    *)
(* hand there is always room in the fill ring.                             *)
ReserveNeverSpins == pc = "reserve" => fillLen < N

(* The slot that Reserve obtains is the slot of the consumed descriptor    *)
(* and holds the consumed frame.                                           *)
ResubmitsConsumedFrame ==
  pc \in {"process", "submit"} => idx_fq = FillProd /\ fill[idx_fq] = rx[rxHead]

(* The receiver stops once a packet that counts as the last one has been   *)
(* delivered, whatever else arrives meanwhile.                             *)
LastFrameStops ==
  (\E s \in Slot : InRx(s) /\ Accepted(stored[s]) /\ stored[s].seq >= FramesToSend)
     ~> (pc = "exited")
=============================================================================
