------------------------------- MODULE XdpTx -------------------------------
(***************************************************************************)
(* The AF_XDP sender of txrx-tsn (txrx-afxdp.c and the MODE_TX branch of   *)
(* main in txrx.c).                                                        *)
(*                                                                         *)
(* afxdp_send_thread writes numbered packets into the N frames of the      *)
(* umem, one after the other, and posts each to the tx ring.  It writes a  *)
(* frame before it knows whether the ring has room and without asking      *)
(* whether the frame has been sent; it consumes one completion per packet  *)
(* posted, and none when the ring is full.  create_umem has also posted    *)
(* every frame for reception, so a packet received on the sender's queue   *)
(* lands in a frame that is used for sending.                              *)
(*                                                                         *)
(* A frame is represented by the number in its payload; a frame that was   *)
(* overwritten by a received packet has lost its header for good, since    *)
(* only prefill_tx_umem_rings writes headers.                              *)
(***************************************************************************)
EXTENDS Ring, Sequences

CONSTANTS
  NicCap,          \* frames the driver holds between tx and completion ring
  FramesToSend,    \* opt->frames_to_send
  Flush,           \* DEFAULT_NUM_FLUSH_PACKETS
  MaxReceived      \* bound: packets received on the queue after the prefill

(* The rings have 4096 entries, more than any of the drivers' own rings.   *)
ASSUME NicAssumption == NicCap \in Nat /\ 0 < NicCap /\ NicCap < N
ASSUME CountAssumption == FramesToSend \in Nat /\ Flush \in Nat /\ MaxReceived \in Nat

VARIABLES
  umem,                 \* the number in each frame's payload
  tx, txHead, txLen,    \* xsk->tx_ring: descriptors posted, not yet taken
  nic, nicHead, nicLen, \* frames taken by the driver, oldest first
  read,                 \* how many of those the driver has put on the wire
  compLen,              \* entries in pktbuff->tx_comp_ring
  received,             \* entries of the fill ring used by the driver
  cur_tx, outstanding_tx,
  i,                    \* packets of the send loop; seq_num has the same value
  enable_poll, halt_tx_sig,
  pc,                   \* where the sending thread is
  wanted,               \* history: numbers written to frames, in order
  wire,                 \* history: what the driver sent, in order
  overrun               \* history: a frame was written before it was sent

ringVars == <<tx, txHead, txLen, nic, nicHead, nicLen, read, compLen, received>>
countVars == <<cur_tx, outstanding_tx, i, enable_poll>>
vars == <<umem, ringVars, countVars, halt_tx_sig, pc, wanted, wire, overrun>>

Template == -1      \* the header and an empty payload
Foreign == -2       \* a received packet, header included

(* Frames posted that the driver has still to put on the wire.             *)
Unsent == nicLen - read + txLen

----------------------------------------------------------------------------
(* init_xdp_socket and prefill_tx_umem_rings.                              *)
Init ==
  /\ umem = [f \in Slot |-> Template]
  /\ tx = [s \in Slot |-> 0] /\ txHead = 0 /\ txLen = 0
  /\ nic = [s \in Slot |-> 0] /\ nicHead = 0 /\ nicLen = 0 /\ read = 0
  /\ compLen = 0 /\ received = 0
  /\ cur_tx = 0 /\ outstanding_tx = 0 /\ i = 0
  /\ enable_poll \in BOOLEAN /\ halt_tx_sig = FALSE
  /\ pc = "loop"
  /\ wanted = <<>> /\ wire = <<>> /\ overrun = FALSE

----------------------------------------------------------------------------
(* The kernel and the driver.                                              *)

(* A descriptor is taken once room for its completion is reserved.         *)
DriverTakes ==
  /\ txLen > 0 /\ nicLen < NicCap /\ nicLen + compLen < N
  /\ nic' = [nic EXCEPT ![Wrap(nicHead + nicLen)] = tx[txHead]]
  /\ nicLen' = nicLen + 1
  /\ txHead' = Wrap(txHead + 1) /\ txLen' = txLen - 1
  /\ UNCHANGED <<umem, tx, nicHead, read, compLen, received, countVars,
                 halt_tx_sig, pc, wanted, wire, overrun>>

DriverSends ==
  /\ read < nicLen
  /\ wire' = Append(wire, umem[nic[Wrap(nicHead + read)]])
  /\ read' = read + 1
  /\ UNCHANGED <<umem, tx, txHead, txLen, nic, nicHead, nicLen, compLen, received,
                 countVars, halt_tx_sig, pc, wanted, overrun>>

DriverCompletes ==
  /\ read > 0
  /\ nicHead' = Wrap(nicHead + 1) /\ nicLen' = nicLen - 1 /\ read' = read - 1
  /\ compLen' = compLen + 1
  /\ UNCHANGED <<umem, tx, txHead, txLen, nic, received, countVars,
                 halt_tx_sig, pc, wanted, wire, overrun>>

(* A packet is received into the next frame of the fill ring, which holds  *)
(* every frame once and is never filled again.                             *)
DriverReceives ==
  /\ received < N /\ received < MaxReceived
  /\ received' = received + 1
  /\ umem' = [umem EXCEPT ![received] = Foreign]
  /\ UNCHANGED <<tx, txHead, txLen, nic, nicHead, nicLen, read, compLen, countVars,
                 halt_tx_sig, pc, wanted, wire, overrun>>

----------------------------------------------------------------------------
(* The sending thread: afxdp_send_thread, afxdp_send_pkt, update_txstats.  *)

(* while (!halt_tx_sig && i < frames_to_send + DEFAULT_NUM_FLUSH_PACKETS)  *)
LoopHead ==
  /\ pc = "loop"
  /\ pc' = IF halt_tx_sig \/ i >= FramesToSend + Flush THEN "last"
           ELSE IF enable_poll THEN "poll" ELSE "fill"
  /\ UNCHANGED <<umem, ringVars, countVars, halt_tx_sig, wanted, wire, overrun>>

\* Faulty: the events that poll() reports are not looked at.
Poll_Ignored ==
  /\ pc = "poll"
  /\ pc' = "fill"
  /\ UNCHANGED <<umem, ringVars, countVars, halt_tx_sig, wanted, wire, overrun>>

(* poll() says POLLOUT, which it does only when the tx ring has room, or   *)
(* the packet is given up: a timeout, a signal, another event.             *)
Poll ==
  /\ pc = "poll"
  /\ \/ txLen < N /\ pc' = "fill" /\ UNCHANGED i
     \/ pc' = "loop" /\ i' = i + 1
  /\ UNCHANGED <<umem, ringVars, cur_tx, outstanding_tx, enable_poll,
                 halt_tx_sig, wanted, wire, overrun>>

(* The payload is copied behind the header of frame cur_tx.                *)
Fill ==
  /\ pc = "fill"
  /\ umem' = [umem EXCEPT ![cur_tx] = IF @ = Foreign THEN Foreign ELSE i]
  /\ wanted' = Append(wanted, i)
  /\ overrun' = (overrun \/ Unsent >= N)
  /\ pc' = "reserve"
  /\ UNCHANGED <<ringVars, countVars, halt_tx_sig, wire>>

(* xsk_ring_prod__reserve finds the ring full: the packet is given up.     *)
ReserveFails ==
  /\ pc = "reserve" /\ txLen = N
  /\ i' = i + 1
  /\ pc' = "loop"
  /\ UNCHANGED <<umem, ringVars, cur_tx, outstanding_tx, enable_poll, halt_tx_sig,
                 wanted, wire, overrun>>

\* Faulty: the index is not reduced.
NextFrame_Unwrapped == cur_tx + 1

\* Faulty: reduced modulo one frame less.
NextFrame_OneShort == IF cur_tx + 1 >= N - 1 THEN 0 ELSE cur_tx + 1

NextFrame == Wrap(cur_tx + 1)

(* Reserve, fill in the descriptor, submit and advance.                    *)
Submit ==
  /\ pc = "reserve" /\ txLen < N
  /\ tx' = [tx EXCEPT ![Wrap(txHead + txLen)] = cur_tx]
  /\ txLen' = txLen + 1
  /\ outstanding_tx' = outstanding_tx + 1
  /\ cur_tx' = NextFrame
  /\ pc' = "kick"
  /\ UNCHANGED <<umem, txHead, nic, nicHead, nicLen, read, compLen, received,
                 i, enable_poll, halt_tx_sig, wanted, wire, overrun>>

\* Faulty: the completion is counted but not released.
update_txstats_NoRelease ==
  LET rcvd == IF outstanding_tx > 0 /\ compLen > 0 THEN 1 ELSE 0
  IN  UNCHANGED compLen /\ outstanding_tx' = outstanding_tx - rcvd

(* update_txstats: one completion at most.                                 *)
update_txstats ==
  LET rcvd == IF outstanding_tx > 0 /\ compLen > 0 THEN 1 ELSE 0
  IN  compLen' = compLen - rcvd /\ outstanding_tx' = outstanding_tx - rcvd

(* sendto() starts the driver, or fails with an error that does not        *)
(* matter; back in afxdp_send_thread the loop counts the packet.           *)
Kick ==
  /\ pc = "kick"
  /\ update_txstats
  /\ i' = i + 1
  /\ pc' = "loop"
  /\ UNCHANGED <<umem, tx, txHead, txLen, nic, nicHead, nicLen, read, received,
                 cur_tx, enable_poll, halt_tx_sig, wanted, wire, overrun>>

(* Any other error of sendto() ends the process.                           *)
KickFails ==
  /\ pc = "kick"
  /\ pc' = "exited"
  /\ UNCHANGED <<umem, ringVars, countVars, halt_tx_sig, wanted, wire, overrun>>

(* After the loop: update_txstats and xdpsock_cleanup.                     *)
Cleanup ==
  /\ pc = "last"
  /\ update_txstats
  /\ pc' = "exited"
  /\ UNCHANGED <<umem, tx, txHead, txLen, nic, nicHead, nicLen, read, received,
                 cur_tx, i, enable_poll, halt_tx_sig, wanted, wire, overrun>>

(* SIGINT, SIGTERM or SIGABRT.                                             *)
Signal ==
  /\ pc # "exited" /\ ~halt_tx_sig
  /\ halt_tx_sig' = TRUE
  /\ UNCHANGED <<umem, ringVars, countVars, pc, wanted, wire, overrun>>

Sender == LoopHead \/ Poll \/ Fill \/ ReserveFails \/ Submit \/ Kick \/ KickFails \/ Cleanup
Driver == /\ pc # "exited"
          /\ DriverTakes \/ DriverSends \/ DriverCompletes \/ DriverReceives
Exited == pc = "exited" /\ UNCHANGED vars

Next == Sender \/ Driver \/ Signal \/ Exited

Spec == Init /\ [][Next]_vars

----------------------------------------------------------------------------
Content == {Template, Foreign} \cup Nat

TypeOK ==
  /\ umem \in [Slot -> Content]
  /\ tx \in [Slot -> Slot] /\ nic \in [Slot -> Slot]
  /\ txHead \in Slot /\ nicHead \in Slot /\ cur_tx \in Slot
  /\ txLen \in 0 .. N /\ nicLen \in 0 .. NicCap /\ read \in 0 .. nicLen
  /\ compLen \in 0 .. N /\ received \in 0 .. N
  /\ outstanding_tx \in Nat /\ i \in 0 .. FramesToSend + Flush
  /\ enable_poll \in BOOLEAN /\ halt_tx_sig \in BOOLEAN /\ overrun \in BOOLEAN
  /\ pc \in {"loop", "poll", "fill", "reserve", "kick", "last", "exited"}
  /\ wanted \in Seq(Nat) /\ wire \in Seq(Content)

InTx(s) == Dist(txHead, s) < txLen

(* As long as no packet is written with N frames still to be sent, what    *)
(* goes out is what the loop wrote, each number once and in that order;    *)
(* only a packet received on the same queue can spoil a frame.             *)
WireFaithful ==
  ~overrun => /\ Len(wire) <= Len(wanted)
              /\ \A k \in 1 .. Len(wire) : \/ wire[k] = wanted[k]
                                           \/ wire[k] = Foreign /\ received > 0

(* With polling a posted descriptor's frame is never written again before  *)
(* the driver takes it, however far the driver lags behind.                *)
PolledQueueIntact ==
  enable_poll /\ received = 0 =>
     \A s, t \in Slot : InTx(s) /\ InTx(t) /\ Dist(txHead, s) < Dist(txHead, t)
                           => umem[tx[s]] < umem[tx[t]]

(* A full tx ring always empties again by the driver's own doing: the      *)
(* completion ring is not full as well.  Otherwise nothing would ever move *)
(* again, since a failed reserve returns before update_txstats.            *)
NeverStuck == pc = "reserve" /\ txLen = N => compLen < N
=============================================================================
