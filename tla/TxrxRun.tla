------------------------------ MODULE TxrxRun -------------------------------
(***************************************************************************)
(* A test run of txrx-tsn: the sender (afpkt_send_thread,                  *)
(* afpkt_send_thread_etf or afxdp_send_thread), the network, the receiver  *)
(* (afpkt_recv_pkt or afxdp_recv_pkt and main's loop around it), the       *)
(* scripts that end both with pkill, and calc_rx_duploss, which computes   *)
(* loss and duplicates from the rows that the receiver printed.            *)
(*                                                                         *)
(* The send functions differ in how they number packets, in what a failed  *)
(* send and a signal do, and in the launch time of a packet, which is left *)
(* out.  A packet is its sequence number, a hardware timestamp the number  *)
(* of the packet it belongs to.  The rings of AF_XDP are the subject of    *)
(* XdpTx and XdpRx.  Here the receiver's are a bounded buffer like that of *)
(* a socket; of the sender's only the number of frames that the driver has *)
(* still to send is kept, since these can be written again.  A frame that  *)
(* the driver spoils by receiving into it (XdpTx) is a lost packet.  The   *)
(* sender's rows are those of its verbose mode.                            *)
(***************************************************************************)
EXTENDS Integers, Sequences, FiniteSets

CONSTANTS
  FramesToSend,    \* opt->frames_to_send
  FlushPackets,    \* DEFAULT_NUM_FLUSH_PACKETS, which follow on AF_XDP
  TxRing,          \* opt->x_opt.frames_per_ring: frames, and slots of the tx ring
  NicCap,          \* frames that the driver takes from the tx ring before it sends them
  BufCap,          \* packets that fit in the receiver's socket buffer or ring
  MinRows,         \* 3000: a result is computed from that many rows and more
  MaxLost, MaxDup, \* bounds: packets lost and duplicated by the network
  MaxForeign       \* bound: packets of other senders that reach the receiver

ASSUME RunAssumption ==
  /\ FramesToSend \in Nat \ {0} /\ FlushPackets \in Nat \ {0} /\ BufCap \in Nat \ {0}
  /\ TxRing \in Nat \ {0} /\ NicCap \in Nat /\ MinRows \in Nat
  /\ MaxLost \in Nat /\ MaxDup \in Nat /\ MaxForeign \in Nat

VARIABLES
  socket_mode,                  \* of both programs: "AFPKT" or "AFXDP"
  enable_txtime, enable_hwts, enable_poll,   \* the sender's options
  timeout,                      \* what the uninitialized tv_sec makes of select
  sender, count, seq,           \* where the sender is, and its loop variables
  unstamped,                    \* packets sent whose timestamp is outstanding
  errqueue,                     \* timestamps in the socket's error queue
  txRows,                       \* rows the sender printed
  wire,                         \* packets between the two sockets
  queued,                       \* the last ones of wire, still in frames of the AF_XDP sender
  lost, dup, foreign,           \* packets that got lost, were doubled, came from others
  rxsock,                       \* whether init_rx_socket succeeded
  rxbuf,                        \* the receiver's socket buffer
  receiver, glob_rx_seq,
  rxRows,                       \* rows the receiver printed
  halt_tx_sig,                  \* of the two processes
  lateSends,                    \* history: packets sent after the signal
  overrun,                      \* history: a frame was written again before it was sent
  cleanRows,                    \* history: the receiver's rows when that happened first
  result                        \* what calc_rx_duploss printed

optVars == <<socket_mode, rxsock, enable_txtime, enable_hwts, enable_poll, timeout>>
stampVars == <<unstamped, errqueue, txRows>>
netVars == <<wire, queued, lost, dup, foreign, rxbuf>>
rxVars == <<receiver, glob_rx_seq, rxRows>>
overVars == <<overrun, cleanRows>>
vars == <<optVars, sender, count, seq, stampVars, netVars, rxVars,
          halt_tx_sig, lateSends, overVars, result>>

Side == {"tx", "rx"}
XDP == socket_mode = "AFXDP"
First == IF XDP THEN 0 ELSE 1

\* Faulty: nothing follows the last packet.
TotalPackets_NoFlush == FramesToSend

TotalPackets == IF XDP THEN FramesToSend + FlushPackets ELSE FramesToSend
Packet == First .. First + TotalPackets - 1
Foreign == -1       \* a payload that is not one of txrx-tsn
None == 0           \* the 0 that is printed for a missing timestamp
NoResult == [rx |-> -1, dupl |-> 0, loss |-> 0]
TooLittle == [rx |-> -2, dupl |-> 0, loss |-> 0]    \* the script's early exit
Computed == result \notin {NoResult, TooLittle}

Distinct(rows) == {rows[k] : k \in DOMAIN rows}

(* The packets that a complete result shows: the last one may be shown by  *)
(* a flush packet, which stops the receiver as well.                       *)
Missing ==
  {n \in 1 .. FramesToSend : \A p \in Distinct(rxRows) : p # n /\ (n < FramesToSend \/ p < n)}

----------------------------------------------------------------------------
(* init_tx_socket and the start of the send loop.  tv_sec of its timeout   *)
(* is never assigned: select gives up soon (zero), refuses to look (a      *)
(* negative value), or waits as long as it takes.  AF_XDP has no           *)
(* timestamps of that kind, and its launch times change nothing here.      *)
InitSender ==
  /\ enable_txtime \in (IF XDP THEN {FALSE} ELSE BOOLEAN)
  /\ enable_hwts \in (IF XDP THEN {FALSE} ELSE BOOLEAN)
  /\ enable_poll \in (IF XDP THEN BOOLEAN ELSE {FALSE})
  /\ timeout \in (IF enable_hwts THEN {"short", "negative", "endless"} ELSE {"short"})
  /\ sender = "loop" /\ count = TotalPackets /\ seq = First
  /\ unstamped = <<>> /\ errqueue = <<>> /\ txRows = <<>>

(* init_rx_socket: a bounded buffer, and packets of one ethertype only.    *)
(* When it fails this is printed and main goes on to poll descriptor -1.   *)
InitReceiver ==
  /\ rxsock \in (IF XDP THEN {TRUE} ELSE BOOLEAN)
  /\ rxbuf = <<>>
  /\ receiver = "loop" /\ glob_rx_seq = 0 /\ rxRows = <<>>

Init ==
  /\ socket_mode \in {"AFPKT", "AFXDP"}
  /\ InitSender /\ InitReceiver
  /\ wire = <<>> /\ queued = 0 /\ lost = 0 /\ dup = 0 /\ foreign = 0
  /\ halt_tx_sig = [p \in Side |-> FALSE]
  /\ lateSends = 0 /\ overrun = FALSE /\ cleanRows = <<>> /\ result = NoResult

----------------------------------------------------------------------------
(* The sender.                                                             *)

\* Faulty: the signal is not looked at.
SendLoop_Deaf ==
  /\ sender = "loop"
  /\ sender' = IF count # 0 THEN "sleep" ELSE "closed"
  /\ UNCHANGED <<optVars, count, seq, stampVars, netVars, rxVars, halt_tx_sig,
                 lateSends, overVars, result>>

(* while (count && !halt_tx_sig); afxdp_send_thread counts i up to         *)
(* frames_to_send + DEFAULT_NUM_FLUSH_PACKETS.                             *)
SendLoop ==
  /\ sender = "loop"
  /\ sender' = IF count # 0 /\ ~halt_tx_sig["tx"] THEN "sleep" ELSE "closed"
  /\ UNCHANGED <<optVars, count, seq, stampVars, netVars, rxVars, halt_tx_sig,
                 lateSends, overVars, result>>

(* Frame cur_tx of AF_XDP was posted last TxRing packets ago, and the      *)
(* driver may still have it.                                               *)
Overwrites == XDP /\ queued >= TxRing

(* What the memcpy into frame cur_tx makes of the packets on their way:    *)
(* the older packet is lost, its frame goes out with the new number.       *)
Copied == IF Overwrites THEN [wire EXCEPT ![Len(wire) - TxRing + 1] = seq] ELSE wire

CopyPayload ==
  /\ overrun' = IF Overwrites THEN TRUE ELSE overrun
  /\ cleanRows' = IF Overwrites /\ ~overrun THEN rxRows ELSE cleanRows

(* The launch time is reached and the packet is handed to the socket, or   *)
(* copied into its frame and posted on the tx ring, which has room when    *)
(* the driver took enough frames.  The kick that follows on AF_XDP may end *)
(* the process.                                                            *)
Send ==
  /\ sender = "sleep"
  /\ CopyPayload
  /\ queued < TxRing + NicCap
  /\ queued' = IF XDP THEN queued + 1 ELSE queued
  /\ wire' = Append(Copied, seq)
  /\ lost' = IF Overwrites THEN lost + 1 ELSE lost
  /\ unstamped' = IF enable_hwts THEN Append(unstamped, seq) ELSE unstamped
  /\ count' = count - 1 /\ seq' = seq + 1
  /\ lateSends' = IF halt_tx_sig["tx"] THEN lateSends + 1 ELSE lateSends
  /\ sender' \in (IF XDP THEN {"stamp", "failed"} ELSE {"stamp"})
  /\ UNCHANGED <<optVars, errqueue, txRows, dup, foreign, rxbuf, rxVars,
                 halt_tx_sig, result>>

\* Faulty: the packet is tried again.
SendFails_Retried ==
  /\ sender = "sleep"
  /\ \/ ~enable_txtime /\ sender' = "failed"
     \/ enable_txtime /\ sender' = "loop"
  /\ UNCHANGED <<optVars, count, seq, stampVars, netVars, rxVars, halt_tx_sig,
                 lateSends, overVars, result>>

(* sendto() fails: exit_with_error.  sendmsg() fails: the failure is       *)
(* printed and the number is used up, as it is when the poll of            *)
(* afxdp_send_pkt times out.  Without that poll the payload is copied      *)
(* before the tx ring is found full: the number goes out in the frame of   *)
(* the oldest packet.                                                      *)
SendFails ==
  /\ sender = "sleep"
  /\ \/ /\ ~XDP /\ ~enable_txtime
        /\ sender' = "failed" /\ UNCHANGED <<count, seq, wire, lost, overVars>>
     \/ /\ enable_txtime \/ enable_poll
        /\ sender' = "stamp" /\ count' = count - 1 /\ seq' = seq + 1 /\ lost' = lost + 1
        /\ UNCHANGED <<wire, overVars>>
     \/ /\ ~enable_poll /\ Overwrites
        /\ CopyPayload /\ wire' = Copied
        /\ sender' = "stamp" /\ count' = count - 1 /\ seq' = seq + 1 /\ lost' = lost + 1
  /\ UNCHANGED <<optVars, stampVars, queued, dup, foreign, rxbuf, rxVars, halt_tx_sig,
                 lateSends, result>>

\* Faulty: the timestamp is left in the error queue.
extract_ts_from_cmsg_Peek == errqueue' = errqueue

(* recvmsg(MSG_ERRQUEUE) takes the oldest timestamp, if there is one.      *)
extract_ts_from_cmsg == errqueue' = IF errqueue = <<>> THEN <<>> ELSE Tail(errqueue)

(* select, then the row for the packet just sent.  A timestamp in the      *)
(* error queue is read, whichever packet it belongs to, unless the timeout *)
(* is negative; without one select returns when its timeout is over.       *)
PrintStamp ==
  /\ sender = "stamp"
  /\ \/ ~enable_hwts /\ UNCHANGED errqueue /\ txRows' = Append(txRows, <<seq - 1, None>>)
     \/ /\ enable_hwts /\ errqueue # <<>> /\ timeout # "negative"
        /\ txRows' = Append(txRows, <<seq - 1, Head(errqueue)>>)
        /\ extract_ts_from_cmsg
     \/ /\ enable_hwts /\ (timeout = "negative" \/ (errqueue = <<>> /\ timeout = "short"))
        /\ txRows' = Append(txRows, <<seq - 1, None>>)
        /\ UNCHANGED errqueue
  /\ sender' = "loop"
  /\ UNCHANGED <<optVars, count, seq, unstamped, netVars, rxVars, halt_tx_sig,
                 lateSends, overVars, result>>

Sender == SendLoop \/ Send \/ SendFails \/ PrintStamp

(* afpkt_sigint_handler or afxdp_sigint_handler, in either process.  A     *)
(* sender that sleeps or waits in select is woken with EINTR, unless the   *)
(* signal came just before the call; afxdp_send_thread does not look at    *)
(* the result of its sleep.                                                *)
Signal(p) ==
  /\ ~halt_tx_sig[p]
  /\ halt_tx_sig' = [halt_tx_sig EXCEPT ![p] = TRUE]
  /\ \/ UNCHANGED <<sender, txRows>>
     \/ p = "tx" /\ sender = "sleep" /\ ~XDP /\ sender' = "closed" /\ UNCHANGED txRows
     \/ /\ p = "tx" /\ sender = "stamp" /\ enable_hwts /\ sender' = "loop"
        /\ txRows' = Append(txRows, <<seq - 1, None>>)
  /\ UNCHANGED <<optVars, count, seq, unstamped, errqueue, netVars, rxVars,
                 lateSends, overVars, result>>

----------------------------------------------------------------------------
(* The network and the kernel.                                             *)

(* The timestamp of the oldest packet reaches the error queue, or is never *)
(* taken: the packet was dropped, or the device had no room for it.        *)
Stamp ==
  /\ unstamped # <<>>
  /\ unstamped' = Tail(unstamped)
  /\ errqueue' \in {errqueue, Append(errqueue, Head(unstamped))}
  /\ UNCHANGED <<optVars, sender, count, seq, txRows, netVars, rxVars, halt_tx_sig,
                 lateSends, overVars, result>>

(* A tagged packet reaches the sender's own socket, which is in select's   *)
(* read set and is never read: from now on select returns at once.         *)
TaggedArrives ==
  /\ timeout = "endless" /\ timeout' = "short"
  /\ UNCHANGED <<socket_mode, rxsock, enable_txtime, enable_hwts, enable_poll, sender,
                 count, seq, stampVars, netVars, rxVars, halt_tx_sig, lateSends,
                 overVars, result>>

(* The driver puts the oldest frame that is queued on the wire.  What is   *)
(* left when the sender has ended may go with its socket.                  *)
DriverSends ==
  /\ queued > 0
  /\ \/ queued' = queued - 1 /\ UNCHANGED <<wire, lost>>
     \/ /\ sender \in {"closed", "failed"}
        /\ queued' = 0 /\ lost' = lost + queued
        /\ wire' = SubSeq(wire, 1, Len(wire) - queued)
  /\ UNCHANGED <<optVars, sender, count, seq, stampVars, dup, foreign, rxbuf, rxVars,
                 halt_tx_sig, lateSends, overVars, result>>

(* The oldest packet reaches the receiver's buffer, is dropped because the *)
(* buffer is full or there is none, is lost, or is doubled.                *)
Transmit ==
  /\ Len(wire) > queued
  /\ \/ /\ wire' = Tail(wire)
        /\ IF rxsock /\ Len(rxbuf) < BufCap
           THEN rxbuf' = Append(rxbuf, Head(wire)) /\ UNCHANGED lost
           ELSE lost' = lost + 1 /\ UNCHANGED rxbuf
        /\ UNCHANGED dup
     \/ /\ lost < MaxLost /\ lost' = lost + 1
        /\ wire' = Tail(wire)
        /\ UNCHANGED <<dup, rxbuf>>
     \/ /\ dup < MaxDup /\ dup' = dup + 1
        /\ wire' = <<Head(wire)>> \o wire
        /\ UNCHANGED <<lost, rxbuf>>
  /\ UNCHANGED <<optVars, sender, count, seq, stampVars, queued, foreign, rxVars,
                 halt_tx_sig, lateSends, overVars, result>>

Network == DriverSends \/ Transmit

(* A packet of another program.                                            *)
ForeignArrives ==
  /\ foreign < MaxForeign /\ foreign' = foreign + 1
  /\ rxsock /\ Len(rxbuf) < BufCap /\ rxbuf' = Append(rxbuf, Foreign)
  /\ UNCHANGED <<optVars, sender, count, seq, stampVars, wire, queued, lost, dup, rxVars,
                 halt_tx_sig, lateSends, overVars, result>>

----------------------------------------------------------------------------
(* The receiver.                                                           *)


(* while (!halt_tx_sig)                                                    *)
RecvLoop ==
  /\ receiver = "loop"
  /\ receiver' = IF halt_tx_sig["rx"] THEN "closed" ELSE "recv"
  /\ UNCHANGED <<optVars, sender, count, seq, stampVars, netVars, glob_rx_seq, rxRows,
                 halt_tx_sig, lateSends, overVars, result>>

\* Faulty: nothing is refused.
Valid_Any(p) == p \in Int

(* tx_queue and seq of the payload are in range; afxdp_recv_pkt refuses    *)
(* number 0 as well.                                                       *)
Valid(p) == p # Foreign /\ (XDP => p > 0)

\* Faulty: one packet early.
LastSeen_Early(n) == n >= FramesToSend - 1

LastSeen(n) == n >= FramesToSend

(* afpkt_recv_pkt or afxdp_recv_pkt, and the test after it.                *)
recv_pkt ==
  /\ receiver = "recv"
  /\ rxbuf' = IF rxbuf = <<>> THEN <<>> ELSE Tail(rxbuf)
  /\ IF rxbuf # <<>> /\ Valid(Head(rxbuf))
     THEN /\ rxRows' = Append(rxRows, Head(rxbuf))
          /\ glob_rx_seq' = Head(rxbuf)
     ELSE UNCHANGED <<rxRows, glob_rx_seq>>
  /\ receiver' = IF LastSeen(glob_rx_seq') THEN "closed" ELSE "loop"
  /\ UNCHANGED <<optVars, sender, count, seq, stampVars, wire, queued, lost, dup, foreign,
                 halt_tx_sig, lateSends, overVars, result>>

Receiver == RecvLoop \/ recv_pkt

----------------------------------------------------------------------------
(* calc_rx_duploss.                                                        *)

PACKET_RX == Len(rxRows)

(* uniq -D prints every row of a group of equal neighbours.                *)
PACKET_DUPL ==
  Cardinality({k \in DOMAIN rxRows :
                 \/ k > 1 /\ rxRows[k - 1] = rxRows[k]
                 \/ k < Len(rxRows) /\ rxRows[k + 1] = rxRows[k]})

\* Faulty: duplicates are added.
PACKET_LOSS_Added == FramesToSend - PACKET_RX + PACKET_DUPL

PACKET_LOSS == FramesToSend - PACKET_RX - PACKET_DUPL

(* "Too little data": the script exits without a result.                   *)
stop_if_empty == Len(rxRows) < MinRows

(* The script computes after its pkill, when the receiver is gone.         *)
calc_rx_duploss ==
  /\ receiver = "closed" /\ halt_tx_sig["rx"] /\ result = NoResult
  /\ result' = IF stop_if_empty THEN TooLittle
               ELSE [rx |-> PACKET_RX, dupl |-> PACKET_DUPL, loss |-> PACKET_LOSS]
  /\ UNCHANGED <<optVars, sender, count, seq, stampVars, netVars, rxVars, halt_tx_sig,
                 lateSends, overVars>>

----------------------------------------------------------------------------
Next ==
  \/ Sender \/ Receiver
  \/ Stamp \/ TaggedArrives \/ Network \/ ForeignArrives
  \/ \E p \in Side : Signal(p)
  \/ calc_rx_duploss

(* Both processes run whenever they do not wait for the kernel.            *)
ProcessFairness == WF_vars(Sender) /\ WF_vars(Receiver)

(* The scripts' sleep before pkill, and the script itself, come to an end. *)
ScriptFairness ==
  WF_vars(Signal("tx")) /\ WF_vars(Signal("rx")) /\ WF_vars(calc_rx_duploss)

(* The programs started by hand: nothing need ever stop them.              *)
UnattendedSpec == Init /\ [][Next]_vars /\ ProcessFairness

(* The programs started by vs1a.sh and vs1b.sh.                            *)
Spec == UnattendedSpec /\ ScriptFairness

----------------------------------------------------------------------------
(* Every variable keeps to the values that the code can give it; the       *)
(* sequence number and the remaining count of the sender add up, and after *)
(* a signal at most the packet that was being prepared is sent.            *)
TypeOK ==
  /\ socket_mode \in {"AFPKT", "AFXDP"} /\ rxsock \in BOOLEAN
  /\ enable_txtime \in BOOLEAN /\ enable_hwts \in BOOLEAN /\ enable_poll \in BOOLEAN
  /\ timeout \in {"short", "negative", "endless"}
  /\ sender \in {"loop", "sleep", "stamp", "closed", "failed"}
  /\ count \in 0 .. TotalPackets /\ seq = First + TotalPackets - count
  /\ unstamped \in Seq(Packet) /\ errqueue \in Seq(Packet)
  /\ txRows \in Seq(Packet \X (Packet \cup {None}))
  /\ wire \in Seq(Packet) /\ rxbuf \in Seq(Packet \cup {Foreign}) /\ Len(rxbuf) <= BufCap
  /\ queued \in 0 .. TxRing + NicCap /\ queued <= Len(wire) /\ (~XDP => queued = 0)
  /\ lost \in Nat /\ dup \in 0 .. MaxDup /\ foreign \in 0 .. MaxForeign
  /\ receiver \in {"loop", "recv", "closed"}
  /\ glob_rx_seq \in Packet \cup {0} /\ rxRows \in Seq(Packet)
  /\ halt_tx_sig \in [Side -> BOOLEAN]
  /\ lateSends \in 0 .. 1
  /\ overrun \in BOOLEAN /\ cleanRows \in Seq(Packet) /\ (overrun => XDP)
  /\ result \in {NoResult, TooLittle} \cup [rx : Nat, dupl : Nat, loss : Int]

(* Whatever was lost, doubled, dropped, overwritten or not sent, and       *)
(* whenever the script's pkill came, the Losses column never exceeds the   *)
(* number of packets that are missing, and equals it when no packet was    *)
(* printed twice.                                                          *)
LossesAccount ==
  Computed =>
    /\ result.loss <= Cardinality(Missing)
    /\ Len(rxRows) = Cardinality(Distinct(rxRows)) => result.loss = Cardinality(Missing)

(* The comment of calc_rx_duploss calls the Losses column "Total missing". *)
LossesAreMissing == Computed => result.loss = Cardinality(Missing)

(* A receiver that stops by itself leaves no packet behind: each one it    *)
(* did not print is neither in its buffer nor on the way.  The exception   *)
(* is AF_XDP with a driver that fell behind by all frames of the sender: a *)
(* flush packet written into the frame of an older packet overtakes those  *)
(* in between.                                                             *)
NothingLeftBehind ==
  receiver = "closed" /\ ~halt_tx_sig["rx"] /\ ~overrun =>
    Missing \cap (Distinct(rxbuf) \cup Distinct(wire)) = {}

(* The sender's rows never show a timestamp twice, nor one of a packet     *)
(* that is sent later: a late timestamp shifts the column, and only down.  *)
StampsInOrder ==
  \A j, k \in DOMAIN txRows :
    txRows[k][2] # None =>
      /\ txRows[k][2] <= txRows[k][1]
      /\ j < k => txRows[j][2] < txRows[k][2]

(* With a network that keeps delivering, a receiver whose sender was not   *)
(* stopped needs no signal as long as fewer packets got lost, anywhere     *)
(* from the send call to a full buffer, than there are packets that stop   *)
(* it: one on AF_PACKET, the flush packets on AF_XDP.                      *)
StopPackets == IF XDP THEN FlushPackets ELSE 1
SurvivesLosses ==
  WF_vars(Network) =>
    (sender = "closed" /\ ~halt_tx_sig["tx"] ~> receiver = "closed" \/ lost >= StopPackets
                                                \/ halt_tx_sig["tx"])


(* With a timeout that ends, the sender ends.                              *)
SenderEndsInTime == timeout # "endless" => <>(sender \in {"closed", "failed"})

(* "Print 0 if txtimestamp failed to return in time": a packet without a   *)
(* timestamp does not stop the sender.                                     *)
SenderEnds == <>(sender \in {"closed", "failed"})

(* Seen from outside, both kinds of socket are a NumberedLink: the         *)
(* receiver's rows never show a number before it was sent, nor go back.    *)
(* AF_XDP promises that only for the rows up to the first overrun, after   *)
(* which a row may show a number ahead of its turn; AF_PACKET has none.    *)
Link == INSTANCE NumberedLink
          WITH first <- First, sent <- seq - 1,
               log <- IF overrun THEN cleanRows ELSE rxRows
ImplementsNumberedLink == Link!LinkSpec
=============================================================================
