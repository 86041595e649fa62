--------------------------- MODULE TxrxRunProofs ----------------------------
(***************************************************************************)
(* TxrxRun for every number of packets, buffer size and network: type      *)
(* correctness, timestamps in order, nothing left behind, the loss count,  *)
(* and the refinement of NumberedLink.                                     *)
(*                                                                         *)
(* None of the properties is inductive.  What they rest on is that the     *)
(* packets on their way form one chain, from the rows through the buffer   *)
(* and the wire to the sender's next number, until a frame is overwritten  *)
(* (Chain), and that the same is true of timestamps (StampChain).  The     *)
(* loss count needs no order, only that no row but the last shows a number *)
(* that stops the receiver (LastRow).                                      *)
(***************************************************************************)
EXTENDS TxrxRun, SeqLemmas, FiniteSetTheorems

(* Packets of the run that follow one another in a sequence do not go      *)
(* back, packets of others aside.                                          *)
Ordered(q) == \A i, j \in 1 .. Len(q) : i < j /\ q[j] # Foreign => q[i] <= q[j]

(* No packet of the run in q is older than one in p.                       *)
Ahead(p, q) == \A i \in 1 .. Len(p), j \in 1 .. Len(q) : q[j] # Foreign => p[i] <= q[j]

(* All numbers in q were given out before n.                               *)
AllBelow(q, n) == \A i \in 1 .. Len(q) : q[i] < n

InOrder ==
  /\ Ordered(rxRows) /\ Ordered(rxbuf) /\ Ordered(wire)
  /\ Ahead(rxRows, rxbuf) /\ Ahead(rxRows, wire) /\ Ahead(rxbuf, wire)
  /\ AllBelow(rxRows, seq) /\ AllBelow(rxbuf, seq) /\ AllBelow(wire, seq)

Chain == ~overrun => InOrder

(* A sender about to send has a packet left and none was sent after the    *)
(* signal; one that prints a row has sent a packet.                        *)
SenderState ==
  /\ sender = "sleep" => count >= 1 /\ lateSends = 0
  /\ sender = "stamp" => seq > First
  /\ lateSends = 1 => halt_tx_sig["tx"]

(* Strictly increasing, and everything in p smaller than everything in q.  *)
Rising(q) == \A i, j \in 1 .. Len(q) : i < j => q[i] < q[j]
Below(p, q) == \A i \in 1 .. Len(p), j \in 1 .. Len(q) : p[i] < q[j]

(* Every timestamp in the rows r is smaller than everything in q.          *)
RowsBelow(r, q) == \A k \in 1 .. Len(r), i \in 1 .. Len(q) : r[k][2] < q[i]

StampChain ==
  /\ XDP => ~enable_hwts
  /\ ~enable_hwts => unstamped = <<>> /\ errqueue = <<>>
  /\ Rising(errqueue) /\ Rising(unstamped) /\ Below(errqueue, unstamped)
  /\ AllBelow(errqueue, seq) /\ AllBelow(unstamped, seq)
  /\ RowsBelow(txRows, errqueue) /\ RowsBelow(txRows, unstamped)
  /\ StampsInOrder /\ \A k \in 1 .. Len(txRows) : txRows[k][1] < seq

(* The receiver's last row is in glob_rx_seq; a number that stops the      *)
(* receiver can only be there, and without a signal it must.               *)
LastRow ==
  /\ glob_rx_seq = IF rxRows = <<>> THEN 0 ELSE rxRows[Len(rxRows)]
  /\ \A k \in 1 .. Len(rxRows) : rxRows[k] >= 1 /\ (k < Len(rxRows) => rxRows[k] < FramesToSend)
  /\ receiver # "closed" => glob_rx_seq < FramesToSend
  /\ receiver = "closed" /\ ~halt_tx_sig["rx"] => glob_rx_seq >= FramesToSend

(* The result is computed from the rows, which then no longer change.      *)
ResultFinal ==
  /\ result # NoResult => receiver = "closed"
  /\ Computed => result.loss = PACKET_LOSS

IInv == TypeOK /\ SenderState /\ Chain /\ StampChain /\ LastRow /\ ResultFinal

(***************************************************************************)
(* Facts about ordered sequences.                                          *)
(***************************************************************************)

(* What is left of an ordered sequence is ordered.                         *)
LEMMA TailKeeps ==
  ASSUME NEW q \in Seq(Int), q # <<>>
  PROVE  /\ Tail(q) \in Seq(Int)
         /\ Ordered(q) => Ordered(Tail(q))
         /\ Rising(q) => Rising(Tail(q))
         /\ \A n \in Int : AllBelow(q, n) => AllBelow(Tail(q), n)
         /\ \A p \in Seq(Int) : Ahead(p, q) => Ahead(p, Tail(q))
         /\ \A p \in Seq(Int) : Ahead(q, p) => Ahead(Tail(q), p)
         /\ \A p \in Seq(Int) : Below(p, q) => Below(p, Tail(q))
         /\ \A p \in Seq(Int) : Below(q, p) => Below(Tail(q), p)
<1> DEFINE t == Tail(q)
<1>1. /\ t \in Seq(Int) /\ Len(q) \in Nat /\ Len(t) = Len(q) - 1
      /\ \A k \in 1 .. Len(t) : k + 1 \in 1 .. Len(q) /\ t[k] = q[k + 1]
  BY TailFacts
<1> HIDE DEF t
<1>2. ASSUME NEW i \in 1 .. Len(t), NEW j \in 1 .. Len(t), i < j
      PROVE  /\ t[i] = q[i + 1] /\ t[j] = q[j + 1]
             /\ Ordered(q) /\ t[j] # Foreign => t[i] <= t[j]
             /\ Rising(q) => t[i] < t[j]
  <2>1. i + 1 \in 1 .. Len(q) /\ j + 1 \in 1 .. Len(q) /\ i + 1 < j + 1
    BY <1>1, <1>2
  <2>2. t[i] = q[i + 1] /\ t[j] = q[j + 1]
    BY <1>1
  <2>3. Ordered(q) /\ q[j + 1] # Foreign => q[i + 1] <= q[j + 1]
    BY <2>1 DEF Ordered
  <2>4. Rising(q) => q[i + 1] < q[j + 1]
    BY <2>1 DEF Rising
  <2> QED
    BY <2>2, <2>3, <2>4
<1>3. (Ordered(q) => Ordered(t)) /\ (Rising(q) => Rising(t))
  BY <1>2 DEF Ordered, Rising
<1>4. \A n \in Int : AllBelow(q, n) => AllBelow(t, n)
  BY <1>1 DEF AllBelow
<1>5. \A p \in Seq(Int) : (Ahead(p, q) => Ahead(p, t)) /\ (Ahead(q, p) => Ahead(t, p))
  BY <1>1 DEF Ahead
<1>6. \A p \in Seq(Int) : (Below(p, q) => Below(p, t)) /\ (Below(q, p) => Below(t, p))
  BY <1>1 DEF Below
<1> QED
  BY <1>1, <1>3, <1>4, <1>5, <1>6 DEF t

(* An ordered sequence stays ordered when the new element may be its last. *)
LEMMA AppendKeeps ==
  ASSUME NEW q \in Seq(Int), NEW e \in Int
  PROVE  /\ Append(q, e) \in Seq(Int)
         /\ Ordered(q) /\ (e = Foreign \/ \A i \in 1 .. Len(q) : q[i] <= e)
              => Ordered(Append(q, e))
         /\ Rising(q) /\ AllBelow(q, e) => Rising(Append(q, e))
         /\ \A n \in Int : AllBelow(q, n) /\ e < n => AllBelow(Append(q, e), n)
         /\ \A p \in Seq(Int) :
              Ahead(p, q) /\ (e = Foreign \/ \A i \in 1 .. Len(p) : p[i] <= e)
                => Ahead(p, Append(q, e))
         /\ \A p \in Seq(Int) :
              Ahead(q, p) /\ (\A i \in 1 .. Len(p) : p[i] # Foreign => e <= p[i])
                => Ahead(Append(q, e), p)
         /\ \A p \in Seq(Int) : Below(p, q) /\ AllBelow(p, e) => Below(p, Append(q, e))
         /\ \A p \in Seq(Int) :
              Below(q, p) /\ (\A i \in 1 .. Len(p) : e < p[i]) => Below(Append(q, e), p)
<1> DEFINE a == Append(q, e)
<1>1. /\ a \in Seq(Int) /\ Len(q) \in Nat /\ Len(a) = Len(q) + 1
      /\ \A k \in 1 .. Len(a) : k = Len(a) \/ k \in 1 .. Len(q)
      /\ \A k \in 1 .. Len(q) : a[k] = q[k] /\ q[k] \in Int
      /\ a[Len(a)] = e
  <2>1. /\ a \in Seq(Int) /\ Len(q) \in Nat /\ Len(a) = Len(q) + 1
        /\ \A k \in 1 .. Len(q) : a[k] = q[k]
        /\ a[Len(q) + 1] = e
    BY AppendFacts
  <2>2. \A k \in 1 .. Len(q) : q[k] \in Int
    BY SeqFacts
  <2> HIDE DEF a
  <2> QED
    BY <2>1, <2>2
<1> HIDE DEF a
<1>2. ASSUME NEW i \in 1 .. Len(a), NEW j \in 1 .. Len(a), i < j
      PROVE  /\ Ordered(q) /\ (e = Foreign \/ \A k \in 1 .. Len(q) : q[k] <= e) /\ a[j] # Foreign
                  => a[i] <= a[j]
             /\ Rising(q) /\ AllBelow(q, e) => a[i] < a[j]
  <2>1. i \in 1 .. Len(q) /\ a[i] = q[i]
    BY <1>1, <1>2
  <2>2. CASE j = Len(a)
    BY <1>1, <2>1, <2>2 DEF AllBelow
  <2>3. CASE j \in 1 .. Len(q)
    <3>1. a[j] = q[j]
      BY <1>1, <2>3
    <3> QED
      BY <1>2, <2>1, <2>3, <3>1 DEF Ordered, Rising
  <2> QED
    BY <1>1, <2>2, <2>3
<1>3. /\ Ordered(q) /\ (e = Foreign \/ \A i \in 1 .. Len(q) : q[i] <= e) => Ordered(a)
      /\ Rising(q) /\ AllBelow(q, e) => Rising(a)
  BY <1>2 DEF Ordered, Rising
<1>4. \A n \in Int : AllBelow(q, n) /\ e < n => AllBelow(a, n)
  BY <1>1 DEF AllBelow
<1>5. \A p \in Seq(Int) :
        Ahead(p, q) /\ (e = Foreign \/ \A i \in 1 .. Len(p) : p[i] <= e) => Ahead(p, a)
  BY <1>1 DEF Ahead, Foreign
<1>6. \A p \in Seq(Int) :
        Ahead(q, p) /\ (\A i \in 1 .. Len(p) : p[i] # Foreign => e <= p[i]) => Ahead(a, p)
  BY <1>1 DEF Ahead
<1>7. \A p \in Seq(Int) : Below(p, q) /\ AllBelow(p, e) => Below(p, a)
  BY <1>1 DEF Below, AllBelow
<1>8. \A p \in Seq(Int) :
        Below(q, p) /\ (\A i \in 1 .. Len(p) : e < p[i]) => Below(a, p)
  BY <1>1 DEF Below
<1> QED
  BY <1>1, <1>3, <1>4, <1>5, <1>6, <1>7, <1>8 DEF a

(* The network doubles the oldest packet: the order is kept.               *)
LEMMA DoubledKeeps ==
  ASSUME NEW q \in Seq(Int), q # <<>>
  PROVE  /\ Ordered(q) => Ordered(<<Head(q)>> \o q)
         /\ \A n \in Int : AllBelow(q, n) => AllBelow(<<Head(q)>> \o q, n)
         /\ \A p \in Seq(Int) : Ahead(p, q) => Ahead(p, <<Head(q)>> \o q)
<1> DEFINE d == <<Head(q)>> \o q
           Old(k) == IF k = 1 THEN 1 ELSE k - 1
<1>1. /\ Len(q) \in Nat /\ Len(d) \in Nat /\ q[1] \in Int
      /\ \A k \in 1 .. Len(d) : Old(k) \in 1 .. Len(q) /\ d[k] = q[Old(k)]
  BY DoubledFacts
<1>2. \A k \in 1 .. Len(q) : q[k] \in Int
  BY SeqFacts
<1> HIDE DEF d
<1>3. ASSUME Ordered(q) PROVE Ordered(d)
  <2> SUFFICES ASSUME NEW i \in 1 .. Len(d), NEW j \in 1 .. Len(d), i < j, d[j] # Foreign
               PROVE  d[i] <= d[j]
    BY DEF Ordered
  <2>1. Old(i) \in 1 .. Len(q) /\ Old(j) \in 1 .. Len(q) /\ d[i] = q[Old(i)] /\ d[j] = q[Old(j)]
    BY <1>1
  <2>2. Old(i) < Old(j) \/ Old(i) = Old(j)
    BY <1>1
  <2> HIDE DEF Old
  <2> QED
    BY <1>2, <1>3, <2>1, <2>2 DEF Ordered
<1> HIDE DEF Old
<1>4. \A n \in Int : AllBelow(q, n) => AllBelow(d, n)
  BY <1>1 DEF AllBelow
<1>5. \A p \in Seq(Int) : Ahead(p, q) => Ahead(p, d)
  BY <1>1 DEF Ahead
<1> QED
  BY <1>3, <1>4, <1>5 DEF d

(***************************************************************************)
(* What the type invariant gives, and what an action that leaves the       *)
(* variables of a conjunct alone does to it.                               *)
(***************************************************************************)

(* The numbers of a run are integers, from First up to below seq at least. *)
LEMMA Numbers ==
  ASSUME TypeOK
  PROVE  /\ First \in {0, 1} /\ (XDP => First = 0)
         /\ TotalPackets \in Nat /\ TotalPackets >= FramesToSend
         /\ \A n : n \in Packet <=> n \in Int /\ First <= n /\ n < First + TotalPackets
         /\ seq \in Int /\ count \in Int /\ First <= seq /\ seq <= First + TotalPackets
BY RunAssumption DEF TypeOK, First, TotalPackets, Packet, XDP

(* All queues and rows hold integers.                                      *)
LEMMA Queues ==
  ASSUME TypeOK
  PROVE  /\ wire \in Seq(Int) /\ rxbuf \in Seq(Int) /\ rxRows \in Seq(Int)
         /\ unstamped \in Seq(Int) /\ errqueue \in Seq(Int)
<1>1. Packet \subseteq Int /\ Packet \cup {Foreign} \subseteq Int
  BY Numbers DEF Foreign
<1>2. Seq(Packet) \subseteq Seq(Int) /\ Seq(Packet \cup {Foreign}) \subseteq Seq(Int)
  BY <1>1, SeqMonotonic
<1> QED
  BY <1>2 DEF TypeOK

(* The socket mode of a run does not change, nor what depends on it.       *)
LEMMA ModeFrame ==
  ASSUME UNCHANGED socket_mode
  PROVE  /\ XDP' = XDP /\ First' = First /\ TotalPackets' = TotalPackets
         /\ Packet' = Packet
BY DEF XDP, First, TotalPackets, Packet

(* An action that moves no packet keeps the chain of packets.              *)
LEMMA ChainFrame ==
  ASSUME Chain, UNCHANGED <<rxRows, rxbuf, wire, seq, overrun>>
  PROVE  Chain'
BY DEF Chain, InOrder

(* An action that moves no timestamp keeps the chain of timestamps.        *)
LEMMA StampFrame ==
  ASSUME StampChain, UNCHANGED <<socket_mode, enable_hwts, unstamped, errqueue, txRows, seq>>
  PROVE  StampChain'
BY DEF StampChain, XDP, StampsInOrder

(* Rows stay as they are while the receiver does not run, also when it is  *)
(* signalled.                                                              *)
LEMMA LastRowFrame ==
  ASSUME LastRow, UNCHANGED <<receiver, glob_rx_seq, rxRows>>,
         halt_tx_sig["rx"] => halt_tx_sig'["rx"]
  PROVE  LastRow'
BY DEF LastRow

(* What an action that leaves the result and the rows alone keeps.         *)
LEMMA ComputedFrame ==
  ASSUME UNCHANGED <<result, rxRows>>
  PROVE  Computed' = Computed /\ PACKET_LOSS' = PACKET_LOSS
BY DEF Computed, PACKET_LOSS, PACKET_RX, PACKET_DUPL

(* So does the result.                                                     *)
LEMMA ResultFrame ==
  ASSUME ResultFinal, UNCHANGED <<receiver, result, rxRows>>
  PROVE  ResultFinal'
BY DEF ResultFinal, Computed, PACKET_LOSS, PACKET_RX, PACKET_DUPL, NoResult

(***************************************************************************)
(* The invariant holds initially, and every action keeps it.               *)
(***************************************************************************)

(* A run starts with empty queues and no rows.                             *)
LEMMA InitIInv == Init => IInv
<1> SUFFICES ASSUME Init PROVE IInv
  OBVIOUS
<1> USE DEF Init, InitSender, InitReceiver
<1>0. /\ enable_hwts \in BOOLEAN /\ rxsock \in BOOLEAN /\ (XDP => ~enable_hwts)
      /\ enable_txtime \in BOOLEAN /\ enable_poll \in BOOLEAN
  BY Zenon
<1>1. TypeOK
  <2>1. TotalPackets \in Nat /\ First \in Int
    BY RunAssumption DEF TotalPackets, First
  <2>2. count \in 0 .. TotalPackets /\ seq = First + TotalPackets - count
    BY <2>1
  <2>3. /\ unstamped \in Seq(Packet) /\ errqueue \in Seq(Packet)
        /\ txRows \in Seq(Packet \X (Packet \cup {None}))
        /\ wire \in Seq(Packet) /\ rxbuf \in Seq(Packet \cup {Foreign}) /\ Len(rxbuf) <= BufCap
        /\ rxRows \in Seq(Packet) /\ cleanRows \in Seq(Packet)
    BY RunAssumption
  <2>4. timeout \in {"short", "negative", "endless"}
    OBVIOUS
  <2>5. queued \in 0 .. TxRing + NicCap /\ queued <= Len(wire)
    BY RunAssumption
  <2>6. overrun \in BOOLEAN /\ (overrun => XDP)
    BY Zenon
  <2>7. result \in {NoResult, TooLittle} \cup [rx : Nat, dupl : Nat, loss : Int]
    BY Zenon
  <2>8. halt_tx_sig \in [Side -> BOOLEAN] /\ glob_rx_seq \in Packet \cup {0}
    OBVIOUS
  <2> QED
    BY <1>0, <2>2, <2>3, <2>4, <2>5, <2>6, <2>7, <2>8, RunAssumption DEF TypeOK
<1>2. SenderState
  BY DEF SenderState
<1>3. Chain
  BY DEF Chain, InOrder, Ordered, Ahead, AllBelow
<1>4. StampChain
  BY <1>0 DEF StampChain, Rising, Below, AllBelow, RowsBelow, StampsInOrder
<1>5. LastRow
  BY RunAssumption DEF LastRow
<1>6. ResultFinal
  BY DEF ResultFinal, Computed
<1> QED
  BY <1>1, <1>2, <1>3, <1>4, <1>5, <1>6 DEF IInv

(* The test of the send loop.                                              *)
LEMMA SendLoopIInv == ASSUME IInv, SendLoop PROVE IInv'
<1> USE DEF IInv, SendLoop, optVars, stampVars, netVars, rxVars, overVars
<1>1. TypeOK'
  BY ModeFrame DEF TypeOK
<1>2. SenderState'
  BY ModeFrame DEF SenderState, TypeOK, Side
<1> QED
  BY <1>1, <1>2, ChainFrame, StampFrame, LastRowFrame, ResultFrame

(* A number is used up: what happens to seq and count in both ways to go   *)
(* on, and that all numbers before it stay below it.                       *)
LEMMA NumberUsed ==
  ASSUME TypeOK, sender = "sleep" => count >= 1, sender = "sleep",
         UNCHANGED socket_mode, count' = count - 1, seq' = seq + 1
  PROVE  /\ seq \in Packet /\ seq \in Int /\ seq >= 0 /\ seq >= First /\ (~XDP => seq >= 1)
         /\ count' \in 0 .. TotalPackets' /\ seq' = First' + TotalPackets' - count'
         /\ \A q \in Seq(Int) : AllBelow(q, seq) => AllBelow(q, seq')
<1>1. /\ First \in {0, 1} /\ TotalPackets \in Nat /\ seq \in Int /\ count \in Int
      /\ First <= seq /\ seq = First + TotalPackets - count /\ count \in 0 .. TotalPackets
  BY Numbers DEF TypeOK
<1>2. /\ seq \in Packet /\ count' \in 0 .. TotalPackets' /\ seq' = First' + TotalPackets' - count'
  BY <1>1, ModeFrame, Numbers
<1>3. ~XDP => seq >= 1
  BY <1>1 DEF First
<1>4. \A q \in Seq(Int) : AllBelow(q, seq) => AllBelow(q, seq')
  <2> TAKE q \in Seq(Int)
  <2>1. \A k \in 1 .. Len(q) : q[k] \in Int
    BY SeqFacts
  <2> QED
    BY <1>1, <2>1 DEF AllBelow
<1> QED
  BY <1>1, <1>2, <1>3, <1>4

(* The sender's rows are pairs of integers.                                *)
LEMMA TxRowFacts ==
  ASSUME TypeOK
  PROVE  /\ Len(txRows) \in Nat /\ DOMAIN txRows = 1 .. Len(txRows)
         /\ \A k \in 1 .. Len(txRows) :
              txRows[k][1] \in Packet /\ txRows[k][1] \in Int /\ txRows[k][2] \in Int
<1> DEFINE T == Packet \X (Packet \cup {None})
<1>1. txRows \in Seq(T)
  BY DEF TypeOK
<1>2. \A r \in T : r[1] \in Packet /\ r[1] \in Int /\ r[2] \in Int
  BY Numbers DEF None
<1> HIDE DEF T
<1> QED
  BY <1>1, <1>2, SeqFacts

(* Every timestamp printed so far is below the sender's next number.       *)
LEMMA RowsBelowSeq ==
  ASSUME TypeOK, StampChain, enable_hwts
  PROVE  \A k \in 1 .. Len(txRows) : txRows[k][2] < seq
<1>1. seq \in Int /\ seq >= 1
  BY Numbers DEF StampChain, First
<1> SUFFICES ASSUME NEW k \in 1 .. Len(txRows) PROVE txRows[k][2] < seq
  OBVIOUS
<1>2. txRows[k][1] \in Int /\ txRows[k][2] \in Int /\ txRows[k][1] < seq
  BY TxRowFacts DEF StampChain
<1>3. txRows[k][2] # None => txRows[k][2] <= txRows[k][1]
  BY TxRowFacts DEF StampChain, StampsInOrder
<1> QED
  BY <1>1, <1>2, <1>3 DEF None

(* Copying a payload overwrites a packet of the wire, or none.             *)
LEMMA CopiedFacts ==
  ASSUME TypeOK, seq \in Packet
  PROVE  /\ Copied \in Seq(Packet) /\ Len(Copied) = Len(wire) /\ Len(wire) \in Nat
         /\ ~Overwrites => Copied = wire
<1> DEFINE n == Len(wire)
           k == n - TxRing + 1
<1>1. n \in Nat /\ DOMAIN wire = 1 .. n /\ wire \in [1 .. n -> Packet]
  BY SeqFacts DEF TypeOK
<1>2. CASE Overwrites
  <2> DEFINE c == [wire EXCEPT ![k] = seq]
  <2>1. Copied = c
    BY <1>2 DEF Copied
  <2>2. c \in [1 .. n -> Packet]
    BY <1>1
  <2> HIDE DEF c, n
  <2>3. c \in Seq(Packet) /\ Len(c) = n
    BY <1>1, <2>2
  <2> QED
    BY <1>1, <1>2, <2>1, <2>3 DEF n
<1>3. CASE ~Overwrites
  BY <1>1, <1>3 DEF Copied, TypeOK
<1> QED
  BY <1>2, <1>3

(* An overrun is not forgotten, happens on AF_XDP only, and without one    *)
(* nothing is overwritten.                                                 *)
LEMMA CopyOverruns ==
  ASSUME TypeOK, CopyPayload
  PROVE  /\ overrun' \in BOOLEAN /\ (overrun' => XDP)
         /\ ~overrun' => ~overrun /\ ~Overwrites /\ cleanRows' = cleanRows
         /\ overrun => overrun' /\ cleanRows' = cleanRows
         /\ overrun' /\ ~overrun => cleanRows' = rxRows
<1>1. CASE Overwrites
  <2>1. overrun' = TRUE /\ XDP
    BY <1>1 DEF CopyPayload, Overwrites
  <2> QED
    BY <1>1, <2>1, Zenon DEF CopyPayload
<1>2. CASE ~Overwrites
  <2>1. overrun' = overrun /\ cleanRows' = cleanRows
    BY <1>2 DEF CopyPayload
  <2> QED
    BY <1>2, <2>1, Zenon DEF TypeOK
<1> QED
  BY <1>1, <1>2

(* The packet is handed to the socket.                                     *)
LEMMA SendIInv == ASSUME IInv, Send PROVE IInv'
<1> USE DEF IInv
<1>a. /\ sender = "sleep" /\ UNCHANGED socket_mode /\ count' = count - 1 /\ seq' = seq + 1
      /\ wire' = Append(Copied, seq)
      /\ unstamped' = IF enable_hwts THEN Append(unstamped, seq) ELSE unstamped
      /\ sender' \in {"stamp", "failed"}
      /\ lateSends' = IF halt_tx_sig["tx"] THEN lateSends + 1 ELSE lateSends
  BY DEF Send, optVars
<1>b. /\ UNCHANGED <<rxsock, enable_txtime, enable_hwts, enable_poll, timeout, errqueue, txRows, dup>>
      /\ UNCHANGED <<foreign, rxbuf, receiver, glob_rx_seq, rxRows, halt_tx_sig, result>>
  BY DEF Send, optVars, rxVars
<1>e. /\ CopyPayload /\ queued < TxRing + NicCap
      /\ queued' = IF XDP THEN queued + 1 ELSE queued
      /\ lost' = IF Overwrites THEN lost + 1 ELSE lost
  BY DEF Send
<1>c. /\ seq \in Packet /\ seq \in Int /\ seq >= 0 /\ seq >= First /\ (~XDP => seq >= 1)
      /\ count' \in 0 .. TotalPackets' /\ seq' = First' + TotalPackets' - count'
      /\ \A q \in Seq(Int) : AllBelow(q, seq) => AllBelow(q, seq')
  BY <1>a, NumberUsed DEF SenderState
<1>d. /\ wire \in Seq(Int) /\ rxbuf \in Seq(Int) /\ rxRows \in Seq(Int)
      /\ unstamped \in Seq(Int) /\ errqueue \in Seq(Int)
  BY Queues
<1>1. TypeOK'
  <2>1. wire' \in Seq(Packet) /\ Len(wire') = Len(wire) + 1 /\ Len(wire) \in Nat
    BY <1>a, <1>c, CopiedFacts, AppendFacts
  <2>2. unstamped' \in Seq(Packet)
    BY <1>a, <1>c, AppendFacts DEF TypeOK
  <2>3. lateSends' \in 0 .. 1
    BY <1>a DEF SenderState
  <2>4. queued' \in 0 .. TxRing + NicCap /\ queued' <= Len(wire') /\ (~XDP => queued' = 0)
    BY <1>e, <2>1, RunAssumption DEF TypeOK
  <2>5. lost' \in Nat
    BY <1>e DEF TypeOK
  <2>6. cleanRows' \in Seq(Packet)
    BY <1>e DEF CopyPayload, TypeOK
  <2>7. overrun' \in BOOLEAN /\ (overrun' => XDP)
    BY <1>e, CopyOverruns
  <2>8. sender' \in {"loop", "sleep", "stamp", "closed", "failed"}
    BY <1>a
  <2>9. XDP' = XDP /\ First' = First /\ TotalPackets' = TotalPackets /\ Packet' = Packet
    BY <1>a, ModeFrame
  <2> QED
    BY <1>b, <1>c, <2>1, <2>2, <2>3, <2>4, <2>5, <2>6, <2>7, <2>8, <2>9, <1>a DEF TypeOK
<1>2. SenderState'
  <2>1. seq' > First'
    BY <1>a, <1>c, ModeFrame, Numbers
  <2>2. lateSends' = 1 => halt_tx_sig'["tx"]
    BY <1>a, <1>b DEF SenderState
  <2>3. sender' # "sleep"
    BY <1>a
  <2> QED
    BY <2>1, <2>2, <2>3 DEF SenderState
<1>3. Chain'
  <2> SUFFICES ASSUME ~overrun' PROVE InOrder'
    BY DEF Chain
  <2>0. ~overrun /\ wire' = Append(wire, seq)
    BY <1>a, <1>c, <1>e, CopyOverruns, CopiedFacts
  <2>1. /\ AllBelow(rxRows, seq) /\ AllBelow(rxbuf, seq) /\ AllBelow(wire, seq)
        /\ Ordered(wire) /\ Ahead(rxRows, wire) /\ Ahead(rxbuf, wire)
        /\ Ordered(rxRows) /\ Ordered(rxbuf) /\ Ahead(rxRows, rxbuf)
    BY <2>0 DEF Chain, InOrder
  <2>2. /\ \A i \in 1 .. Len(rxRows) : rxRows[i] <= seq
        /\ \A i \in 1 .. Len(rxbuf) : rxbuf[i] <= seq
        /\ \A i \in 1 .. Len(wire) : wire[i] <= seq
    BY <1>c, <1>d, <2>1, SeqFacts DEF AllBelow
  <2>3. Ordered(wire') /\ Ahead(rxRows, wire') /\ Ahead(rxbuf, wire')
    BY <2>0, <1>c, <1>d, <2>1, <2>2, AppendKeeps
  <2>4. AllBelow(rxRows, seq') /\ AllBelow(rxbuf, seq') /\ AllBelow(wire, seq')
    BY <1>c, <1>d, <2>1
  <2>5. AllBelow(wire', seq')
    BY <1>a, <2>0, <1>c, <1>d, <2>4, AppendKeeps
  <2> QED
    BY <1>b, <2>1, <2>3, <2>4, <2>5 DEF InOrder
<1>4. StampChain'
  <2>1. XDP' = XDP
    BY <1>a, ModeFrame
  <2>2. AllBelow(errqueue, seq') /\ AllBelow(unstamped, seq')
    BY <1>c, <1>d DEF StampChain
  <2>3. StampsInOrder' /\ \A k \in 1 .. Len(txRows') : txRows'[k][1] < seq'
    BY <1>a, <1>b, <1>c, TxRowFacts DEF StampChain, StampsInOrder
  <2>4. CASE ~enable_hwts
    BY <1>a, <1>b, <2>1, <2>2, <2>3, <2>4 DEF StampChain
  <2>5. CASE enable_hwts
    <3>1. unstamped' = Append(unstamped, seq)
      BY <1>a, <2>5
    <3>2. Rising(unstamped') /\ Below(errqueue, unstamped') /\ AllBelow(unstamped', seq')
      BY <1>a, <1>c, <1>d, <2>2, <3>1, AppendKeeps DEF StampChain
    <3>3. RowsBelow(txRows, unstamped')
      <4>1. \A k \in 1 .. Len(txRows) : txRows[k][2] < seq
        BY <2>5, RowsBelowSeq
      <4>2. \A i \in 1 .. Len(unstamped') : unstamped'[i] = seq \/ \E j \in 1 .. Len(unstamped) : unstamped'[i] = unstamped[j]
        BY <1>c, <1>d, <3>1, AppendFacts
      <4>3. RowsBelow(txRows, unstamped)
        BY DEF StampChain
      <4> QED
        BY <4>1, <4>2, <4>3 DEF RowsBelow
    <3> QED
      BY <1>a, <1>b, <2>1, <2>2, <2>3, <2>5, <3>2, <3>3 DEF StampChain
  <2> QED
    BY <2>4, <2>5
<1>5. LastRow' /\ ResultFinal'
  BY <1>b, LastRowFrame, ResultFrame
<1> QED
  BY <1>1, <1>2, <1>3, <1>4, <1>5

(* A send that fails ends the sender, or uses the number up.               *)
LEMMA SendFailsIInv == ASSUME IInv, SendFails PROVE IInv'
<1> USE DEF IInv
<1>a. /\ sender = "sleep" /\ UNCHANGED socket_mode
      /\ UNCHANGED <<rxsock, enable_txtime, enable_hwts, enable_poll, timeout, unstamped, errqueue, txRows>>
      /\ UNCHANGED <<dup, foreign, rxbuf, receiver, glob_rx_seq, rxRows>>
      /\ UNCHANGED <<halt_tx_sig, lateSends, result, queued>>
  BY DEF SendFails, optVars, stampVars, rxVars
<1>b. LastRow' /\ ResultFinal'
  BY <1>a, LastRowFrame, ResultFrame
<1>1. CASE sender' = "failed" /\ UNCHANGED <<count, seq, lost, wire, overrun, cleanRows>>
  <2>1. TypeOK'
    BY <1>1, <1>a, ModeFrame DEF TypeOK
  <2>2. SenderState'
    BY <1>1, <1>a DEF SenderState
  <2> QED
    BY <1>1, <1>a, <1>b, <2>1, <2>2, ChainFrame, StampFrame
<1>2. CASE /\ sender' = "stamp" /\ count' = count - 1 /\ seq' = seq + 1 /\ lost' = lost + 1
           /\ \/ UNCHANGED <<wire, overrun, cleanRows>>
              \/ CopyPayload /\ wire' = Copied
  <2>1. /\ seq \in Packet /\ seq \in Int /\ seq >= First
        /\ count' \in 0 .. TotalPackets' /\ seq' = First' + TotalPackets' - count'
        /\ \A q \in Seq(Int) : AllBelow(q, seq) => AllBelow(q, seq')
    BY <1>2, <1>a, NumberUsed DEF SenderState
  <2>0. /\ wire' \in Seq(Packet) /\ Len(wire') = Len(wire) /\ cleanRows' \in Seq(Packet)
        /\ overrun' \in BOOLEAN /\ (overrun' => XDP)
        /\ ~overrun' => ~overrun /\ wire' = wire
    <3>1. CASE UNCHANGED <<wire, overrun, cleanRows>>
      BY <3>1 DEF TypeOK
    <3>2. CASE CopyPayload /\ wire' = Copied
      <4>1. wire' \in Seq(Packet) /\ Len(wire') = Len(wire) /\ (~Overwrites => wire' = wire)
        BY <2>1, <3>2, CopiedFacts
      <4>2. cleanRows' \in Seq(Packet)
        BY <3>2 DEF CopyPayload, TypeOK
      <4>3. /\ overrun' \in BOOLEAN /\ (overrun' => XDP)
            /\ ~overrun' => ~overrun /\ ~Overwrites
        BY <3>2, CopyOverruns
      <4> QED
        BY <4>1, <4>2, <4>3
    <3> QED
      BY <1>2, <3>1, <3>2
  <2>2. TypeOK'
    BY <1>2, <1>a, <2>0, <2>1, ModeFrame DEF TypeOK
  <2>3. SenderState'
    BY <1>2, <1>a, <2>1, ModeFrame, Numbers DEF SenderState, TypeOK
  <2>4. Chain'
    <3> SUFFICES ASSUME ~overrun' PROVE InOrder'
      BY DEF Chain
    <3>1. InOrder /\ wire' = wire
      BY <2>0 DEF Chain
    <3> QED
      BY <1>a, <2>1, <3>1, Queues DEF InOrder
  <2>5. StampChain'
    <3>1. AllBelow(errqueue, seq') /\ AllBelow(unstamped, seq')
      BY <2>1, Queues DEF StampChain
    <3>2. StampsInOrder' /\ \A k \in 1 .. Len(txRows') : txRows'[k][1] < seq'
      BY <1>2, <1>a, <2>1, TxRowFacts DEF StampChain, StampsInOrder
    <3> QED
      BY <1>a, <3>1, <3>2, ModeFrame DEF StampChain
  <2> QED
    BY <1>b, <2>2, <2>3, <2>4, <2>5
<1> QED
  BY <1>1, <1>2 DEF SendFails, overVars

(* The sender prints the row of the packet just sent, with a timestamp     *)
(* that is later than all it printed before, or none.                      *)
LEMMA RowPrinted ==
  ASSUME TypeOK, StampChain, seq > First, UNCHANGED <<socket_mode, seq>>,
         NEW x \in Packet \cup {None},
         x # None => x < seq /\ \A k \in 1 .. Len(txRows) : txRows[k][2] < x,
         txRows' = Append(txRows, <<seq - 1, x>>)
  PROVE  /\ txRows' \in Seq(Packet \X (Packet \cup {None}))
         /\ StampsInOrder' /\ \A k \in 1 .. Len(txRows') : txRows'[k][1] < seq'
         /\ \A q : RowsBelow(txRows, q) /\ (\A i \in 1 .. Len(q) : x < q[i])
                     => RowsBelow(txRows', q)
<1> DEFINE n == Len(txRows)
           T == Packet \X (Packet \cup {None})
           e == <<seq - 1, x>>
<1>1. seq \in Int /\ x \in Int /\ seq - 1 \in Packet
  BY Numbers DEF None
<1>2. e \in T /\ e[1] = seq - 1 /\ e[2] = x
  BY <1>1
<1>3. txRows \in Seq(T)
  BY DEF TypeOK
<1> HIDE DEF T, e
<1>4. /\ txRows' \in Seq(T) /\ n \in Nat /\ Len(txRows') = n + 1
      /\ \A k \in 1 .. n : txRows'[k] = txRows[k]
      /\ txRows'[n + 1] = e
      /\ DOMAIN txRows' = 1 .. n + 1
  BY <1>2, <1>3, AppendFacts, SeqFacts DEF e
<1>5. \A k \in 1 .. n + 1 : k = n + 1 \/ k \in 1 .. n
  BY <1>4
<1>6. /\ \A k \in 1 .. n : txRows[k][1] \in Int /\ txRows[k][2] \in Int /\ txRows[k][1] < seq
      /\ \A j, k \in 1 .. n : txRows[k][2] # None =>
           txRows[k][2] <= txRows[k][1] /\ (j < k => txRows[j][2] < txRows[k][2])
  BY TxRowFacts DEF StampChain, StampsInOrder
<1> HIDE DEF n
<1>7. StampsInOrder'
  <2> SUFFICES ASSUME NEW j \in 1 .. n + 1, NEW k \in 1 .. n + 1, txRows'[k][2] # None
               PROVE  /\ txRows'[k][2] <= txRows'[k][1]
                      /\ j < k => txRows'[j][2] < txRows'[k][2]
    BY <1>4 DEF StampsInOrder, None
  <2>1. CASE k = n + 1
    <3>1. txRows'[k][2] = x /\ txRows'[k][1] = seq - 1 /\ x # None
      BY <1>2, <1>4, <2>1
    <3>2. x <= seq - 1
      BY <1>1, <3>1
    <3>3. j < k => j \in 1 .. n
      BY <1>4, <2>1
    <3>4. j < k => txRows'[j][2] < x
      BY <1>4, <3>1, <3>3 DEF n
    <3> QED
      BY <3>1, <3>2, <3>4
  <2>2. CASE k \in 1 .. n
    <3>1. txRows'[k] = txRows[k]
      BY <1>4, <2>2
    <3>2. j < k => j \in 1 .. n /\ txRows'[j] = txRows[j]
      BY <1>4, <2>2
    <3> QED
      BY <1>6, <2>2, <3>1, <3>2
  <2> QED
    BY <1>5, <2>1, <2>2
<1>8. \A k \in 1 .. Len(txRows') : txRows'[k][1] < seq'
  BY <1>1, <1>2, <1>4, <1>5, <1>6
<1>9. \A q : RowsBelow(txRows, q) /\ (\A i \in 1 .. Len(q) : x < q[i]) => RowsBelow(txRows', q)
  BY <1>2, <1>4, <1>5 DEF RowsBelow, n
<1> QED
  BY <1>4, <1>7, <1>8, <1>9 DEF T

(* A row without a timestamp disturbs nothing.                             *)
LEMMA EmptyRowPrinted ==
  ASSUME TypeOK, StampChain, seq > First,
         UNCHANGED <<socket_mode, enable_hwts, errqueue, unstamped, seq>>,
         txRows' = Append(txRows, <<seq - 1, None>>)
  PROVE  txRows' \in Seq(Packet \X (Packet \cup {None})) /\ StampChain'
<1>1. /\ txRows' \in Seq(Packet \X (Packet \cup {None}))
      /\ StampsInOrder' /\ \A k \in 1 .. Len(txRows') : txRows'[k][1] < seq'
      /\ \A q : RowsBelow(txRows, q) /\ (\A i \in 1 .. Len(q) : None < q[i])
                  => RowsBelow(txRows', q)
  BY RowPrinted DEF None
<1>2. /\ \A i \in 1 .. Len(errqueue) : None < errqueue[i]
      /\ \A i \in 1 .. Len(unstamped) : None < unstamped[i]
  <2>1. CASE enable_hwts
    <3>1. First = 1
      BY <2>1 DEF StampChain, First
    <3>2. \A m \in Packet : None < m
      BY <3>1, Numbers DEF None
    <3> QED
      BY <3>2, SeqFacts DEF TypeOK
  <2>2. CASE ~enable_hwts
    BY <2>2 DEF StampChain
  <2> QED
    BY <2>1, <2>2
<1>3. RowsBelow(txRows', errqueue) /\ RowsBelow(txRows', unstamped)
  BY <1>1, <1>2 DEF StampChain
<1> QED
  BY <1>1, <1>3, ModeFrame DEF StampChain

(* select returns and the row is printed.                                  *)
LEMMA PrintStampIInv == ASSUME IInv, PrintStamp PROVE IInv'
<1> USE DEF IInv
<1>a. /\ sender = "stamp" /\ sender' = "loop" /\ UNCHANGED socket_mode
      /\ UNCHANGED <<rxsock, enable_txtime, enable_hwts, enable_poll, timeout, count, seq, unstamped>>
      /\ UNCHANGED <<wire, lost, dup, foreign, rxbuf, receiver, glob_rx_seq, rxRows>>
      /\ UNCHANGED <<halt_tx_sig, lateSends, result, queued, overrun, cleanRows>>
  BY DEF PrintStamp, optVars, netVars, rxVars, overVars
<1>b. LastRow' /\ ResultFinal' /\ Chain' /\ SenderState'
  BY <1>a, LastRowFrame, ResultFrame, ChainFrame, ModeFrame DEF SenderState
<1>c. seq > First
  BY <1>a DEF SenderState
<1>1. CASE UNCHANGED errqueue /\ txRows' = Append(txRows, <<seq - 1, None>>)
  <2>1. txRows' \in Seq(Packet \X (Packet \cup {None})) /\ StampChain'
    BY <1>1, <1>a, <1>c, EmptyRowPrinted
  <2>2. TypeOK'
    BY <1>1, <1>a, <2>1, ModeFrame DEF TypeOK
  <2> QED
    BY <1>b, <2>1, <2>2
<1>2. CASE /\ enable_hwts /\ errqueue # <<>>
           /\ txRows' = Append(txRows, <<seq - 1, Head(errqueue)>>)
           /\ extract_ts_from_cmsg
  <2> DEFINE x == Head(errqueue)
  <2>1. errqueue' = Tail(errqueue)
    BY <1>2 DEF extract_ts_from_cmsg
  <2>2. /\ errqueue' \in Seq(Packet) /\ x \in Packet /\ x = errqueue[1]
        /\ Len(errqueue) \in Nat /\ Len(errqueue) >= 1 /\ Len(errqueue') = Len(errqueue) - 1
        /\ \A k \in 1 .. Len(errqueue') : k + 1 \in 1 .. Len(errqueue) /\ errqueue'[k] = errqueue[k + 1]
    BY <1>2, <2>1, TailFacts DEF TypeOK
  <2> HIDE DEF x
  <2>3. x < seq /\ \A k \in 1 .. Len(txRows) : txRows[k][2] < x
    BY <2>2 DEF StampChain, AllBelow, RowsBelow
  <2>4. txRows' = Append(txRows, <<seq - 1, x>>)
    BY <1>2 DEF x
  <2>5. /\ txRows' \in Seq(Packet \X (Packet \cup {None}))
        /\ StampsInOrder' /\ \A k \in 1 .. Len(txRows') : txRows'[k][1] < seq'
        /\ \A q : RowsBelow(txRows, q) /\ (\A i \in 1 .. Len(q) : x < q[i])
                    => RowsBelow(txRows', q)
    BY <1>a, <1>c, <2>2, <2>3, <2>4, RowPrinted
  <2>6. /\ \A i \in 1 .. Len(unstamped) : x < unstamped[i]
        /\ \A i \in 1 .. Len(errqueue') : x < errqueue'[i]
    <3>1. \A i \in 1 .. Len(unstamped) : x < unstamped[i]
      BY <2>2 DEF StampChain, Below
    <3>2. ASSUME NEW i \in 1 .. Len(errqueue') PROVE x < errqueue'[i]
      <4>1. i + 1 \in 1 .. Len(errqueue) /\ 1 \in 1 .. Len(errqueue) /\ 1 < i + 1 /\ errqueue'[i] = errqueue[i + 1]
        BY <2>2
      <4> QED
        BY <2>2, <4>1 DEF StampChain, Rising
    <3> QED
      BY <3>1, <3>2
  <2>7. RowsBelow(txRows, errqueue')
    BY <2>2 DEF StampChain, RowsBelow
  <2>8. RowsBelow(txRows', errqueue') /\ RowsBelow(txRows', unstamped)
    BY <2>5, <2>6, <2>7 DEF StampChain
  <2>9. Rising(errqueue') /\ AllBelow(errqueue', seq) /\ Below(errqueue', unstamped)
    BY <1>2, <2>1, Queues, Numbers, TailKeeps DEF StampChain
  <2>10. StampChain'
    BY <1>2, <1>a, <2>5, <2>8, <2>9, ModeFrame DEF StampChain
  <2>11. TypeOK'
    BY <1>a, <2>2, <2>5, ModeFrame DEF TypeOK
  <2> QED
    BY <1>b, <2>10, <2>11
<1> QED
  BY <1>1, <1>2 DEF PrintStamp

(* A signal, whatever it interrupts.                                       *)
LEMMA SignalIInv == ASSUME IInv, NEW p \in Side, Signal(p) PROVE IInv'
<1> USE DEF IInv
<1>a. /\ halt_tx_sig' = [halt_tx_sig EXCEPT ![p] = TRUE] /\ UNCHANGED socket_mode
      /\ UNCHANGED <<rxsock, enable_txtime, enable_hwts, enable_poll, timeout, count, seq, unstamped>>
      /\ UNCHANGED <<errqueue, wire, lost, dup, foreign, rxbuf, receiver, glob_rx_seq, rxRows>>
      /\ UNCHANGED <<lateSends, result, queued, overrun, cleanRows>>
  BY DEF Signal, optVars, netVars, rxVars, overVars
<1>b. /\ halt_tx_sig' \in [Side -> BOOLEAN]
      /\ \A s \in Side : halt_tx_sig[s] => halt_tx_sig'[s]
  BY <1>a DEF TypeOK
<1>c. LastRow' /\ ResultFinal' /\ Chain'
  BY <1>a, <1>b, LastRowFrame, ResultFrame, ChainFrame DEF Side
<1>1. CASE UNCHANGED txRows /\ (UNCHANGED sender \/ sender' = "closed")
  <2>1. TypeOK'
    BY <1>1, <1>a, <1>b, ModeFrame DEF TypeOK
  <2>2. SenderState'
    BY <1>1, <1>a, <1>b, ModeFrame DEF SenderState, Side
  <2> QED
    BY <1>1, <1>a, <1>c, <2>1, <2>2, StampFrame
<1>2. CASE /\ sender = "stamp" /\ sender' = "loop"
           /\ txRows' = Append(txRows, <<seq - 1, None>>)
  <2>1. txRows' \in Seq(Packet \X (Packet \cup {None})) /\ StampChain'
    BY <1>2, <1>a, EmptyRowPrinted DEF SenderState
  <2>2. TypeOK'
    BY <1>2, <1>a, <1>b, <2>1, ModeFrame DEF TypeOK
  <2>3. SenderState'
    BY <1>2, <1>a, <1>b, ModeFrame DEF SenderState, Side
  <2> QED
    BY <1>c, <2>1, <2>2, <2>3
<1> QED
  BY <1>1, <1>2 DEF Signal

(* A timestamp is taken, and reaches the error queue or not.               *)
LEMMA StampIInv == ASSUME IInv, Stamp PROVE IInv'
<1> USE DEF IInv
<1>a. /\ unstamped # <<>> /\ unstamped' = Tail(unstamped) /\ UNCHANGED socket_mode
      /\ errqueue' \in {errqueue, Append(errqueue, Head(unstamped))}
      /\ UNCHANGED <<rxsock, enable_txtime, enable_hwts, enable_poll, timeout, sender, count, seq, txRows>>
      /\ UNCHANGED <<wire, lost, dup, foreign, rxbuf, receiver, glob_rx_seq, rxRows>>
      /\ UNCHANGED <<halt_tx_sig, lateSends, result, queued, overrun, cleanRows>>
  BY DEF Stamp, optVars, netVars, rxVars, overVars
<1>b. LastRow' /\ ResultFinal' /\ Chain' /\ SenderState'
  BY <1>a, LastRowFrame, ResultFrame, ChainFrame, ModeFrame DEF SenderState
<1> DEFINE h == Head(unstamped)
<1>1. /\ unstamped' \in Seq(Packet) /\ h \in Packet /\ h = unstamped[1]
      /\ Len(unstamped) \in Nat /\ Len(unstamped) >= 1 /\ Len(unstamped') = Len(unstamped) - 1
      /\ \A k \in 1 .. Len(unstamped') :
           k + 1 \in 1 .. Len(unstamped) /\ unstamped'[k] = unstamped[k + 1]
  BY <1>a, TailFacts DEF TypeOK
<1>2. errqueue' = errqueue \/ errqueue' = Append(errqueue, h)
  BY <1>a
<1> HIDE DEF h
<1>3. h \in Int /\ seq \in Int
  BY <1>1, Numbers
<1>4. TypeOK'
  <2>1. errqueue \in Seq(Packet) /\ Append(errqueue, h) \in Seq(Packet)
    <3>1. errqueue \in Seq(Packet)
      BY DEF TypeOK
    <3> QED
      BY <1>1, <3>1, AppendFacts
  <2>2. errqueue' \in Seq(Packet)
    BY <1>2, <2>1
  <2> QED
    BY <1>1, <1>a, <2>2, ModeFrame DEF TypeOK
<1>5. StampChain'
  <2>1. Rising(unstamped') /\ AllBelow(unstamped', seq) /\ Below(errqueue, unstamped')
    BY <1>a, Queues, Numbers, TailKeeps DEF StampChain
  <2>2. RowsBelow(txRows, unstamped')
    BY <1>1 DEF StampChain, RowsBelow
  <2>3. \A i \in 1 .. Len(unstamped') : h < unstamped'[i]
    <3> TAKE i \in 1 .. Len(unstamped')
    <3>1. i + 1 \in 1 .. Len(unstamped) /\ 1 \in 1 .. Len(unstamped) /\ 1 < i + 1
      BY <1>1
    <3> QED
      BY <1>1, <3>1 DEF StampChain, Rising
  <2>4. AllBelow(errqueue, h) /\ h < seq /\ \A k \in 1 .. Len(txRows) : txRows[k][2] < h
    BY <1>1 DEF StampChain, Below, AllBelow, RowsBelow
  <2>5. enable_hwts
    BY <1>a DEF StampChain
  <2>6. /\ Rising(errqueue') /\ Below(errqueue', unstamped') /\ AllBelow(errqueue', seq)
        /\ RowsBelow(txRows, errqueue')
    <3>1. CASE errqueue' = errqueue
      BY <2>1, <3>1 DEF StampChain
    <3>2. CASE errqueue' = Append(errqueue, h)
      <4>1. unstamped' \in Seq(Int)
        BY <1>a, Queues, TailKeeps
      <4>2. Rising(errqueue') /\ AllBelow(errqueue', seq) /\ Below(errqueue', unstamped')
        BY <1>3, <2>1, <2>3, <2>4, <3>2, <4>1, Queues, AppendKeeps DEF StampChain
      <4>3. \A i \in 1 .. Len(errqueue') :
              errqueue'[i] = h \/ \E j \in 1 .. Len(errqueue) : errqueue'[i] = errqueue[j]
        <5>1. errqueue \in Seq(Int)
          BY Queues
        <5>2. /\ Len(errqueue) \in Nat /\ Len(errqueue') = Len(errqueue) + 1
              /\ \A k \in 1 .. Len(errqueue) : errqueue'[k] = errqueue[k]
              /\ errqueue'[Len(errqueue) + 1] = h
          BY <1>3, <3>2, <5>1, AppendFacts
        <5> QED
          BY <5>2
      <4>4. RowsBelow(txRows, errqueue')
        BY <2>4, <4>3 DEF StampChain, RowsBelow
      <4> QED
        BY <4>2, <4>4
    <3> QED
      BY <1>2, <3>1, <3>2
  <2> QED
    BY <1>a, <2>1, <2>2, <2>5, <2>6, ModeFrame DEF StampChain, StampsInOrder
<1> QED
  BY <1>b, <1>4, <1>5

(* A tagged packet reaches the sender's socket.                            *)
LEMMA TaggedArrivesIInv == ASSUME IInv, TaggedArrives PROVE IInv'
<1> USE DEF IInv, TaggedArrives, stampVars, netVars, rxVars, overVars
<1>1. TypeOK' /\ SenderState'
  BY ModeFrame DEF TypeOK, SenderState
<1> QED
  BY <1>1, ChainFrame, StampFrame, LastRowFrame, ResultFrame

(* The network moves, loses or doubles the oldest packet on the wire.      *)
LEMMA TransmitIInv == ASSUME IInv, Transmit PROVE IInv'
<1> USE DEF IInv
<1>a. /\ Len(wire) > queued /\ UNCHANGED socket_mode
      /\ UNCHANGED <<rxsock, enable_txtime, enable_hwts, enable_poll, timeout, sender, count, seq>>
      /\ UNCHANGED <<unstamped, errqueue, txRows, foreign, receiver, glob_rx_seq, rxRows>>
      /\ UNCHANGED <<halt_tx_sig, lateSends, result, queued, overrun, cleanRows>>
  BY DEF Transmit, optVars, stampVars, rxVars, overVars
<1>b. LastRow' /\ ResultFinal' /\ StampChain' /\ SenderState'
  BY <1>a, LastRowFrame, ResultFrame, StampFrame, ModeFrame DEF SenderState
<1>c. /\ wire \in Seq(Int) /\ rxbuf \in Seq(Int) /\ rxRows \in Seq(Int) /\ seq \in Int
      /\ wire # <<>>
  BY <1>a, Queues, Numbers DEF TypeOK
<1>e. SUFFICES TypeOK' /\ (InOrder => InOrder')
  BY <1>a, <1>b DEF Chain
<1>d. ASSUME wire' \in Seq(Packet), rxbuf' \in Seq(Packet \cup {Foreign}), Len(rxbuf') <= BufCap,
             lost' \in Nat, dup' \in 0 .. MaxDup, Len(wire') >= Len(wire) - 1
      PROVE  TypeOK'
  <2>1. Len(wire) \in Nat /\ Len(wire') \in Nat /\ queued \in Nat
    BY <1>c, <1>d, RunAssumption, SeqFacts DEF TypeOK
  <2>2. queued <= Len(wire')
    BY <1>a, <1>d, <2>1
  <2> QED
    BY <1>a, <1>d, <2>2, ModeFrame DEF TypeOK
<1> DEFINE h == Head(wire)
<1>1. /\ Tail(wire) \in Seq(Packet) /\ h \in Packet /\ h \in Int /\ h = wire[1]
      /\ Len(wire) \in Nat /\ Len(wire) >= 1 /\ Len(Tail(wire)) = Len(wire) - 1
      /\ \A k \in 1 .. Len(Tail(wire)) : k + 1 \in 1 .. Len(wire) /\ Tail(wire)[k] = wire[k + 1]
  BY <1>c, TailFacts, Numbers DEF TypeOK
<1>2. InOrder => /\ Ordered(Tail(wire)) /\ AllBelow(Tail(wire), seq)
                 /\ Ahead(rxRows, Tail(wire)) /\ Ahead(rxbuf, Tail(wire))
                 /\ Tail(wire) \in Seq(Int)
  BY <1>c, TailKeeps DEF InOrder
<1>3. CASE wire' = Tail(wire) /\ UNCHANGED <<rxbuf, dup>> /\ lost' = lost + 1
  <2>1. TypeOK'
    BY <1>3, <1>1, <1>d DEF TypeOK
  <2>2. InOrder => InOrder'
    BY <1>3, <1>a, <1>2 DEF InOrder
  <2> QED
    BY <2>1, <2>2
<1>4. CASE /\ wire' = Tail(wire) /\ rxbuf' = Append(rxbuf, Head(wire)) /\ UNCHANGED <<lost, dup>>
           /\ Len(rxbuf) < BufCap
  <2>0. rxbuf' = Append(rxbuf, h)
    BY <1>4
  <2> HIDE DEF h
  <2>1. TypeOK'
    <3>1. rxbuf' \in Seq(Packet \cup {Foreign}) /\ Len(rxbuf) \in Nat /\ Len(rxbuf') = Len(rxbuf) + 1
      BY <1>1, <2>0, AppendFacts DEF TypeOK
    <3> QED
      BY <1>4, <1>1, <1>d, <3>1, RunAssumption DEF TypeOK
  <2>2. ASSUME InOrder PROVE InOrder'
    <3> USE <2>2
    <3>1. h # Foreign
      BY <1>1, Numbers DEF Foreign
    <3>2. h < seq
      BY <1>1 DEF InOrder, AllBelow
    <3>3. (\A i \in 1 .. Len(rxbuf) : rxbuf[i] <= h) /\ (\A i \in 1 .. Len(rxRows) : rxRows[i] <= h)
      BY <1>1, <3>1 DEF InOrder, Ahead
    <3>4. \A i \in 1 .. Len(Tail(wire)) : Tail(wire)[i] # Foreign => h <= Tail(wire)[i]
      <4> TAKE i \in 1 .. Len(Tail(wire))
      <4>1. i + 1 \in 1 .. Len(wire) /\ 1 \in 1 .. Len(wire) /\ 1 < i + 1 /\ Tail(wire)[i] = wire[i + 1]
        BY <1>1
      <4> QED
        BY <1>1, <4>1 DEF InOrder, Ordered
    <3>5. /\ Ordered(rxbuf') /\ AllBelow(rxbuf', seq) /\ Ahead(rxRows, rxbuf')
          /\ Ahead(rxbuf', Tail(wire))
      BY <1>1, <1>2, <1>c, <2>0, <3>2, <3>3, <3>4, AppendKeeps DEF InOrder
    <3> QED
      BY <1>4, <1>2, <1>a, <3>5 DEF InOrder
  <2> QED
    BY <2>1, <2>2
<1>5. CASE /\ wire' = <<Head(wire)>> \o wire /\ UNCHANGED <<lost, rxbuf>>
           /\ dup < MaxDup /\ dup' = dup + 1
  <2>1. TypeOK'
    <3>1. wire' \in Seq(Packet) /\ Len(wire') >= Len(wire) - 1
      BY <1>5, <1>c, DoubledFacts DEF TypeOK
    <3>2. dup' \in 0 .. MaxDup
      BY <1>5, RunAssumption DEF TypeOK
    <3> QED
      BY <1>5, <1>d, <3>1, <3>2 DEF TypeOK
  <2>2. ASSUME InOrder PROVE InOrder'
    <3>1. /\ Ordered(wire') /\ AllBelow(wire', seq) /\ Ahead(rxRows, wire') /\ Ahead(rxbuf, wire')
      BY <1>5, <1>c, <2>2, DoubledKeeps DEF InOrder
    <3> QED
      BY <1>5, <1>a, <2>2, <3>1 DEF InOrder
  <2> QED
    BY <2>1, <2>2
<1> QED
  BY <1>3, <1>4, <1>5 DEF Transmit

(* The driver sends a frame, or what is queued goes with the socket.       *)
LEMMA DriverSendsIInv == ASSUME IInv, DriverSends PROVE IInv'
<1> USE DEF IInv
<1>a. /\ queued > 0 /\ UNCHANGED socket_mode
      /\ UNCHANGED <<rxsock, enable_txtime, enable_hwts, enable_poll, timeout, sender, count, seq>>
      /\ UNCHANGED <<unstamped, errqueue, txRows, dup, foreign, rxbuf, receiver, glob_rx_seq, rxRows>>
      /\ UNCHANGED <<halt_tx_sig, lateSends, result, overrun, cleanRows>>
  BY DEF DriverSends, optVars, stampVars, rxVars, overVars
<1>b. LastRow' /\ ResultFinal' /\ StampChain' /\ SenderState'
  BY <1>a, LastRowFrame, ResultFrame, StampFrame, ModeFrame DEF SenderState
<1>c. queued \in Nat /\ queued <= TxRing + NicCap /\ TxRing + NicCap \in Nat /\ lost \in Nat
  BY RunAssumption DEF TypeOK
<1>d. XDP
  BY <1>a DEF TypeOK
<1>1. CASE queued' = queued - 1 /\ UNCHANGED <<wire, lost>>
  <2>1. queued' \in 0 .. TxRing + NicCap /\ queued' <= Len(wire)
    BY <1>a, <1>c, <1>1 DEF TypeOK
  <2>2. TypeOK'
    BY <1>a, <1>d, <1>1, <2>1, ModeFrame DEF TypeOK
  <2> QED
    BY <1>a, <1>b, <1>1, <2>2, ChainFrame
<1>2. CASE /\ queued' = 0 /\ lost' = lost + queued
           /\ wire' = SubSeq(wire, 1, Len(wire) - queued)
  <2> DEFINE n == Len(wire) - queued
  <2>0. wire \in Seq(Packet) /\ Len(wire) \in Nat /\ n \in 0 .. Len(wire)
    BY <1>c, SeqFacts DEF TypeOK
  <2> HIDE DEF n
  <2>1. /\ wire' \in Seq(Packet) /\ Len(wire') = n
        /\ \A k \in 1 .. n : wire'[k] = wire[k]
    BY <1>2, <2>0 DEF n
  <2>2. TypeOK'
    <3>1. queued' \in 0 .. TxRing + NicCap /\ queued' <= Len(wire') /\ lost' \in Nat
      BY <1>c, <1>2, <2>0, <2>1
    <3> QED
      BY <1>a, <1>2, <2>1, <3>1, ModeFrame DEF TypeOK
  <2>3. InOrder => InOrder'
    <3>1. \A k \in 1 .. n : k \in 1 .. Len(wire)
      BY <2>0
    <3>2. Ordered(wire) => Ordered(wire')
      BY <2>1, <3>1 DEF Ordered
    <3>3. AllBelow(wire, seq) => AllBelow(wire', seq)
      BY <2>1, <3>1 DEF AllBelow
    <3>4. /\ Ahead(rxRows, wire) => Ahead(rxRows, wire')
          /\ Ahead(rxbuf, wire) => Ahead(rxbuf, wire')
      BY <2>1, <3>1 DEF Ahead
    <3> QED
      BY <1>a, <3>2, <3>3, <3>4 DEF InOrder
  <2> QED
    BY <1>a, <1>b, <2>2, <2>3 DEF Chain
<1> QED
  BY <1>1, <1>2 DEF DriverSends

(* A packet of another program reaches the receiver's buffer.              *)
LEMMA ForeignArrivesIInv == ASSUME IInv, ForeignArrives PROVE IInv'
<1> USE DEF IInv
<1>a. /\ foreign < MaxForeign /\ foreign' = foreign + 1 /\ UNCHANGED socket_mode
      /\ Len(rxbuf) < BufCap /\ rxbuf' = Append(rxbuf, Foreign)
      /\ UNCHANGED <<rxsock, enable_txtime, enable_hwts, enable_poll, timeout, sender, count, seq>>
      /\ UNCHANGED <<unstamped, errqueue, txRows, wire, lost, dup, receiver, glob_rx_seq, rxRows>>
      /\ UNCHANGED <<halt_tx_sig, lateSends, result, queued, overrun, cleanRows>>
  BY DEF ForeignArrives, optVars, stampVars, rxVars, overVars
<1>b. LastRow' /\ ResultFinal' /\ StampChain' /\ SenderState'
  BY <1>a, LastRowFrame, ResultFrame, StampFrame, ModeFrame DEF SenderState
<1>c. wire \in Seq(Int) /\ rxbuf \in Seq(Int) /\ rxRows \in Seq(Int) /\ seq \in Int /\ Foreign < seq
  BY Queues, Numbers DEF Foreign
<1>1. TypeOK'
  <2>1. /\ rxbuf' \in Seq(Packet \cup {Foreign}) /\ Len(rxbuf) \in Nat
        /\ Len(rxbuf') = Len(rxbuf) + 1
    BY <1>a, AppendFacts DEF TypeOK
  <2>2. Len(rxbuf') <= BufCap /\ foreign' \in 0 .. MaxForeign
    BY <1>a, <2>1, RunAssumption DEF TypeOK
  <2> QED
    BY <1>a, <2>1, <2>2, ModeFrame DEF TypeOK
<1>2. Chain'
  <2> SUFFICES ASSUME InOrder PROVE InOrder'
    BY <1>a DEF Chain
  <2>1. \A i \in 1 .. Len(wire) : Foreign <= wire[i]
    <3>1. \A n \in Packet : Foreign <= n
      BY Numbers DEF Foreign
    <3> QED
      BY <3>1, SeqFacts DEF TypeOK
  <2>2. Foreign \in Int
    BY DEF Foreign
  <2>3. Ordered(rxbuf') /\ AllBelow(rxbuf', seq) /\ Ahead(rxRows, rxbuf') /\ Ahead(rxbuf', wire)
    BY <1>a, <1>c, <2>1, <2>2, AppendKeeps DEF InOrder
  <2> QED
    BY <1>a, <2>3 DEF InOrder
<1> QED
  BY <1>b, <1>1, <1>2

(* The test of main's loop.                                                *)
LEMMA RecvLoopIInv == ASSUME IInv, RecvLoop PROVE IInv'
<1> USE DEF IInv, RecvLoop, optVars, stampVars, netVars, overVars
<1>1. TypeOK' /\ SenderState'
  BY ModeFrame DEF TypeOK, SenderState
<1>2. LastRow'
  BY DEF LastRow
<1>3. ResultFinal'
  BY ComputedFrame DEF ResultFinal
<1> QED
  BY <1>1, <1>2, <1>3, ChainFrame, StampFrame

(* A packet is taken from the buffer and its row printed, or it is refused,*)
(* or there is none; a row that shows the last number stops the receiver.  *)
LEMMA RecvPktIInv == ASSUME IInv, recv_pkt PROVE IInv'
<1> USE DEF IInv
<1>a. /\ receiver = "recv" /\ UNCHANGED socket_mode
      /\ receiver' = IF LastSeen(glob_rx_seq') THEN "closed" ELSE "loop"
      /\ rxbuf' = IF rxbuf = <<>> THEN <<>> ELSE Tail(rxbuf)
      /\ UNCHANGED <<rxsock, enable_txtime, enable_hwts, enable_poll, timeout, sender, count, seq>>
      /\ UNCHANGED <<unstamped, errqueue, txRows, wire, lost, dup, foreign>>
      /\ UNCHANGED <<halt_tx_sig, lateSends, result, queued, overrun, cleanRows>>
  BY DEF recv_pkt, optVars, stampVars, overVars
<1>b. StampChain' /\ SenderState'
  BY <1>a, StampFrame, ModeFrame DEF SenderState
<1>c. ResultFinal'
  BY <1>a DEF ResultFinal, Computed, NoResult, TooLittle
<1>d. /\ wire \in Seq(Int) /\ rxbuf \in Seq(Int) /\ rxRows \in Seq(Int) /\ seq \in Int
      /\ rxbuf \in Seq(Packet \cup {Foreign}) /\ rxRows \in Seq(Packet) /\ Len(rxbuf) \in Nat
  BY Queues, Numbers, SeqFacts DEF TypeOK
<1>1. /\ rxbuf' \in Seq(Packet \cup {Foreign}) /\ rxbuf' \in Seq(Int) /\ Len(rxbuf') <= BufCap
      /\ InOrder => /\ Ordered(rxbuf') /\ AllBelow(rxbuf', seq)
                    /\ Ahead(rxRows, rxbuf') /\ Ahead(rxbuf', wire)
  <2>1. CASE rxbuf = <<>>
    BY <1>a, <1>d, <2>1 DEF TypeOK, InOrder
  <2>2. CASE rxbuf # <<>>
    <3>1. rxbuf' = Tail(rxbuf)
      BY <1>a, <2>2
    <3>2. rxbuf' \in Seq(Packet \cup {Foreign}) /\ Len(rxbuf') = Len(rxbuf) - 1
      BY <1>d, <2>2, <3>1, TailFacts
    <3>3. Len(rxbuf') <= BufCap
      BY <1>d, <3>2, RunAssumption DEF TypeOK
    <3>4. /\ InOrder => /\ Ordered(rxbuf') /\ AllBelow(rxbuf', seq)
                        /\ Ahead(rxRows, rxbuf') /\ Ahead(rxbuf', wire)
          /\ rxbuf' \in Seq(Int)
      BY <1>d, <2>2, <3>1, TailKeeps DEF InOrder
    <3> QED
      BY <3>2, <3>3, <3>4
  <2> QED
    BY <2>1, <2>2
<1>2. ASSUME rxRows' \in Seq(Packet), glob_rx_seq' \in Packet \cup {0} PROVE TypeOK'
  BY <1>a, <1>1, <1>2, ModeFrame DEF TypeOK
<1>3. CASE UNCHANGED <<rxRows, glob_rx_seq>>
  <2>1. TypeOK'
    BY <1>3, <1>2 DEF TypeOK
  <2>2. Chain'
    BY <1>3, <1>a, <1>1 DEF Chain, InOrder
  <2>3. LastRow'
    BY <1>3, <1>a DEF LastRow, LastSeen
  <2> QED
    BY <1>b, <1>c, <2>1, <2>2, <2>3
<1>4. CASE /\ rxbuf # <<>> /\ Valid(Head(rxbuf))
           /\ rxRows' = Append(rxRows, Head(rxbuf)) /\ glob_rx_seq' = Head(rxbuf)
  <2> DEFINE h == Head(rxbuf)
             n == Len(rxRows)
  <2>1. /\ h = rxbuf[1] /\ h \in Packet \cup {Foreign} /\ Len(rxbuf) >= 1
        /\ rxbuf' = Tail(rxbuf) /\ Len(rxbuf') = Len(rxbuf) - 1
        /\ \A k \in 1 .. Len(rxbuf') : k + 1 \in 1 .. Len(rxbuf) /\ rxbuf'[k] = rxbuf[k + 1]
    BY <1>4, <1>a, <1>d, TailFacts
  <2>2. Valid(h) /\ rxRows' = Append(rxRows, h) /\ glob_rx_seq' = h
    BY <1>4
  <2> HIDE DEF h
  <2>3. h \in Packet /\ h \in Int /\ h >= 1 /\ h # Foreign
    <3>1. h # Foreign /\ h \in Packet
      BY <2>1, <2>2 DEF Valid
    <3>2. h \in Int /\ First <= h
      BY <3>1, Numbers
    <3>3. h >= 1
      BY <2>2, <3>2 DEF Valid, First
    <3> QED
      BY <3>1, <3>2, <3>3
  <2>4. /\ rxRows' \in Seq(Packet) /\ rxRows' # <<>> /\ n \in Nat /\ Len(rxRows') = n + 1
        /\ \A k \in 1 .. n : rxRows'[k] = rxRows[k]
        /\ rxRows'[n + 1] = h
    BY <1>d, <2>2, <2>3, AppendFacts
  <2> HIDE DEF n
  <2>5. TypeOK'
    BY <1>2, <2>2, <2>3, <2>4
  <2>6. Chain'
    <3> SUFFICES ASSUME InOrder PROVE InOrder'
      BY <1>a DEF Chain
    <3>1. h < seq /\ \A i \in 1 .. Len(rxRows) : rxRows[i] <= h
      BY <1>d, <2>1, <2>3 DEF InOrder, Ahead, AllBelow
    <3>2. \A i \in 1 .. Len(wire) : wire[i] # Foreign => h <= wire[i]
      BY <1>d, <2>1 DEF InOrder, Ahead
    <3>3. \A i \in 1 .. Len(rxbuf') : rxbuf'[i] # Foreign => h <= rxbuf'[i]
      <4> TAKE i \in 1 .. Len(rxbuf')
      <4>1. i + 1 \in 1 .. Len(rxbuf) /\ 1 \in 1 .. Len(rxbuf) /\ 1 < i + 1 /\ rxbuf'[i] = rxbuf[i + 1]
        BY <1>d, <2>1
      <4> QED
        BY <2>1, <4>1 DEF InOrder, Ordered
    <3>4. /\ Ordered(rxRows') /\ AllBelow(rxRows', seq) /\ Ahead(rxRows', rxbuf')
          /\ Ahead(rxRows', wire)
      BY <1>1, <1>d, <2>2, <2>3, <3>1, <3>2, <3>3, AppendKeeps DEF InOrder
    <3> QED
      BY <1>1, <1>a, <3>4 DEF InOrder
  <2>7. LastRow'
    <3>1. \A k \in 1 .. n : rxRows[k] >= 1 /\ rxRows[k] < FramesToSend
      <4> SUFFICES ASSUME NEW k \in 1 .. n PROVE rxRows[k] >= 1 /\ rxRows[k] < FramesToSend
        OBVIOUS
      <4>1. rxRows # <<>>
        BY <2>4, <1>d DEF n
      <4>2. k = n => rxRows[k] = glob_rx_seq /\ glob_rx_seq < FramesToSend
        BY <1>a, <4>1 DEF LastRow, n
      <4>3. k # n => k < n
        BY <2>4
      <4> QED
        BY <4>2, <4>3 DEF LastRow, n
    <3>2. \A k \in 1 .. n + 1 : k = n + 1 \/ (k \in 1 .. n /\ k < n + 1)
      BY <2>4
    <3>3. \A k \in 1 .. Len(rxRows') :
            rxRows'[k] >= 1 /\ (k < Len(rxRows') => rxRows'[k] < FramesToSend)
      BY <2>3, <2>4, <3>1, <3>2
    <3>4. glob_rx_seq' = IF rxRows' = <<>> THEN 0 ELSE rxRows'[Len(rxRows')]
      BY <2>2, <2>4
    <3>5. /\ receiver' # "closed" => glob_rx_seq' < FramesToSend
          /\ receiver' = "closed" => glob_rx_seq' >= FramesToSend
      BY <1>a, <2>2, <2>3, RunAssumption DEF LastSeen
    <3> QED
      BY <3>3, <3>4, <3>5 DEF LastRow
  <2> QED
    BY <1>b, <1>c, <2>5, <2>6, <2>7
<1> QED
  BY <1>3, <1>4 DEF recv_pkt

(* uniq -D counts rows: there are finitely many.                           *)
LEMMA DuplicatesCounted ==
  ASSUME NEW S, rxRows \in Seq(S)
  PROVE  PACKET_RX \in Nat /\ PACKET_DUPL \in Nat
<1>1. Len(rxRows) \in Nat /\ DOMAIN rxRows = 1 .. Len(rxRows)
  BY SeqFacts
<1>2. IsFiniteSet(DOMAIN rxRows)
  BY <1>1, FS_Interval
<1> DEFINE D == {k \in DOMAIN rxRows :
                   \/ k > 1 /\ rxRows[k - 1] = rxRows[k]
                   \/ k < Len(rxRows) /\ rxRows[k + 1] = rxRows[k]}
<1>3. D \subseteq DOMAIN rxRows
  OBVIOUS
<1> HIDE DEF D
<1>4. IsFiniteSet(D)
  BY <1>2, <1>3, FS_Subset
<1>5. Cardinality(D) \in Nat
  BY <1>4, FS_CardinalityType
<1> QED
  BY <1>1, <1>5 DEF PACKET_RX, PACKET_DUPL, D

(* The script computes the result.                                         *)
LEMMA CalcIInv == ASSUME IInv, calc_rx_duploss PROVE IInv'
<1> USE DEF IInv, optVars, stampVars, netVars, rxVars, overVars
<1>1. PACKET_RX \in Nat /\ PACKET_DUPL \in Nat /\ PACKET_LOSS \in Int
  BY DuplicatesCounted, RunAssumption DEF TypeOK, PACKET_LOSS
<1>2. \/ result' = TooLittle
      \/ result' \in [rx : Nat, dupl : Nat, loss : Int] /\ result'.loss = PACKET_LOSS
  BY <1>1 DEF calc_rx_duploss
<1>3. TypeOK' /\ SenderState'
  BY <1>2, ModeFrame DEF TypeOK, SenderState, calc_rx_duploss
<1>4. ResultFinal'
  <2>1. PACKET_LOSS' = PACKET_LOSS
    BY DEF PACKET_LOSS, PACKET_RX, PACKET_DUPL, calc_rx_duploss
  <2> QED
    BY <1>2, <2>1 DEF ResultFinal, Computed, calc_rx_duploss
<1> QED
  BY <1>3, <1>4, ChainFrame, StampFrame, LastRowFrame DEF calc_rx_duploss

(***************************************************************************)
(* The theorems.  They are stated for the programs started by hand;        *)
(* started by the scripts they behave no differently (Spec =>              *)
(* UnattendedSpec).                                                        *)
(***************************************************************************)

(* The chains and the rest of IInv are inductive.                          *)
THEOREM Inductive == UnattendedSpec => []IInv
<1>1. Init => IInv
  BY InitIInv
<1>2. ASSUME IInv, UNCHANGED vars PROVE IInv'
  <2> USE <1>2 DEF IInv, vars, optVars, stampVars, netVars, rxVars, overVars
  <2>1. TypeOK' /\ SenderState'
    BY ModeFrame DEF TypeOK, SenderState
  <2> QED
    BY <2>1, ChainFrame, StampFrame, LastRowFrame, ResultFrame
<1>3. IInv /\ [Next]_vars => IInv'
  BY <1>2, SendLoopIInv, SendIInv, SendFailsIInv, PrintStampIInv, SignalIInv, StampIInv,
     TaggedArrivesIInv, DriverSendsIInv, TransmitIInv, ForeignArrivesIInv, RecvLoopIInv,
     RecvPktIInv, CalcIInv, Zenon DEF Next, Sender, Receiver, Network
<1> QED
  BY <1>1, <1>3, PTL DEF UnattendedSpec

(* Every variable keeps its type, the sender's counters add up, and at     *)
(* most one packet is sent after the signal.                               *)
THEOREM TypeCorrect == UnattendedSpec => []TypeOK
BY Inductive, PTL DEF IInv

(* The timestamp column of the sender's rows never repeats a timestamp and *)
(* never shows one of a later packet.                                      *)
THEOREM StampOrder == UnattendedSpec => []StampsInOrder
<1>1. IInv => StampsInOrder
  BY DEF IInv, StampChain
<1> QED
  BY <1>1, Inductive, PTL

(* When the receiver stops by itself, and no frame was overwritten, no     *)
(* packet it misses is still to come.                                      *)
LEMMA LeftBehind == ASSUME IInv PROVE NothingLeftBehind
<1> USE DEF IInv
<1> SUFFICES ASSUME receiver = "closed" /\ ~halt_tx_sig["rx"] /\ ~overrun, NEW n \in Missing,
                    n \in Distinct(rxbuf) \cup Distinct(wire)
             PROVE  FALSE
  BY DEF NothingLeftBehind
<1>0. InOrder
  BY DEF Chain
<1> DEFINE m == Len(rxRows)
           l == rxRows[m]
<1>1. glob_rx_seq >= FramesToSend
  BY DEF LastRow
<1>2. rxRows # <<>> /\ l >= FramesToSend
  BY <1>1, RunAssumption DEF LastRow
<1>3. rxRows \in Seq(Int) /\ rxbuf \in Seq(Int) /\ wire \in Seq(Int)
  BY Queues
<1>4. m \in 1 .. Len(rxRows) /\ DOMAIN rxRows = 1 .. Len(rxRows) /\ l \in Int
  BY <1>2, <1>3, SeqFacts
<1> HIDE DEF m
<1>5. l \in Distinct(rxRows)
  BY <1>4 DEF Distinct
<1> HIDE DEF l
<1>6. n \in 1 .. FramesToSend /\ (n < FramesToSend \/ l < n)
  BY <1>5 DEF Missing
<1>7. n \in Int /\ n >= 1 /\ n < FramesToSend
  BY <1>2, <1>4, <1>6, RunAssumption
<1>8. \/ \E i \in 1 .. Len(rxbuf) : n = rxbuf[i]
      \/ \E i \in 1 .. Len(wire) : n = wire[i]
  BY <1>3, SeqFacts DEF Distinct
<1>9. l <= n
  BY <1>0, <1>4, <1>7, <1>8 DEF InOrder, Ahead, Foreign, l
<1> QED
  BY <1>2, <1>4, <1>7, <1>9, RunAssumption

(* The receiver that stops by itself, at number frames_to_send or a flush  *)
(* packet, leaves no packet behind, whatever the network did, unless an    *)
(* AF_XDP sender wrote a frame again before it was sent.                   *)
THEOREM NoneLeftBehind == UnattendedSpec => []NothingLeftBehind
BY LeftBehind, Inductive, PTL

(* As many packets are missing as there are numbers that no row shows: the *)
(* one number at or above frames_to_send stands for the last packet.       *)
LEMMA MissingCount ==
  ASSUME IInv
  PROVE  /\ IsFiniteSet(Distinct(rxRows))
         /\ Cardinality(Missing) = FramesToSend - Cardinality(Distinct(rxRows))
<1> USE DEF IInv
<1> DEFINE D == Distinct(rxRows)
           F == FramesToSend
           Cap == [p \in D |-> IF p < F THEN p ELSE F]
           C == {Cap[p] : p \in D}
<1>0. F \in Nat /\ F >= 1
  BY RunAssumption
<1>1. /\ Len(rxRows) \in Nat /\ DOMAIN rxRows = 1 .. Len(rxRows)
      /\ \A k \in 1 .. Len(rxRows) : rxRows[k] \in Int
  BY Queues, SeqFacts
<1>2. \A p \in D : \E k \in 1 .. Len(rxRows) : p = rxRows[k] /\ p \in Int /\ p >= 1
  BY <1>1 DEF Distinct, LastRow
<1>3. \A p, q \in D : p >= F /\ q >= F => p = q
  <2> SUFFICES ASSUME NEW p \in D, NEW q \in D, p >= F, q >= F PROVE p = q
    OBVIOUS
  <2>1. PICK j \in 1 .. Len(rxRows) : p = rxRows[j] /\ p \in Int
    BY <1>2
  <2>2. PICK k \in 1 .. Len(rxRows) : q = rxRows[k] /\ q \in Int
    BY <1>2
  <2>3. ~(j < Len(rxRows)) /\ ~(k < Len(rxRows))
    BY <1>0, <2>1, <2>2 DEF LastRow
  <2>4. j = k
    BY <1>1, <2>3
  <2> QED
    BY <2>1, <2>2, <2>4
<1> HIDE DEF D, F
<1>4. \A p, q \in D : Cap[p] = Cap[q] => p = q
  BY <1>0, <1>2, <1>3
<1>5. Cap \in [D -> C] /\ (\A p, q \in D : Cap[p] = Cap[q] => p = q)
      /\ \A c \in C : \E p \in D : Cap[p] = c
  BY <1>4
<1>6. C \subseteq 1 .. F
  BY <1>0, <1>2
<1>7. Missing = (1 .. F) \ C
  <2>1. \A n \in 1 .. F : n \in C <=> \E p \in D : ~(p # n /\ (n < F \/ p < n))
    BY <1>0, <1>2
  <2> QED
    BY <2>1 DEF Missing, D, F
<1> HIDE DEF Cap, C
<1>8. Cap \in Bijection(D, C) /\ Cap \in Injection(D, C)
  BY <1>5 DEF Bijection, Injection, Surjection, IsInjective
<1>9. IsFiniteSet(1 .. F) /\ Cardinality(1 .. F) = F
  BY <1>0, FS_Interval
<1>10. IsFiniteSet(C)
  BY <1>6, <1>9, FS_Subset
<1>11. IsFiniteSet(D)
  BY <1>8, <1>10, FS_Injection
<1>12. Cardinality(C) = Cardinality(D)
  <2>1. ExistsBijection(D, C)
    BY <1>8 DEF ExistsBijection
  <2> QED
    BY <1>11, <2>1, FS_Bijection
<1>13. (1 .. F) \cap C = C
  BY <1>6
<1>14. Cardinality(Missing) = F - Cardinality(C)
  <2> DEFINE S == 1 .. F
  <2>1. IsFiniteSet(S) /\ Missing = S \ C /\ S \cap C = C /\ Cardinality(S) = F
    BY <1>7, <1>9, <1>13
  <2> HIDE DEF S
  <2>2. Cardinality(S \ C) = Cardinality(S) - Cardinality(S \cap C)
    BY <2>1, FS_Difference
  <2> QED
    BY <2>1, <2>2
<1> QED
  BY <1>11, <1>12, <1>14 DEF D, F

(* No fewer rows than numbers, and if they are as many uniq -D prints      *)
(* nothing.                                                                *)
LEMMA RowCount ==
  ASSUME IInv
  PROVE  /\ Cardinality(Distinct(rxRows)) <= Len(rxRows)
         /\ Len(rxRows) = Cardinality(Distinct(rxRows)) => PACKET_DUPL = 0
<1> USE DEF IInv
<1> DEFINE D == Distinct(rxRows)
           n == Len(rxRows)
<1>1. n \in Nat /\ DOMAIN rxRows = 1 .. n /\ rxRows \in [1 .. n -> Int]
  BY Queues, SeqFacts
<1>2. rxRows \in [1 .. n -> D] /\ \A d \in D : \E k \in 1 .. n : rxRows[k] = d
  BY <1>1 DEF Distinct
<1>3. rxRows \in Surjection(1 .. n, D)
  BY <1>2 DEF Surjection
<1>4. IsFiniteSet(1 .. n) /\ Cardinality(1 .. n) = n
  BY <1>1, FS_Interval
<1>5. /\ Cardinality(D) <= n
      /\ Cardinality(D) = n <=> rxRows \in Injection(1 .. n, D)
  BY <1>3, <1>4, FS_Surjection
<1>6. ASSUME Cardinality(D) = n PROVE PACKET_DUPL = 0
  <2> DEFINE E == {k \in DOMAIN rxRows :
                     \/ k > 1 /\ rxRows[k - 1] = rxRows[k]
                     \/ k < Len(rxRows) /\ rxRows[k + 1] = rxRows[k]}
  <2>1. \A j, k \in 1 .. n : rxRows[j] = rxRows[k] => j = k
    BY <1>1, <1>5, <1>6 DEF Injection, IsInjective
  <2>2. E = {}
    <3> SUFFICES ASSUME NEW k \in E PROVE FALSE
      OBVIOUS
    <3>1. k \in 1 .. n
      BY <1>1
    <3>2. CASE k > 1 /\ rxRows[k - 1] = rxRows[k]
      BY <1>1, <2>1, <3>1, <3>2
    <3>3. CASE k < Len(rxRows) /\ rxRows[k + 1] = rxRows[k]
      BY <1>1, <2>1, <3>1, <3>3
    <3> QED
      BY <3>2, <3>3
  <2> HIDE DEF E
  <2> QED
    BY <2>2, FS_EmptySet DEF PACKET_DUPL, E
<1> QED
  BY <1>5, <1>6

(* The Losses column of calc_rx_duploss never exceeds the number of        *)
(* packets that are missing, and equals it when no packet was printed      *)
(* twice.                                                                  *)
THEOREM LossesCounted == UnattendedSpec => []LossesAccount
<1>1. ASSUME IInv PROVE LossesAccount
  <2> SUFFICES ASSUME Computed
               PROVE  /\ result.loss <= Cardinality(Missing)
                      /\ Len(rxRows) = Cardinality(Distinct(rxRows))
                           => result.loss = Cardinality(Missing)
    BY DEF LossesAccount
  <2>1. result.loss = FramesToSend - Len(rxRows) - PACKET_DUPL
    BY <1>1 DEF IInv, ResultFinal, PACKET_LOSS, PACKET_RX
  <2>2. Len(rxRows) \in Nat /\ PACKET_DUPL \in Nat
    BY <1>1, Queues, DuplicatesCounted DEF IInv, PACKET_RX
  <2>3. Cardinality(Distinct(rxRows)) \in Nat
    BY <1>1, MissingCount, FS_CardinalityType
  <2> QED
    BY <1>1, <2>1, <2>2, <2>3, MissingCount, RowCount, RunAssumption
<1> QED
  BY <1>1, Inductive, PTL

(* Steps of the programs are steps of NumberedLink: a send, or a failed    *)
(* one that uses up its number, is a Number, a row printed before any      *)
(* overrun is a Log, all others stutter.                                   *)
LEMMA StepRefines ==
  ASSUME IInv, [Next]_vars PROVE [Link!LinkNext]_(Link!linkVars)
<1> USE DEF IInv
<1> DEFINE log == IF overrun THEN cleanRows ELSE rxRows
<1>1. CASE UNCHANGED <<socket_mode, seq>> /\ log' = log
  BY <1>1, ModeFrame DEF Link!linkVars
<1>2. ASSUME Send \/ SendFails PROVE [Link!LinkNext]_(Link!linkVars)
  <2>0. UNCHANGED <<socket_mode, rxRows>> /\ (seq' = seq \/ seq' = seq + 1)
    BY <1>2 DEF Send, SendFails, optVars, rxVars
  <2>1. UNCHANGED socket_mode /\ log' = log /\ (seq' = seq \/ seq' = seq + 1)
    <3>1. CopyPayload \/ UNCHANGED <<overrun, cleanRows>>
      BY <1>2 DEF Send, SendFails, overVars
    <3>2. CASE CopyPayload
      <4>1. /\ ~overrun' => ~overrun
            /\ overrun => overrun' /\ cleanRows' = cleanRows
            /\ overrun' /\ ~overrun => cleanRows' = rxRows
        BY <3>2, CopyOverruns
      <4>2. CASE overrun
        BY <2>0, <4>1, <4>2
      <4>3. CASE ~overrun /\ overrun'
        BY <2>0, <4>1, <4>3
      <4>4. CASE ~overrun /\ ~overrun'
        BY <2>0, <4>4
      <4> QED
        BY <4>2, <4>3, <4>4
    <3>3. CASE UNCHANGED <<overrun, cleanRows>>
      BY <2>0, <3>3
    <3> QED
      BY <3>1, <3>2, <3>3
  <2>2. CASE seq' = seq + 1
    <3>1. seq' - 1 = (seq - 1) + 1
      BY <2>2, Numbers
    <3> QED
      BY <2>1, <3>1, ModeFrame DEF Link!LinkNext, Link!Number
  <2> QED
    BY <1>1, <2>1, <2>2
<1>3. ASSUME recv_pkt PROVE [Link!LinkNext]_(Link!linkVars)
  <2>1. UNCHANGED <<socket_mode, seq, overrun, cleanRows>>
    BY <1>3 DEF recv_pkt, optVars, overVars
  <2>2. CASE UNCHANGED rxRows \/ overrun
    BY <1>1, <2>1, <2>2
  <2>3. CASE /\ rxbuf # <<>> /\ Valid(Head(rxbuf)) /\ ~overrun
             /\ rxRows' = Append(rxRows, Head(rxbuf))
    <3> DEFINE h == Head(rxbuf)
    <3>0. InOrder /\ log = rxRows /\ log' = rxRows'
      BY <2>1, <2>3 DEF Chain
    <3>1. rxbuf \in Seq(Packet \cup {Foreign}) /\ rxRows \in Seq(Int) /\ seq \in Int
      BY Queues, Numbers DEF TypeOK
    <3>2. /\ h = rxbuf[1] /\ h \in Packet \cup {Foreign} /\ 1 \in 1 .. Len(rxbuf)
      BY <2>3, <3>1, TailFacts
    <3>3. Valid(h) /\ rxRows' = Append(rxRows, h)
      BY <2>3
    <3> HIDE DEF h
    <3>4. h \in Packet /\ h # Foreign
      BY <3>2, <3>3 DEF Valid
    <3>5. h \in Int /\ First \in Int /\ First <= h /\ h < seq
      BY <3>0, <3>2, <3>4, Numbers DEF InOrder, AllBelow
    <3>6. rxRows # <<>> => h >= rxRows[Len(rxRows)]
      <4> SUFFICES ASSUME rxRows # <<>> PROVE h >= rxRows[Len(rxRows)]
        OBVIOUS
      <4>1. Len(rxRows) \in 1 .. Len(rxRows) /\ rxRows[Len(rxRows)] \in Int
        BY <3>1, SeqFacts
      <4>2. rxRows[Len(rxRows)] <= h
        BY <3>0, <3>2, <3>4, <4>1 DEF InOrder, Ahead
      <4> QED
        BY <3>5, <4>1, <4>2
    <3>7. h \in First .. seq - 1 /\ h <= seq - 1
      BY <3>1, <3>5
    <3>8. Link!Log(h)
      BY <2>1, <3>0, <3>3, <3>5, <3>6, <3>7, ModeFrame DEF Link!Log
    <3> QED
      BY <3>7, <3>8 DEF Link!LinkNext
  <2> QED
    BY <1>3, <2>2, <2>3 DEF recv_pkt
<1>4. ASSUME \/ SendLoop \/ PrintStamp \/ Stamp \/ TaggedArrives \/ DriverSends \/ Transmit
             \/ ForeignArrives \/ (\E p \in Side : Signal(p)) \/ RecvLoop \/ calc_rx_duploss
             \/ UNCHANGED vars
      PROVE  UNCHANGED <<socket_mode, seq>> /\ log' = log
  <2>1. UNCHANGED <<socket_mode, seq, rxRows, overrun, cleanRows>>
    BY <1>4 DEF SendLoop, PrintStamp, Stamp, TaggedArrives, DriverSends, Transmit,
                ForeignArrives, Signal, RecvLoop, calc_rx_duploss, vars, optVars, rxVars,
                overVars
  <2> QED
    BY <2>1
<1> QED
  BY <1>1, <1>2, <1>3, <1>4, Zenon DEF Next, Sender, Receiver, Network

(* Both kinds of socket implement NumberedLink: rows never show a number   *)
(* before it was sent, nor go back, whatever was lost, doubled or refused; *)
(* on AF_XDP this covers the rows up to the first frame written again      *)
(* before it was sent.                                                     *)
THEOREM Refinement == UnattendedSpec => ImplementsNumberedLink
<1>1. Init => Link!LinkInit
  <2> SUFFICES ASSUME Init PROVE Link!LinkInit
    OBVIOUS
  <2>1. First \in Int /\ seq - 1 = First - 1 /\ rxRows = <<>> /\ cleanRows = <<>>
    BY DEF Init, InitSender, InitReceiver, First
  <2> QED
    BY <2>1 DEF Link!LinkInit
<1>2. IInv /\ [Next]_vars => [Link!LinkNext]_(Link!linkVars)
  BY StepRefines
<1> QED
  BY <1>1, <1>2, Inductive, PTL DEF UnattendedSpec, ImplementsNumberedLink, Link!LinkSpec
=============================================================================
