------------------------ MODULE OpcuaRoundTripProofs ------------------------
(***************************************************************************)
(* OpcuaRoundTrip for every packet count, queue, network and signal: type  *)
(* correctness, the gate, the order and origin of what board B forwards,   *)
(* what ends the two processes, and both refinements of NumberedLink.      *)
(*                                                                         *)
(* The invariant has two layers.  BaseInv holds whatever an earlier        *)
(* process left in the message queue: it is about the threads, the way     *)
(* from A's counter to B's file and the stamps of queued messages.         *)
(* CleanInv adds, for a queue that starts empty, that forwarded packets,   *)
(* the message in hand and the queue form one chain whose numbers are all  *)
(* in B's file (QueueChain), what prev_rx_sequence and tx_sequence of B    *)
(* stand for (Counted), the order of the frames on the way back            *)
(* (ReturnChain), and what can have cleared g_running (StopReasons).       *)
(***************************************************************************)
EXTENDS OpcuaRoundTrip, SeqLemmas, FiniteSetTheorems

CleanStart == StaleQueues = {<<>>}
Real == [seq : Nat, stamp : {"real"}]

(* Which thread does what when.                                            *)
ThreadStates ==
  /\ running["A"] \/ thr["pub"] = "awake" => txA < PacketCount
  /\ SetupReads - 2 <= txA /\ txA <= PacketCount
  /\ thr["sub"] = "store" => netAB # <<>>
  /\ thr["pubr"] = "rcv" => tries < Tries
  /\ thr["pubr"] \notin {"rcv", "send"} => tries = 0 /\ msgqC = Missed
  /\ main["B"] = "setup" => thr["sub"] = "off" /\ thr["pubr"] = "off"

(* B's file is open until B is stopped by its last packet.                 *)
FileOpen ==
  /\ ~fileB => ~running["B"] /\ thr["sub"] \in {"head", "done"}
  /\ thr["sub"] = "stop" => PacketCount \in Range(logB)

(* The numbers that A gave out reach B's file in their order.              *)
ForwardChain ==
  /\ \A i \in 1 .. Len(netAB) : SetupReads - 1 <= netAB[i] /\ netAB[i] <= txA
  /\ \A i \in 1 .. Len(logB) : SetupReads - 1 <= logB[i] /\ logB[i] <= txA
  /\ \A i, j \in 1 .. Len(netAB) : i < j => netAB[i] <= netAB[j]
  /\ \A i \in 1 .. Len(logB), j \in 1 .. Len(netAB) : logB[i] <= netAB[j]

(* What is received from the queue, now or later, carries real stamps.     *)
RealMessages == msgq \in Seq(Real) /\ msgqC \in Real \cup {Missed}

BaseInv == TypeOK /\ ThreadStates /\ FileOpen /\ ForwardChain /\ RealMessages

----------------------------------------------------------------------------
(* From B's file through the queue to what was forwarded.                  *)
QueueChain ==
  /\ main["B"] = "setup" => msgq = <<>>
  /\ \A i \in 1 .. Len(msgq) : msgq[i].seq \in Range(logB)
  /\ \A i, j \in 1 .. Len(msgq) : i < j => msgq[i].seq <= msgq[j].seq
  /\ msgqC # Missed => /\ msgqC.seq \in Range(logB)
                       /\ \A i \in 1 .. Len(msgq) : msgqC.seq <= msgq[i].seq
                       /\ \A i \in 1 .. Len(forwarded) : forwarded[i].seq <= msgqC.seq
  /\ \A i \in 1 .. Len(forwarded) :
       /\ forwarded[i].seq \in Range(logB)
       /\ \A j \in 1 .. Len(msgq) : forwarded[i].seq <= msgq[j].seq

(* prev_rx_sequence is the number forwarded last, and tx_sequence counts   *)
(* what was forwarded.                                                     *)
Counted ==
  /\ prev = IF forwarded = <<>> THEN PrevInit ELSE forwarded[Len(forwarded)].seq
  /\ txB = Len(forwarded) - 2

(* The frames on the way back carry numbers of B that do not go back, and  *)
(* a data frame carries a number of A.                                     *)
ReturnChain ==
  /\ \A i \in 1 .. Len(netBA) :
       /\ netBA[i].seqB <= txB
       /\ netBA[i].seq \notin Errors => -1 <= netBA[i].seqB /\ netBA[i].seq <= txA
  /\ \A i, j \in 1 .. Len(netBA) : i < j => netBA[i].seqB <= netBA[j].seqB
  /\ \A i \in 1 .. Len(logA) :
       logA[i].seqB <= txB /\ \A j \in 1 .. Len(netBA) : logA[i].seqB <= netBA[j].seqB

(* What can have cleared g_running.                                        *)
StopReasons ==
  /\ ~running["A"] /\ "A" \notin signalled => txA = PacketCount
  /\ ~running["B"] /\ "B" \notin signalled =>
       PacketCount \in Range(logB) \/ txB >= PacketCount

CleanInv == QueueChain /\ Counted /\ ForwardedInOrder /\ ReturnChain /\ StopReasons

(***************************************************************************)
(* Facts about the operators of the model.                                 *)
(***************************************************************************)

(* What the network makes of a frame: the old frames, then copies of the   *)
(* new one.                                                                *)
LEMMA TransmitFacts ==
  ASSUME NEW S, NEW net \in Seq(S), NEW m \in S, NEW dir,
         NEW new \in Transmit(dir, net, m)
  PROVE  /\ new \in Seq(S) /\ Len(new) \in Nat /\ Len(net) \in Nat /\ Len(new) >= Len(net)
         /\ net # <<>> => new # <<>>
         /\ \A i \in 1 .. Len(net) : new[i] = net[i]
         /\ \A i \in 1 .. Len(new) : i \in 1 .. Len(net) \/ (i > Len(net) /\ new[i] = m)
<1> DEFINE a == Append(net, m)
           b == Append(a, m)
<1>1. /\ a \in Seq(S) /\ a # <<>> /\ Len(net) \in Nat /\ Len(a) = Len(net) + 1
      /\ \A k \in 1 .. Len(net) : a[k] = net[k]
      /\ a[Len(net) + 1] = m
  BY AppendFacts
<1>2. new = net \/ new = a \/ new = b
  BY DEF Transmit
<1> HIDE DEF a
<1>3. /\ b \in Seq(S) /\ b # <<>> /\ Len(b) = Len(a) + 1
      /\ \A k \in 1 .. Len(a) : b[k] = a[k]
      /\ b[Len(a) + 1] = m
  BY <1>1, AppendFacts
<1> HIDE DEF b
<1>4. CASE new = net
  BY <1>1, <1>4
<1>5. CASE new = a
  BY <1>1, <1>5
<1>6. CASE new = b
  BY <1>1, <1>3, <1>6
<1> QED
  BY <1>2, <1>4, <1>5, <1>6

(* What pubReturnGetDataToTransmit makes of a message.                     *)
LEMMA SampleFacts ==
  ASSUME NEW m \in Real \cup {Missed}
  PROVE  /\ m \in Messages /\ ~Pause(m)
         /\ m = Missed => SampleSeq(m) = ERROR_MSGQ_COPY
         /\ m # Missed =>
              /\ m.seq = prev /\ m.seq > EarlyLimit => SampleSeq(m) = ERROR_DUPLICATE
              /\ ~(m.seq = prev /\ m.seq > EarlyLimit) => SampleSeq(m) = m.seq
         /\ SampleSeq(m) \in Nat
<1> USE LimitAssumption, ErrorAssumption DEF Errors
<1>1. CASE m = Missed
  BY <1>1 DEF Missed, Message, Messages, Stamps, Pause, SampleSeq
<1>2. CASE m \in Real
  <2>1. m.seq \in Nat /\ m.stamp = "real" /\ m \in Messages
    BY <1>2 DEF Real, Messages, Stamps
  <2>2. m # Missed /\ m # Message(SeqInvalid, "999")
    BY <2>1 DEF Missed, Message
  <2>3. ~Pause(m)
    BY <2>1 DEF Pause
  <2> QED
    BY <2>1, <2>2, <2>3 DEF SampleSeq
<1> QED
  BY <1>1, <1>2

(* The part of the handler that setup and cyclic reads share: the gate     *)
(* stays as it is, and only B's flag can be cleared.                       *)
LEMMA SampledFacts ==
  ASSUME TypeOK, NEW m \in Real \cup {Missed}, Sampled(m)
  PROVE  /\ gate' = gate /\ txB' \in Int /\ prev' \in Nat
         /\ txB' = IF SampleSeq(m) \in Errors THEN txB ELSE txB + 1
         /\ prev' = IF SampleSeq(m) \in Errors THEN prev ELSE SampleSeq(m)
         /\ running' \in [Board -> BOOLEAN] /\ running'["A"] = running["A"]
         /\ running'["B"] <=> running["B"] /\ txB' < PacketCount
<1>1. ~Pause(m) /\ SampleSeq(m) \in Nat
  BY SampleFacts
<1>2. /\ gate' = gate
      /\ txB' = IF SampleSeq(m) \in Errors THEN txB ELSE txB + 1
      /\ prev' = IF SampleSeq(m) \in Errors THEN prev ELSE SampleSeq(m)
  BY <1>1 DEF Sampled, TypeOK
<1>3. txB' \in Int /\ prev' \in Nat
  BY <1>1, <1>2 DEF TypeOK
<1>4. /\ running' \in [Board -> BOOLEAN] /\ running'["A"] = running["A"]
      /\ running'["B"] <=> running["B"] /\ txB' < PacketCount
  BY DEF Sampled, TypeOK, Board
<1> QED
  BY <1>2, <1>3, <1>4

(* Within the range of A's counter the conversion to UA_UInt64 loses       *)
(* nothing.                                                                *)
LEMMA UInt64Exact ==
  ASSUME NEW n \in Nat, n <= PacketCount
  PROVE  UInt64(n) = n
BY SetupAssumption, CountAssumption DEF UInt64

(***************************************************************************)
(* The first layer, action by action.                                      *)
(***************************************************************************)

(* An action that neither publishes nor receives keeps the chain to B.     *)
LEMMA ForwardFrame ==
  ASSUME ForwardChain, UNCHANGED <<txA, netAB, logB>>
  PROVE  ForwardChain'
BY DEF ForwardChain

(* A session starts with an empty network and empty files.                 *)
LEMMA InitBase == ASSUME Init PROVE BaseInv
<1> USE DEF Init
<1>a. /\ SetupReads \in Nat /\ 1 <= SetupReads /\ SetupReads <= 2 /\ PacketCount \in Nat
      /\ PacketCount >= 1 /\ PrevInit \in Nat /\ Tries \in Nat
  BY SetupAssumption, CountAssumption, LimitAssumption, BoundAssumption
<1>b. Missed \in Messages
  BY SampleFacts
<1>c. msgq \in Seq(Real)
  BY StaleAssumption DEF Real
<1>d. msgq \in Seq(Messages)
  <2>1. Real \subseteq Messages
    BY DEF Real, Messages, Stamps
  <2> QED
    BY <1>c, <2>1, SeqMonotonic
<1>1. TypeOK
  <2>1. /\ running \in [Board -> BOOLEAN]
        /\ main \in [Board -> {"setup", "run", "join", "done"}]
        /\ thr \in [Thread -> {"off", "head", "awake", "store", "stop", "rcv", "send", "done"}]
    OBVIOUS
  <2>2. /\ netAB \in Seq(Nat) /\ netBA \in Seq(Frames) /\ logA \in Seq(Frames)
        /\ logB \in Seq(Nat) /\ forwarded \in Seq(Frames)
    OBVIOUS
  <2>3. /\ txA \in Int /\ txB \in Int /\ prev \in Nat /\ tries \in 0 .. Tries
        /\ setupLeft \in 0 .. SetupReads
    BY <1>a
  <2>4. signalled \subseteq Board /\ {gate, msqid, fileA, fileB} \subseteq BOOLEAN
    OBVIOUS
  <2> QED
    BY <1>b, <1>d, <2>1, <2>2, <2>3, <2>4 DEF TypeOK
<1>2. ThreadStates
  BY <1>a DEF ThreadStates, Thread, ThreadsOf, Board
<1>3. FileOpen /\ ForwardChain /\ RealMessages
  BY <1>c DEF FileOpen, ForwardChain, RealMessages, Thread, ThreadsOf
<1> QED
  BY <1>1, <1>2, <1>3 DEF BaseInv

(* The head of a thread's loop.                                            *)
LEMMA LoopHeadBase ==
  ASSUME BaseInv, NEW b \in Board, NEW t, LoopHead(b, t) PROVE BaseInv'
<1> USE DEF BaseInv, LoopHead, boardA, boardB
<1>1. (b = "A" /\ t \in {"pub", "subr"}) \/ (b = "B" /\ t \in {"sub", "pubr"})
  BY DEF ThreadsOf, Board
<1>2. TypeOK'
  BY <1>1 DEF TypeOK, Thread
<1>3. ThreadStates' /\ FileOpen'
  <2>1. CASE b = "A"
    BY <1>1, <2>1 DEF ThreadStates, FileOpen, TypeOK, Thread
  <2>2. CASE b = "B"
    BY <1>1, <2>2 DEF ThreadStates, FileOpen, TypeOK, Thread
  <2> QED
    BY <1>1, <2>1, <2>2
<1> QED
  BY <1>2, <1>3, ForwardFrame DEF RealMessages

(* A subscriber that finds nothing.                                        *)
LEMMA SubIdleBase ==
  ASSUME BaseInv, NEW t \in Thread, NEW net, SubIdle(t, net) PROVE BaseInv'
<1> USE DEF BaseInv, SubIdle, boardA, boardB
<1>1. TypeOK'
  BY DEF TypeOK
<1>2. ThreadStates' /\ FileOpen'
  BY DEF ThreadStates, FileOpen, TypeOK, Thread
<1> QED
  BY <1>1, <1>2, ForwardFrame DEF RealMessages

(* The gate opens.                                                         *)
LEMMA SubOpensGateBase == ASSUME BaseInv, subOpensGate PROVE BaseInv'
<1> USE DEF BaseInv, subOpensGate, boardA
<1>1. TypeOK'
  BY DEF TypeOK, Thread
<1>2. ThreadStates' /\ FileOpen'
  BY DEF ThreadStates, FileOpen, TypeOK, Thread
<1> QED
  BY <1>1, <1>2, ForwardFrame DEF RealMessages

(* The last packet stops B.                                                *)
LEMMA SubStopsBase == ASSUME BaseInv, subStops PROVE BaseInv'
<1> USE DEF BaseInv, subStops, boardA
<1>1. TypeOK'
  BY DEF TypeOK, Thread, Board
<1>2. ThreadStates' /\ FileOpen'
  BY DEF ThreadStates, FileOpen, TypeOK, Thread, Board
<1> QED
  BY <1>1, <1>2, ForwardFrame DEF RealMessages

(* Both threads of B are created.                                          *)
LEMMA StartThreadsBase == ASSUME BaseInv, StartThreads PROVE BaseInv'
<1> USE DEF BaseInv, StartThreads, boardA, boardB
<1>1. TypeOK'
  BY DEF TypeOK, Thread, Board
<1>2. ThreadStates' /\ FileOpen'
  BY DEF ThreadStates, FileOpen, TypeOK, Thread, ThreadsOf, Board
<1> QED
  BY <1>1, <1>2, ForwardFrame DEF RealMessages

(* The gate is tested.                                                     *)
LEMMA GateBase == ASSUME BaseInv, Gate PROVE BaseInv'
<1> USE DEF BaseInv, Gate, boardA, boardB
<1>1. TypeOK'
  BY DEF TypeOK, Thread
<1>2. ThreadStates' /\ FileOpen'
  BY BoundAssumption DEF ThreadStates, FileOpen, TypeOK, Thread
<1> QED
  BY <1>1, <1>2, ForwardFrame DEF RealMessages

(* UA_Server_run returns.                                                  *)
LEMMA ServerRunReturnsBase ==
  ASSUME BaseInv, NEW b \in Board, ServerRunReturns(b) PROVE BaseInv'
<1> USE DEF BaseInv, ServerRunReturns, boardA, boardB
<1>1. TypeOK'
  BY DEF TypeOK
<1>2. ThreadStates' /\ FileOpen'
  BY DEF ThreadStates, FileOpen, TypeOK, Board
<1> QED
  BY <1>1, <1>2, ForwardFrame DEF RealMessages

(* The process ends; that of B removes the queue.                          *)
LEMMA TeardownBase == ASSUME BaseInv, NEW b \in Board, Teardown(b) PROVE BaseInv'
<1> USE DEF BaseInv, Teardown, boardA
<1>1. msgq' \in Seq(Real) /\ msgq' \in Seq(Messages) /\ msqid' \in BOOLEAN
  BY DEF TypeOK, RealMessages
<1>2. TypeOK'
  BY <1>1 DEF TypeOK
<1>3. ThreadStates' /\ FileOpen'
  BY DEF ThreadStates, FileOpen, TypeOK, Board
<1> QED
  BY <1>1, <1>2, <1>3, ForwardFrame DEF RealMessages

(* A signal.                                                               *)
LEMMA StopHandlerBase == ASSUME BaseInv, NEW b \in Board, stopHandler(b) PROVE BaseInv'
<1> USE DEF BaseInv, stopHandler, boardA, boardB
<1>1. TypeOK'
  BY DEF TypeOK
<1>2. ThreadStates' /\ FileOpen'
  BY DEF ThreadStates, FileOpen, TypeOK, Board
<1> QED
  BY <1>1, <1>2, ForwardFrame DEF RealMessages

(* A publishes a packet with its next number.                              *)
LEMMA PubBase == ASSUME BaseInv, pubGetDataToTransmit PROVE BaseInv'
<1> USE DEF BaseInv
<1>a. /\ thr["pub"] = "awake" /\ txA' = txA + 1 /\ netAB' \in Transmit("AB", netAB, UInt64(txA'))
      /\ running' = [running EXCEPT !["A"] = @ /\ txA' # PacketCount]
      /\ thr' = [thr EXCEPT !["pub"] = "head"]
      /\ UNCHANGED <<main, signalled, netBA, logA, fileA, gate, msgq, msqid, txB, prev>>
      /\ UNCHANGED <<setupLeft, msgqC, tries, logB, fileB, forwarded>>
  BY DEF pubGetDataToTransmit, boardB
<1>b. /\ txA \in Int /\ SetupReads \in Nat /\ SetupReads >= 1 /\ PacketCount \in Nat
      /\ txA < PacketCount /\ SetupReads - 2 <= txA
  BY <1>a, SetupAssumption, CountAssumption DEF TypeOK, ThreadStates
<1>c. txA' \in Nat /\ SetupReads - 1 <= txA' /\ txA' <= PacketCount
  BY <1>a, <1>b
<1>d. UInt64(txA') = txA'
  BY <1>c, UInt64Exact
<1>e. /\ netAB' \in Seq(Nat) /\ Len(netAB') \in Nat /\ Len(netAB) \in Nat
      /\ netAB # <<>> => netAB' # <<>>
      /\ \A i \in 1 .. Len(netAB) : netAB'[i] = netAB[i]
      /\ \A i \in 1 .. Len(netAB') : i \in 1 .. Len(netAB) \/ (i > Len(netAB) /\ netAB'[i] = txA')
  <2> DEFINE N == Nat
  <2>1. netAB \in Seq(N) /\ netAB' \in Transmit("AB", netAB, txA') /\ txA' \in N
    BY <1>a, <1>c, <1>d DEF TypeOK
  <2> HIDE DEF N
  <2>2. /\ netAB' \in Seq(N) /\ Len(netAB') \in Nat /\ Len(netAB) \in Nat
        /\ netAB # <<>> => netAB' # <<>>
        /\ \A i \in 1 .. Len(netAB) : netAB'[i] = netAB[i]
        /\ \A i \in 1 .. Len(netAB') :
             i \in 1 .. Len(netAB) \/ (i > Len(netAB) /\ netAB'[i] = txA')
    BY <2>1, TransmitFacts
  <2> QED
    BY <2>2 DEF N
<1>1. TypeOK'
  BY <1>a, <1>c, <1>e DEF TypeOK, Thread, Board
<1>2. ThreadStates'
  <2>0. thr'["pub"] = "head" /\ (running'["A"] => txA' # PacketCount)
    BY <1>a DEF TypeOK, Thread, Board
  <2>1. running'["A"] \/ thr'["pub"] = "awake" => txA' < PacketCount
    BY <1>b, <1>c, <2>0
  <2>2. /\ thr'["sub"] = thr["sub"] /\ thr'["pubr"] = thr["pubr"]
    BY <1>a DEF TypeOK, Thread
  <2> QED
    BY <1>a, <1>b, <1>c, <1>e, <2>1, <2>2 DEF ThreadStates
<1>3. FileOpen'
  BY <1>a DEF FileOpen, TypeOK, Thread, Board
<1>4. ForwardChain'
  <2>1. \A i \in 1 .. Len(netAB) : netAB[i] \in Nat /\ SetupReads - 1 <= netAB[i] /\ netAB[i] <= txA
    BY SeqFacts DEF ForwardChain, TypeOK
  <2>2. \A i \in 1 .. Len(logB) : logB[i] \in Nat /\ SetupReads - 1 <= logB[i] /\ logB[i] <= txA
    BY SeqFacts DEF ForwardChain, TypeOK
  <2>3. \A i \in 1 .. Len(netAB') : SetupReads - 1 <= netAB'[i] /\ netAB'[i] <= txA'
    BY <1>a, <1>b, <1>c, <1>e, <2>1
  <2>4. \A i \in 1 .. Len(logB) : logB[i] <= txA'
    BY <1>a, <1>b, <2>2
  <2>5. ASSUME NEW i \in 1 .. Len(netAB'), NEW j \in 1 .. Len(netAB'), i < j
        PROVE  netAB'[i] <= netAB'[j]
    <3>1. CASE j \in 1 .. Len(netAB)
      <4>1. i \in 1 .. Len(netAB)
        BY <1>e, <2>5, <3>1
      <4> QED
        BY <1>e, <2>5, <3>1, <4>1 DEF ForwardChain
    <3>2. CASE netAB'[j] = txA'
      BY <2>3, <3>2
    <3> QED
      BY <1>e, <3>1, <3>2
  <2>6. ASSUME NEW i \in 1 .. Len(logB), NEW j \in 1 .. Len(netAB') PROVE logB[i] <= netAB'[j]
    <3>1. CASE j \in 1 .. Len(netAB)
      BY <1>e, <3>1 DEF ForwardChain
    <3>2. CASE netAB'[j] = txA'
      BY <2>4, <3>2
    <3> QED
      BY <1>e, <3>1, <3>2
  <2> QED
    BY <1>a, <2>2, <2>3, <2>4, <2>5, <2>6 DEF ForwardChain
<1>5. RealMessages'
  BY <1>a DEF RealMessages
<1> QED
  BY <1>1, <1>2, <1>3, <1>4, <1>5

(* What a subscriber takes from the network, and what it leaves.           *)
LEMMA SubTakes ==
  ASSUME BaseInv, subStoresData
  PROVE  /\ netAB # <<>> /\ fileB /\ Head(netAB) \in Nat /\ Head(netAB) = netAB[1]
         /\ netAB' = Tail(netAB) /\ netAB' \in Seq(Nat) /\ Len(netAB) \in Nat /\ Len(netAB) >= 1
         /\ \A i \in 1 .. Len(netAB') : i + 1 \in 1 .. Len(netAB) /\ netAB'[i] = netAB[i + 1]
         /\ logB' = Append(logB, Head(netAB)) /\ logB' \in Seq(Nat)
         /\ Len(logB) \in Nat /\ Len(logB') = Len(logB) + 1
         /\ \A i \in 1 .. Len(logB) : logB'[i] = logB[i]
         /\ logB'[Len(logB) + 1] = Head(netAB)
         /\ Range(logB') = Range(logB) \cup {Head(netAB)}
         /\ msgq' = msgq \/ msgq' = Append(msgq, Message(Head(netAB), "real"))
         /\ Message(Head(netAB), "real") \in Real
         /\ UNCHANGED <<running, main, signalled, netBA, txA, logA, fileA, gate, msqid, txB>>
         /\ UNCHANGED <<prev, setupLeft, msgqC, tries, fileB, forwarded>>
         /\ thr["sub"] = "store"
         /\ thr' = [thr EXCEPT !["sub"] = IF Head(netAB) = PacketCount THEN "stop" ELSE "head"]
<1> USE DEF BaseInv
<1>1. /\ thr["sub"] = "store" /\ netAB' = Tail(netAB)
      /\ logB' = IF fileB THEN Append(logB, Head(netAB)) ELSE logB
      /\ msgq' = msgq \/ msgq' = Append(msgq, Message(Head(netAB), "real"))
      /\ thr' = [thr EXCEPT !["sub"] = IF Head(netAB) = PacketCount THEN "stop" ELSE "head"]
      /\ UNCHANGED <<running, main, signalled, netBA, txA, logA, fileA, gate, msqid, txB>>
      /\ UNCHANGED <<prev, setupLeft, msgqC, tries, fileB, forwarded>>
  BY DEF subStoresData, boardA
<1>2. netAB # <<>> /\ fileB /\ netAB \in Seq(Nat) /\ logB \in Seq(Nat)
  BY <1>1 DEF ThreadStates, FileOpen, TypeOK
<1>3. /\ netAB' \in Seq(Nat) /\ Len(netAB) \in Nat /\ Len(netAB) >= 1
      /\ \A i \in 1 .. Len(netAB') : i + 1 \in 1 .. Len(netAB) /\ netAB'[i] = netAB[i + 1]
      /\ Head(netAB) = netAB[1] /\ netAB[1] \in Nat
  BY <1>1, <1>2, TailFacts
<1> DEFINE h == Head(netAB)
<1>4. logB' = Append(logB, h) /\ h \in Nat
  BY <1>1, <1>2, <1>3
<1> HIDE DEF h
<1>5. /\ logB' \in Seq(Nat) /\ Len(logB) \in Nat /\ Len(logB') = Len(logB) + 1
      /\ \A i \in 1 .. Len(logB) : logB'[i] = logB[i]
      /\ logB'[Len(logB) + 1] = h
  BY <1>2, <1>4, AppendFacts
<1>6. Range(logB') = Range(logB) \cup {h}
  <2>1. DOMAIN logB = 1 .. Len(logB) /\ DOMAIN logB' = 1 .. Len(logB) + 1
    BY <1>2, <1>5, SeqFacts
  <2> QED
    BY <1>5, <2>1 DEF Range
<1>7. Message(h, "real") \in Real
  BY <1>4 DEF Message, Real
<1> QED
  BY <1>1, <1>2, <1>3, <1>4, <1>5, <1>6, <1>7 DEF h

(* B logs a packet and passes it on.                                       *)
LEMMA SubStoresBase == ASSUME BaseInv, subStoresData PROVE BaseInv'
<1> USE DEF BaseInv
<1>a. /\ netAB # <<>> /\ fileB /\ Head(netAB) \in Nat /\ Head(netAB) = netAB[1]
      /\ netAB' \in Seq(Nat) /\ Len(netAB) \in Nat /\ Len(netAB) >= 1
      /\ \A i \in 1 .. Len(netAB') : i + 1 \in 1 .. Len(netAB) /\ netAB'[i] = netAB[i + 1]
      /\ logB' \in Seq(Nat) /\ Len(logB) \in Nat /\ Len(logB') = Len(logB) + 1
      /\ \A i \in 1 .. Len(logB) : logB'[i] = logB[i]
      /\ logB'[Len(logB) + 1] = Head(netAB)
      /\ Range(logB') = Range(logB) \cup {Head(netAB)}
  BY SubTakes
<1>b. /\ UNCHANGED <<running, main, signalled, netBA, txA, logA, fileA, gate, msqid, txB>>
      /\ UNCHANGED <<prev, setupLeft, msgqC, tries, fileB, forwarded>>
      /\ thr["sub"] = "store"
      /\ thr' = [thr EXCEPT !["sub"] = IF Head(netAB) = PacketCount THEN "stop" ELSE "head"]
  BY SubTakes
<1>c. msgq' \in Seq(Real)
  <2>1. msgq \in Seq(Real) /\ Message(Head(netAB), "real") \in Real
    BY SubTakes DEF RealMessages
  <2>2. Append(msgq, Message(Head(netAB), "real")) \in Seq(Real)
    BY <2>1, AppendFacts
  <2> QED
    BY <2>1, <2>2, SubTakes
<1>d. msgq' \in Seq(Messages)
  <2>1. Real \subseteq Messages
    BY DEF Real, Messages, Stamps
  <2> QED
    BY <1>c, <2>1, SeqMonotonic
<1>e. Len(netAB') \in Nat
  BY <1>a, SeqFacts
<1>1. TypeOK'
  BY <1>a, <1>b, <1>d DEF TypeOK, Thread
<1>2. ThreadStates'
  BY <1>b DEF ThreadStates, TypeOK, Thread
<1>3. FileOpen'
  BY <1>a, <1>b DEF FileOpen, TypeOK, Thread
<1>4. ForwardChain'
  <2> DEFINE h == Head(netAB)
  <2>1. h \in Nat /\ SetupReads - 1 <= h /\ h <= txA
    BY <1>a DEF ForwardChain
  <2> HIDE DEF h
  <2>2. \A i \in 1 .. Len(netAB') : SetupReads - 1 <= netAB'[i] /\ netAB'[i] <= txA /\ h <= netAB'[i]
    <3> TAKE i \in 1 .. Len(netAB')
    <3>1. 1 \in 1 .. Len(netAB) /\ i + 1 \in 1 .. Len(netAB) /\ 1 < i + 1 /\ netAB'[i] = netAB[i + 1]
      BY <1>a, <1>e
    <3> QED
      BY <1>a, <3>1 DEF ForwardChain, h
  <2>3. ASSUME NEW i \in 1 .. Len(netAB'), NEW j \in 1 .. Len(netAB'), i < j
        PROVE  netAB'[i] <= netAB'[j]
    <3>1. /\ i + 1 \in 1 .. Len(netAB) /\ netAB'[i] = netAB[i + 1]
          /\ j + 1 \in 1 .. Len(netAB) /\ netAB'[j] = netAB[j + 1]
      BY <1>a
    <3>2. i + 1 < j + 1
      BY <1>e, <2>3
    <3> QED
      BY <3>1, <3>2 DEF ForwardChain
  <2>4. \A i \in 1 .. Len(logB') : i \in 1 .. Len(logB) \/ i = Len(logB) + 1
    BY <1>a
  <2>5. \A i \in 1 .. Len(logB') : SetupReads - 1 <= logB'[i] /\ logB'[i] <= txA
    BY <1>a, <2>1, <2>4 DEF ForwardChain, h
  <2>6. ASSUME NEW i \in 1 .. Len(logB'), NEW j \in 1 .. Len(netAB') PROVE logB'[i] <= netAB'[j]
    <3>1. CASE i \in 1 .. Len(logB)
      <4>1. j + 1 \in 1 .. Len(netAB) /\ netAB'[j] = netAB[j + 1] /\ logB'[i] = logB[i]
        BY <1>a, <3>1
      <4> QED
        BY <3>1, <4>1 DEF ForwardChain
    <3>2. CASE i = Len(logB) + 1
      BY <1>a, <2>2, <3>2 DEF h
    <3> QED
      BY <2>4, <3>1, <3>2
  <2> QED
    BY <1>b, <2>2, <2>3, <2>5, <2>6 DEF ForwardChain
<1>5. RealMessages'
  BY <1>b, <1>c DEF RealMessages
<1> QED
  BY <1>1, <1>2, <1>3, <1>4, <1>5

(* What is left of the queue after msgrcv, and what was received.          *)
LEMMA Received ==
  ASSUME BaseInv, msgq # <<>>
  PROVE  /\ Head(msgq) \in Real /\ Head(msgq) = msgq[1] /\ Head(msgq) # Missed
         /\ Tail(msgq) \in Seq(Real) /\ Tail(msgq) \in Seq(Messages)
         /\ Len(msgq) \in Nat /\ Len(msgq) >= 1
         /\ Len(Tail(msgq)) = Len(msgq) - 1
         /\ \A k \in 1 .. Len(Tail(msgq)) :
              k + 1 \in 1 .. Len(msgq) /\ Tail(msgq)[k] = msgq[k + 1]
<1>1. msgq \in Seq(Real)
  BY DEF BaseInv, RealMessages
<1>2. /\ Head(msgq) \in Real /\ Head(msgq) = msgq[1] /\ Tail(msgq) \in Seq(Real)
      /\ Len(msgq) \in Nat /\ Len(msgq) >= 1 /\ Len(Tail(msgq)) = Len(msgq) - 1
      /\ \A k \in 1 .. Len(Tail(msgq)) :
           k + 1 \in 1 .. Len(msgq) /\ Tail(msgq)[k] = msgq[k + 1]
  BY <1>1, TailFacts
<1>3. Real \subseteq Messages
  BY DEF Real, Messages, Stamps
<1>4. Tail(msgq) \in Seq(Messages)
  BY <1>2, <1>3, SeqMonotonic
<1>5. Head(msgq) # Missed
  BY <1>2 DEF Real, Missed, Message
<1> QED
  BY <1>2, <1>4, <1>5

(* A read of pubr's data source during setup.                              *)
LEMMA SetupReadBase == ASSUME BaseInv, SetupRead PROVE BaseInv'
<1> USE DEF BaseInv
<1>a. /\ main["B"] = "setup" /\ setupLeft > 0 /\ setupLeft' = setupLeft - 1
      /\ msgq' = IF msgq = <<>> THEN msgq ELSE Tail(msgq)
      /\ UNCHANGED <<main, thr, signalled, netAB, netBA, txA, logA, fileA, msqid, msgqC>>
      /\ UNCHANGED <<tries, logB, fileB, forwarded>>
  BY DEF SetupRead, boardA
<1> DEFINE m == IF msgq = <<>> THEN Missed ELSE Head(msgq)
<1>b. m \in Real \cup {Missed} /\ Sampled(m)
  BY Received DEF SetupRead
<1>c. /\ gate' = gate /\ txB' \in Int /\ prev' \in Nat
      /\ running' \in [Board -> BOOLEAN] /\ running'["A"] = running["A"]
      /\ running'["B"] => running["B"]
  BY <1>b, SampledFacts
<1>d. msgq' \in Seq(Real) /\ msgq' \in Seq(Messages)
  BY <1>a, Received DEF TypeOK, RealMessages
<1> HIDE DEF m
<1>1. TypeOK'
  BY <1>a, <1>c, <1>d, SetupAssumption DEF TypeOK
<1>2. ThreadStates' /\ FileOpen'
  BY <1>a, <1>c DEF ThreadStates, FileOpen
<1> QED
  BY <1>1, <1>2, <1>a, <1>d, ForwardFrame DEF RealMessages

(* One msgrcv of the receive window.                                       *)
LEMMA TryReceiveBase == ASSUME BaseInv, TryReceive PROVE BaseInv'
<1> USE DEF BaseInv
<1>a. /\ thr["pubr"] = "rcv" /\ tries' = tries + 1
      /\ UNCHANGED <<running, main, signalled, netAB, netBA, txA, logA, fileA, gate, msqid>>
      /\ UNCHANGED <<txB, prev, setupLeft, logB, fileB, forwarded>>
  BY DEF TryReceive, boardA
<1>b. tries' \in 0 .. Tries /\ (tries' # Tries => tries' < Tries)
  BY <1>a, BoundAssumption DEF TypeOK, ThreadStates
<1>1. CASE /\ msqid /\ msgq # <<>> /\ msgqC' = Head(msgq) /\ msgq' = Tail(msgq)
           /\ thr' = [thr EXCEPT !["pubr"] = "send"]
  <2>1. msgq' \in Seq(Real) /\ msgq' \in Seq(Messages) /\ msgqC' \in Real /\ msgqC' \in Messages
    BY <1>1, Received, SampleFacts
  <2>2. TypeOK'
    BY <1>1, <1>a, <1>b, <2>1 DEF TypeOK, Thread
  <2>3. ThreadStates' /\ FileOpen'
    BY <1>1, <1>a DEF ThreadStates, FileOpen, TypeOK, Thread
  <2> QED
    BY <1>a, <2>1, <2>2, <2>3, ForwardFrame DEF RealMessages
<1>2. CASE /\ thr' = [thr EXCEPT !["pubr"] = IF tries' = Tries THEN "send" ELSE "rcv"]
           /\ UNCHANGED <<msgqC, msgq>>
  <2>1. TypeOK'
    BY <1>2, <1>a, <1>b DEF TypeOK, Thread
  <2>2. ThreadStates' /\ FileOpen'
    BY <1>2, <1>a, <1>b DEF ThreadStates, FileOpen, TypeOK, Thread
  <2> QED
    BY <1>2, <1>a, <2>1, <2>2, ForwardFrame DEF RealMessages
<1> QED
  BY <1>1, <1>2 DEF TryReceive

(* What pubReturn sends, and what it leaves alone.                         *)
LEMMA Returned ==
  ASSUME BaseInv, pubReturnGetDataToTransmit
  PROVE  LET frame == [seq |-> SampleSeq(msgqC), seqB |-> txB']
         IN  /\ frame \in Frames /\ netBA' \in Transmit("BA", netBA, frame)
             /\ netBA' \in Seq(Frames)
             /\ forwarded' = IF frame.seq \in Errors THEN forwarded ELSE Append(forwarded, frame)
             /\ forwarded' \in Seq(Frames)
             /\ frame.seq = SampleSeq(msgqC) /\ frame.seqB = txB'
<1> USE DEF BaseInv
<1> DEFINE frame == [seq |-> SampleSeq(msgqC), seqB |-> txB']
<1>1. /\ Sampled(msgqC) /\ netBA' \in Transmit("BA", netBA, frame)
      /\ forwarded' = IF frame.seq \in Errors THEN forwarded ELSE Append(forwarded, frame)
  BY DEF pubReturnGetDataToTransmit
<1>2. msgqC \in Real \cup {Missed}
  BY DEF RealMessages
<1>3. txB' \in Int /\ SampleSeq(msgqC) \in Nat
  BY <1>1, <1>2, SampledFacts, SampleFacts
<1>4. frame \in Frames /\ frame.seq = SampleSeq(msgqC) /\ frame.seqB = txB'
  BY <1>3 DEF Frames
<1> HIDE DEF frame
<1>5. netBA \in Seq(Frames) /\ forwarded \in Seq(Frames)
  BY DEF TypeOK
<1>6. netBA' \in Seq(Frames)
  BY <1>1, <1>4, <1>5, TransmitFacts
<1>7. forwarded' \in Seq(Frames)
  BY <1>1, <1>4, <1>5, AppendFacts
<1> QED
  BY <1>1, <1>4, <1>6, <1>7 DEF frame

(* B returns a packet or an error code.                                    *)
LEMMA PubReturnBase == ASSUME BaseInv, pubReturnGetDataToTransmit PROVE BaseInv'
<1> USE DEF BaseInv
<1>a. /\ thr["pubr"] = "send" /\ thr' = [thr EXCEPT !["pubr"] = "head"]
      /\ msgqC' = Missed /\ tries' = 0 /\ Sampled(msgqC)
      /\ UNCHANGED <<main, signalled, netAB, txA, logA, fileA, msgq, msqid, setupLeft>>
      /\ UNCHANGED <<logB, fileB>>
  BY DEF pubReturnGetDataToTransmit, boardA
<1>b. netBA' \in Seq(Frames) /\ forwarded' \in Seq(Frames)
  BY Returned
<1>c. /\ gate' = gate /\ txB' \in Int /\ prev' \in Nat
      /\ running' \in [Board -> BOOLEAN] /\ running'["A"] = running["A"]
      /\ running'["B"] => running["B"]
  BY <1>a, SampledFacts DEF RealMessages
<1>d. Missed \in Messages
  BY SampleFacts
<1>1. TypeOK'
  BY <1>a, <1>b, <1>c, <1>d, BoundAssumption DEF TypeOK, Thread
<1>2. ThreadStates' /\ FileOpen'
  BY <1>a, <1>c DEF ThreadStates, FileOpen, TypeOK, Thread
<1> QED
  BY <1>1, <1>2, <1>a, ForwardFrame DEF RealMessages

(* A stores what has come back.                                            *)
LEMMA SubReturnBase == ASSUME BaseInv, subReturnStoreDataReceived PROVE BaseInv'
<1> USE DEF BaseInv
<1>a. /\ netBA # <<>> /\ netBA' = Tail(netBA) /\ thr' = [thr EXCEPT !["subr"] = "head"]
      /\ logA' = logA \/ logA' = Append(logA, Head(netBA))
      /\ fileA' \in BOOLEAN
      /\ \E last \in BOOLEAN : running' = [running EXCEPT !["A"] = @ /\ ~last]
      /\ UNCHANGED <<main, signalled, netAB, txA, gate, msgq, msqid, txB, prev, setupLeft>>
      /\ UNCHANGED <<msgqC, tries, logB, fileB, forwarded>>
  <2>1. LastReturn(Head(netBA)) \in BOOLEAN
    BY DEF LastReturn
  <2> QED
    BY <2>1 DEF subReturnStoreDataReceived, boardB
<1>b. netBA' \in Seq(Frames) /\ Head(netBA) \in Frames
  BY <1>a, TailFacts DEF TypeOK
<1>c. logA \in Seq(Frames) /\ Append(logA, Head(netBA)) \in Seq(Frames)
  BY <1>b, AppendFacts DEF TypeOK
<1>d. /\ running' \in [Board -> BOOLEAN] /\ running'["B"] = running["B"]
      /\ running'["A"] => running["A"]
  BY <1>a DEF TypeOK, Board
<1>1. TypeOK'
  BY <1>a, <1>b, <1>c, <1>d DEF TypeOK, Thread
<1>2. ThreadStates' /\ FileOpen'
  BY <1>a, <1>d DEF ThreadStates, FileOpen, TypeOK, Thread
<1> QED
  BY <1>1, <1>2, <1>a, ForwardFrame DEF RealMessages

(* A step that changes nothing.                                            *)
LEMMA StutterBase == ASSUME BaseInv, UNCHANGED vars PROVE BaseInv'
BY DEF BaseInv, TypeOK, ThreadStates, FileOpen, ForwardChain, RealMessages, vars, boardA, boardB

(* Every step keeps the first layer.                                       *)
LEMMA NextBase == ASSUME BaseInv, [Next]_vars PROVE BaseInv'
<1>1. "sub" \in Thread /\ "subr" \in Thread /\ "A" \in Board /\ "B" \in Board
  BY DEF Thread, Board
<1>2. ASSUME PubStep \/ SubrStep \/ SubStep PROVE BaseInv'
  BY <1>1, <1>2, LoopHeadBase, PubBase, SubIdleBase, SubReturnBase, SubOpensGateBase,
     SubStoresBase, SubStopsBase, Zenon DEF PubStep, SubrStep, SubStep
<1>3. ASSUME PubrStep \/ SetupStep PROVE BaseInv'
  BY <1>1, <1>3, LoopHeadBase, GateBase, TryReceiveBase, PubReturnBase, SetupReadBase,
     StartThreadsBase, Zenon DEF PubrStep, SetupStep
<1>4. ASSUME NEW b \in Board, MainStep(b) \/ stopHandler(b) PROVE BaseInv'
  BY <1>4, ServerRunReturnsBase, TeardownBase, StopHandlerBase, Zenon DEF MainStep
<1> QED
  BY <1>2, <1>3, <1>4, StutterBase, Zenon DEF Next, Done

(* The first layer is an invariant whatever the queue holds at the start.  *)
THEOREM BaseInductive == Spec => []BaseInv
<1>1. Init => BaseInv
  BY InitBase
<1>2. BaseInv /\ [Next]_vars => BaseInv'
  BY NextBase
<1> QED
  BY <1>1, <1>2, PTL DEF Spec

(* Every variable keeps its type; in particular the receive window ends.   *)
THEOREM TypeCorrect == Spec => []TypeOK
BY BaseInductive, PTL DEF BaseInv

(* Only the subscriber's first packet changes the gate: the message in     *)
(* hand never pauses the publisher.                                        *)
LEMMA GateStep == ASSUME BaseInv, [Next]_vars PROVE gate => gate'
<1> USE DEF BaseInv
<1>1. ASSUME subOpensGate PROVE gate => gate'
  BY <1>1 DEF subOpensGate
<1>2. ASSUME SetupRead PROVE gate' = gate
  <2>1. (IF msgq = <<>> THEN Missed ELSE Head(msgq)) \in Real \cup {Missed}
    BY Received
  <2> QED
    BY <1>2, <2>1, SampledFacts DEF SetupRead
<1>3. ASSUME pubReturnGetDataToTransmit PROVE gate' = gate
  BY <1>3, SampledFacts DEF pubReturnGetDataToTransmit, RealMessages
<1>4. ASSUME NEW b, NEW t, LoopHead(b, t) PROVE gate' = gate
  BY <1>4 DEF LoopHead, boardB
<1>5. ASSUME NEW t, NEW net, SubIdle(t, net) PROVE gate' = gate
  BY <1>5 DEF SubIdle, boardB
<1>6. ASSUME \/ pubGetDataToTransmit \/ subReturnStoreDataReceived \/ subStoresData
             \/ subStops \/ Gate \/ TryReceive \/ StartThreads \/ UNCHANGED vars
      PROVE  gate' = gate
  BY <1>6 DEF pubGetDataToTransmit, subReturnStoreDataReceived, subStoresData, subStops,
              Gate, TryReceive, StartThreads, vars, boardB
<1>7. ASSUME NEW b, ServerRunReturns(b) \/ Teardown(b) \/ stopHandler(b) PROVE gate' = gate
  BY <1>7 DEF ServerRunReturns, Teardown, stopHandler, boardB
<1>8. ASSUME Next PROVE (gate => gate') \/ gate' = gate
  BY <1>8, <1>1, <1>2, <1>3, <1>4, <1>5, <1>6, <1>7, Zenon
     DEF Next, PubStep, SubrStep, SubStep, PubrStep, SetupStep, MainStep, Done
<1> QED
  BY <1>6, <1>8

(* The gate of pub_thread on B, once opened by the first packet, is never  *)
(* closed again, whatever the queue held at the start.                     *)
THEOREM GateOpen == Spec => GateStaysOpen
<1>1. BaseInv /\ [Next]_vars => [gate => gate']_gate
  BY GateStep
<1> QED
  BY <1>1, BaseInductive, PTL DEF Spec, GateStaysOpen

(* A's packets are Numbers, B's rows are Logs, all other steps stutter.    *)
LEMMA ForwardStep ==
  ASSUME BaseInv, [Next]_vars PROVE [Forward!LinkNext]_(Forward!linkVars)
<1> USE DEF BaseInv
<1>1. CASE UNCHANGED <<txA, logB>>
  BY <1>1 DEF Forward!linkVars
<1>2. ASSUME pubGetDataToTransmit PROVE Forward!LinkNext
  BY <1>2 DEF pubGetDataToTransmit, boardB, Forward!LinkNext, Forward!Number
<1>3. ASSUME subStoresData PROVE Forward!LinkNext
  <2> DEFINE h == Head(netAB)
  <2>1. /\ h = netAB[1] /\ 1 \in 1 .. Len(netAB) /\ h \in Nat
        /\ logB' = Append(logB, h) /\ UNCHANGED txA
    BY <1>3, SubTakes
  <2> HIDE DEF h
  <2>2. txA \in Int /\ SetupReads \in Int
    BY SetupAssumption DEF TypeOK
  <2>3. SetupReads - 1 <= h /\ h <= txA
    BY <2>1 DEF ForwardChain
  <2>4. logB # <<>> => h >= logB[Len(logB)]
    <3> SUFFICES ASSUME logB # <<>> PROVE h >= logB[Len(logB)]
      OBVIOUS
    <3>1. Len(logB) \in 1 .. Len(logB) /\ logB[Len(logB)] \in Nat
      BY SeqFacts DEF TypeOK
    <3>2. logB[Len(logB)] <= h
      BY <2>1, <3>1 DEF ForwardChain
    <3> QED
      BY <2>1, <3>1, <3>2
  <2>5. Forward!Log(h) /\ h \in SetupReads - 1 .. txA
    BY <2>1, <2>2, <2>3, <2>4 DEF Forward!Log
  <2> QED
    BY <2>5 DEF Forward!LinkNext
<1>4. ASSUME NEW b, NEW t, LoopHead(b, t) PROVE UNCHANGED <<txA, logB>>
  BY <1>4 DEF LoopHead, boardA, boardB
<1>5. ASSUME NEW t, NEW net, SubIdle(t, net) PROVE UNCHANGED <<txA, logB>>
  BY <1>5 DEF SubIdle, boardA, boardB
<1>6. ASSUME \/ subReturnStoreDataReceived \/ subOpensGate \/ subStops \/ Gate \/ TryReceive
             \/ SetupRead \/ StartThreads \/ pubReturnGetDataToTransmit \/ UNCHANGED vars
      PROVE  UNCHANGED <<txA, logB>>
  BY <1>6 DEF subReturnStoreDataReceived, subOpensGate, subStops, Gate, TryReceive, SetupRead,
              StartThreads, pubReturnGetDataToTransmit, vars, boardA, boardB
<1>7. ASSUME NEW b, ServerRunReturns(b) \/ Teardown(b) \/ stopHandler(b)
      PROVE  UNCHANGED <<txA, logB>>
  BY <1>7 DEF ServerRunReturns, Teardown, stopHandler, boardA, boardB
<1>8. Next => Forward!LinkNext \/ UNCHANGED <<txA, logB>>
  BY <1>2, <1>3, <1>4, <1>5, <1>6, <1>7, Zenon
     DEF Next, PubStep, SubrStep, SubStep, PubrStep, SetupStep, MainStep, Done
<1> QED
  BY <1>1, <1>6, <1>8

(* The way from A's tx_sequence to B's output file is a NumberedLink: B's  *)
(* file never shows a number that A has not published, nor goes back.      *)
THEOREM ForwardRefinement == Spec => ImplementsForwardLink
<1>1. Init => Forward!LinkInit
  <2> SUFFICES ASSUME Init PROVE Forward!LinkInit
    OBVIOUS
  <2>1. SetupReads - 1 \in Int /\ txA = (SetupReads - 1) - 1 /\ logB = <<>>
    BY SetupAssumption DEF Init
  <2> QED
    BY <2>1 DEF Forward!LinkInit
<1>2. BaseInv /\ [Next]_vars => [Forward!LinkNext]_(Forward!linkVars)
  BY ForwardStep
<1> QED
  BY <1>1, <1>2, BaseInductive, PTL DEF Spec, ImplementsForwardLink, Forward!LinkSpec

(***************************************************************************)
(* The second layer, for a queue that starts empty.                        *)
(***************************************************************************)

(* An action that leaves the queue, B's file and the returned packets      *)
(* alone keeps their chain.                                                *)
LEMMA QueueFrame ==
  ASSUME QueueChain, UNCHANGED <<msgq, msgqC, logB, forwarded>>,
         main'["B"] = "setup" => main["B"] = "setup"
  PROVE  QueueChain'
<1>1. Missed' = Missed
  BY DEF Missed, Message
<1> QED
  BY <1>1 DEF QueueChain

(* An action that returns nothing keeps what depends on it.                *)
LEMMA CountFrame ==
  ASSUME Counted, ForwardedInOrder, UNCHANGED <<prev, forwarded, txB>>
  PROVE  Counted' /\ ForwardedInOrder'
BY DEF Counted, ForwardedInOrder

(* An action that leaves the way back alone keeps its order.               *)
LEMMA ReturnFrame ==
  ASSUME ReturnChain, UNCHANGED <<netBA, txB, logA, txA>>
  PROVE  ReturnChain'
BY DEF ReturnChain

(* A flag that nobody clears needs no new reason.                          *)
LEMMA StopFrame ==
  ASSUME StopReasons, UNCHANGED <<running, signalled, txA, logB, txB>>
  PROVE  StopReasons'
BY DEF StopReasons

(* The second layer holds initially.                                       *)
LEMMA InitClean == ASSUME CleanStart, Init PROVE CleanInv
<1> USE DEF Init
<1>1. msgq = <<>>
  BY DEF CleanStart
<1>2. QueueChain
  BY <1>1 DEF QueueChain
<1>3. Counted /\ ForwardedInOrder
  BY DEF Counted, ForwardedInOrder
<1>4. ReturnChain
  BY DEF ReturnChain
<1>5. StopReasons
  BY DEF StopReasons, Board
<1> QED
  BY <1>2, <1>3, <1>4, <1>5 DEF CleanInv

(* Steps of a thread that only concern itself.                             *)
LEMMA QuietClean ==
  ASSUME CleanInv,
         UNCHANGED <<running, signalled, main, netBA, txA, logA>>,
         UNCHANGED <<msgq, msgqC, logB, forwarded, prev, txB>>
  PROVE  CleanInv'
BY QueueFrame, CountFrame, ReturnFrame, StopFrame DEF CleanInv

(* Loop heads, idle subscribers, the gate, and steps that change nothing.  *)
LEMMA ThreadClean ==
  ASSUME CleanInv,
         \/ (\E b, t : LoopHead(b, t)) \/ (\E t, net : SubIdle(t, net))
         \/ subOpensGate \/ Gate \/ UNCHANGED vars
  PROVE  CleanInv'
<1>1. /\ UNCHANGED <<running, signalled, main, netBA, txA, logA>>
      /\ UNCHANGED <<msgq, msgqC, logB, forwarded, prev, txB>>
  BY DEF LoopHead, SubIdle, subOpensGate, Gate, vars, boardA, boardB
<1> QED
  BY <1>1, QuietClean

(* The steps of main after setup.                                          *)
LEMMA MainClean ==
  ASSUME BaseInv, CleanInv,
         StartThreads \/ \E b \in Board : ServerRunReturns(b) \/ Teardown(b)
  PROVE  CleanInv'
<1> USE DEF BaseInv, CleanInv
<1>1. /\ UNCHANGED <<running, signalled, netBA, txA, logA, logB, forwarded, prev, txB, msgqC>>
      /\ UNCHANGED msgq \/ msgq' = <<>>
      /\ main'["B"] = "setup" => main["B"] = "setup"
  <2>1. CASE StartThreads
    BY <2>1 DEF StartThreads, TypeOK, Board, boardA, boardB
  <2>2. ASSUME NEW b \in Board, ServerRunReturns(b)
        PROVE  /\ UNCHANGED <<running, signalled, netBA, txA, logA, logB, forwarded, prev, txB>>
               /\ UNCHANGED <<msgq, msgqC>>
               /\ main'["B"] = "setup" => main["B"] = "setup"
    BY <2>2 DEF ServerRunReturns, TypeOK, Board, boardA, boardB
  <2>3. ASSUME NEW b \in Board, Teardown(b)
        PROVE  /\ UNCHANGED <<running, signalled, netBA, txA, logA, logB, forwarded, prev, txB>>
               /\ UNCHANGED msgqC /\ (UNCHANGED msgq \/ msgq' = <<>>)
               /\ main'["B"] = "setup" => main["B"] = "setup"
    BY <2>3 DEF Teardown, TypeOK, Board, boardA
  <2> QED
    BY <2>1, <2>2, <2>3
<1>2. QueueChain'
  <2>1. CASE UNCHANGED msgq
    BY <1>1, <2>1, QueueFrame
  <2>2. CASE msgq' = <<>>
    <3>1. Missed' = Missed /\ Len(msgq') = 0
      BY <2>2 DEF Missed, Message
    <3> QED
      BY <1>1, <2>2, <3>1 DEF QueueChain
  <2> QED
    BY <1>1, <2>1, <2>2
<1> QED
  BY <1>1, <1>2, CountFrame, ReturnFrame, StopFrame

(* A signal, and the last packet at B, clear a flag for a reason.          *)
LEMMA StopClean ==
  ASSUME BaseInv, CleanInv, subStops \/ \E b \in Board : stopHandler(b) PROVE CleanInv'
<1> USE DEF BaseInv, CleanInv
<1>1. UNCHANGED <<main, netBA, txA, logA, msgq, msgqC, logB, forwarded, prev, txB>>
  BY DEF subStops, stopHandler, boardA, boardB
<1>2. StopReasons'
  <2>1. CASE subStops
    BY <2>1 DEF subStops, StopReasons, FileOpen, TypeOK, Board, boardA
  <2>2. ASSUME NEW b \in Board, stopHandler(b) PROVE StopReasons'
    BY <2>2 DEF stopHandler, StopReasons, TypeOK, Board, boardA, boardB
  <2> QED
    BY <2>1, <2>2
<1> QED
  BY <1>1, <1>2, QueueFrame, CountFrame, ReturnFrame

(* A publishes: the numbers on the way back stay below its counter.        *)
LEMMA PubClean == ASSUME BaseInv, CleanInv, pubGetDataToTransmit PROVE CleanInv'
<1> USE DEF BaseInv, CleanInv
<1>1. /\ txA' = txA + 1 /\ running' = [running EXCEPT !["A"] = @ /\ txA' # PacketCount]
      /\ thr["pub"] = "awake"
      /\ UNCHANGED <<main, signalled, netBA, logA, msgq, msgqC, logB, forwarded, prev, txB>>
  BY DEF pubGetDataToTransmit, boardB
<1>2. ReturnChain'
  <2>1. \A i \in 1 .. Len(netBA) : netBA[i] \in Frames
    BY SeqFacts DEF TypeOK
  <2>2. \A i \in 1 .. Len(netBA) : netBA[i].seq \in Nat
    BY <2>1 DEF Frames
  <2>3. \A i \in 1 .. Len(netBA) : netBA[i].seq <= txA => netBA[i].seq <= txA'
    BY <1>1, <2>2 DEF TypeOK
  <2> QED
    BY <1>1, <2>3 DEF ReturnChain
<1>3. StopReasons'
  <2>1. running["A"] \/ "A" \in signalled
    <3>1. txA < PacketCount /\ txA \in Int /\ PacketCount \in Nat
      BY <1>1, CountAssumption DEF ThreadStates, TypeOK
    <3> QED
      BY <3>1 DEF StopReasons
  <2>2. running'["B"] = running["B"] /\ (running["A"] /\ ~running'["A"] => txA' = PacketCount)
    BY <1>1 DEF TypeOK, Board
  <2> QED
    BY <1>1, <2>1, <2>2 DEF StopReasons
<1> QED
  BY <1>1, <1>2, <1>3, QueueFrame, CountFrame

(* Numbers in the queue and in the forwarded frames are naturals.          *)
LEMMA SeqNumbers ==
  ASSUME TypeOK
  PROVE  /\ Len(msgq) \in Nat /\ Len(forwarded) \in Nat /\ Len(netBA) \in Nat /\ Len(logA) \in Nat
         /\ DOMAIN forwarded = 1 .. Len(forwarded)
         /\ \A i \in 1 .. Len(msgq) : msgq[i].seq \in Nat
         /\ \A i \in 1 .. Len(forwarded) : forwarded[i].seq \in Nat
         /\ \A i \in 1 .. Len(netBA) : netBA[i].seq \in Nat /\ netBA[i].seqB \in Int
         /\ \A i \in 1 .. Len(logA) : logA[i].seqB \in Int
         /\ msgqC.seq \in Nat /\ txB \in Int /\ txA \in Int
<1>1. /\ \A i \in 1 .. Len(msgq) : msgq[i] \in Messages
      /\ \A i \in 1 .. Len(forwarded) : forwarded[i] \in Frames
      /\ \A i \in 1 .. Len(netBA) : netBA[i] \in Frames
      /\ \A i \in 1 .. Len(logA) : logA[i] \in Frames
      /\ Len(msgq) \in Nat /\ Len(forwarded) \in Nat /\ Len(netBA) \in Nat /\ Len(logA) \in Nat
      /\ DOMAIN forwarded = 1 .. Len(forwarded)
  BY SeqFacts DEF TypeOK
<1>2. msgqC \in Messages /\ txB \in Int /\ txA \in Int
  BY DEF TypeOK
<1> QED
  BY <1>1, <1>2 DEF Messages, Frames

(* What B has logged is not above what it receives next.                   *)
LEMMA LoggedBefore ==
  ASSUME BaseInv, netAB # <<>>
  PROVE  \A x \in Range(logB) : x \in Nat /\ x <= netAB[1] /\ x <= txA
<1> USE DEF BaseInv
<1>1. netAB \in Seq(Nat) /\ logB \in Seq(Nat)
  BY DEF TypeOK
<1>2. 1 \in 1 .. Len(netAB)
  BY <1>1
<1>3. \A i \in 1 .. Len(logB) : logB[i] \in Nat /\ logB[i] <= netAB[1] /\ logB[i] <= txA
  BY <1>1, <1>2, SeqFacts DEF ForwardChain
<1> QED
  BY <1>1, <1>3, SeqFacts DEF Range

(* B logs a packet and queues it behind everything it received before.     *)
LEMMA SubStoresClean == ASSUME BaseInv, CleanInv, subStoresData PROVE CleanInv'
<1> USE DEF BaseInv, CleanInv
<1> DEFINE h == Head(netAB)
           e == Message(h, "real")
<1>1. /\ netAB # <<>> /\ h = netAB[1] /\ h \in Nat /\ Range(logB') = Range(logB) \cup {h}
      /\ msgq' = msgq \/ msgq' = Append(msgq, e)
      /\ e \in Real /\ e.seq = h /\ thr["sub"] = "store"
      /\ UNCHANGED <<running, main, signalled, netBA, txA, logA, txB, prev, msgqC, forwarded>>
  BY SubTakes DEF Message
<1> HIDE DEF h, e
<1>2. \A x \in Range(logB) : x \in Nat /\ x <= h
  BY <1>1, LoggedBefore
<1>3. main["B"] # "setup"
  BY <1>1 DEF ThreadStates
<1>4. Missed' = Missed
  BY DEF Missed, Message
<1>5. QueueChain'
  <2>1. CASE msgq' = msgq
    BY <1>1, <1>3, <1>4, <2>1 DEF QueueChain
  <2>2. CASE msgq' = Append(msgq, e)
    <3>1. /\ Len(msgq) \in Nat /\ Len(msgq') = Len(msgq) + 1
          /\ \A i \in 1 .. Len(msgq) : msgq'[i] = msgq[i]
          /\ msgq'[Len(msgq) + 1] = e
      BY <1>1, <2>2, AppendFacts DEF RealMessages
    <3>2. \A i \in 1 .. Len(msgq') : i \in 1 .. Len(msgq) \/ i = Len(msgq) + 1
      BY <3>1
    <3>3. \A i \in 1 .. Len(msgq') : msgq'[i].seq \in Range(logB')
      BY <1>1, <3>1, <3>2 DEF QueueChain
    <3>4. ASSUME NEW i \in 1 .. Len(msgq'), NEW j \in 1 .. Len(msgq'), i < j
          PROVE  msgq'[i].seq <= msgq'[j].seq
      <4>1. i \in 1 .. Len(msgq) /\ msgq'[i] = msgq[i]
        BY <3>1, <3>4
      <4>2. CASE j \in 1 .. Len(msgq)
        BY <3>1, <3>4, <4>1, <4>2 DEF QueueChain
      <4>3. CASE j = Len(msgq) + 1
        BY <1>1, <1>2, <3>1, <4>1, <4>3 DEF QueueChain
      <4> QED
        BY <3>2, <4>2, <4>3
    <3>5. msgqC # Missed => \A i \in 1 .. Len(msgq') : msgqC.seq <= msgq'[i].seq
      BY <1>1, <1>2, <3>1, <3>2 DEF QueueChain
    <3>6. \A i \in 1 .. Len(forwarded) : /\ forwarded[i].seq \in Range(logB')
                                         /\ \A j \in 1 .. Len(msgq') : forwarded[i].seq <= msgq'[j].seq
      BY <1>1, <1>2, <3>1, <3>2 DEF QueueChain
    <3> QED
      BY <1>1, <1>3, <1>4, <3>3, <3>4, <3>5, <3>6 DEF QueueChain
  <2> QED
    BY <1>1, <2>1, <2>2
<1>6. StopReasons'
  BY <1>1 DEF StopReasons
<1> QED
  BY <1>1, <1>5, <1>6, CountFrame, ReturnFrame

(* A read during setup finds nothing and changes nothing but its counter.  *)
LEMMA SetupReadClean == ASSUME BaseInv, CleanInv, SetupRead PROVE CleanInv'
<1> USE DEF BaseInv, CleanInv
<1>1. /\ main["B"] = "setup"
      /\ msgq' = IF msgq = <<>> THEN msgq ELSE Tail(msgq)
      /\ UNCHANGED <<main, signalled, netBA, txA, logA, msgqC, logB, forwarded>>
  BY DEF SetupRead, boardA
<1>2. msgq = <<>> /\ msgq' = msgq
  BY <1>1 DEF QueueChain
<1>3. Sampled(Missed) /\ Missed \in Real \cup {Missed}
  BY <1>2 DEF SetupRead
<1>4. SampleSeq(Missed) \in Errors
  BY <1>3, SampleFacts DEF Errors
<1>5. /\ txB' = txB /\ prev' = prev /\ running'["A"] = running["A"]
      /\ running'["B"] <=> running["B"] /\ txB' < PacketCount
  BY <1>3, <1>4, SampledFacts
<1>6. StopReasons'
  BY <1>1, <1>5, CountAssumption DEF StopReasons, TypeOK
<1> QED
  BY <1>1, <1>2, <1>5, <1>6, QueueFrame, CountFrame, ReturnFrame

(* The oldest message is taken into hand.                                  *)
LEMMA TryReceiveClean == ASSUME BaseInv, CleanInv, TryReceive PROVE CleanInv'
<1> USE DEF BaseInv, CleanInv
<1>1. /\ thr["pubr"] = "rcv"
      /\ UNCHANGED <<running, main, signalled, netBA, txA, logA, txB, prev, logB, forwarded>>
  BY DEF TryReceive, boardA
<1>2. main["B"] # "setup"
  BY <1>1 DEF ThreadStates
<1>3. CASE UNCHANGED <<msgqC, msgq>>
  BY <1>1, <1>3, QuietClean
<1>4. CASE msgq # <<>> /\ msgqC' = Head(msgq) /\ msgq' = Tail(msgq)
  <2>1. /\ Head(msgq) = msgq[1] /\ Len(msgq) \in Nat /\ Len(msgq) >= 1
        /\ Len(msgq') = Len(msgq) - 1
        /\ \A k \in 1 .. Len(msgq') : k + 1 \in 1 .. Len(msgq) /\ msgq'[k] = msgq[k + 1]
    BY <1>4, Received
  <2>2. msgqC' = msgq[1] /\ 1 \in 1 .. Len(msgq)
    BY <1>4, <2>1
  <2>3. \A k \in 1 .. Len(msgq') : msgq'[k].seq \in Range(logB) /\ msgq[1].seq <= msgq'[k].seq
    <3> TAKE k \in 1 .. Len(msgq')
    <3>1. k + 1 \in 1 .. Len(msgq) /\ msgq'[k] = msgq[k + 1] /\ 1 < k + 1
      BY <2>1
    <3> QED
      BY <2>2, <3>1 DEF QueueChain
  <2>4. ASSUME NEW i \in 1 .. Len(msgq'), NEW j \in 1 .. Len(msgq'), i < j
        PROVE  msgq'[i].seq <= msgq'[j].seq
    <3>1. /\ i + 1 \in 1 .. Len(msgq) /\ msgq'[i] = msgq[i + 1]
          /\ j + 1 \in 1 .. Len(msgq) /\ msgq'[j] = msgq[j + 1] /\ i + 1 < j + 1
      BY <2>1, <2>4
    <3> QED
      BY <3>1 DEF QueueChain
  <2>5. /\ msgq[1].seq \in Range(logB)
        /\ \A i \in 1 .. Len(forwarded) : forwarded[i].seq <= msgq[1].seq
    BY <2>2 DEF QueueChain
  <2>6. \A i \in 1 .. Len(forwarded) :
          /\ forwarded[i].seq \in Range(logB)
          /\ \A j \in 1 .. Len(msgq') : forwarded[i].seq <= msgq'[j].seq
    BY <2>1 DEF QueueChain
  <2>7. QueueChain'
    BY <1>1, <1>2, <2>2, <2>3, <2>4, <2>5, <2>6 DEF QueueChain
  <2> QED
    BY <1>1, <2>7, CountFrame, ReturnFrame, StopFrame
<1> QED
  BY <1>3, <1>4 DEF TryReceive

(* A frame that is sent carries an error code and counts nothing, or the   *)
(* number of the message in hand, which the counters then remember.        *)
LEMMA ReturnedFrame ==
  ASSUME BaseInv, CleanInv, pubReturnGetDataToTransmit
  PROVE  \/ /\ SampleSeq(msgqC) \in Errors /\ UNCHANGED <<txB, prev, forwarded>>
         \/ /\ SampleSeq(msgqC) \notin Errors /\ msgqC # Missed /\ SampleSeq(msgqC) = msgqC.seq
            /\ msgqC.seq \in Nat /\ msgqC.seq <= txA
            /\ msgqC.seq = prev => msgqC.seq <= EarlyLimit
            /\ txB' = txB + 1 /\ prev' = msgqC.seq
            /\ forwarded' = Append(forwarded, [seq |-> msgqC.seq, seqB |-> txB'])
<1> USE DEF BaseInv, CleanInv
<1>1. /\ forwarded' = IF SampleSeq(msgqC) \in Errors THEN forwarded
                      ELSE Append(forwarded, [seq |-> SampleSeq(msgqC), seqB |-> txB'])
  BY Returned
<1>2. msgqC \in Real \cup {Missed} /\ Sampled(msgqC)
  BY DEF RealMessages, pubReturnGetDataToTransmit
<1>3. /\ txB' = IF SampleSeq(msgqC) \in Errors THEN txB ELSE txB + 1
      /\ prev' = IF SampleSeq(msgqC) \in Errors THEN prev ELSE SampleSeq(msgqC)
  BY <1>2, SampledFacts
<1>4. CASE SampleSeq(msgqC) \in Errors
  BY <1>1, <1>3, <1>4
<1>5. CASE SampleSeq(msgqC) \notin Errors
  <2>1. msgqC # Missed /\ SampleSeq(msgqC) = msgqC.seq
        /\ ~(msgqC.seq = prev /\ msgqC.seq > EarlyLimit)
    BY <1>2, <1>5, SampleFacts DEF Errors
  <2>2. msgqC.seq \in Nat /\ EarlyLimit \in Nat
    BY SeqNumbers, LimitAssumption
  <2>3. msgqC.seq \in Range(logB)
    BY <2>1 DEF QueueChain
  <2>4. msgqC.seq <= txA
    <3>1. logB \in Seq(Nat)
      BY DEF TypeOK
    <3> QED
      BY <2>3, <3>1, SeqFacts DEF ForwardChain, Range
  <2> QED
    BY <1>1, <1>3, <1>5, <2>1, <2>2, <2>4
<1> QED
  BY <1>4, <1>5

(* B returns a packet or an error code.                                    *)
LEMMA PubReturnClean == ASSUME BaseInv, CleanInv, pubReturnGetDataToTransmit PROVE CleanInv'
<1> USE DEF BaseInv, CleanInv
<1> DEFINE frame == [seq |-> SampleSeq(msgqC), seqB |-> txB']
           n == Len(forwarded)
<1>a. /\ thr["pubr"] = "send" /\ msgqC' = Missed /\ Missed' = Missed
      /\ UNCHANGED <<main, signalled, txA, logA, msgq, logB>>
  BY DEF pubReturnGetDataToTransmit, boardA, Missed, Message
<1>b. /\ running'["A"] = running["A"] /\ (running'["B"] <=> running["B"] /\ txB' < PacketCount)
      /\ txB' \in Int
  BY SampledFacts DEF RealMessages, pubReturnGetDataToTransmit
<1>c. /\ frame \in Frames /\ frame.seq = SampleSeq(msgqC) /\ frame.seqB = txB'
      /\ netBA' \in Transmit("BA", netBA, frame)
  BY Returned
<1>d. /\ n \in Nat /\ DOMAIN forwarded = 1 .. n /\ txB \in Int /\ txA \in Int
      /\ \A i \in 1 .. n : forwarded[i].seq \in Nat
      /\ \A i \in 1 .. Len(netBA) : netBA[i].seq \in Nat /\ netBA[i].seqB \in Int
      /\ \A i \in 1 .. Len(logA) : logA[i].seqB \in Int
  BY SeqNumbers
<1>e. txB = n - 2 /\ prev = IF forwarded = <<>> THEN PrevInit ELSE forwarded[n].seq
  BY DEF Counted
<1>1. StopReasons'
  <2>1. txB' >= txB /\ PacketCount \in Nat
    BY <1>d, ReturnedFrame, CountAssumption
  <2> QED
    BY <1>a, <1>b, <1>d, <2>1 DEF StopReasons
<1>2. ReturnChain'
  <2> HIDE DEF frame
  <2>1. netBA \in Seq(Frames)
    BY DEF TypeOK
  <2>2. /\ Len(netBA') \in Nat /\ Len(netBA) \in Nat
        /\ \A i \in 1 .. Len(netBA) : netBA'[i] = netBA[i]
        /\ \A i \in 1 .. Len(netBA') : i \in 1 .. Len(netBA) \/ (i > Len(netBA) /\ netBA'[i] = frame)
    BY <1>c, <2>1, TransmitFacts
  <2>3. txB <= txB'
    BY <1>d, ReturnedFrame
  <2>4. frame.seq \notin Errors => -1 <= frame.seqB /\ frame.seq <= txA
    BY <1>c, <1>d, <1>e, ReturnedFrame
  <2>5. \A i \in 1 .. Len(netBA) : netBA[i].seqB <= txB'
    BY <1>b, <1>d, <2>3 DEF ReturnChain
  <2>6. \A i \in 1 .. Len(netBA') :
          /\ netBA'[i].seqB <= txB'
          /\ netBA'[i].seq \notin Errors => -1 <= netBA'[i].seqB /\ netBA'[i].seq <= txA'
    BY <1>a, <1>b, <1>c, <2>2, <2>4, <2>5 DEF ReturnChain
  <2>7. ASSUME NEW i \in 1 .. Len(netBA'), NEW j \in 1 .. Len(netBA'), i < j
        PROVE  netBA'[i].seqB <= netBA'[j].seqB
    <3>1. CASE j \in 1 .. Len(netBA)
      <4>1. i \in 1 .. Len(netBA)
        BY <2>2, <2>7, <3>1
      <4> QED
        BY <2>2, <2>7, <3>1, <4>1 DEF ReturnChain
    <3>2. CASE netBA'[j] = frame
      BY <1>c, <2>6, <3>2
    <3> QED
      BY <2>2, <3>1, <3>2
  <2>8. \A i \in 1 .. Len(logA) : logA[i].seqB <= txB'
    BY <1>b, <1>d, <2>3 DEF ReturnChain
  <2>9. \A i \in 1 .. Len(logA), j \in 1 .. Len(netBA') : logA[i].seqB <= netBA'[j].seqB
    BY <1>c, <2>2, <2>8 DEF ReturnChain
  <2> QED
    BY <1>a, <2>6, <2>7, <2>8, <2>9 DEF ReturnChain
<1>3. QueueChain' /\ Counted' /\ ForwardedInOrder'
  <2>1. CASE UNCHANGED <<txB, prev, forwarded>>
    <3>1. QueueChain'
      BY <1>a, <2>1 DEF QueueChain
    <3> QED
      BY <2>1, <3>1, CountFrame
  <2>2. CASE /\ msgqC # Missed /\ msgqC.seq \in Nat
             /\ msgqC.seq = prev => msgqC.seq <= EarlyLimit
             /\ txB' = txB + 1 /\ prev' = msgqC.seq
             /\ forwarded' = Append(forwarded, [seq |-> msgqC.seq, seqB |-> txB'])
    <3> DEFINE s == msgqC.seq
               f == [seq |-> s, seqB |-> txB']
    <3>1. f \in Frames /\ f.seq = s
      BY <1>b, <2>2 DEF Frames
    <3>2. forwarded' = Append(forwarded, f) /\ forwarded \in Seq(Frames)
      BY <2>2 DEF TypeOK
    <3>3. /\ s \in Range(logB) /\ s \in Nat
          /\ \A i \in 1 .. Len(msgq) : s <= msgq[i].seq
          /\ \A i \in 1 .. n : forwarded[i].seq <= s
      BY <2>2 DEF QueueChain
    <3> HIDE DEF f, s, n
    <3>4. /\ Len(forwarded') = n + 1 /\ forwarded' # <<>> /\ forwarded' \in Seq(Frames)
          /\ \A i \in 1 .. n : forwarded'[i] = forwarded[i]
          /\ forwarded'[n + 1] = f
      BY <3>1, <3>2, AppendFacts DEF n
    <3>5. \A i \in 1 .. n + 1 : i \in 1 .. n \/ i = n + 1
      BY <1>d
    <3>6. QueueChain'
      <4>1. \A i \in 1 .. n + 1 :
              /\ forwarded'[i].seq \in Range(logB)
              /\ \A j \in 1 .. Len(msgq) : forwarded'[i].seq <= msgq[j].seq
        BY <3>1, <3>3, <3>4, <3>5 DEF QueueChain, n
      <4> QED
        BY <1>a, <3>4, <4>1 DEF QueueChain
    <3>7. Counted'
      BY <1>d, <1>e, <2>2, <3>1, <3>4 DEF Counted, s
    <3>8. ForwardedInOrder'
      <4>1. DOMAIN forwarded' = 1 .. n + 1
        BY <3>4, SeqFacts
      <4> SUFFICES ASSUME NEW i \in 1 .. n + 1, NEW j \in 1 .. n + 1, i < j
                   PROVE  \/ forwarded'[i].seq < forwarded'[j].seq
                          \/ /\ forwarded'[i].seq = forwarded'[j].seq
                             /\ forwarded'[i].seq <= EarlyLimit
        BY <4>1 DEF ForwardedInOrder
      <4>2. i \in 1 .. n /\ forwarded'[i] = forwarded[i]
        BY <1>d, <3>4
      <4>3. CASE j \in 1 .. n
        BY <1>d, <3>4, <4>2, <4>3 DEF ForwardedInOrder
      <4>4. CASE j = n + 1
        <5>1. forwarded'[j].seq = s /\ forwarded[i].seq <= s /\ forwarded[i].seq \in Nat
          BY <1>d, <3>1, <3>3, <3>4, <4>2, <4>4
        <5>2. n \in 1 .. n /\ forwarded # <<>> /\ prev = forwarded[n].seq
          BY <1>d, <1>e, <4>2, <3>2, SeqFacts DEF n
        <5>3. forwarded[n].seq \in Nat /\ forwarded[n].seq <= s
          BY <1>d, <3>3, <5>2
        <5>4. i = n \/ forwarded[i].seq <= forwarded[n].seq
          <6>1. i = n \/ i < n
            BY <1>d, <4>2
          <6>2. i < n => forwarded[i].seq <= forwarded[n].seq
            BY <1>d, <4>2, <5>2 DEF ForwardedInOrder
          <6> QED
            BY <6>1, <6>2
        <5>5. forwarded[i].seq = s => prev = s
          BY <3>3, <5>1, <5>2, <5>3, <5>4
        <5>6. prev = s => s <= EarlyLimit
          BY <2>2 DEF s
        <5> QED
          BY <3>3, <4>2, <5>1, <5>5, <5>6
      <4> QED
        BY <3>5, <4>3, <4>4
    <3> QED
      BY <3>6, <3>7, <3>8
  <2> QED
    BY <2>1, <2>2, ReturnedFrame
<1> QED
  BY <1>1, <1>2, <1>3

(* A stores what has come back, and stops only at its own last number.     *)
LEMMA SubReturnClean == ASSUME BaseInv, CleanInv, subReturnStoreDataReceived PROVE CleanInv'
<1> USE DEF BaseInv, CleanInv
<1> DEFINE f == Head(netBA)
<1>1. /\ netBA # <<>> /\ netBA' = Tail(netBA)
      /\ logA' = logA \/ logA' = Append(logA, f)
      /\ running' = [running EXCEPT !["A"] = @ /\ ~LastReturn(f)]
      /\ UNCHANGED <<main, signalled, txA, msgq, txB, prev, msgqC, logB, forwarded>>
  BY DEF subReturnStoreDataReceived, boardB
<1>2. /\ f \in Frames /\ f = netBA[1] /\ Len(netBA) \in Nat /\ Len(netBA) >= 1
      /\ Len(netBA') = Len(netBA) - 1
      /\ \A k \in 1 .. Len(netBA') : k + 1 \in 1 .. Len(netBA) /\ netBA'[k] = netBA[k + 1]
  BY <1>1, TailFacts DEF TypeOK
<1> HIDE DEF f
<1>3. /\ 1 \in 1 .. Len(netBA) /\ f.seqB \in Int /\ f.seqB <= txB /\ f.seq \in Nat
      /\ f.seq \notin Errors => f.seq <= txA
  BY <1>2, SeqNumbers DEF ReturnChain
<1>4. StopReasons'
  <2>1. running'["B"] = running["B"] /\ (running["A"] /\ ~running'["A"] => LastReturn(f))
    BY <1>1 DEF TypeOK, Board
  <2>2. LastReturn(f) => txA = PacketCount
    <3>1. txA \in Int /\ txA <= PacketCount /\ PacketCount \in Nat
      BY CountAssumption DEF TypeOK, ThreadStates
    <3> QED
      BY <1>3, <3>1 DEF LastReturn
  <2> QED
    BY <1>1, <2>1, <2>2 DEF StopReasons
<1>5. ReturnChain'
  <2>1. \A i \in 1 .. Len(netBA') :
          /\ netBA'[i].seqB <= txB /\ f.seqB <= netBA'[i].seqB
          /\ netBA'[i].seq \notin Errors => -1 <= netBA'[i].seqB /\ netBA'[i].seq <= txA
    <3> TAKE i \in 1 .. Len(netBA')
    <3>1. i + 1 \in 1 .. Len(netBA) /\ netBA'[i] = netBA[i + 1] /\ 1 < i + 1
      BY <1>2
    <3> QED
      BY <1>2, <1>3, <3>1 DEF ReturnChain
  <2>2. ASSUME NEW i \in 1 .. Len(netBA'), NEW j \in 1 .. Len(netBA'), i < j
        PROVE  netBA'[i].seqB <= netBA'[j].seqB
    <3>1. /\ i + 1 \in 1 .. Len(netBA) /\ netBA'[i] = netBA[i + 1]
          /\ j + 1 \in 1 .. Len(netBA) /\ netBA'[j] = netBA[j + 1] /\ i + 1 < j + 1
      BY <1>2, <2>2
    <3> QED
      BY <3>1 DEF ReturnChain
  <2>3. \A i \in 1 .. Len(logA) :
          logA[i].seqB <= txB /\ \A j \in 1 .. Len(netBA') : logA[i].seqB <= netBA'[j].seqB
    BY <1>2 DEF ReturnChain
  <2>4. \A i \in 1 .. Len(logA') : logA'[i] = f \/ \E k \in 1 .. Len(logA) : logA'[i] = logA[k]
    <3>1. CASE logA' = logA
      BY <3>1
    <3>2. CASE logA' = Append(logA, f)
      <4>1. logA \in Seq(Frames)
        BY DEF TypeOK
      <4>2. /\ Len(logA) \in Nat /\ Len(logA') = Len(logA) + 1 /\ logA'[Len(logA) + 1] = f
            /\ \A i \in 1 .. Len(logA) : logA'[i] = logA[i]
        BY <1>2, <3>2, <4>1, AppendFacts
      <4> QED
        BY <4>2
    <3> QED
      BY <1>1, <3>1, <3>2
  <2>5. \A i \in 1 .. Len(logA') :
          logA'[i].seqB <= txB /\ \A j \in 1 .. Len(netBA') : logA'[i].seqB <= netBA'[j].seqB
    BY <1>3, <2>1, <2>3, <2>4
  <2> QED
    BY <1>1, <2>1, <2>2, <2>5 DEF ReturnChain
<1> QED
  BY <1>1, <1>4, <1>5, QueueFrame, CountFrame

(* Every step keeps the second layer.                                      *)
LEMMA NextClean == ASSUME BaseInv, CleanInv, [Next]_vars PROVE CleanInv'
<1>1. ASSUME PubStep \/ SubrStep \/ SubStep PROVE CleanInv'
  BY <1>1, ThreadClean, PubClean, SubReturnClean, SubStoresClean, StopClean, Zenon
     DEF PubStep, SubrStep, SubStep
<1>2. ASSUME PubrStep \/ SetupStep PROVE CleanInv'
  BY <1>2, ThreadClean, TryReceiveClean, PubReturnClean, SetupReadClean, MainClean, Zenon
     DEF PubrStep, SetupStep
<1>3. ASSUME NEW b \in Board, MainStep(b) \/ stopHandler(b) PROVE CleanInv'
  BY <1>3, MainClean, StopClean, Zenon DEF MainStep
<1> QED
  BY <1>1, <1>2, <1>3, ThreadClean, Zenon DEF Next, Done

(* Both layers are an invariant when the queue starts empty.               *)
THEOREM CleanInductive ==
  ASSUME CleanStart PROVE Spec => [](BaseInv /\ CleanInv)
<1>1. Init => BaseInv /\ CleanInv
  BY InitBase, InitClean
<1>2. (BaseInv /\ CleanInv) /\ [Next]_vars => (BaseInv /\ CleanInv)'
  BY NextBase, NextClean
<1> QED
  BY <1>1, <1>2, PTL DEF Spec

(* B forwards in the order it received, and no packet above the early ones *)
(* twice (ForwardedInOrder).                                               *)
THEOREM InOrder == ASSUME CleanStart PROVE Spec => []ForwardedInOrder
BY CleanInductive, PTL DEF CleanInv

(* Every data frame of pubReturnGetDataToTransmit carries a number of B's  *)
(* output file (ForwardsOnlyReceived); with a queue that an earlier        *)
(* process left behind this is false.                                      *)
THEOREM OnlyReceived == ASSUME CleanStart PROVE Spec => []ForwardsOnlyReceived
<1>1. BaseInv /\ CleanInv => ForwardsOnlyReceived
  <2> SUFFICES ASSUME BaseInv, CleanInv PROVE ForwardsOnlyReceived
    OBVIOUS
  <2>1. DOMAIN forwarded = 1 .. Len(forwarded)
    BY SeqNumbers DEF BaseInv
  <2> QED
    BY <2>1 DEF CleanInv, QueueChain, ForwardsOnlyReceived
<1> QED
  BY <1>1, CleanInductive, PTL

(* A message that pubReturnGetDataToTransmit skips as a duplicate has been *)
(* forwarded, or carries the number prev_rx_sequence starts with           *)
(* (SkippedWasForwarded).                                                  *)
THEOREM SkippedForwarded == ASSUME CleanStart PROVE Spec => []SkippedWasForwarded
<1>1. BaseInv /\ CleanInv => SkippedWasForwarded
  <2> SUFFICES ASSUME BaseInv, CleanInv, SampleSeq(msgqC) = ERROR_DUPLICATE
               PROVE  IF forwarded = <<>> THEN msgqC.seq = PrevInit
                      ELSE \E i \in DOMAIN forwarded : forwarded[i].seq = msgqC.seq
    BY DEF SkippedWasForwarded
  <2> USE DEF BaseInv, CleanInv
  <2>1. msgqC \in Real \cup {Missed}
    BY DEF RealMessages
  <2>2. msgqC # Missed
    BY <2>1, SampleFacts, ErrorAssumption
  <2>3. SampleSeq(msgqC) # msgqC.seq
    <3>1. msgqC.seq \in Range(logB) /\ logB \in Seq(Nat)
      BY <2>2 DEF QueueChain, TypeOK
    <3>2. msgqC.seq <= txA /\ txA <= PacketCount
      BY <3>1, SeqFacts DEF ForwardChain, ThreadStates, Range
    <3>3. ERROR_DUPLICATE > PacketCount /\ ERROR_DUPLICATE \in Nat
      BY ErrorAssumption DEF Errors
    <3> QED
      BY <3>2, <3>3, SeqNumbers, CountAssumption
  <2>4. msgqC.seq = prev
    BY <2>1, <2>2, <2>3, SampleFacts
  <2>5. forwarded # <<>> => Len(forwarded) \in DOMAIN forwarded
    BY SeqFacts DEF TypeOK
  <2> QED
    BY <2>4, <2>5 DEF Counted
<1> QED
  BY <1>1, CleanInductive, PTL

(* What ends the processes without a signal: A only its last packet, B the *)
(* last packet in its file or more repeats of early packets than there     *)
(* were reads during setup (NoEarlyStop).  B's own count reaches           *)
(* packetCount after packetCount + 2 data frames, and before the last      *)
(* packet there are only packetCount - SetupReads + 1 numbers for them.    *)
THEOREM StopsOnTime == ASSUME CleanStart PROVE Spec => []NoEarlyStop
<1>1. BaseInv /\ CleanInv => NoEarlyStop
  <2> SUFFICES ASSUME BaseInv, CleanInv, PacketCount \notin Range(logB), txB >= PacketCount
               PROVE  Repeats > SetupReads
    BY DEF NoEarlyStop, CleanInv, StopReasons
  <2> USE DEF BaseInv, CleanInv
  <2> DEFINE seqs == {forwarded[i].seq : i \in DOMAIN forwarded}
             lo == SetupReads - 1
             hi == PacketCount - 1
  <2>1. /\ SetupReads \in 1 .. 2 /\ PacketCount \in Nat /\ PacketCount >= 1 /\ txA \in Int
        /\ txA <= PacketCount /\ Len(forwarded) \in Nat /\ txB = Len(forwarded) - 2
    BY SetupAssumption, CountAssumption, SeqNumbers DEF TypeOK, ThreadStates, Counted
  <2>2. ASSUME NEW i \in DOMAIN forwarded
        PROVE  forwarded[i].seq \in lo .. hi
    <3>1. forwarded[i].seq \in Range(logB) /\ forwarded[i].seq \in Nat
      BY SeqNumbers DEF QueueChain
    <3>2. logB \in Seq(Nat)
      BY DEF TypeOK
    <3>3. SetupReads - 1 <= forwarded[i].seq /\ forwarded[i].seq <= txA
      BY <3>1, <3>2, SeqFacts DEF ForwardChain, Range
    <3> QED
      BY <2>1, <3>1, <3>3
  <2>3. seqs \in SUBSET (lo .. hi)
    BY <2>2
  <2>4. IsFiniteSet(lo .. hi) /\ Cardinality(lo .. hi) = PacketCount - SetupReads + 1
    <3>1. lo \in Int /\ hi \in Int /\ (lo > hi => PacketCount - SetupReads + 1 = 0)
          /\ hi - lo + 1 = PacketCount - SetupReads + 1
      BY <2>1
    <3> HIDE DEF lo, hi
    <3>2. IsFiniteSet(lo .. hi) /\ Cardinality(lo .. hi) = IF lo > hi THEN 0 ELSE hi - lo + 1
      BY <3>1, FS_Interval
    <3> QED
      BY <3>1, <3>2
  <2>5. Cardinality(seqs) <= PacketCount - SetupReads + 1 /\ Cardinality(seqs) \in Nat
    BY <2>3, <2>4, FS_Subset, FS_CardinalityType
  <2>6. Repeats = Len(forwarded) - Cardinality(seqs)
    BY DEF Repeats
  <2> QED
    BY <2>1, <2>5, <2>6
<1> QED
  BY <1>1, CleanInductive, PTL

----------------------------------------------------------------------------
(* B's numbers in A's file, and what one more row makes of them.           *)
Numbers(rows) == [i \in DOMAIN rows |-> rows[i].seqB]

LEMMA NumbersFacts ==
  ASSUME NEW rows \in Seq(Frames), NEW f \in Frames
  PROVE  /\ Len(Numbers(rows)) = Len(rows)
         /\ Numbers(rows) = <<>> <=> rows = <<>>
         /\ \A i \in 1 .. Len(rows) : Numbers(rows)[i] = rows[i].seqB
         /\ Numbers(Append(rows, f)) = Append(Numbers(rows), f.seqB)
<1>1. ASSUME NEW q \in Seq(Frames)
      PROVE  /\ Numbers(q) \in Seq(Int) /\ Len(Numbers(q)) = Len(q)
             /\ \A i \in 1 .. Len(q) : Numbers(q)[i] = q[i].seqB
  <2>1. /\ Len(q) \in Nat /\ DOMAIN q = 1 .. Len(q)
        /\ \A i \in 1 .. Len(q) : q[i] \in Frames
    BY SeqFacts
  <2>2. \A i \in 1 .. Len(q) : q[i].seqB \in Int
    BY <2>1 DEF Frames
  <2>3. Numbers(q) = [i \in 1 .. Len(q) |-> q[i].seqB]
    BY <2>1 DEF Numbers
  <2> QED
    BY <2>1, <2>2, <2>3
<1>2. f.seqB \in Int
  BY DEF Frames
<1> DEFINE more == Append(rows, f)
           a == Numbers(more)
           b == Append(Numbers(rows), f.seqB)
<1>3. /\ more \in Seq(Frames) /\ Len(rows) \in Nat /\ Len(more) = Len(rows) + 1
      /\ \A i \in 1 .. Len(rows) : more[i] = rows[i]
      /\ more[Len(rows) + 1] = f
  BY AppendFacts
<1>4. /\ b \in Seq(Int) /\ Len(b) = Len(rows) + 1
      /\ \A i \in 1 .. Len(rows) : b[i] = rows[i].seqB
      /\ b[Len(rows) + 1] = f.seqB
  BY <1>1, <1>2, AppendFacts
<1> HIDE DEF more, b
<1>5. /\ a \in Seq(Int) /\ Len(a) = Len(rows) + 1
      /\ \A i \in 1 .. Len(rows) + 1 : a[i] = more[i].seqB
  BY <1>1, <1>3
<1> HIDE DEF a
<1>6. ASSUME NEW i \in 1 .. Len(rows) + 1 PROVE a[i] = b[i]
  <2>1. i \in 1 .. Len(rows) \/ i = Len(rows) + 1
    BY <1>3
  <2>2. CASE i \in 1 .. Len(rows)
    BY <1>3, <1>4, <1>5, <2>2
  <2>3. CASE i = Len(rows) + 1
    BY <1>3, <1>4, <1>5, <2>3
  <2> QED
    BY <2>1, <2>2, <2>3
<1>7. a = b
  BY <1>4, <1>5, <1>6, SeqEqual
<1>8. Numbers(rows) = <<>> <=> rows = <<>>
  BY <1>1, SeqFacts
<1> QED
  BY <1>1, <1>7, <1>8 DEF a, b, more

(* A step that adds neither a data frame nor a row.                        *)
LEMMA ReturnStutters ==
  ASSUME UNCHANGED <<forwarded, logA>>
  PROVE  [Return!LinkNext]_(Return!linkVars)
BY DEF Return!linkVars

(* B sends a frame: a data frame takes the next number, an error none.     *)
LEMMA ReturnNumbers ==
  ASSUME BaseInv, CleanInv, pubReturnGetDataToTransmit
  PROVE  [Return!LinkNext]_(Return!linkVars)
<1>1. logA' = logA
  BY DEF pubReturnGetDataToTransmit, boardA
<1>2. CASE forwarded' = forwarded
  BY <1>1, <1>2, ReturnStutters
<1>3. CASE forwarded' # forwarded
  <2>1. /\ txB' = txB + 1
        /\ forwarded' = Append(forwarded, [seq |-> msgqC.seq, seqB |-> txB'])
        /\ [seq |-> msgqC.seq, seqB |-> txB'] \in Frames
    BY <1>3, ReturnedFrame, SeqNumbers DEF BaseInv, Frames
  <2>2. forwarded \in Seq(Frames)
    BY DEF BaseInv, TypeOK
  <2>3. Len(forwarded') = Len(forwarded) + 1 /\ Len(forwarded) \in Nat
    BY <2>1, <2>2, AppendFacts
  <2>4. Return!Number
    BY <1>1, <2>3 DEF Return!Number
  <2> QED
    BY <2>4 DEF Return!LinkNext
<1> QED
  BY <1>2, <1>3

(* A receives a frame: the row of a data frame carries a number that B has *)
(* given out, no smaller than that of the row before.                      *)
LEMMA ReturnLogs ==
  ASSUME BaseInv, CleanInv, subReturnStoreDataReceived
  PROVE  [Return!LinkNext]_(Return!linkVars)
<1> USE DEF BaseInv, CleanInv
<1> DEFINE f == Head(netBA)
           n == f.seqB
<1>1. /\ netBA # <<>> /\ forwarded' = forwarded
      /\ logA' = logA \/ (logA' = Append(logA, f) /\ f.seq \notin Errors)
  BY DEF subReturnStoreDataReceived, boardB
<1>2. f = netBA[1] /\ f \in Frames /\ 1 \in 1 .. Len(netBA)
  BY <1>1, TailFacts DEF TypeOK
<1>3. CASE logA' = logA
  BY <1>1, <1>3, ReturnStutters
<1>4. CASE logA' = Append(logA, f) /\ f.seq \notin Errors
  <2>1. n \in Int /\ -1 <= n /\ n <= txB /\ txB \in Int /\ txB = Len(forwarded) - 2
    BY <1>2, <1>4, SeqNumbers DEF ReturnChain, Counted
  <2>2. \A i \in 1 .. Len(logA) : logA[i].seqB <= n
    BY <1>2 DEF ReturnChain
  <2>3. logA \in Seq(Frames) /\ Len(logA) \in Nat /\ (logA # <<>> => Len(logA) \in 1 .. Len(logA))
    BY SeqFacts DEF TypeOK
  <2> HIDE DEF n, f
  <2>4. /\ Len(Numbers(logA)) = Len(logA)
        /\ Numbers(logA) = <<>> <=> logA = <<>>
        /\ \A i \in 1 .. Len(logA) : Numbers(logA)[i] = logA[i].seqB
        /\ Numbers(logA') = Append(Numbers(logA), n)
    BY <1>2, <1>4, <2>3, NumbersFacts DEF n
  <2>5. IF Numbers(logA) = <<>> THEN n >= -1 ELSE n >= Numbers(logA)[Len(Numbers(logA))]
    BY <2>1, <2>2, <2>3, <2>4, SeqNumbers
  <2>6. PICK k \in -1 .. Len(forwarded) - 2 : k = n
    BY <2>1
  <2>7. Return!Log(k)
    BY <1>1, <2>1, <2>4, <2>5, <2>6 DEF Return!Log, Numbers
  <2>8. Return!LinkNext
    BY <2>7 DEF Return!LinkNext
  <2> QED
    BY <2>8
<1> QED
  BY <1>1, <1>3, <1>4

(* Every step is a step of the link back to A, or leaves it alone.         *)
LEMMA ReturnStep ==
  ASSUME BaseInv, CleanInv, [Next]_vars
  PROVE  [Return!LinkNext]_(Return!linkVars)
<1>1. CASE pubReturnGetDataToTransmit
  BY <1>1, ReturnNumbers
<1>2. CASE subReturnStoreDataReceived
  BY <1>2, ReturnLogs
<1>3. CASE ~pubReturnGetDataToTransmit /\ ~subReturnStoreDataReceived
  <2>1. ASSUME PubStep \/ SubrStep PROVE UNCHANGED <<forwarded, logA>>
    BY <1>3, <2>1 DEF PubStep, SubrStep, LoopHead, pubGetDataToTransmit, SubIdle, boardA, boardB
  <2>2. ASSUME SubStep PROVE UNCHANGED <<forwarded, logA>>
    BY <2>2 DEF SubStep, LoopHead, SubIdle, subOpensGate, subStoresData, subStops, boardA, boardB
  <2>3. ASSUME PubrStep \/ SetupStep PROVE UNCHANGED <<forwarded, logA>>
    BY <1>3, <2>3
       DEF PubrStep, SetupStep, LoopHead, Gate, TryReceive, SetupRead, StartThreads, boardA, boardB
  <2>4. ASSUME NEW b \in Board, MainStep(b) \/ stopHandler(b) PROVE UNCHANGED <<forwarded, logA>>
    BY <2>4 DEF MainStep, ServerRunReturns, Teardown, stopHandler, boardA, boardB
  <2>5. UNCHANGED vars => UNCHANGED <<forwarded, logA>>
    BY DEF vars, boardA, boardB
  <2>6. UNCHANGED <<forwarded, logA>>
    BY <2>1, <2>2, <2>3, <2>4, <2>5 DEF Next, Done
  <2> QED
    BY <2>6, ReturnStutters
<1> QED
  BY <1>1, <1>2, <1>3

(* Through the queue and the second network, pauses and error frames       *)
(* included, A's file shows B's numbers as NumberedLink promises           *)
(* (ImplementsReturnLink).                                                 *)
THEOREM ReturnRefinement == ASSUME CleanStart PROVE Spec => ImplementsReturnLink
<1>1. Init => Return!LinkInit
  <2> SUFFICES ASSUME Init PROVE Return!LinkInit
    OBVIOUS
  <2>1. Len(forwarded) - 2 = -1 - 1 /\ [i \in DOMAIN logA |-> logA[i].seqB] = <<>>
    BY DEF Init
  <2> QED
    BY <2>1 DEF Return!LinkInit
<1>2. (BaseInv /\ CleanInv) /\ [Next]_vars => [Return!LinkNext]_(Return!linkVars)
  BY ReturnStep
<1> QED
  BY <1>1, <1>2, CleanInductive, PTL DEF Spec, ImplementsReturnLink, Return!LinkSpec
=============================================================================
