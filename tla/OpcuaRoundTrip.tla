--------------------------- MODULE OpcuaRoundTrip ---------------------------
(***************************************************************************)
(* The OPC UA round trip of opcua-server (src/opcua-tsn): two processes,   *)
(* one per board, each with a publisher and a subscriber thread.           *)
(*                                                                         *)
(*   board A: pub     --- netAB -->  sub       :board B                    *)
(*                                    | msgq (System V, IPC_NOWAIT)        *)
(*            subr    <-- netBA ---  pubr                                  *)
(*                                                                         *)
(* pub numbers packets; sub logs them and forwards them through the        *)
(* message queue; pubr sends one frame per cycle, a forwarded packet or an *)
(* error code; subr logs what comes back.  Each process stops through its  *)
(* flag g_running, which its threads and the signal handler clear and      *)
(* which a thread reads only at its loop head, before it sleeps.           *)
(*                                                                         *)
(* Time stamps are abstracted to what the code tests about them: whether a *)
(* message carries real ones or the sentinels 888 / 999.                   *)
(***************************************************************************)
EXTENDS Integers, Sequences, SequencesExt

CONSTANTS
  PacketCount,      \* g_sData->packetCount
  EarlyLimit,       \* 10: sequence numbers treated as early
  SeqMissed,        \* 888: sequence number of the "nothing received" sentinel
  SeqInvalid,       \* 999: sequence number of the "nothing stored" sentinel
  PrevInit,         \* 999: initial prev_rx_sequence
  ERROR_DUPLICATE, ERROR_MSGQ_COPY, ERROR_NOTHING_TO_FORWARD,
  TwoTo64,          \* modulus of UA_UInt64
  SetupReads,       \* reads of the data source by the library before its thread
  Tries,            \* 15: attempts of msgrcv per cycle
  QueueCap,         \* messages that fit msg_qbytes
  NetCap,           \* frames in flight or in socket buffers, per direction
  Duplicating,      \* directions in which the network may deliver a frame twice
  Signallable,      \* boards whose process may get a signal
  StaleQueues       \* what an earlier process may have left in the queue

Errors == {ERROR_DUPLICATE, ERROR_MSGQ_COPY, ERROR_NOTHING_TO_FORWARD}

ASSUME CountAssumption == PacketCount \in Nat \ {0}
(* The sequence number of a cycle without a message is no early one.       *)
ASSUME LimitAssumption ==
  {EarlyLimit, SeqMissed, SeqInvalid, PrevInit} \subseteq Nat /\ EarlyLimit <= SeqMissed
(* The error codes are far above any sequence number, and distinct.        *)
ASSUME ErrorAssumption ==
  /\ \A e \in Errors : e \in Nat /\ e > PacketCount
  /\ ERROR_DUPLICATE # ERROR_MSGQ_COPY
  /\ ERROR_DUPLICATE # ERROR_NOTHING_TO_FORWARD
  /\ ERROR_MSGQ_COPY # ERROR_NOTHING_TO_FORWARD
(* tx_sequence starts at -2 because the library reads the data source      *)
(* before the first packet; at least one such read keeps it unsigned.      *)
ASSUME SetupAssumption == SetupReads \in 1 .. 2 /\ TwoTo64 \in Nat /\ TwoTo64 > PacketCount
ASSUME BoundAssumption == /\ Tries \in Nat \ {0} /\ QueueCap \in Nat
                          /\ NetCap \in [{"AB", "BA"} -> Nat]
                          /\ Duplicating \subseteq {"AB", "BA"}
                          /\ Signallable \subseteq {"A", "B"}
(* Only subStoreDataReceived sends to the queue, with real time stamps.    *)
ASSUME StaleAssumption == StaleQueues \subseteq Seq([seq : Nat, stamp : {"real"}])

VARIABLES
  running,    \* g_running of the process on each board
  main,       \* the main thread of each process
  thr,        \* the four publisher and subscriber threads
  signalled,  \* history: boards whose process got SIGINT or SIGTERM
  txA,        \* tx_sequence on A (pub)
  netAB, netBA,
  gate,       \* g_roundtrip_pubReturn on B
  msgq,       \* messages in the System V queue
  msqid,      \* whether the queue exists
  txB,        \* tx_sequence on B (pubr)
  prev,       \* prev_rx_sequence on B
  setupLeft,  \* reads of pubr's data source still to come during setup
  msgqC, tries, \* locals of pubReturnGetDataToTransmit
  logA, logB, \* data rows of the two output files
  fileA, fileB, \* whether fpSubscriberOutput is open
  forwarded   \* history: data frames pubr has sent, in order

boardA == <<txA, logA, fileA>>
boardB == <<gate, msgq, msqid, txB, prev, setupLeft, msgqC, tries, logB, fileB, forwarded>>
vars == <<running, main, thr, signalled, netAB, netBA, boardA, boardB>>

Board == {"A", "B"}
ThreadsOf(b) == IF b = "A" THEN {"pub", "subr"} ELSE {"sub", "pubr"}
Thread == {"pub", "subr", "sub", "pubr"}

UInt64(n) == n % TwoTo64

(* A message of struct msgq_buf: its sequence number and what its two time *)
(* stamps are.  Missed is msgqC as pubReturnGetDataToTransmit initialises  *)
(* it and finds it when no msgrcv succeeded.                               *)
Message(seq, stamp) == [seq |-> seq, stamp |-> stamp]
Missed == Message(SeqMissed, "888")

(* The network may lose a frame, deliver it, or deliver it twice.          *)
Transmit(dir, net, m) ==
  {net} \cup (IF Len(net) < NetCap[dir] THEN {Append(net, m)} ELSE {})
        \cup (IF dir \in Duplicating /\ Len(net) + 1 < NetCap[dir]
              THEN {Append(Append(net, m), m)} ELSE {})

----------------------------------------------------------------------------
(* configureServer closes the gate on B, where the publisher is two-way,   *)
(* and opens the queue whatever it holds; on A the publisher has already   *)
(* been read SetupReads times when its thread starts.                      *)
Init ==
  /\ running = [b \in Board |-> TRUE]
  /\ main = [b \in Board |-> IF b = "A" THEN "run" ELSE "setup"]
  /\ thr = [t \in Thread |-> IF t \in ThreadsOf("A") THEN "head" ELSE "off"]
  /\ signalled = {}
  /\ txA = SetupReads - 2
  /\ netAB = <<>> /\ netBA = <<>>
  /\ gate = FALSE
  /\ msgq \in StaleQueues /\ msqid = TRUE
  /\ txB = -2 /\ prev = PrevInit /\ setupLeft = SetupReads
  /\ msgqC = Missed /\ tries = 0
  /\ logA = <<>> /\ logB = <<>> /\ fileA = TRUE /\ fileB = TRUE
  /\ forwarded = <<>>

----------------------------------------------------------------------------
(* while (g_running): a thread that passes sleeps and then works, even if  *)
(* the flag is cleared meanwhile.                                          *)
LoopHead(b, t) ==
  /\ t \in ThreadsOf(b) /\ thr[t] = "head"
  /\ thr' = [thr EXCEPT ![t] = IF running[b] THEN "awake" ELSE "done"]
  /\ UNCHANGED <<running, main, signalled, netAB, netBA, boardA, boardB>>

\* Faulty: the packet carries the number of the next one.
pubGetDataToTransmit_Ahead ==
  /\ thr["pub"] = "awake"
  /\ txA' = txA + 1
  /\ netAB' \in Transmit("AB", netAB, UInt64(txA' + 1))
  /\ running' = [running EXCEPT !["A"] = @ /\ txA' # PacketCount]
  /\ thr' = [thr EXCEPT !["pub"] = "head"]
  /\ UNCHANGED <<main, signalled, netBA, logA, fileA, boardB>>

(* pub_thread on A calls pubGetDataToTransmit and sends the packet.        *)
pubGetDataToTransmit ==
  /\ thr["pub"] = "awake"
  /\ txA' = txA + 1
  /\ netAB' \in Transmit("AB", netAB, UInt64(txA'))
  /\ running' = [running EXCEPT !["A"] = @ /\ txA' # PacketCount]
  /\ thr' = [thr EXCEPT !["pub"] = "head"]
  /\ UNCHANGED <<main, signalled, netBA, logA, fileA, boardB>>

(* sub_thread on B finds nothing to receive in this cycle.                 *)
SubIdle(t, net) ==
  /\ thr[t] = "awake" /\ net = <<>>
  /\ thr' = [thr EXCEPT ![t] = "head"]
  /\ UNCHANGED <<running, main, signalled, netAB, netBA, boardA, boardB>>

(* sub_thread on B receives one packet.  The gate opens before the packet  *)
(* is in the queue: pubr may run its receive window in between.            *)
subOpensGate ==
  /\ thr["sub"] = "awake" /\ netAB # <<>>
  /\ gate' = TRUE
  /\ thr' = [thr EXCEPT !["sub"] = "store"]
  /\ UNCHANGED <<running, main, signalled, netAB, netBA, boardA, msgq, msqid, txB, prev,
                 setupLeft, msgqC, tries, logB, fileB, forwarded>>

(* Log the row and pass the packet to the queue unless that is full.       *)
subStoresData ==
  /\ thr["sub"] = "store"
  /\ LET seq == Head(netAB)
     IN  /\ logB' = IF fileB THEN Append(logB, seq) ELSE logB
         /\ msgq' = IF msqid /\ Len(msgq) < QueueCap
                    THEN Append(msgq, Message(seq, "real")) ELSE msgq
         /\ thr' = [thr EXCEPT !["sub"] = IF seq = PacketCount THEN "stop" ELSE "head"]
  /\ netAB' = Tail(netAB)
  /\ UNCHANGED <<running, main, signalled, netBA, boardA, gate, msqid, txB, prev, setupLeft,
                 msgqC, tries, fileB, forwarded>>

\* Faulty: the file is closed but the process goes on.
subStops_KeepsRunning ==
  /\ thr["sub"] = "stop"
  /\ fileB' = FALSE
  /\ thr' = [thr EXCEPT !["sub"] = "head"]
  /\ UNCHANGED <<running, main, signalled, netAB, netBA, boardA, gate, msgq, msqid, txB, prev,
                 setupLeft, msgqC, tries, logB, forwarded>>

(* The last packet: close the file and stop the process.                   *)
subStops ==
  /\ thr["sub"] = "stop"
  /\ fileB' = FALSE
  /\ running' = [running EXCEPT !["B"] = FALSE]
  /\ thr' = [thr EXCEPT !["sub"] = "head"]
  /\ UNCHANGED <<main, signalled, netAB, netBA, boardA, gate, msgq, msqid, txB, prev,
                 setupLeft, msgqC, tries, logB, forwarded>>

\* Faulty: any miss pauses, early or not.
Pause_Always(m) == m.stamp \in {"999", "888"}

----------------------------------------------------------------------------
(* pubReturnGetDataToTransmit after its receive loop: whether an early     *)
(* message pauses the thread, and what the frame carries as seqA.          *)
Pause(m) == m.seq < EarlyLimit /\ m.stamp \in {"999", "888"}

\* Faulty: no test for duplicates.
SampleSeq_Repeats(m) ==
  IF Pause(m) THEN m.seq
  ELSE IF m = Message(SeqInvalid, "999") THEN ERROR_NOTHING_TO_FORWARD
  ELSE IF m = Missed THEN ERROR_MSGQ_COPY ELSE m.seq

\* Faulty: no test for an empty queue.
SampleSeq_Blank(m) ==
  IF Pause(m) THEN m.seq
  ELSE IF m = Message(SeqInvalid, "999") THEN ERROR_NOTHING_TO_FORWARD
  ELSE IF m.seq = prev /\ m.seq > EarlyLimit THEN ERROR_DUPLICATE ELSE m.seq

SampleSeq(m) ==
  IF Pause(m) THEN m.seq
  ELSE IF m = Message(SeqInvalid, "999") THEN ERROR_NOTHING_TO_FORWARD
  ELSE IF m = Missed THEN ERROR_MSGQ_COPY
  ELSE IF m.seq = prev /\ m.seq > EarlyLimit /\ m.stamp # "999" THEN ERROR_DUPLICATE
  ELSE m.seq

\* Faulty: error frames are counted.
Sampled_CountsErrors(m) ==
  /\ gate' = (gate /\ ~Pause(m))
  /\ txB' = IF Pause(m) THEN txB ELSE txB + 1
  /\ prev' = IF SampleSeq(m) \in Errors THEN prev ELSE SampleSeq(m)
  /\ running' = [running EXCEPT !["B"] = @ /\ txB' < PacketCount]

\* Faulty: the wrong counter is remembered.
Sampled_WrongPrev(m) ==
  /\ gate' = (gate /\ ~Pause(m))
  /\ txB' = IF Pause(m) \/ SampleSeq(m) \in Errors THEN txB ELSE txB + 1
  /\ prev' = txB'
  /\ running' = [running EXCEPT !["B"] = @ /\ txB' < PacketCount]

(* The part of the handler that setup reads and cyclic reads share.        *)
Sampled(m) ==
  /\ gate' = (gate /\ ~Pause(m))
  /\ txB' = IF Pause(m) \/ SampleSeq(m) \in Errors THEN txB ELSE txB + 1
  /\ prev' = IF SampleSeq(m) \in Errors THEN prev ELSE SampleSeq(m)
  /\ running' = [running EXCEPT !["B"] = @ /\ txB' < PacketCount]

(* While the server is set up the library reads the data source; there is  *)
(* no frame, but a message that is in the queue is consumed.               *)
SetupRead ==
  /\ main["B"] = "setup" /\ setupLeft > 0
  /\ Sampled(IF msgq = <<>> THEN Missed ELSE Head(msgq))
  /\ msgq' = IF msgq = <<>> THEN msgq ELSE Tail(msgq)
  /\ setupLeft' = setupLeft - 1
  /\ UNCHANGED <<main, thr, signalled, netAB, netBA, boardA, msqid, msgqC, tries,
                 logB, fileB, forwarded>>

(* setupOpcuaServer has created both threads; main enters UA_Server_run.   *)
StartThreads ==
  /\ main["B"] = "setup" /\ setupLeft = 0
  /\ main' = [main EXCEPT !["B"] = "run"]
  /\ thr' = [t \in Thread |-> IF t \in ThreadsOf("B") THEN "head" ELSE thr[t]]
  /\ UNCHANGED <<running, signalled, netAB, netBA, boardA, boardB>>

(* pub_thread on B: with the gate closed the cycle is blank, otherwise the *)
(* publish callback runs.                                                  *)
Gate ==
  /\ thr["pubr"] = "awake"
  /\ thr' = [thr EXCEPT !["pubr"] = IF gate THEN "rcv" ELSE "head"]
  /\ UNCHANGED <<running, main, signalled, netAB, netBA, boardA, boardB>>

(* One msgrcv(IPC_NOWAIT) of the receive window.                           *)
TryReceive ==
  /\ thr["pubr"] = "rcv"
  /\ tries' = tries + 1
  /\ IF msqid /\ msgq # <<>>
     THEN /\ msgqC' = Head(msgq) /\ msgq' = Tail(msgq)
          /\ thr' = [thr EXCEPT !["pubr"] = "send"]
     ELSE /\ thr' = [thr EXCEPT !["pubr"] = IF tries' = Tries THEN "send" ELSE "rcv"]
          /\ UNCHANGED <<msgqC, msgq>>
  /\ UNCHANGED <<running, main, signalled, netAB, netBA, boardA, gate, msqid, txB,
                 prev, setupLeft, logB, fileB, forwarded>>

(* Classify what was received, send the frame, update the counters; msgqC  *)
(* and the loop counter are locals, initialised afresh for the next cycle. *)
pubReturnGetDataToTransmit ==
  /\ thr["pubr"] = "send"
  /\ Sampled(msgqC)
  /\ LET frame == [seq |-> SampleSeq(msgqC), seqB |-> txB']
     IN  /\ netBA' \in Transmit("BA", netBA, frame)
         /\ forwarded' = IF frame.seq \in Errors THEN forwarded
                         ELSE Append(forwarded, frame)
  /\ thr' = [thr EXCEPT !["pubr"] = "head"]
  /\ msgqC' = Missed /\ tries' = 0
  /\ UNCHANGED <<main, signalled, netAB, boardA, msgq, msqid, setupLeft, logB, fileB>>

\* Faulty: error codes count as sequence numbers.
LastReturn_AnyCode(frame) == frame.seq >= PacketCount

(* The frame that ends the test on A.                                      *)
LastReturn(frame) == frame.seq \notin Errors /\ frame.seq >= PacketCount

(* sub_thread on A receives one frame: a data row or an error row, and the *)
(* end of the test once the last sequence number has come back.            *)
subReturnStoreDataReceived ==
  /\ thr["subr"] = "awake" /\ netBA # <<>>
  /\ LET frame == Head(netBA)
         last == LastReturn(frame)
     IN  /\ logA' = IF fileA /\ frame.seq \notin Errors THEN Append(logA, frame) ELSE logA
         /\ fileA' = (fileA /\ ~last)
         /\ running' = [running EXCEPT !["A"] = @ /\ ~last]
  /\ netBA' = Tail(netBA)
  /\ thr' = [thr EXCEPT !["subr"] = "head"]
  /\ UNCHANGED <<main, signalled, netAB, txA, boardB>>

----------------------------------------------------------------------------
(* main: UA_Server_run returns once g_running is cleared; the threads are  *)
(* joined, and then the queue is removed.                                  *)
ServerRunReturns(b) ==
  /\ main[b] = "run" /\ ~running[b]
  /\ main' = [main EXCEPT ![b] = "join"]
  /\ UNCHANGED <<running, thr, signalled, netAB, netBA, boardA, boardB>>

(* The join loop gets past both threads.                                   *)
Joined(b) == \A t \in ThreadsOf(b) : thr[t] = "done"

Teardown(b) ==
  /\ main[b] = "join"
  /\ Joined(b)
  /\ main' = [main EXCEPT ![b] = "done"]
  /\ msqid' = (msqid /\ b # "B")
  /\ msgq' = IF b = "B" THEN <<>> ELSE msgq
  /\ UNCHANGED <<running, thr, signalled, netAB, netBA, boardA, gate, txB, prev,
                 setupLeft, msgqC, tries, logB, fileB, forwarded>>

(* SIGINT or SIGTERM at any time.                                          *)
stopHandler(b) ==
  /\ main[b] # "done" /\ b \in Signallable \ signalled
  /\ signalled' = signalled \cup {b}
  /\ running' = [running EXCEPT ![b] = FALSE]
  /\ UNCHANGED <<main, thr, netAB, netBA, boardA, boardB>>

Done == /\ \A b \in Board : main[b] = "done"
        /\ UNCHANGED vars

PubStep == LoopHead("A", "pub") \/ pubGetDataToTransmit
SubrStep == LoopHead("A", "subr") \/ SubIdle("subr", netBA) \/ subReturnStoreDataReceived
SubStep == LoopHead("B", "sub") \/ SubIdle("sub", netAB)
           \/ subOpensGate \/ subStoresData \/ subStops
PubrStep == LoopHead("B", "pubr") \/ Gate \/ TryReceive \/ pubReturnGetDataToTransmit
MainStep(b) == ServerRunReturns(b) \/ Teardown(b)
SetupStep == SetupRead \/ StartThreads

Next == \/ PubStep \/ SubrStep \/ SubStep \/ PubrStep \/ SetupStep
        \/ \E b \in Board : MainStep(b) \/ stopHandler(b)
        \/ Done

(* Every thread is woken by its own timer, so it keeps taking steps; the   *)
(* network promises nothing.                                               *)
Fairness == /\ WF_vars(PubStep) /\ WF_vars(SubrStep) /\ WF_vars(SubStep)
            /\ WF_vars(PubrStep) /\ WF_vars(SetupStep)
            /\ \A b \in Board : WF_vars(MainStep(b))

Spec == Init /\ [][Next]_vars /\ Fairness

----------------------------------------------------------------------------
Stamps == {"real", "888", "999"}
Messages == [seq : Nat, stamp : Stamps]
Frames == [seq : Nat, seqB : Int]

TypeOK ==
  /\ running \in [Board -> BOOLEAN]
  /\ main \in [Board -> {"setup", "run", "join", "done"}]
  /\ thr \in [Thread -> {"off", "head", "awake", "store", "stop", "rcv", "send", "done"}]
  /\ signalled \subseteq Board
  /\ txA \in Int /\ txB \in Int /\ prev \in Nat
  /\ netAB \in Seq(Nat) /\ netBA \in Seq(Frames)
  /\ gate \in BOOLEAN /\ msqid \in BOOLEAN
  /\ msgq \in Seq(Messages) /\ msgqC \in Messages
  /\ tries \in 0 .. Tries /\ setupLeft \in 0 .. SetupReads
  /\ logA \in Seq(Frames) /\ logB \in Seq(Nat) /\ forwarded \in Seq(Frames)
  /\ fileA \in BOOLEAN /\ fileB \in BOOLEAN

(* A stops by itself only when it has published packet packetCount: no     *)
(* error code that comes back from B passes for a sequence number.  B      *)
(* stops by itself only when it has logged packet packetCount.  Its own    *)
(* count of forwarded packets, which ends the process too, starts low      *)
(* enough; but repeats of early packets count, and one more of them than   *)
(* there are reads during setup makes B stop before the last packet.       *)
Repeats == Len(forwarded) - Cardinality({forwarded[i].seq : i \in DOMAIN forwarded})
NoEarlyStop ==
  /\ ~running["A"] /\ "A" \notin signalled => txA = PacketCount
  /\ ~running["B"] /\ "B" \notin signalled =>
       PacketCount \in Range(logB) \/ Repeats > SetupReads

(* B forwards in the order it received, and above the early sequence       *)
(* numbers it forwards no packet twice, although the network may have      *)
(* delivered it twice.                                                     *)
ForwardedInOrder ==
  \A i, j \in DOMAIN forwarded :
    i < j => \/ forwarded[i].seq < forwarded[j].seq
             \/ forwarded[i].seq = forwarded[j].seq /\ forwarded[i].seq <= EarlyLimit

(* What pubReturn sends is what this session's subscriber received: every  *)
(* data frame carries a sequence number that B's file shows.               *)
ForwardsOnlyReceived ==
  \A i \in DOMAIN forwarded : forwarded[i].seq \in Range(logB)

(* The gate, once opened by the first packet, stays open.                  *)
GateStaysOpen == [][gate => gate']_gate

(* A terminates whatever the network does, because its publisher counts; B *)
(* terminates and removes its queue once the last packet reached it or it  *)
(* got a signal, be it during setup.                                       *)
Terminates ==
  /\ <>(main["A"] = "done")
  /\ PacketCount \in Range(logB) \/ "B" \in signalled ~> main["B"] = "done" /\ ~msqid

(* As the row written by A has it: a message skipped as a duplicate has    *)
(* been forwarded before.  The one exception is the number that            *)
(* prev_rx_sequence starts with, as long as nothing has been forwarded.    *)
SkippedWasForwarded ==
  thr["pubr"] = "send" /\ SampleSeq(msgqC) = ERROR_DUPLICATE =>
    IF forwarded = <<>> THEN msgqC.seq = PrevInit
    ELSE \E i \in DOMAIN forwarded : forwarded[i].seq = msgqC.seq

(* Seen through B's output file the way from A to B is a NumberedLink: the *)
(* file never shows a number that A has not published, nor goes back,      *)
(* although the library's reads during setup used up A's first numbers.    *)
Forward == INSTANCE NumberedLink WITH first <- SetupReads - 1, sent <- txA, log <- logB
ImplementsForwardLink == Forward!LinkSpec

(* So is the way back, through the queue and the second network, with B's  *)
(* own numbers in A's output file: pauses and error frames of B take no    *)
(* number.                                                                 *)
Return == INSTANCE NumberedLink
            WITH first <- -1, sent <- Len(forwarded) - 2,
                 log <- [i \in DOMAIN logA |-> logA[i].seqB]
ImplementsReturnLink == Return!LinkSpec
=============================================================================
