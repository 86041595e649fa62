----------------------------- MODULE OpcuaServer -----------------------------
(***************************************************************************)
(* The life of one opcua-server process, whatever its JSON file says: the  *)
(* file is parsed, the server configured, and connections, groups and      *)
(* threads set up one entry after the other, while the threads of earlier  *)
(* entries already run; then the server runs, the threads are joined and   *)
(* everything is torn down.                                                *)
(*                                                                         *)
(* OpcuaRoundTrip takes over from here for the one configuration that it   *)
(* models packet by packet.  Here a packet is the identifier of the        *)
(* publisher that sent it and whether it is the last one.  Of the JSON     *)
(* fields the model keeps those that something else depends on; the others *)
(* are one field, "rest", that is in range or not.                         *)
(***************************************************************************)
EXTENDS Integers, Sequences, FiniteSets

CONSTANTS
  Docs,               \* JSON files that the program may be started with
  Absent,             \* a key that is missing or has a value of another type
  PKT_COUNT_MAX, FIVE_DIGIT_MAX, MAX_OPCUA_THREAD,
  TwoTo16,            \* modulus of UA_UInt16
  TransportLayers,    \* 2: room for transport layers
  Second, ONE_MSEC_NSEC,  \* a second and a millisecond, in ticks of the clock
  Period, SubDelay,   \* 10 and 3: threads start at a multiple of ten seconds,
                      \* subscribers three seconds later
  StartTime,          \* bound: the clock when the process starts
  SetupTime,          \* bound: the clock by which the last thread has begun
  MaxDelay,           \* bound: largest publish_delay_sec
  TxCap,              \* bound: tx_sequence is not followed beyond it
  Remote              \* pub_id of the publishers on the network

(* What the program keeps of a file.  Numbers may be missing, and out of   *)
(* any range; "rest" is how the tests of the other keys come out.          *)
Number == Int \cup {Absent}
Rest == {"ok", "error", Absent}
PublisherData ==
  [pub_id : Number, early_offset_ns : Number, publish_delay_sec : Number,
   xdp_queue : Number, two_way_data : BOOLEAN, rest : Rest]
SubscriberData ==
  [subscribed_pub_id : Number, xdp_queue : Number, two_way_data : BOOLEAN, rest : Rest]
ServerData ==
  [useXDP : BOOLEAN, sameIf : BOOLEAN, packet_count : Number, rest : Rest,
   pubs : Seq(PublisherData), subs : Seq(SubscriberData)]

(* A file with TwoTo16 entries or more is left out: main counts them in a  *)
(* UA_UInt16, accepts it, and writes beyond the end of g_thread.           *)
ASSUME DocAssumption ==
  /\ Docs \subseteq ServerData
  /\ \A d \in Docs : Len(d.pubs) + Len(d.subs) < TwoTo16
  /\ \A d \in Docs : \A i \in DOMAIN d.pubs :
       d.pubs[i].publish_delay_sec \in Int => d.pubs[i].publish_delay_sec <= MaxDelay
ASSUME ServerAssumption ==
  /\ {MAX_OPCUA_THREAD, PKT_COUNT_MAX, FIVE_DIGIT_MAX, MaxDelay, TxCap} \subseteq Nat
  /\ Second \in Nat \ {0} /\ ONE_MSEC_NSEC \in Nat
  /\ StartTime \in Nat /\ SetupTime \in Nat
  /\ TransportLayers \in Nat /\ TransportLayers >= 2
  /\ TwoTo16 \in Nat \ {0} /\ Period \in Nat \ {0} /\ SubDelay \in Nat
  /\ Remote \subseteq Nat

VARIABLES
  doc,                \* the JSON file
  main, at,           \* where main is; the entry that it parses or sets up
  status,             \* how the process ended
  file, closes,       \* fpSubscriberOutput of each subscriber; fclose calls
  rows,               \* publishers whose packets are in each output file
  misused,            \* history: files used after they were closed
  queue,              \* whether the message queue exists
  gate,               \* g_roundtrip_pubReturn
  running,            \* g_running
  signalled,
  conns, connId,      \* connections of the server; the one last added
  refused,            \* history: entries whose connection failed
  clash,              \* history: those that failed because their queue was in use
  layers,             \* config->pubsubTransportLayersSize
  node,               \* entry that owns each of the two data source nodes
  thr,                \* g_thread, in the order of creation
  tx_sequence,
  now                 \* CLOCK_TAI in ticks

fileVars == <<file, closes, rows, misused>>
netVars == <<conns, connId, refused, clash, layers, node>>
procVars == <<doc, status, queue, signalled>>
vars == <<main, at, fileVars, netVars, procVars, gate, running, thr, tx_sequence, now>>

Entries == doc.pubs \o doc.subs
P == Len(doc.pubs)
IsPub(k) == k <= P

----------------------------------------------------------------------------
(* Parsing.                                                                *)

(* A getter of json_helper.c and the range test after it: without the key, *)
(* or with a value of another type, the process exits on the spot; out of  *)
(* range, parseJson gives up.                                              *)
Check(x, lo, hi) ==
  IF x = Absent THEN "exit" ELSE IF x \in lo .. hi THEN "ok" ELSE "error"

(* The value of "rest" is what the tests of the remaining keys come to.    *)
CheckRest(x) == IF x = Absent THEN "exit" ELSE x

CheckQueue(e) == IF doc.useXDP THEN Check(e.xdp_queue, 0, 3) ELSE "ok"

(* publish_delay_sec has no upper limit in the code.                       *)
Checks(k) ==
  IF k = 0 THEN <<CheckRest(doc.rest), Check(doc.packet_count, 1, PKT_COUNT_MAX)>>
  ELSE LET e == Entries[k]
       IN  IF IsPub(k)
           THEN <<Check(e.early_offset_ns, 0, ONE_MSEC_NSEC),
                  Check(e.publish_delay_sec, 0, MaxDelay), CheckQueue(e),
                  Check(e.pub_id, 0, FIVE_DIGIT_MAX), CheckRest(e.rest)>>
           ELSE <<CheckQueue(e), Check(e.subscribed_pub_id, 0, FIVE_DIGIT_MAX),
                  CheckRest(e.rest)>>

(* The first test that fails decides.                                      *)
Verdict(k) ==
  LET c == Checks(k)
      bad == {i \in DOMAIN c : c[i] # "ok"}
  IN  IF bad = {} THEN "ok" ELSE c[CHOOSE i \in bad : \A j \in bad : i <= j]

\* Faulty: the pointer is not reset.
Close_KeepsPointer(j) == /\ closes' = [closes EXCEPT ![j] = @ + 1]
                         /\ UNCHANGED file

Close(j) == /\ file' = [file EXCEPT ![j] = "closed"]
            /\ closes' = [closes EXCEPT ![j] = @ + 1]

(* Every file that is still open is closed.                                *)
free_resources ==
  /\ file' = [j \in DOMAIN file |-> IF file[j] = "open" THEN "closed" ELSE file[j]]
  /\ closes' = [j \in DOMAIN file |-> closes[j] + IF file[j] = "open" THEN 1 ELSE 0]
  /\ UNCHANGED <<rows, misused>>

Init ==
  /\ doc \in Docs /\ main = "parse" /\ at = 0 /\ status = "none"
  /\ file = [j \in DOMAIN doc.subs |-> "none"]
  /\ closes = [j \in DOMAIN doc.subs |-> 0]
  /\ rows = [j \in DOMAIN doc.subs |-> {}] /\ misused = {}
  /\ queue = FALSE /\ gate = TRUE /\ running = TRUE /\ signalled = FALSE
  /\ conns = <<>> /\ connId = 0 /\ refused = {} /\ clash = {}
  /\ layers = 0 /\ node = [pub |-> 0, sub |-> 0]
  /\ thr = <<>> /\ tx_sequence = -2 /\ now = StartTime

(* parseJson, one entry at a time.  A subscriber's output file is opened   *)
(* with its entry; if that fails, too, parseJson gives up.                 *)
parseJson ==
  /\ main = "parse"
  /\ \E opened \in BOOLEAN :
       LET sub == at > P
           v == IF Verdict(at) = "ok" /\ sub /\ ~opened THEN "error" ELSE Verdict(at)
       IN  CASE v = "ok" ->
                  /\ main' = IF at = Len(Entries) THEN "configure" ELSE "parse"
                  /\ at' = at + 1
                  /\ file' = IF sub THEN [file EXCEPT ![at - P] = "open"] ELSE file
                  /\ UNCHANGED <<closes, rows, misused, status>>
             [] v = "error" -> main' = "exit" /\ status' = v /\ free_resources /\ UNCHANGED at
             [] v = "exit" -> main' = "exit" /\ status' = v /\ UNCHANGED <<fileVars, at>>
  /\ UNCHANGED <<doc, queue, signalled, netVars, gate, running, thr, tx_sequence, now>>

TwoWay == {i \in 1 .. P : doc.pubs[i].two_way_data}

(* The number of entries, as a UA_UInt16.                                  *)
threadCount == Len(Entries) % TwoTo16

\* Faulty: the table is taken to be one larger.
TooMany_OneMore == threadCount > MAX_OPCUA_THREAD + 1

(* main's test after configureServer.                                      *)
TooMany == threadCount > MAX_OPCUA_THREAD

(* configureServer: a two-way publisher closes the gate and gets a queue,  *)
(* which may fail.  Then main's test; the first transport layer is that of *)
(* setupOpcuaServer.                                                       *)
configureServer ==
  /\ main = "configure"
  /\ gate' = (TwoWay = {})
  /\ queue' \in {FALSE, TwoWay # {}}
  /\ main' = IF TooMany THEN "exit" ELSE IF Entries = <<>> THEN "run" ELSE "setup"
  /\ status' = IF TooMany THEN "error" ELSE status
  /\ at' = 1 /\ layers' = IF TooMany THEN 0 ELSE 1
  /\ UNCHANGED <<doc, signalled, fileVars, conns, connId, refused, clash, node, running,
                 thr, tx_sequence, now>>
----------------------------------------------------------------------------
(* setupOpcuaServer, entry by entry: the connection, the group with its    *)
(* thread, and what the group needs to do anything.                        *)

Queue(k) == IF doc.useXDP THEN Entries[k].xdp_queue ELSE -1
Interface(k) == IF IsPub(k) \/ doc.sameIf THEN "publisher" ELSE "subscriber"
Socket(k) == <<Interface(k), Queue(k)>>

(* UA_Server_addPubSubConnection.  A second XDP socket cannot be bound to  *)
(* the same queue of an interface; other failures are the environment's.   *)
(* The code ignores the status, and *connId keeps its value on failure.    *)
AddConnection(k) ==
  LET bound == doc.useXDP /\ \E i \in DOMAIN conns : Socket(conns[i]) = Socket(k)
  IN  \/ /\ ~bound
         /\ conns' = Append(conns, k) /\ connId' = Len(conns) + 1
         /\ UNCHANGED <<refused, clash>>
      \/ /\ refused' = refused \cup {k}
         /\ clash' = IF bound THEN clash \cup {k} ELSE clash
         /\ UNCHANGED <<conns, connId>>

Capped(n) == IF n < TxCap THEN n ELSE TxCap

(* addDataSetField: the node of the first publisher stays, adding it again *)
(* fails.  The library reads the data source of a new node once or twice,  *)
(* at a later publisher perhaps not at all; a two-way one finds the queue  *)
(* empty or with what an earlier process left.                             *)
addDataSetField ==
  /\ node' = [node EXCEPT !.pub = IF @ = 0 THEN at ELSE @]
  /\ \E last \in tx_sequence + (IF node.pub # 0 \/ at \in TwoWay THEN 0 ELSE 1)
                 .. tx_sequence + 2 :
       /\ tx_sequence' = Capped(last)
       /\ running' = (running /\ IF node'.pub \in TwoWay THEN last < doc.packet_count
                                 ELSE doc.packet_count \notin tx_sequence + 1 .. last)

addPubSubConnection ==
  /\ main = "setup" /\ IsPub(at)
  /\ AddConnection(at)
  /\ addDataSetField
  /\ main' = "group"
  /\ UNCHANGED <<at, fileVars, layers, procVars, gate, thr, now>>

\* Faulty: the interfaces are not compared.
Shares_AnyInterface(k) ==
  ~IsPub(k) /\ P > 0 /\ doc.useXDP /\ Queue(k) = Queue(P)

(* The subscriber is to use the publisher's socket.  After the first loop  *)
(* pub is the last publisher.                                              *)
Shares(k) ==
  ~IsPub(k) /\ P > 0 /\ doc.useXDP /\ Queue(k) = Queue(P) /\ doc.sameIf

NewLayer(k) == ~Shares(k) /\ P > 0

addSubConnection ==
  /\ main = "setup" /\ ~IsPub(at)
  /\ layers' = IF NewLayer(at) THEN layers + 1 ELSE layers
  /\ IF Shares(at) THEN UNCHANGED <<conns, connId, refused, clash>> ELSE AddConnection(at)
  /\ main' = "group"
  /\ UNCHANGED <<at, fileVars, node, procVars, gate, running, thr, tx_sequence, now>>

(* The index that a thread gets: g_indexPub or g_indexSub.                 *)
data_index(k) == Cardinality({t \in DOMAIN thr : IsPub(thr[t].entry) = IsPub(k)}) + 1

(* The thread is created, or is not, which is only logged; or the process  *)
(* ends because main cannot get the priority or the core.                  *)
threadCreation(k) ==
  \/ /\ main' = "attach" /\ UNCHANGED status
     /\ \E pc \in {"new", "failed"} :
          thr' = Append(thr, [entry |-> k, index |-> data_index(k), conn |-> connId,
                              born |-> now, start |-> 0, pc |-> pc, ready |-> FALSE,
                              value |-> 0, fp |-> FALSE])
  \/ main' = "exit" /\ status' = "error" /\ UNCHANGED thr

(* Called by the library for each group; the thread is entered in the      *)
(* table however its creation ended.                                       *)
UA_PubSubManager_addRepeatedCallback == threadCreation(at)

(* addWriterGroup or addReaderGroup: without a connection the library adds *)
(* no group.                                                               *)
AddGroup ==
  /\ main = "group"
  /\ IF connId = 0 THEN main' = "attach" /\ UNCHANGED <<thr, status>>
     ELSE UA_PubSubManager_addRepeatedCallback
  /\ UNCHANGED <<doc, queue, signalled, at, fileVars, netVars, gate, running, tx_sequence, now>>

(* The group of the entry is complete; on to the next entry.               *)
EntryDone ==
  /\ thr' = [t \in DOMAIN thr |->
               IF thr[t].entry = at THEN [thr[t] EXCEPT !.ready = TRUE] ELSE thr[t]]
  /\ main' = IF at = Len(Entries) THEN "run" ELSE "setup"
  /\ at' = at + 1
  /\ UNCHANGED <<fileVars, conns, connId, refused, clash, layers, procVars, gate, running,
                 tx_sequence, now>>

addDataSetWriter ==
  /\ main = "attach" /\ IsPub(at)
  /\ EntryDone
  /\ UNCHANGED node

(* addDataSetReader and addSubscribedVariables, where the node of the      *)
(* first subscriber stays.                                                 *)
addSubscribedVariables ==
  /\ main = "attach" /\ ~IsPub(at)
  /\ EntryDone
  /\ node' = IF node.sub = 0 THEN [node EXCEPT !.sub = at - P] ELSE node

----------------------------------------------------------------------------
(* The threads.                                                            *)

Alive(t) == main # "exit" /\ t \in DOMAIN thr
Goto(t, pc) == thr' = [thr EXCEPT ![t].pc = pc]
OwnerTwoWay(k) == IF IsPub(k) THEN node.pub \in TwoWay ELSE doc.subs[node.sub].two_way_data

\* Faulty: rounded down.
NextFullPeriod_Down(s) == (s \div Period) * Period

(* ((tv_sec + 9) / 10) * 10                                                *)
NextFullPeriod(s) == ((s + Period - 1) \div Period) * Period

Delay(t) == IF IsPub(thr[t].entry) THEN doc.pubs[thr[t].index].publish_delay_sec ELSE SubDelay
Early(t) == IF IsPub(thr[t].entry) THEN doc.pubs[thr[t].index].early_offset_ns ELSE 0

(* The clock is read, its tv_sec rounded up and the delay added; a         *)
(* publisher is to wake up before that time.  publish_offset_ns and        *)
(* offset_ns, which make it later, are in Wake's freedom to come late.     *)
ThreadBegins(t) ==
  /\ Alive(t) /\ thr[t].pc = "new"
  /\ thr' = [thr EXCEPT ![t].pc = "head",
                        ![t].start = (NextFullPeriod(now \div Second) + Delay(t)) * Second
                                     - Early(t)]
  /\ UNCHANGED <<main, at, fileVars, netVars, procVars, gate, running, tx_sequence, now>>

\* Faulty: the flag is not looked at.
LoopHead_Deaf(t) ==
  /\ Alive(t) /\ thr[t].pc = "head"
  /\ Goto(t, "sleep")
  /\ UNCHANGED <<main, at, fileVars, netVars, procVars, gate, running, tx_sequence, now>>

(* while (g_running), and the sleep after it.                              *)
LoopHead(t) ==
  /\ Alive(t) /\ thr[t].pc = "head"
  /\ Goto(t, IF running THEN "sleep" ELSE "done")
  /\ UNCHANGED <<main, at, fileVars, netVars, procVars, gate, running, tx_sequence, now>>

(* A publisher finds the gate open, or has a blank cycle.                  *)
Wake(t) ==
  /\ Alive(t) /\ thr[t].pc = "sleep" /\ now >= thr[t].start
  /\ Goto(t, IF IsPub(thr[t].entry) /\ ~gate THEN "head" ELSE "call")
  /\ UNCHANGED <<main, at, fileVars, netVars, procVars, gate, running, tx_sequence, now>>

(* The callback of a group that is not complete, or of a subscriber that   *)
(* receives nothing.                                                       *)
CallbackIdle(t) ==
  /\ Alive(t) /\ thr[t].pc = "call"
  /\ ~thr[t].ready \/ ~IsPub(thr[t].entry)
  /\ Goto(t, "head")
  /\ UNCHANGED <<main, at, fileVars, netVars, procVars, gate, running, tx_sequence, now>>

(* pubGetDataToTransmit.  All publishers share tx_sequence: its increment  *)
(* is a load and a store, and the test at the end loads it again.          *)
PubLoads(t) ==
  /\ Alive(t) /\ thr[t].pc = "call" /\ thr[t].ready
  /\ IsPub(thr[t].entry) /\ ~OwnerTwoWay(thr[t].entry)
  /\ thr' = [thr EXCEPT ![t].pc = "write", ![t].value = tx_sequence]
  /\ UNCHANGED <<main, at, fileVars, netVars, procVars, gate, running, tx_sequence, now>>

PubStores(t) ==
  /\ Alive(t) /\ thr[t].pc = "write"
  /\ tx_sequence' = Capped(thr[t].value + 1)
  /\ thr' = [thr EXCEPT ![t].pc = "test", ![t].value = 0]
  /\ UNCHANGED <<main, at, fileVars, netVars, procVars, gate, running, now>>

\* Faulty: one packet more.
PubTests_Late(t) ==
  /\ Alive(t) /\ thr[t].pc = "test"
  /\ running' = (running /\ tx_sequence # doc.packet_count + 1)
  /\ Goto(t, "head")
  /\ UNCHANGED <<main, at, fileVars, netVars, procVars, gate, tx_sequence, now>>

\* Faulty: the end is not noticed.
PubTests_Never(t) ==
  /\ Alive(t) /\ thr[t].pc = "test"
  /\ Goto(t, "head")
  /\ UNCHANGED <<main, at, fileVars, netVars, procVars, gate, running, tx_sequence, now>>

PubTests(t) ==
  /\ Alive(t) /\ thr[t].pc = "test"
  /\ running' = (running /\ tx_sequence # doc.packet_count)
  /\ Goto(t, "head")
  /\ UNCHANGED <<main, at, fileVars, netVars, procVars, gate, tx_sequence, now>>

(* pubReturnGetDataToTransmit: a packet is forwarded and counted, or not.  *)
PubReturns(t) ==
  /\ Alive(t) /\ thr[t].pc = "call" /\ thr[t].ready
  /\ IsPub(thr[t].entry) /\ OwnerTwoWay(thr[t].entry)
  /\ tx_sequence' \in {tx_sequence, Capped(tx_sequence + 1)}
  /\ running' = (running /\ tx_sequence' < doc.packet_count)
  /\ Goto(t, "head")
  /\ UNCHANGED <<main, at, fileVars, netVars, procVars, gate, now>>

\* Faulty: the publisher is not compared.
Accepts_All(k, id) == id \in Remote

(* Identifiers are sent and compared as 16 bit numbers.                    *)
Accepts(k, id) == id % TwoTo16 = Entries[k].subscribed_pub_id % TwoTo16

(* A subscriber receives a packet; subStoreDataReceived, or its two-way    *)
(* variant, takes the file of the node's owner.                            *)
SubReceives(t) ==
  /\ Alive(t) /\ thr[t].pc = "call" /\ thr[t].ready /\ ~IsPub(thr[t].entry)
  /\ \E id \in Remote :
       /\ Accepts(thr[t].entry, id)
       /\ thr' = [thr EXCEPT ![t].pc = "store", ![t].value = id,
                            ![t].fp = file[node.sub] = "open"]
  /\ gate' = (gate \/ ~OwnerTwoWay(thr[t].entry))
  /\ UNCHANGED <<main, at, fileVars, netVars, procVars, running, tx_sequence, now>>

(* The row is written; the last packet also closes the file and stops the  *)
(* process.                                                                *)
SubStores(t) ==
  /\ Alive(t) /\ thr[t].pc = "store"
  /\ LET j == node.sub
         fp == thr[t].fp
     IN  /\ rows' = IF fp /\ file[j] = "open"
                    THEN [rows EXCEPT ![j] = @ \cup {thr[t].value}] ELSE rows
         /\ misused' = IF fp /\ file[j] # "open" THEN misused \cup {j} ELSE misused
         /\ \/ running' = FALSE /\ IF fp THEN Close(j) ELSE UNCHANGED <<file, closes>>
            \/ UNCHANGED <<running, file, closes>>
  /\ thr' = [thr EXCEPT ![t].pc = "head", ![t].value = 0, ![t].fp = FALSE]
  /\ UNCHANGED <<main, at, netVars, procVars, gate, tx_sequence, now>>

ThreadStep(t) ==
  \/ ThreadBegins(t) \/ LoopHead(t) \/ Wake(t) \/ CallbackIdle(t)
  \/ PubLoads(t) \/ PubStores(t) \/ PubTests(t) \/ PubReturns(t)
  \/ SubReceives(t) \/ SubStores(t)
----------------------------------------------------------------------------
(* UA_Server_run returns because g_running is cleared, or because the      *)
(* server could not be started: then the threads are not told.             *)
UA_Server_run ==
  /\ main = "run" /\ main' = "join"
  /\ \/ ~running /\ status' = "success"
     \/ status' = "failure"
  /\ UNCHANGED <<doc, queue, signalled, at, fileVars, netVars, gate, running, thr,
                 tx_sequence, now>>

\* Faulty: the queue is left to the next run.
Teardown_KeepsQueue ==
  /\ main = "join" /\ \A t \in DOMAIN thr : thr[t].pc \in {"done", "failed"}
  /\ main' = "exit" /\ free_resources
  /\ UNCHANGED <<doc, status, queue, signalled, at, netVars, gate, running, thr, tx_sequence, now>>

(* The join loop, the removal of the queue, the end.                       *)
Teardown ==
  /\ main = "join" /\ \A t \in DOMAIN thr : thr[t].pc \in {"done", "failed"}
  /\ main' = "exit" /\ queue' = FALSE /\ free_resources
  /\ UNCHANGED <<doc, status, signalled, at, netVars, gate, running, thr, tx_sequence, now>>

Main ==
  \/ parseJson \/ configureServer
  \/ addPubSubConnection \/ addSubConnection
  \/ AddGroup \/ addDataSetWriter \/ addSubscribedVariables
  \/ UA_Server_run \/ Teardown

(* SIGINT or SIGTERM.                                                      *)
stopHandler ==
  /\ main # "exit" /\ ~signalled
  /\ signalled' = TRUE /\ running' = FALSE
  /\ UNCHANGED <<main, at, fileVars, netVars, doc, status, queue, gate, thr, tx_sequence, now>>

(* Time passes.  Setup is over, and every thread has begun, within         *)
(* SetupTime; after that only the wait for a thread's start takes time.    *)
Tick ==
  /\ main \notin {"parse", "configure", "exit"}
  /\ \/ now < SetupTime
     \/ /\ main \notin {"setup", "group", "attach"}
        /\ \A t \in DOMAIN thr : thr[t].pc # "new"
        /\ \E t \in DOMAIN thr : thr[t].start > now
  /\ now' = now + 1
  /\ UNCHANGED <<main, at, fileVars, netVars, procVars, gate, running, thr, tx_sequence>>

Next ==
  \/ Main \/ stopHandler \/ Tick
  \/ \E t \in DOMAIN thr : ThreadStep(t)

(* Main: UA_Server_run need not return while g_running is set.             *)
MainProceeds == Main /\ (main = "run" => ~running)

(* Main and the threads run when they can, and time passes; whether a      *)
(* signal or a packet ever comes is left open.                             *)
Spec ==
  /\ Init /\ [][Next]_vars
  /\ WF_vars(MainProceeds) /\ WF_vars(Tick)
  /\ \A t \in 1 .. MAX_OPCUA_THREAD : WF_vars(ThreadStep(t))

----------------------------------------------------------------------------
SubCount == Len(doc.subs)
Thread ==
  [entry : 1 .. MAX_OPCUA_THREAD, index : 1 .. MAX_OPCUA_THREAD, conn : Nat \ {0},
   born : Nat, start : Int, ready : BOOLEAN, value : Int, fp : BOOLEAN,
   pc : {"new", "failed", "head", "sleep", "call", "write", "test", "store", "done"}]

(* Every variable keeps to its values; the threads fit into g_thread and   *)
(* their indices into the publishers and subscribers of the file; the      *)
(* array for transport layers, allocated with two elements, is counted     *)
(* beyond its end only with a publisher and two or more subscribers.       *)
TypeOK ==
  /\ main \in {"parse", "configure", "setup", "group", "attach", "run", "join", "exit"}
  /\ at \in 0 .. Len(Entries) + 1
  /\ status \in {"none", "exit", "error", "success", "failure"}
  /\ file \in [DOMAIN doc.subs -> {"none", "open", "closed"}]
  /\ closes \in [DOMAIN doc.subs -> Nat] /\ rows \in [DOMAIN doc.subs -> SUBSET Remote]
  /\ misused \subseteq DOMAIN doc.subs
  /\ {queue, gate, running, signalled} \subseteq BOOLEAN
  /\ conns \in Seq(DOMAIN Entries) /\ connId \in 0 .. Len(conns)
  /\ clash \subseteq refused /\ refused \subseteq DOMAIN Entries
  /\ layers \in Nat /\ (layers > TransportLayers => P >= 1 /\ SubCount >= 2)
  /\ node.pub \in 0 .. P /\ node.sub \in 0 .. SubCount
  /\ thr \in Seq(Thread) /\ Len(thr) <= MAX_OPCUA_THREAD
  /\ \A t \in DOMAIN thr : thr[t].index <= IF IsPub(thr[t].entry) THEN P ELSE SubCount
  /\ tx_sequence \in -2 .. TxCap /\ now \in Nat

(* A thread works with its own entry of the file and on the interface and  *)
(* queue that the entry names, unless some connection was refused or it is *)
(* a subscriber that was to share the publisher's socket after another     *)
(* subscriber had opened one of its own.                                   *)
WiredAsConfigured ==
  \A t \in DOMAIN thr :
    LET k == thr[t].entry
    IN  \/ /\ Socket(conns[thr[t].conn]) = Socket(k)
           /\ thr[t].index = IF IsPub(k) THEN k ELSE k - P
        \/ refused # {}
        \/ Shares(k) /\ \E j \in P + 1 .. k - 1 : ~Shares(j)

(* The least time between the creation of a thread and its first callback: *)
(* its delay, less the early offset of a publisher, and less what is left  *)
(* of the second in which it reads the clock.                              *)
Grace(t) == Delay(t) * Second - Early(t) - (Second - 1)

(* Threads are started before their group is complete, and nothing makes   *)
(* them wait for it but the clock: a thread that calls into an incomplete  *)
(* group was created at least this time ago.  The delay in the file (three *)
(* seconds for subscribers) is not quite the time that setup may take: the *)
(* early offset and up to a second of it are lost, and without a delay     *)
(* there may be no time at all.                                            *)
CompleteWhenStarted ==
  \A t \in DOMAIN thr :
    thr[t].pc = "call" /\ ~thr[t].ready => now - thr[t].born >= Grace(t)

(* The message queue survives the process only if it ended between         *)
(* configureServer and the running server: too many entries, or a thread   *)
(* that could not get its priority.                                        *)
QueueLeftOnlyByFailedSetup ==
  main = "exit" /\ queue => status = "error" /\ (TooMany \/ connId # 0)

(* With at most one subscriber no output file is used after it was closed, *)
(* although its thread still runs for a cycle, and by the orderly end of   *)
(* the process the file has been closed once, by the last packet or else   *)
(* by free_resources.                                                      *)
FilesClosedOnce ==
  SubCount <= 1 =>
    /\ misused = {}
    /\ \A j \in DOMAIN closes :
         closes[j] <= 1 /\ (main = "exit" /\ status \in {"success", "failure"} => closes[j] = 1)

(* A row of a file comes from the publisher that the file's subscriber     *)
(* names, unless there are two subscribers, whose rows all go to the first *)
(* one's file, or the identifiers do not fit 16 bits.                      *)
RowsOfSubscribed ==
  \A j \in DOMAIN rows : \A id \in rows[j] :
    \/ id = doc.subs[j].subscribed_pub_id
    \/ j = 1 /\ SubCount > 1
    \/ id % TwoTo16 = doc.subs[j].subscribed_pub_id % TwoTo16
       /\ TwoTo16 <= (IF id > doc.subs[j].subscribed_pub_id THEN id
                      ELSE doc.subs[j].subscribed_pub_id)

(* The counter passes packet_count, after which no publisher would ever    *)
(* stop the process, only when several publishers share it.                *)
StopSkippedOnlyByTwo ==
  main \notin {"parse", "exit"} /\ running /\ tx_sequence > doc.packet_count => P >= 2

(* "Skip adding a new socket (PubSubConnection) using XDP and already have *)
(* a publisher on the same interface's queue": no subscriber asks for a    *)
(* queue that is in use.                                                   *)
SkipsQueuesInUse == \A k \in clash : IsPub(k)

(* A signal ends the process, whatever it was doing.                       *)
SignalEnds == signalled ~> main = "exit"

(* A lone one-way publisher, once its thread exists, ends the process by   *)
(* itself: also when the server did not start, and however late setup      *)
(* completed its group.                                                    *)
PublisherEnds ==
  (/\ Len(Entries) = 1 /\ P = 1 /\ TwoWay = {}
   /\ \E t \in DOMAIN thr : thr[t].pc = "new") ~> main = "exit"
=============================================================================
