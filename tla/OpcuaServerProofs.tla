-------------------------- MODULE OpcuaServerProofs --------------------------
(***************************************************************************)
(* OpcuaServer for every JSON file whose entries a UA_UInt16 can count,    *)
(* every delay and every set of publishers on the network: type            *)
(* correctness and the six safety properties that say in which             *)
(* configurations the code does what the file says.                        *)
(*                                                                         *)
(* The inductive invariant IInv follows the process: how far it has come   *)
(* (Stage), what the table of threads says of the entries handled so far   *)
(* (Table, Wiring), where each thread is in its cycle (Cycle, Clock), and  *)
(* what that means for layers, nodes, files and the counter.               *)
(***************************************************************************)
EXTENDS OpcuaServer, SeqLemmas, FiniteSetTheorems, FunctionTheorems

(* Between configureServer and the end of the process.                     *)
Busy == main \notin {"parse", "configure", "exit"}

(* Entries that have had their turn at a connection, and at a group.       *)
Reached == IF main \in {"group", "attach"} THEN at ELSE at - 1
Grouped == IF main = "attach" THEN at ELSE at - 1

Typed == TypeOK /\ doc \in Docs /\ node \in [pub : 0 .. P, sub : 0 .. SubCount]

(* Nothing has been set up.                                                *)
Untouched ==
  /\ ~queue /\ thr = <<>> /\ conns = <<>> /\ connId = 0 /\ refused = {} /\ layers = 0
  /\ node = [pub |-> 0, sub |-> 0] /\ tx_sequence = -2

(* How far the process has come.                                           *)
Stage ==
  /\ main = "parse" => at <= Len(Entries) /\ \A k \in 0 .. at - 1 : Verdict(k) = "ok"
  /\ main \in {"parse", "configure"} => Untouched
  /\ main \notin {"parse", "exit"} => \A k \in 0 .. Len(Entries) : Verdict(k) = "ok"
  /\ Busy => Len(Entries) <= MAX_OPCUA_THREAD
  /\ main \in {"setup", "group", "attach"} => at >= 1 /\ at <= Len(Entries)
  /\ main \in {"run", "join"} => at = Len(Entries) + 1
  /\ main \notin {"join", "exit"} => status = "none"

(* Layers are counted for subscribers beside a publisher.                  *)
Layers ==
  /\ P = 0 \/ SubCount = 0 => layers <= 1
  /\ SubCount = 1 => layers <= 2
  /\ SubCount = 1 /\ (main = "setup" \/ (main \in {"group", "attach"} /\ at <= P)) => layers <= 1

(* The node of the subscribers is that of the first.                       *)
Nodes ==
  /\ node.sub <= 1
  /\ main \in {"setup", "group", "attach"} => (node.sub = 0 <=> at <= P + 1)

(* The threads are in the order of their entries.                          *)
Table ==
  /\ \A t \in 1 .. Len(thr) :
       /\ t <= thr[t].entry /\ thr[t].entry <= Len(Entries)
       /\ thr[t].conn <= Len(conns)
       /\ main # "exit" => thr[t].entry <= Grouped
  /\ \A s, t \in 1 .. Len(thr) : s < t => thr[s].entry < thr[t].entry

(* As long as no connection was refused every entry has its thread, and    *)
(* the connection in hand is that of the last entry that does not share.   *)
Wiring ==
  refused = {} /\ Busy =>
    /\ Len(thr) = Grouped
    /\ \A t \in 1 .. Len(thr) : thr[t].entry = t
    /\ Reached >= 1 => /\ connId >= 1
                       /\ conns[connId] <= Reached /\ ~Shares(conns[connId])
                       /\ \A j \in conns[connId] + 1 .. Reached : Shares(j)

(* Where a thread can be in its cycle.                                     *)
Cycle ==
  \A t \in 1 .. Len(thr) :
    /\ thr[t].pc \in {"write", "test"} => IsPub(thr[t].entry)
    /\ thr[t].pc = "write" => thr[t].value >= -2
    /\ thr[t].pc = "store" => /\ ~IsPub(thr[t].entry) /\ thr[t].ready
                              /\ thr[t].value \in Remote /\ Accepts(thr[t].entry, thr[t].value)
    /\ thr[t].fp => thr[t].pc = "store"
    /\ thr[t].ready /\ ~IsPub(thr[t].entry) => node.sub = 1

(* A thread starts no earlier than its delay, less what it loses of that,  *)
(* after its creation.                                                     *)
Clock ==
  \A t \in 1 .. Len(thr) :
    /\ thr[t].born <= now /\ Grace(t) \in Int
    /\ thr[t].pc \notin {"new", "failed"} => thr[t].start >= thr[t].born + Grace(t)
    /\ thr[t].pc = "call" => now >= thr[t].start

(* Files are opened by the parser, and with one subscriber there is one    *)
(* thread that can close its file.                                         *)
Files ==
  /\ main = "parse" =>
       \A j \in 1 .. SubCount : file[j] = IF j < at - P THEN "open" ELSE "none"
  /\ main \notin {"parse", "exit"} => \A j \in 1 .. SubCount : file[j] # "none"
  /\ main = "exit" /\ status \in {"success", "failure"} =>
       \A j \in 1 .. SubCount : file[j] = "closed"
  /\ SubCount <= 1 =>
       /\ misused = {}
       /\ \A j \in 1 .. SubCount : closes[j] = IF file[j] = "closed" THEN 1 ELSE 0
       /\ \A t \in 1 .. Len(thr) : thr[t].fp => file[node.sub] = "open"

(* A single publisher meets packet_count on its way.                       *)
Counter ==
  /\ P = 0 \/ (main = "setup" /\ at = 1) => tx_sequence = -2
  /\ P = 1 => \A t \in 1 .. Len(thr) : thr[t].pc = "write" => thr[t].value = tx_sequence
  /\ P = 1 /\ Busy /\ running =>
       /\ tx_sequence <= doc.packet_count
       /\ tx_sequence = doc.packet_count => \E t \in 1 .. Len(thr) : thr[t].pc = "test"

IInv == /\ Typed /\ Stage /\ Layers /\ Nodes /\ Table /\ Wiring /\ Cycle /\ Clock /\ Files
        /\ Counter /\ WiredAsConfigured /\ QueueLeftOnlyByFailedSetup /\ RowsOfSubscribed

(***************************************************************************)
(* Facts about the operators of the model.                                 *)
(***************************************************************************)

(* The entries of a file: its publishers, then its subscribers.            *)
LEMMA DocFacts ==
  ASSUME doc \in Docs
  PROVE  /\ doc \in ServerData
         /\ P \in Nat /\ DOMAIN doc.pubs = 1 .. P
         /\ SubCount \in Nat /\ DOMAIN doc.subs = 1 .. SubCount
         /\ Len(Entries) = P + SubCount /\ DOMAIN Entries = 1 .. P + SubCount
         /\ \A k \in 1 .. P : Entries[k] = doc.pubs[k] /\ doc.pubs[k] \in PublisherData
         /\ \A k \in 1 .. SubCount : /\ Entries[P + k] = doc.subs[k]
                                     /\ doc.subs[k] \in SubscriberData
<1> DEFINE E == PublisherData \cup SubscriberData
           p == doc.pubs
           q == doc.subs
<1>1. doc \in ServerData
  BY DocAssumption
<1>2. p \in Seq(PublisherData) /\ q \in Seq(SubscriberData)
  BY <1>1 DEF ServerData
<1>3. p \in Seq(E) /\ q \in Seq(E)
  BY <1>2, SeqMonotonic
<1>4. /\ P = Len(p) /\ P \in Nat /\ DOMAIN p = 1 .. P
      /\ \A k \in 1 .. P : p[k] \in PublisherData
  BY <1>2, SeqFacts DEF P
<1>5. /\ SubCount = Len(q) /\ SubCount \in Nat /\ DOMAIN q = 1 .. SubCount
      /\ \A k \in 1 .. SubCount : q[k] \in SubscriberData
  BY <1>2, SeqFacts DEF SubCount
<1>6. Entries = p \o q
  BY DEF Entries
<1> HIDE DEF E, p, q
<1>7. /\ p \o q \in Seq(E) /\ Len(p \o q) = Len(p) + Len(q)
      /\ \A i \in 1 .. Len(p) + Len(q) :
           (p \o q)[i] = IF i <= Len(p) THEN p[i] ELSE q[i - Len(p)]
  BY <1>3, ConcatProperties
<1>8. Len(Entries) = P + SubCount /\ DOMAIN Entries = 1 .. P + SubCount
  BY <1>4, <1>5, <1>6, <1>7, SeqFacts
<1>9. \A k \in 1 .. P : Entries[k] = p[k]
  BY <1>4, <1>5, <1>6, <1>7
<1>10. \A k \in 1 .. SubCount : Entries[P + k] = q[k]
  <2> TAKE k \in 1 .. SubCount
  <2>1. P + k \in 1 .. Len(p) + Len(q) /\ ~(P + k <= Len(p)) /\ (P + k) - Len(p) = k
    BY <1>4, <1>5
  <2> QED
    BY <1>6, <1>7, <2>1
<1> QED
  BY <1>1, <1>4, <1>5, <1>8, <1>9, <1>10 DEF p, q

(* For the files considered, threadCount is the number of entries.         *)
LEMMA CountExact ==
  ASSUME doc \in Docs
  PROVE  threadCount = Len(Entries)
<1>1. P + SubCount < TwoTo16
  BY DocAssumption DEF P, SubCount
<1>2. Len(Entries) = P + SubCount /\ P \in Nat /\ SubCount \in Nat
  BY DocFacts
<1>3. TwoTo16 \in Nat \ {0}
  BY ServerAssumption
<1>4. \A n \in Nat, m \in Nat \ {0} : n < m => n % m = n
  OBVIOUS
<1>5. P + SubCount \in Nat
  BY <1>2
<1> QED
  BY <1>1, <1>2, <1>3, <1>4, <1>5 DEF threadCount

(* What parseJson says of an entry, and what it has made sure of when it   *)
(* accepts one.                                                            *)
LEMMA VerdictFacts ==
  ASSUME doc \in Docs
  PROVE  /\ \A k \in 0 .. Len(Entries) : Verdict(k) \in {"ok", "error", "exit"}
         /\ Verdict(0) = "ok" => doc.packet_count \in Nat /\ doc.packet_count >= 1
         /\ \A k \in 1 .. P :
              Verdict(k) = "ok" => /\ doc.pubs[k].publish_delay_sec \in Nat
                                   /\ doc.pubs[k].early_offset_ns \in Nat
         /\ \A k \in 1 .. SubCount :
              Verdict(P + k) = "ok" => doc.subs[k].subscribed_pub_id \in Nat
<1> DEFINE V == {"ok", "error", "exit"}
<1>1. ASSUME NEW x, NEW lo, NEW hi
      PROVE  /\ Check(x, lo, hi) \in V
             /\ Check(x, lo, hi) = "ok" => x \in lo .. hi
  BY DEF Check
<1>2. \A x \in Rest : CheckRest(x) \in V
  BY DEF CheckRest, Rest
<1>3. \A e : CheckQueue(e) \in V
  BY <1>1 DEF CheckQueue
<1> HIDE DEF V
<1>4. ASSUME NEW a \in V, NEW b \in V, NEW k, Checks(k) = <<a, b>>
      PROVE  Verdict(k) \in V /\ (Verdict(k) = "ok" => a = "ok" /\ b = "ok")
  <2> DEFINE c == <<a, b>>
             bad == {i \in DOMAIN c : c[i] # "ok"}
             first == CHOOSE i \in bad : \A j \in bad : i <= j
  <2>1. bad # {} => first \in bad
    BY DEF V
  <2>2. Verdict(k) = IF bad = {} THEN "ok" ELSE c[first]
    BY <1>4 DEF Verdict
  <2> QED
    BY <2>1, <2>2 DEF V
<1>5. ASSUME NEW a \in V, NEW b \in V, NEW d \in V, NEW k, Checks(k) = <<a, b, d>>
      PROVE  Verdict(k) \in V /\ (Verdict(k) = "ok" => a = "ok" /\ b = "ok" /\ d = "ok")
  <2> DEFINE c == <<a, b, d>>
             bad == {i \in DOMAIN c : c[i] # "ok"}
             first == CHOOSE i \in bad : \A j \in bad : i <= j
  <2>1. bad # {} => first \in bad
    BY DEF V
  <2>2. Verdict(k) = IF bad = {} THEN "ok" ELSE c[first]
    BY <1>5 DEF Verdict
  <2> QED
    BY <2>1, <2>2 DEF V
<1>6. ASSUME NEW a \in V, NEW b \in V, NEW d \in V, NEW e \in V, NEW f \in V, NEW k,
             Checks(k) = <<a, b, d, e, f>>
      PROVE  Verdict(k) \in V /\ (Verdict(k) = "ok" => a = "ok" /\ b = "ok")
  <2> DEFINE c == <<a, b, d, e, f>>
             bad == {i \in DOMAIN c : c[i] # "ok"}
             first == CHOOSE i \in bad : \A j \in bad : i <= j
  <2>1. bad # {} => first \in bad
    BY DEF V
  <2>2. Verdict(k) = IF bad = {} THEN "ok" ELSE c[first]
    BY <1>6 DEF Verdict
  <2> QED
    BY <2>1, <2>2 DEF V
<1>7. {PKT_COUNT_MAX, FIVE_DIGIT_MAX, MaxDelay, ONE_MSEC_NSEC} \subseteq Nat
  BY ServerAssumption
<1>8. Verdict(0) \in V /\ (Verdict(0) = "ok" => doc.packet_count \in Nat /\ doc.packet_count >= 1)
  <2>1. doc.rest \in Rest
    BY DocFacts DEF ServerData
  <2>2. Checks(0) = <<CheckRest(doc.rest), Check(doc.packet_count, 1, PKT_COUNT_MAX)>>
    BY DEF Checks
  <2>3. /\ Verdict(0) \in V
        /\ Verdict(0) = "ok" => Check(doc.packet_count, 1, PKT_COUNT_MAX) = "ok"
    BY <1>1, <1>2, <1>4, <2>1, <2>2
  <2> QED
    BY <1>1, <1>7, <2>3
<1>9. ASSUME NEW k \in 1 .. P
      PROVE  /\ Verdict(k) \in V
             /\ Verdict(k) = "ok" => /\ doc.pubs[k].publish_delay_sec \in Nat
                                     /\ doc.pubs[k].early_offset_ns \in Nat
  <2> DEFINE e == doc.pubs[k]
  <2>1. e.rest \in Rest /\ Entries[k] = e
    BY DocFacts DEF PublisherData
  <2>2. Checks(k) = <<Check(e.early_offset_ns, 0, ONE_MSEC_NSEC),
                      Check(e.publish_delay_sec, 0, MaxDelay), CheckQueue(e),
                      Check(e.pub_id, 0, FIVE_DIGIT_MAX), CheckRest(e.rest)>>
    BY <2>1, DocFacts DEF Checks, IsPub
  <2> HIDE DEF e
  <2>3. /\ Verdict(k) \in V
        /\ Verdict(k) = "ok" => /\ Check(e.publish_delay_sec, 0, MaxDelay) = "ok"
                                /\ Check(e.early_offset_ns, 0, ONE_MSEC_NSEC) = "ok"
    BY <1>1, <1>2, <1>3, <1>6, <2>1, <2>2
  <2> QED
    BY <1>1, <1>7, <2>3 DEF e
<1>10. ASSUME NEW k \in 1 .. SubCount
       PROVE  /\ Verdict(P + k) \in V
              /\ Verdict(P + k) = "ok" => doc.subs[k].subscribed_pub_id \in Nat
  <2> DEFINE e == doc.subs[k]
             n == P + k
  <2>1. e.rest \in Rest /\ Entries[n] = e /\ ~IsPub(n) /\ n # 0
    BY DocFacts DEF SubscriberData, IsPub
  <2> HIDE DEF n
  <2>2. Checks(n) = <<CheckQueue(e), Check(e.subscribed_pub_id, 0, FIVE_DIGIT_MAX),
                      CheckRest(e.rest)>>
    BY <2>1 DEF Checks
  <2> HIDE DEF e
  <2>3. /\ Verdict(n) \in V
        /\ Verdict(n) = "ok" => Check(e.subscribed_pub_id, 0, FIVE_DIGIT_MAX) = "ok"
    BY <1>1, <1>2, <1>3, <1>5, <2>1, <2>2
  <2> QED
    BY <1>1, <1>7, <2>3 DEF e, n
<1>11. ASSUME NEW k \in 0 .. Len(Entries) PROVE Verdict(k) \in V
  <2>1. k = 0 \/ k \in 1 .. P \/ (k - P \in 1 .. SubCount /\ P + (k - P) = k)
    BY DocFacts
  <2>2. CASE k - P \in 1 .. SubCount /\ P + (k - P) = k
    <3>1. Verdict(P + (k - P)) \in V
      BY <1>10, <2>2
    <3> QED
      BY <2>2, <3>1
  <2> QED
    BY <1>8, <1>9, <2>1, <2>2
<1> QED
  BY <1>8, <1>9, <1>10, <1>11 DEF V

(* A thread that changes, in its table.                                    *)
LEMMA TableFacts ==
  ASSUME NEW q \in Seq(Thread), NEW t \in DOMAIN q, NEW r \in Thread
  PROVE  /\ [q EXCEPT ![t] = r] \in Seq(Thread)
         /\ Len([q EXCEPT ![t] = r]) = Len(q)
         /\ DOMAIN [q EXCEPT ![t] = r] = DOMAIN q
         /\ [q EXCEPT ![t] = r][t] = r
         /\ \A s \in DOMAIN q : s # t => [q EXCEPT ![t] = r][s] = q[s]
OBVIOUS

(* Division with remainder.                                                *)
LEMMA DivFacts ==
  ASSUME NEW x \in Nat, NEW p \in Nat, p >= 1
  PROVE  x \div p \in Nat /\ (x \div p) * p \in Nat /\ (x \div p) * p > x - p
<1>1. x \div p \in Nat
  OBVIOUS
<1>2. (x \div p) * p > x - p
  OBVIOUS
<1>3. \A a, b \in Nat : a * b \in Nat
  OBVIOUS
<1> QED
  BY <1>1, <1>2, <1>3

(* The next full period is not in the past.                                *)
LEMMA PeriodFacts ==
  ASSUME NEW s \in Nat
  PROVE  NextFullPeriod(s) \in Nat /\ NextFullPeriod(s) >= s
<1> DEFINE x == s + Period - 1
           n == (x \div Period) * Period
<1>1. Period \in Nat /\ Period >= 1 /\ x \in Nat
  BY ServerAssumption
<1>2. x - Period = s - 1 /\ NextFullPeriod(s) = n
  BY <1>1 DEF NextFullPeriod
<1> HIDE DEF x
<1>3. n \in Nat /\ n > x - Period
  BY <1>1, DivFacts
<1> HIDE DEF n
<1> QED
  BY <1>2, <1>3

(* Where the time of a thread's start comes to lie: up to a second, which  *)
(* the truncation of the clock takes away, before its delay is over.       *)
LEMMA StartFacts ==
  ASSUME NEW s \in Nat, NEW delay \in Nat, NEW early \in Nat
  PROVE  LET start == (NextFullPeriod(s \div Second) + delay) * Second - early
             least == delay * Second - early - (Second - 1)
         IN  start \in Int /\ least \in Int /\ start >= s + least
<1> DEFINE q == s \div Second
           n == NextFullPeriod(q)
           ds == delay * Second
           qs == q * Second
           ns == n * Second
<1>1. Second \in Nat /\ Second >= 1
  BY ServerAssumption
<1>2. q \in Nat /\ qs \in Nat /\ qs > s - Second
  BY <1>1, DivFacts
<1> HIDE DEF q
<1>3. n \in Nat /\ n >= q
  BY <1>2, PeriodFacts
<1> HIDE DEF n
<1>4. (n + delay) * Second = ns + ds /\ ns \in Nat /\ ds \in Nat
  BY <1>1, <1>3
<1>5. ns >= qs
  <2>1. \A a, b, c \in Nat : a >= b => a * c >= b * c
    OBVIOUS
  <2> QED
    BY <1>1, <1>2, <1>3, <2>1
<1> HIDE DEF qs, ns, ds
<1>6. ns + ds - early >= s + (ds - early - (Second - 1))
  BY <1>1, <1>2, <1>4, <1>5
<1> QED
  BY <1>1, <1>4, <1>6 DEF q, n, ds

(***************************************************************************)
(* The steps of the threads.                                               *)
(***************************************************************************)

(* The types of a thread's fields, one by one.                             *)
LEMMA ThreadFacts ==
  ASSUME Typed
  PROVE  /\ Len(thr) \in Nat /\ DOMAIN thr = 1 .. Len(thr)
         /\ \A t \in DOMAIN thr :
              /\ thr[t] \in Thread
              /\ thr[t].entry \in 1 .. MAX_OPCUA_THREAD /\ thr[t].index \in 1 .. MAX_OPCUA_THREAD
              /\ thr[t].conn \in Nat \ {0} /\ thr[t].born \in Nat /\ thr[t].start \in Int
              /\ thr[t].ready \in BOOLEAN /\ thr[t].value \in Int /\ thr[t].fp \in BOOLEAN
              /\ thr[t].pc \in {"new", "failed", "head", "sleep", "call", "write", "test",
                                "store", "done"}
<1>1. thr \in Seq(Thread)
  BY DEF Typed, TypeOK
<1>2. Len(thr) \in Nat /\ DOMAIN thr = 1 .. Len(thr) /\ \A t \in DOMAIN thr : thr[t] \in Thread
  BY <1>1, SeqFacts
<1> QED
  BY <1>2 DEF Thread

(* The delay of a running thread is a number that parseJson has accepted,  *)
(* as is the early offset.                                                 *)
LEMMA DelayFacts ==
  ASSUME Typed, Stage, Busy, NEW t \in DOMAIN thr
  PROVE  Delay(t) \in Nat /\ Early(t) \in Nat
<1>1. CASE IsPub(thr[t].entry)
  <2>1. thr[t].index \in 1 .. P
    BY <1>1, ThreadFacts DEF Typed, TypeOK
  <2>2. Verdict(thr[t].index) = "ok"
    BY <2>1, DocFacts DEF Typed, Stage, Busy
  <2> QED
    BY <1>1, <2>1, <2>2, VerdictFacts DEF Typed, Delay, Early
<1>2. CASE ~IsPub(thr[t].entry)
  BY <1>2, ServerAssumption DEF Delay, Early
<1> QED
  BY <1>1, <1>2

(* What no thread changes.                                                 *)
ThreadFrame ==
  /\ UNCHANGED <<main, at, doc, status, queue, signalled>>
  /\ UNCHANGED <<conns, connId, refused, clash, layers, node, now>>

(* What a step of thread t leaves alone: the other threads, and where the  *)
(* thread belongs.                                                         *)
Moves(t) ==
  /\ Busy /\ ThreadFrame
  /\ thr' \in Seq(Thread) /\ Len(thr') = Len(thr) /\ DOMAIN thr' = DOMAIN thr
  /\ \A s \in DOMAIN thr : s # t => thr'[s] = thr[s]
  /\ thr'[t].entry = thr[t].entry /\ thr'[t].index = thr[t].index
  /\ thr'[t].conn = thr[t].conn /\ thr'[t].born = thr[t].born /\ thr'[t].ready = thr[t].ready

LEMMA MovesTo ==
  ASSUME Typed, Busy, ThreadFrame, NEW t \in DOMAIN thr, NEW r \in Thread,
         thr' = [thr EXCEPT ![t] = r],
         r.entry = thr[t].entry, r.index = thr[t].index, r.conn = thr[t].conn,
         r.born = thr[t].born, r.ready = thr[t].ready
  PROVE  Moves(t) /\ thr'[t] = r
<1>1. thr \in Seq(Thread)
  BY DEF Typed, TypeOK
<1>2. /\ thr' \in Seq(Thread) /\ Len(thr') = Len(thr) /\ DOMAIN thr' = DOMAIN thr
      /\ \A s \in DOMAIN thr : s # t => thr'[s] = thr[s]
      /\ thr'[t] = r
  BY <1>1, TableFacts
<1> QED
  BY <1>2 DEF Moves

(* A thread that exists runs beside a busy process.                        *)
LEMMA AliveBusy ==
  ASSUME Typed, Stage, NEW t, Alive(t)
  PROVE  Busy /\ t \in DOMAIN thr
BY SeqFacts DEF Alive, Stage, Untouched, Busy, Typed, TypeOK

(* A step that only moves the thread.                                      *)
LEMMA GotoMoves ==
  ASSUME Typed, Busy, ThreadFrame, NEW t \in DOMAIN thr, NEW pc, Goto(t, pc),
         pc \in {"new", "failed", "head", "sleep", "call", "write", "test", "store", "done"}
  PROVE  /\ Moves(t) /\ thr'[t].pc = pc /\ thr'[t].start = thr[t].start
         /\ thr'[t].value = thr[t].value /\ thr'[t].fp = thr[t].fp
<1> DEFINE r == [thr[t] EXCEPT !.pc = pc]
<1>1. thr[t] \in Thread
  BY ThreadFacts
<1>2. /\ r \in Thread /\ r.pc = pc /\ r.start = thr[t].start /\ r.value = thr[t].value
      /\ r.fp = thr[t].fp /\ r.entry = thr[t].entry /\ r.index = thr[t].index
      /\ r.conn = thr[t].conn /\ r.born = thr[t].born /\ r.ready = thr[t].ready
  BY <1>1 DEF Thread
<1>3. thr' = [thr EXCEPT ![t] = r]
  BY DEF Goto
<1> HIDE DEF r
<1>4. Moves(t) /\ thr'[t] = r
  BY <1>2, <1>3, MovesTo
<1> QED
  BY <1>2, <1>4

(* A thread that begins, passes its loop head, wakes up or has nothing to  *)
(* do changes nothing but where it is.                                     *)
LEMMA QuietStep ==
  ASSUME Typed, Stage, Clock, NEW t,
         ThreadBegins(t) \/ LoopHead(t) \/ Wake(t) \/ CallbackIdle(t)
  PROVE  /\ t \in DOMAIN thr /\ Moves(t)
         /\ UNCHANGED <<file, closes, rows, misused, gate, running, tx_sequence>>
         /\ thr[t].pc \notin {"write", "test", "store"}
         /\ thr'[t].pc \in {"head", "sleep", "call", "done"}
         /\ thr'[t].value = thr[t].value /\ thr'[t].fp = thr[t].fp
         /\ thr'[t].start >= thr[t].born + Grace(t)
         /\ thr'[t].pc = "call" => now >= thr'[t].start
<1>1. Alive(t)
  BY DEF ThreadBegins, LoopHead, Wake, CallbackIdle
<1>2. Busy /\ t \in DOMAIN thr
  BY <1>1, AliveBusy
<1>3. t \in 1 .. Len(thr) /\ thr[t] \in Thread /\ thr[t].born \in Nat /\ thr[t].start \in Int
  BY <1>2, ThreadFacts
<1>4. Delay(t) \in Nat /\ Early(t) \in Nat /\ now \in Nat
  BY <1>2, DelayFacts DEF Typed, TypeOK
<1>5. /\ ThreadFrame
      /\ UNCHANGED <<file, closes, rows, misused, gate, running, tx_sequence>>
  BY DEF ThreadBegins, LoopHead, Wake, CallbackIdle, ThreadFrame, fileVars, netVars, procVars
<1>6. CASE ThreadBegins(t)
  <2> DEFINE st == (NextFullPeriod(now \div Second) + Delay(t)) * Second - Early(t)
             r == [thr[t] EXCEPT !.pc = "head", !.start = st]
  <2>1. st \in Int /\ Grace(t) \in Int /\ st >= now + Grace(t)
    BY <1>4, StartFacts DEF Grace
  <2>2. thr[t].born <= now
    BY <1>3 DEF Clock
  <2>3. thr[t].pc = "new" /\ thr' = [thr EXCEPT ![t] = r]
    BY <1>6 DEF ThreadBegins
  <2> HIDE DEF st
  <2>4. /\ r \in Thread /\ r.pc = "head" /\ r.start = st /\ r.value = thr[t].value
        /\ r.fp = thr[t].fp /\ r.entry = thr[t].entry /\ r.index = thr[t].index
        /\ r.conn = thr[t].conn /\ r.born = thr[t].born /\ r.ready = thr[t].ready
    BY <1>3, <2>1 DEF Thread
  <2> HIDE DEF r
  <2>5. Moves(t) /\ thr'[t] = r
    BY <1>2, <1>5, <2>3, <2>4, MovesTo
  <2>6. st >= thr[t].born + Grace(t)
    BY <1>3, <1>4, <2>1, <2>2
  <2> QED
    BY <1>2, <1>5, <2>3, <2>4, <2>5, <2>6
<1>7. CASE LoopHead(t) \/ Wake(t) \/ CallbackIdle(t)
  <2>1. PICK pc \in {"head", "sleep", "call", "done"} :
          /\ Goto(t, pc)
          /\ thr[t].pc \in {"head", "sleep", "call"}
          /\ pc = "call" => now >= thr[t].start
    BY <1>7 DEF LoopHead, Wake, CallbackIdle
  <2>2. /\ Moves(t) /\ thr'[t].pc = pc /\ thr'[t].start = thr[t].start
        /\ thr'[t].value = thr[t].value /\ thr'[t].fp = thr[t].fp
    BY <1>2, <1>5, <2>1, GotoMoves
  <2>3. thr[t].start >= thr[t].born + Grace(t)
    BY <1>3, <2>1 DEF Clock
  <2> QED
    BY <1>2, <1>5, <2>1, <2>2, <2>3
<1> QED
  BY <1>6, <1>7

(* The steps of a publisher in its cycle, and of a subscriber.  Each is    *)
(* given by the thread's new place and by what else it changes.            *)
LEMMA PubLoadsStep ==
  ASSUME Typed, Stage, NEW t, PubLoads(t)
  PROVE  /\ t \in DOMAIN thr /\ Moves(t) /\ IsPub(thr[t].entry)
         /\ UNCHANGED <<file, closes, rows, misused, gate, running, tx_sequence>>
         /\ thr[t].pc = "call" /\ thr'[t].pc = "write" /\ thr'[t].start = thr[t].start
         /\ thr'[t].value = tx_sequence /\ thr'[t].fp = thr[t].fp
<1> DEFINE r == [thr[t] EXCEPT !.pc = "write", !.value = tx_sequence]
<1>1. /\ Alive(t) /\ thr[t].pc = "call" /\ IsPub(thr[t].entry) /\ thr' = [thr EXCEPT ![t] = r]
      /\ ThreadFrame
      /\ UNCHANGED <<file, closes, rows, misused, gate, running, tx_sequence>>
  BY DEF PubLoads, ThreadFrame, fileVars, netVars, procVars
<1>2. Busy /\ t \in DOMAIN thr
  BY <1>1, AliveBusy
<1>3. thr[t] \in Thread /\ tx_sequence \in Int
  BY <1>2, ThreadFacts, ServerAssumption DEF Typed, TypeOK
<1>4. /\ r \in Thread /\ r.pc = "write" /\ r.start = thr[t].start /\ r.value = tx_sequence
      /\ r.fp = thr[t].fp /\ r.entry = thr[t].entry /\ r.index = thr[t].index
      /\ r.conn = thr[t].conn /\ r.born = thr[t].born /\ r.ready = thr[t].ready
  BY <1>3 DEF Thread
<1> HIDE DEF r
<1>5. Moves(t) /\ thr'[t] = r
  BY <1>1, <1>2, <1>4, MovesTo
<1> QED
  BY <1>1, <1>2, <1>4, <1>5

LEMMA PubStoresStep ==
  ASSUME Typed, Stage, NEW t, PubStores(t)
  PROVE  /\ t \in DOMAIN thr /\ Moves(t)
         /\ UNCHANGED <<file, closes, rows, misused, gate, running>>
         /\ tx_sequence' = Capped(thr[t].value + 1)
         /\ thr[t].pc = "write" /\ thr'[t].pc = "test" /\ thr'[t].start = thr[t].start
         /\ thr'[t].fp = thr[t].fp
<1> DEFINE zero == 0
           r == [thr[t] EXCEPT !.pc = "test", !.value = zero]
<1>1. /\ Alive(t) /\ thr[t].pc = "write" /\ thr' = [thr EXCEPT ![t] = r]
      /\ tx_sequence' = Capped(thr[t].value + 1)
      /\ ThreadFrame
      /\ UNCHANGED <<file, closes, rows, misused, gate, running>>
  BY DEF PubStores, ThreadFrame, fileVars, netVars, procVars
<1>2. Busy /\ t \in DOMAIN thr
  BY <1>1, AliveBusy
<1>3. thr[t] \in Thread /\ zero \in Int
  BY <1>2, ThreadFacts
<1> HIDE DEF zero
<1>4. /\ r \in Thread /\ r.pc = "test" /\ r.start = thr[t].start
      /\ r.fp = thr[t].fp /\ r.entry = thr[t].entry /\ r.index = thr[t].index
      /\ r.conn = thr[t].conn /\ r.born = thr[t].born /\ r.ready = thr[t].ready
  BY <1>3 DEF Thread
<1> HIDE DEF r
<1>5. Moves(t) /\ thr'[t] = r
  BY <1>1, <1>2, <1>4, MovesTo
<1> QED
  BY <1>1, <1>2, <1>4, <1>5

LEMMA PubTestsStep ==
  ASSUME Typed, Stage, NEW t, PubTests(t)
  PROVE  /\ t \in DOMAIN thr /\ Moves(t)
         /\ UNCHANGED <<file, closes, rows, misused, gate, tx_sequence>>
         /\ running' = (running /\ tx_sequence # doc.packet_count)
         /\ thr[t].pc = "test" /\ thr'[t].pc = "head" /\ thr'[t].start = thr[t].start
         /\ thr'[t].value = thr[t].value /\ thr'[t].fp = thr[t].fp
<1>1. /\ Alive(t) /\ thr[t].pc = "test" /\ Goto(t, "head") /\ ThreadFrame
      /\ UNCHANGED <<file, closes, rows, misused, gate, tx_sequence>>
      /\ running' = (running /\ tx_sequence # doc.packet_count)
  BY DEF PubTests, ThreadFrame, fileVars, netVars, procVars
<1>2. Busy /\ t \in DOMAIN thr
  BY <1>1, AliveBusy
<1> QED
  BY <1>1, <1>2, GotoMoves

LEMMA PubReturnsStep ==
  ASSUME Typed, Stage, NEW t, PubReturns(t)
  PROVE  /\ t \in DOMAIN thr /\ Moves(t) /\ IsPub(thr[t].entry)
         /\ UNCHANGED <<file, closes, rows, misused, gate>>
         /\ tx_sequence' \in {tx_sequence, Capped(tx_sequence + 1)}
         /\ running' = (running /\ tx_sequence' < doc.packet_count)
         /\ thr[t].pc = "call" /\ thr'[t].pc = "head" /\ thr'[t].start = thr[t].start
         /\ thr'[t].value = thr[t].value /\ thr'[t].fp = thr[t].fp
<1>1. /\ Alive(t) /\ thr[t].pc = "call" /\ Goto(t, "head") /\ ThreadFrame
      /\ IsPub(thr[t].entry)
      /\ UNCHANGED <<file, closes, rows, misused, gate>>
      /\ tx_sequence' \in {tx_sequence, Capped(tx_sequence + 1)}
      /\ running' = (running /\ tx_sequence' < doc.packet_count)
  BY DEF PubReturns, ThreadFrame, fileVars, netVars, procVars
<1>2. Busy /\ t \in DOMAIN thr
  BY <1>1, AliveBusy
<1> QED
  BY <1>1, <1>2, GotoMoves

LEMMA SubReceivesStep ==
  ASSUME Typed, Stage, NEW t, SubReceives(t)
  PROVE  /\ t \in DOMAIN thr /\ Moves(t) /\ ~IsPub(thr[t].entry) /\ thr[t].ready
         /\ UNCHANGED <<file, closes, rows, misused, running, tx_sequence>>
         /\ gate' \in BOOLEAN
         /\ thr[t].pc = "call" /\ thr'[t].pc = "store" /\ thr'[t].start = thr[t].start
         /\ thr'[t].value \in Remote /\ Accepts(thr[t].entry, thr'[t].value)
         /\ thr'[t].fp => file[node.sub] = "open"
<1>1. /\ Alive(t) /\ thr[t].pc = "call" /\ ~IsPub(thr[t].entry) /\ thr[t].ready /\ ThreadFrame
      /\ UNCHANGED <<file, closes, rows, misused, running, tx_sequence>>
      /\ gate' \in BOOLEAN
  BY DEF SubReceives, ThreadFrame, fileVars, netVars, procVars
<1>2. PICK id \in Remote : /\ Accepts(thr[t].entry, id)
                           /\ thr' = [thr EXCEPT ![t].pc = "store", ![t].value = id,
                                                 ![t].fp = file[node.sub] = "open"]
  BY DEF SubReceives
<1> DEFINE b == file[node.sub] = "open"
           r == [thr[t] EXCEPT !.pc = "store", !.value = id, !.fp = b]
<1>3. Busy /\ t \in DOMAIN thr
  BY <1>1, AliveBusy
<1>4. thr[t] \in Thread /\ id \in Int /\ b \in BOOLEAN
  BY <1>3, ThreadFacts, ServerAssumption
<1>5. thr' = [thr EXCEPT ![t] = r]
  BY <1>2
<1> HIDE DEF b
<1>6. /\ r \in Thread /\ r.pc = "store" /\ r.start = thr[t].start /\ r.value = id
      /\ r.fp = b /\ r.entry = thr[t].entry /\ r.index = thr[t].index
      /\ r.conn = thr[t].conn /\ r.born = thr[t].born /\ r.ready = thr[t].ready
  BY <1>4 DEF Thread
<1> HIDE DEF r
<1>7. Moves(t) /\ thr'[t] = r
  BY <1>1, <1>3, <1>5, <1>6, MovesTo
<1> QED
  BY <1>1, <1>2, <1>3, <1>6, <1>7 DEF b

LEMMA SubStoresStep ==
  ASSUME Typed, Stage, NEW t, SubStores(t)
  PROVE  /\ t \in DOMAIN thr /\ Moves(t)
         /\ UNCHANGED <<gate, tx_sequence>>
         /\ thr[t].pc = "store" /\ thr'[t].pc = "head" /\ thr'[t].start = thr[t].start
         /\ ~thr'[t].fp
         /\ rows' = IF thr[t].fp /\ file[node.sub] = "open"
                    THEN [rows EXCEPT ![node.sub] = @ \cup {thr[t].value}] ELSE rows
         /\ misused' = IF thr[t].fp /\ file[node.sub] # "open"
                       THEN misused \cup {node.sub} ELSE misused
         /\ \/ running' = FALSE /\ IF thr[t].fp THEN Close(node.sub) ELSE UNCHANGED <<file, closes>>
            \/ UNCHANGED <<running, file, closes>>
<1> DEFINE zero == 0
           r == [thr[t] EXCEPT !.pc = "head", !.value = zero, !.fp = FALSE]
<1>1. /\ Alive(t) /\ thr[t].pc = "store" /\ thr' = [thr EXCEPT ![t] = r] /\ ThreadFrame
      /\ UNCHANGED <<gate, tx_sequence>>
  BY DEF SubStores, ThreadFrame, netVars, procVars
<1>2. Busy /\ t \in DOMAIN thr
  BY <1>1, AliveBusy
<1>3. thr[t] \in Thread /\ zero \in Int
  BY <1>2, ThreadFacts
<1> HIDE DEF zero
<1>4. /\ r \in Thread /\ r.pc = "head" /\ r.start = thr[t].start
      /\ r.fp = FALSE /\ r.entry = thr[t].entry /\ r.index = thr[t].index
      /\ r.conn = thr[t].conn /\ r.born = thr[t].born /\ r.ready = thr[t].ready
  BY <1>3 DEF Thread
<1>5. /\ rows' = IF thr[t].fp /\ file[node.sub] = "open"
                 THEN [rows EXCEPT ![node.sub] = @ \cup {thr[t].value}] ELSE rows
      /\ misused' = IF thr[t].fp /\ file[node.sub] # "open"
                    THEN misused \cup {node.sub} ELSE misused
      /\ \/ running' = FALSE /\ IF thr[t].fp THEN Close(node.sub) ELSE UNCHANGED <<file, closes>>
         \/ UNCHANGED <<running, file, closes>>
  BY DEF SubStores
<1> HIDE DEF r
<1>6. Moves(t) /\ thr'[t] = r
  BY <1>1, <1>2, <1>4, MovesTo
<1> QED
  BY <1>1, <1>2, <1>4, <1>5, <1>6

----------------------------------------------------------------------------
(* The file does not change, nor what is computed from it.                 *)
LEMMA DocSame ==
  ASSUME doc' = doc
  PROVE  /\ P' = P /\ SubCount' = SubCount /\ Entries' = Entries /\ TwoWay' = TwoWay
         /\ (TooMany' <=> TooMany)
         /\ \A k : Verdict(k)' = Verdict(k)
         /\ \A k : IsPub(k)' <=> IsPub(k)
         /\ \A k : Shares(k)' <=> Shares(k)
         /\ \A k : Socket(k)' = Socket(k)
         /\ \A k, id : Accepts(k, id)' <=> Accepts(k, id)
<1>1. P' = P /\ SubCount' = SubCount /\ Entries' = Entries
  BY DEF P, SubCount, Entries
<1>2. TwoWay' = TwoWay /\ (TooMany' <=> TooMany)
  BY <1>1 DEF TwoWay, TooMany, threadCount
<1>3. \A k : Verdict(k)' = Verdict(k)
  BY <1>1 DEF Verdict, Checks, CheckQueue, IsPub
<1>4. \A k : IsPub(k)' <=> IsPub(k)
  BY <1>1 DEF IsPub
<1>5. \A k : Shares(k)' <=> Shares(k)
  BY <1>1 DEF Shares, IsPub, Queue
<1>6. \A k : Socket(k)' = Socket(k)
  BY <1>1 DEF Socket, Interface, Queue, IsPub
<1>7. \A k, id : Accepts(k, id)' <=> Accepts(k, id)
  BY <1>1 DEF Accepts
<1> QED
  BY <1>1, <1>2, <1>3, <1>4, <1>5, <1>6, <1>7

(* A thread's step keeps what the process has come to and where the        *)
(* threads belong.                                                         *)
LEMMA MovesFrame ==
  ASSUME IInv, NEW t \in DOMAIN thr, Moves(t)
  PROVE  /\ Stage' /\ Layers' /\ Nodes' /\ Table' /\ Wiring'
         /\ WiredAsConfigured' /\ QueueLeftOnlyByFailedSetup'
<1> USE DEF IInv
<1>1. /\ Busy /\ UNCHANGED <<main, at, doc, status, queue>>
      /\ UNCHANGED <<conns, connId, refused, clash, layers, node, now>>
      /\ Len(thr') = Len(thr) /\ DOMAIN thr' = DOMAIN thr
  BY DEF Moves, ThreadFrame
<1>2. /\ \A s \in DOMAIN thr : /\ thr'[s].entry = thr[s].entry /\ thr'[s].index = thr[s].index
                               /\ thr'[s].conn = thr[s].conn
      /\ DOMAIN thr = 1 .. Len(thr)
  BY ThreadFacts DEF Moves
<1>3. P' = P /\ SubCount' = SubCount /\ Entries' = Entries /\ (TooMany' <=> TooMany)
  BY <1>1, DocSame
<1>4. Busy' = Busy /\ Reached' = Reached /\ Grouped' = Grouped
  BY <1>1 DEF Busy, Reached, Grouped
<1>5. Stage'
  <2>1. \A k : Verdict(k)' = Verdict(k)
    BY <1>1, DocSame
  <2> QED
    BY <1>1, <1>3, <1>4, <2>1 DEF Stage, Busy
<1>6. Layers' /\ Nodes'
  BY <1>1, <1>3 DEF Layers, Nodes
<1>7. Table'
  BY <1>1, <1>2, <1>3, <1>4 DEF Table
<1>8. Wiring'
  <2>1. \A k : Shares(k)' <=> Shares(k)
    BY <1>1, DocSame
  <2> QED
    BY <1>1, <1>2, <1>4, <2>1 DEF Wiring
<1>9. WiredAsConfigured'
  <2>1. \A k : (Shares(k)' <=> Shares(k)) /\ Socket(k)' = Socket(k) /\ (IsPub(k)' <=> IsPub(k))
    BY <1>1, DocSame
  <2> QED
    BY <1>1, <1>2, <1>3, <2>1 DEF WiredAsConfigured
<1>10. QueueLeftOnlyByFailedSetup'
  BY <1>1, <1>3 DEF QueueLeftOnlyByFailedSetup
<1> QED
  BY <1>5, <1>6, <1>7, <1>8, <1>9, <1>10

(* It keeps the types if what else it changes does.                        *)
LEMMA MovesTyped ==
  ASSUME Typed, NEW t \in DOMAIN thr, Moves(t),
         file' \in [DOMAIN doc.subs -> {"none", "open", "closed"}],
         closes' \in [DOMAIN doc.subs -> Nat], rows' \in [DOMAIN doc.subs -> SUBSET Remote],
         misused' \subseteq DOMAIN doc.subs, gate' \in BOOLEAN, running' \in BOOLEAN,
         tx_sequence' \in -2 .. TxCap
  PROVE  Typed'
<1>1. /\ UNCHANGED <<main, at, doc, status, queue, signalled>>
      /\ UNCHANGED <<conns, connId, refused, clash, layers, node, now>>
      /\ Len(thr') = Len(thr) /\ DOMAIN thr' = DOMAIN thr /\ thr' \in Seq(Thread)
  BY DEF Moves, ThreadFrame
<1>2. \A s \in DOMAIN thr : thr'[s].entry = thr[s].entry /\ thr'[s].index = thr[s].index
  BY DEF Moves
<1>3. P' = P /\ SubCount' = SubCount /\ Entries' = Entries
  BY <1>1, DocSame
<1>4. \A s \in DOMAIN thr : thr'[s].index <= IF thr'[s].entry <= P THEN P ELSE SubCount
  BY <1>2 DEF Typed, TypeOK, IsPub
<1>5. TypeOK'
  BY <1>1, <1>3, <1>4 DEF Typed, TypeOK, IsPub
<1> QED
  BY <1>1, <1>3, <1>5 DEF Typed

(* And it keeps where the threads are, and when, if it does so for its own.*)
LEMMA MovesCycle ==
  ASSUME Typed, Cycle, NEW t \in DOMAIN thr, Moves(t),
         thr'[t].pc \in {"write", "test"} => IsPub(thr[t].entry),
         thr'[t].pc = "write" => thr'[t].value >= -2,
         thr'[t].pc = "store" => /\ ~IsPub(thr[t].entry) /\ thr[t].ready
                                 /\ thr'[t].value \in Remote
                                 /\ Accepts(thr[t].entry, thr'[t].value),
         thr'[t].fp => thr'[t].pc = "store"
  PROVE  Cycle'
<1>1. /\ doc' = doc /\ node' = node /\ Len(thr') = Len(thr) /\ DOMAIN thr = 1 .. Len(thr)
      /\ \A s \in DOMAIN thr : s # t => thr'[s] = thr[s]
      /\ thr'[t].entry = thr[t].entry /\ thr'[t].ready = thr[t].ready
  BY ThreadFacts DEF Moves, ThreadFrame
<1>2. \A k : (IsPub(k)' <=> IsPub(k)) /\ (\A id : Accepts(k, id)' <=> Accepts(k, id))
  BY <1>1, DocSame
<1> SUFFICES ASSUME NEW s \in 1 .. Len(thr)
             PROVE  /\ thr'[s].pc \in {"write", "test"} => IsPub(thr'[s].entry)
                    /\ thr'[s].pc = "write" => thr'[s].value >= -2
                    /\ thr'[s].pc = "store" => /\ ~IsPub(thr'[s].entry) /\ thr'[s].ready
                                               /\ thr'[s].value \in Remote
                                               /\ Accepts(thr'[s].entry, thr'[s].value)
                    /\ thr'[s].fp => thr'[s].pc = "store"
                    /\ thr'[s].ready /\ ~IsPub(thr'[s].entry) => node.sub = 1
  BY <1>1, <1>2 DEF Cycle
<1>3. CASE s = t
  BY <1>1, <1>3 DEF Cycle
<1>4. CASE s # t
  BY <1>1, <1>4 DEF Cycle
<1> QED
  BY <1>3, <1>4

LEMMA MovesClock ==
  ASSUME Typed, Clock, NEW t \in DOMAIN thr, Moves(t),
         thr'[t].pc \notin {"new", "failed"} => thr'[t].start >= thr[t].born + Grace(t),
         thr'[t].pc = "call" => now >= thr'[t].start
  PROVE  Clock'
<1>1. /\ doc' = doc /\ now' = now /\ Len(thr') = Len(thr) /\ DOMAIN thr = 1 .. Len(thr)
      /\ \A s \in DOMAIN thr : s # t => thr'[s] = thr[s]
      /\ \A s \in DOMAIN thr : /\ thr'[s].entry = thr[s].entry /\ thr'[s].index = thr[s].index
                               /\ thr'[s].born = thr[s].born
  BY ThreadFacts DEF Moves, ThreadFrame
<1>2. \A s \in DOMAIN thr : Grace(s)' = Grace(s)
  BY <1>1 DEF Grace, Delay, Early, IsPub, P
<1> SUFFICES ASSUME NEW s \in 1 .. Len(thr)
             PROVE  /\ thr'[s].born <= now /\ Grace(s) \in Int
                    /\ thr'[s].pc \notin {"new", "failed"} => thr'[s].start >= thr'[s].born + Grace(s)
                    /\ thr'[s].pc = "call" => now >= thr'[s].start
  BY <1>1, <1>2 DEF Clock
<1>3. CASE s = t
  BY <1>1, <1>3 DEF Clock
<1>4. CASE s # t
  BY <1>1, <1>4 DEF Clock
<1> QED
  BY <1>3, <1>4

----------------------------------------------------------------------------
(* With one publisher there is at most one thread that publishes, and with *)
(* one subscriber at most one that receives.                               *)
LEMMA LoneThread ==
  ASSUME Typed, Table, NEW s \in DOMAIN thr, NEW t \in DOMAIN thr
  PROVE  /\ P <= 1 /\ IsPub(thr[s].entry) /\ IsPub(thr[t].entry) => s = t /\ P = 1
         /\ SubCount <= 1 /\ ~IsPub(thr[s].entry) /\ ~IsPub(thr[t].entry) =>
              s = t /\ SubCount = 1 /\ thr[s].entry = P + 1
<1>1. /\ P \in Nat /\ SubCount \in Nat /\ Len(Entries) = P + SubCount
      /\ s \in 1 .. Len(thr) /\ t \in 1 .. Len(thr) /\ Len(thr) \in Nat
  BY DocFacts, ThreadFacts DEF Typed
<1>2. /\ thr[s].entry \in Nat /\ thr[t].entry \in Nat /\ thr[s].entry >= 1 /\ thr[t].entry >= 1
      /\ thr[s].entry <= P + SubCount /\ thr[t].entry <= P + SubCount
  BY <1>1, ThreadFacts, ServerAssumption DEF Table
<1>3. thr[s].entry = thr[t].entry => s = t
  BY <1>1, <1>2 DEF Table
<1> QED
  BY <1>1, <1>2, <1>3 DEF IsPub

(* The types of the plain variables, for the steps that do not touch them. *)
LEMMA PlainFacts ==
  ASSUME Typed
  PROVE  /\ file \in [DOMAIN doc.subs -> {"none", "open", "closed"}]
         /\ closes \in [DOMAIN doc.subs -> Nat] /\ rows \in [DOMAIN doc.subs -> SUBSET Remote]
         /\ misused \subseteq DOMAIN doc.subs
         /\ gate \in BOOLEAN /\ running \in BOOLEAN /\ queue \in BOOLEAN /\ signalled \in BOOLEAN
         /\ tx_sequence \in -2 .. TxCap /\ tx_sequence \in Int /\ tx_sequence >= -2
         /\ now \in Nat /\ TxCap \in Nat /\ node.sub \in Nat /\ node.pub \in Nat
         /\ at \in Nat /\ layers \in Nat
BY ServerAssumption, DocFacts DEF Typed, TypeOK

(* The cap is no smaller than what it is applied to, and keeps the type.   *)
LEMMA CappedFacts ==
  ASSUME NEW n \in Int, n >= -2
  PROVE  Capped(n) \in -2 .. TxCap /\ Capped(n) \in Int /\ Capped(n) <= n
BY ServerAssumption DEF Capped

(* A thread that moves without touching files or counter keeps what is     *)
(* said about them.                                                        *)
LEMMA MovesFiles ==
  ASSUME Typed, Files, NEW t \in DOMAIN thr, Moves(t), UNCHANGED <<file, closes, misused>>,
         thr'[t].fp => thr[t].fp \/ file[node.sub] = "open"
  PROVE  Files'
<1>1. /\ UNCHANGED <<main, at, doc, status, node>> /\ Len(thr') = Len(thr)
      /\ DOMAIN thr = 1 .. Len(thr)
      /\ \A s \in DOMAIN thr : s # t => thr'[s] = thr[s]
  BY ThreadFacts DEF Moves, ThreadFrame
<1>2. P' = P /\ SubCount' = SubCount
  BY <1>1, DocSame
<1>3. SubCount <= 1 => \A s \in 1 .. Len(thr) : thr'[s].fp => file[node.sub] = "open"
  BY <1>1 DEF Files
<1> QED
  BY <1>1, <1>2, <1>3 DEF Files

LEMMA MovesRows ==
  ASSUME RowsOfSubscribed, NEW t, Moves(t), UNCHANGED rows
  PROVE  RowsOfSubscribed'
BY DocSame DEF RowsOfSubscribed, Moves, ThreadFrame

LEMMA MovesCounter ==
  ASSUME Typed, Counter, NEW t \in DOMAIN thr, Moves(t), UNCHANGED tx_sequence,
         running' => running, thr[t].pc # "test",
         thr'[t].pc = "write" => thr'[t].value = tx_sequence
  PROVE  Counter'
<1>1. /\ UNCHANGED <<main, at, doc>> /\ Len(thr') = Len(thr) /\ DOMAIN thr = 1 .. Len(thr)
      /\ \A s \in DOMAIN thr : s # t => thr'[s] = thr[s]
  BY ThreadFacts DEF Moves, ThreadFrame
<1>2. P' = P /\ Busy' = Busy
  BY <1>1, DocSame DEF Busy
<1>3. P = 1 => \A s \in 1 .. Len(thr) : thr'[s].pc = "write" => thr'[s].value = tx_sequence
  BY <1>1 DEF Counter
<1>4. ASSUME NEW s \in 1 .. Len(thr), thr[s].pc = "test" PROVE thr'[s].pc = "test"
  BY <1>1, <1>4
<1> QED
  BY <1>1, <1>2, <1>3, <1>4 DEF Counter

(* The steps that touch neither.                                           *)
LEMMA QuietKeeps ==
  ASSUME IInv, NEW t, ThreadBegins(t) \/ LoopHead(t) \/ Wake(t) \/ CallbackIdle(t)
  PROVE  IInv'
<1> USE DEF IInv
<1>1. /\ t \in DOMAIN thr /\ Moves(t)
      /\ UNCHANGED <<file, closes, rows, misused, gate, running, tx_sequence>>
      /\ thr[t].pc \notin {"write", "test", "store"}
      /\ thr'[t].pc \in {"head", "sleep", "call", "done"}
      /\ thr'[t].value = thr[t].value /\ thr'[t].fp = thr[t].fp
      /\ thr'[t].start >= thr[t].born + Grace(t)
      /\ thr'[t].pc = "call" => now >= thr'[t].start
  BY QuietStep
<1>2. ~thr[t].fp
  BY <1>1, ThreadFacts DEF Cycle
<1>3. Typed'
  BY <1>1, MovesTyped, PlainFacts
<1>4. Cycle'
  BY <1>1, <1>2, MovesCycle
<1>5. Clock'
  BY <1>1, MovesClock
<1>6. Files' /\ Counter' /\ RowsOfSubscribed'
  BY <1>1, MovesFiles, MovesCounter, MovesRows
<1> QED
  BY <1>1, <1>3, <1>4, <1>5, <1>6, MovesFrame

(* The steps of a publisher.                                               *)
LEMMA PubLoadsKeeps == ASSUME IInv, NEW t, PubLoads(t) PROVE IInv'
<1> USE DEF IInv
<1>1. /\ t \in DOMAIN thr /\ Moves(t) /\ IsPub(thr[t].entry)
      /\ UNCHANGED <<file, closes, rows, misused, gate, running, tx_sequence>>
      /\ thr[t].pc = "call" /\ thr'[t].pc = "write" /\ thr'[t].start = thr[t].start
      /\ thr'[t].value = tx_sequence /\ thr'[t].fp = thr[t].fp
  BY PubLoadsStep
<1>2. ~thr[t].fp /\ thr[t].start >= thr[t].born + Grace(t)
  BY <1>1, ThreadFacts DEF Cycle, Clock
<1>3. Typed'
  BY <1>1, MovesTyped, PlainFacts
<1>4. Cycle' /\ Clock'
  BY <1>1, <1>2, MovesCycle, MovesClock, PlainFacts
<1>5. Files' /\ Counter' /\ RowsOfSubscribed'
  BY <1>1, MovesFiles, MovesCounter, MovesRows
<1> QED
  BY <1>1, <1>3, <1>4, <1>5, MovesFrame

LEMMA PubStoresKeeps == ASSUME IInv, NEW t, PubStores(t) PROVE IInv'
<1> USE DEF IInv
<1>1. /\ t \in DOMAIN thr /\ Moves(t)
      /\ UNCHANGED <<file, closes, rows, misused, gate, running>>
      /\ tx_sequence' = Capped(thr[t].value + 1)
      /\ thr[t].pc = "write" /\ thr'[t].pc = "test" /\ thr'[t].start = thr[t].start
      /\ thr'[t].fp = thr[t].fp
  BY PubStoresStep
<1>2. /\ ~thr[t].fp /\ thr[t].start >= thr[t].born + Grace(t)
      /\ IsPub(thr[t].entry) /\ thr[t].value \in Int /\ thr[t].value >= -2
  BY <1>1, ThreadFacts DEF Cycle, Clock
<1>3. tx_sequence' \in -2 .. TxCap /\ tx_sequence' \in Int /\ tx_sequence' <= thr[t].value + 1
  BY <1>1, <1>2, CappedFacts
<1>4. Typed'
  BY <1>1, <1>3, MovesTyped, PlainFacts
<1>5. Cycle' /\ Clock'
  BY <1>1, <1>2, MovesCycle, MovesClock
<1>6. Files' /\ RowsOfSubscribed'
  BY <1>1, MovesFiles, MovesRows
<1>7. Counter'
  <2>1. /\ UNCHANGED <<main, at, doc>> /\ Len(thr') = Len(thr) /\ DOMAIN thr = 1 .. Len(thr)
        /\ \A s \in DOMAIN thr : s # t => thr'[s] = thr[s]
        /\ Busy /\ P' = P /\ Busy' = Busy
    BY <1>1, ThreadFacts, DocSame DEF Moves, ThreadFrame, Busy
  <2>2. P # 0
    BY <1>2, <1>1, LoneThread, DocFacts DEF Typed
  <2>3. ~(main = "setup" /\ at = 1)
    <3>1. main # "exit" => thr[t].entry <= Grouped
      BY <1>1, <2>1 DEF Table
    <3> QED
      BY <1>1, <3>1, ThreadFacts, ServerAssumption DEF Grouped
  <2>4. ASSUME P = 1 PROVE \A s \in 1 .. Len(thr) : thr'[s].pc # "write"
    <3> TAKE s \in 1 .. Len(thr)
    <3>1. CASE s = t
      BY <1>1, <3>1
    <3>2. CASE s # t
      BY <1>1, <1>2, <2>1, <2>4, <3>2, LoneThread DEF Cycle
    <3> QED
      BY <3>1, <3>2
  <2>5. ASSUME P = 1, running PROVE tx_sequence' <= doc.packet_count
    <3>1. thr[t].value = tx_sequence
      BY <1>1, <2>1, <2>5 DEF Counter
    <3>2. tx_sequence <= doc.packet_count
      BY <2>1, <2>5 DEF Counter
    <3>3. tx_sequence # doc.packet_count
      <4> SUFFICES ASSUME tx_sequence = doc.packet_count PROVE FALSE
        OBVIOUS
      <4>1. PICK s \in 1 .. Len(thr) : thr[s].pc = "test"
        BY <2>1, <2>5 DEF Counter
      <4>2. s = t
        BY <1>1, <1>2, <2>1, <2>5, <4>1, LoneThread DEF Cycle
      <4> QED
        BY <1>1, <4>1, <4>2
    <3>4. doc.packet_count \in Nat
      <4>1. Verdict(0) = "ok"
        BY <2>1, DocFacts DEF Stage, Busy, Typed
      <4> QED
        BY <4>1, VerdictFacts DEF Typed
    <3> QED
      BY <1>3, <3>1, <3>2, <3>3, <3>4, PlainFacts
  <2>6. \E s \in 1 .. Len(thr) : thr'[s].pc = "test"
    BY <1>1, <2>1
  <2> QED
    BY <1>1, <2>1, <2>2, <2>3, <2>4, <2>5, <2>6 DEF Counter
<1> QED
  BY <1>1, <1>4, <1>5, <1>6, <1>7, MovesFrame

(* With a busy process the packet count is a positive number.              *)
LEMMA CountFacts ==
  ASSUME Typed, Stage, main \notin {"parse", "exit"}
  PROVE  doc.packet_count \in Nat /\ doc.packet_count >= 1
<1>1. Verdict(0) = "ok"
  BY DocFacts DEF Stage, Typed
<1> QED
  BY <1>1, VerdictFacts DEF Typed

LEMMA PubTestsKeeps == ASSUME IInv, NEW t, PubTests(t) PROVE IInv'
<1> USE DEF IInv
<1>1. /\ t \in DOMAIN thr /\ Moves(t)
      /\ UNCHANGED <<file, closes, rows, misused, gate, tx_sequence>>
      /\ running' = (running /\ tx_sequence # doc.packet_count)
      /\ thr[t].pc = "test" /\ thr'[t].pc = "head" /\ thr'[t].start = thr[t].start
      /\ thr'[t].value = thr[t].value /\ thr'[t].fp = thr[t].fp
  BY PubTestsStep
<1>2. ~thr[t].fp /\ thr[t].start >= thr[t].born + Grace(t) /\ running' \in BOOLEAN
  BY <1>1, ThreadFacts DEF Cycle, Clock
<1>3. Typed'
  BY <1>1, <1>2, MovesTyped, PlainFacts
<1>4. Cycle' /\ Clock'
  BY <1>1, <1>2, MovesCycle, MovesClock
<1>5. Files' /\ RowsOfSubscribed'
  BY <1>1, MovesFiles, MovesRows
<1>6. Counter'
  <2>1. /\ UNCHANGED <<main, at, doc>> /\ Len(thr') = Len(thr) /\ DOMAIN thr = 1 .. Len(thr)
        /\ \A s \in DOMAIN thr : s # t => thr'[s] = thr[s]
        /\ P' = P /\ Busy' = Busy
    BY <1>1, ThreadFacts, DocSame DEF Moves, ThreadFrame, Busy
  <2>2. P = 1 => \A s \in 1 .. Len(thr) : thr'[s].pc = "write" => thr'[s].value = tx_sequence
    BY <1>1, <2>1 DEF Counter
  <2>3. P = 1 /\ Busy /\ running' => tx_sequence <= doc.packet_count /\ tx_sequence # doc.packet_count
    BY <1>1 DEF Counter
  <2> QED
    BY <1>1, <2>1, <2>2, <2>3 DEF Counter
<1> QED
  BY <1>1, <1>3, <1>4, <1>5, <1>6, MovesFrame

LEMMA PubReturnsKeeps == ASSUME IInv, NEW t, PubReturns(t) PROVE IInv'
<1> USE DEF IInv
<1>1. /\ t \in DOMAIN thr /\ Moves(t) /\ IsPub(thr[t].entry)
      /\ UNCHANGED <<file, closes, rows, misused, gate>>
      /\ tx_sequence' \in {tx_sequence, Capped(tx_sequence + 1)}
      /\ running' = (running /\ tx_sequence' < doc.packet_count)
      /\ thr[t].pc = "call" /\ thr'[t].pc = "head" /\ thr'[t].start = thr[t].start
      /\ thr'[t].value = thr[t].value /\ thr'[t].fp = thr[t].fp
  BY PubReturnsStep
<1>2. ~thr[t].fp /\ thr[t].start >= thr[t].born + Grace(t) /\ running' \in BOOLEAN
  BY <1>1, ThreadFacts DEF Cycle, Clock
<1>3. tx_sequence' \in -2 .. TxCap /\ tx_sequence' \in Int
  BY <1>1, CappedFacts, PlainFacts
<1>4. Typed'
  BY <1>1, <1>2, <1>3, MovesTyped, PlainFacts
<1>5. Cycle' /\ Clock'
  BY <1>1, <1>2, MovesCycle, MovesClock
<1>6. Files' /\ RowsOfSubscribed'
  BY <1>1, MovesFiles, MovesRows
<1>7. Counter'
  <2>1. /\ UNCHANGED <<main, at, doc>> /\ Len(thr') = Len(thr) /\ DOMAIN thr = 1 .. Len(thr)
        /\ \A s \in DOMAIN thr : s # t => thr'[s] = thr[s]
        /\ P' = P /\ Busy /\ Busy' = Busy
    BY <1>1, ThreadFacts, DocSame DEF Moves, ThreadFrame, Busy
  <2>2. P # 0
    BY <1>1, LoneThread, DocFacts DEF Typed
  <2>3. ~(main = "setup" /\ at = 1)
    <3>1. main # "exit" => thr[t].entry <= Grouped
      BY <1>1, <2>1 DEF Table
    <3> QED
      BY <1>1, <3>1, ThreadFacts, ServerAssumption DEF Grouped
  <2>4. ASSUME P = 1 PROVE \A s \in 1 .. Len(thr) : thr'[s].pc # "write"
    <3> TAKE s \in 1 .. Len(thr)
    <3>1. CASE s = t
      BY <1>1, <3>1
    <3>2. CASE s # t
      BY <1>1, <2>1, <2>4, <3>2, LoneThread DEF Cycle
    <3> QED
      BY <3>1, <3>2
  <2>5. running' => tx_sequence' <= doc.packet_count /\ tx_sequence' # doc.packet_count
    <3>1. doc.packet_count \in Nat
      BY <2>1, CountFacts DEF Busy
    <3>2. ASSUME running' PROVE tx_sequence' < doc.packet_count
      BY <1>1, <3>2, Zenon
    <3> QED
      BY <1>3, <3>1, <3>2
  <2> QED
    BY <1>1, <2>1, <2>2, <2>3, <2>4, <2>5 DEF Counter
<1> QED
  BY <1>1, <1>4, <1>5, <1>6, <1>7, MovesFrame

(* The steps of a subscriber.                                              *)
LEMMA SubReceivesKeeps == ASSUME IInv, NEW t, SubReceives(t) PROVE IInv'
<1> USE DEF IInv
<1>1. /\ t \in DOMAIN thr /\ Moves(t) /\ ~IsPub(thr[t].entry) /\ thr[t].ready
      /\ UNCHANGED <<file, closes, rows, misused, running, tx_sequence>>
      /\ gate' \in BOOLEAN
      /\ thr[t].pc = "call" /\ thr'[t].pc = "store" /\ thr'[t].start = thr[t].start
      /\ thr'[t].value \in Remote /\ Accepts(thr[t].entry, thr'[t].value)
      /\ thr'[t].fp => file[node.sub] = "open"
  BY SubReceivesStep
<1>2. thr[t].start >= thr[t].born + Grace(t)
  BY <1>1, ThreadFacts DEF Clock
<1>3. Typed'
  BY <1>1, MovesTyped, PlainFacts
<1>4. Cycle' /\ Clock'
  BY <1>1, <1>2, MovesCycle, MovesClock
<1>5. Files' /\ Counter' /\ RowsOfSubscribed'
  BY <1>1, MovesFiles, MovesCounter, MovesRows
<1> QED
  BY <1>1, <1>3, <1>4, <1>5, MovesFrame

(* Two identifiers that agree modulo 2^16 and differ: one needs more bits. *)
LEMMA ModFacts ==
  ASSUME NEW a \in Nat, NEW b \in Nat, a % TwoTo16 = b % TwoTo16, a # b
  PROVE  TwoTo16 <= (IF a > b THEN a ELSE b)
<1>1. TwoTo16 \in Nat /\ TwoTo16 >= 1
  BY ServerAssumption
<1>2. \A x \in Nat : x < TwoTo16 => x % TwoTo16 = x
  BY <1>1
<1> QED
  BY <1>1, <1>2

LEMMA SubStoresKeeps == ASSUME IInv, NEW t, SubStores(t) PROVE IInv'
<1> USE DEF IInv
<1> DEFINE j == node.sub
<1>1. /\ t \in DOMAIN thr /\ Moves(t)
      /\ UNCHANGED <<gate, tx_sequence>>
      /\ thr[t].pc = "store" /\ thr'[t].pc = "head" /\ thr'[t].start = thr[t].start
      /\ ~thr'[t].fp
      /\ rows' = IF thr[t].fp /\ file[j] = "open"
                 THEN [rows EXCEPT ![j] = @ \cup {thr[t].value}] ELSE rows
      /\ misused' = IF thr[t].fp /\ file[j] # "open" THEN misused \cup {j} ELSE misused
      /\ \/ running' = FALSE /\ IF thr[t].fp THEN Close(j) ELSE UNCHANGED <<file, closes>>
         \/ UNCHANGED <<running, file, closes>>
  BY SubStoresStep
<1>2. /\ thr[t].start >= thr[t].born + Grace(t) /\ ~IsPub(thr[t].entry) /\ j = 1
      /\ thr[t].value \in Remote /\ Accepts(thr[t].entry, thr[t].value)
  BY <1>1, ThreadFacts DEF Clock, Cycle
<1>3. /\ UNCHANGED <<main, at, doc, node>> /\ Len(thr') = Len(thr) /\ DOMAIN thr = 1 .. Len(thr)
      /\ \A s \in DOMAIN thr : s # t => thr'[s] = thr[s]
      /\ Busy /\ P' = P /\ SubCount' = SubCount
  BY <1>1, ThreadFacts, DocSame DEF Moves, ThreadFrame
<1>4. /\ P \in Nat /\ SubCount \in Nat /\ Len(Entries) = P + SubCount
      /\ DOMAIN doc.subs = 1 .. SubCount
  BY DocFacts DEF Typed
<1>5. SubCount >= 1 /\ j \in DOMAIN doc.subs
  BY <1>1, <1>2, <1>3, <1>4, ThreadFacts, ServerAssumption DEF Table, IsPub
<1>6. /\ UNCHANGED <<file, closes>>
      \/ /\ thr[t].fp
         /\ file' = [file EXCEPT ![j] = "closed"] /\ closes' = [closes EXCEPT ![j] = @ + 1]
  BY <1>1 DEF Close
<1>7. running' \in BOOLEAN /\ (running' => running)
  <2>1. running \in BOOLEAN
    BY PlainFacts
  <2>2. running' = FALSE \/ running' = running
    BY <1>1, Zenon
  <2>3. CASE running' = FALSE
    BY <2>3, Zenon
  <2>4. CASE running' = running
    BY <2>1, <2>4, Zenon
  <2> QED
    BY <2>2, <2>3, <2>4, Zenon
<1> HIDE DEF j
<1>8. Typed'
  <2>1. file' \in [DOMAIN doc.subs -> {"none", "open", "closed"}]
        /\ closes' \in [DOMAIN doc.subs -> Nat]
    BY <1>6, PlainFacts
  <2>2. rows' \in [DOMAIN doc.subs -> SUBSET Remote]
    BY <1>1, <1>2, PlainFacts
  <2>3. misused' \subseteq DOMAIN doc.subs
    BY <1>1, <1>5, PlainFacts
  <2> QED
    BY <1>1, <1>7, <2>1, <2>2, <2>3, MovesTyped, PlainFacts
<1>9. Cycle' /\ Clock'
  BY <1>1, <1>2, MovesCycle, MovesClock
<1>10. Files'
  <2>1. main \notin {"parse", "exit"}
    BY <1>3 DEF Busy
  <2>2. \A i \in 1 .. SubCount : file'[i] # "none"
    BY <1>4, <1>6, <2>1, PlainFacts DEF Files
  <2>3. ASSUME SubCount <= 1
        PROVE  /\ misused' = {}
               /\ \A i \in 1 .. SubCount : closes'[i] = IF file'[i] = "closed" THEN 1 ELSE 0
               /\ \A s \in 1 .. Len(thr) : ~thr'[s].fp
    <3>1. thr[t].fp => file[j] = "open"
      BY <1>1, <1>3, <2>3 DEF Files, j
    <3>2. misused' = {}
      BY <1>1, <2>3, <3>1 DEF Files
    <3>3. \A i \in 1 .. SubCount : closes[i] = IF file[i] = "closed" THEN 1 ELSE 0
      BY <2>3 DEF Files
    <3>4. ASSUME NEW i \in 1 .. SubCount
          PROVE  closes'[i] = IF file'[i] = "closed" THEN 1 ELSE 0
      <4>1. i = j
        BY <1>2, <1>4, <2>3 DEF j
      <4> QED
        BY <1>4, <1>6, <3>1, <3>3, <4>1, PlainFacts
    <3>5. ASSUME NEW s \in 1 .. Len(thr) PROVE ~thr'[s].fp
      <4>1. CASE s = t
        BY <1>1, <4>1
      <4>2. CASE s # t
        BY <1>1, <1>2, <1>3, <2>3, <4>2, LoneThread DEF Cycle
      <4> QED
        BY <4>1, <4>2
    <3> QED
      BY <3>2, <3>4, <3>5
  <2> QED
    BY <1>3, <2>1, <2>2, <2>3 DEF Files
<1>11. Counter'
  BY <1>1, <1>7, MovesCounter
<1>12. RowsOfSubscribed'
  <2> DEFINE v == thr[t].value
             OfSub(i, id) == \/ id = doc.subs[i].subscribed_pub_id
                             \/ i = 1 /\ SubCount > 1
                             \/ /\ id % TwoTo16 = doc.subs[i].subscribed_pub_id % TwoTo16
                                /\ TwoTo16 <= (IF id > doc.subs[i].subscribed_pub_id THEN id
                                               ELSE doc.subs[i].subscribed_pub_id)
  <2>1. \A i \in DOMAIN rows : \A id \in rows[i] : OfSub(i, id)
    BY DEF RowsOfSubscribed
  <2>2. OfSub(j, v)
    <3>1. CASE SubCount > 1
      BY <1>2, <3>1 DEF j
    <3>2. CASE ~(SubCount > 1)
      <4>1. SubCount = 1 /\ thr[t].entry = P + 1 /\ SubCount <= 1
        BY <1>1, <1>2, <1>4, <3>2, LoneThread
      <4>2. Entries[P + 1] = doc.subs[1] /\ doc.subs[1].subscribed_pub_id \in Nat
        <5>1. 1 \in 1 .. SubCount /\ P + 1 \in 0 .. Len(Entries)
          BY <1>4, <4>1
        <5>2. Verdict(P + 1) = "ok"
          BY <1>3, <5>1 DEF Stage, Busy
        <5> QED
          BY <5>1, <5>2, DocFacts, VerdictFacts DEF Typed
      <4>3. v % TwoTo16 = doc.subs[1].subscribed_pub_id % TwoTo16 /\ v \in Nat
        BY <1>2, <4>1, <4>2, ServerAssumption DEF Accepts
      <4> QED
        BY <1>2, <4>2, <4>3, ModFacts DEF j
    <3> QED
      BY <3>1, <3>2
  <2> HIDE DEF OfSub, v
  <2>3. rows' = rows \/ rows' = [rows EXCEPT ![j] = @ \cup {v}]
    BY <1>1 DEF v
  <2>4. \A i \in DOMAIN rows' : \A id \in rows'[i] : OfSub(i, id)
    BY <2>1, <2>2, <2>3
  <2> QED
    BY <1>3, <2>4 DEF RowsOfSubscribed, OfSub
<1> QED
  BY <1>1, <1>8, <1>9, <1>10, <1>11, <1>12, MovesFrame

(* Every step of a thread keeps the invariant.                             *)
LEMMA ThreadKeeps == ASSUME IInv, NEW t, ThreadStep(t) PROVE IInv'
BY QuietKeeps, PubLoadsKeeps, PubStoresKeeps, PubTestsKeeps, PubReturnsKeeps, SubReceivesKeeps,
   SubStoresKeeps, Zenon DEF ThreadStep

----------------------------------------------------------------------------
(* The steps of main, of the signal handler and of the clock.              *)

LEMMA InitHolds == Init => IInv
<1> SUFFICES ASSUME Init PROVE IInv
  OBVIOUS
<1> USE DEF Init
<1>1. /\ P \in Nat /\ SubCount \in Nat /\ DOMAIN doc.subs = 1 .. SubCount
      /\ Len(Entries) = P + SubCount /\ DOMAIN Entries = 1 .. P + SubCount /\ doc \in Docs
  BY DocFacts
<1>2. Len(thr) = 0 /\ DOMAIN thr = {} /\ thr \in Seq(Thread) /\ conns \in Seq(DOMAIN Entries)
      /\ Len(conns) = 0
  OBVIOUS
<1>3. Typed
  <2>1. /\ file \in [DOMAIN doc.subs -> {"none", "open", "closed"}]
        /\ closes \in [DOMAIN doc.subs -> Nat] /\ rows \in [DOMAIN doc.subs -> SUBSET Remote]
    OBVIOUS
  <2>2. tx_sequence \in -2 .. TxCap /\ now \in Nat
    BY ServerAssumption
  <2>3. node \in [pub : 0 .. P, sub : 0 .. SubCount] /\ node.pub \in 0 .. P
        /\ node.sub \in 0 .. SubCount
    BY <1>1
  <2>4. layers \in Nat /\ ~(layers > TransportLayers) /\ at \in 0 .. Len(Entries) + 1
        /\ connId \in 0 .. Len(conns) /\ Len(thr) <= MAX_OPCUA_THREAD
    BY <1>1, <1>2, ServerAssumption
  <2>5. {queue, gate, running, signalled} \subseteq BOOLEAN
    OBVIOUS
  <2> QED
    BY <1>1, <1>2, <2>1, <2>2, <2>3, <2>4, <2>5 DEF Typed, TypeOK
<1>4. Stage /\ Layers /\ Nodes
  BY <1>1 DEF Stage, Layers, Nodes, Untouched, Busy
<1>5. Table /\ Wiring /\ Cycle /\ Clock /\ WiredAsConfigured
  BY <1>2 DEF Table, Wiring, Cycle, Clock, WiredAsConfigured, Busy
<1>6. Files
  BY <1>1, <1>2 DEF Files
<1>7. Counter /\ QueueLeftOnlyByFailedSetup /\ RowsOfSubscribed
  BY <1>2 DEF Counter, QueueLeftOnlyByFailedSetup, RowsOfSubscribed, Busy
<1> QED
  BY <1>3, <1>4, <1>5, <1>6, <1>7 DEF IInv

(* A step that leaves the table of threads alone keeps what is said about  *)
(* the threads, as long as it only adds connections and refusals and       *)
(* neither the entries nor the clock go back.                              *)
LEMMA Unmoved ==
  ASSUME IInv, UNCHANGED <<doc, thr, rows>>, main # "exit",
         now' \in Nat, now' >= now, node.sub = 1 => node'.sub = 1,
         refused # {} => refused' # {},
         Len(conns') \in Nat, Len(conns') >= Len(conns),
         \A c \in 1 .. Len(conns) : conns'[c] = conns[c],
         main' # "exit" => Grouped' \in Int /\ Grouped' >= Grouped
  PROVE  Table' /\ Cycle' /\ Clock' /\ WiredAsConfigured' /\ RowsOfSubscribed'
<1> USE DEF IInv
<1>1. P' = P /\ SubCount' = SubCount /\ Entries' = Entries
  BY DocSame
<1>2. /\ DOMAIN thr = 1 .. Len(thr)
      /\ \A t \in 1 .. Len(thr) : /\ thr[t].conn \in 1 .. Len(conns) /\ thr[t].entry \in Int
                                  /\ thr[t].entry <= Grouped /\ thr[t].born \in Nat
                                  /\ thr[t].start \in Int
      /\ Len(conns) \in Nat /\ now \in Nat /\ Grouped \in Int
  <2>1. Len(conns) \in Nat /\ now \in Nat /\ at \in Nat
    BY SeqFacts, PlainFacts DEF Typed, TypeOK
  <2> QED
    BY <2>1, ThreadFacts, ServerAssumption DEF Table, Grouped
<1>3. Table'
  <2>1. \A t \in 1 .. Len(thr) : /\ thr[t].conn <= Len(conns')
                                 /\ main' # "exit" => thr[t].entry <= Grouped'
    BY <1>2
  <2> QED
    BY <1>1, <2>1 DEF Table
<1>4. Cycle'
  <2>1. \A k : (IsPub(k)' <=> IsPub(k)) /\ (\A id : Accepts(k, id)' <=> Accepts(k, id))
    BY DocSame
  <2> QED
    BY <2>1 DEF Cycle
<1>5. Clock'
  <2>1. \A t : Grace(t)' = Grace(t)
    BY <1>1 DEF Grace, Delay, Early, IsPub
  <2> QED
    BY <1>2, <2>1 DEF Clock
<1>6. WiredAsConfigured'
  <2>1. \A k : (Shares(k)' <=> Shares(k)) /\ Socket(k)' = Socket(k) /\ (IsPub(k)' <=> IsPub(k))
    BY DocSame
  <2> QED
    BY <1>1, <1>2, <2>1 DEF WiredAsConfigured
<1>7. RowsOfSubscribed'
  BY <1>1 DEF RowsOfSubscribed
<1> QED
  BY <1>3, <1>4, <1>5, <1>6, <1>7

LEMMA StopKeeps == ASSUME IInv, stopHandler PROVE IInv'
<1> USE DEF IInv
<1>1. /\ UNCHANGED <<main, at, doc, status, queue, file, closes, rows, misused>>
      /\ UNCHANGED <<conns, connId, refused, clash, layers, node, gate, thr, tx_sequence, now>>
      /\ main # "exit" /\ signalled' = TRUE /\ running' = FALSE
  BY DEF stopHandler, fileVars, netVars
<1>2. P' = P /\ SubCount' = SubCount /\ Entries' = Entries /\ (TooMany' <=> TooMany)
  BY <1>1, DocSame
<1>3. Busy' = Busy /\ Reached' = Reached /\ Grouped' = Grouped /\ Grouped \in Int
  BY <1>1, PlainFacts DEF Busy, Reached, Grouped
<1>4. now \in Nat /\ Len(conns) \in Nat
  BY SeqFacts DEF Typed, TypeOK
<1>5. Table' /\ Cycle' /\ Clock' /\ WiredAsConfigured' /\ RowsOfSubscribed'
  BY <1>1, <1>3, <1>4, Unmoved
<1>6. Typed'
  BY <1>1, <1>2 DEF Typed, TypeOK, IsPub
<1>7. Stage'
  <2>1. \A k : Verdict(k)' = Verdict(k)
    BY <1>1, DocSame
  <2> QED
    BY <1>1, <1>2, <1>3, <2>1 DEF Stage, Untouched
<1>8. Layers' /\ Nodes' /\ Files' /\ QueueLeftOnlyByFailedSetup'
  BY <1>1, <1>2 DEF Layers, Nodes, Files, QueueLeftOnlyByFailedSetup
<1>9. Wiring'
  <2>1. \A k : Shares(k)' <=> Shares(k)
    BY <1>1, DocSame
  <2> QED
    BY <1>1, <1>3, <2>1 DEF Wiring
<1>10. Counter'
  BY <1>1, <1>2 DEF Counter
<1> QED
  BY <1>5, <1>6, <1>7, <1>8, <1>9, <1>10

LEMMA TickKeeps == ASSUME IInv, Tick PROVE IInv'
<1> USE DEF IInv
<1>1. /\ UNCHANGED <<main, at, doc, status, queue, signalled, file, closes, rows, misused>>
      /\ UNCHANGED <<conns, connId, refused, clash, layers, node, gate, running, thr, tx_sequence>>
      /\ main # "exit" /\ now' = now + 1
  BY DEF Tick, fileVars, netVars, procVars
<1>2. P' = P /\ SubCount' = SubCount /\ Entries' = Entries /\ (TooMany' <=> TooMany)
  BY <1>1, DocSame
<1>3. Busy' = Busy /\ Reached' = Reached /\ Grouped' = Grouped /\ Grouped \in Int
  BY <1>1, PlainFacts DEF Busy, Reached, Grouped
<1>4. now \in Nat /\ Len(conns) \in Nat
  BY SeqFacts DEF Typed, TypeOK
<1>5. Table' /\ Cycle' /\ Clock' /\ WiredAsConfigured' /\ RowsOfSubscribed'
  BY <1>1, <1>3, <1>4, Unmoved
<1>6. Typed'
  BY <1>1, <1>2, <1>4 DEF Typed, TypeOK, IsPub
<1>7. Stage'
  <2>1. \A k : Verdict(k)' = Verdict(k)
    BY <1>1, DocSame
  <2> QED
    BY <1>1, <1>2, <1>3, <2>1 DEF Stage, Untouched
<1>8. Layers' /\ Nodes' /\ Files' /\ QueueLeftOnlyByFailedSetup'
  BY <1>1, <1>2 DEF Layers, Nodes, Files, QueueLeftOnlyByFailedSetup
<1>9. Wiring'
  <2>1. \A k : Shares(k)' <=> Shares(k)
    BY <1>1, DocSame
  <2> QED
    BY <1>1, <1>3, <2>1 DEF Wiring
<1>10. Counter'
  BY <1>1, <1>2, <1>3 DEF Counter
<1> QED
  BY <1>5, <1>6, <1>7, <1>8, <1>9, <1>10

(* A step that changes nothing keeps the invariant.                        *)
LEMMA StutterKeeps == ASSUME IInv, UNCHANGED vars PROVE IInv'
<1> USE DEF IInv
<1>1. /\ UNCHANGED <<main, at, doc, status, queue, signalled, file, closes, rows, misused, now>>
      /\ UNCHANGED <<conns, connId, refused, clash, layers, node, gate, running, thr, tx_sequence>>
  BY DEF vars, fileVars, netVars, procVars
<1>2. /\ P' = P /\ SubCount' = SubCount /\ Entries' = Entries /\ (TooMany' <=> TooMany)
      /\ Busy' = Busy /\ Reached' = Reached /\ Grouped' = Grouped
  BY <1>1, DocSame DEF Busy, Reached, Grouped
<1>3. Typed' /\ Layers' /\ Nodes' /\ Table'
  BY <1>1, <1>2 DEF Typed, TypeOK, IsPub, Layers, Nodes, Table
<1>4. Stage'
  <2>1. \A k : Verdict(k)' = Verdict(k)
    BY <1>1, DocSame
  <2> QED
    BY <1>1, <1>2, <2>1 DEF Stage, Untouched
<1>5. Wiring'
  <2>1. \A k : Shares(k)' <=> Shares(k)
    BY <1>1, DocSame
  <2> QED
    BY <1>1, <1>2, <2>1 DEF Wiring
<1>6. Cycle'
  <2>1. \A k : (IsPub(k)' <=> IsPub(k)) /\ (\A id : Accepts(k, id)' <=> Accepts(k, id))
    BY <1>1, DocSame
  <2> QED
    BY <1>1, <2>1 DEF Cycle
<1>7. Clock'
  <2>1. \A t : Grace(t)' = Grace(t)
    BY <1>1, <1>2 DEF Grace, Delay, Early, IsPub
  <2> QED
    BY <1>1, <2>1 DEF Clock
<1>8. WiredAsConfigured'
  <2>1. \A k : (Shares(k)' <=> Shares(k)) /\ Socket(k)' = Socket(k) /\ (IsPub(k)' <=> IsPub(k))
    BY <1>1, DocSame
  <2> QED
    BY <1>1, <1>2, <2>1 DEF WiredAsConfigured
<1>9. Files' /\ Counter' /\ QueueLeftOnlyByFailedSetup' /\ RowsOfSubscribed'
  BY <1>1, <1>2 DEF Files, Counter, QueueLeftOnlyByFailedSetup, RowsOfSubscribed
<1> QED
  BY <1>3, <1>4, <1>5, <1>6, <1>7, <1>8, <1>9

LEMMA RunKeeps == ASSUME IInv, UA_Server_run PROVE IInv'
<1> USE DEF IInv
<1>1. /\ UNCHANGED <<at, doc, queue, signalled, file, closes, rows, misused, now>>
      /\ UNCHANGED <<conns, connId, refused, clash, layers, node, gate, running, thr, tx_sequence>>
      /\ main = "run" /\ main' = "join" /\ status' \in {"success", "failure"}
  BY DEF UA_Server_run, fileVars, netVars
<1>2. P' = P /\ SubCount' = SubCount /\ Entries' = Entries /\ (TooMany' <=> TooMany)
  BY <1>1, DocSame
<1>3. Busy /\ Busy' /\ Reached' = Reached /\ Grouped' = Grouped /\ Grouped \in Int
  BY <1>1, PlainFacts DEF Busy, Reached, Grouped
<1>4. now \in Nat /\ Len(conns) \in Nat
  BY SeqFacts DEF Typed, TypeOK
<1>5. Table' /\ Cycle' /\ Clock' /\ WiredAsConfigured' /\ RowsOfSubscribed'
  BY <1>1, <1>3, <1>4, Unmoved
<1>6. Typed'
  BY <1>1, <1>2, <1>4 DEF Typed, TypeOK, IsPub
<1>7. Stage'
  <2>1. \A k : Verdict(k)' = Verdict(k)
    BY <1>1, DocSame
  <2> QED
    BY <1>1, <1>2, <1>3, <2>1 DEF Stage
<1>8. Layers' /\ Nodes' /\ Files' /\ QueueLeftOnlyByFailedSetup'
  BY <1>1, <1>2 DEF Layers, Nodes, Files, QueueLeftOnlyByFailedSetup
<1>9. Wiring'
  <2>1. \A k : Shares(k)' <=> Shares(k)
    BY <1>1, DocSame
  <2> QED
    BY <1>1, <1>3, <2>1 DEF Wiring
<1>10. Counter'
  BY <1>1, <1>2, <1>3 DEF Counter
<1> QED
  BY <1>5, <1>6, <1>7, <1>8, <1>9, <1>10

(* free_resources closes what is open, and counts it.                      *)
LEMMA FreeFacts ==
  ASSUME Typed, free_resources
  PROVE  /\ file' \in [DOMAIN doc.subs -> {"none", "open", "closed"}]
         /\ closes' \in [DOMAIN doc.subs -> Nat] /\ UNCHANGED <<rows, misused>>
         /\ \A j \in 1 .. SubCount :
              /\ file'[j] = IF file[j] = "open" THEN "closed" ELSE file[j]
              /\ closes'[j] = IF file[j] = "open" THEN closes[j] + 1 ELSE closes[j]
<1>1. /\ file \in [DOMAIN doc.subs -> {"none", "open", "closed"}]
      /\ closes \in [DOMAIN doc.subs -> Nat] /\ DOMAIN doc.subs = 1 .. SubCount
  BY PlainFacts, DocFacts DEF Typed
<1> QED
  BY <1>1 DEF free_resources

(* A process that ends keeps what is said about the rest.                  *)
LEMMA ExitKeeps ==
  ASSUME IInv, main # "exit", main' = "exit",
         UNCHANGED <<doc, thr, rows, misused, running, signalled>>,
         UNCHANGED <<now, node, conns, connId, refused, clash, tx_sequence>>,
         file' \in [DOMAIN doc.subs -> {"none", "open", "closed"}],
         closes' \in [DOMAIN doc.subs -> Nat], at' \in 0 .. Len(Entries) + 1,
         queue' \in BOOLEAN, gate' \in BOOLEAN, layers' = layers \/ layers' = 0,
         status' \in {"none", "exit", "error", "success", "failure"}
  PROVE  /\ Typed' /\ Stage' /\ Layers' /\ Nodes' /\ Table' /\ Wiring' /\ Cycle' /\ Clock'
         /\ Counter' /\ WiredAsConfigured' /\ RowsOfSubscribed'
<1> USE DEF IInv
<1>1. P' = P /\ SubCount' = SubCount /\ Entries' = Entries
  BY DocSame
<1>2. now \in Nat /\ Len(conns) \in Nat /\ layers \in Nat
  BY SeqFacts DEF Typed, TypeOK
<1>3. Table' /\ Cycle' /\ Clock' /\ WiredAsConfigured' /\ RowsOfSubscribed'
  BY <1>2, Unmoved
<1>4. Typed'
  <2>1. layers' \in Nat /\ (layers' > TransportLayers => P >= 1 /\ SubCount >= 2)
    BY <1>2, ServerAssumption DEF Typed, TypeOK
  <2>2. {queue', gate', running, signalled} \subseteq BOOLEAN
    BY PlainFacts, Zenon
  <2> QED
    BY <1>1, <2>1, <2>2 DEF Typed, TypeOK, IsPub
<1>5. Stage' /\ Nodes' /\ Wiring'
  BY DEF Stage, Nodes, Wiring, Busy
<1>6. Layers'
  BY <1>1, <1>2 DEF Layers
<1>7. Counter'
  BY <1>1 DEF Counter, Busy
<1> QED
  BY <1>3, <1>4, <1>5, <1>6, <1>7

LEMMA TeardownKeeps == ASSUME IInv, Teardown PROVE IInv'
<1> USE DEF IInv
<1>1. /\ UNCHANGED <<at, doc, status, signalled, now>>
      /\ UNCHANGED <<conns, connId, refused, clash, layers, node, gate, running, thr, tx_sequence>>
      /\ main = "join" /\ main' = "exit" /\ queue' = FALSE /\ free_resources
      /\ \A t \in DOMAIN thr : thr[t].pc \in {"done", "failed"}
  BY DEF Teardown, netVars
<1>2. /\ file' \in [DOMAIN doc.subs -> {"none", "open", "closed"}]
      /\ closes' \in [DOMAIN doc.subs -> Nat] /\ UNCHANGED <<rows, misused>>
      /\ \A j \in 1 .. SubCount :
           /\ file'[j] = IF file[j] = "open" THEN "closed" ELSE file[j]
           /\ closes'[j] = IF file[j] = "open" THEN closes[j] + 1 ELSE closes[j]
  BY <1>1, FreeFacts
<1>3. /\ Typed' /\ Stage' /\ Layers' /\ Nodes' /\ Table' /\ Wiring' /\ Cycle' /\ Clock'
      /\ Counter' /\ WiredAsConfigured' /\ RowsOfSubscribed'
  <2>1. /\ at \in 0 .. Len(Entries) + 1 /\ gate \in BOOLEAN
        /\ status \in {"none", "exit", "error", "success", "failure"}
    BY PlainFacts DEF Typed, TypeOK
  <2> QED
    BY <1>1, <1>2, <2>1, ExitKeeps
<1>4. QueueLeftOnlyByFailedSetup'
  BY <1>1 DEF QueueLeftOnlyByFailedSetup
<1>5. Files'
  <2>1. P' = P /\ SubCount' = SubCount
    BY <1>1, DocSame
  <2>2. \A j \in 1 .. SubCount : file[j] \in {"open", "closed"}
    BY <1>1, PlainFacts, DocFacts DEF Files, Typed
  <2>3. \A j \in 1 .. SubCount : file'[j] = "closed"
    BY <1>2, <2>2
  <2>4. \A t \in 1 .. Len(thr) : ~thr[t].fp
    BY <1>1, ThreadFacts DEF Cycle
  <2>5. ASSUME SubCount <= 1
        PROVE  misused' = {} /\ \A j \in 1 .. SubCount : closes'[j] = 1
    <3>1. \A j \in 1 .. SubCount : closes[j] = IF file[j] = "closed" THEN 1 ELSE 0
      BY <2>5 DEF Files
    <3> QED
      BY <1>2, <2>2, <2>5, <3>1 DEF Files
  <2> QED
    BY <1>1, <2>1, <2>3, <2>4, <2>5 DEF Files
<1> QED
  BY <1>3, <1>4, <1>5

LEMMA ParseKeeps == ASSUME IInv, parseJson PROVE IInv'
<1> USE DEF IInv
<1>1. /\ UNCHANGED <<doc, queue, signalled, now>>
      /\ UNCHANGED <<conns, connId, refused, clash, layers, node, gate, running, thr, tx_sequence>>
      /\ main = "parse"
  BY DEF parseJson, netVars
<1>2. /\ P \in Nat /\ SubCount \in Nat /\ DOMAIN doc.subs = 1 .. SubCount
      /\ Len(Entries) = P + SubCount /\ doc \in Docs /\ at \in Nat /\ at <= Len(Entries)
      /\ P' = P /\ SubCount' = SubCount /\ Entries' = Entries
      /\ \A k : Verdict(k)' = Verdict(k)
  BY <1>1, DocFacts, DocSame, PlainFacts DEF Typed, Stage
<1>3. Untouched /\ Untouched' /\ Len(thr) = 0 /\ Len(conns) = 0 /\ status = "none"
  BY <1>1 DEF Stage, Untouched
<1>4. Verdict(at) \in {"ok", "error", "exit"}
  BY <1>2, VerdictFacts
<1>5. \/ /\ Verdict(at) = "ok"
         /\ main' = IF at = Len(Entries) THEN "configure" ELSE "parse"
         /\ at' = at + 1
         /\ file' = IF at > P THEN [file EXCEPT ![at - P] = "open"] ELSE file
         /\ UNCHANGED <<closes, rows, misused, status>>
      \/ main' = "exit" /\ status' = "error" /\ free_resources /\ UNCHANGED at
      \/ main' = "exit" /\ status' = "exit" /\ UNCHANGED <<file, closes, rows, misused, at>>
  <2>1. PICK opened \in BOOLEAN :
          LET sub == at > P
              v == IF Verdict(at) = "ok" /\ sub /\ ~opened THEN "error" ELSE Verdict(at)
          IN  CASE v = "ok" ->
                     /\ main' = IF at = Len(Entries) THEN "configure" ELSE "parse"
                     /\ at' = at + 1
                     /\ file' = IF sub THEN [file EXCEPT ![at - P] = "open"] ELSE file
                     /\ UNCHANGED <<closes, rows, misused, status>>
                [] v = "error" -> main' = "exit" /\ status' = v /\ free_resources /\ UNCHANGED at
                [] v = "exit" -> main' = "exit" /\ status' = v /\ UNCHANGED <<fileVars, at>>
    BY DEF parseJson
  <2> DEFINE v == IF Verdict(at) = "ok" /\ at > P /\ ~opened THEN "error" ELSE Verdict(at)
  <2>2. v \in {"ok", "error", "exit"} /\ (v = "ok" => Verdict(at) = "ok")
    BY <1>4
  <2>3. CASE v = "ok"
    BY <2>1, <2>2, <2>3
  <2>4. CASE v = "error"
    BY <2>1, <2>4
  <2>5. CASE v = "exit"
    BY <2>1, <2>5 DEF fileVars
  <2> QED
    BY <2>2, <2>3, <2>4, <2>5
<1>6. \A j \in 1 .. SubCount : file[j] = IF j < at - P THEN "open" ELSE "none"
  BY <1>1 DEF Files
<1>7. SubCount <= 1 => misused = {} /\ \A j \in 1 .. SubCount : closes[j] = 0
  BY <1>6 DEF Files
<1>8. CASE /\ Verdict(at) = "ok"
           /\ main' = IF at = Len(Entries) THEN "configure" ELSE "parse"
           /\ at' = at + 1
           /\ file' = IF at > P THEN [file EXCEPT ![at - P] = "open"] ELSE file
           /\ UNCHANGED <<closes, rows, misused, status>>
  <2>1. /\ main' = IF at = Len(Entries) THEN "configure" ELSE "parse"
        /\ at' = at + 1 /\ UNCHANGED <<closes, rows, misused, status>>
    BY <1>8
  <2>2. /\ file' \in [DOMAIN doc.subs -> {"none", "open", "closed"}]
        /\ \A j \in 1 .. SubCount : file'[j] = IF j < (at + 1) - P THEN "open" ELSE "none"
    <3>1. CASE at > P
      <4>1. at - P \in 1 .. SubCount
        BY <1>2, <3>1
      <4>2. file' = [file EXCEPT ![at - P] = "open"]
        BY <1>8, <3>1
      <4> QED
        BY <1>2, <1>6, <4>1, <4>2, PlainFacts
    <3>2. CASE ~(at > P)
      <4>1. file' = file
        BY <1>8, <3>2
      <4> QED
        BY <1>2, <1>6, <3>2, <4>1, PlainFacts
    <3> QED
      BY <3>1, <3>2
  <2>3. Typed'
    <3>1. at' \in 0 .. Len(Entries) + 1 /\ main' \in {"parse", "configure"}
      BY <1>2, <2>1
    <3> QED
      BY <1>1, <1>2, <2>1, <2>2, <3>1 DEF Typed, TypeOK, IsPub
  <2>4. Stage'
    <3>1. \A k \in 0 .. at : Verdict(k) = "ok"
      <4>1. \A k \in 0 .. at - 1 : Verdict(k) = "ok"
        BY <1>1 DEF Stage
      <4> QED
        BY <1>2, <1>8, <4>1
    <3>2. CASE at = Len(Entries)
      BY <1>2, <1>3, <2>1, <3>1, <3>2 DEF Stage, Busy
    <3>3. CASE at # Len(Entries)
      BY <1>2, <1>3, <2>1, <3>1, <3>3 DEF Stage, Busy
    <3> QED
      BY <3>2, <3>3
  <2>5. Layers' /\ Nodes' /\ Wiring' /\ Counter' /\ QueueLeftOnlyByFailedSetup'
    <3>1. ~Busy' /\ main' \in {"parse", "configure"}
      BY <2>1 DEF Busy
    <3> QED
      BY <1>3, <3>1 DEF Layers, Nodes, Wiring, Counter, QueueLeftOnlyByFailedSetup, Untouched
  <2>6. Table' /\ Cycle' /\ Clock' /\ WiredAsConfigured' /\ RowsOfSubscribed'
    <3>1. now \in Nat /\ Grouped' = at /\ Grouped = at - 1 /\ Len(conns') = 0
      BY <1>1, <1>2, <1>3, <2>1, PlainFacts DEF Grouped
    <3> QED
      BY <1>1, <1>2, <1>3, <2>1, <3>1, Unmoved
  <2>7. Files'
    <3>1. main' # "parse" => \A j \in 1 .. SubCount : file'[j] # "none"
      BY <1>2, <2>1, <2>2
    <3>2. main' # "exit" /\ Len(thr') = 0 /\ \A j \in 1 .. SubCount : file'[j] # "closed"
      BY <1>1, <1>3, <2>1, <2>2
    <3> QED
      BY <1>2, <1>7, <2>1, <2>2, <3>1, <3>2 DEF Files
  <2> QED
    BY <2>3, <2>4, <2>5, <2>6, <2>7
<1>9. CASE main' = "exit" /\ status' = "error" /\ free_resources /\ UNCHANGED at
  <2>1. /\ file' \in [DOMAIN doc.subs -> {"none", "open", "closed"}]
        /\ closes' \in [DOMAIN doc.subs -> Nat] /\ UNCHANGED <<rows, misused>>
        /\ \A j \in 1 .. SubCount :
             /\ file'[j] = IF file[j] = "open" THEN "closed" ELSE file[j]
             /\ closes'[j] = IF file[j] = "open" THEN closes[j] + 1 ELSE closes[j]
    BY <1>9, FreeFacts
  <2>2. at' \in 0 .. Len(Entries) + 1 /\ queue' \in BOOLEAN /\ gate' \in BOOLEAN
    BY <1>1, <1>2, <1>9, PlainFacts
  <2>3. /\ Typed' /\ Stage' /\ Layers' /\ Nodes' /\ Table' /\ Wiring' /\ Cycle' /\ Clock'
        /\ Counter' /\ WiredAsConfigured' /\ RowsOfSubscribed'
    BY <1>1, <1>9, <2>1, <2>2, ExitKeeps
  <2>4. Files'
    BY <1>1, <1>2, <1>3, <1>6, <1>7, <1>9, <2>1 DEF Files
  <2>5. QueueLeftOnlyByFailedSetup'
    BY <1>3 DEF QueueLeftOnlyByFailedSetup, Untouched
  <2> QED
    BY <2>3, <2>4, <2>5
<1>10. CASE main' = "exit" /\ status' = "exit" /\ UNCHANGED <<file, closes, rows, misused, at>>
  <2>1. /\ file' \in [DOMAIN doc.subs -> {"none", "open", "closed"}]
        /\ closes' \in [DOMAIN doc.subs -> Nat]
        /\ at' \in 0 .. Len(Entries) + 1 /\ queue' \in BOOLEAN /\ gate' \in BOOLEAN
    BY <1>1, <1>2, <1>10, PlainFacts
  <2>2. /\ Typed' /\ Stage' /\ Layers' /\ Nodes' /\ Table' /\ Wiring' /\ Cycle' /\ Clock'
        /\ Counter' /\ WiredAsConfigured' /\ RowsOfSubscribed'
    BY <1>1, <1>10, <2>1, ExitKeeps
  <2>3. Files'
    BY <1>1, <1>2, <1>3, <1>6, <1>7, <1>10 DEF Files
  <2>4. QueueLeftOnlyByFailedSetup'
    BY <1>3 DEF QueueLeftOnlyByFailedSetup, Untouched
  <2> QED
    BY <2>2, <2>3, <2>4
<1> QED
  BY <1>5, <1>8, <1>9, <1>10

LEMMA ConfigureKeeps == ASSUME IInv, configureServer PROVE IInv'
<1> USE DEF IInv
<1>1. /\ UNCHANGED <<doc, signalled, now, file, closes, rows, misused>>
      /\ UNCHANGED <<conns, connId, refused, clash, node, running, thr, tx_sequence>>
      /\ main = "configure" /\ gate' \in BOOLEAN /\ queue' \in BOOLEAN /\ at' = 1
      /\ main' = IF TooMany THEN "exit" ELSE IF Entries = <<>> THEN "run" ELSE "setup"
      /\ status' = IF TooMany THEN "error" ELSE status
      /\ layers' = IF TooMany THEN 0 ELSE 1
  BY DEF configureServer, fileVars
<1>2. /\ P \in Nat /\ SubCount \in Nat /\ DOMAIN doc.subs = 1 .. SubCount
      /\ Len(Entries) = P + SubCount /\ (Entries = <<>> <=> Len(Entries) = 0)
      /\ P' = P /\ SubCount' = SubCount /\ Entries' = Entries /\ (TooMany' <=> TooMany)
      /\ \A k : Verdict(k)' = Verdict(k)
  <2>1. (Entries = <<>>) <=> (Len(Entries) = 0)
    <3>1. Entries \in Seq(PublisherData \cup SubscriberData)
      <4>1. doc.pubs \in Seq(PublisherData) /\ doc.subs \in Seq(SubscriberData)
        BY DocFacts DEF Typed, ServerData
      <4> QED
        BY <4>1, SeqMonotonic, ConcatProperties DEF Entries
    <3> QED
      BY <3>1, SeqFacts
  <2> QED
    BY <1>1, <2>1, DocFacts, DocSame DEF Typed
<1>3. Untouched /\ Len(thr) = 0 /\ Len(conns) = 0 /\ status = "none"
  BY <1>1 DEF Stage, Untouched
<1>4. at' \in 0 .. Len(Entries) + 1
  BY <1>1, <1>2
<1>5. CASE TooMany
  <2>1. main' = "exit" /\ status' = "error" /\ layers' = 0
    BY <1>1, <1>5
  <2>2. /\ Typed' /\ Stage' /\ Layers' /\ Nodes' /\ Table' /\ Wiring' /\ Cycle' /\ Clock'
        /\ Counter' /\ WiredAsConfigured' /\ RowsOfSubscribed'
    <3>1. /\ file \in [DOMAIN doc.subs -> {"none", "open", "closed"}]
          /\ closes \in [DOMAIN doc.subs -> Nat]
      BY PlainFacts
    <3> QED
      BY <1>1, <1>4, <2>1, <3>1, ExitKeeps
  <2>3. Files'
    BY <1>1, <1>2, <1>3, <2>1 DEF Files
  <2>4. QueueLeftOnlyByFailedSetup'
    BY <1>2, <1>5, <2>1 DEF QueueLeftOnlyByFailedSetup
  <2> QED
    BY <2>2, <2>3, <2>4
<1>6. CASE ~TooMany
  <2>1. /\ main' = IF Entries = <<>> THEN "run" ELSE "setup"
        /\ status' = "none" /\ layers' = 1 /\ Len(Entries) <= MAX_OPCUA_THREAD
    <3>1. threadCount = Len(Entries) /\ Len(Entries) \in Nat
      BY CountExact, DocFacts DEF Typed
    <3> QED
      BY <1>1, <1>2, <1>3, <1>6, <3>1, ServerAssumption DEF TooMany
  <2>2. Typed'
    <3>1. layers' \in Nat /\ ~(layers' > TransportLayers) /\ main' \in {"run", "setup"}
      BY <2>1, ServerAssumption
    <3>2. {queue', gate', running, signalled} \subseteq BOOLEAN
      BY <1>1, PlainFacts, Zenon
    <3> QED
      BY <1>1, <1>2, <1>4, <2>1, <3>1, <3>2 DEF Typed, TypeOK, IsPub
  <2>3. Stage'
    <3>1. \A k \in 0 .. Len(Entries) : Verdict(k) = "ok"
      BY <1>1 DEF Stage
    <3> QED
      BY <1>1, <1>2, <2>1, <3>1 DEF Stage, Busy
  <2>4. Layers' /\ Nodes'
    BY <1>1, <1>2, <1>3, <2>1 DEF Layers, Nodes, Untouched
  <2>5. Grouped' = 0 /\ Reached' = 0 /\ main' \in {"run", "setup"}
    BY <1>1, <2>1 DEF Grouped, Reached
  <2>6. Wiring'
    BY <1>1, <1>3, <2>5 DEF Wiring
  <2>7. Table' /\ Cycle' /\ Clock' /\ WiredAsConfigured' /\ RowsOfSubscribed'
    BY <1>1, <1>3, <2>5 DEF Table, Cycle, Clock, WiredAsConfigured, RowsOfSubscribed,
       Untouched, SubCount
  <2>8. Files'
    BY <1>1, <1>2, <1>3, <2>5 DEF Files
  <2>9. Counter'
    <3>1. doc.packet_count \in Nat /\ tx_sequence = -2
      BY <1>1, <1>3, CountFacts DEF Untouched
    <3> QED
      BY <1>1, <1>3, <3>1 DEF Counter
  <2>10. QueueLeftOnlyByFailedSetup'
    BY <2>5 DEF QueueLeftOnlyByFailedSetup
  <2> QED
    BY <2>2, <2>3, <2>4, <2>6, <2>7, <2>8, <2>9, <2>10
<1> QED
  BY <1>5, <1>6

----------------------------------------------------------------------------
(* Connections.  If none has been refused, the new one is in hand.         *)
LEMMA AddFacts ==
  ASSUME Typed, AddConnection(at), at \in DOMAIN Entries, UNCHANGED doc
  PROVE  /\ conns' \in Seq(DOMAIN Entries) /\ connId' \in 0 .. Len(conns')
         /\ Len(conns) \in Nat /\ Len(conns') \in Nat /\ Len(conns') >= Len(conns)
         /\ \A c \in 1 .. Len(conns) : conns'[c] = conns[c]
         /\ refused \subseteq refused' /\ clash' \subseteq refused'
         /\ refused' \subseteq DOMAIN Entries
         /\ refused' = {} => connId' >= 1 /\ conns'[connId'] = at
<1>1. /\ conns \in Seq(DOMAIN Entries) /\ connId \in 0 .. Len(conns)
      /\ clash \subseteq refused /\ refused \subseteq DOMAIN Entries
  BY DEF Typed, TypeOK
<1>2. Len(conns) \in Nat
  BY <1>1, SeqFacts
<1>3. CASE /\ conns' = Append(conns, at) /\ connId' = Len(conns) + 1
           /\ UNCHANGED <<refused, clash>>
  <2>1. /\ Append(conns, at) \in Seq(DOMAIN Entries)
        /\ Len(Append(conns, at)) = Len(conns) + 1
        /\ \A c \in 1 .. Len(conns) : Append(conns, at)[c] = conns[c]
        /\ Append(conns, at)[Len(conns) + 1] = at
    BY <1>1, AppendFacts
  <2> QED
    BY <1>1, <1>2, <1>3, <2>1
<1>4. CASE /\ refused' = refused \cup {at} /\ clash' \subseteq clash \cup {at}
           /\ UNCHANGED <<conns, connId>>
  BY <1>1, <1>2, <1>4
<1> QED
  BY <1>3, <1>4 DEF AddConnection

LEMMA PubConnectionKeeps == ASSUME IInv, addPubSubConnection PROVE IInv'
<1> USE DEF IInv
<1>1. /\ UNCHANGED <<at, doc, status, queue, signalled, file, closes, rows, misused>>
      /\ UNCHANGED <<layers, gate, thr, now>>
      /\ main = "setup" /\ main' = "group" /\ IsPub(at)
      /\ AddConnection(at) /\ addDataSetField
  BY DEF addPubSubConnection, fileVars, procVars
<1>2. /\ P \in Nat /\ SubCount \in Nat /\ Len(Entries) = P + SubCount
      /\ DOMAIN Entries = 1 .. P + SubCount
      /\ P' = P /\ SubCount' = SubCount /\ Entries' = Entries /\ (TooMany' <=> TooMany)
      /\ \A k : Verdict(k)' = Verdict(k)
      /\ \A k : Shares(k)' <=> Shares(k)
  BY <1>1, DocFacts, DocSame DEF Typed
<1>3. at \in Nat /\ at >= 1 /\ at <= P /\ at \in DOMAIN Entries
  BY <1>1, <1>2, PlainFacts DEF Stage, IsPub
<1>4. /\ conns' \in Seq(DOMAIN Entries) /\ connId' \in 0 .. Len(conns')
      /\ Len(conns) \in Nat /\ Len(conns') \in Nat /\ Len(conns') >= Len(conns)
      /\ \A c \in 1 .. Len(conns) : conns'[c] = conns[c]
      /\ refused \subseteq refused' /\ clash' \subseteq refused'
      /\ refused' \subseteq DOMAIN Entries
      /\ refused' = {} => connId' >= 1 /\ conns'[connId'] = at
  BY <1>1, <1>3, AddFacts
<1>5. Busy /\ Busy' /\ Reached' = at /\ Grouped' = Grouped /\ Grouped = at - 1
  BY <1>1 DEF Busy, Reached, Grouped
<1>6. node' \in [pub : 0 .. P, sub : 0 .. SubCount] /\ node'.sub = node.sub
  <2>1. node \in [pub : 0 .. P, sub : 0 .. SubCount]
    BY DEF Typed
  <2> QED
    BY <1>1, <1>2, <1>3, <2>1 DEF addDataSetField
<1>7. PICK last \in Int : /\ last >= -2 /\ last <= tx_sequence + 2
                          /\ tx_sequence' = Capped(last)
  BY <1>1, PlainFacts DEF addDataSetField
<1>8. /\ tx_sequence' \in -2 .. TxCap /\ tx_sequence' \in Int /\ tx_sequence' <= last
  BY <1>7, CappedFacts
<1>9. running' \in BOOLEAN
  BY <1>1 DEF addDataSetField
<1>10. Typed'
  <2>1. {queue, gate, running', signalled} \subseteq BOOLEAN
    BY <1>9, PlainFacts, Zenon
  <2> QED
    BY <1>1, <1>2, <1>4, <1>6, <1>8, <2>1 DEF Typed, TypeOK, IsPub
<1>11. Stage'
  BY <1>1, <1>2, <1>5 DEF Stage
<1>12. Layers' /\ Nodes'
  BY <1>1, <1>2, <1>3, <1>6 DEF Layers, Nodes
<1>13. Table' /\ Cycle' /\ Clock' /\ WiredAsConfigured' /\ RowsOfSubscribed'
  <2>1. now \in Nat /\ Grouped \in Int
    BY <1>3, <1>5, PlainFacts
  <2> QED
    BY <1>1, <1>4, <1>5, <1>6, <2>1, Unmoved
<1>14. Wiring'
  <2>1. ~Shares(at)
    BY <1>1 DEF Shares
  <2> SUFFICES ASSUME refused' = {}
               PROVE  /\ connId' >= 1 /\ conns'[connId'] <= at /\ ~Shares(conns'[connId'])
                      /\ \A i \in conns'[connId'] + 1 .. at : Shares(i)
                      /\ Len(thr) = Grouped /\ \A t \in 1 .. Len(thr) : thr[t].entry = t
    BY <1>1, <1>2, <1>5 DEF Wiring
  <2>2. refused = {}
    BY <1>4
  <2>3. Len(thr) = Grouped /\ \A t \in 1 .. Len(thr) : thr[t].entry = t
    BY <1>5, <2>2 DEF Wiring
  <2> QED
    BY <1>3, <1>4, <2>1, <2>3
<1>15. Files' /\ QueueLeftOnlyByFailedSetup'
  BY <1>1, <1>2, <1>6 DEF Files, QueueLeftOnlyByFailedSetup
<1>16. Counter'
  <2>1. ASSUME P = 1 PROVE Len(thr) = 0 /\ tx_sequence' < doc.packet_count
    <3>1. at = 1 /\ Grouped = 0 /\ tx_sequence = -2
      BY <1>1, <1>3, <1>5, <2>1 DEF Counter
    <3>2. Len(thr) = 0
      <4>1. \A t \in 1 .. Len(thr) : t <= 0
        BY <1>1, <3>1, ThreadFacts, ServerAssumption DEF Table
      <4> QED
        BY <4>1, ThreadFacts
    <3>3. doc.packet_count \in Nat /\ doc.packet_count >= 1
      BY <1>1, CountFacts
    <3> QED
      BY <1>7, <1>8, <3>1, <3>2, <3>3
  <2>2. P # 0 /\ doc.packet_count \in Nat
    BY <1>1, <1>2, <1>3, CountFacts
  <2> QED
    BY <1>1, <1>2, <1>8, <2>1, <2>2 DEF Counter
<1> QED
  BY <1>10, <1>11, <1>12, <1>13, <1>14, <1>15, <1>16

LEMMA SubConnectionKeeps == ASSUME IInv, addSubConnection PROVE IInv'
<1> USE DEF IInv
<1>1. /\ UNCHANGED <<at, doc, status, queue, signalled, file, closes, rows, misused>>
      /\ UNCHANGED <<node, gate, running, thr, tx_sequence, now>>
      /\ main = "setup" /\ main' = "group" /\ ~IsPub(at)
      /\ layers' = IF NewLayer(at) THEN layers + 1 ELSE layers
      /\ IF Shares(at) THEN UNCHANGED <<conns, connId, refused, clash>> ELSE AddConnection(at)
  BY DEF addSubConnection, fileVars, procVars
<1>2. /\ P \in Nat /\ SubCount \in Nat /\ Len(Entries) = P + SubCount
      /\ DOMAIN Entries = 1 .. P + SubCount
      /\ P' = P /\ SubCount' = SubCount /\ Entries' = Entries /\ (TooMany' <=> TooMany)
      /\ \A k : Verdict(k)' = Verdict(k)
      /\ \A k : Shares(k)' <=> Shares(k)
  BY <1>1, DocFacts, DocSame DEF Typed
<1>3. at \in Nat /\ at >= P + 1 /\ at <= P + SubCount /\ at \in DOMAIN Entries /\ SubCount >= 1
  BY <1>1, <1>2, PlainFacts DEF Stage, IsPub
<1>4. Busy /\ Busy' /\ Reached' = at /\ Reached = at - 1 /\ Grouped' = Grouped /\ Grouped = at - 1
  BY <1>1 DEF Busy, Reached, Grouped
<1>5. /\ conns' \in Seq(DOMAIN Entries) /\ connId' \in 0 .. Len(conns')
      /\ Len(conns) \in Nat /\ Len(conns') \in Nat /\ Len(conns') >= Len(conns)
      /\ \A c \in 1 .. Len(conns) : conns'[c] = conns[c]
      /\ refused \subseteq refused' /\ clash' \subseteq refused'
      /\ refused' \subseteq DOMAIN Entries
  <2>1. CASE Shares(at)
    <3>1. /\ conns \in Seq(DOMAIN Entries) /\ connId \in 0 .. Len(conns)
          /\ clash \subseteq refused /\ refused \subseteq DOMAIN Entries
      BY DEF Typed, TypeOK
    <3> QED
      BY <1>1, <2>1, <3>1, SeqFacts
  <2>2. CASE ~Shares(at)
    BY <1>1, <1>3, <2>2, AddFacts
  <2> QED
    BY <2>1, <2>2
<1>6. Layers'
  <2>1. layers \in Nat /\ layers' <= layers + 1 /\ (P = 0 => layers' = layers)
    BY <1>1, PlainFacts DEF NewLayer
  <2> QED
    BY <1>1, <1>2, <1>3, <2>1 DEF Layers
<1>7. Typed'
  <2>1. layers' \in Nat /\ (layers' > TransportLayers => P >= 1 /\ SubCount >= 2)
    <3>1. layers' \in Nat
      BY <1>1, PlainFacts
    <3>2. (P = 0 \/ SubCount = 0 => layers' <= 1) /\ (SubCount = 1 => layers' <= 2)
      BY <1>2, <1>6 DEF Layers
    <3> QED
      BY <1>2, <3>1, <3>2, ServerAssumption
  <2> QED
    BY <1>1, <1>2, <1>5, <2>1 DEF Typed, TypeOK, IsPub
<1>8. Stage'
  BY <1>1, <1>2, <1>4 DEF Stage
<1>9. Nodes' /\ Files' /\ QueueLeftOnlyByFailedSetup'
  BY <1>1, <1>2 DEF Nodes, Files, QueueLeftOnlyByFailedSetup
<1>10. Table' /\ Cycle' /\ Clock' /\ WiredAsConfigured' /\ RowsOfSubscribed'
  <2>1. now \in Nat /\ Grouped \in Int
    BY <1>3, <1>4, PlainFacts
  <2> QED
    BY <1>1, <1>4, <1>5, <2>1, Unmoved
<1>11. Wiring'
  <2> SUFFICES ASSUME refused' = {}
               PROVE  /\ connId' >= 1 /\ conns'[connId'] <= at /\ ~Shares(conns'[connId'])
                      /\ \A i \in conns'[connId'] + 1 .. at : Shares(i)
                      /\ Len(thr) = Grouped /\ \A t \in 1 .. Len(thr) : thr[t].entry = t
    BY <1>1, <1>2, <1>4 DEF Wiring
  <2>1. refused = {}
    BY <1>5
  <2>2. Len(thr) = Grouped /\ \A t \in 1 .. Len(thr) : thr[t].entry = t
    BY <1>4, <2>1 DEF Wiring
  <2>3. CASE Shares(at)
    <3>1. Reached >= 1 /\ UNCHANGED <<conns, connId>>
      BY <1>1, <1>2, <1>3, <1>4, <2>3 DEF Shares
    <3>2. /\ connId >= 1 /\ conns[connId] <= at - 1 /\ ~Shares(conns[connId])
          /\ \A i \in conns[connId] + 1 .. at - 1 : Shares(i)
      BY <1>4, <2>1, <3>1 DEF Wiring
    <3>3. conns[connId] \in Int
      BY <1>2, <1>5, <3>1, <3>2, SeqFacts
    <3> QED
      BY <1>3, <2>2, <2>3, <3>1, <3>2, <3>3
  <2>4. CASE ~Shares(at)
    <3>1. connId' >= 1 /\ conns'[connId'] = at
      BY <1>1, <1>3, <2>4, AddFacts
    <3> QED
      BY <1>3, <2>2, <2>4, <3>1
  <2> QED
    BY <2>3, <2>4
<1>12. Counter'
  BY <1>1, <1>2, <1>4 DEF Counter
<1> QED
  BY <1>6, <1>7, <1>8, <1>9, <1>10, <1>11, <1>12

----------------------------------------------------------------------------
(* Groups and their threads.  There are at most as many earlier threads of *)
(* a kind as entries of it, and as many if no connection was refused.      *)
LEMMA IndexFacts ==
  ASSUME IInv, main = "group"
  PROVE  /\ data_index(at) \in Nat /\ data_index(at) >= 1
         /\ data_index(at) <= IF IsPub(at) THEN P ELSE SubCount
         /\ refused = {} => data_index(at) = IF IsPub(at) THEN at ELSE at - P
<1> USE DEF IInv
<1> DEFINE T == {t \in DOMAIN thr : IsPub(thr[t].entry) = IsPub(at)}
           lo == IF IsPub(at) THEN 1 ELSE P + 1
           f == [t \in T |-> thr[t].entry]
<1>1. /\ P \in Nat /\ SubCount \in Nat /\ at \in Nat /\ at >= 1 /\ at <= P + SubCount
      /\ Grouped = at - 1 /\ Len(thr) \in Nat /\ DOMAIN thr = 1 .. Len(thr)
  BY DocFacts, PlainFacts, ThreadFacts DEF Stage, Grouped, Typed
<1>2. \A t \in 1 .. Len(thr) : thr[t].entry \in 1 .. at - 1
  BY <1>1, ThreadFacts, ServerAssumption DEF Table
<1>3. lo \in Nat /\ at - 1 - lo + 1 = (IF IsPub(at) THEN at - 1 ELSE at - 1 - P) /\ lo <= at
  BY <1>1 DEF IsPub
<1>4. \A t \in T : thr[t].entry \in lo .. at - 1
  BY <1>1, <1>2 DEF IsPub
<1>5. f \in Injection(T, lo .. at - 1)
  <2>1. f \in [T -> lo .. at - 1]
    BY <1>4
  <2>2. ASSUME NEW s \in T, NEW t \in T, f[s] = f[t] PROVE s = t
    <3>1. thr[s].entry = thr[t].entry /\ s \in 1 .. Len(thr) /\ t \in 1 .. Len(thr)
      BY <1>1, <2>2
    <3> QED
      BY <1>1, <1>2, <3>1 DEF Table
  <2> QED
    BY <2>1, <2>2, Fun_IsInj
<1> HIDE DEF T, f, lo
<1>6. IsFiniteSet(lo .. at - 1) /\ Cardinality(lo .. at - 1) = at - lo
  <2> DEFINE hi == at - 1
  <2>1. lo \in Int /\ hi \in Int /\ hi + 1 = at /\ lo <= hi + 1
    BY <1>1, <1>3
  <2> HIDE DEF hi
  <2>2. IsFiniteSet(lo .. hi) /\ Cardinality(lo .. hi) = IF lo > hi THEN 0 ELSE hi - lo + 1
    BY <2>1, FS_Interval
  <2>3. Cardinality(lo .. hi) = at - lo
    BY <2>1, <2>2
  <2> QED
    BY <2>2, <2>3 DEF hi
<1>7. IsFiniteSet(T) /\ Cardinality(T) <= at - lo
  BY <1>5, <1>6, FS_Injection
<1>8. Cardinality(T) \in Nat
  BY <1>7, FS_CardinalityType
<1>9. data_index(at) = Cardinality(T) + 1
  BY DEF data_index, T
<1>10. ASSUME refused = {} PROVE Cardinality(T) = at - lo
  <2>1. Len(thr) = at - 1 /\ \A t \in 1 .. Len(thr) : thr[t].entry = t
    BY <1>1, <1>10 DEF Wiring, Busy
  <2>2. T = lo .. at - 1
    BY <1>1, <2>1 DEF T, lo, IsPub
  <2> QED
    BY <1>6, <2>2
<1> QED
  BY <1>1, <1>3, <1>7, <1>8, <1>9, <1>10 DEF lo, IsPub

(* What the new thread is connected to, if no connection was refused: the  *)
(* connection in hand is its own entry's, or it shares one.                *)
LEMMA NewThreadWired ==
  ASSUME IInv, main = "group", refused = {}
  PROVE  \/ Socket(conns[connId]) = Socket(at)
         \/ Shares(at) /\ \E j \in P + 1 .. at - 1 : ~Shares(j)
<1> USE DEF IInv
<1> DEFINE c == conns[connId]
<1>1. /\ P \in Nat /\ at \in Nat /\ at >= 1
      /\ Reached = at /\ Busy
  BY DocFacts, PlainFacts DEF Stage, Reached, Busy, Typed
<1>2. connId >= 1 /\ c <= at /\ ~Shares(c) /\ \A j \in c + 1 .. at : Shares(j)
  BY <1>1 DEF Wiring
<1>3. c \in Nat /\ c >= 1
  <2>1. conns \in Seq(DOMAIN Entries) /\ connId \in 0 .. Len(conns)
    BY DEF Typed, TypeOK
  <2>2. connId \in 1 .. Len(conns)
    BY <1>2, <2>1, SeqFacts
  <2>3. c \in 1 .. P + SubCount /\ P \in Nat /\ SubCount \in Nat
    BY <2>1, <2>2, DocFacts, SeqFacts DEF Typed
  <2> QED
    BY <2>3
<1> HIDE DEF c
<1>4. CASE c = at
  BY <1>4 DEF c
<1>5. CASE c < at
  <2>1. Shares(at)
    BY <1>1, <1>2, <1>3, <1>5
  <2>2. P > 0 /\ Queue(at) = Queue(P) /\ doc.sameIf /\ ~(at <= P)
    BY <2>1 DEF Shares, IsPub
  <2>3. CASE c > P
    BY <1>1, <1>2, <1>3, <1>5, <2>1, <2>3
  <2>4. CASE c <= P
    <3>1. ~Shares(P)
      BY <1>1 DEF Shares, IsPub
    <3>2. c = P
      BY <1>1, <1>2, <1>3, <2>2, <2>4, <3>1
    <3>3. Socket(P) = Socket(at)
      BY <1>1, <2>2 DEF Socket, Interface, IsPub
    <3> QED
      BY <3>2, <3>3 DEF c
  <2> QED
    BY <1>1, <1>3, <2>3, <2>4
<1> QED
  BY <1>1, <1>2, <1>3, <1>4, <1>5

LEMMA GroupThreadKeeps ==
  ASSUME IInv, main = "group", main' = "attach", connId # 0,
         UNCHANGED <<at, doc, status, queue, signalled, file, closes, rows, misused, now>>,
         UNCHANGED <<conns, connId, refused, clash, layers, node, gate, running, tx_sequence>>,
         NEW pc \in {"new", "failed"},
         thr' = Append(thr, [entry |-> at, index |-> data_index(at), conn |-> connId,
                             born |-> now, start |-> 0, pc |-> pc, ready |-> FALSE,
                             value |-> 0, fp |-> FALSE])
  PROVE  IInv'
<1> USE DEF IInv
<1> DEFINE d == data_index(at)
           r == [entry |-> at, index |-> d, conn |-> connId, born |-> now, start |-> 0,
                 pc |-> pc, ready |-> FALSE, value |-> 0, fp |-> FALSE]
           n == Len(thr) + 1
<1>1. /\ P \in Nat /\ SubCount \in Nat /\ Len(Entries) = P + SubCount
      /\ P' = P /\ SubCount' = SubCount /\ Entries' = Entries /\ (TooMany' <=> TooMany)
      /\ \A k : Verdict(k)' = Verdict(k)
      /\ \A k : (Shares(k)' <=> Shares(k)) /\ Socket(k)' = Socket(k) /\ (IsPub(k)' <=> IsPub(k))
      /\ \A k, id : Accepts(k, id)' <=> Accepts(k, id)
  BY DocFacts, DocSame DEF Typed
<1>2. /\ at \in Nat /\ at >= 1 /\ at <= P + SubCount /\ P + SubCount <= MAX_OPCUA_THREAD
      /\ Busy /\ Busy' /\ Grouped = at - 1 /\ Grouped' = at /\ Reached = at /\ Reached' = at
      /\ now \in Nat /\ Len(conns) \in Nat /\ connId \in 1 .. Len(conns)
  <2>1. Len(conns) \in Nat /\ connId \in 0 .. Len(conns)
    BY SeqFacts DEF Typed, TypeOK
  <2> QED
    BY <1>1, <2>1, PlainFacts DEF Stage, Busy, Grouped, Reached
<1>3. /\ d \in Nat /\ d >= 1 /\ d <= (IF IsPub(at) THEN P ELSE SubCount)
      /\ refused = {} => d = IF IsPub(at) THEN at ELSE at - P
  BY IndexFacts
<1> HIDE DEF d
<1>4. r \in Thread
  BY <1>1, <1>2, <1>3, ServerAssumption DEF Thread
<1>5. /\ r.entry = at /\ r.index = d /\ r.conn = connId /\ r.born = now /\ r.pc = pc
      /\ r.ready = FALSE /\ r.fp = FALSE
  OBVIOUS
<1>6. thr' = Append(thr, r)
  BY DEF d
<1> HIDE DEF r
<1>7. /\ thr' \in Seq(Thread) /\ Len(thr) \in Nat /\ Len(thr') = n
      /\ \A t \in 1 .. Len(thr) : thr'[t] = thr[t]
      /\ thr'[n] = r /\ DOMAIN thr' = 1 .. n
  BY <1>4, <1>6, AppendFacts, SeqFacts DEF Typed, TypeOK
<1>8. \A t \in 1 .. n : t \in 1 .. Len(thr) \/ t = n
  BY <1>7
<1>9. \A t \in 1 .. Len(thr) : /\ t <= thr[t].entry /\ thr[t].entry <= at - 1
                               /\ thr[t].conn <= Len(conns)
                               /\ thr[t].entry \in Nat /\ thr[t].entry >= 1
  <2>1. \A t \in 1 .. Len(thr) : /\ t <= thr[t].entry /\ thr[t].conn <= Len(conns)
                                 /\ thr[t].entry <= Grouped
    BY <1>2 DEF Table, Busy
  <2>2. \A t \in 1 .. Len(thr) : thr[t].entry \in Nat /\ thr[t].entry >= 1
    BY ThreadFacts, ServerAssumption
  <2> QED
    BY <1>2, <2>1, <2>2
<1>10. n \in Nat /\ n <= at
  BY <1>2, <1>7, <1>9
<1>11. DOMAIN thr = 1 .. Len(thr)
  BY ThreadFacts
<1>12. Typed'
  <2>1. \A t \in 1 .. n : thr'[t].index <= IF thr'[t].entry <= P THEN P ELSE SubCount
    <3>1. \A t \in 1 .. Len(thr) : thr[t].index <= IF thr[t].entry <= P THEN P ELSE SubCount
      BY <1>11 DEF Typed, TypeOK, IsPub
    <3> QED
      BY <1>3, <1>5, <1>7, <1>8, <3>1 DEF IsPub
  <2>2. n <= MAX_OPCUA_THREAD
    BY <1>1, <1>2, <1>10, ServerAssumption
  <2> HIDE DEF n
  <2> QED
    BY <1>1, <1>7, <2>1, <2>2 DEF Typed, TypeOK, IsPub
<1>13. Stage'
  BY <1>1, <1>2 DEF Stage
<1>14. Layers' /\ Nodes' /\ QueueLeftOnlyByFailedSetup'
  BY <1>1 DEF Layers, Nodes, QueueLeftOnlyByFailedSetup
<1>15. RowsOfSubscribed'
  BY <1>1 DEF RowsOfSubscribed
<1>16. Table'
  <2>1. \A t \in 1 .. n : /\ t <= thr'[t].entry /\ thr'[t].entry <= P + SubCount
                          /\ thr'[t].conn <= Len(conns) /\ thr'[t].entry <= at
    BY <1>1, <1>2, <1>5, <1>7, <1>8, <1>9, <1>10
  <2>2. ASSUME NEW s \in 1 .. n, NEW t \in 1 .. n, s < t PROVE thr'[s].entry < thr'[t].entry
    <3>1. s \in 1 .. Len(thr)
      BY <1>7, <2>2
    <3>2. CASE t \in 1 .. Len(thr)
      BY <1>7, <2>2, <3>1, <3>2 DEF Table
    <3>3. CASE t = n
      BY <1>2, <1>5, <1>7, <1>9, <3>1, <3>3
    <3> QED
      BY <1>8, <3>2, <3>3
  <2> HIDE DEF n
  <2> QED
    BY <1>1, <1>2, <1>7, <2>1, <2>2 DEF Table
<1>17. Wiring'
  <2> SUFFICES ASSUME refused = {}
               PROVE  /\ n = at /\ \A t \in 1 .. n : thr'[t].entry = t
                      /\ connId >= 1 /\ conns[connId] <= at /\ ~Shares(conns[connId])
                      /\ \A i \in conns[connId] + 1 .. at : Shares(i)
    BY <1>1, <1>2, <1>7 DEF Wiring
  <2>1. /\ Len(thr) = at - 1 /\ \A t \in 1 .. Len(thr) : thr[t].entry = t
        /\ connId >= 1 /\ conns[connId] <= at /\ ~Shares(conns[connId])
        /\ \A i \in conns[connId] + 1 .. at : Shares(i)
    BY <1>2 DEF Wiring
  <2> QED
    BY <1>2, <1>5, <1>7, <1>8, <2>1
<1>18. Cycle'
  <2>1. \A t \in 1 .. n : \/ t \in 1 .. Len(thr) /\ thr'[t] = thr[t]
                          \/ /\ thr'[t].pc \in {"new", "failed"} /\ ~thr'[t].ready
                             /\ ~thr'[t].fp
    BY <1>5, <1>7, <1>8
  <2> HIDE DEF n
  <2> QED
    BY <1>1, <1>7, <2>1 DEF Cycle
<1>19. Clock'
  <2>1. \A t \in 1 .. Len(thr) : Grace(t)' = Grace(t)
    BY <1>1, <1>7 DEF Grace, Delay, Early, IsPub
  <2>2. \A t \in 1 .. n : \/ t \in 1 .. Len(thr) /\ thr'[t] = thr[t] /\ Grace(t)' = Grace(t)
                          \/ /\ thr'[t].pc \in {"new", "failed"} /\ thr'[t].born = now
                             /\ Grace(t)' \in Int
    <3>1. ASSUME NEW t \in 1 .. n, t = n PROVE Grace(t)' \in Int
      <4> SUFFICES Delay(t)' \in Nat /\ Early(t)' \in Nat
        <5>1. Second \in Nat
          BY ServerAssumption
        <5> QED
          BY <5>1 DEF Grace
      <4>1. CASE at <= P
        <5>1. /\ d \in 1 .. P /\ Delay(t)' = doc.pubs[d].publish_delay_sec
              /\ Early(t)' = doc.pubs[d].early_offset_ns
          BY <1>1, <1>3, <1>5, <1>7, <3>1, <4>1 DEF Delay, Early, IsPub
        <5>2. Verdict(d) = "ok"
          BY <1>1, <1>2, <5>1 DEF Stage, Busy
        <5> QED
          BY <5>1, <5>2, VerdictFacts DEF Typed
      <4>2. CASE ~(at <= P)
        BY <1>1, <1>5, <1>7, <3>1, <4>2, ServerAssumption DEF Grace, Delay, Early, IsPub
      <4> QED
        BY <4>1, <4>2
    <3> QED
      BY <1>5, <1>7, <1>8, <2>1, <3>1
  <2> HIDE DEF n
  <2> QED
    BY <1>2, <1>7, <2>2 DEF Clock
<1>20. WiredAsConfigured'
  <2> DEFINE Good(x) == LET k == x.entry
                        IN  \/ /\ Socket(conns[x.conn]) = Socket(k)
                               /\ x.index = IF IsPub(k) THEN k ELSE k - P
                            \/ refused # {}
                            \/ Shares(k) /\ \E j \in P + 1 .. k - 1 : ~Shares(j)
  <2>1. \A t \in 1 .. Len(thr) : Good(thr[t])
    BY <1>11 DEF WiredAsConfigured
  <2>2. Good(r)
    BY <1>3, <1>5, NewThreadWired
  <2> HIDE DEF Good
  <2>3. \A t \in 1 .. n : Good(thr'[t])
    BY <1>7, <1>8, <2>1, <2>2
  <2> HIDE DEF n
  <2> QED
    BY <1>1, <1>7, <2>3 DEF WiredAsConfigured, Good
<1>21. Files'
  <2>1. \A t \in 1 .. n : thr'[t].fp => t \in 1 .. Len(thr) /\ thr[t].fp
    BY <1>5, <1>7, <1>8
  <2> HIDE DEF n
  <2> QED
    BY <1>1, <1>7, <2>1 DEF Files
<1>22. Counter'
  <2>1. \A t \in 1 .. n : thr'[t].pc = "write" => t \in 1 .. Len(thr) /\ thr'[t] = thr[t]
    BY <1>5, <1>7, <1>8
  <2>2. \A t \in 1 .. Len(thr) : t \in 1 .. n /\ thr'[t] = thr[t]
    BY <1>7
  <2> HIDE DEF n
  <2> QED
    BY <1>1, <1>2, <1>7, <2>1, <2>2 DEF Counter
<1> QED
  BY <1>12, <1>13, <1>14, <1>15, <1>16, <1>17, <1>18, <1>19, <1>20, <1>21, <1>22

LEMMA GroupKeeps == ASSUME IInv, AddGroup PROVE IInv'
<1> USE DEF IInv
<1>1. /\ UNCHANGED <<at, doc, queue, signalled, file, closes, rows, misused, now>>
      /\ UNCHANGED <<conns, connId, refused, clash, layers, node, gate, running, tx_sequence>>
      /\ main = "group"
  BY DEF AddGroup, fileVars, netVars
<1>2. \/ connId = 0 /\ main' = "attach" /\ UNCHANGED <<thr, status>>
      \/ /\ connId # 0 /\ main' = "attach" /\ UNCHANGED status
         /\ \E pc \in {"new", "failed"} :
              thr' = Append(thr, [entry |-> at, index |-> data_index(at), conn |-> connId,
                                  born |-> now, start |-> 0, pc |-> pc, ready |-> FALSE,
                                  value |-> 0, fp |-> FALSE])
      \/ connId # 0 /\ main' = "exit" /\ status' = "error" /\ UNCHANGED thr
  BY DEF AddGroup, UA_PubSubManager_addRepeatedCallback, threadCreation
<1>3. /\ P' = P /\ SubCount' = SubCount /\ Entries' = Entries /\ (TooMany' <=> TooMany)
      /\ \A k : Verdict(k)' = Verdict(k)
  BY <1>1, DocSame
<1>4. /\ at \in Nat /\ at >= 1 /\ Grouped = at - 1 /\ Reached = at /\ Busy /\ now \in Nat
      /\ Len(conns) \in Nat
  BY <1>1, PlainFacts, SeqFacts DEF Stage, Grouped, Reached, Busy, Typed, TypeOK
<1>5. CASE connId = 0 /\ main' = "attach" /\ UNCHANGED <<thr, status>>
  <2>1. Busy' /\ Grouped' = at
    BY <1>1, <1>5 DEF Busy, Grouped
  <2>2. Table' /\ Cycle' /\ Clock' /\ WiredAsConfigured' /\ RowsOfSubscribed'
    BY <1>1, <1>4, <1>5, <2>1, Unmoved
  <2>3. Typed'
    BY <1>1, <1>3, <1>5 DEF Typed, TypeOK, IsPub
  <2>4. Stage' /\ Layers' /\ Nodes' /\ Files' /\ QueueLeftOnlyByFailedSetup'
    BY <1>1, <1>3, <1>5, <1>4 DEF Stage, Layers, Nodes, Files, QueueLeftOnlyByFailedSetup, Busy
  <2>5. refused # {}
    BY <1>4, <1>5 DEF Wiring
  <2>6. Wiring'
    BY <1>1, <2>5 DEF Wiring
  <2>7. Counter'
    BY <1>1, <1>3, <1>4, <1>5 DEF Counter
  <2> QED
    BY <2>2, <2>3, <2>4, <2>6, <2>7
<1>6. CASE /\ connId # 0 /\ main' = "attach" /\ UNCHANGED status
           /\ \E pc \in {"new", "failed"} :
                thr' = Append(thr, [entry |-> at, index |-> data_index(at), conn |-> connId,
                                    born |-> now, start |-> 0, pc |-> pc, ready |-> FALSE,
                                    value |-> 0, fp |-> FALSE])
  BY <1>1, <1>6, GroupThreadKeeps
<1>7. CASE connId # 0 /\ main' = "exit" /\ status' = "error" /\ UNCHANGED thr
  <2>1. /\ file \in [DOMAIN doc.subs -> {"none", "open", "closed"}]
        /\ closes \in [DOMAIN doc.subs -> Nat] /\ at \in 0 .. Len(Entries) + 1
        /\ queue \in BOOLEAN /\ gate \in BOOLEAN
    BY PlainFacts DEF Typed, TypeOK
  <2>2. /\ Typed' /\ Stage' /\ Layers' /\ Nodes' /\ Table' /\ Wiring' /\ Cycle' /\ Clock'
        /\ Counter' /\ WiredAsConfigured' /\ RowsOfSubscribed'
    BY <1>1, <1>7, <2>1, ExitKeeps
  <2>3. Files' /\ QueueLeftOnlyByFailedSetup'
    BY <1>1, <1>3, <1>7 DEF Files, QueueLeftOnlyByFailedSetup
  <2> QED
    BY <2>2, <2>3
<1> QED
  BY <1>2, <1>5, <1>6, <1>7

(* The end of an entry's turn: its thread, if any, is told that the group  *)
(* is complete.                                                            *)
LEMMA EntryDoneKeeps ==
  ASSUME IInv, main = "attach", EntryDone,
         node' \in [pub : 0 .. P, sub : 0 .. SubCount],
         IsPub(at) => node' = node,
         ~IsPub(at) => node'.sub = 1
  PROVE  IInv'
<1> USE DEF IInv
<1>1. /\ UNCHANGED <<doc, status, queue, signalled, file, closes, rows, misused, now>>
      /\ UNCHANGED <<conns, connId, refused, clash, layers, gate, running, tx_sequence>>
      /\ main' = IF at = Len(Entries) THEN "run" ELSE "setup"
      /\ at' = at + 1
  BY DEF EntryDone, fileVars, procVars
<1>2. /\ P \in Nat /\ SubCount \in Nat /\ Len(Entries) = P + SubCount
      /\ P' = P /\ SubCount' = SubCount /\ Entries' = Entries /\ (TooMany' <=> TooMany)
      /\ \A k : Verdict(k)' = Verdict(k)
      /\ \A k : (Shares(k)' <=> Shares(k)) /\ Socket(k)' = Socket(k) /\ (IsPub(k)' <=> IsPub(k))
      /\ \A k, id : Accepts(k, id)' <=> Accepts(k, id)
  BY <1>1, DocFacts, DocSame DEF Typed
<1>3. /\ at \in Nat /\ at >= 1 /\ at <= P + SubCount /\ status = "none"
      /\ Busy /\ Busy' /\ Grouped = at /\ Grouped' = at /\ Reached = at /\ Reached' = at
  BY <1>1, <1>2, PlainFacts DEF Stage, Busy, Grouped, Reached
<1>4. /\ thr' \in Seq(Thread) /\ Len(thr') = Len(thr) /\ Len(thr) \in Nat
      /\ DOMAIN thr = 1 .. Len(thr) /\ DOMAIN thr' = DOMAIN thr
      /\ \A t \in 1 .. Len(thr) :
           /\ thr'[t].entry = thr[t].entry /\ thr'[t].index = thr[t].index
           /\ thr'[t].conn = thr[t].conn /\ thr'[t].born = thr[t].born
           /\ thr'[t].start = thr[t].start /\ thr'[t].value = thr[t].value
           /\ thr'[t].pc = thr[t].pc /\ thr'[t].fp = thr[t].fp
           /\ thr[t].ready => thr'[t].ready
           /\ thr'[t].ready => thr[t].ready \/ thr[t].entry = at
  <2> DEFINE R(t) == IF thr[t].entry = at THEN [thr[t] EXCEPT !.ready = TRUE] ELSE thr[t]
  <2>1. Len(thr) \in Nat /\ DOMAIN thr = 1 .. Len(thr) /\ \A t \in 1 .. Len(thr) : thr[t] \in Thread
    BY ThreadFacts
  <2>2. \A t \in 1 .. Len(thr) :
           /\ R(t) \in Thread
           /\ R(t).entry = thr[t].entry /\ R(t).index = thr[t].index
           /\ R(t).conn = thr[t].conn /\ R(t).born = thr[t].born
           /\ R(t).start = thr[t].start /\ R(t).value = thr[t].value
           /\ R(t).pc = thr[t].pc /\ R(t).fp = thr[t].fp
           /\ thr[t].ready => R(t).ready
           /\ R(t).ready => thr[t].ready \/ thr[t].entry = at
    BY <2>1 DEF Thread
  <2>3. thr' = [t \in 1 .. Len(thr) |-> R(t)]
    BY <2>1 DEF EntryDone
  <2> HIDE DEF R
  <2>4. thr' \in Seq(Thread) /\ Len(thr') = Len(thr)
    BY <2>1, <2>2, <2>3
  <2> QED
    BY <2>1, <2>2, <2>3, <2>4
<1>5. node'.sub <= 1 /\ (node.sub = 1 => node'.sub = 1) /\ (at <= P => node.sub = 0 /\ node'.sub = 0)
  BY <1>2, <1>3 DEF Nodes, IsPub
<1>6. Typed'
  <2>1. \A t \in 1 .. Len(thr) : thr'[t].index <= IF thr'[t].entry <= P THEN P ELSE SubCount
    BY <1>4 DEF Typed, TypeOK, IsPub
  <2>2. at' \in 0 .. Len(Entries) + 1 /\ main' \in {"run", "setup"}
    BY <1>1, <1>2, <1>3
  <2>3. node'.pub \in 0 .. P /\ node'.sub \in 0 .. SubCount
    OBVIOUS
  <2> QED
    BY <1>1, <1>2, <1>4, <2>1, <2>2, <2>3 DEF Typed, TypeOK, IsPub
<1>7. Stage'
  BY <1>1, <1>2, <1>3 DEF Stage, Busy
<1>8. Layers'
  BY <1>1, <1>2, <1>3 DEF Layers
<1>9. Nodes'
  <2>1. node'.sub \in Nat
    BY <1>2
  <2>2. at > P => node'.sub = 1
    BY <1>2, <1>3 DEF IsPub
  <2> QED
    BY <1>1, <1>2, <1>3, <1>5, <2>1, <2>2 DEF Nodes
<1>10. Table'
  BY <1>1, <1>2, <1>3, <1>4 DEF Table
<1>11. Wiring'
  BY <1>1, <1>2, <1>3, <1>4 DEF Wiring
<1>12. Cycle'
  <2>1. \A t \in 1 .. Len(thr) : thr'[t].ready /\ ~IsPub(thr'[t].entry) => node'.sub = 1
    BY <1>4, <1>5 DEF Cycle
  <2> QED
    BY <1>2, <1>4, <2>1 DEF Cycle
<1>13. Clock'
  <2>1. \A t \in 1 .. Len(thr) : Grace(t)' = Grace(t)
    BY <1>1, <1>2, <1>4 DEF Grace, Delay, Early, IsPub
  <2> QED
    BY <1>1, <1>4, <2>1 DEF Clock
<1>14. WiredAsConfigured'
  BY <1>1, <1>2, <1>4 DEF WiredAsConfigured
<1>15. Files'
  <2>1. \A t \in 1 .. Len(thr) : thr[t].fp => node.sub = 1 /\ node'.sub = 1
    BY <1>4, <1>5 DEF Cycle
  <2>2. SubCount <= 1 => \A t \in 1 .. Len(thr) : thr'[t].fp => file[node'.sub] = "open"
    BY <1>4, <2>1 DEF Files
  <2>3. main' \notin {"parse", "exit"}
    BY <1>1
  <2> QED
    BY <1>1, <1>2, <1>4, <2>2, <2>3 DEF Files
<1>16. Counter'
  BY <1>1, <1>2, <1>3, <1>4 DEF Counter
<1>17. QueueLeftOnlyByFailedSetup' /\ RowsOfSubscribed'
  BY <1>1, <1>2 DEF QueueLeftOnlyByFailedSetup, RowsOfSubscribed
<1> QED
  BY <1>6, <1>7, <1>8, <1>9, <1>10, <1>11, <1>12, <1>13, <1>14, <1>15, <1>16, <1>17

LEMMA WriterKeeps == ASSUME IInv, addDataSetWriter PROVE IInv'
<1>1. node \in [pub : 0 .. P, sub : 0 .. SubCount]
  BY DEF IInv, Typed
<1> QED
  BY <1>1, EntryDoneKeeps DEF addDataSetWriter

LEMMA ReaderKeeps == ASSUME IInv, addSubscribedVariables PROVE IInv'
<1> USE DEF IInv
<1>1. /\ main = "attach" /\ ~IsPub(at) /\ EntryDone
      /\ node' = IF node.sub = 0 THEN [node EXCEPT !.sub = at - P] ELSE node
  BY DEF addSubscribedVariables
<1>2. /\ node \in [pub : 0 .. P, sub : 0 .. SubCount] /\ P \in Nat /\ SubCount \in Nat
      /\ at \in Nat /\ at <= P + SubCount /\ ~(at <= P)
  BY <1>1, DocFacts, PlainFacts DEF Typed, Stage, IsPub
<1>3. CASE node.sub = 0
  <2>1. at = P + 1
    BY <1>1, <1>2, <1>3 DEF Nodes
  <2>2. node' \in [pub : 0 .. P, sub : 0 .. SubCount] /\ node'.sub = 1
    BY <1>1, <1>2, <1>3, <2>1
  <2> QED
    BY <1>1, <2>2, EntryDoneKeeps
<1>4. CASE node.sub # 0
  <2>1. node' = node /\ node.sub = 1
    BY <1>1, <1>2, <1>4 DEF Nodes
  <2> QED
    BY <1>1, <1>2, <2>1, EntryDoneKeeps
<1> QED
  BY <1>3, <1>4

----------------------------------------------------------------------------
(* IInv is an inductive invariant: it holds when the program starts and    *)
(* every step of main, of the handler, of the clock and of any thread      *)
(* keeps it.                                                               *)
THEOREM Inductive == Spec => []IInv
<1>1. Init => IInv
  BY InitHolds
<1>2. IInv /\ [Next]_vars => IInv'
  <2> SUFFICES ASSUME IInv, [Next]_vars PROVE IInv'
    OBVIOUS
  <2>1. CASE Main
    BY <2>1, ParseKeeps, ConfigureKeeps, PubConnectionKeeps, SubConnectionKeeps, GroupKeeps,
       WriterKeeps, ReaderKeeps, RunKeeps, TeardownKeeps, Zenon DEF Main
  <2>2. CASE stopHandler
    BY <2>2, StopKeeps
  <2>3. CASE Tick
    BY <2>3, TickKeeps
  <2>4. CASE \E t \in DOMAIN thr : ThreadStep(t)
    <3>1. PICK t \in DOMAIN thr : ThreadStep(t)
      BY <2>4
    <3> QED
      BY <3>1, ThreadKeeps
  <2>5. CASE UNCHANGED vars
    BY <2>5, StutterKeeps
  <2> QED
    BY <2>1, <2>2, <2>3, <2>4, <2>5, Zenon DEF Next
<1> QED
  BY <1>1, <1>2, PTL DEF Spec

(* Every variable keeps to its values.  In particular, for a file with     *)
(* fewer than 2^16 entries the threads fit into g_thread and their indices *)
(* into the file's publishers and subscribers, because main rejects a file *)
(* with too many entries: its UA_UInt16 is then their number.  And         *)
(* pubsubTransportLayersSize exceeds the allocated two only with a         *)
(* publisher and two or more subscribers.                                  *)
THEOREM TypeCorrect == Spec => []TypeOK
<1>1. IInv => TypeOK
  BY DEF IInv, Typed
<1> QED
  BY <1>1, Inductive, PTL

(* A thread works with its own entry and on the interface and queue that   *)
(* the entry names, unless a connection was refused or a subscriber was to *)
(* share the publisher's socket after another had opened its own:          *)
(* setupOpcuaServer hands the connection last added to the next group.     *)
THEOREM Wired == Spec => []WiredAsConfigured
<1>1. IInv => WiredAsConfigured
  BY DEF IInv
<1> QED
  BY <1>1, Inductive, PTL

(* A thread that calls into an incomplete group was created at least its   *)
(* own delay ago, less its early offset and less than a second: threads    *)
(* round their start up to the next full period and add publish_delay_sec, *)
(* or three seconds, but they start from a clock cut to whole seconds, and *)
(* a publisher wakes up earlyOffsetNs before its time.                     *)
THEOREM Complete == Spec => []CompleteWhenStarted
<1>1. IInv => CompleteWhenStarted
  <2> SUFFICES ASSUME IInv, NEW t \in DOMAIN thr, thr[t].pc = "call"
               PROVE  now - thr[t].born >= Grace(t)
    BY DEF CompleteWhenStarted
  <2> USE DEF IInv
  <2>1. t \in 1 .. Len(thr) /\ thr[t].born \in Nat /\ thr[t].start \in Int /\ now \in Nat
    BY ThreadFacts, PlainFacts
  <2>2. thr[t].start >= thr[t].born + Grace(t) /\ now >= thr[t].start /\ Grace(t) \in Int
    BY <2>1 DEF Clock
  <2> QED
    BY <2>1, <2>2
<1> QED
  BY <1>1, Inductive, PTL

(* The message queue survives the process only if it ended between         *)
(* configureServer and the running server.                                 *)
THEOREM QueueLeft == Spec => []QueueLeftOnlyByFailedSetup
<1>1. IInv => QueueLeftOnlyByFailedSetup
  BY DEF IInv
<1> QED
  BY <1>1, Inductive, PTL

(* With at most one subscriber, no output file is used after the last      *)
(* packet closed it, and it is closed exactly once by the orderly end:     *)
(* subStoreDataReceived resets fpSubscriberOutput for free_resources.      *)
THEOREM ClosedOnce == Spec => []FilesClosedOnce
<1>1. IInv => FilesClosedOnce
  <2> SUFFICES ASSUME IInv, SubCount <= 1
               PROVE  /\ misused = {}
                      /\ \A j \in DOMAIN closes :
                           /\ closes[j] <= 1
                           /\ main = "exit" /\ status \in {"success", "failure"} => closes[j] = 1
    BY DEF FilesClosedOnce
  <2> USE DEF IInv
  <2>1. DOMAIN closes = 1 .. SubCount
    BY PlainFacts, DocFacts DEF Typed
  <2> QED
    BY <2>1 DEF Files
<1> QED
  BY <1>1, Inductive, PTL

(* A row of an output file comes from the publisher that its subscriber    *)
(* names, unless two subscribers share the first one's node and file or    *)
(* the identifiers do not fit the 16 bits in which they are compared.      *)
THEOREM Rows == Spec => []RowsOfSubscribed
<1>1. IInv => RowsOfSubscribed
  BY DEF IInv
<1> QED
  BY <1>1, Inductive, PTL

(* A single publisher never passes packet_count: pubGetDataToTransmit      *)
(* tests for equality after each increment, and only a second publisher's  *)
(* increment in between can make it miss.                                  *)
THEOREM StopSkipped == Spec => []StopSkippedOnlyByTwo
<1>1. IInv => StopSkippedOnlyByTwo
  <2> SUFFICES ASSUME IInv, main \notin {"parse", "exit"}, running,
                      tx_sequence > doc.packet_count, ~(P >= 2)
               PROVE  FALSE
    BY DEF StopSkippedOnlyByTwo
  <2> USE DEF IInv
  <2>1. doc.packet_count \in Nat /\ tx_sequence \in Int /\ P \in Nat
    BY CountFacts, PlainFacts, DocFacts DEF Typed
  <2>2. tx_sequence # -2
    BY <2>1
  <2>3. main # "configure"
    BY <2>2 DEF Stage, Untouched
  <2>4. P = 1 /\ Busy
    BY <2>1, <2>2, <2>3 DEF Counter, Busy
  <2>5. tx_sequence <= doc.packet_count
    BY <2>4 DEF Counter
  <2> QED
    BY <2>1, <2>5
<1> QED
  BY <1>1, Inductive, PTL
=============================================================================
