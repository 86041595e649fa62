-------------------------------- MODULE Tsq --------------------------------
(***************************************************************************)
(* tsq: the time-sync-quality listener and its talkers (src/tsq.c).        *)
(*                                                                         *)
(* Each talker connects, sends its id, waits for "start" and then sends    *)
(* one sample per PPS event.  The listener accepts CLIENT_COUNT = 2        *)
(* connections and pairs the samples of the same second.                   *)
(*                                                                         *)
(* Writers send records of BUFFER_SIZE = 256 bytes, readers read at most   *)
(* 255: a read of a whole record leaves its last byte, a zero, in the      *)
(* stream, and a read that begins with left-over bytes and runs into the   *)
(* next record sees that record shifted and takes all but left + 1 bytes   *)
(* of it, until the left-over bytes fill a read and the next one begins at *)
(* a record again.  A stream is therefore the number of left-over bytes    *)
(* and the whole records behind them.  Shifted or zero bytes never contain *)
(* a talker's id where validate_payload looks for it (ids are 999..9999),  *)
(* so such a read stores nothing.                                          *)
(***************************************************************************)
EXTENDS Integers, Sequences

CONSTANTS
  Talkers,        \* the talker processes
  NoTalker,       \* an unused connection slot
  BUFFER_SIZE,    \* bytes of a record; a read takes one less
  FirstSec,       \* second of the first PPS event
  LastSec         \* bound: second of the last PPS event

ASSUME TalkerAssumption == NoTalker \notin Talkers
ASSUME BufferAssumption == BUFFER_SIZE \in Nat /\ BUFFER_SIZE >= 2
ASSUME SecAssumption == FirstSec \in Nat \ {0} /\ LastSec \in Nat

VARIABLES
  tpc,        \* what each talker is doing
  second,     \* next PPS second of each talker
  stream,     \* bytes on the way from each talker
  lpc,        \* where the listener is
  conns,      \* cli_conns: the talker behind each slot
  known,      \* slots whose id has been read: those before index i
  readfds,    \* slots the scan still has to look at
  valid,      \* pl_valid_flag
  cli_data,   \* second of the sample in each slot, 0 when cleared
  skip_slot, keep_data_slot, keep_data,
  halt_sig,
  rows,       \* second of each row in the output file
  reported    \* history: seconds of the samples stored from each slot

talkerVars == <<tpc, second>>
matchVars == <<valid, cli_data, skip_slot, keep_data_slot, keep_data, rows>>
vars == <<talkerVars, stream, lpc, conns, known, readfds, matchVars, halt_sig, reported>>

Slot == {0, 1}

(* A stream with its left-over bytes and the records behind them: a record *)
(* is the second it carries, or 0 for the talker's id.                     *)
Stream(left, recs) == [left |-> left, recs |-> recs]
Pending(t) == t # NoTalker /\ stream[t] # Stream(0, <<>>)
Closed(t) == t # NoTalker /\ tpc[t] = "exited"
Readable(i) == Pending(conns[i]) \/ Closed(conns[i])

Init ==
  /\ tpc = [t \in Talkers |-> "init"]
  /\ second = [t \in Talkers |-> FirstSec]
  /\ stream = [t \in Talkers |-> Stream(0, <<>>)]
  /\ lpc = "clients"
  /\ conns = [i \in Slot |-> NoTalker] /\ known = [i \in Slot |-> FALSE]
  /\ readfds = {}
  /\ valid = [i \in Slot |-> FALSE] /\ cli_data = [i \in Slot |-> 0]
  /\ skip_slot = FALSE /\ keep_data_slot = 0 /\ keep_data = 0
  /\ halt_sig = FALSE
  /\ rows = <<>> /\ reported = [i \in Slot |-> {}]

----------------------------------------------------------------------------
(* The talkers.                                                            *)

(* The listener has returned from listener(), or exited through error().   *)
Terminated == lpc \in {"exited", "failed"}
listenerVars == <<lpc, conns, known, readfds, matchVars, halt_sig, reported>>

(* connect and send the id.                                                *)
TalkerConnect(t) ==
  /\ tpc[t] = "init"
  /\ ~Terminated
  /\ tpc' = [tpc EXCEPT ![t] = "wait"]
  /\ stream' = [stream EXCEPT ![t] = Stream(0, <<0>>)]
  /\ UNCHANGED <<second, listenerVars>>

(* A PPS event is read and sent; or it is not sent because its nanoseconds *)
(* are zero or the poll timed out.                                         *)
TalkerSample(t) ==
  /\ tpc[t] = "started" /\ second[t] <= LastSec
  /\ ~Terminated
  /\ second' = [second EXCEPT ![t] = @ + 1]
  /\ \/ stream' = [stream EXCEPT ![t].recs = Append(@, second[t])]
     \/ UNCHANGED stream
  /\ UNCHANGED <<tpc, listenerVars>>

(* The talker exits: a signal, a failed system call, the listener gone.    *)
TalkerExit(t) ==
  /\ tpc[t] \in {"wait", "started"}
  /\ tpc' = [tpc EXCEPT ![t] = "exited"]
  /\ UNCHANGED <<second, stream, listenerVars>>

----------------------------------------------------------------------------
(* The listener.                                                           *)

(* Index i of the accept loop.                                             *)
FreeSlot == IF known[0] THEN 1 ELSE 0
Full == \A i \in Slot : known[i]

\* Faulty: the -1 of a failed parse is taken for a sample.
Sample_Unchecked(s) == IF s.left = 0 /\ s.recs # <<>> THEN Head(s.recs) ELSE -1

(* What read() returns and leaves: a sample when it begins at a record,    *)
(* otherwise nothing that validates.                                       *)
Sample(s) == IF s.left = 0 /\ s.recs # <<>> THEN Head(s.recs) ELSE 0
AfterRead(s) == IF s.recs = <<>> \/ s.left = BUFFER_SIZE - 1 THEN Stream(0, s.recs)
                ELSE Stream(s.left + 1, Tail(s.recs))

(* while (i < CLIENT_COUNT && get_signal() == 0)                           *)
AcceptHead ==
  /\ lpc = "clients"
  /\ lpc' = IF Full \/ halt_sig THEN "start" ELSE "accept"
  /\ UNCHANGED <<talkerVars, stream, conns, known, readfds, matchVars, halt_sig, reported>>

(* accept() blocks until a talker connects; it restarts when a signal      *)
(* interrupts it.                                                          *)
Accept(t) ==
  /\ lpc = "accept"
  /\ tpc[t] # "init" /\ \A i \in Slot : conns[i] # t
  /\ conns' = [conns EXCEPT ![FreeSlot] = t]
  /\ lpc' = "uid"
  /\ UNCHANGED <<talkerVars, stream, known, readfds, matchVars, halt_sig, reported>>

(* accept() fails: wait for the next connection.                           *)
AcceptFails ==
  /\ lpc = "accept"
  /\ lpc' = "clients"
  /\ UNCHANGED <<talkerVars, stream, conns, known, readfds, matchVars, halt_sig, reported>>

(* Read the id of the connection just accepted.                            *)
ReadUid(i) ==
  /\ lpc = "uid"
  /\ conns[i] # NoTalker /\ ~known[i] /\ Readable(i)
  /\ stream' = [stream EXCEPT ![conns[i]] = AfterRead(@)]
  /\ known' = [known EXCEPT ![i] = TRUE]
  /\ lpc' = "clients"
  /\ UNCHANGED <<talkerVars, conns, readfds, matchVars, halt_sig, reported>>

(* The accept loop ends; "start" goes to both connections.                 *)
SendStart ==
  /\ lpc = "start"
  /\ tpc' = [t \in Talkers |-> IF tpc[t] = "wait" /\ \E i \in Slot : conns[i] = t
                               THEN "started" ELSE tpc[t]]
  /\ lpc' = "head"
  /\ UNCHANGED <<second, stream, conns, known, readfds, matchVars, halt_sig, reported>>

(* while (get_signal() == 0): leave with everything closed, or select.     *)
LoopHead ==
  /\ lpc = "head"
  /\ lpc' = IF halt_sig THEN "exited" ELSE "select"
  /\ UNCHANGED <<talkerVars, stream, conns, known, readfds, matchVars, halt_sig, reported>>

\* Faulty: the last connection is left out of the set.
Select_MissesLast ==
  /\ lpc = "select"
  /\ readfds' = {i \in {0} : Readable(i)}
  /\ readfds' # {}
  /\ lpc' = "scan"
  /\ UNCHANGED <<talkerVars, stream, conns, known, matchVars, halt_sig, reported>>

(* select returns when a connection has bytes or an end of file.           *)
Select ==
  /\ lpc = "select"
  /\ readfds' = {i \in Slot : Readable(i)}
  /\ readfds' # {}
  /\ lpc' = "scan"
  /\ UNCHANGED <<talkerVars, stream, conns, known, matchVars, halt_sig, reported>>

(* The slot the for loop looks at next.                                    *)
Scanned(i) == i \in readfds /\ \A j \in readfds : i <= j

(* Inside the scan a pending signal ends tsq through error().              *)
ScanHalted ==
  /\ lpc = "scan" /\ readfds # {} /\ halt_sig
  /\ lpc' = "failed"
  /\ UNCHANGED <<talkerVars, stream, conns, known, readfds, matchVars, halt_sig, reported>>

(* read() and the storing of the sample.  For the slot that is kept, any   *)
(* read, even an empty one, puts the kept sample back.                     *)
ReadSlot(i) ==
  /\ lpc = "scan" /\ Scanned(i) /\ ~halt_sig
  /\ LET t == conns[i]
         got == Sample(stream[t])
     IN  /\ stream' = [stream EXCEPT ![t] = AfterRead(@)]
         /\ IF skip_slot /\ keep_data_slot = i
            THEN /\ cli_data' = [cli_data EXCEPT ![i] = keep_data]
                 /\ valid' = [valid EXCEPT ![i] = TRUE]
                 /\ UNCHANGED reported
            ELSE IF got # 0
            THEN /\ cli_data' = [cli_data EXCEPT ![i] = got]
                 /\ valid' = [valid EXCEPT ![i] = TRUE]
                 /\ reported' = [reported EXCEPT ![i] = @ \cup {got}]
            ELSE UNCHANGED <<cli_data, valid, reported>>
  /\ readfds' = readfds \ {i}
  /\ UNCHANGED <<talkerVars, lpc, conns, known, skip_slot, keep_data_slot, keep_data,
                 rows, halt_sig>>

(* The talker at the other end is gone: a read that finds nothing left may *)
(* fail instead of returning 0, and so may the write of "start".  A slot   *)
(* that a signal left unused is descriptor 0, and writing there may fail.  *)
SocketFails(i) ==
  /\ \/ lpc = "start" /\ (conns[i] = NoTalker \/ Closed(conns[i]))
     \/ /\ Closed(conns[i]) /\ ~Pending(conns[i])
        /\ \/ lpc = "uid" /\ ~known[i]
           \/ lpc = "scan" /\ Scanned(i) /\ ~halt_sig
  /\ lpc' = "failed"
  /\ UNCHANGED <<talkerVars, stream, conns, known, readfds, matchVars, halt_sig, reported>>

\* Faulty: the older sample of two adjacent ones is kept.
Compare_KeepsOlder(secs_error) ==
  /\ skip_slot' = (secs_error = 1 \/ secs_error = -1)
  /\ keep_data_slot' = IF secs_error = 1 THEN 0 ELSE 1
  /\ keep_data' = IF secs_error = 1 THEN cli_data[1] ELSE cli_data[0]
  /\ rows' = IF secs_error = 0 THEN Append(rows, cli_data[0]) ELSE rows

\* Faulty: adjacent seconds are taken for the same one.
Compare_Unaligned(secs_error) ==
  /\ skip_slot' = FALSE /\ keep_data' = 0 /\ UNCHANGED keep_data_slot
  /\ rows' = IF secs_error \in -1 .. 1 THEN Append(rows, cli_data[0]) ELSE rows

(* The switch on secs_error: keep the newer of two adjacent samples,       *)
(* record a pair of the same second, drop any other pair.                  *)
Compare(secs_error) ==
  /\ skip_slot' = (secs_error = 1 \/ secs_error = -1)
  /\ keep_data_slot' = IF secs_error = 1 THEN 0
                       ELSE IF secs_error = -1 THEN 1 ELSE keep_data_slot
  /\ keep_data' = IF secs_error = 1 THEN cli_data[0]
                  ELSE IF secs_error = -1 THEN cli_data[1] ELSE 0
  /\ rows' = IF secs_error = 0 THEN Append(rows, cli_data[0]) ELSE rows

data_ready == \A i \in Slot : valid[i]

reset_data_ready == /\ valid' = [i \in Slot |-> FALSE]
                    /\ cli_data' = [i \in Slot |-> 0]

(* The end of one iteration.                                               *)
Match ==
  /\ lpc = "scan" /\ readfds = {}
  /\ lpc' = "head"
  /\ IF data_ready
     THEN Compare(cli_data[0] - cli_data[1]) /\ reset_data_ready
     ELSE UNCHANGED matchVars
  /\ UNCHANGED <<talkerVars, stream, conns, known, readfds, halt_sig, reported>>

----------------------------------------------------------------------------
(* Signals to the listener.                                                *)

(* sigint_handler runs to completion.  A thread blocked in select returns  *)
(* with EINTR and finds readfds as it had set them: every slot.            *)
Signal ==
  /\ ~halt_sig /\ ~Terminated /\ lpc # "deadlock"
  /\ halt_sig' = TRUE
  /\ \/ UNCHANGED <<lpc, readfds>>
     \/ /\ lpc = "select"
        /\ lpc' = "scan" /\ readfds' = Slot
  /\ UNCHANGED <<talkerVars, stream, conns, known, matchVars, reported>>

(* The signal interrupts get_signal() between lock and unlock: the handler *)
(* waits for the mutex that the interrupted thread holds.                  *)
SignalInLock ==
  /\ ~halt_sig
  /\ lpc \in {"clients", "head"} \/ (lpc = "scan" /\ readfds # {})
  /\ lpc' = "deadlock"
  /\ UNCHANGED <<talkerVars, stream, conns, known, readfds, matchVars, halt_sig, reported>>

Talker == \E t \in Talkers : TalkerConnect(t) \/ TalkerSample(t) \/ TalkerExit(t)

Listener == \/ \E t \in Talkers : Accept(t)
            \/ \E i \in Slot : ReadUid(i) \/ ReadSlot(i) \/ SocketFails(i)
            \/ AcceptHead \/ SendStart \/ LoopHead \/ Select \/ ScanHalted \/ Match

Next == Talker \/ Listener \/ AcceptFails \/ Signal \/ SignalInLock

(* The listener runs whenever it is not blocked; talkers promise nothing.  *)
Spec == Init /\ [][Next]_vars /\ WF_vars(Listener)

----------------------------------------------------------------------------
TalkerState == {"init", "wait", "started", "exited"}
ListenerState == {"clients", "accept", "uid", "start", "head", "select", "scan",
                  "exited", "failed", "deadlock"}

TypeOK ==
  /\ tpc \in [Talkers -> TalkerState]
  /\ second \in [Talkers -> Nat]
  /\ stream \in [Talkers -> [left : Nat, recs : Seq(Nat)]]
  /\ lpc \in ListenerState
  /\ conns \in [Slot -> Talkers \cup {NoTalker}] /\ known \in [Slot -> BOOLEAN]
  /\ readfds \subseteq Slot
  /\ valid \in [Slot -> BOOLEAN] /\ cli_data \in [Slot -> Nat]
  /\ skip_slot \in BOOLEAN /\ keep_data_slot \in Slot /\ keep_data \in Nat
  /\ halt_sig \in BOOLEAN
  /\ rows \in Seq(Nat) /\ reported \in [Slot -> SUBSET Nat]

(* No second is recorded twice and rows never go back in time: a sample,   *)
(* kept or not, is used for one row at most.                               *)
RowsIncreasing == \A j, k \in DOMAIN rows : j < k => rows[j] < rows[k]

(* A sample waiting to be compared, in a slot or kept aside, was sent by   *)
(* the talker of that slot after all the rows recorded so far, and a valid *)
(* flag never goes with a cleared sample.                                  *)
WaitingSamplesAreFresh ==
  /\ \A i \in Slot : valid[i] => /\ cli_data[i] \in reported[i]
                                 /\ \A k \in DOMAIN rows : rows[k] < cli_data[i]
  /\ skip_slot => /\ keep_data \in reported[keep_data_slot]
                  /\ \A k \in DOMAIN rows : rows[k] < keep_data

(* The output file is what AlignedSeconds promises.                        *)
Abs == INSTANCE AlignedSeconds WITH Slot <- Slot, reported <- reported, rows <- rows
ImplementsAlignedSeconds == Abs!AbsSpec

(* After a signal the next bytes on either connection end the listener.    *)
SignalSeenAtNextMessage ==
  (halt_sig /\ lpc \in {"head", "select", "scan"} /\ \E i \in Slot : Readable(i))
     ~> Terminated

(* As the handler's message has it: a signal ends the listener.            *)
SignalEndsListener == (halt_sig \/ lpc = "deadlock") ~> Terminated
=============================================================================
