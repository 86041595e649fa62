---------------------------- MODULE MCOpcuaServer ----------------------------
(* Small instances of OpcuaServer for TLC. *)
EXTENDS OpcuaServer

Pub(q, twoWay, delay) ==
  [pub_id |-> 1, early_offset_ns |-> delay, publish_delay_sec |-> delay, xdp_queue |-> q,
   two_way_data |-> twoWay, rest |-> "ok"]

Sub(q, twoWay, id) ==
  [subscribed_pub_id |-> id, xdp_queue |-> q, two_way_data |-> twoWay, rest |-> "ok"]

Doc(useXDP, sameIf, pubs, subs) ==
  [useXDP |-> useXDP, sameIf |-> sameIf, rest |-> "ok", packet_count |-> 1,
   pubs |-> pubs, subs |-> subs]

LonePub == Doc(FALSE, FALSE, <<Pub(Absent, FALSE, 1)>>, <<>>)
LoneSub == Doc(FALSE, FALSE, <<>>, <<Sub(Absent, FALSE, 1)>>)

(* Publisher and subscriber on queue 1, of one interface or of two.         *)
Shared == Doc(TRUE, TRUE, <<Pub(1, FALSE, 0)>>, <<Sub(1, TRUE, 2)>>)
Apart == Doc(TRUE, FALSE, <<Pub(1, FALSE, 0)>>, <<Sub(1, TRUE, 5)>>)

(* Board B of the round trip, on AF_PACKET.                                *)
Return == Doc(FALSE, TRUE, <<Pub(Absent, TRUE, 1)>>, <<Sub(Absent, FALSE, 2)>>)

TwoPubs == Doc(FALSE, FALSE, <<Pub(Absent, FALSE, 1), Pub(Absent, FALSE, 0)>>, <<>>)
TwoSubs == Doc(FALSE, FALSE, <<>>, <<Sub(Absent, FALSE, 2), Sub(Absent, FALSE, 3)>>)

(* A subscriber on the queue of the first of two publishers.               *)
FirstQueue == Doc(TRUE, TRUE, <<Pub(0, FALSE, 1), Pub(1, FALSE, 1)>>, <<Sub(0, FALSE, 5)>>)

(* A subscriber with a socket of its own before one that is to share.      *)
OwnThenShared == Doc(TRUE, TRUE, <<Pub(0, FALSE, 1)>>, <<Sub(1, FALSE, 5), Sub(0, FALSE, 5)>>)

(* A layer for each of two subscribers, after that of the publisher.       *)
ThreeLayers == Doc(FALSE, TRUE, <<Pub(Absent, FALSE, 1)>>,
                   <<Sub(Absent, FALSE, 5), Sub(Absent, FALSE, 5)>>)

(* More entries than there are threads, one of them with a message queue.  *)
TooLong == Doc(FALSE, TRUE, <<Pub(Absent, TRUE, 0), Pub(Absent, FALSE, 0)>>,
               <<Sub(Absent, FALSE, 1), Sub(Absent, FALSE, 1)>>)

(* Files that do not pass the checks, at each kind of entry.               *)
Rejected ==
  {[Shared EXCEPT !.packet_count = c] : c \in {-3, 0, PKT_COUNT_MAX + 1, Absent}}
  \cup {[Shared EXCEPT !.pubs[1].xdp_queue = q] : q \in {-1, 4, Absent}}
  \cup {[Apart EXCEPT !.pubs[1].early_offset_ns = i] : i \in {-1, ONE_MSEC_NSEC + 1}}
  \cup {[Apart EXCEPT !.subs[1].subscribed_pub_id = i] : i \in {-1, FIVE_DIGIT_MAX + 1, Absent}}
  \cup {[TwoSubs EXCEPT !.subs[2].rest = r] : r \in {"error", Absent}}

AllDocs == {LonePub, LoneSub, Shared, Apart, Return, TwoPubs, TwoSubs,
            OwnThenShared, ThreeLayers, TooLong} \cup Rejected
ClashDocs == {FirstQueue}
=============================================================================
