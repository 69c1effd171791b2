-------------------------- MODULE MCTransferServer --------------------------
(* The instance of TransferServer that TLC checks: two versions of a zone   *)
(* whose serial wraps, three that are refused, and one that cannot be sent. *)
EXTENDS TransferServer

CONSTANTS p1, p2, k1, sync

RR(size) == [size |-> size, soa |-> FALSE, bad |-> FALSE]
Zone(type, acl, serial, recs) ==
  [there |-> TRUE, enabled |-> TRUE, serving |-> TRUE, type |-> type, acl |-> acl, serial |-> serial, recs |-> recs]

First == Zone("primary", {p1, k1}, Modulus - 1, <<RR(2), RR(1), RR(5)>>)
Second == Zone("primary", {p1}, 0, <<RR(2), [RR(1) EXCEPT !.soa = TRUE]>>)
Bad == Zone("primary", {p1, k1}, 0, <<[RR(1) EXCEPT !.bad = TRUE]>>)
Expired == [Zone("secondary", {p1}, 0, <<RR(1)>>) EXCEPT !.serving = FALSE]
Unparsed == Zone("primary", None, 0, <<RR(1)>>)
Stub == Zone("stub", {p1}, 0, <<>>)
Gone == [First EXCEPT !.there = FALSE]

Published == <<First, Second, Bad, Expired, Unparsed, Stub, Gone>>
Firsts == {1}

Q(peer, tsig, key, udp, ixfr, serial, reads) ==
  [peer |-> peer, tsig |-> tsig, key |-> key, udp |-> udp, ixfr |-> ixfr, serial |-> serial, reads |-> reads]

\* reads: how many envelopes the peer takes before it stops reading.
Asked ==
  <<Q(p1, "unsigned", None, FALSE, FALSE, None, 9), Q(p1, "unsigned", None, FALSE, TRUE, Modulus - 1, 9),
   Q(p1, "unsigned", None, FALSE, TRUE, 0, 9), Q(p1, "unsigned", None, TRUE, TRUE, None, 9),
   Q(p1, "unsigned", None, TRUE, FALSE, None, 9), Q(p2, "good", k1, FALSE, FALSE, None, 1),
   Q(p2, "good", sync, FALSE, FALSE, None, 9), Q(p2, "badsig", sync, FALSE, FALSE, None, 9),
   Q(p1, "unchecked", k1, FALSE, FALSE, None, 9)>>
Registered == {<<sync, p2>>}
=============================================================================
