----------------------------- MODULE MCDelivery -----------------------------
(***************************************************************************)
(* Instances of Delivery for TLC.                                          *)
(***************************************************************************)
EXTENDS DeliveryLife, TLC

Command(n, id, len) ==
  [messageID |-> n, commandID |-> id, payloadLen |-> len, createdAt |-> n,
   ttl |-> FALSE, dedupKey |-> NoKey, valid |-> TRUE]

CRCAll  == Command(1, 17, 0)
Query   == Command(2, 9, 0)
FWStart == Command(4, 19, 16)
Sync    == Command(5, 16, 9)
Custom  == Command(8, 27, 65536)
Larger  == Command(10, 27, 65700)

WithTTL(c) == [c EXCEPT !.ttl = TRUE]
Keyed(c)   == [c EXCEPT !.dedupKey = "key"]
Invalid(c) == [c EXCEPT !.valid = FALSE]

Retries(n) == [ackTimeout |-> 10, retryBackoff |-> 1, maxRetries |-> n]

NoRetry == [k \in {"base", "query", "sync", "fw"} |-> Retries(0)]

\* Commands of the high buffer other than 19 are sent again once.
HighRetry == [NoRetry EXCEPT !["base"] = Retries(1)]

\* Queries are sent again once as well.
AllRetry == [HighRetry EXCEPT !["query"] = Retries(1)]

CoreCommands   == {Query, WithTTL(CRCAll)}
ModeCommandSet == {FWStart, Sync}
LimitCommands  == {Keyed(CRCAll), Keyed(Invalid(Query)), Custom, Larger}
WrapCommands   == {Query, CRCAll}
QueryOnly      == {Query}

\* The connections of a controller are interchangeable.
ConnSymmetry == Permutations(Conns)
=============================================================================
