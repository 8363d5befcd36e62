--------------------------- MODULE ControllerQueue ---------------------------
(***************************************************************************)
(* The queue of one controller (internal/queue/queue.go): four FIFO        *)
(* buffers, one per priority, as a function from priorities to sequences.  *)
(* Each operation of ControllerQueue holds the queue's mutex throughout,   *)
(* so each is one operator from the old queue to the new one.              *)
(*                                                                         *)
(* An entry is a command with the two fields that change while it waits:   *)
(* the number of times it was sent, and the sequence number a retry must   *)
(* use again (0 when a fresh number is to be taken).                       *)
(***************************************************************************)
EXTENDS CommandPolicy, Sequences, FiniteSets, Functions

Item(c, n, s) == [cmd |-> c, attempts |-> n, retrySeq |-> s]

NewControllerQueue == [p \in Priorities |-> <<>>]

\* The entries of seq at the positions in idx, in their order.
Kept(seq, idx) ==
  [j \in 1..Cardinality(idx) |->
     seq[CHOOSE i \in idx : Cardinality({k \in idx : k <= i}) = j]]

Positions(q) == UNION {{p} \X DOMAIN q[p] : p \in Priorities}

Without(q, gone) ==
  [p \in Priorities |-> Kept(q[p], {i \in DOMAIN q[p] : <<p, i>> \notin gone})]

\* The commands of a sequence of entries, and of a queue.
Cmds(seq) == {seq[i].cmd : i \in DOMAIN seq}

Queued(q) == UNION {Cmds(q[p]) : p \in Priorities}

\* No command occurs twice.
Distinct(seq) == \A i, j \in DOMAIN seq : seq[i].cmd = seq[j].cmd => i = j

-----------------------------------------------------------------------------
EstimatedCommandBytes(c) == 11 + c.payloadLen

Push(q, item) == [q EXCEPT ![PriorityOf(item.cmd)] = Append(@, item)]

\* The buffers PopNext may serve in the given modes, in the order it tries
\* them: high always comes first, and an active mode closes the others.
ServiceOrder(fwMode, syncMode) ==
  IF fwMode THEN <<"high", "fw">>
  ELSE IF syncMode THEN <<"high", "sync">>
  ELSE <<"high", "fw", "sync", "query">>

\* The buffers PopNext can take an entry from: none, or the first one.
NextBuffer(q, fwMode, syncMode) ==
  LET order == ServiceOrder(fwMode, syncMode)
  IN  {order[i] : i \in {i \in DOMAIN order :
                           /\ q[order[i]] # <<>>
                           /\ \A j \in 1..(i - 1) : q[order[j]] = <<>>}}

\* The entries of t pushed after those of q, buffer by buffer.
PushAll(q, t) == [p \in Priorities |-> q[p] \o t[p]]

PopFrom(q, p) == [q EXCEPT ![p] = Tail(@)]

\* DrainExpired: the positions it removes, and what it leaves.
ExpiredPositions(q, expired) ==
  {a \in Positions(q) : q[a[1]][a[2]].cmd \in expired}

DrainExpired(q, expired) == Without(q, ExpiredPositions(q, expired))

QueueLen(q) == Len(q["high"]) + Len(q["fw"]) + Len(q["sync"]) + Len(q["query"])

TotalEstimatedBytes(q) ==
  SumFunction([a \in Positions(q) |->
                 EstimatedCommandBytes(q[a[1]][a[2]].cmd)])

-----------------------------------------------------------------------------
Rank(p) == CASE p = "high" -> 1 [] p = "fw" -> 2 [] p = "sync" -> 3
             [] p = "query" -> 4

\* The order in which DropOldest chooses: the earlier creation time, then
\* the earlier buffer, then the earlier position.
DroppedBefore(q, a, b) ==
  LET at(x) == q[x[1]][x[2]].cmd.createdAt
  IN  \/ at(a) < at(b)
      \/ at(a) = at(b) /\ Rank(a[1]) < Rank(b[1])
      \/ at(a) = at(b) /\ a[1] = b[1] /\ a[2] < b[2]

\* The positions that n successive calls of DropOldest remove.
Oldest(q, n) ==
  {a \in Positions(q) :
     Cardinality({b \in Positions(q) : DroppedBefore(q, b, a)}) < n}

DropOldest(q) == Without(q, Oldest(q, 1))

-----------------------------------------------------------------------------
Snapshot(q) == q["high"] \o q["fw"] \o q["sync"] \o q["query"]

Restore(items) ==
  [p \in Priorities |->
     Kept(items, {i \in DOMAIN items : PriorityOf(items[i].cmd) = p})]

HasFW(q) == q["fw"] # <<>>

HasSync(q) == q["sync"] # <<>>
=============================================================================
