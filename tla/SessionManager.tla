--------------------------- MODULE SessionManager ---------------------------
(***************************************************************************)
(* The session of one controller and the operations of                     *)
(* internal/session/manager.go on it.  Every operation of Manager holds    *)
(* m.mu from beginning to end, so each is one operator from the session to *)
(* the session it leaves; the operators for the ones that can fail to save *)
(* are used together with Saved or SaveFailed.                             *)
(*                                                                         *)
(* No operation on one controller reads or writes the session of another   *)
(* (only Create counts the sessions that are online), so one session is    *)
(* enough to state what happens to the commands of a controller.           *)
(*                                                                         *)
(* Time is abstracted to what the code asks of it.  "expired" is the set   *)
(* of commands whose TTL has elapsed.  An entry in flight has a timer: 0   *)
(* until SentAt + wait, then 1, and 2 once lateAckGrace has also elapsed.  *)
(* A deduplication key is in dedup until its ten minutes are over.         *)
(***************************************************************************)
EXTENDS ControllerQueue

CONSTANTS
  Conns,           \* the TCP connections of a behaviour
  NoConn,          \* the nil connection of an offline session
  NumSeqs,         \* the number of sequence numbers: 256, for a uint8
  MaxQueueDepth,   \* config.QueueMaxDepth, 0 for no limit
  MaxQueueBytes,   \* config.QueueMaxBytes, 0 for no limit
  OverflowPolicy,  \* config.QueueOverflowPolicy
  MaxFailures      \* bound: saves that the store refuses

VARIABLES
  sess,      \* the session.Session in memory
  disk,      \* the store.SessionSnapshot saved last
  failures   \* how many saves have failed

sessVars == <<sess, disk, failures>>

ASSUME ConnsAssumption == NoConn \notin Conns

ASSUME LimitsAssumption ==
  /\ NumSeqs \in Nat /\ NumSeqs > 1
  /\ MaxQueueDepth \in Nat
  /\ MaxQueueBytes \in Nat
  /\ OverflowPolicy \in {"reject", "drop_oldest"}
  /\ MaxFailures \in Nat

Seqs == 0..(NumSeqs - 1)

\* A buffer size of 0 stands for "not known": the code then uses 1500.
DefaultBuffer == 1500

EffectiveBuffer(n) == IF n <= 0 THEN DefaultBuffer ELSE n

-----------------------------------------------------------------------------
\* The values of Command (with Attempts and RetrySeq), InFlightEntry, Session
\* and SessionSnapshot.
ItemSet == [cmd : Commands, attempts : Nat, retrySeq : Seqs]

EntrySet == [seq : Seqs, cmd : Commands, attempts : Nat, timer : 0..2]

SavedEntrySet == [seq : Seqs, cmd : Commands, attempts : Nat]

SessionSet ==
  [queue : [Priorities -> Seq(ItemSet)], inFlight : SUBSET EntrySet,
   nextSeq : Seqs, fwMode : BOOLEAN, syncMode : BOOLEAN, bufferFree : Nat,
   conn : Conns \cup {NoConn}, frameMode : {"sequenced", "compact"},
   dedup : SUBSET STRING]

SnapshotSet ==
  [pending : Seq(ItemSet), inFlight : SUBSET SavedEntrySet, nextSeq : Seqs,
   fwMode : BOOLEAN, syncMode : BOOLEAN, bufferFree : Nat]

-----------------------------------------------------------------------------
\* Saving and restoring

SavedEntry(e) == [seq |-> e.seq, cmd |-> e.cmd, attempts |-> e.attempts]

\* How long a restored command has been waiting is known only when the clock
\* is read again: its timer starts at 0 and may elapse at once.
RestoredEntry(e) ==
  [seq |-> e.seq, cmd |-> e.cmd, attempts |-> e.attempts, timer |-> 0]

SessionSnapshot(s) ==
  [pending    |-> Snapshot(s.queue),
   inFlight   |-> {SavedEntry(e) : e \in s.inFlight},
   nextSeq    |-> s.nextSeq,
   fwMode     |-> s.fwMode,
   syncMode   |-> s.syncMode,
   bufferFree |-> s.bufferFree]

\* createDetachedLocked: what Enqueue makes for an unknown controller.
DetachedSession ==
  [queue      |-> NewControllerQueue,
   inFlight   |-> {},
   nextSeq    |-> 0,
   fwMode     |-> FALSE,
   syncMode   |-> FALSE,
   bufferFree |-> DefaultBuffer,
   conn       |-> NoConn,
   frameMode  |-> "sequenced",
   dedup      |-> {}]

\* Mutant of RestoredSession: the sequence counter starts again.
RestoredSessionZero(d) ==
  [DetachedSession EXCEPT
     !.queue    = Restore(d.pending),
     !.inFlight = {RestoredEntry(e) : e \in d.inFlight},
     !.fwMode   = d.fwMode,
     !.syncMode = d.syncMode]

RestoredSession(d) ==
  [queue      |-> Restore(d.pending),
   inFlight   |-> {RestoredEntry(e) : e \in d.inFlight},
   nextSeq    |-> d.nextSeq,
   fwMode     |-> d.fwMode,
   syncMode   |-> d.syncMode,
   bufferFree |-> EffectiveBuffer(d.bufferFree),
   conn       |-> NoConn,
   frameMode  |-> "sequenced",
   dedup      |-> {}]

\* Mutant of Saved: the snapshot is taken before the change.
SavedBefore ==
  /\ disk' = SessionSnapshot(sess)
  /\ UNCHANGED failures

\* persistLocked returns nil, or an error of the store.
Saved ==
  /\ disk' = SessionSnapshot(sess')
  /\ UNCHANGED failures

\* A save that is reported as failed may have been applied all the same: the
\* statement of PostgresStore can time out after the server ran it.
SaveFailedOf(s) ==
  /\ failures < MaxFailures
  /\ failures' = failures + 1
  /\ disk' \in {disk, SessionSnapshot(s)}

SaveFailed == SaveFailedOf(sess')

NotSaved == UNCHANGED <<disk, failures>>

-----------------------------------------------------------------------------
\* Operations on the session

Attach(s, k) ==
  [s EXCEPT !.conn = k, !.bufferFree = EffectiveBuffer(@)]

MarkOffline(s) == [s EXCEPT !.conn = NoConn]

SetFrameMode(s, mode) == [s EXCEPT !.frameMode = mode]

UpdateBufferFree(s, n) == [s EXCEPT !.bufferFree = n]

SetFWMode(s, on) == [s EXCEPT !.fwMode = on]

SetSyncMode(s, on) == [s EXCEPT !.syncMode = on]

\* Mutant of NextCommandSeq: the counter does not move.
NextCommandSeqStuck(s) == s

NextCommandSeq(s) == [s EXCEPT !.nextSeq = (@ + 1) % NumSeqs]

\* Mutant of RegisterInFlight: the entry is stored under the next number.
RegisterInFlightNext(s, seq, item) ==
  [s EXCEPT !.inFlight = @ \cup
     {[seq |-> (seq + 1) % NumSeqs, cmd |-> item.cmd,
       attempts |-> item.attempts + 1, timer |-> 0]}]

\* The entry replaces whatever was in flight under the same number.
RegisterInFlight(s, seq, item) ==
  [s EXCEPT !.inFlight =
     {e \in @ : e.seq # seq} \cup
     {[seq |-> seq, cmd |-> item.cmd, attempts |-> item.attempts + 1,
       timer |-> 0]}]

\* Mutant of AckInFlight: the entry is found and not deleted.
AckInFlightPeeking(s, seq) == s

AckInFlight(s, seq) ==
  [s EXCEPT !.inFlight = {e \in @ : e.seq # seq}]

-----------------------------------------------------------------------------
\* Enqueue

Duplicate(s, c) == c.dedupKey # NoKey /\ c.dedupKey \in s.dedup

RecordKey(s, c) ==
  [s EXCEPT !.dedup = @ \cup ({c.dedupKey} \ {NoKey})]

\* Mutant of Fits: one command too many.
FitsOneMore(q, c) ==
  /\ MaxQueueDepth > 0 => QueueLen(q) <= MaxQueueDepth
  /\ MaxQueueBytes > 0 =>
       TotalEstimatedBytes(q) + EstimatedCommandBytes(c) <= MaxQueueBytes

Fits(q, c) ==
  /\ MaxQueueDepth > 0 => QueueLen(q) + 1 <= MaxQueueDepth
  /\ MaxQueueBytes > 0 =>
       TotalEstimatedBytes(q) + EstimatedCommandBytes(c) <= MaxQueueBytes

\* How many entries the drop_oldest loop removes: enough for the command to
\* fit, or all of them when it never does.
DropCount(q, c) ==
  IF OverflowPolicy = "reject" THEN 0
  ELSE LET enough == {n \in 0..QueueLen(q) : Fits(Without(q, Oldest(q, n)), c)}
       IN  IF enough = {} THEN QueueLen(q)
           ELSE CHOOSE n \in enough : \A m \in enough : n <= m

\* The queue in which the command is to be pushed, or is refused.
MakeRoom(q, c) == Without(q, Oldest(q, DropCount(q, c)))

-----------------------------------------------------------------------------
\* ProcessInFlight

Due(s) == {e \in s.inFlight : e.timer > 0}

TimedOutExpired(s, expired) == {e \in Due(s) : e.cmd \in expired}

Unexpired(s, expired) == Due(s) \ TimedOutExpired(s, expired)

\* The last attempt is given up only after the grace period for late acks.
TimedOutFailed(s, expired) ==
  {e \in Unexpired(s, expired) :
     e.attempts >= MaxRetries(e.cmd) + 1 /\ e.timer = 2}

\* Mutants of TimedOutRetrying: one attempt too many, and one too few, after which
\* the entry is neither retried nor failed.
TimedOutRetryingAgain(s, expired) ==
  {e \in Unexpired(s, expired) : e.attempts <= MaxRetries(e.cmd) + 1}
TimedOutRetryingLess(s, expired) ==
  {e \in Unexpired(s, expired) : e.attempts < MaxRetries(e.cmd)}

TimedOutRetrying(s, expired) ==
  {e \in Unexpired(s, expired) : e.attempts < MaxRetries(e.cmd) + 1}

\* The entries to be retried go to the tail of their buffers in the order in
\* which Go iterates over the map: any order.
RetryOrders(s, expired) ==
  LET items(p) == {Item(e.cmd, e.attempts, e.seq) :
                     e \in {e \in TimedOutRetrying(s, expired) :
                              PriorityOf(e.cmd) = p}}
      orders(p) == Injection(1..Cardinality(items(p)), items(p))
  IN  {t \in [Priorities -> UNION {orders(p) : p \in Priorities}] :
         \A p \in Priorities : t[p] \in orders(p)}

\* Mutants of ProcessInFlight: the entries to be retried stay in the table, and
\* the ones in their grace period leave it.
ProcessInFlightKeeping(s, expired, order) ==
  [s EXCEPT
     !.queue    = PushAll(@, order),
     !.inFlight = @ \ (TimedOutExpired(s, expired) \cup
                       TimedOutFailed(s, expired))]
ProcessInFlightNoGrace(s, expired, order) ==
  [s EXCEPT
     !.queue    = PushAll(@, order),
     !.inFlight = @ \ Due(s)]

\* The limits that Enqueue checks do not apply here.
ProcessInFlight(s, expired, order) ==
  [s EXCEPT
     !.queue    = PushAll(@, order),
     !.inFlight = @ \ (TimedOutExpired(s, expired) \cup
                       TimedOutFailed(s, expired) \cup
                       TimedOutRetrying(s, expired))]
=============================================================================
