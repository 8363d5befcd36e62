------------------------ MODULE DeliveryLimitProofs -------------------------
(***************************************************************************)
(* Which commands are not queued.  A command enters the queue from outside *)
(* only within MaxQueueDepth and MaxQueueBytes, and only the oldest        *)
(* commands make room for it.                                              *)
(*                                                                         *)
(* Enqueue keeps the queue within the limits as long as no command comes   *)
(* back to it.  LimitInv says so of the set of the queued commands,        *)
(* because nothing is queued twice: a queue has as many items as it has    *)
(* commands, and the bytes of its positions are the bytes of its commands. *)
(***************************************************************************)
EXTENDS DeliveryProofs, SumProofs

\* A leaf goes to Zenon, unless it names the SMT solver: where it needs
\* arithmetic, or functions and records are rewritten.
USE ZenonT(30)

-----------------------------------------------------------------------------
\* The limits of Enqueue

\* What EstimatedCommandBytes says of each command.
Bytes == [c \in Commands |-> EstimatedCommandBytes(c)]

\* It is a number.
LEMMA BytesType ==
  \A c \in Commands : /\ Bytes[c] = EstimatedCommandBytes(c)
                      /\ Bytes[c] \in Int /\ Bytes[c] >= 0
<1> SUFFICES ASSUME NEW c \in Commands
             PROVE  /\ Bytes[c] = EstimatedCommandBytes(c)
                    /\ Bytes[c] \in Int /\ Bytes[c] >= 0
  OBVIOUS
<1>1. c.payloadLen \in Nat
  BY CommandsAssumption DEF CommandRecord
<1> QED  BY <1>1, SMTT(30) DEF Bytes, EstimatedCommandBytes

\* The limits, for the set of the commands in a queue.
WithinLimits(S) ==
  /\ MaxQueueDepth > 0 => Cardinality(S) <= MaxQueueDepth
  /\ MaxQueueBytes > 0 => SumFunctionOnSet(Bytes, S) <= MaxQueueBytes

\* The command at each position of a queue.
CmdAt(q) == [a \in Positions(q) |-> q[a[1]][a[2]].cmd]

\* The positions of a queue without twins and its commands correspond.
LEMMA PositionsCmds ==
  ASSUME NEW q \in [Priorities -> Seq(ItemSet)], TwinFree(q)
  PROVE  CmdAt(q) \in Bijection(Positions(q), Queued(q))
<1>1. \A a \in Positions(q) : a[1] \in Priorities /\ a[2] \in DOMAIN q[a[1]] /\ a = <<a[1], a[2]>>
  BY SMTT(30) DEF Positions
<1>2. \A p \in Priorities : \A i \in DOMAIN q[p] : <<p, i>> \in Positions(q)
  BY SMTT(30) DEF Positions
<1>3. \A c : c \in Queued(q) <=> \E p \in Priorities : \E i \in DOMAIN q[p] : q[p][i].cmd = c
  BY SMTT(30) DEF Queued, Cmds
<1>4. CmdAt(q) \in [Positions(q) -> Queued(q)]
  BY <1>1, <1>3 DEF CmdAt
<1>5. ASSUME NEW a \in Positions(q), NEW b \in Positions(q), CmdAt(q)[a] = CmdAt(q)[b]
      PROVE  a = b
  <2>1. q[a[1]][a[2]].cmd = q[b[1]][b[2]].cmd
    BY <1>5 DEF CmdAt
  <2>2. q[a[1]][a[2]].cmd \in Cmds(q[a[1]]) /\ q[b[1]][b[2]].cmd \in Cmds(q[b[1]])
    BY <1>1 DEF Cmds
  <2>3. a[1] = b[1]
    BY <1>1, <2>1, <2>2 DEF TwinFree
  <2>4. a[2] = b[2]
    <3>1. Distinct(q[a[1]]) /\ a[2] \in DOMAIN q[a[1]] /\ b[2] \in DOMAIN q[a[1]]
      BY <1>1, <2>3 DEF TwinFree
    <3>2. q[a[1]][a[2]].cmd = q[a[1]][b[2]].cmd
      BY <2>1, <2>3
    <3> QED  BY <3>1, <3>2 DEF Distinct
  <2> QED  BY <1>1, <2>3, <2>4
<1>6. ASSUME NEW c \in Queued(q) PROVE \E a \in Positions(q) : CmdAt(q)[a] = c
  <2>1. PICK p \in Priorities : \E i \in DOMAIN q[p] : q[p][i].cmd = c
    BY <1>3
  <2>2. PICK i \in DOMAIN q[p] : q[p][i].cmd = c
    BY <2>1
  <2>3. <<p, i>> \in Positions(q) /\ CmdAt(q)[<<p, i>>] = c
    BY <1>2, <2>2 DEF CmdAt
  <2> QED  BY <2>3
<1> QED  BY <1>4, <1>5, <1>6 DEF Bijection, Injection, IsInjective, Surjection

\* A sequence of entries without twins has as many commands as entries.
LEMMA LenCmds ==
  ASSUME NEW S, NEW s \in Seq(S), Distinct(s)
  PROVE  IsFiniteSet(Cmds(s)) /\ Cardinality(Cmds(s)) = Len(s)
<1> DEFINE g == [i \in 1..Len(s) |-> s[i].cmd]
<1>1. Len(s) \in Nat /\ DOMAIN s = 1..Len(s)
  BY SMTT(30)
<1>2. g \in Bijection(1..Len(s), Cmds(s))
  BY <1>1 DEF Bijection, Injection, IsInjective, Surjection, Cmds, Distinct
<1>3. IsFiniteSet(1..Len(s)) /\ Cardinality(1..Len(s)) = Len(s)
  BY <1>1, FS_Interval, SMTT(30)
<1>4. ExistsBijection(1..Len(s), Cmds(s))
  BY <1>2 DEF ExistsBijection
<1> QED  BY <1>3, <1>4, FS_Bijection

\* What Enqueue measures of a queue without twins depends on its commands alone.
LEMMA QueueMeasures ==
  ASSUME NEW q \in [Priorities -> Seq(ItemSet)], TwinFree(q)
  PROVE  /\ IsFiniteSet(Queued(q)) /\ Queued(q) \subseteq Commands
         /\ QueueLen(q) = Cardinality(Queued(q))
         /\ TotalEstimatedBytes(q) = SumFunctionOnSet(Bytes, Queued(q))
<1>1. Queued(q) \subseteq Commands
  <2> SUFFICES ASSUME NEW c \in Queued(q) PROVE c \in Commands
    OBVIOUS
  <2>1. PICK p \in Priorities : c \in Cmds(q[p])
    BY DEF Queued
  <2>2. PICK i \in DOMAIN q[p] : q[p][i].cmd = c
    BY <2>1, CmdsElements
  <2>3. q[p] \in Seq(ItemSet) /\ q[p][i] \in ItemSet
    BY <2>2, SMTT(30)
  <2> QED  BY <2>2, <2>3 DEF ItemSet
<1>2. Snapshot(q) \in Seq(ItemSet) /\ Cmds(Snapshot(q)) = Queued(q) /\ Distinct(Snapshot(q))
  BY SnapshotCmds
<1>3. IsFiniteSet(Queued(q)) /\ Cardinality(Queued(q)) = Len(Snapshot(q))
  BY <1>2, LenCmds
<1>4. Len(Snapshot(q)) = QueueLen(q)
  <2>1. /\ q["high"] \in Seq(ItemSet) /\ q["fw"] \in Seq(ItemSet)
        /\ q["sync"] \in Seq(ItemSet) /\ q["query"] \in Seq(ItemSet)
    BY DEF Priorities
  <2> QED  BY <2>1, SMTT(30) DEF Snapshot, QueueLen
<1> DEFINE f == [a \in Positions(q) |-> EstimatedCommandBytes(q[a[1]][a[2]].cmd)]
<1>5. CmdAt(q) \in Bijection(Positions(q), Queued(q))
  BY PositionsCmds
<1>6. \A a \in Positions(q) : f[a] = Bytes[CmdAt(q)[a]] /\ f[a] \in Int
  <2> TAKE a \in Positions(q)
  <2>1. CmdAt(q)[a] = q[a[1]][a[2]].cmd /\ CmdAt(q)[a] \in Queued(q)
    BY <1>5 DEF CmdAt, Bijection, Injection
  <2> QED  BY <1>1, <2>1, BytesType
<1>7. IsFiniteSet(Positions(q))
  <2>1. CmdAt(q) \in Injection(Positions(q), Queued(q))
    BY <1>5 DEF Bijection
  <2> QED  BY <1>3, <2>1, FS_Injection
<1>8. TotalEstimatedBytes(q) = SumFunctionOnSet(f, Positions(q))
  BY DEF TotalEstimatedBytes, SumFunction
<1> HIDE DEF f
<1>9. SumFunctionOnSet(f, Positions(q)) = SumFunctionOnSet(Bytes, Queued(q))
  <2> DEFINE D == Positions(q)
             S == Queued(q)
             g == CmdAt(q)
  <2>1. Summable(f, D) /\ g \in Bijection(D, S) /\ \A a \in D : f[a] = Bytes[g[a]]
    BY <1>5, <1>6, <1>7 DEF Summable
  <2> HIDE DEF D, S, g
  <2>2. SumFunctionOnSet(f, D) = SumFunctionOnSet(Bytes, S)
    BY ONLY <2>1, SumMoved
  <2> QED  BY <2>2 DEF D, S
<1> QED  BY <1>1, <1>3, <1>4, <1>8, <1>9

\* Fewer commands are within the limits as well.
LEMMA FewerWithin ==
  ASSUME NEW B \in SUBSET Commands, IsFiniteSet(B), NEW A \in SUBSET B, WithinLimits(B)
  PROVE  WithinLimits(A)
<1>1. IsFiniteSet(A) /\ Cardinality(A) <= Cardinality(B)
  BY FS_Subset
<1>2. Cardinality(A) \in Nat /\ Cardinality(B) \in Nat
  BY <1>1, FS_CardinalityType
<1>3. Summable(Bytes, A) /\ Summable(Bytes, B) /\ \A x \in B : Bytes[x] >= 0
  BY <1>1, BytesType DEF Summable
<1>4. SumFunctionOnSet(Bytes, A) <= SumFunctionOnSet(Bytes, B)
  BY <1>3, SumPart
<1>5. SumFunctionOnSet(Bytes, A) \in Int /\ SumFunctionOnSet(Bytes, B) \in Int
  BY <1>3, SumInt
<1> QED  BY <1>1, <1>2, <1>4, <1>5, LimitsAssumption, SMTT(30) DEF WithinLimits

\* A command that fits leaves the queue within the limits.
LEMMA FitsWithin ==
  ASSUME NEW q \in [Priorities -> Seq(ItemSet)], TwinFree(q),
         NEW c \in Commands, c \notin Queued(q), Fits(q, c)
  PROVE  WithinLimits(Queued(q) \cup {c})
<1> DEFINE A == Queued(q)
           B == A \cup {c}
<1>1. /\ IsFiniteSet(A) /\ A \subseteq Commands /\ QueueLen(q) = Cardinality(A)
      /\ TotalEstimatedBytes(q) = SumFunctionOnSet(Bytes, A)
  BY QueueMeasures
<1>2. c \notin A /\ B = A \cup {c} /\ B \ {c} = A /\ c \in B
  OBVIOUS
<1> HIDE DEF A, B
<1>3. IsFiniteSet(B) /\ Cardinality(B) = Cardinality(A) + 1
  BY <1>1, <1>2, FS_AddElement
<1>4. Summable(Bytes, B)
  BY <1>1, <1>2, <1>3, BytesType DEF Summable
<1>5. SumFunctionOnSet(Bytes, B) = Bytes[c] + SumFunctionOnSet(Bytes, A)
  <2>1. SumFunctionOnSet(Bytes, B) = Bytes[c] + SumFunctionOnSet(Bytes, B \ {c})
    BY ONLY <1>2, <1>4, SumTake
  <2> QED  BY <1>2, <2>1
<1>6. SumFunctionOnSet(Bytes, A) \in Int
  <2>1. Summable(Bytes, A)
    BY <1>1, BytesType DEF Summable
  <2> QED  BY <2>1, SumInt
<1>7. Bytes[c] = EstimatedCommandBytes(c) /\ Bytes[c] \in Int
  BY BytesType
<1>8. /\ MaxQueueDepth > 0 => Cardinality(A) + 1 <= MaxQueueDepth
      /\ MaxQueueBytes > 0 => SumFunctionOnSet(Bytes, A) + Bytes[c] <= MaxQueueBytes
  BY <1>1, <1>7 DEF Fits
<1>9. Bytes[c] + SumFunctionOnSet(Bytes, A) = SumFunctionOnSet(Bytes, A) + Bytes[c]
  BY <1>6, <1>7, SMTT(30)
<1>10. WithinLimits(B)
  BY <1>3, <1>5, <1>8, <1>9 DEF WithinLimits
<1> QED  BY <1>10 DEF A, B

-----------------------------------------------------------------------------
\* The queue and the snapshot, from which a restart makes a queue, are within the
\* limits.
LimitInv == WithinLimits(Queued(sess.queue)) /\ WithinLimits(Cmds(disk.pending))

\* No command comes back to the queue: flushQueue sets none aside, and none that
\* is due has an attempt left.
NothingComesBack == NothingSetAside /\ TimedOutRetrying(sess, expired) = {}

\* The queue of the session after a step has a finite set of commands.
LEMMA QueueFinite ==
  ASSUME IInv
  PROVE  /\ sess.queue \in [Priorities -> Seq(ItemSet)] /\ TwinFree(sess.queue)
         /\ IsFiniteSet(Queued(sess.queue)) /\ Queued(sess.queue) \subseteq Commands
<1>1. sess.queue \in [Priorities -> Seq(ItemSet)] /\ TwinFree(sess.queue)
  BY DEF IInv, SessionOK, LegalSession, SessionSet
<1> QED  BY <1>1, QueueMeasures

\* As long as the queue is within the limits, so is what a save leaves on disk.
LEMMA SavesWithin ==
  ASSUME IInv, IInv', LimitInv, WithinLimits(Queued(sess'.queue)),
         \/ Saved \/ NotSaved
         \/ \E t : t.queue = sess'.queue /\ SaveFailedOf(t)
  PROVE  LimitInv'
<1>1. sess'.queue \in [Priorities -> Seq(ItemSet)]
  BY DEF IInv, SessionOK, LegalSession, SessionSet
<1>2. Cmds(Snapshot(sess'.queue)) = Queued(sess'.queue)
  BY <1>1, SnapshotCmds
<1>3. disk'.pending = disk.pending \/ disk'.pending = Snapshot(sess'.queue)
  <2>1. CASE Saved
    BY <2>1 DEF Saved, SessionSnapshot
  <2>2. CASE NotSaved
    BY <2>2 DEF NotSaved
  <2>3. ASSUME NEW t, t.queue = sess'.queue, SaveFailedOf(t)
        PROVE  disk'.pending = disk.pending \/ disk'.pending = Snapshot(sess'.queue)
    <3>1. SessionSnapshot(t).pending = Snapshot(sess'.queue)
      BY <2>3 DEF SessionSnapshot
    <3>2. disk' = disk \/ disk' = SessionSnapshot(t)
      BY <2>3 DEF SaveFailedOf
    <3> QED  BY <3>1, <3>2
  <2> QED  BY <2>1, <2>2, <2>3
<1> QED  BY <1>2, <1>3 DEF LimitInv

\* The limits of Enqueue bound the queue, whatever the overflow policy, as long as
\* no command comes back to the queue that had left it: Enqueue is the only
\* operation that minds the limits, so a queue outgrows them by retries and by
\* the commands that flushQueue puts back, and in no other way.
THEOREM LimitsHold == Spec /\ []NothingComesBack => []QueueBounded
<1>1. Init => LimitInv
  <2> SUFFICES ASSUME Init PROVE LimitInv
    OBVIOUS
  <2>1. Queued(sess.queue) = {}
    BY EmptyQueue DEF Init, DetachedSession
  <2>2. Cmds(disk.pending) = {}
    <3>1. NewControllerQueue \in [Priorities -> Seq(ItemSet)]
      BY EmptyQueue
    <3> QED  BY <3>1, EmptyQueue, SnapshotCmds DEF Init, SessionSnapshot, DetachedSession
  <2>3. WithinLimits({})
    BY FS_EmptySet, SumEmpty, LimitsAssumption, SMTT(30) DEF WithinLimits
  <2> QED  BY <2>1, <2>2, <2>3 DEF LimitInv
<1>2. IInv /\ IInv' /\ LimitInv /\ NothingComesBack /\ [Next]_vars => LimitInv'
  <2> SUFFICES ASSUME IInv, IInv', LimitInv, NothingComesBack, [Next]_vars
               PROVE  LimitInv'
    OBVIOUS
  <2>0. ASSUME Queued(sess'.queue) \subseteq Queued(sess.queue)
        PROVE  WithinLimits(Queued(sess'.queue))
    BY <2>0, QueueFinite, FewerWithin DEF LimitInv
  <2>1. CASE UNCHANGED vars
    BY <2>1 DEF vars, sessVars, LimitInv
  <2>2. CASE Sheds
    BY <2>0, <2>2, SavesWithin DEF Sheds
  <2>3. ASSUME NEW p \in Procs, ProcessStep(p) PROVE LimitInv'
    <3>1. PICK order \in RetryOrders(sess, expired) :
            sess' = ProcessInFlight(sess, expired, order)
      BY <2>3 DEF ProcessStep
    <3>2. order \in [Priorities -> Seq(ItemSet)] /\ Queued(order) = {}
      <4>1. LegalSession(sess)
        BY DEF IInv, SessionOK
      <4>2. /\ order \in [Priorities -> Seq(ItemSet)]
            /\ Queued(order) = EntryCmds(TimedOutRetrying(sess, expired))
        BY <3>1, <4>1, RetryOrderCmds
      <4> QED  BY <4>2 DEF NothingComesBack, EntryCmds
    <3>3. sess'.queue = PushAll(sess.queue, order)
      BY <3>1 DEF ProcessInFlight, IInv, SessionOK, LegalSession, SessionSet
    <3>4. Queued(PushAll(sess.queue, order)) = Queued(sess.queue) \cup Queued(order)
      <4>1. sess.queue \in [Priorities -> Seq(ItemSet)]
        BY QueueFinite
      <4>2. order \in [Priorities -> Seq(ItemSet)]
        BY <3>2
      <4> QED  BY ONLY <4>1, <4>2, PushAllCmds, ZenonT(30)
    <3>5. Saved \/ SaveFailed
      BY <2>3 DEF ProcessStep
    <3> QED  BY <2>0, <3>2, <3>3, <3>4, <3>5, SavesWithin DEF SaveFailed
  <2>4. ASSUME NEW c \in Commands, Accept(c) PROVE LimitInv'
    <3> DEFINE room == MakeRoom(sess.queue, c)
               x == Item(c, 0, 0)
    <3>1. /\ room \in [Priorities -> Seq(ItemSet)] /\ TwinFree(room)
          /\ Queued(room) \subseteq Queued(sess.queue)
      BY RoomCmds DEF IInv
    <3>2. Fits(room, c) /\ fate[c] = "new"
      BY <2>4 DEF Accept
    <3>3. c \notin Queued(room)
      BY <3>1, <3>2 DEF IInv, Fresh, Held
    <3>4. sess'.queue = Push(room, x) /\ (Saved \/ SaveFailed)
      BY <2>4 DEF Accept, RecordKey, IInv, SessionOK, LegalSession, SessionSet
    <3>5. x \in ItemSet /\ x.cmd = c
      BY SeqsType DEF Item, ItemSet
    <3> HIDE DEF room, x
    <3>6. Queued(Push(room, x)) = Queued(room) \cup {c}
      <4>1. Queued(Push(room, x)) = Queued(room) \cup {x.cmd}
        BY ONLY <3>1, <3>5, PushCmds
      <4> QED  BY <3>5, <4>1
    <3>7. WithinLimits(Queued(sess'.queue))
      BY <3>1, <3>2, <3>3, <3>4, <3>6, FitsWithin
    <3> QED  BY <3>4, <3>7, SavesWithin DEF SaveFailed
  <2>5. CASE Crash
    BY <2>5, CrashRestores, SavesWithin DEF LimitInv
  <2> QED  BY <2>1, <2>2, <2>3, <2>4, <2>5, GoroutineSheds, EnvironmentSheds
           DEF Next, NothingComesBack
<1>3. IInv /\ LimitInv => QueueBounded
  BY QueueFinite, QueueMeasures DEF LimitInv, WithinLimits, QueueBounded
<1> QED BY <1>1, <1>2, <1>3, InitKeeps, NextKeeps, PTL DEF Spec

-----------------------------------------------------------------------------
\* What Enqueue drops

\* A set of numbers that has one has a least one.
LEMMA LeastNumber ==
  ASSUME NEW A \in SUBSET Nat, A # {}
  PROVE  \E n \in A : \A m \in A : n <= m
<1>1. PICK x \in A : \A y \in A : <<y, x>> \notin OpToRel(<, Nat)
  BY WFMin, NatLessThanWellFounded, Zenon
<1>2. \A y \in A : ~(y < x)
  BY <1>1 DEF OpToRel
<1> QED BY <1>2, SMTT(30)

\* When the command at a position was made, and the positions that are dropped
\* before that one.
MadeAt(q, a) == q[a[1]][a[2]].cmd.createdAt
Before(q, a) == {b \in Positions(q) : DroppedBefore(q, b, a)}

\* A queue has QueueLen positions.
LEMMA PositionFacts ==
  ASSUME NEW q \in [Priorities -> Seq(ItemSet)], TwinFree(q)
  PROVE  /\ IsFiniteSet(Positions(q))
         /\ QueueLen(q) \in Nat /\ Cardinality(Positions(q)) = QueueLen(q)
         /\ \A a \in Positions(q) :
              /\ a[1] \in Priorities /\ a[2] \in Nat /\ a[2] \in DOMAIN q[a[1]]
              /\ MadeAt(q, a) \in Nat
              /\ IsFiniteSet(Before(q, a)) /\ Cardinality(Before(q, a)) \in Nat
<1>1. /\ IsFiniteSet(Queued(q)) /\ Queued(q) \subseteq Commands
      /\ QueueLen(q) = Cardinality(Queued(q))
  BY QueueMeasures
<1>2. CmdAt(q) \in Bijection(Positions(q), Queued(q))
  BY PositionsCmds
<1>3. CmdAt(q) \in Injection(Positions(q), Queued(q))
  BY <1>2 DEF Bijection
<1>4. IsFiniteSet(Positions(q))
  BY <1>1, <1>3, FS_Injection
<1>5. ExistsBijection(Positions(q), Queued(q))
  BY <1>2 DEF ExistsBijection
<1>6. Cardinality(Positions(q)) = QueueLen(q) /\ QueueLen(q) \in Nat
  BY <1>1, <1>4, <1>5, FS_Bijection, FS_CardinalityType
<1>7. ASSUME NEW a \in Positions(q)
      PROVE  /\ a[1] \in Priorities /\ a[2] \in Nat /\ a[2] \in DOMAIN q[a[1]]
             /\ MadeAt(q, a) \in Nat
             /\ IsFiniteSet(Before(q, a)) /\ Cardinality(Before(q, a)) \in Nat
  <2>1. a[1] \in Priorities /\ a[2] \in DOMAIN q[a[1]]
    BY SMTT(30) DEF Positions
  <2>2. q[a[1]] \in Seq(ItemSet)
    BY <2>1
  <2>3. a[2] \in Nat /\ q[a[1]][a[2]] \in ItemSet
    BY <2>1, <2>2, SMTT(30)
  <2>4. MadeAt(q, a) \in Nat
    BY <2>3, CommandsAssumption DEF ItemSet, CommandRecord, MadeAt
  <2>5. IsFiniteSet(Before(q, a))
    BY <1>4, FS_Subset DEF Before
  <2> QED BY <2>1, <2>3, <2>4, <2>5, FS_CardinalityType
<1> QED BY <1>4, <1>6, <1>7

\* Without its n oldest commands a queue has none that is older than one of these.
LEMMA OldestDropped ==
  ASSUME NEW q \in [Priorities -> Seq(ItemSet)], TwinFree(q), NEW n \in Nat,
         NEW d \in Queued(q), d \notin Queued(Without(q, Oldest(q, n))),
         NEW e \in Queued(Without(q, Oldest(q, n)))
  PROVE  d.createdAt <= e.createdAt
<1> DEFINE gone == Oldest(q, n)
<1>1. \A a \in Positions(q) : a \in gone <=> Cardinality(Before(q, a)) < n
  BY DEF Oldest, Before
<1> HIDE DEF gone
<1>2. \A p \in Priorities : \A i \in DOMAIN q[p] : <<p, i>> \in Positions(q)
  BY SMTT(30) DEF Positions
<1>3. \A p \in Priorities : \A c :
        c \in Cmds(Without(q, gone)[p]) <=>
          \E i \in DOMAIN q[p] : <<p, i>> \notin gone /\ q[p][i].cmd = c
  BY WithoutCmds
<1>4. PICK a \in Positions(q) : a \in gone /\ MadeAt(q, a) = d.createdAt
  <2>1. PICK p \in Priorities : d \in Cmds(q[p])
    BY DEF Queued
  <2>2. PICK i \in DOMAIN q[p] : q[p][i].cmd = d
    BY <2>1, CmdsElements
  <2>3. <<p, i>> \in gone
    BY <1>3, <2>2 DEF Queued, gone
  <2> QED BY <1>2, <2>2, <2>3 DEF MadeAt
<1>5. PICK b \in Positions(q) : b \notin gone /\ MadeAt(q, b) = e.createdAt
  <2>1. PICK p \in Priorities : e \in Cmds(Without(q, gone)[p])
    BY DEF Queued, gone
  <2>2. PICK i \in DOMAIN q[p] : <<p, i>> \notin gone /\ q[p][i].cmd = e
    BY <1>3, <2>1
  <2> QED BY <1>2, <2>2 DEF MadeAt
<1>6. \A x \in Positions(q) :
        MadeAt(q, x) \in Nat /\ IsFiniteSet(Before(q, x)) /\ Cardinality(Before(q, x)) \in Nat
  BY PositionFacts
<1>7. ASSUME MadeAt(q, b) < MadeAt(q, a) PROVE FALSE
  <2>1. Before(q, b) \subseteq Before(q, a)
    <3>1. ASSUME NEW x \in Positions(q), DroppedBefore(q, x, b)
          PROVE  DroppedBefore(q, x, a)
      <4>1. MadeAt(q, x) < MadeAt(q, b) \/ MadeAt(q, x) = MadeAt(q, b)
        BY <3>1 DEF DroppedBefore, MadeAt
      <4>2. MadeAt(q, x) < MadeAt(q, a)
        BY <1>6, <1>7, <4>1, SMTT(30)
      <4> QED BY <4>2 DEF DroppedBefore, MadeAt
    <3> QED BY <3>1 DEF Before
  <2>2. Cardinality(Before(q, b)) <= Cardinality(Before(q, a))
    BY <1>6, <2>1, FS_Subset
  <2>3. Cardinality(Before(q, a)) < n /\ ~(Cardinality(Before(q, b)) < n)
    BY <1>1, <1>4, <1>5
  <2> QED BY <1>6, <2>2, <2>3, SMTT(30)
<1> QED BY <1>4, <1>5, <1>6, <1>7, SMTT(30)

\* A queue without its QueueLen oldest commands is empty.
LEMMA AllDropped ==
  ASSUME NEW q \in [Priorities -> Seq(ItemSet)], TwinFree(q)
  PROVE  Queued(Without(q, Oldest(q, QueueLen(q)))) = {}
<1> DEFINE gone == Oldest(q, QueueLen(q))
<1>1. Positions(q) \subseteq gone
  <2> SUFFICES ASSUME NEW a \in Positions(q) PROVE Cardinality(Before(q, a)) < QueueLen(q)
    BY DEF Oldest, Before
  <2>1. ~DroppedBefore(q, a, a)
    <3>1. /\ MadeAt(q, a) \in Nat /\ a[2] \in Nat /\ a[1] \in Priorities
      BY PositionFacts
    <3>2. Rank(a[1]) \in Nat
      BY <3>1, SMTT(30) DEF Rank, Priorities
    <3> QED BY <3>1, <3>2, SMTT(30) DEF DroppedBefore, MadeAt
  <2>2. Before(q, a) \subseteq Positions(q) /\ Before(q, a) # Positions(q)
    BY <2>1 DEF Before
  <2>3. Cardinality(Before(q, a)) < Cardinality(Positions(q))
    BY <2>2, PositionFacts, FS_Subset, SMTT(30)
  <2> QED BY <2>3, PositionFacts
<1> HIDE DEF gone
<1>2. \A p \in Priorities : \A c :
        c \in Cmds(Without(q, gone)[p]) <=>
          \E i \in DOMAIN q[p] : <<p, i>> \notin gone /\ q[p][i].cmd = c
  BY WithoutCmds
<1>3. \A p \in Priorities : \A i \in DOMAIN q[p] : <<p, i>> \in gone
  BY <1>1, SMTT(30) DEF Positions
<1>4. Queued(Without(q, gone)) = {}
  <2>1. \A p \in Priorities : \A c : c \notin Cmds(Without(q, gone)[p])
    BY <1>2, <1>3
  <2> QED BY <2>1 DEF Queued
<1> QED BY <1>4 DEF gone

\* Without its 0 oldest commands a queue has all of them.
LEMMA NoneDropped ==
  ASSUME NEW q \in [Priorities -> Seq(ItemSet)], TwinFree(q)
  PROVE  Queued(q) \subseteq Queued(Without(q, Oldest(q, 0)))
<1> DEFINE gone == Oldest(q, 0)
<1>1. gone = {}
  <2> SUFFICES ASSUME NEW a \in Positions(q) PROVE ~(Cardinality(Before(q, a)) < 0)
    BY DEF Oldest, Before
  <2>1. Cardinality(Before(q, a)) \in Nat
    BY PositionFacts
  <2> QED BY <2>1, SMTT(30)
<1> HIDE DEF gone
<1>2. \A p \in Priorities : \A c :
        c \in Cmds(Without(q, gone)[p]) <=>
          \E i \in DOMAIN q[p] : <<p, i>> \notin gone /\ q[p][i].cmd = c
  BY WithoutCmds
<1>3. \A p \in Priorities : Cmds(q[p]) \subseteq Cmds(Without(q, gone)[p])
  <2> TAKE p \in Priorities
  <2> SUFFICES ASSUME NEW c \in Cmds(q[p]) PROVE c \in Cmds(Without(q, gone)[p])
    OBVIOUS
  <2>1. PICK i \in DOMAIN q[p] : q[p][i].cmd = c
    BY CmdsElements
  <2> QED BY <1>1, <1>2, <2>1
<1>4. Queued(q) \subseteq Queued(Without(q, gone))
  BY <1>3 DEF Queued
<1> QED BY <1>4 DEF gone

\* The drop_oldest loop ends when the command fits or nothing is left, and does
\* not begin when commands are to be rejected.
LEMMA RoomMade ==
  ASSUME NEW q \in [Priorities -> Seq(ItemSet)], TwinFree(q), NEW c
  PROVE  /\ DropCount(q, c) \in Nat
         /\ \/ Fits(MakeRoom(q, c), c)
            \/ DropCount(q, c) = 0
            \/ DropCount(q, c) = QueueLen(q)
<1> DEFINE enough == {n \in 0..QueueLen(q) : Fits(Without(q, Oldest(q, n)), c)}
           least == CHOOSE n \in enough : \A m \in enough : n <= m
<1>1. QueueLen(q) \in Nat
  BY PositionFacts
<1>2. enough \in SUBSET Nat
  BY <1>1, SMTT(30)
<1>3. \A n \in enough : Fits(Without(q, Oldest(q, n)), c)
  OBVIOUS
<1>4. DropCount(q, c) = IF OverflowPolicy = "reject" THEN 0
                        ELSE IF enough = {} THEN QueueLen(q) ELSE least
  BY DEF DropCount
<1> HIDE DEF enough
<1>5. enough # {} => least \in enough
  BY <1>2, LeastNumber
<1> HIDE DEF least
<1>6. CASE OverflowPolicy = "reject"
  BY <1>4, <1>6, SMTT(30)
<1>7. CASE OverflowPolicy # "reject" /\ enough = {}
  BY <1>1, <1>4, <1>7
<1>8. CASE OverflowPolicy # "reject" /\ enough # {}
  BY <1>2, <1>3, <1>4, <1>5, <1>8 DEF MakeRoom
<1> QED BY <1>6, <1>7, <1>8

\* Enqueue is the only step that puts a command into the queue which the adapter
\* did not hold, and the only one that drops any.
LEMMA OnlyEnqueue ==
  ASSUME IInv, [Next]_vars, ~Crash, \A c \in Commands : ~Accept(c) /\ ~Refuse(c)
  PROVE  Queued(sess'.queue) \subseteq Live /\ fate' = fate
<1>1. Held(sess) \cup Carried(fl) = Live /\ Queued(sess'.queue) \subseteq Held(sess')
  BY DEF Held, Carried, Live, SkippedCmds, HandCmds, InFlightCmds, EntryCmds
<1>2. Moves => Queued(sess'.queue) \subseteq Live
  BY <1>1 DEF Moves
<1>3. ASSUME NEW k \in Conns, ConnStep(k) PROVE Moves /\ fate' = fate
  <2>1. fate' = fate
    BY <1>3 DEF ConnStep, Connect, Register, AdoptFrameMode, RegistrationAck, Receive,
                ReadFails, Handle, ActStatus1, ActAck, ActOther, GoOffline, CloseConn, histVars
  <2> QED BY <1>3, <2>1, ConnMoves
<1>4. ASSUME NEW p \in Procs, FlushStep(p) PROVE Moves /\ fate' = fate
  <2>1. fate' = fate
    BY <1>4 DEF FlushStep, ProcessStep, Publish, Context, Count, Drain, PopNothing, Pop,
                Number, Send, InFlight, Modes, AckSent, EndScan, ClearSync, ClearFW,
                ReturnError, histVars
  <2> QED BY <1>4, <2>1, FlushMoves
<1>5. CASE \/ \E c \in Commands : ExpireTTL(c)
           \/ \E e \in sess.inFlight : AckTimerElapses(e)
           \/ \E key \in sess.dedup : DedupWindowEnds(key)
  <2>1. fate' = fate
    BY <1>5 DEF ExpireTTL, AckTimerElapses, DedupWindowEnds, histVars
  <2> QED BY <1>2, <1>5, <2>1, TimeMoves
<1>6. CASE UNCHANGED vars
  BY <1>1, <1>6 DEF vars, sessVars, histVars, Live
<1> QED BY <1>2, <1>3, <1>4, <1>5, <1>6 DEF Next, Environment

\* A command that enters leaves the queue within its limits, and costs only older
\* ones their place.
LEMMA AcceptSound ==
  ASSUME IInv, NEW c \in Commands, Accept(c)
  PROVE  /\ Entering = {c} /\ QueueBounded'
         /\ \A d \in Dropped : \A e \in Queued(sess'.queue) \ Entering :
              d.createdAt <= e.createdAt
<1> DEFINE q == sess.queue
           n == DropCount(q, c)
           room == MakeRoom(q, c)
           x == Item(c, 0, 0)
<1>1. q \in [Priorities -> Seq(ItemSet)] /\ TwinFree(q)
  BY QueueFinite
<1>2. /\ room \in [Priorities -> Seq(ItemSet)] /\ TwinFree(room)
      /\ Queued(room) \subseteq Queued(q)
  BY RoomCmds DEF IInv
<1>3. Fits(room, c) /\ fate[c] = "new"
  BY DEF Accept
<1>4. c \notin Live
  BY <1>3 DEF IInv, Fresh, Held, Carried, Live, SkippedCmds, HandCmds, InFlightCmds, EntryCmds
<1>5. Queued(q) \subseteq Live
  BY DEF Live
<1>6. sess'.queue = Push(room, x)
  BY DEF Accept, RecordKey, IInv, SessionOK, LegalSession, SessionSet
<1>7. x \in ItemSet /\ x.cmd = c
  BY SeqsType DEF Item, ItemSet
<1>8. \A d \in Dropped : d \in Queued(q) \ Queued(room)
  BY DEF Dropped, Accept
<1>9. n \in Nat /\ room = Without(q, Oldest(q, n))
  BY <1>1, RoomMade DEF MakeRoom
<1> HIDE DEF q, n, room, x
<1>10. Queued(Push(room, x)) = Queued(room) \cup {c}
  <2>1. room \in [Priorities -> Seq(ItemSet)] /\ x \in ItemSet
    BY <1>2, <1>7
  <2>2. Queued(Push(room, x)) = Queued(room) \cup {x.cmd}
    BY ONLY <2>1, PushCmds, SMTT(30)
  <2> QED BY <1>7, <2>2
<1>11. Entering = {c} /\ Queued(sess'.queue) \ Entering = Queued(room)
  BY <1>2, <1>4, <1>5, <1>6, <1>10 DEF Entering
<1>12. QueueBounded'
  <2>1. WithinLimits(Queued(sess'.queue))
    BY <1>2, <1>3, <1>4, <1>5, <1>6, <1>10, FitsWithin
  <2>2. IInv'
    BY AcceptKeeps
  <2>3. sess'.queue \in [Priorities -> Seq(ItemSet)] /\ TwinFree(sess'.queue)
    BY <2>2 DEF IInv, SessionOK, LegalSession, SessionSet
  <2> QED BY <2>1, <2>3, QueueMeasures DEF WithinLimits, QueueBounded
<1>13. \A d \in Dropped : \A e \in Queued(room) : d.createdAt <= e.createdAt
  BY <1>1, <1>8, <1>9, OldestDropped
<1> QED BY <1>11, <1>12, <1>13

\* A command that is refused costs none its place, or all.
LEMMA RefuseSound ==
  ASSUME IInv, NEW c \in Commands, Refuse(c)
  PROVE  Entering = {} /\ (Dropped = {} \/ Queued(sess'.queue) = {})
<1> DEFINE q == sess.queue
           room == MakeRoom(q, c)
<1>1. q \in [Priorities -> Seq(ItemSet)] /\ TwinFree(q)
  BY QueueFinite
<1>2. CASE sess' = sess /\ fate' = [fate EXCEPT ![c] = "refused"]
  <2>1. Entering = {}
    BY <1>2 DEF Entering, Live
  <2>2. Dropped = {}
    BY <1>2 DEF Dropped, IInv, ControlOK
  <2> QED BY <2>1, <2>2
<1>3. CASE /\ ~Fits(room, c) /\ sess' = [RecordKey(sess, c) EXCEPT !.queue = room]
           /\ fate' = [d \in Commands |->
                         IF d = c THEN "refused"
                         ELSE IF d \in Queued(q) \ Queued(room) THEN "dropped" ELSE fate[d]]
  <2>1. sess'.queue = room
    BY <1>3 DEF RecordKey, IInv, SessionOK, LegalSession, SessionSet
  <2>2. Queued(room) \subseteq Queued(q)
    BY RoomCmds DEF IInv
  <2>3. Entering = {}
    BY <2>1, <2>2 DEF Entering, Live
  <2>4. \A d \in Dropped : d \in Queued(q) \ Queued(room)
    BY <1>3 DEF Dropped
  <2>5. DropCount(q, c) = 0 \/ DropCount(q, c) = QueueLen(q)
    BY <1>1, <1>3, RoomMade
  <2>6. Queued(q) \subseteq Queued(room) \/ Queued(room) = {}
    BY <1>1, <2>5, NoneDropped, AllDropped DEF MakeRoom
  <2> QED BY <2>1, <2>3, <2>4, <2>6
<1> QED BY <1>2, <1>3 DEF Refuse

\* Whatever comes back to the queue, and however full it is: a command from
\* outside enters only if the queue is then within its limits, only the oldest
\* commands are dropped, and only for one that enters unless all of them are.
THEOREM OverflowAlwaysSound == Spec => OverflowSound
<1>1. IInv /\ [Next]_vars =>
        [crashes' = crashes =>
           /\ Entering # {} => QueueBounded'
           /\ Dropped # {} => Entering # {} \/ Queued(sess.queue)' = {}
           /\ \A d \in Dropped : \A c \in Queued(sess.queue)' \ Entering :
                d.createdAt <= c.createdAt]_vars
  <2> SUFFICES ASSUME IInv, [Next]_vars, crashes' = crashes
               PROVE  /\ Entering # {} => QueueBounded'
                      /\ Dropped # {} => Entering # {} \/ Queued(sess.queue)' = {}
                      /\ \A d \in Dropped : \A c \in Queued(sess.queue)' \ Entering :
                           d.createdAt <= c.createdAt
    OBVIOUS
  <2>1. ~Crash
    BY SMTT(30) DEF Crash, IInv, ControlOK
  <2>2. ASSUME NEW c \in Commands, Accept(c) \/ Refuse(c)
        PROVE  /\ Entering # {} => QueueBounded'
               /\ Dropped # {} => Entering # {} \/ Queued(sess.queue)' = {}
               /\ \A d \in Dropped : \A e \in Queued(sess.queue)' \ Entering :
                    d.createdAt <= e.createdAt
    BY <2>2, AcceptSound, RefuseSound
  <2>3. CASE \A c \in Commands : ~Accept(c) /\ ~Refuse(c)
    <3>1. Entering = {} /\ Dropped = {}
      BY <2>1, <2>3, OnlyEnqueue DEF Entering, Dropped
    <3> QED BY <3>1
  <2> QED BY <2>2, <2>3
<1> QED BY <1>1, InitKeeps, NextKeeps, PTL DEF Spec, OverflowSound
=============================================================================
