------------------------- MODULE DeliveryLifeProofs -------------------------
(***************************************************************************)
(* Sequence numbers, and the life of a command.                            *)
(*                                                                         *)
(* Until the 8-bit counter of sequence numbers wraps, and as long as no    *)
(* save fails, every sequence number has one owner: RegisterInFlight       *)
(* overwrites no entry, and an ack11 settles the command whose frame it    *)
(* answers.  ClaimInv says that some function own gives the command each   *)
(* number was handed out to, and that every number kept in the queue, in   *)
(* the table of commands in flight, in the snapshot, in the hands of       *)
(* flushQueue or in a frame on the wire is kept with its owner.  A step    *)
(* that hands out no number keeps own; nextCommandSeq extends it by one    *)
(* number.  A restart loads the snapshot, which has the counter and the    *)
(* table of the session (InFlightDurable), so own survives it.             *)
(*                                                                         *)
(* The second part puts the results of all Delivery proofs together: the   *)
(* ledger says where a command is, the account of writes and the owners of *)
(* numbers bound what a step may do to it, and so every step of the        *)
(* delivery is a step of CommandLife.                                      *)
(***************************************************************************)
EXTENDS DeliveryOutcomeProofs, DeliveryLife

\* A leaf goes to Zenon, unless it names the SMT solver: where it needs
\* arithmetic, or functions and records are rewritten.
USE ZenonT(30)

\* own says which command each sequence number was handed out to.  The items
\* and the entries that carry a number carry one of their own command; every
\* entry carries one.
ClaimItems(own) ==
  {x \in ItemSet : x.retrySeq # 0 => x.retrySeq \in DOMAIN own /\ own[x.retrySeq] = x.cmd}

ClaimEntries(own) ==
  {e \in SavedEntrySet : e.seq \in DOMAIN own /\ own[e.seq] = e.cmd}

\* Wherever a number is kept, in memory, on disk or in a frame, it is one of the
\* command it is kept with.
Claims(own) ==
  /\ Within(sess, fl, ClaimItems(own), ClaimEntries(own))
  /\ fl.hand \subseteq ClaimItems(own)
  /\ disk.pending \in Seq(ClaimItems(own)) /\ disk.inFlight \subseteq ClaimEntries(own)
  /\ \A p \in Procs : pc[p] \in {"send", "inflight"} =>
       \A x \in fl.hand : fl.seq \in DOMAIN own /\ own[fl.seq] = x.cmd
  /\ \A f \in wire : f.seq # 0 => f.seq \in DOMAIN own /\ own[f.seq] = f.cmd

Owned ==
  /\ \E own \in [1..issued -> Commands] : Claims(own)
  /\ sess.nextSeq = issued
  /\ overrun = {} /\ credited = {}

ClaimInv == failures = 0 /\ issued < NumSeqs => Owned

\* An ack11 that is being handled answers a frame that was written.
AcksAnswer == \A k \in Conns : msg[k].type = "ack" => msg[k].frame \in wire

\* As long as no save fails, a step saves the session it leaves or saves nothing.
LEMMA SavedOrNot ==
  ASSUME IInv, [Next]_vars, failures' = 0
  PROVE  Saved \/ NotSaved
<1>1. \A t : ~SaveFailedOf(t)
  BY NoFailure
<1>2. CASE UNCHANGED vars
  BY <1>2 DEF vars, sessVars, NotSaved
<1>3. CASE \/ \E k \in Conns : ConnStep(k)
           \/ \E p \in Procs : FlushStep(p)
  BY <1>1, <1>3, GoroutineDurable DEF Durable
<1>4. CASE Environment
  BY <1>1, <1>4 DEF Environment, Refuse, Accept, ExpireTTL, AckTimerElapses,
     DedupWindowEnds, Crash, NotSaved, SaveFailed, sessVars
<1> QED BY <1>2, <1>3, <1>4 DEF Next

\* What is saved was in memory.
LEMMA StoreWithin ==
  ASSUME NEW S, NEW T, Within(sess', fl', S, T), Saved \/ NotSaved,
         disk.pending \in Seq(S), disk.inFlight \subseteq T
  PROVE  disk'.pending \in Seq(S) /\ disk'.inFlight \subseteq T
<1>1. CASE Saved
  <2>1. /\ disk'.pending = Snapshot(sess'.queue)
        /\ disk'.inFlight = {SavedEntry(e) : e \in sess'.inFlight}
    BY <1>1 DEF Saved, SessionSnapshot
  <2>2. Snapshot(sess'.queue) \in Seq(S)
    BY SnapshotCmds DEF Within
  <2> QED BY <2>1, <2>2 DEF Within
<1>2. CASE NotSaved
  BY <1>2 DEF NotSaved
<1> QED BY <1>1, <1>2

\* Only nextCommandSeq moves the sequence counter.
LEMMA SameIssued ==
  ASSUME [Next]_vars, \A p \in Procs : ~Number(p)
  PROVE  issued' = issued
<1>1. ASSUME NEW k \in Conns, ConnStep(k) PROVE issued' = issued
  BY <1>1 DEF ConnStep, Connect, Register, AdoptFrameMode, RegistrationAck, Receive,
     ReadFails, Handle, ActStatus1, ActAck, ActOther, GoOffline, CloseConn, histVars
<1>2. ASSUME NEW p \in Procs, FlushStep(p) PROVE issued' = issued
  BY <1>2 DEF FlushStep, ProcessStep, Publish, Context, Count, Drain, PopNothing,
     Pop, Send, InFlight, Modes, AckSent, EndScan, ClearSync, ClearFW, ReturnError, histVars
<1>3. CASE Environment
  BY <1>3 DEF Environment, Refuse, Accept, ExpireTTL, AckTimerElapses,
     DedupWindowEnds, Crash, histVars
<1>4. CASE UNCHANGED vars
  BY <1>4 DEF vars, histVars
<1> QED BY <1>1, <1>2, <1>3, <1>4 DEF Next

\* The numbers handed out are counted, and the count never goes back.
LEMMA IssuedGrows ==
  ASSUME IInv, [Next]_vars, issued' < NumSeqs
  PROVE  issued < NumSeqs
<1>1. ASSUME NEW p \in Procs, Number(p) PROVE issued < NumSeqs
  <2>1. issued' = issued \/ issued < NumSeqs
    BY <1>1 DEF Number
  <2> QED BY <2>1
<1> QED BY <1>1, SameIssued

\* Only the handler of an ack11 credits a command with an answer.
LEMMA SameCredited ==
  ASSUME [Next]_vars, \A k \in Conns : ~ActAck(k)
  PROVE  credited' = credited
<1>1. ASSUME NEW k \in Conns, ConnStep(k) PROVE credited' = credited
  BY <1>1 DEF ConnStep, Connect, Register, AdoptFrameMode, RegistrationAck, Receive,
     ReadFails, Handle, ActStatus1, ActOther, GoOffline, CloseConn, histVars
<1>2. ASSUME NEW p \in Procs, FlushStep(p) PROVE credited' = credited
  BY <1>2 DEF FlushStep, ProcessStep, Publish, Context, Count, Drain, PopNothing,
     Pop, Number, Send, InFlight, Modes, AckSent, EndScan, ClearSync, ClearFW, ReturnError, histVars
<1>3. CASE Environment
  BY <1>3 DEF Environment, Refuse, Accept, ExpireTTL, AckTimerElapses,
     DedupWindowEnds, Crash, histVars
<1>4. CASE UNCHANGED vars
  BY <1>4 DEF vars, histVars
<1> QED BY <1>1, <1>2, <1>3, <1>4 DEF Next

\* Frames are written and never taken back, so what an ack11 answers stays
\* written.
LEMMA AcksKeep ==
  ASSUME IInv, AcksAnswer, [Next]_vars
  PROVE  AcksAnswer'
<1>1. wire \subseteq wire'
  <2>1. ASSUME NEW k \in Conns, ConnStep(k) PROVE wire' = wire
    BY <2>1 DEF ConnStep, Connect, Register, AdoptFrameMode, RegistrationAck, Receive,
       ReadFails, Handle, ActStatus1, ActAck, ActOther, GoOffline, CloseConn
  <2>2. ASSUME NEW p \in Procs, FlushStep(p), ~Send(p) PROVE wire' = wire
    BY <2>2 DEF FlushStep, ProcessStep, Publish, Context, Count, Drain, PopNothing,
       Pop, Number, InFlight, Modes, AckSent, EndScan, ClearSync, ClearFW, ReturnError
  <2>3. ASSUME NEW p \in Procs, Send(p) PROVE wire \subseteq wire'
    <3>1. wire' = wire \/ \E f : wire' = wire \cup {f}
      BY <2>3 DEF Send
    <3> QED BY <3>1
  <2>4. CASE Environment
    BY <2>4 DEF Environment, Refuse, Accept, ExpireTTL, AckTimerElapses,
       DedupWindowEnds, Crash
  <2>5. CASE UNCHANGED vars
    BY <2>5 DEF vars
  <2> QED BY <2>1, <2>2, <2>3, <2>4, <2>5 DEF Next
<1>2. ASSUME NEW k \in Conns PROVE msg'[k] = msg[k] \/ msg'[k].type # "ack" \/ msg'[k].frame \in wire
  <2>0. msg \in [Conns -> MessageSet] /\ NoMsg.type # "ack"
    BY DEF IInv, ControlOK, NoMsg
  <2>1. ASSUME NEW j \in Conns, NEW m, msg' = [msg EXCEPT ![j] = m],
               m.type # "ack" \/ m.frame \in wire
        PROVE  msg'[k] = msg[k] \/ msg'[k].type # "ack" \/ msg'[k].frame \in wire
    BY <2>0, <2>1
  <2>2. ASSUME NEW j \in Conns, ConnStep(j)
        PROVE  \/ msg' = msg \/ msg' = [msg EXCEPT ![j] = NoMsg]
               \/ \E mode \in FrameModes :
                    msg' = [msg EXCEPT ![j] = [type |-> "register", mode |-> mode]]
               \/ \E m \in Messages : msg' = [msg EXCEPT ![j] = m]
    BY <2>2 DEF ConnStep, Connect, Register, AdoptFrameMode, RegistrationAck, Receive,
       ReadFails, Handle, ActStatus1, ActAck, ActOther, GoOffline, CloseConn
  <2>3. \A m \in Messages : m.type # "ack" \/ m.frame \in wire
    BY DEF Messages
  <2>4. \A mode : [type |-> "register", mode |-> mode].type # "ack"
    OBVIOUS
  <2>5. ASSUME NEW j \in Conns, ConnStep(j)
        PROVE  msg'[k] = msg[k] \/ msg'[k].type # "ack" \/ msg'[k].frame \in wire
    BY <2>0, <2>1, <2>2, <2>3, <2>4, <2>5
  <2>6. ASSUME NEW p \in Procs, FlushStep(p) PROVE msg' = msg
    BY <2>6 DEF FlushStep, ProcessStep, Publish, Context, Count, Drain, PopNothing, Pop,
       Number, Send, InFlight, Modes, AckSent, EndScan, ClearSync, ClearFW, ReturnError
  <2>7. CASE Environment /\ ~Crash
    BY <2>7 DEF Environment, Refuse, Accept, ExpireTTL, AckTimerElapses,
       DedupWindowEnds, procVars
  <2>8. CASE Crash
    BY <2>0, <2>8 DEF Crash
  <2>9. CASE UNCHANGED vars
    BY <2>9 DEF vars, procVars
  <2> QED BY <2>5, <2>6, <2>7, <2>8, <2>9 DEF Next
<1> QED BY <1>1, <1>2 DEF AcksAnswer
-----------------------------------------------------------------------------
\* A calm step hands out no number and moves none.
LEMMA CalmClaims ==
  ASSUME NEW own, Claims(own), Calm, Saved \/ NotSaved,
         Within(sess', fl', ClaimItems(own), ClaimEntries(own))
  PROVE  Claims(own)'
<1>1. disk'.pending \in Seq(ClaimItems(own)) /\ disk'.inFlight \subseteq ClaimEntries(own)
  BY StoreWithin DEF Claims
<1>2. fl'.hand \subseteq ClaimItems(own)
  BY DEF Claims, Calm
<1>3. \A p \in Procs : pc'[p] \in {"send", "inflight"} =>
        \A x \in fl'.hand : fl'.seq \in DOMAIN own /\ own[fl'.seq] = x.cmd
  BY DEF Claims, Calm, Holding
<1>4. \A f \in wire' : f.seq # 0 => f.seq \in DOMAIN own /\ own[f.seq] = f.cmd
  BY DEF Claims, Calm
<1> QED BY <1>1, <1>2, <1>3, <1>4 DEF Claims

\* So it keeps the owners of the numbers.
LEMMA CalmOwned ==
  ASSUME Owned, NEW own \in [1..issued -> Commands], Claims(own), Calm, Saved \/ NotSaved,
         Within(sess', fl', ClaimItems(own), ClaimEntries(own)), credited' = credited
  PROVE  Owned'
<1>1. Claims(own)'
  BY CalmClaims
<1>2. issued' = issued /\ sess'.nextSeq = issued' /\ overrun' = {} /\ credited' = {}
  BY DEF Calm, Owned
<1> QED BY <1>1, <1>2 DEF Owned

\* The command that a terminal ack11 completes is the one it answers: both have
\* the same number.
LEMMA AckOwned ==
  ASSUME IInv, AcksAnswer, NEW own \in [1..issued -> Commands], Claims(own),
         NEW k \in Conns, ActAck(k)
  PROVE  credited' = credited
<1> DEFINE n == msg[k].frame.seq
           done == {e.cmd : e \in {e \in sess.inFlight : e.seq = n}}
<1>1. msg[k].frame \in wire
  BY DEF ActAck, AcksAnswer
<1>2. credited' = credited \/ credited' = credited \cup (done \ {msg[k].frame.cmd})
  BY DEF ActAck
<1>3. ASSUME NEW e \in sess.inFlight, e.seq = n PROVE e.cmd = msg[k].frame.cmd
  <2>1. SavedEntry(e) \in ClaimEntries(own)
    BY DEF Claims, Within
  <2>2. e.seq \in DOMAIN own /\ own[e.seq] = e.cmd
    BY <2>1 DEF ClaimEntries, SavedEntry
  <2>3. e.seq # 0
    BY <2>2, SMTT(30)
  <2>4. msg[k].frame.seq # 0 => own[n] = msg[k].frame.cmd
    BY <1>1 DEF Claims
  <2> QED BY <1>3, <2>2, <2>3, <2>4
<1>4. done \ {msg[k].frame.cmd} = {}
  BY <1>3
<1> HIDE DEF done
<1> QED BY <1>2, <1>4
\* processInFlight keeps the number of an entry for its retry.
LEMMA ProcessOwned ==
  ASSUME IInv, PhaseInv, NEW own, Claims(own), NEW p \in Procs, ProcessStep(p)
  PROVE  Calm /\ Within(sess', fl', ClaimItems(own), ClaimEntries(own))
<1>1. ASSUME NEW e \in TimedOutRetrying(sess, expired)
      PROVE  Item(e.cmd, e.attempts, e.seq) \in ClaimItems(own)
  <2>1. e \in sess.inFlight
    BY DEF TimedOutRetrying, Unexpired, Due
  <2>2. e \in EntrySet
    BY <2>1 DEF IInv, SessionOK, LegalSession, SessionSet
  <2>3. SavedEntry(e) \in ClaimEntries(own)
    BY <2>1 DEF Claims, Within
  <2>4. e.seq \in DOMAIN own /\ own[e.seq] = e.cmd
    BY <2>3 DEF ClaimEntries, SavedEntry
  <2> DEFINE x == Item(e.cmd, e.attempts, e.seq)
  <2>5. x \in ItemSet /\ x.cmd = e.cmd /\ x.retrySeq = e.seq
    BY <2>2 DEF Item, ItemSet, EntrySet
  <2> HIDE DEF x
  <2>6. x \in ClaimItems(own)
    BY <2>4, <2>5 DEF ClaimItems
  <2> QED BY <2>6 DEF x
<1>2. Within(sess', fl', ClaimItems(own), ClaimEntries(own))
  BY <1>1, ProcessWithin DEF Claims
<1> QED BY <1>2, ProcessCalm

\* The command that is popped keeps its number.
LEMMA PopOwned ==
  ASSUME IInv, PhaseInv, NEW own, Claims(own), NEW p \in Procs, Pop(p), Saved \/ NotSaved
  PROVE  Claims(own)' /\ sess'.nextSeq = sess.nextSeq
<1>0. /\ wire' = wire /\ pc[p] = "pop" /\ pc[p] \in FlushLabels
  BY DEF Pop, At, FlushLabels
<1>1. /\ Within(sess', fl', ClaimItems(own), ClaimEntries(own)) /\ sess'.nextSeq = sess.nextSeq
      /\ \/ fl'.hand = fl.hand /\ fl'.seq = fl.seq /\ pc' = pc
         \/ Goto(p, "number") /\ fl'.hand \subseteq ClaimItems(own)
  BY PopWithin DEF Claims
<1>2. disk'.pending \in Seq(ClaimItems(own)) /\ disk'.inFlight \subseteq ClaimEntries(own)
  BY <1>1, StoreWithin DEF Claims
<1>3. CASE fl'.hand = fl.hand /\ fl'.seq = fl.seq /\ pc' = pc
  BY <1>0, <1>1, <1>2, <1>3 DEF Claims
<1>4. CASE Goto(p, "number") /\ fl'.hand \subseteq ClaimItems(own)
  <2>1. pc'[p] = "number" /\ \A q \in Procs : q # p => pc'[q] \notin FlushLabels
    BY <1>0, <1>4, Alone
  <2>2. \A q \in Procs : pc'[q] \notin {"send", "inflight"}
    BY <2>1 DEF FlushLabels
  <2> QED BY <1>0, <1>1, <1>2, <1>4, <2>2 DEF Claims
<1> QED BY <1>1, <1>3, <1>4

\* A retry takes its old number, which is its own.
LEMMA RetryOwned ==
  ASSUME IInv, PhaseInv, NEW own, Claims(own), NEW p \in Procs, At(p, "number"),
         NEW x \in fl.hand, x.retrySeq # 0, Goto(p, "send"), sess' = sess, disk' = disk,
         fl' = [fl EXCEPT !.seq = x.retrySeq, !.hand = {[x EXCEPT !.retrySeq = 0]}],
         wire' = wire
  PROVE  Claims(own)'
<1> DEFINE y == [x EXCEPT !.retrySeq = 0]
<1>1. x \in ItemSet /\ fl \in FlushSet
  BY DEF IInv, FlushOK, FlushSet
<1>2. y \in ItemSet /\ y.cmd = x.cmd /\ y.retrySeq = 0
  BY <1>1, SeqsType DEF ItemSet
<1>3. x.retrySeq \in DOMAIN own /\ own[x.retrySeq] = x.cmd
  BY DEF Claims, ClaimItems
<1> HIDE DEF y
<1>4. fl'.hand = {y} /\ fl'.seq = x.retrySeq /\ fl'.skipped = fl.skipped
  BY <1>1 DEF FlushSet, y
<1>5. y \in ClaimItems(own)
  BY <1>2 DEF ClaimItems
<1>6. Within(sess', fl', ClaimItems(own), ClaimEntries(own))
  BY <1>4 DEF Claims, Within
<1>7. \A z \in fl'.hand : fl'.seq \in DOMAIN own /\ own[fl'.seq] = z.cmd
  BY <1>2, <1>3, <1>4
<1> QED BY <1>4, <1>5, <1>6, <1>7 DEF Claims

\* A fresh number has no owner yet: the command in the hands of flushQueue
\* becomes it.
LEMMA FreshOwned ==
  ASSUME IInv, PhaseInv, NEW own \in [1..issued -> Commands], Claims(own),
         sess.nextSeq = issued, issued + 1 < NumSeqs,
         NEW p \in Procs, At(p, "number"), NEW x \in fl.hand,
         Goto(p, "send"), sess' = NextCommandSeq(sess), Saved,
         fl' = [fl EXCEPT !.seq = sess'.nextSeq], wire' = wire, issued' = issued + 1
  PROVE  sess'.nextSeq = issued' /\ \E o \in [1..issued' -> Commands] : Claims(o)'
<1>1. /\ sess \in SessionSet /\ fl \in FlushSet /\ x \in ItemSet /\ issued \in Nat
      /\ fl.hand = {x}
  BY LimitsAssumption, SMTT(30) DEF IInv, SessionOK, LegalSession, FlushOK, FlushSet, ControlOK, PhaseInv
<1>2. /\ Quiet(sess, sess')
      /\ sess'.nextSeq = issued + 1
  <2>1. Quiet(sess, sess')
    BY <1>1, QuietOperations
  <2>2. sess'.nextSeq = (issued + 1) % NumSeqs
    BY <1>1 DEF NextCommandSeq, SessionSet
  <2>3. (issued + 1) % NumSeqs = issued + 1
    BY <1>1, LimitsAssumption, SMTT(30)
  <2> QED BY <2>1, <2>2, <2>3
<1>3. PICK o \in [1..(issued + 1) -> Commands] :
        /\ o[issued + 1] = x.cmd
        /\ \A n \in DOMAIN own : n \in DOMAIN o /\ o[n] = own[n]
  <2> DEFINE t == [n \in 1..(issued + 1) |-> IF n = issued + 1 THEN x.cmd ELSE own[n]]
  <2>1. x.cmd \in Commands
    BY <1>1 DEF ItemSet
  <2>2. \A n \in 1..(issued + 1) : n # issued + 1 => n \in 1..issued
    BY <1>1, SMTT(30)
  <2>3. t \in [1..(issued + 1) -> Commands]
    BY <2>1, <2>2
  <2>4. DOMAIN own = 1..issued /\ \A n \in 1..issued : n \in 1..(issued + 1) /\ n # issued + 1
    BY <1>1, SMTT(30)
  <2>5. issued + 1 \in 1..(issued + 1)
    BY <1>1, SMTT(30)
  <2>6. t[issued + 1] = x.cmd /\ \A n \in DOMAIN own : n \in DOMAIN t /\ t[n] = own[n]
    BY <2>4, <2>5
  <2> HIDE DEF t
  <2> QED BY <2>3, <2>6
<1>4. ClaimItems(own) \subseteq ClaimItems(o) /\ ClaimEntries(own) \subseteq ClaimEntries(o)
  BY <1>3 DEF ClaimItems, ClaimEntries
<1>5. fl'.hand = fl.hand /\ fl'.skipped = fl.skipped /\ fl'.seq = issued + 1
  BY <1>1, <1>2 DEF FlushSet
<1>6. Within(sess, fl, ClaimItems(o), ClaimEntries(o))
  BY <1>4, WithinGrows DEF Claims
<1>7. Within(sess', fl', ClaimItems(o), ClaimEntries(o))
  BY <1>2, <1>5, <1>6, QuietWithin
<1>8. disk'.pending \in Seq(ClaimItems(o)) /\ disk'.inFlight \subseteq ClaimEntries(o)
  <2>1. disk.inFlight \subseteq ClaimEntries(o)
    BY <1>4 DEF Claims
  <2>2. disk.pending \in Seq(ClaimItems(o))
    <3>1. disk.pending \in Seq(ClaimItems(own))
      BY DEF Claims
    <3>2. \A i \in DOMAIN disk.pending : disk.pending[i] \in ClaimItems(o)
      BY <1>4, <3>1, SeqElements
    <3> QED BY <3>1, <3>2, SeqWithin
  <2> QED BY <1>7, <2>1, <2>2, StoreWithin
<1>9. \A z \in fl'.hand : fl'.seq \in DOMAIN o /\ o[fl'.seq] = z.cmd
  <2>1. issued + 1 \in DOMAIN o
    BY <1>1, <1>3, SMTT(30)
  <2> QED BY <1>1, <1>3, <1>5, <2>1
<1>10. \A f \in wire' : f.seq # 0 => f.seq \in DOMAIN o /\ o[f.seq] = f.cmd
  BY <1>3 DEF Claims
<1>11. Claims(o)'
  BY <1>4, <1>5, <1>7, <1>8, <1>9, <1>10 DEF Claims
<1> QED BY <1>2, <1>3, <1>11

\* A frame carries the number of its command, or none.
LEMMA SendOwned ==
  ASSUME IInv, PhaseInv, NEW own, Claims(own), NEW p \in Procs, Send(p)
  PROVE  Claims(own)' /\ sess' = sess
<1>0. /\ pc[p] = "send" /\ pc[p] \in FlushLabels /\ sess' = sess /\ disk' = disk
  BY DEF Send, At, sessVars, FlushLabels
<1>1. /\ Within(sess', fl', ClaimItems(own), ClaimEntries(own))
      /\ \/ fl'.hand = {} /\ wire' = wire
         \/ /\ fl' = fl /\ Goto(p, "inflight")
            /\ \E x \in fl.hand :
                 wire' = wire \cup {[seq |-> WireSeq(fl.seq, fl.frameMode), cmd |-> x.cmd]}
  BY SendWithin DEF Claims
<1>2. CASE fl'.hand = {} /\ wire' = wire
  BY <1>0, <1>1, <1>2 DEF Claims
<1>3. ASSUME NEW x \in fl.hand, fl' = fl, Goto(p, "inflight"),
             wire' = wire \cup {[seq |-> WireSeq(fl.seq, fl.frameMode), cmd |-> x.cmd]}
      PROVE  Claims(own)'
  <2>1. fl.seq \in DOMAIN own /\ \A z \in fl.hand : own[fl.seq] = z.cmd
    BY <1>0 DEF Claims
  <2>2. \A f \in wire' : f.seq # 0 => f.seq \in DOMAIN own /\ own[f.seq] = f.cmd
    BY <1>3, <2>1, SMTT(30) DEF Claims, WireSeq
  <2> QED BY <1>0, <1>1, <1>3, <2>1, <2>2 DEF Claims
<1> QED BY <1>0, <1>1, <1>2, <1>3

\* No entry has the number of the command that is registered: its owner would
\* be in two places.
LEMMA InFlightOwned ==
  ASSUME IInv, PhaseInv, NEW own, Claims(own), NEW p \in Procs, InFlight(p), Saved \/ NotSaved
  PROVE  Claims(own)' /\ overrun' = overrun /\ sess'.nextSeq = sess.nextSeq
<1>0. /\ pc[p] = "inflight" /\ wire' = wire /\ fl \in FlushSet
      /\ overrun' = overrun \cup {e.cmd : e \in {e \in sess.inFlight : e.seq = fl.seq}}
      /\ fl.hand # {}
  BY DEF InFlight, At, IInv, FlushOK
<1>1. ASSUME NEW x \in fl.hand
      PROVE  [seq |-> fl.seq, cmd |-> x.cmd, attempts |-> x.attempts + 1] \in ClaimEntries(own)
  <2>1. x.cmd \in Commands /\ x.attempts \in Nat /\ fl.seq \in Seqs
    BY <1>0 DEF FlushSet, ItemSet
  <2>2. fl.seq \in DOMAIN own /\ own[fl.seq] = x.cmd
    BY <1>0 DEF Claims
  <2> DEFINE e == [seq |-> fl.seq, cmd |-> x.cmd, attempts |-> x.attempts + 1]
  <2>3. e \in SavedEntrySet /\ e.cmd = x.cmd /\ e.seq = fl.seq
    BY <2>1, SMTT(30) DEF SavedEntrySet
  <2> HIDE DEF e
  <2>4. e \in ClaimEntries(own)
    BY <2>2, <2>3 DEF ClaimEntries
  <2> QED BY <2>4 DEF e
<1>2. /\ Within(sess', fl', ClaimItems(own), ClaimEntries(own)) /\ fl'.hand = {}
      /\ sess'.nextSeq = sess.nextSeq
  BY <1>1, InFlightWithin DEF Claims
<1>3. \A e \in sess.inFlight : e.seq # fl.seq
  <2> SUFFICES ASSUME NEW e \in sess.inFlight, e.seq = fl.seq PROVE FALSE
    OBVIOUS
  <2>1. PICK x \in fl.hand : TRUE
    BY <1>0
  <2>2. own[fl.seq] = x.cmd
    BY <1>0 DEF Claims
  <2>3. SavedEntry(e) \in ClaimEntries(own)
    BY DEF Claims, Within
  <2>4. own[e.seq] = e.cmd
    BY <2>3 DEF ClaimEntries, SavedEntry
  <2>5. e.cmd \in Held(sess) /\ x.cmd \in Carried(fl)
    BY DEF Held, EntryCmds, Carried
  <2> QED BY <2>2, <2>4, <2>5 DEF IInv, FlushOK
<1>4. disk'.pending \in Seq(ClaimItems(own)) /\ disk'.inFlight \subseteq ClaimEntries(own)
  BY <1>2, StoreWithin DEF Claims
<1>5. Claims(own)'
  BY <1>0, <1>2, <1>4 DEF Claims
<1>6. {e \in sess.inFlight : e.seq = fl.seq} = {}
  BY <1>3
<1>7. overrun' = overrun
  BY <1>0, <1>6
<1> QED BY <1>2, <1>5, <1>7

\* A restart loads the numbers with the commands they belong to, and goes on
\* counting where it stopped.
LEMMA CrashOwned ==
  ASSUME IInv, InFlightDurable, failures = 0, NEW own, Claims(own), Crash
  PROVE  Claims(own)' /\ sess'.nextSeq = sess.nextSeq
<1>1. /\ sess' = RestoredSession(disk) /\ fl' = IdleFlush /\ wire' = wire /\ disk' = disk
  BY DEF Crash
<1>2. /\ sess'.queue = Restore(disk.pending)
      /\ sess'.inFlight = {RestoredEntry(e) : e \in disk.inFlight}
      /\ sess'.nextSeq = disk.nextSeq
  BY <1>1 DEF RestoredSession
<1>3. sess'.nextSeq = sess.nextSeq
  BY <1>2 DEF InFlightDurable
<1>4. sess'.queue \in [Priorities -> Seq(ClaimItems(own))]
  BY <1>2, RestoreCmds DEF Claims
<1>5. \A e \in sess'.inFlight : SavedEntry(e) \in ClaimEntries(own)
  <2>1. \A e \in disk.inFlight : SavedEntry(RestoredEntry(e)) = e /\ e \in ClaimEntries(own)
    BY SMTT(30) DEF SavedEntry, RestoredEntry, SavedEntrySet, SnapshotSet, IInv, StoreOK, SnapshotOK,
           LegalSnapshot, Claims
  <2> QED BY <1>2, <2>1
<1>6. fl'.skipped \in Seq(ClaimItems(own)) /\ fl'.hand = {}
  BY <1>1, IdleKeeps, SMTT(30)
<1> QED BY <1>1, <1>3, <1>4, <1>5, <1>6 DEF Claims, Within

\* Every step keeps the owners of the numbers.
LEMMA ClaimKeeps ==
  ASSUME IInv, PhaseInv, InFlightDurable, AcksAnswer, ClaimInv, [Next]_vars
  PROVE  ClaimInv'
<1> SUFFICES ASSUME failures' = 0, issued' < NumSeqs PROVE Owned'
  BY DEF ClaimInv
<1>1. Owned /\ failures = 0
  BY CountsGrow, IssuedGrows DEF ClaimInv
<1>2. PICK own \in [1..issued -> Commands] : Claims(own)
  BY <1>1 DEF Owned
<1>3. Saved \/ NotSaved
  BY SavedOrNot
<1>4. credited' = credited
  BY <1>2, AckOwned, SameCredited
<1> DEFINE S == ClaimItems(own)
           T == ClaimEntries(own)
<1>5. Within(sess, fl, S, T)
  BY <1>2 DEF Claims
<1> HIDE DEF S, T
<1>6. ASSUME Calm, Within(sess', fl', S, T) PROVE Owned'
  BY <1>1, <1>2, <1>3, <1>4, <1>6, CalmOwned DEF S, T
<1>7. ASSUME Claims(own)', sess'.nextSeq = sess.nextSeq, issued' = issued, overrun' = overrun
      PROVE  Owned'
  BY <1>1, <1>4, <1>7 DEF Owned
<1>8. CASE UNCHANGED vars
  BY <1>1, <1>8 DEF vars, sessVars, procVars, histVars, Owned, Claims
<1>9. ASSUME NEW k \in Conns, ConnStep(k) PROVE Owned'
  BY <1>5, <1>6, <1>9, ConnCalm
<1>10. ASSUME NEW p \in Procs, FlushStep(p) PROVE Owned'
  <2>1. CASE ProcessStep(p)
    BY <1>2, <1>6, <2>1, ProcessOwned DEF S, T
  <2>2. CASE Pop(p)
    BY <1>2, <1>3, <1>7, <2>2, PopOwned DEF Pop, histVars
  <2>3. CASE Send(p)
    BY <1>2, <1>7, <2>3, SendOwned DEF Send
  <2>4. CASE InFlight(p)
    BY <1>2, <1>3, <1>7, <2>4, InFlightOwned DEF InFlight
  <2>5. CASE Number(p)
    <3>1. PICK x \in fl.hand :
            \/ /\ x.retrySeq # 0
               /\ fl' = [fl EXCEPT !.seq = x.retrySeq, !.hand = {[x EXCEPT !.retrySeq = 0]}]
               /\ sess' = sess /\ disk' = disk /\ issued' = issued
            \/ /\ sess' = NextCommandSeq(sess) /\ Saved
               /\ fl' = [fl EXCEPT !.seq = sess'.nextSeq]
               /\ issued' = IF issued < NumSeqs THEN issued + 1 ELSE issued
      BY <2>5, NoFailure DEF Number, sessVars, SaveFailed
    <3>2. At(p, "number") /\ Goto(p, "send") /\ wire' = wire /\ overrun' = overrun
      BY <2>5 DEF Number
    <3>3. CASE /\ x.retrySeq # 0
               /\ fl' = [fl EXCEPT !.seq = x.retrySeq, !.hand = {[x EXCEPT !.retrySeq = 0]}]
               /\ sess' = sess /\ disk' = disk /\ issued' = issued
      BY <1>2, <1>7, <3>2, <3>3, RetryOwned
    <3>4. CASE /\ sess' = NextCommandSeq(sess) /\ Saved
               /\ fl' = [fl EXCEPT !.seq = sess'.nextSeq]
               /\ issued' = IF issued < NumSeqs THEN issued + 1 ELSE issued
      <4>1. issued' = issued + 1 /\ issued + 1 < NumSeqs /\ sess.nextSeq = issued
        BY <1>1, <3>4, IssuedGrows DEF Owned
      <4>2. sess'.nextSeq = issued' /\ \E o \in [1..issued' -> Commands] : Claims(o)'
        BY <1>2, <3>2, <3>4, <4>1, FreshOwned
      <4> QED BY <1>1, <1>4, <3>2, <4>2 DEF Owned
    <3> QED BY <3>1, <3>3, <3>4
  <2> QED BY <1>5, <1>6, <1>10, <2>1, <2>2, <2>3, <2>4, <2>5, FlushCalm
<1>11. CASE Environment /\ ~Crash
  <2>1. \A c \in Commands : Item(c, 0, 0) \in S
    <3> SUFFICES ASSUME NEW c \in Commands PROVE Item(c, 0, 0) \in S
      OBVIOUS
    <3>1. Item(c, 0, 0) \in ItemSet /\ Item(c, 0, 0).retrySeq = 0
      BY SeqsType DEF Item, ItemSet
    <3> QED BY <3>1 DEF S, ClaimItems
  <2> QED BY <1>5, <1>6, <1>11, <2>1, EnvironmentCalm
<1>12. CASE Crash
  BY <1>1, <1>2, <1>7, <1>12, CrashOwned DEF Crash, histVars
<1> QED BY <1>8, <1>9, <1>10, <1>11, <1>12 DEF Next

\* No number is handed out when the adapter starts.
LEMMA InitClaims == Init => ClaimInv /\ AcksAnswer
<1> SUFFICES ASSUME Init PROVE Owned /\ AcksAnswer
  BY DEF ClaimInv
<1> DEFINE own == [n \in 1..issued |-> CHOOSE c \in Commands : TRUE]
<1>1. issued = 0 /\ 1..issued = {}
  BY SMTT(30) DEF Init
<1>2. own \in [1..issued -> Commands]
  BY <1>1
<1> HIDE DEF own
<1>3. disk.pending = Snapshot(NewControllerQueue) /\ disk.inFlight = {} /\ sess.nextSeq = 0
  BY DEF Init, SessionSnapshot, DetachedSession
<1>4. \A S : Snapshot(NewControllerQueue) \in Seq(S)
  BY EmptyQueue, SnapshotCmds
<1>5. fl.hand = {} /\ wire = {} /\ overrun = {} /\ credited = {}
  BY IdleKeeps DEF Init
<1>6. Claims(own)
  BY <1>3, <1>4, <1>5, InitWithin DEF Claims
<1>7. AcksAnswer
  BY DEF Init, AcksAnswer, NoMsg
<1> QED BY <1>1, <1>2, <1>3, <1>5, <1>6, <1>7 DEF Owned

\* As long as no save failed and the 8-bit counter of sequence numbers has not
\* wrapped, RegisterInFlight overwrites no entry, for any number of connections,
\* retries and restarts.
THEOREM NumbersNotReused == Spec => []NoOverrun
<1>1. IInv /\ PhaseInv /\ InFlightDurable /\ AcksAnswer /\ ClaimInv /\ [Next]_vars => ClaimInv'
  BY ClaimKeeps
<1>2. IInv /\ AcksAnswer /\ [Next]_vars => AcksAnswer'
  BY AcksKeep
<1>3. ClaimInv => NoOverrun
  BY DEF ClaimInv, Owned, NoOverrun
<1> QED BY <1>1, <1>2, <1>3, InitKeeps, InitPhase, InitClaims, NextKeeps, PhaseKeeps,
           InFlightSurvives, PTL DEF Spec

\* Under the same conditions a terminal ack11 completes the command whose frame
\* it answers, however late, out of order or often the controller answers.
THEOREM AnswersMatch == Spec => []AckCorrelation
<1>1. IInv /\ PhaseInv /\ InFlightDurable /\ AcksAnswer /\ ClaimInv /\ [Next]_vars => ClaimInv'
  BY ClaimKeeps
<1>2. IInv /\ AcksAnswer /\ [Next]_vars => AcksAnswer'
  BY AcksKeep
<1>3. ClaimInv => AckCorrelation
  BY DEF ClaimInv, Owned, AckCorrelation
<1> QED BY <1>1, <1>2, <1>3, InitKeeps, InitPhase, InitClaims, NextKeeps, PhaseKeeps,
           InFlightSurvives, PTL DEF Spec

-----------------------------------------------------------------------------
\* The life of a command

\* Only flushQueue writes commands, in one branch of Send.
LEMMA SameWrites ==
  ASSUME [Next]_vars, \A p \in Procs : ~Send(p)
  PROVE  writes' = writes
<1>1. ASSUME NEW k \in Conns, ConnStep(k) PROVE writes' = writes
  BY <1>1 DEF ConnStep, Connect, Register, AdoptFrameMode, RegistrationAck, Receive,
     ReadFails, Handle, ActStatus1, ActAck, ActOther, GoOffline, CloseConn, histVars
<1>2. ASSUME NEW p \in Procs, FlushStep(p) PROVE writes' = writes
  BY <1>2 DEF FlushStep, ProcessStep, Publish, Context, Count, Drain, PopNothing,
     Pop, Number, InFlight, Modes, AckSent, EndScan, ClearSync, ClearFW, ReturnError, histVars
<1>3. CASE Environment
  BY <1>3 DEF Environment, Refuse, Accept, ExpireTTL, AckTimerElapses,
     DedupWindowEnds, Crash, histVars
<1>4. CASE UNCHANGED vars
  BY <1>4 DEF vars, histVars
<1> QED BY <1>1, <1>2, <1>3, <1>4 DEF Next

\* What the adapter owes are commands.
LEMMA OwedCommands == IInv => Owed \subseteq Commands
<1> SUFFICES ASSUME IInv, NEW c \in Owed PROVE c \in Commands
  OBVIOUS
<1>0. /\ sess.queue \in [Priorities -> Seq(ItemSet)] /\ sess.inFlight \subseteq EntrySet
      /\ fl.skipped \in Seq(ItemSet) /\ fl.hand \subseteq ItemSet
  BY DEF IInv, SessionOK, LegalSession, SessionSet, FlushOK, FlushSet
<1>1. ASSUME NEW q \in Seq(ItemSet), c \in Cmds(q) PROVE c \in Commands
  <2>1. PICK i \in DOMAIN q : c = q[i].cmd
    BY <1>1 DEF Cmds
  <2>2. q[i] \in ItemSet
    BY SeqElements
  <2> QED BY <2>1, <2>2 DEF ItemSet
<1>2. CASE c \in Queued(sess.queue)
  BY <1>0, <1>1, <1>2 DEF Queued
<1>3. CASE c \in EntryCmds(sess.inFlight)
  BY <1>0, <1>3 DEF EntryCmds, EntrySet
<1>4. CASE c \in Carried(fl)
  <2>1. CASE c \in Cmds(fl.skipped)
    BY <1>0, <1>1, <2>1
  <2>2. CASE c \in {item.cmd : item \in fl.hand}
    BY <1>0, <2>2 DEF ItemSet
  <2> QED BY <1>4, <2>1, <2>2 DEF Carried
<1> QED BY <1>2, <1>3, <1>4 DEF Owed, Held

\* Until the first fault, every command the adapter holds was accepted, and not
\* dropped since.
HeldAccepted ==
  failures = 0 /\ crashes = 0 => \A c \in Owed : fate[c] = "accepted"

\* Every step keeps that: only Accept adds a command, and what is dropped leaves
\* the queue in the same step.
LEMMA AcceptedKeeps ==
  ASSUME IInv, PhaseInv, HeldAccepted, [Next]_vars
  PROVE  HeldAccepted'
<1> SUFFICES ASSUME failures' = 0, crashes' = 0 PROVE \A c \in Owed' : fate'[c] = "accepted"
  BY DEF HeldAccepted
<1>1. (\A c \in Owed : fate[c] = "accepted") /\ ~Crash
  BY CountsGrow DEF HeldAccepted
<1>2. CASE UNCHANGED vars
  BY <1>1, <1>2 DEF vars, sessVars, procVars, histVars, Owed
<1>3. ASSUME NEW p \in Procs, NEW E, Hands(p, E) PROVE \A c \in Owed' : fate'[c] = "accepted"
  BY <1>1, <1>3 DEF Hands
<1>4. ASSUME NEW p \in Procs, NEW c \in Commands, Publish(p, c)
      PROVE  \A d \in Owed' : fate'[d] = "accepted"
  BY <1>1, <1>4 DEF Publish, sessVars, Owed
<1>5. ASSUME NEW c \in Commands, Accept(c) \/ Refuse(c)
      PROVE  \A d \in Owed' : fate'[d] = "accepted"
  <2>1. PICK D \in SUBSET Owed, s \in {"accepted", "refused"} :
          /\ fate' = [d \in Commands |-> IF d = c THEN s
                         ELSE IF d \in D THEN "dropped" ELSE fate[d]]
          /\ Owed' = (Owed \ D) \cup (IF s = "accepted" THEN {c} ELSE {})
    BY <1>5, EnqueueMoves
  <2>2. Owed \subseteq Commands /\ c \notin Owed
    BY <1>5, EnqueueMoves, OwedCommands
  <2> QED BY <1>1, <2>1, <2>2
<1> QED BY <1>1, <1>2, <1>3, <1>4, <1>5, StepKinds

\* Nothing is held when the adapter starts.
LEMMA InitAccepted == Init => HeldAccepted
  BY DetachedKeeps, IdleKeeps DEF Init, Owed, HeldAccepted

-----------------------------------------------------------------------------
\* The stage of a command in the terms of the ledger.
StageIn(owed, o, ended, f) ==
  IF owed THEN "owed" ELSE IF o THEN "announced" ELSE IF ended THEN "settled"
  ELSE IF f = "accepted" THEN "lost" ELSE f

\* A command is where its stage says, before a step and after it.
LEMMA StageOf ==
  ASSUME NEW c
  PROVE  /\ Stage(c) = StageIn(c \in Owed, \E p \in Procs : c \in out[p], terminal[c] > 0, fate[c])
         /\ Stage(c)' = StageIn(c \in Owed', \E p \in Procs : c \in out'[p], terminal'[c] > 0, fate'[c])
<1>1. Live = Owed /\ Live' = Owed'
  BY DEF Live, Owed, Held, Carried, InFlightCmds, EntryCmds, SkippedCmds, HandCmds
<1>2. /\ c \in Announced <=> \E p \in Procs : c \in out[p]
      /\ c \in Announced' <=> \E p \in Procs : c \in out'[p]
  BY DEF Announced
<1> QED BY <1>1, <1>2 DEF Stage, StageIn

\* A step that hands commands over takes those to "announced", and what another
\* command overwrites to "lost".
LEMMA HandsStage ==
  ASSUME IInv, Ledger, \A d \in Owed : fate[d] = "accepted",
         NEW p \in Procs, NEW E, Hands(p, E), NEW c \in Commands
  PROVE  Stage(c)' = IF c \in Owed \ (Owed' \cup E) THEN "lost"
                     ELSE IF c \in E THEN "announced" ELSE Stage(c)
<1>1. \A q \in Procs : out'[q] = IF q = p THEN out[q] \cup E ELSE out[q]
  BY DEF Hands, IInv, ControlOK
<1>2. fate' = fate /\ terminal' = terminal /\ Owed' \subseteq Owed /\ E \subseteq Owed /\ Owed' \cap E = {}
  BY DEF Hands
<1>3. (\E q \in Procs : c \in out'[q]) <=> c \in E \/ \E q \in Procs : c \in out[q]
  BY <1>1
<1>4. c \in Owed => /\ ~(terminal[c] > 0) /\ fate[c] = "accepted"
                    /\ ~\E q \in Procs : c \in out[q]
  BY SMTT(30) DEF Ledger
<1> QED BY <1>2, <1>3, <1>4, StageOf DEF StageIn

\* Publishing an outcome takes its command to "settled".
LEMMA PublishStage ==
  ASSUME IInv, Ledger, NEW p \in Procs, NEW c \in Commands, Publish(p, c),
         NEW d \in Commands
  PROVE  /\ Stage(c) = "announced"
         /\ Stage(d)' = IF d = c THEN "settled" ELSE Stage(d)
<1>1. /\ \A q \in Procs : out'[q] = IF q = p THEN out[q] \ {c} ELSE out[q]
      /\ terminal'[d] = IF d = c THEN terminal[d] + 1 ELSE terminal[d]
      /\ c \in out[p]
  BY DEF Publish, IInv, ControlOK
<1>2. Owed' = Owed /\ fate' = fate
  BY DEF Publish, sessVars, Owed
<1>3. c \notin Owed /\ \A q \in Procs : q # p => c \notin out[q]
  BY <1>1 DEF Ledger
<1>4. Stage(c) = "announced"
  BY <1>1, <1>3, StageOf DEF StageIn
<1>5. CASE d = c
  <2>1. terminal'[d] > 0
    BY <1>1, <1>5, SMTT(30) DEF Ledger
  <2>2. d \notin Owed' /\ ~\E q \in Procs : d \in out'[q]
    BY <1>1, <1>2, <1>3, <1>5
  <2> QED BY <1>4, <1>5, <2>1, <2>2, StageOf DEF StageIn
<1>6. CASE d # c
  <2>1. (\E q \in Procs : d \in out'[q]) <=> \E q \in Procs : d \in out[q]
    BY <1>1, <1>6
  <2> QED BY <1>1, <1>2, <1>4, <1>6, <2>1, StageOf DEF StageIn
<1> QED BY <1>5, <1>6

\* EnqueueCommand takes a new command over or refuses it, and drops commands it
\* held.
LEMMA EnqueueStage ==
  ASSUME IInv, Ledger, NEW c \in Commands, Accept(c) \/ Refuse(c)
  PROVE  /\ Stage(c) = "new"
         /\ \E D \in SUBSET Owed, s \in {"owed", "refused"} : \A d \in Commands :
              Stage(d)' = IF d = c THEN s ELSE IF d \in D THEN "dropped" ELSE Stage(d)
<1>0. out' = out /\ terminal' = terminal /\ fate[c] = "new" /\ c \notin Owed
  BY EnqueueMoves
<1>1. ~(terminal[c] > 0) /\ ~\E q \in Procs : c \in out[q]
  BY <1>0, SMTT(30) DEF Ledger
<1>2. Stage(c) = "new"
  BY <1>0, <1>1, StageOf DEF StageIn
<1>3. PICK D \in SUBSET Owed, s \in {"accepted", "refused"} :
        /\ fate' = [d \in Commands |-> IF d = c THEN s
                       ELSE IF d \in D THEN "dropped" ELSE fate[d]]
        /\ Owed' = (Owed \ D) \cup (IF s = "accepted" THEN {c} ELSE {})
  BY EnqueueMoves
<1> DEFINE r == IF s = "accepted" THEN "owed" ELSE "refused"
<1>4. ASSUME NEW d \in Commands
      PROVE  Stage(d)' = IF d = c THEN r ELSE IF d \in D THEN "dropped" ELSE Stage(d)
  <2>1. CASE d = c
    BY <1>0, <1>1, <1>3, <2>1, StageOf DEF StageIn
  <2>2. CASE d # c /\ d \in D
    <3>1. ~(terminal[d] > 0) /\ ~\E q \in Procs : d \in out[q]
      BY <2>2, SMTT(30) DEF Ledger
    <3> QED BY <1>0, <1>3, <2>2, <3>1, StageOf DEF StageIn
  <2>3. CASE d # c /\ d \notin D
    BY <1>0, <1>3, <2>3, StageOf DEF StageIn
  <2> QED BY <2>1, <2>2, <2>3
<1>5. r \in {"owed", "refused"}
  OBVIOUS
<1> HIDE DEF r
<1> QED BY <1>2, <1>4, <1>5

\* A step that leaves what the ledger reads alone changes no stage.
LEMMA SameStage ==
  ASSUME Owed' = Owed, out' = out, terminal' = terminal, fate' = fate, NEW c
  PROVE  Stage(c)' = Stage(c)
  BY StageOf

\* Every stage is one of the seven.
LEMMA StageType ==
  ASSUME IInv, IInv', NEW c \in Commands
  PROVE  Stage(c) \in Life!Stages /\ Stage(c)' \in Life!Stages
  BY StageOf, SMTT(30) DEF StageIn, IInv, ControlOK, Life!Stages

-----------------------------------------------------------------------------
\* After a fault, everything is allowed.
LEMMA FaultStep ==
  ASSUME IInv, IInv', failures' > 0 \/ crashes' > 0
  PROVE  Life!Fault
<1>1. [c \in Commands |-> Stage(c)]' \in [Commands -> Life!Stages]
  BY StageType
<1>2. writes' \in [Commands -> Nat] /\ (issued' = NumSeqs) \in BOOLEAN
  BY DEF IInv, ControlOK
<1> QED BY <1>1, <1>2 DEF Life!Fault

\* One write of flushQueue.
LEMMA WriteStep ==
  ASSUME IInv, IInv', TransmissionBound', failures' = 0, crashes' = 0, failures = 0, crashes = 0,
         NEW p \in Procs, Send(p), writes' # writes
  PROVE  \E c \in Life!In("owed") : Life!Write(c)
<1>1. PICK x \in fl.hand :
        /\ writes' = [writes EXCEPT ![x.cmd] = @ + 1]
        /\ UNCHANGED <<out, fl>>
  BY DEF Send
<1>2. sess' = sess /\ fate' = fate /\ terminal' = terminal /\ issued' = issued
  BY DEF Send, sessVars
<1>3. x.cmd \in Owed /\ x.cmd \in Commands
  BY <1>1, OwedCommands DEF Owed, Carried
<1>4. Owed' = Owed
  BY <1>1, <1>2 DEF Owed
<1>5. \A c \in Commands : Stage(c)' = Stage(c)
  BY <1>1, <1>2, <1>4, SameStage
<1>6. Stage(x.cmd) = "owed"
  BY <1>3, StageOf DEF StageIn
<1>7. writes[x.cmd] < MaxRetries(x.cmd) + 1
  <2>1. writes \in [Commands -> Nat] /\ MaxRetries(x.cmd) \in Nat
    BY <1>3, MaxRetriesType DEF IInv, ControlOK
  <2>2. writes'[x.cmd] = writes[x.cmd] + 1
    BY <1>1, <1>3, <2>1
  <2>3. writes'[x.cmd] <= MaxRetries(x.cmd) + 1
    BY <1>3 DEF TransmissionBound
  <2>4. writes[x.cmd] \in Nat
    BY <1>3, <2>1
  <2> QED BY <2>1, <2>2, <2>3, <2>4, SMTT(30)
<1>8. x.cmd \in Life!In("owed")
  BY <1>3, <1>6 DEF Life!In
<1>9. [c \in Commands |-> Stage(c)]' = [c \in Commands |-> Stage(c)]
  BY <1>5
<1>10. (failures' > 0 \/ crashes' > 0) = (failures > 0 \/ crashes > 0)
  OBVIOUS
<1>11. [c \in Commands |-> MaxRetries(c) + 1][x.cmd] = MaxRetries(x.cmd) + 1
  BY <1>3
<1>12. Life!Write(x.cmd)
  BY <1>1, <1>2, <1>7, <1>9, <1>10, <1>11 DEF Life!Write
<1> QED BY <1>8, <1>12

\* The step that gives a command its number may be the one that wraps the counter.
LEMMA NumberStep ==
  ASSUME IInv, PhaseInv, failures' = 0, crashes' = 0, failures = 0, crashes = 0,
         NEW p \in Procs, Number(p)
  PROVE  Life!Wrap \/ UNCHANGED Life!lifeVars
<1>1. out' = out /\ fate' = fate /\ terminal' = terminal /\ writes' = writes
  BY DEF Number
<1>2. Owed' = Owed
  <2>1. Held(sess') = Held(sess) /\ Carried(fl') = Carried(fl)
    BY NumberQuiet, QuietKeeps DEF IInv
  <2> QED BY <2>1 DEF Owed
<1>3. [c \in Commands |-> Stage(c)]' = [c \in Commands |-> Stage(c)]
  BY <1>1, <1>2, SameStage
<1>4. (failures' > 0 \/ crashes' > 0) = (failures > 0 \/ crashes > 0)
  OBVIOUS
<1>5. issued' = NumSeqs \/ (issued' = NumSeqs) = (issued = NumSeqs)
  <2>1. issued \in 0..NumSeqs
    BY DEF IInv, ControlOK
  <2>2. issued' = issued \/ issued' = IF issued < NumSeqs THEN issued + 1 ELSE issued
    BY DEF Number
  <2>3. issued' = NumSeqs \/ (issued' # NumSeqs /\ issued # NumSeqs)
    BY <2>1, <2>2, LimitsAssumption, SMTT(30)
  <2> QED BY <2>3
<1> QED BY <1>1, <1>3, <1>4, <1>5 DEF Life!Wrap, Life!lifeVars

\* A step that hands commands over releases them.
LEMMA HandsStep ==
  ASSUME IInv, Ledger, \A d \in Owed : fate[d] = "accepted", NoOverrun',
         failures' = 0, crashes' = 0, failures = 0, crashes = 0,
         writes' = writes, issued' = issued, issued \in 0..NumSeqs,
         NEW p \in Procs, NEW E, Hands(p, E)
  PROVE  \E A \in SUBSET Life!In("owed") : \E L \in SUBSET (Life!In("owed") \ A) : Life!Release(A, L)
<1> DEFINE L == Owed \ (Owed' \cup E)
<1>1. E \subseteq Owed /\ L \subseteq overrun'
  BY DEF Hands
<1>2. L # {} => issued = NumSeqs
  BY <1>1, LimitsAssumption, SMTT(30) DEF NoOverrun
<1>3. \A c \in Commands : Stage(c)' = IF c \in L THEN "lost"
                            ELSE IF c \in E THEN "announced" ELSE Stage(c)
  BY HandsStage
<1>4. Owed \subseteq Life!In("owed")
  BY OwedCommands, StageOf DEF StageIn, Life!In
<1>5. (failures' > 0 \/ crashes' > 0) = (failures > 0 \/ crashes > 0)
  OBVIOUS
<1>6. L \subseteq Owed \ E
  OBVIOUS
<1> HIDE DEF L
<1>7. [c \in Commands |-> Stage(c)]' =
        Life!Move(Life!Move([c \in Commands |-> Stage(c)], E, "announced"), L, "lost")
  BY <1>3 DEF Life!Move
<1>8. Life!Release(E, L)
  BY <1>2, <1>5, <1>7 DEF Life!Release
<1>9. E \in SUBSET Life!In("owed") /\ L \in SUBSET (Life!In("owed") \ E)
  BY <1>1, <1>4, <1>6
<1> QED BY <1>8, <1>9

\* Publishing an outcome settles a command.
LEMMA PublishStep ==
  ASSUME IInv, Ledger, failures' = 0, crashes' = 0, failures = 0, crashes = 0,
         NEW p \in Procs, NEW c \in Commands, Publish(p, c)
  PROVE  \E d \in Life!In("announced") : Life!Settle(d)
<1>1. writes' = writes /\ issued' = issued
  BY DEF Publish
<1>2. [d \in Commands |-> Stage(d)]' =
        Life!Move([d \in Commands |-> Stage(d)], {c}, "settled")
  <2>1. \A d \in Commands : Stage(d)' = IF d \in {c} THEN "settled" ELSE Stage(d)
    BY PublishStage
  <2> QED BY <2>1 DEF Life!Move
<1>3. c \in Life!In("announced")
  BY PublishStage DEF Life!In
<1>4. (failures' > 0 \/ crashes' > 0) = (failures > 0 \/ crashes > 0)
  OBVIOUS
<1>5. Life!Settle(c)
  BY <1>1, <1>2, <1>4 DEF Life!Settle
<1> QED BY <1>3, <1>5

\* A call of EnqueueCommand hands a command in.
LEMMA EnqueueStep ==
  ASSUME IInv, Ledger, failures' = 0, crashes' = 0, failures = 0, crashes = 0,
         writes' = writes, issued' = issued, NEW c \in Commands, Accept(c) \/ Refuse(c)
  PROVE  \E d \in Life!In("new"), D \in SUBSET Life!In("owed"), s \in {"owed", "refused"} :
           Life!HandIn(d, D, s)
<1>1. PICK D \in SUBSET Owed, s \in {"owed", "refused"} : \A d \in Commands :
        Stage(d)' = IF d = c THEN s ELSE IF d \in D THEN "dropped" ELSE Stage(d)
  BY EnqueueStage
<1>2. c \in Life!In("new")
  BY EnqueueStage DEF Life!In
<1>3. D \in SUBSET Life!In("owed")
  BY OwedCommands, StageOf DEF StageIn, Life!In
<1>4. (failures' > 0 \/ crashes' > 0) = (failures > 0 \/ crashes > 0)
  OBVIOUS
<1>5. [d \in Commands |-> Stage(d)]' =
        Life!Move(Life!Move([d \in Commands |-> Stage(d)], D, "dropped"), {c}, s)
  <2>1. \A d \in Commands : Stage(d)' = IF d \in {c} THEN s ELSE IF d \in D THEN "dropped" ELSE Stage(d)
    BY <1>1
  <2> QED BY <2>1 DEF Life!Move
<1>6. Life!HandIn(c, D, s)
  BY <1>4, <1>5 DEF Life!HandIn
<1> QED BY <1>2, <1>3, <1>6

\* Every step of the delivery is a step of the life of a command, or changes
\* nothing that it shows.
LEMMA LifeStep ==
  ASSUME IInv, IInv', PhaseInv, LedgerInv, HeldAccepted, TransmissionBound', NoOverrun',
         [Next]_vars
  PROVE  [Life!LifeNext]_(Life!lifeVars)
<1> USE DEF Life!LifeNext
<1>0. failures' \in Nat /\ crashes' \in Nat /\ issued \in 0..NumSeqs
  BY LimitsAssumption, EnvironmentAssumption, SMTT(30) DEF IInv, StoreOK, ControlOK
<1>1. CASE failures' > 0 \/ crashes' > 0
  BY <1>1, FaultStep
<1>2. CASE failures' = 0 /\ crashes' = 0
  <2>1. failures = 0 /\ crashes = 0 /\ ~Crash
    BY <1>2, CountsGrow
  <2>2. Ledger /\ \A c \in Owed : fate[c] = "accepted"
    BY <2>1 DEF LedgerInv, HeldAccepted
  <2>3. CASE UNCHANGED vars
    <3>1. UNCHANGED <<sess, fl, out, terminal, fate, writes, issued, failures, crashes>>
      BY <2>3 DEF vars, sessVars, procVars, histVars
    <3>2. [c \in Commands |-> Stage(c)]' = [c \in Commands |-> Stage(c)]
      BY <3>1, SameStage DEF Owed
    <3> QED BY <3>1, <3>2 DEF Life!lifeVars
  <2>4. ASSUME NEW p \in Procs, Send(p), writes' # writes PROVE Life!LifeNext
    BY <1>2, <2>1, <2>4, WriteStep
  <2>5. ASSUME NEW p \in Procs, Number(p) PROVE [Life!LifeNext]_(Life!lifeVars)
    BY <1>2, <2>1, <2>5, NumberStep
  <2>6. CASE writes' = writes /\ issued' = issued /\ Next
    <3>1. ASSUME NEW p \in Procs, NEW E, Hands(p, E) PROVE Life!LifeNext
      BY <1>0, <1>2, <2>1, <2>2, <2>6, <3>1, HandsStep
    <3>2. ASSUME NEW p \in Procs, NEW c \in Commands, Publish(p, c) PROVE Life!LifeNext
      BY <1>2, <2>1, <2>2, <3>2, PublishStep
    <3>3. ASSUME NEW c \in Commands, Accept(c) \/ Refuse(c) PROVE Life!LifeNext
      BY <1>2, <2>1, <2>2, <2>6, <3>3, EnqueueStep
    <3> HIDE DEF Life!LifeNext
    <3> QED BY <1>2, <2>1, <2>6, <3>1, <3>2, <3>3, StepKinds
  <2> HIDE DEF Life!LifeNext
  <2> QED BY <2>3, <2>4, <2>5, <2>6, SameWrites, SameIssued
<1> QED BY <1>0, <1>1, <1>2, SMTT(30)

\* At the start no command was handed in.
LEMMA InitLife == Init => Life!LifeInit
<1> SUFFICES ASSUME Init PROVE Life!LifeInit
  OBVIOUS
<1>1. Owed = {} /\ (\A p \in Procs : out[p] = {}) /\ \A c \in Commands : terminal[c] = 0 /\ fate[c] = "new"
  BY DetachedKeeps, IdleKeeps DEF Init, Owed
<1>2. \A c \in Commands : Stage(c) = "new"
  BY <1>1, StageOf, SMTT(30) DEF StageIn
<1>3. writes = [c \in Commands |-> 0] /\ issued # NumSeqs /\ ~(failures > 0 \/ crashes > 0)
  BY LimitsAssumption, SMTT(30) DEF Init
<1> QED BY <1>2, <1>3 DEF Life!LifeInit

\* The delivery implements the life of a command (CommandLife).  However the
\* connections, the flushes, the retries, the answers and the calls of Enqueue
\* interleave, until a save fails or the adapter restarts every step leaves each
\* command where it is or takes it one stage on: new, owed, announced, settled.
\* A command leaves that path only by being refused or dropped in Enqueue, or by
\* being overwritten in the in-flight table after the counter has wrapped.
THEOREM LifeImplemented == Spec => ImplementsLife
<1>1. IInv /\ PhaseInv /\ LedgerInv /\ [Next]_vars => LedgerInv'
  BY LedgerKeeps
<1>2. IInv /\ PhaseInv /\ HeldAccepted /\ [Next]_vars => HeldAccepted'
  BY AcceptedKeeps
<1>3. /\ IInv /\ IInv' /\ PhaseInv /\ LedgerInv /\ HeldAccepted
      /\ TransmissionBound' /\ NoOverrun' /\ [Next]_vars
      => [Life!LifeNext]_(Life!lifeVars)
  BY LifeStep
<1> QED BY <1>1, <1>2, <1>3, InitKeeps, InitPhase, InitLedger, InitAccepted, InitLife, NextKeeps,
           PhaseKeeps, WritesBounded, NumbersNotReused, PTL DEF Spec, ImplementsLife, Life!LifeSpec
=============================================================================
