----------------------- MODULE DeliveryOutcomeProofs ------------------------
(***************************************************************************)
(* Every accepted command has one outcome, as long as the store takes      *)
(* every save and the adapter is not restarted: none is lost, and none is  *)
(* settled twice.                                                          *)
(*                                                                         *)
(* Two invariants carry the argument. PhaseInv says what flushQueue has in *)
(* its hands at each of its points; the flush lock makes that a fact about *)
(* one goroutine. LedgerInv says where every command is: in the queue, in  *)
(* flight or carried by flushQueue; taken over by one goroutine that is    *)
(* about to publish its outcome; or settled. Every step is then one of     *)
(* three kinds: commands are handed to the goroutine that settles them     *)
(* (Hands), a goroutine publishes one outcome, or a caller of Enqueue      *)
(* hands a command in.                                                     *)
(*                                                                         *)
(* Under the same conditions a command is written to a controller at most  *)
(* MaxRetries + 1 times. The invariant is an account of the writes: an     *)
(* item that waits has been written as often as its attempts say, an entry *)
(* in flight as well, and the item in the hands of flushQueue once more    *)
(* after Send. Within says that every item that waits is in a set S and    *)
(* every entry in a set T; the lemmas hold for any such sets, so           *)
(* DeliveryLifeProofs uses them again with other sets.                     *)
(***************************************************************************)
EXTENDS DeliveryProofs

\* A leaf goes to Zenon, unless it names the SMT solver: where it needs
\* arithmetic, or functions and records are rewritten.
USE ZenonT(30)

\* The points of flushQueue at which it has a command in its hands, and those at
\* which it has set none aside.
Holding == {"number", "send", "inflight"}
Unladen == {"count", "drain", "clearsync", "clearfw", "return"}

\* What flushQueue carries at each of its points.  The flush lock makes its
\* locals those of one goroutine.
PhaseInv ==
  /\ \A p \in Procs : pc[p] \in FlushLabels <=> lock = p
  /\ lock = NoProc => fl = IdleFlush
  /\ \A p \in Procs : pc[p] \in FlushLabels \ Holding => fl.hand = {}
  /\ \A x, y \in fl.hand : x = y
  /\ \A p \in Procs : pc[p] \in Unladen => fl.skipped = <<>>

\* A goroutine that is not in flushQueue goes to another point outside it.
LEMMA PhaseAside ==
  ASSUME IInv, PhaseInv, NEW p \in Procs, NEW label, Goto(p, label),
         pc[p] \notin FlushLabels, label \notin FlushLabels, lock' = lock, fl' = fl
  PROVE  PhaseInv'
<1>1. \A q \in Procs : pc'[q] = IF q = p THEN label ELSE pc[q]
  BY DEF Goto, IInv, ControlOK
<1>2. Unladen \subseteq FlushLabels
  BY DEF Unladen, FlushLabels
<1> QED BY <1>1, <1>2 DEF PhaseInv

\* The goroutine in flushQueue goes to another point of it.
LEMMA PhaseWithin ==
  ASSUME IInv, PhaseInv, NEW p \in Procs, NEW label \in FlushLabels,
         pc[p] \in FlushLabels, Goto(p, label), lock' = lock,
         label \notin Holding => fl'.hand = {},
         \A x, y \in fl'.hand : x = y,
         label \in Unladen => fl'.skipped = <<>>
  PROVE  PhaseInv'
<1>1. \A q \in Procs : pc'[q] = IF q = p THEN label ELSE pc[q]
  BY DEF Goto, IInv, ControlOK
<1>2. Unladen \subseteq FlushLabels
  BY DEF Unladen, FlushLabels
<1>3. lock = p /\ \A q \in Procs : q # p => pc[q] \notin FlushLabels
  BY DEF PhaseInv
<1>4. lock' # NoProc
  BY <1>3, ProcsAssumption
<1> QED BY <1>1, <1>2, <1>3, <1>4 DEF PhaseInv

\* The goroutine in flushQueue stays at its point.
LEMMA PhaseStays ==
  ASSUME IInv, PhaseInv, NEW p \in Procs, pc[p] \in FlushLabels, pc' = pc, lock' = lock,
         fl'.hand = fl.hand, pc[p] \in Unladen => fl'.skipped = <<>>
  PROVE  PhaseInv'
<1>1. Goto(p, pc[p])
  BY DEF Goto, IInv, ControlOK
<1> QED BY <1>1, PhaseWithin DEF PhaseInv

\* flushQueue returns.
LEMMA PhaseReturns ==
  ASSUME IInv, PhaseInv, NEW p \in Procs, NEW failed, FlushReturn(p, failed),
         lock \in {p, NoProc}
  PROVE  PhaseInv'
<1>1. AfterFlush(p, failed) \notin FlushLabels
  BY DEF AfterFlush, FlushLabels
<1>2. \A q \in Procs : pc'[q] = IF q = p THEN AfterFlush(p, failed) ELSE pc[q]
  BY DEF FlushReturn, Goto, IInv, ControlOK
<1>3. \A q \in Procs : q # p => pc[q] \notin FlushLabels
  BY ProcsAssumption DEF PhaseInv
<1>4. lock' = NoProc /\ fl' = IdleFlush
  BY DEF FlushReturn
<1>5. \A q \in Procs : pc'[q] \notin FlushLabels
  BY <1>1, <1>2, <1>3
<1>6. Unladen \subseteq FlushLabels
  BY DEF Unladen, FlushLabels
<1> QED BY <1>4, <1>5, <1>6, IdleKeeps, ProcsAssumption DEF PhaseInv

\* The steps of handleConn are outside flushQueue.
LEMMA ConnAside ==
  ASSUME NEW k \in Conns, ConnStep(k)
  PROVE  /\ lock' = lock /\ fl' = fl
         /\ pc[k] \notin FlushLabels
         /\ \E label : label \notin FlushLabels /\ Goto(k, label)
<1> USE DEF At, FlushLabels
<1>1. CASE Connect(k) \/ ReadFails(k) \/ \E mode \in FrameModes : Register(k, mode)
  BY <1>1 DEF Connect, Register, ReadFails
<1>2. CASE AdoptFrameMode(k) \/ RegistrationAck(k) \/ \E m \in Messages : Receive(k, m)
  BY <1>2 DEF AdoptFrameMode, RegistrationAck, Receive
<1>3. CASE Handle(k) \/ ActAck(k)
  BY <1>3 DEF Handle, ActAck
<1>4. CASE ActStatus1(k) \/ ActOther(k)
  BY <1>4 DEF ActStatus1, ActOther
<1>5. CASE GoOffline(k) \/ CloseConn(k)
  BY <1>5 DEF GoOffline, CloseConn
<1> QED BY <1>1, <1>2, <1>3, <1>4, <1>5 DEF ConnStep

\* Every step of flushQueue leaves it with what belongs to its next point.
LEMMA FlushPhase ==
  ASSUME IInv, PhaseInv, NEW p \in Procs, FlushStep(p)
  PROVE  PhaseInv'
<1> USE DEF At
<1>0. fl \in FlushSet /\ fl.hand \subseteq ItemSet
  BY DEF IInv, FlushOK, FlushSet
<1>a. pc[p] \in FlushLabels => lock = p
  BY DEF PhaseInv
<1>b. FlushLabels = {"count", "drain", "pop", "number", "send", "inflight", "modes",
                     "acksent", "endscan", "clearsync", "clearfw", "return"}
  BY DEF FlushLabels
<1>c. pc[p] \in FlushLabels \ Holding => fl.hand = {}
  BY DEF PhaseInv
<1>d. pc[p] \in Unladen => fl.skipped = <<>>
  BY DEF PhaseInv
<1>1. CASE ProcessStep(p)
  BY <1>1, <1>b, PhaseAside, SMTT(30) DEF ProcessStep
<1>2. ASSUME NEW c \in Commands, Publish(p, c) PROVE PhaseInv'
  BY <1>2 DEF Publish, PhaseInv
<1>3. CASE Context(p)
  <2>1. CASE FlushReturn(p, FALSE)
    BY <1>3, <2>1, PhaseReturns DEF Context
  <2>2. CASE lock' = p /\ Goto(p, "count") /\
             fl' = [fl EXCEPT !.conn = sess.conn, !.fwMode = sess.fwMode,
                              !.syncMode = sess.syncMode,
                              !.frameMode = sess.frameMode,
                              !.remaining = EffectiveBuffer(sess.bufferFree)]
    <3>1. fl = IdleFlush /\ lock = NoProc
      BY <1>3 DEF Context, PhaseInv
    <3>2. fl'.hand = {} /\ fl'.skipped = <<>>
      BY <1>0, <2>2, <3>1, IdleKeeps DEF FlushSet
    <3>3. \A q \in Procs : pc'[q] = IF q = p THEN "count" ELSE pc[q]
      BY <2>2 DEF Goto, IInv, ControlOK
    <3>4. \A q \in Procs : pc[q] \notin FlushLabels
      BY <3>1, ProcsAssumption DEF PhaseInv
    <3>5. "count" \in FlushLabels /\ Unladen \subseteq FlushLabels
      BY DEF FlushLabels, Unladen
    <3> QED BY <2>2, <3>2, <3>3, <3>4, <3>5, ProcsAssumption DEF PhaseInv
  <2> QED BY <1>3, <2>1, <2>2 DEF Context
<1>4. CASE Count(p)
  <2>1. pc[p] = "count"
    BY <1>4 DEF Count
  <2>2. CASE FlushReturn(p, FALSE)
    BY <1>a, <1>b, <2>1, <2>2, PhaseReturns
  <2>3. CASE Goto(p, "drain") /\ lock' = lock /\ fl' = fl
    <3>1. fl.hand = {} /\ fl.skipped = <<>>
      BY <1>b, <1>c, <1>d, <2>1 DEF Holding, Unladen
    <3> QED BY <1>b, <2>1, <2>3, <3>1, PhaseWithin
  <2> QED BY <1>4, <2>2, <2>3 DEF Count
<1>5. CASE Drain(p)
  <2>1. pc[p] = "drain" /\ Goto(p, "pop") /\ lock' = lock
    BY <1>5 DEF Drain
  <2>2. fl'.hand = {}
    <3>1. fl.hand = {}
      BY <1>b, <1>c, <2>1 DEF Holding
    <3>2. fl'.hand = fl.hand
      BY <1>0, <1>5 DEF Drain, FlushSet
    <3> QED BY <3>1, <3>2
  <2> QED BY <1>b, <2>1, <2>2, PhaseWithin DEF Unladen
<1>6. CASE PopNothing(p)
  <2>1. pc[p] = "pop" /\ Goto(p, "endscan") /\ lock' = lock
    BY <1>6 DEF PopNothing
  <2>2. fl'.hand = {}
    <3>1. fl.hand = {}
      BY <1>b, <1>c, <2>1 DEF Holding
    <3>2. fl'.hand = fl.hand
      BY <1>0, <1>6 DEF PopNothing, FlushSet
    <3> QED BY <3>1, <3>2
  <2> QED BY <1>b, <2>1, <2>2, PhaseWithin DEF Unladen
<1>7. CASE Pop(p)
  <2>1. PICK b \in NextBuffer(sess.queue, fl.fwMode, fl.syncMode) :
          \/ /\ \/ fl' = [fl EXCEPT !.left = @ - 1]
                \/ fl' = [fl EXCEPT !.left = @ - 1,
                                    !.skipped = Append(@, Head(sess.queue[b]))]
             /\ pc' = pc
          \/ /\ fl' = [fl EXCEPT !.left = @ - 1, !.hand = {Head(sess.queue[b])}]
             /\ Goto(p, "number")
    BY <1>7 DEF Pop
  <2>2. pc[p] = "pop" /\ lock' = lock
    BY <1>7 DEF Pop
  <2>3. CASE pc' = pc
    <3>1. CASE fl'.hand = fl.hand
      BY <1>b, <2>2, <2>3, <3>1, PhaseStays DEF Unladen
    <3>2. CASE fl' = [fl EXCEPT !.left = @ - 1, !.hand = {Head(sess.queue[b])}] /\ Goto(p, "number")
      <4>1. pc'[p] = "number"
        BY <3>2 DEF Goto, IInv, ControlOK
      <4> QED BY <2>2, <2>3, <4>1
    <3> QED BY <1>0, <2>1, <3>1, <3>2 DEF FlushSet
  <2>4. CASE /\ fl' = [fl EXCEPT !.left = @ - 1, !.hand = {Head(sess.queue[b])}]
             /\ Goto(p, "number")
    <3>1. fl'.hand = {Head(sess.queue[b])}
      BY <1>0, <2>4 DEF FlushSet
    <3> QED BY <1>b, <2>2, <2>4, <3>1, PhaseWithin DEF Unladen, Holding
  <2> QED BY <2>1, <2>3, <2>4
<1>8. CASE Number(p)
  <2>1. pc[p] = "number" /\ Goto(p, "send") /\ lock' = lock
    BY <1>8 DEF Number
  <2>2. PICK x \in fl.hand :
          \/ fl' = [fl EXCEPT !.seq = x.retrySeq, !.hand = {[x EXCEPT !.retrySeq = 0]}]
          \/ fl' = [fl EXCEPT !.seq = sess'.nextSeq]
    BY <1>8 DEF Number
  <2>3. \A u, v \in fl'.hand : u = v
    <3>1. CASE fl' = [fl EXCEPT !.seq = sess'.nextSeq]
      BY <1>0, <3>1 DEF FlushSet, PhaseInv
    <3>2. CASE fl' = [fl EXCEPT !.seq = x.retrySeq, !.hand = {[x EXCEPT !.retrySeq = 0]}]
      <4>1. fl'.hand = {[x EXCEPT !.retrySeq = 0]}
        BY <1>0, <3>2 DEF FlushSet
      <4> QED BY <4>1
    <3> QED BY <2>2, <3>1, <3>2
  <2> QED BY <1>b, <2>1, <2>3, PhaseWithin DEF Unladen, Holding
<1>9. CASE Send(p)
  <2>1. pc[p] = "send" /\ lock' = lock
    BY <1>9 DEF Send
  <2>2. PICK x \in fl.hand :
          \/ /\ \/ fl' = [fl EXCEPT !.hand = {}]
                \/ fl' = [fl EXCEPT !.hand = {}, !.left = 0, !.skipped = <<x>> \o @]
                \/ fl' = [fl EXCEPT !.hand = {}, !.left = 0, !.failed = TRUE]
             /\ Goto(p, "pop") \/ Goto(p, "endscan")
          \/ fl' = fl /\ Goto(p, "inflight")
    BY <1>9 DEF Send
  <2>3. CASE fl' = fl /\ Goto(p, "inflight")
    BY <1>b, <2>1, <2>3, PhaseWithin DEF Unladen, Holding, PhaseInv
  <2>4. CASE fl'.hand = {} /\ (Goto(p, "pop") \/ Goto(p, "endscan"))
    BY <1>b, <2>1, <2>4, PhaseWithin DEF Unladen
  <2> QED BY <1>0, <2>2, <2>3, <2>4 DEF FlushSet
<1>10. CASE InFlight(p)
  <2>1. pc[p] = "inflight" /\ lock' = lock
    BY <1>10 DEF InFlight
  <2>2. PICK x \in fl.hand :
          /\ \/ fl' = [fl EXCEPT !.hand = {}, !.last = {x}]
             \/ fl' = [fl EXCEPT !.hand = {}, !.left = 0, !.failed = TRUE]
          /\ Goto(p, "modes") \/ Goto(p, "acksent") \/ Goto(p, "endscan")
    BY <1>10 DEF InFlight
  <2>3. fl'.hand = {}
    BY <1>0, <2>2 DEF FlushSet
  <2> QED BY <1>b, <2>1, <2>2, <2>3, PhaseWithin DEF Unladen
<1>11. CASE Modes(p)
  <2>1. pc[p] = "modes" /\ lock' = lock
    BY <1>11 DEF Modes
  <2>2. \/ /\ fl' = [fl EXCEPT !.syncMode = TRUE] \/ fl' = [fl EXCEPT !.fwMode = TRUE]
           /\ Goto(p, "acksent")
        \/ fl' = IdleFlush /\ Goto(p, "return")
    BY <1>11 DEF Modes
  <2>3. fl.hand = {}
    BY <1>b, <1>c, <2>1 DEF Holding
  <2>4. CASE fl' = IdleFlush /\ Goto(p, "return")
    BY <1>b, <2>1, <2>4, IdleKeeps, PhaseWithin
  <2>5. CASE fl'.hand = fl.hand /\ Goto(p, "acksent")
    BY <1>b, <2>1, <2>3, <2>5, PhaseWithin DEF Unladen
  <2> QED BY <1>0, <2>2, <2>4, <2>5 DEF FlushSet
<1>12. CASE AckSent(p)
  <2>1. pc[p] = "acksent" /\ lock' = lock
    BY <1>12 DEF AckSent
  <2>2. PICK x \in fl.last :
        \/ /\ fl' = [fl EXCEPT !.last = {}, !.left = 0, !.sent = TRUE,
                               !.remaining = @ - FrameLen(x.cmd, fl.frameMode)]
           /\ Goto(p, "endscan")
        \/ fl' = IdleFlush /\ Goto(p, "return")
    BY <1>12 DEF AckSent
  <2>3. fl.hand = {}
    BY <1>b, <1>c, <2>1 DEF Holding
  <2>4. CASE fl' = IdleFlush /\ Goto(p, "return")
    BY <1>b, <2>1, <2>4, IdleKeeps, PhaseWithin
  <2>5. CASE fl'.hand = fl.hand /\ Goto(p, "endscan")
    BY <1>b, <2>1, <2>3, <2>5, PhaseWithin DEF Unladen
  <2> QED BY <1>0, <2>2, <2>4, <2>5 DEF FlushSet
<1>13. CASE EndScan(p)
  <2>1. pc[p] = "endscan" /\ lock = p
    BY <1>13, <1>a, <1>b DEF EndScan
  <2>2. fl.hand = {}
    BY <1>b, <1>c, <2>1 DEF Holding
  <2>3. CASE /\ fl' = [fl EXCEPT !.skipped = Tail(@)]
             /\ UNCHANGED <<pc, lock>>
    <3>1. fl'.hand = fl.hand
      BY <1>0, <2>3 DEF FlushSet
    <3> QED BY <1>b, <2>1, <2>3, <3>1, PhaseStays DEF Unladen
  <2>4. CASE \E failed : FlushReturn(p, failed)
    BY <2>1, <2>4, PhaseReturns
  <2>5. CASE /\ fl.skipped = <<>> /\ fl' = fl /\ lock' = lock
             /\ Goto(p, "clearsync") \/ Goto(p, "clearfw") \/ Goto(p, "drain")
    BY <1>b, <2>1, <2>2, <2>5, PhaseWithin
  <2> QED BY <1>13, <2>3, <2>4, <2>5 DEF EndScan, NextRound
<1>14. CASE ClearSync(p)
  <2>1. pc[p] = "clearsync" /\ lock = p
    BY <1>14, <1>a, <1>b DEF ClearSync
  <2>2. fl.hand = {} /\ fl.skipped = <<>>
    BY <1>b, <1>c, <1>d, <2>1 DEF Holding, Unladen
  <2>3. CASE \E failed : FlushReturn(p, failed)
    BY <2>1, <2>3, PhaseReturns
  <2>4. CASE /\ fl' = [fl EXCEPT !.syncMode = FALSE] \/ fl' = fl
             /\ lock' = lock /\ Goto(p, "clearfw")
    <3>1. fl'.hand = {} /\ fl'.skipped = <<>>
      BY <1>0, <2>2, <2>4 DEF FlushSet
    <3> QED BY <1>b, <2>1, <2>4, <3>1, PhaseWithin
  <2> QED BY <1>14, <2>3, <2>4 DEF ClearSync
<1>15. CASE ClearFW(p)
  <2>1. pc[p] = "clearfw" /\ lock = p
    BY <1>15, <1>a, <1>b DEF ClearFW
  <2>2. fl.hand = {} /\ fl.skipped = <<>>
    BY <1>b, <1>c, <1>d, <2>1 DEF Holding, Unladen
  <2>3. CASE \E failed : FlushReturn(p, failed)
    BY <2>1, <2>3, PhaseReturns
  <2>4. CASE /\ fl' = [fl EXCEPT !.fwMode = FALSE] \/ fl' = fl
             /\ lock' = lock /\ Goto(p, "drain")
    <3>1. fl'.hand = {} /\ fl'.skipped = <<>>
      BY <1>0, <2>2, <2>4 DEF FlushSet
    <3> QED BY <1>b, <2>1, <2>4, <3>1, PhaseWithin
  <2> QED BY <1>15, <2>3, <2>4 DEF ClearFW, NextRound
<1>16. CASE ReturnError(p)
  BY <1>16, <1>a, <1>b, PhaseReturns DEF ReturnError
<1> QED BY <1>1, <1>2, <1>3, <1>4, <1>5, <1>6, <1>7, <1>8, <1>9, <1>10, <1>11, <1>12,
           <1>13, <1>14, <1>15, <1>16 DEF FlushStep

\* PhaseInv is an invariant.
LEMMA PhaseKeeps == IInv /\ PhaseInv /\ [Next]_vars => PhaseInv'
<1> SUFFICES ASSUME IInv, PhaseInv, [Next]_vars PROVE PhaseInv'
  OBVIOUS
<1>1. ASSUME NEW k \in Conns, ConnStep(k) PROVE PhaseInv'
  <2>1. k \in Procs
    BY DEF Procs
  <2> QED BY <1>1, <2>1, ConnAside, PhaseAside
<1>2. CASE Environment /\ ~Crash
  <2>1. UNCHANGED <<pc, lock, fl>>
    BY <1>2 DEF Environment, Refuse, Accept, ExpireTTL, AckTimerElapses, DedupWindowEnds, procVars
  <2> QED BY <2>1 DEF PhaseInv
<1>3. CASE Crash
  <2>1. \A p \in Procs : pc'[p] \in {"process", "new"}
    BY <1>3 DEF Crash
  <2>2. lock' = NoProc /\ fl' = IdleFlush
    BY <1>3 DEF Crash
  <2> QED BY <2>1, <2>2, IdleKeeps, ProcsAssumption DEF PhaseInv, FlushLabels, Unladen
<1>4. CASE UNCHANGED vars
  BY <1>4 DEF vars, procVars, PhaseInv
<1> QED BY <1>1, <1>2, <1>3, <1>4, FlushPhase DEF Next, Environment

\* It holds when the adapter starts.
LEMMA InitPhase == Init => PhaseInv
  BY IdleKeeps, ProcsAssumption DEF Init, PhaseInv, FlushLabels, Unladen

-----------------------------------------------------------------------------
\* The commands the adapter still owes an outcome.
Owed == Held(sess) \cup Carried(fl)

\* Where every command is: owed an outcome, about to be given one by one
\* goroutine, or settled, and never two of these.
Ledger ==
  /\ \A p, q \in Procs : p # q => out[p] \cap out[q] = {}
  /\ \A p \in Procs : out[p] \cap Owed = {}
  /\ \A c \in Commands : terminal[c] \in {0, 1}
  /\ \A c \in Commands : terminal[c] = 1 => c \notin Owed /\ \A p \in Procs : c \notin out[p]
  /\ \A c \in Commands : fate[c] = "new" =>
       terminal[c] = 0 /\ \A p \in Procs : c \notin out[p]
  /\ \A c \in Commands : fate[c] = "accepted" =>
       \/ c \in Owed
       \/ \E p \in Procs : c \in out[p]
       \/ terminal[c] = 1
       \/ c \in overrun

LedgerInv == failures = 0 /\ crashes = 0 => Ledger

\* A step in which goroutine p takes over the commands in E to publish their
\* outcome, and the others stay owed or are overwritten in the in-flight table.
Hands(p, E) ==
  /\ \/ out' = [out EXCEPT ![p] = E] /\ out[p] = {}
     \/ out' = out /\ E = {}
  /\ Owed' \cup E \subseteq Owed
  /\ Owed' \cap E = {}
  /\ Owed \subseteq Owed' \cup E \cup overrun'
  /\ overrun \subseteq overrun'
  /\ fate' = fate /\ terminal' = terminal

\* Such a step keeps the ledger.
LEMMA HandsKeeps ==
  ASSUME IInv, Ledger, NEW p \in Procs, NEW E, Hands(p, E)
  PROVE  Ledger'
<1>1. \A q \in Procs : out'[q] = IF q = p THEN out[q] \cup E ELSE out[q]
  BY DEF Hands, IInv, ControlOK
<1>2. /\ \A c : c \in Owed' => c \in Owed /\ c \notin E
      /\ \A c \in E : c \in Owed
      /\ \A c : c \in Owed => c \in Owed' \/ c \in E \/ c \in overrun'
      /\ \A c \in overrun : c \in overrun'
      /\ fate' = fate /\ terminal' = terminal
  BY DEF Hands
<1>3. \A c \in Commands : fate[c] = "new" => c \notin Owed
  BY DEF IInv, Fresh, Owed
<1> DEFINE O == Owed
           P == Owed'
<1> HIDE DEF O, P
<1>4. \A q, r \in Procs : q # r => out'[q] \cap out'[r] = {}
  BY <1>1, <1>2 DEF Ledger
<1>5. \A q \in Procs : out'[q] \cap Owed' = {}
  BY <1>1, <1>2 DEF Ledger
<1>6. \A c \in Commands : terminal[c] = 1 =>
        c \notin Owed' /\ \A q \in Procs : c \notin out'[q]
  BY <1>1, <1>2 DEF Ledger
<1>7. \A c \in Commands : fate[c] = "new" =>
        terminal[c] = 0 /\ \A q \in Procs : c \notin out'[q]
  BY <1>1, <1>2, <1>3 DEF Ledger
<1>8. \A c \in Commands : fate[c] = "accepted" =>
        c \in Owed' \/ (\E q \in Procs : c \in out'[q]) \/ terminal[c] = 1 \/ c \in overrun'
  BY <1>1, <1>2 DEF Ledger
<1> QED BY <1>2, <1>4, <1>5, <1>6, <1>7, <1>8 DEF Ledger

\* Publishing an outcome settles its command.
LEMMA PublishKeeps ==
  ASSUME IInv, Ledger, NEW p \in Procs, NEW c \in Commands, Publish(p, c)
  PROVE  Ledger'
<1>1. /\ \A q \in Procs : out'[q] = IF q = p THEN out[q] \ {c} ELSE out[q]
      /\ \A d \in Commands : terminal'[d] = IF d = c THEN terminal[d] + 1 ELSE terminal[d]
      /\ c \in out[p]
  BY DEF Publish, IInv, ControlOK
<1>2. Owed' = Owed /\ fate' = fate /\ overrun' = overrun
  BY DEF Publish, sessVars, Owed
<1>3. terminal[c] = 0 /\ c \notin Owed /\ (\A q \in Procs : q # p => c \notin out[q]) /\ fate[c] # "new"
  BY <1>1 DEF Ledger
<1>4. terminal'[c] = 1 /\ \A d \in Commands : d # c => terminal'[d] = terminal[d]
  BY <1>1, <1>3, SMTT(30)
<1>5. /\ \A q, r \in Procs : q # r => out'[q] \cap out'[r] = {}
      /\ \A q \in Procs : out'[q] \cap Owed = {}
  BY <1>1 DEF Ledger
<1>6. \A d \in Commands : terminal'[d] \in {0, 1}
  BY <1>4 DEF Ledger
<1>7. \A d \in Commands : terminal'[d] = 1 => d \notin Owed /\ \A q \in Procs : d \notin out'[q]
  <2> TAKE d \in Commands
  <2>1. CASE d = c
    BY <1>1, <1>3, <2>1
  <2>2. CASE d # c
    <3>1. terminal'[d] = 1 => d \notin Owed /\ \A q \in Procs : d \notin out[q]
      BY <1>4, <2>2 DEF Ledger
    <3> QED BY <1>1, <3>1
  <2> QED BY <2>1, <2>2
<1>8. \A d \in Commands : fate[d] = "new" =>
        terminal'[d] = 0 /\ \A q \in Procs : d \notin out'[q]
  <2> TAKE d \in Commands
  <2> HAVE fate[d] = "new"
  <2>1. d # c /\ terminal[d] = 0 /\ \A q \in Procs : d \notin out[q]
    BY <1>3 DEF Ledger
  <2>2. \A q \in Procs : d \notin out'[q]
    BY <1>1, <2>1
  <2> QED BY <1>4, <2>1, <2>2
<1>9. \A d \in Commands : fate[d] = "accepted" =>
        d \in Owed \/ (\E q \in Procs : d \in out'[q]) \/ terminal'[d] = 1 \/ d \in overrun
  <2> SUFFICES ASSUME NEW d \in Commands, fate[d] = "accepted", d # c
               PROVE  d \in Owed \/ (\E q \in Procs : d \in out'[q]) \/ terminal'[d] = 1 \/ d \in overrun
    BY <1>4
  <2>1. \A q \in Procs : d \in out[q] => d \in out'[q]
    BY <1>1
  <2> QED BY <1>4, <2>1 DEF Ledger
<1> QED BY <1>2, <1>5, <1>6, <1>7, <1>8, <1>9 DEF Ledger

\* Enqueue takes over or refuses a command nobody held, and drops commands of
\* the queue to make room.
LEMMA EnqueueMoves ==
  ASSUME IInv, NEW c \in Commands, Accept(c) \/ Refuse(c)
  PROVE  /\ out' = out /\ terminal' = terminal /\ overrun' = overrun
         /\ fate[c] = "new" /\ c \notin Owed
         /\ \E D \in SUBSET Owed, s \in {"accepted", "refused"} :
              /\ fate' = [d \in Commands |-> IF d = c THEN s
                             ELSE IF d \in D THEN "dropped" ELSE fate[d]]
              /\ Owed' = (Owed \ D) \cup (IF s = "accepted" THEN {c} ELSE {})
<1> DEFINE room == MakeRoom(sess.queue, c)
           t == [RecordKey(sess, c) EXCEPT !.queue = room]
           x == Item(c, 0, 0)
           gone == Queued(sess.queue) \ Queued(room)
           newFate(D, s) == [d \in Commands |-> IF d = c THEN s
                               ELSE IF d \in D THEN "dropped" ELSE fate[d]]
<1>0. /\ fl' = fl /\ out' = out /\ terminal' = terminal /\ overrun' = overrun
      /\ fate[c] = "new"
  BY DEF Accept, Refuse, procVars
<1>1. SessionOK(t) /\ Held(t) \subseteq Held(sess)
  BY RoomKeeps DEF IInv
<1>2. t.queue = room /\ t.inFlight = sess.inFlight
  BY DEF RecordKey, IInv, SessionOK, LegalSession, SessionSet
<1>3. x \in ItemSet /\ x.cmd = c
  BY SeqsType DEF Item, ItemSet
<1>4. c \notin Owed
  BY <1>0 DEF IInv, Fresh, Owed
<1>5. ASSUME Accept(c) PROVE sess' = [t EXCEPT !.queue = Push(@, x)]
  BY <1>5 DEF Accept, RecordKey, IInv, SessionOK, LegalSession, SessionSet
<1>6. \/ Accept(c) /\ fate' = newFate(gone, "accepted")
      \/ sess' = sess /\ fate' = [fate EXCEPT ![c] = "refused"]
      \/ sess' = t /\ fate' = newFate(gone, "refused")
  BY DEF Accept, Refuse
<1> HIDE DEF t, x, room
<1>7. Held(t) = Held(sess) \ gone /\ gone \subseteq Held(sess)
  BY <1>1, <1>2 DEF Held, IInv, SessionOK
<1>8. Accept(c) => Held(sess') = Held(t) \cup {c}
  <2>1. /\ SessionOK([t EXCEPT !.queue = Push(@, x)])
        /\ Held([t EXCEPT !.queue = Push(@, x)]) = Held(t) \cup {c}
    BY <1>1, <1>3, <1>4, PushKeeps DEF Owed
  <2> QED BY <1>5, <2>1
<1>9. gone \cap Carried(fl) = {} /\ gone \in SUBSET Owed
  BY <1>7 DEF IInv, FlushOK, Held, Owed
<1> HIDE DEF gone
<1> DEFINE Goal == \E D \in SUBSET Owed, s \in {"accepted", "refused"} :
              /\ fate' = newFate(D, s)
              /\ Owed' = (Owed \ D) \cup (IF s = "accepted" THEN {c} ELSE {})
<1>10. CASE Accept(c) /\ fate' = newFate(gone, "accepted")
  <2>1. Owed' = (Owed \ gone) \cup {c}
    BY <1>0, <1>7, <1>8, <1>9, <1>10 DEF Owed
  <2> QED BY <1>0, <1>4, <1>9, <1>10, <2>1
<1>11. CASE sess' = sess /\ fate' = [fate EXCEPT ![c] = "refused"]
  <2>1. Owed' = (Owed \ {}) \cup {}
    BY <1>0, <1>11 DEF Owed
  <2>2. fate' = newFate({}, "refused")
    BY <1>11 DEF IInv, ControlOK
  <2> QED BY <1>0, <1>4, <2>1, <2>2
<1>12. CASE sess' = t /\ fate' = newFate(gone, "refused")
  <2>1. Owed' = (Owed \ gone) \cup {}
    BY <1>0, <1>7, <1>9, <1>12 DEF Owed
  <2> QED BY <1>0, <1>4, <1>9, <1>12, <2>1
<1> QED BY <1>6, <1>10, <1>11, <1>12

\* Enqueue keeps the ledger.
LEMMA EnqueueKeeps ==
  ASSUME IInv, Ledger, NEW c \in Commands, Accept(c) \/ Refuse(c)
  PROVE  Ledger'
<1>0. /\ out' = out /\ terminal' = terminal /\ overrun' = overrun
      /\ fate[c] = "new" /\ c \notin Owed
  BY EnqueueMoves
<1>1. /\ \A d \in Commands : fate'[d] = "new" => fate[d] = "new"
      /\ \A d \in Commands : fate'[d] = "accepted" =>
           d \in Owed' \/ (fate[d] = "accepted" /\ (d \in Owed => d \in Owed'))
      /\ \A d : d \in Owed' => d \in Owed \/ d = c
  <2>1. PICK D \in SUBSET Owed, s \in {"accepted", "refused"} :
          /\ fate' = [d \in Commands |-> IF d = c THEN s
                         ELSE IF d \in D THEN "dropped" ELSE fate[d]]
          /\ Owed' = (Owed \ D) \cup (IF s = "accepted" THEN {c} ELSE {})
    BY EnqueueMoves
  <2> QED BY <2>1
<1>2. terminal[c] = 0 /\ \A p \in Procs : c \notin out[p]
  BY <1>0 DEF Ledger
<1>3. \A p \in Procs : out[p] \cap Owed' = {}
  <2>1. \A p \in Procs : out[p] \cap Owed = {}
    BY DEF Ledger
  <2>2. \A d : d \in Owed' => d \in Owed \/ d = c
    BY <1>1
  <2> QED BY ONLY <1>2, <2>1, <2>2, ZenonT(30)
<1>4. \A d \in Commands : terminal[d] = 1 => d \notin Owed'
  BY <1>1, <1>2, SMTT(30) DEF Ledger
<1>5. \A d \in Commands : fate'[d] = "accepted" =>
        d \in Owed' \/ (\E q \in Procs : d \in out[q]) \/ terminal[d] = 1 \/ d \in overrun
  BY <1>1 DEF Ledger
<1>6. \A d \in Commands : fate'[d] = "new" =>
        terminal[d] = 0 /\ \A p \in Procs : d \notin out[p]
  BY <1>1 DEF Ledger
<1>7. \A d \in Commands : terminal[d] = 1 => \A p \in Procs : d \notin out[p]
  BY DEF Ledger
<1>8. /\ \A p, q \in Procs : p # q => out[p] \cap out[q] = {}
      /\ \A d \in Commands : terminal[d] \in {0, 1}
  BY DEF Ledger
<1> QED BY <1>0, <1>3, <1>4, <1>5, <1>6, <1>7, <1>8 DEF Ledger

-----------------------------------------------------------------------------
\* A step that moves no command.
LEMMA QuietHands ==
  ASSUME IInv, Quiet(sess, sess'), Carried(fl') = Carried(fl), out' = out,
         fate' = fate, terminal' = terminal, overrun' = overrun
  PROVE  \A p : Hands(p, {})
<1>1. Held(sess') = Held(sess)
  BY QuietKeeps DEF IInv
<1> QED BY <1>1 DEF Hands, Owed

\* As long as no save fails, none has failed and this one does not.
LEMMA NoFailure ==
  ASSUME IInv, failures' = 0
  PROVE  \A t : ~SaveFailedOf(t)
  BY SMTT(30) DEF SaveFailedOf, IInv, StoreOK

\* The steps of handleConn outside the flush.
LEMMA ConnHands ==
  ASSUME IInv, NEW k \in Conns, ConnStep(k), failures' = 0
  PROVE  \E E : Hands(k, E)
<1> USE DEF histVars
<1>0. sess \in SessionSet /\ Quiet(sess, sess)
  BY DEF IInv, SessionOK, LegalSession, Quiet
<1>a. \A t : ~SaveFailedOf(t)
  BY NoFailure
<1>b. msg[k].type \in {"status1", "ack"} => msg[k].free \in Nat
  BY MessageFields DEF IInv, ControlOK
<1>c. pc[k] = "setmode" => msg[k].mode \in {"sequenced", "compact"}
  BY MessageFields DEF IInv, ControlOK
<1>1. CASE Connect(k) \/ ReadFails(k) \/ CloseConn(k)
  BY <1>0, <1>1, QuietHands DEF Connect, ReadFails, CloseConn, sessVars
<1>2. ASSUME NEW mode \in FrameModes, Register(k, mode) PROVE \E E : Hands(k, E)
  BY <1>0, <1>2, QuietHands, QuietOperations DEF Register, sessVars
<1>3. CASE AdoptFrameMode(k)
  <2>1. Quiet(sess, sess')
    BY <1>0, <1>3, <1>c, QuietOperations DEF AdoptFrameMode, At
  <2> QED BY <1>3, <2>1, QuietHands DEF AdoptFrameMode
<1>4. CASE RegistrationAck(k) \/ GoOffline(k)
  BY <1>0, <1>4, QuietHands, QuietOperations DEF RegistrationAck, GoOffline, Touch
<1>5. ASSUME NEW m \in Messages, Receive(k, m) PROVE \E E : Hands(k, E)
  BY <1>0, <1>5, QuietHands DEF Receive, Touch
<1>7. CASE Handle(k)
  <2>1. Quiet(sess, sess')
    BY <1>0, <1>7, <1>b, QuietOperations DEF Handle
  <2> QED BY <1>7, <2>1, QuietHands DEF Handle
<1>8. CASE ActStatus1(k) \/ ActOther(k)
  BY <1>0, <1>8, QuietHands, QuietOperations DEF ActStatus1, ActOther, sessVars
<1>9. CASE ActAck(k)
  <2> DEFINE n == msg[k].frame.seq
             hit == {e \in sess.inFlight : e.seq = n}
             T == {e \in sess.inFlight : e.seq # n}
             E == EntryCmds(hit)
  <2>1. CASE sess' = sess /\ out' = out
    BY <1>0, <1>9, <2>1, QuietHands DEF ActAck
  <2>2. CASE sess' = AckInFlight(sess, n) /\ Emit(k, E)
    <3>1. sess' = [sess EXCEPT !.inFlight = T] /\ T \in SUBSET sess.inFlight
      BY <2>2 DEF AckInFlight
    <3>2. EntryCmds(sess.inFlight) = EntryCmds(T) \cup E /\ EntryCmds(T) \cap E = {}
      BY DEF EntryCmds, IInv, SessionOK, DistinctEntries
    <3> HIDE DEF T, E
    <3>3. Held(sess') = Queued(sess.queue) \cup EntryCmds(T)
      BY <3>1, RemoveKeeps DEF IInv
    <3>4. Held(sess) = Held(sess') \cup E /\ Held(sess') \cap E = {}
      BY <3>2, <3>3 DEF Held, IInv, SessionOK
    <3>5. /\ fl' = fl /\ fate' = fate /\ terminal' = terminal /\ overrun' = overrun
          /\ out' = [out EXCEPT ![k] = E] /\ out[k] = {}
      BY <1>9, <2>2 DEF ActAck, Emit, At
    <3>6. Carried(fl) \cap E = {}
      BY <3>4 DEF IInv, FlushOK
    <3> QED BY <3>4, <3>5, <3>6 DEF Hands, Owed
  <2>3. E = {e.cmd : e \in hit}
    BY DEF EntryCmds
  <2> HIDE DEF E
  <2>4. \/ sess' = AckInFlight(sess, n) /\ Emit(k, {e.cmd : e \in hit})
        \/ sess' = sess /\ out' = out
    BY <1>9 DEF ActAck, sessVars
  <2> QED BY <2>1, <2>2, <2>3, <2>4
<1> QED BY <1>1, <1>2, <1>3, <1>4, <1>5, <1>7, <1>8, <1>9 DEF ConnStep
\* processInFlight publishes the commands it gives up.
LEMMA ProcessHands ==
  ASSUME IInv, NEW p \in Procs, ProcessStep(p), failures' = 0
  PROVE  \E E : Hands(p, E)
<1> DEFINE E == EntryCmds(TimedOutExpired(sess, expired) \cup TimedOutFailed(sess, expired))
<1>1. PICK order \in RetryOrders(sess, expired) :
        sess' = ProcessInFlight(sess, expired, order)
  BY DEF ProcessStep
<1>2. Held(sess') = Held(sess) \ E
  BY <1>1, ProcessKeeps DEF IInv
<1>3. E \subseteq Held(sess)
  BY DEF EntryCmds, TimedOutExpired, TimedOutFailed, Unexpired, Due, Held
<1>4. /\ fl' = fl /\ fate' = fate /\ terminal' = terminal /\ overrun' = overrun
      /\ out' = [out EXCEPT ![p] = E] /\ out[p] = {}
  BY NoFailure DEF ProcessStep, SaveFailed, Emit, At, histVars, EntryCmds
<1>5. Carried(fl) \cap E = {}
  BY <1>3 DEF IInv, FlushOK
<1> HIDE DEF E
<1> QED BY <1>2, <1>3, <1>4, <1>5 DEF Hands, Owed

\* DrainExpired publishes the expired commands of the queue.
LEMMA DrainHands ==
  ASSUME IInv, NEW p \in Procs, Drain(p)
  PROVE  \E E : Hands(p, E)
<1> DEFINE q == DrainExpired(sess.queue, expired)
           E == Queued(sess.queue) \cap expired
<1>1. sess.queue \in [Priorities -> Seq(ItemSet)] /\ TwinFree(sess.queue)
  BY DEF IInv, SessionOK, LegalSession, SessionSet
<1>2. /\ q \in [Priorities -> Seq(ItemSet)] /\ TwinFree(q)
      /\ Queued(q) = Queued(sess.queue) \ expired
  BY <1>1, DrainCmds
<1>3. /\ sess' = [sess EXCEPT !.queue = q]
      /\ fate' = fate /\ terminal' = terminal /\ overrun' = overrun
      /\ out' = [out EXCEPT ![p] = E] /\ out[p] = {}
  BY DEF Drain, Emit, At, histVars
<1>4. fl'.skipped = fl.skipped /\ fl'.hand = fl.hand
  BY DEF Drain, IInv, FlushOK, FlushSet
<1>5. Carried(fl') = Carried(fl)
  BY <1>4 DEF Carried
<1> HIDE DEF q
<1>6. Held(sess') = Queued(q) \cup EntryCmds(sess.inFlight)
  BY <1>2, <1>3, ShrinkQueue DEF IInv
<1>7. Held(sess') = Held(sess) \ E
  BY <1>2, <1>6 DEF Held, IInv, SessionOK
<1>8. E \subseteq Held(sess) /\ Carried(fl) \cap E = {}
  BY DEF Held, IInv, FlushOK
<1> HIDE DEF E
<1> QED BY <1>3, <1>5, <1>7, <1>8 DEF Hands, Owed

\* PopNext hands its command to the flusher, or the flusher publishes it.
LEMMA PopHands ==
  ASSUME IInv, PhaseInv, NEW p \in Procs, Pop(p)
  PROVE  \E E : Hands(p, E)
<1>1. PICK b \in NextBuffer(sess.queue, fl.fwMode, fl.syncMode) :
        /\ sess' = [sess EXCEPT !.queue = PopFrom(@, b)]
        /\ \/ /\ fl' = [fl EXCEPT !.left = @ - 1]
              /\ Emit(p, {Head(sess.queue[b]).cmd})
           \/ /\ fl' = [fl EXCEPT !.left = @ - 1,
                                  !.skipped = Append(@, Head(sess.queue[b]))]
              /\ out' = out
           \/ /\ fl' = [fl EXCEPT !.left = @ - 1, !.hand = {Head(sess.queue[b])}]
              /\ out' = out
  BY DEF Pop
<1> DEFINE x == Head(sess.queue[b])
<1>2. Takes(sess, b, sess')
  <2>1. Takes(sess, b, [sess EXCEPT !.queue = PopFrom(@, b)])
    BY PopTakes DEF IInv
  <2> QED BY <1>1, <2>1
<1> HIDE DEF x
<1>3. x \in ItemSet /\ x.cmd \notin Held(sess') /\ Held(sess) = Held(sess') \cup {x.cmd}
  BY <1>2 DEF Takes, x
<1>4. /\ fate' = fate /\ terminal' = terminal /\ overrun' = overrun
      /\ out[p] = {} /\ pc[p] = "pop" /\ fl \in FlushSet
  BY DEF Pop, At, histVars, IInv, FlushOK
<1>5. fl.hand = {}
  BY <1>4 DEF PhaseInv, FlushLabels, Holding
<1>6. x.cmd \notin Carried(fl)
  BY <1>3 DEF IInv, FlushOK
<1>7. CASE fl' = [fl EXCEPT !.left = @ - 1] /\ Emit(p, {x.cmd})
  <2>1. Carried(fl') = Carried(fl)
    BY <1>4, <1>7 DEF Carried, FlushSet
  <2>2. Hands(p, {x.cmd})
    BY <1>3, <1>4, <1>6, <1>7, <2>1 DEF Hands, Owed, Emit
  <2> QED BY <2>2
<1>8. ASSUME Carried(fl') = Carried(fl) \cup {x.cmd}, out' = out
      PROVE  \E E : Hands(p, E)
  <2>1. Hands(p, {})
    BY <1>3, <1>4, <1>6, <1>8 DEF Hands, Owed
  <2> QED BY <2>1
<1>9. CASE fl' = [fl EXCEPT !.left = @ - 1, !.skipped = Append(@, x)] /\ out' = out
  <2>1. fl.skipped \in Seq(ItemSet)
    BY <1>4 DEF FlushSet
  <2>2. Cmds(Append(fl.skipped, x)) = Cmds(fl.skipped) \cup {x.cmd}
    BY <1>3, <2>1, AppendCmds, SMTT(30)
  <2>3. fl'.hand = fl.hand /\ fl'.skipped = Append(fl.skipped, x)
    BY <1>4, <1>9 DEF FlushSet
  <2> QED BY <1>8, <1>9, <2>2, <2>3 DEF Carried
<1>10. CASE fl' = [fl EXCEPT !.left = @ - 1, !.hand = {x}] /\ out' = out
  <2>1. fl'.hand = {x} /\ fl'.skipped = fl.skipped
    BY <1>4, <1>10 DEF FlushSet
  <2>2. Carried(fl') = Carried(fl) \cup {x.cmd}
    BY <1>5, <2>1 DEF Carried
  <2> QED BY <1>8, <1>10, <2>2
<1> QED BY <1>1, <1>7, <1>9, <1>10 DEF x

\* The flusher writes the command in its hands, puts it back, or publishes it.
LEMMA SendHands ==
  ASSUME IInv, PhaseInv, NEW p \in Procs, Send(p)
  PROVE  \E E : Hands(p, E)
<1>1. PICK x \in fl.hand :
        \/ /\ \/ fl' = [fl EXCEPT !.hand = {}]
              \/ fl' = [fl EXCEPT !.hand = {}, !.left = 0, !.failed = TRUE]
           /\ Emit(p, {x.cmd})
        \/ /\ fl' = [fl EXCEPT !.hand = {}, !.left = 0, !.skipped = <<x>> \o @]
           /\ out' = out
        \/ fl' = fl /\ out' = out
  BY DEF Send
<1>2. /\ sess' = sess /\ fate' = fate /\ terminal' = terminal /\ overrun' = overrun
      /\ out[p] = {} /\ fl \in FlushSet
  BY DEF Send, At, sessVars, IInv, FlushOK
<1>3. fl.hand = {x} /\ x \in ItemSet /\ fl.skipped \in Seq(ItemSet)
  BY <1>1, <1>2 DEF PhaseInv, FlushSet
<1>4. /\ Carried(fl) = Cmds(fl.skipped) \cup {x.cmd}
      /\ x.cmd \notin Cmds(fl.skipped) /\ x.cmd \notin Held(sess)
  BY <1>3 DEF Carried, IInv, FlushOK
<1>5. CASE /\ \/ fl' = [fl EXCEPT !.hand = {}]
              \/ fl' = [fl EXCEPT !.hand = {}, !.left = 0, !.failed = TRUE]
           /\ Emit(p, {x.cmd})
  <2>1. fl'.hand = {} /\ fl'.skipped = fl.skipped
    BY <1>2, <1>5 DEF FlushSet
  <2>2. Carried(fl') = Cmds(fl.skipped)
    BY <2>1 DEF Carried
  <2>3. Hands(p, {x.cmd})
    BY <1>2, <1>4, <1>5, <2>2 DEF Hands, Owed, Emit
  <2> QED BY <2>3
<1>6. CASE Carried(fl') = Carried(fl) /\ out' = out
  <2>1. Hands(p, {})
    BY <1>2, <1>6 DEF Hands, Owed
  <2> QED BY <2>1
<1>7. CASE /\ fl' = [fl EXCEPT !.hand = {}, !.left = 0, !.skipped = <<x>> \o @]
           /\ out' = out
  <2> DEFINE u == <<x>>
  <2>1. u \in Seq(ItemSet) /\ DOMAIN u = {1} /\ u[1] = x
    BY <1>3, SMTT(30)
  <2> HIDE DEF u
  <2>2. Cmds(u) = {x.cmd}
    BY <2>1 DEF Cmds
  <2>3. Cmds(u \o fl.skipped) = {x.cmd} \cup Cmds(fl.skipped)
    BY <1>3, <2>1, <2>2, ConcatCmds, SMTT(30)
  <2>4. fl'.hand = {} /\ fl'.skipped = u \o fl.skipped
    BY <1>2, <1>7 DEF FlushSet, u
  <2>5. Carried(fl') = Carried(fl)
    BY <1>4, <2>3, <2>4 DEF Carried
  <2> QED BY <1>6, <1>7, <2>5
<1> QED BY <1>1, <1>5, <1>6, <1>7

\* RegisterInFlight takes the command out of the flusher's hands; what it
\* replaces is overrun.
LEMMA InFlightHands ==
  ASSUME IInv, PhaseInv, NEW p \in Procs, InFlight(p), failures' = 0
  PROVE  \E E : Hands(p, E)
<1>1. PICK x \in fl.hand :
        /\ sess' = RegisterInFlight(sess, fl.seq, x)
        /\ fl' = [fl EXCEPT !.hand = {}, !.last = {x}]
        /\ out' = out
  BY NoFailure DEF InFlight, SaveFailed
<1>2. /\ fate' = fate /\ terminal' = terminal /\ fl \in FlushSet
      /\ overrun' = overrun \cup EntryCmds({e \in sess.inFlight : e.seq = fl.seq})
  BY DEF InFlight, IInv, FlushOK, EntryCmds
<1>3. fl.hand = {x} /\ x \in ItemSet /\ fl.seq \in Seqs
  BY <1>1, <1>2 DEF PhaseInv, FlushSet
<1>4. /\ Carried(fl) = Cmds(fl.skipped) \cup {x.cmd}
      /\ x.cmd \notin Cmds(fl.skipped) /\ x.cmd \notin Held(sess)
  BY <1>3 DEF Carried, IInv, FlushOK
<1>5. /\ Held(sess') \subseteq Held(sess) \cup {x.cmd}
      /\ Held(sess) \cup {x.cmd} \subseteq
           Held(sess') \cup EntryCmds({e \in sess.inFlight : e.seq = fl.seq})
  BY <1>1, <1>3, <1>4, RegisterKeeps, SMTT(30) DEF IInv
<1>6. fl'.hand = {} /\ fl'.skipped = fl.skipped
  BY <1>1, <1>2 DEF FlushSet
<1>7. Carried(fl') = Cmds(fl.skipped)
  BY <1>6 DEF Carried
<1>8. Hands(p, {})
  BY <1>1, <1>2, <1>4, <1>5, <1>7 DEF Hands, Owed
<1> QED BY <1>8

\* A command set aside goes back to the queue.
LEMMA EndScanHands ==
  ASSUME IInv, PhaseInv, NEW p \in Procs, EndScan(p)
  PROVE  \E E : Hands(p, E)
<1>1. /\ fate' = fate /\ terminal' = terminal /\ overrun' = overrun /\ out' = out
      /\ fl \in FlushSet /\ pc[p] = "endscan" /\ Quiet(sess, sess)
  BY DEF EndScan, At, histVars, IInv, FlushOK, SessionOK, LegalSession, Quiet
<1>2. fl.hand = {}
  BY <1>1 DEF PhaseInv, FlushLabels, Holding
<1>3. CASE /\ fl.skipped # <<>>
           /\ sess' = [sess EXCEPT !.queue = Push(@, Head(fl.skipped))]
           /\ fl' = [fl EXCEPT !.skipped = Tail(@)]
  <2> DEFINE x == Head(fl.skipped)
  <2>1. fl.skipped \in Seq(ItemSet)
    BY <1>1 DEF FlushSet
  <2>2. /\ x \in ItemSet
        /\ Cmds(fl.skipped) = Cmds(Tail(fl.skipped)) \cup {x.cmd}
        /\ x.cmd \notin Cmds(Tail(fl.skipped))
    BY <1>3, <2>1, TailCmds DEF IInv, FlushOK
  <2>3. fl'.skipped = Tail(fl.skipped) /\ fl'.hand = fl.hand
    BY <1>1, <1>3 DEF FlushSet
  <2> HIDE DEF x
  <2>4. x.cmd \in Carried(fl) /\ x.cmd \notin Held(sess)
    BY <2>2 DEF IInv, FlushOK, Carried
  <2>5. Held([sess EXCEPT !.queue = Push(@, x)]) = Held(sess) \cup {x.cmd}
    BY <2>2, <2>4, PushKeeps DEF IInv
  <2>6. Held(sess') = Held(sess) \cup {x.cmd}
    BY <1>3, <2>5 DEF x
  <2>7. Carried(fl) = Carried(fl') \cup {x.cmd}
    BY <1>2, <2>2, <2>3 DEF Carried
  <2>8. Hands(p, {})
    BY <1>1, <2>6, <2>7 DEF Hands, Owed
  <2> QED BY <2>8
<1>4. CASE sess' = sess /\ fl' = fl
  BY <1>1, <1>4, QuietHands
<1>5. CASE sess' = sess /\ fl' = IdleFlush /\ fl.skipped = <<>>
  <2>1. Carried(fl') = Carried(fl)
    BY <1>2, <1>5, IdleKeeps DEF Carried
  <2> QED BY <1>1, <1>5, <2>1, QuietHands
<1> QED BY <1>3, <1>4, <1>5 DEF EndScan, NextRound, FlushReturn, sessVars

\* Giving a command its number moves no command.
LEMMA NumberQuiet ==
  ASSUME IInv, PhaseInv, NEW p \in Procs, Number(p)
  PROVE  Quiet(sess, sess') /\ Carried(fl') = Carried(fl)
<1>0. sess \in SessionSet /\ Quiet(sess, sess) /\ fl \in FlushSet
  BY DEF IInv, SessionOK, LegalSession, Quiet, FlushOK
<1>1. PICK x \in fl.hand :
      \/ /\ fl' = [fl EXCEPT !.seq = x.retrySeq, !.hand = {[x EXCEPT !.retrySeq = 0]}]
         /\ sess' = sess
      \/ /\ sess' = NextCommandSeq(sess)
         /\ fl' = [fl EXCEPT !.seq = sess'.nextSeq]
  BY DEF Number, sessVars
<1>2. Quiet(sess, sess')
  BY <1>0, <1>1, QuietOperations
<1>3. CASE fl' = [fl EXCEPT !.seq = sess'.nextSeq]
  <2>1. fl'.hand = fl.hand /\ fl'.skipped = fl.skipped
    BY <1>0, <1>3 DEF FlushSet
  <2> QED BY <1>2, <2>1 DEF Carried
<1>4. CASE fl' = [fl EXCEPT !.seq = x.retrySeq, !.hand = {[x EXCEPT !.retrySeq = 0]}]
  <2> DEFINE y == [x EXCEPT !.retrySeq = 0]
  <2>1. x \in ItemSet /\ fl.hand = {x}
    BY <1>0, <1>1 DEF FlushSet, PhaseInv
  <2>2. y.cmd = x.cmd
    BY <2>1 DEF ItemSet
  <2> HIDE DEF y
  <2>3. fl'.hand = {y} /\ fl'.skipped = fl.skipped
    BY <1>0, <1>4 DEF FlushSet, y
  <2> QED BY <1>2, <2>1, <2>2, <2>3 DEF Carried
<1> QED BY <1>1, <1>2, <1>3, <1>4

\* The other steps of the flush move no command.
LEMMA FlushHands ==
  ASSUME IInv, PhaseInv, NEW p \in Procs, FlushStep(p), failures' = 0,
         \A c \in Commands : ~Publish(p, c)
  PROVE  \E E : Hands(p, E)
<1> USE DEF At, histVars, sessVars
<1>0. sess \in SessionSet /\ Quiet(sess, sess) /\ fl \in FlushSet
  BY DEF IInv, SessionOK, LegalSession, Quiet, FlushOK
<1>a. \A t : ~SaveFailedOf(t)
  BY NoFailure
<1>b. /\ pc[p] \in {"count", "clearsync", "clearfw", "return"} => fl.hand = {} /\ fl.skipped = <<>>
      /\ lock = NoProc => fl.hand = {} /\ fl.skipped = <<>>
  BY IdleKeeps DEF PhaseInv, FlushLabels, Holding, Unladen
<1>c. fl.hand = {} /\ fl.skipped = <<>> => Carried(fl) = {}
  BY IdleKeeps DEF Carried
<1>d. Carried(IdleFlush) = {}
  BY IdleKeeps
<1>1. ASSUME fl'.hand = fl.hand, fl'.skipped = fl.skipped
      PROVE  Carried(fl') = Carried(fl)
  BY <1>1 DEF Carried
<1>2. CASE Context(p)
  <2>1. fl = IdleFlush /\ fl.hand = {} /\ fl.skipped = <<>>
    BY <1>2, IdleKeeps DEF Context, PhaseInv
  <2>2. CASE fl' = IdleFlush
    BY <1>0, <1>2, <2>1, <2>2, QuietHands DEF Context
  <2>3. CASE fl' = [fl EXCEPT !.conn = sess.conn, !.fwMode = sess.fwMode,
                              !.syncMode = sess.syncMode,
                              !.frameMode = sess.frameMode,
                              !.remaining = EffectiveBuffer(sess.bufferFree)]
    <3>1. fl'.hand = fl.hand /\ fl'.skipped = fl.skipped
      BY <1>0, <2>3 DEF FlushSet
    <3> QED BY <1>0, <1>1, <1>2, <3>1, QuietHands DEF Context
  <2> QED BY <1>2, <2>2, <2>3 DEF Context, FlushReturn
<1>3. CASE Count(p)
  BY <1>0, <1>3, <1>b, <1>c, <1>d, QuietHands DEF Count, FlushReturn
<1>4. CASE PopNothing(p)
  <2>1. fl'.hand = fl.hand /\ fl'.skipped = fl.skipped
    BY <1>0, <1>4 DEF PopNothing, FlushSet
  <2> QED BY <1>0, <1>1, <1>4, <2>1, QuietHands DEF PopNothing
<1>5. CASE Number(p)
  BY <1>5, NumberQuiet, QuietHands DEF Number
<1>6. CASE Modes(p)
  <2>1. /\ sess' = SetSyncMode(sess, TRUE) \/ sess' = SetFWMode(sess, TRUE)
        /\ fl' = [fl EXCEPT !.syncMode = TRUE] \/ fl' = [fl EXCEPT !.fwMode = TRUE]
        /\ out' = out
    BY <1>6, <1>a DEF Modes, SaveFailed
  <2>2. Quiet(sess, sess')
    BY <1>0, <2>1, QuietOperations
  <2>3. fl'.hand = fl.hand /\ fl'.skipped = fl.skipped
    BY <1>0, <2>1 DEF FlushSet
  <2> QED BY <1>1, <1>6, <2>1, <2>2, <2>3, QuietHands DEF Modes
<1>7. CASE AckSent(p)
  <2>1. PICK x \in fl.last :
          /\ fl' = [fl EXCEPT !.last = {}, !.left = 0, !.sent = TRUE,
                              !.remaining = @ - FrameLen(x.cmd, fl.frameMode)]
          /\ out' = out
    BY <1>7, <1>a DEF AckSent, SaveFailed
  <2>2. fl'.hand = fl.hand /\ fl'.skipped = fl.skipped
    BY <1>0, <2>1 DEF FlushSet
  <2> QED BY <1>0, <1>1, <1>7, <2>1, <2>2, QuietHands DEF AckSent
<1>8. CASE ClearSync(p) \/ ClearFW(p)
  <2>1. /\ Quiet(sess, sess') /\ fate' = fate /\ terminal' = terminal
        /\ overrun' = overrun /\ out' = out
    BY <1>0, <1>8, QuietOperations DEF ClearSync, ClearFW
  <2>2. fl.hand = {} /\ fl.skipped = <<>>
    BY <1>8, <1>b DEF ClearSync, ClearFW
  <2>3. \/ fl' = fl \/ fl' = IdleFlush
        \/ fl' = [fl EXCEPT !.syncMode = FALSE] \/ fl' = [fl EXCEPT !.fwMode = FALSE]
    BY <1>8 DEF ClearSync, ClearFW, NextRound, FlushReturn
  <2>4. fl'.hand = fl.hand /\ fl'.skipped = fl.skipped
    BY <1>0, <2>2, <2>3, IdleKeeps DEF FlushSet
  <2> QED BY <1>1, <2>1, <2>4, QuietHands
<1>9. CASE ReturnError(p)
  BY <1>0, <1>9, <1>b, <1>c, <1>d, QuietHands DEF ReturnError, FlushReturn
<1> QED BY <1>2, <1>3, <1>4, <1>5, <1>6, <1>7, <1>8, <1>9, ProcessHands, DrainHands,
           PopHands, SendHands, InFlightHands, EndScanHands DEF FlushStep

\* The passing of time moves no command.
LEMMA TimeHands ==
  ASSUME IInv, NEW p \in Procs,
         \/ \E c \in Commands : ExpireTTL(c)
         \/ \E e \in sess.inFlight : AckTimerElapses(e)
         \/ \E key \in sess.dedup : DedupWindowEnds(key)
  PROVE  Hands(p, {})
<1> USE DEF procVars, histVars
<1>1. ASSUME NEW c \in Commands, ExpireTTL(c) PROVE Hands(p, {})
  BY <1>1, QuietHands DEF ExpireTTL, sessVars, Quiet, IInv, SessionOK, LegalSession
<1>2. ASSUME NEW e \in sess.inFlight, AckTimerElapses(e) PROVE Hands(p, {})
  <2> DEFINE T == (sess.inFlight \ {e}) \cup {[e EXCEPT !.timer = @ + 1]}
  <2>1. sess' = [sess EXCEPT !.inFlight = T] /\ e.timer < 2
    BY <1>2 DEF AckTimerElapses
  <2>2. Held([sess EXCEPT !.inFlight = T]) = Held(sess)
    BY <2>1, TimerKeeps DEF IInv
  <2> HIDE DEF T
  <2>3. Owed' = Owed
    BY <1>2, <2>1, <2>2 DEF Owed, AckTimerElapses
  <2> QED BY <1>2, <2>3 DEF AckTimerElapses, Hands
<1>3. ASSUME NEW key \in sess.dedup, DedupWindowEnds(key) PROVE Hands(p, {})
  <2>1. Quiet(sess, sess')
    BY <1>3 DEF DedupWindowEnds, Quiet, IInv, SessionOK, LegalSession, SessionSet
  <2> QED BY <1>3, <2>1, QuietHands DEF DedupWindowEnds
<1> QED BY <1>1, <1>2, <1>3

\* The counts of failed saves and of restarts never go back.
LEMMA CountsGrow ==
  ASSUME IInv, [Next]_vars
  PROVE  (failures' = 0 => failures = 0) /\ (crashes' = 0 => crashes = 0 /\ ~Crash)
<1>0. failures \in Nat /\ crashes \in Nat
  BY LimitsAssumption, EnvironmentAssumption, SMTT(30) DEF IInv, StoreOK, ControlOK
<1>1. failures' = failures \/ failures' = failures + 1
  <2>1. ASSUME Durable PROVE failures' = failures \/ failures' = failures + 1
    BY <2>1 DEF Durable, Saved, NotSaved, SaveFailedOf
  <2>2. ASSUME Environment PROVE failures' = failures \/ failures' = failures + 1
    BY <2>2 DEF Environment, Refuse, Accept, ExpireTTL, AckTimerElapses,
       DedupWindowEnds, Crash, Saved, NotSaved, SaveFailed, SaveFailedOf, sessVars
  <2>3. CASE UNCHANGED vars
    BY <2>3 DEF vars, sessVars
  <2> QED BY <2>1, <2>2, <2>3, GoroutineDurable DEF Next
<1>2. crashes' = crashes \/ (Crash /\ crashes' = crashes + 1)
  <2>1. ASSUME NEW k \in Conns, ConnStep(k) PROVE crashes' = crashes
    BY <2>1 DEF ConnStep, Connect, Register, AdoptFrameMode, RegistrationAck, Receive,
       ReadFails, Handle, ActStatus1, ActAck, ActOther, GoOffline, CloseConn
  <2>2. ASSUME NEW p \in Procs, FlushStep(p) PROVE crashes' = crashes
    BY <2>2 DEF FlushStep, ProcessStep, Publish, Context, Count, Drain, PopNothing, Pop,
       Number, Send, InFlight, Modes, AckSent, EndScan, ClearSync, ClearFW, ReturnError
  <2>3. CASE Environment
    BY <2>3 DEF Environment, Refuse, Accept, ExpireTTL, AckTimerElapses,
       DedupWindowEnds, Crash
  <2>4. CASE UNCHANGED vars
    BY <2>4 DEF vars
  <2> QED BY <2>1, <2>2, <2>3, <2>4 DEF Next
<1>3. Crash => crashes' = crashes + 1
  BY DEF Crash
<1> QED BY <1>0, <1>1, <1>2, <1>3, SMTT(30)

\* Until the first fault every step hands commands over, publishes an outcome or
\* handles a call of EnqueueCommand.
LEMMA StepKinds ==
  ASSUME IInv, PhaseInv, Next, failures' = 0, ~Crash
  PROVE  \/ \E p \in Procs : \E E : Hands(p, E)
         \/ \E p \in Procs, c \in Commands : Publish(p, c)
         \/ \E c \in Commands : Accept(c) \/ Refuse(c)
<1>1. ASSUME NEW k \in Conns, ConnStep(k) PROVE \E p \in Procs : \E E : Hands(p, E)
  BY <1>1, ConnHands DEF Procs
<1>2. ASSUME NEW p \in Procs, FlushStep(p), \A c \in Commands : ~Publish(p, c)
      PROVE  \E E : Hands(p, E)
  BY <1>2, FlushHands
<1>3. CASE \/ \E c \in Commands : ExpireTTL(c)
           \/ \E e \in sess.inFlight : AckTimerElapses(e)
           \/ \E key \in sess.dedup : DedupWindowEnds(key)
  BY <1>3, TimeHands DEF Procs
<1> QED BY <1>1, <1>2, <1>3 DEF Next, Environment

\* The ledger is kept by every step.
LEMMA LedgerKeeps ==
  ASSUME IInv, PhaseInv, LedgerInv, [Next]_vars
  PROVE  LedgerInv'
<1> SUFFICES ASSUME failures' = 0, crashes' = 0 PROVE Ledger'
  BY DEF LedgerInv
<1>1. Ledger /\ ~Crash
  BY CountsGrow DEF LedgerInv
<1>2. CASE UNCHANGED vars
  BY <1>1, <1>2 DEF vars, sessVars, procVars, histVars, Ledger, Owed
<1>3. CASE Next
  BY <1>1, <1>3, StepKinds, HandsKeeps, PublishKeeps, EnqueueKeeps
<1> QED BY <1>2, <1>3

\* The ledger is balanced when the adapter starts.
LEMMA InitLedger == Init => LedgerInv
<1> SUFFICES ASSUME Init PROVE Ledger
  BY DEF LedgerInv
<1>1. Owed = {}
  BY DetachedKeeps, IdleKeeps DEF Init, Owed
<1> QED BY <1>1 DEF Init, Ledger

\* What the ledger says is what the two properties say.
LEMMA LedgerImplies == LedgerInv => NothingLost /\ SettledOnce
<1> SUFFICES ASSUME LedgerInv, failures = 0, crashes = 0
             PROVE  NothingLost /\ SettledOnce
  BY DEF NothingLost, SettledOnce
<1>1. Ledger
  BY DEF LedgerInv
<1>2. Live = Owed
  BY DEF Live, Owed, Held, Carried, InFlightCmds, EntryCmds, SkippedCmds, HandCmds
<1>3. \A c : c \in Announced <=> \E p \in Procs : c \in out[p]
  BY DEF Announced
<1>4. \A c \in Commands : c \in Settled <=> terminal[c] = 1
  <2> TAKE c \in Commands
  <2>1. terminal[c] = 0 \/ terminal[c] = 1
    BY <1>1 DEF Ledger
  <2> QED BY <2>1, SMTT(30) DEF Settled
<1>5. NothingLost
  BY <1>1, <1>2, <1>3, <1>4 DEF NothingLost, Ledger
<1>6. SettledOnce
  BY <1>1, <1>2, <1>3, <1>4 DEF SettledOnce, Ledger, Settled
<1> QED BY <1>5, <1>6

\* As long as no save failed and the adapter was not restarted, an accepted
\* command that was not dropped is in the queue, set aside or in the hands of
\* flushQueue, in flight, about to be given its outcome, or settled; for any
\* number of connections and whatever the order of their steps.  The one way to
\* lose a command is that another one takes its number in the in-flight table.
THEOREM NoCommandLost == Spec => []NothingLost
<1>1. IInv /\ PhaseInv /\ LedgerInv /\ [Next]_vars => LedgerInv'
  BY LedgerKeeps
<1>2. LedgerInv => NothingLost
  BY LedgerImplies
<1> QED BY <1>1, <1>2, InitKeeps, InitPhase, InitLedger, NextKeeps, PhaseKeeps, PTL DEF Spec

\* Under the same conditions publishAckWithCommand runs at most once for a
\* command, and only once the adapter has let go of it: no goroutine can still
\* retry it, complete it or report it a second time.
THEOREM OneOutcome == Spec => []SettledOnce
<1>1. IInv /\ PhaseInv /\ LedgerInv /\ [Next]_vars => LedgerInv'
  BY LedgerKeeps
<1>2. LedgerInv => SettledOnce
  BY LedgerImplies
<1> QED BY <1>1, <1>2, InitKeeps, InitPhase, InitLedger, NextKeeps, PhaseKeeps, PTL DEF Spec

-----------------------------------------------------------------------------
\* How often a command is written.

\* Every item that waits, in the queue of session s or set aside by flush f, is
\* in S, and every entry in flight is in T.  The lemmas about the queue hold for
\* items of any set, so they say what becomes of such an S as well.
Within(s, f, S, T) ==
  /\ s.queue \in [Priorities -> Seq(S)]
  /\ f.skipped \in Seq(S)
  /\ \A e \in s.inFlight : SavedEntry(e) \in T

\* A step that leaves the hands of flushQueue alone, or empties them, and writes
\* and numbers nothing.
Calm ==
  /\ fl'.hand = {} \/ (fl'.hand = fl.hand /\ fl'.seq = fl.seq)
  /\ \A q \in Procs : pc'[q] \in Holding => pc'[q] = pc[q]
  /\ writes' = writes /\ wire' = wire /\ issued' = issued /\ overrun' = overrun
  /\ sess'.nextSeq = sess.nextSeq
  /\ \A c \in Commands : fate'[c] = "new" => fate[c] = "new"

\* A sequence whose elements are all in S is a sequence over S.
LEMMA SeqWithin ==
  ASSUME NEW R, NEW S, NEW seq \in Seq(R), \A i \in DOMAIN seq : seq[i] \in S
  PROVE  seq \in Seq(S)
<1>1. Len(seq) \in Nat /\ DOMAIN seq = 1..Len(seq) /\ seq = [i \in 1..Len(seq) |-> seq[i]]
  BY SMTT(30)
<1>2. seq \in [1..Len(seq) -> S]
  BY <1>1
<1> QED BY <1>1, <1>2, SMTT(30)

\* The items of a sequence over S.
LEMMA SeqElements ==
  ASSUME NEW S, NEW seq \in Seq(S)
  PROVE  \A i \in DOMAIN seq : seq[i] \in S
  BY SMTT(30)

\* A set of items may be replaced by another one that has all items present.
LEMMA WithinGrows ==
  ASSUME NEW s, NEW f, NEW S, NEW T, NEW S2, NEW T2, Within(s, f, S, T),
         \A x \in S : x.cmd \in Queued(s.queue) \cup Cmds(f.skipped) => x \in S2,
         \A e \in s.inFlight : SavedEntry(e) \in T => SavedEntry(e) \in T2
  PROVE  Within(s, f, S2, T2)
<1>1. ASSUME NEW p \in Priorities PROVE s.queue[p] \in Seq(S2)
  <2>1. s.queue[p] \in Seq(S)
    BY DEF Within
  <2>2. ASSUME NEW i \in DOMAIN s.queue[p] PROVE s.queue[p][i] \in S2
    <3>1. s.queue[p][i] \in S
      BY <2>1, SeqElements
    <3>2. s.queue[p][i].cmd \in Queued(s.queue)
      BY SMTT(30) DEF Queued, Cmds
    <3> QED BY <3>1, <3>2
  <2> QED BY <2>1, <2>2, SeqWithin
<1>2. s.queue \in [Priorities -> Seq(S2)]
  BY <1>1 DEF Within
<1>3. f.skipped \in Seq(S2)
  <2>1. f.skipped \in Seq(S)
    BY DEF Within
  <2>2. ASSUME NEW i \in DOMAIN f.skipped PROVE f.skipped[i] \in S2
    <3>1. f.skipped[i] \in S
      BY <2>1, SeqElements
    <3>2. f.skipped[i].cmd \in Cmds(f.skipped)
      BY DEF Cmds
    <3> QED BY <3>1, <3>2
  <2> QED BY <2>1, <2>2, SeqWithin
<1> QED BY <1>2, <1>3 DEF Within

\* The sequences of processInFlight are made of the entries to be retried.
LEMMA RetryWithin ==
  ASSUME NEW s, LegalSession(s), NEW late, NEW order \in RetryOrders(s, late), NEW S,
         \A e \in TimedOutRetrying(s, late) : Item(e.cmd, e.attempts, e.seq) \in S
  PROVE  order \in [Priorities -> Seq(S)]
<1> DEFINE items(p) == {Item(e.cmd, e.attempts, e.seq) :
                          e \in {e \in TimedOutRetrying(s, late) : PriorityOf(e.cmd) = p}}
<1>1. order \in [Priorities -> Seq(ItemSet)]
  BY RetryOrderCmds
<1>2. \A p \in Priorities : order[p] \in Injection(1..Cardinality(items(p)), items(p))
  BY DEF RetryOrders
<1>3. ASSUME NEW p \in Priorities PROVE order[p] \in Seq(S)
  <2>1. order[p] \in [1..Cardinality(items(p)) -> items(p)]
    BY <1>2 DEF Injection
  <2>2. items(p) \subseteq S
    OBVIOUS
  <2> HIDE DEF items
  <2>3. \A i \in DOMAIN order[p] : order[p][i] \in S
    BY <2>1, <2>2
  <2>4. order[p] \in Seq(ItemSet)
    BY <1>1
  <2> QED BY <2>3, <2>4, SeqWithin
<1> QED BY <1>1, <1>3

\* Changes that touch neither the queue nor the in-flight table.
LEMMA QuietWithin ==
  ASSUME NEW s, NEW f, NEW t, NEW g, NEW S, NEW T, Within(s, f, S, T), Quiet(s, t),
         g.skipped = f.skipped \/ g.skipped = <<>>
  PROVE  Within(t, g, S, T)
<1>1. <<>> \in Seq(S)
  BY SMTT(30)
<1> QED BY <1>1 DEF Within, Quiet

\* The fields of a session whose queue, or whose in-flight table, was replaced.
LEMMA SessionFields ==
  ASSUME NEW s \in SessionSet
  PROVE  /\ \A q : /\ [s EXCEPT !.queue = q].queue = q
                   /\ [s EXCEPT !.queue = q].inFlight = s.inFlight
                   /\ [s EXCEPT !.queue = q].nextSeq = s.nextSeq
         /\ \A U : /\ [s EXCEPT !.inFlight = U].queue = s.queue
                   /\ [s EXCEPT !.inFlight = U].inFlight = U
                   /\ [s EXCEPT !.inFlight = U].nextSeq = s.nextSeq
         /\ \A c, q : /\ [RecordKey(s, c) EXCEPT !.queue = q].queue = q
                      /\ [RecordKey(s, c) EXCEPT !.queue = q].inFlight = s.inFlight
                      /\ [RecordKey(s, c) EXCEPT !.queue = q].nextSeq = s.nextSeq
  BY DEF SessionSet, RecordKey

\* The operations that touch no number leave the sequence counter alone.
LEMMA SameCounter ==
  ASSUME NEW s \in SessionSet
  PROVE  /\ \A k : Attach(s, k).nextSeq = s.nextSeq
         /\ MarkOffline(s).nextSeq = s.nextSeq
         /\ \A mode : SetFrameMode(s, mode).nextSeq = s.nextSeq
         /\ \A n : UpdateBufferFree(s, n).nextSeq = s.nextSeq
         /\ \A on : SetFWMode(s, on).nextSeq = s.nextSeq /\ SetSyncMode(s, on).nextSeq = s.nextSeq
         /\ \A n : AckInFlight(s, n).nextSeq = s.nextSeq
         /\ \A late, order : ProcessInFlight(s, late, order).nextSeq = s.nextSeq
         /\ \A n, x : RegisterInFlight(s, n, x).nextSeq = s.nextSeq
  BY DEF SessionSet, Attach, MarkOffline, SetFrameMode, UpdateBufferFree, SetFWMode,
         SetSyncMode, AckInFlight, ProcessInFlight, RegisterInFlight
-----------------------------------------------------------------------------
\* The steps of handleConn outside the flush are calm, and add no item and no
\* entry.
LEMMA ConnCalm ==
  ASSUME IInv, PhaseInv, NEW k \in Conns, ConnStep(k), failures' = 0
  PROVE  Calm /\ \A S, T : Within(sess, fl, S, T) => Within(sess', fl', S, T)
<1> USE DEF histVars, At, sessVars
<1>0. sess \in SessionSet /\ Quiet(sess, sess) /\ pc \in [Procs -> ConnLabels \cup SweepLabels \cup FlushLabels]
  BY DEF IInv, SessionOK, LegalSession, Quiet, ControlOK
<1>1. fl' = fl /\ writes' = writes /\ wire' = wire /\ issued' = issued /\ overrun' = overrun /\ fate' = fate
  BY DEF ConnStep, Connect, Register, AdoptFrameMode, RegistrationAck, Receive,
       ReadFails, Handle, ActStatus1, ActAck, ActOther, GoOffline, CloseConn
<1>2. \E label : Goto(k, label) /\ label \notin Holding
  <2> USE DEF Holding
  <2>1. CASE Connect(k) \/ ReadFails(k) \/ CloseConn(k) \/ GoOffline(k)
    BY <2>1, SMTT(30) DEF Connect, ReadFails, CloseConn, GoOffline
  <2>2. CASE \E mode \in FrameModes : Register(k, mode)
    BY <2>2, SMTT(30) DEF Register
  <2>3. CASE AdoptFrameMode(k) \/ RegistrationAck(k) \/ \E m \in Messages : Receive(k, m)
    BY <2>3, SMTT(30) DEF AdoptFrameMode, RegistrationAck, Receive
  <2>4. CASE Handle(k) \/ ActAck(k)
    BY <2>4, SMTT(30) DEF Handle, ActAck
  <2>5. CASE ActStatus1(k) \/ ActOther(k)
    <3>1. Goto(k, "exit") \/ Goto(k, "process")
      BY <2>5 DEF ActStatus1, ActOther
    <3> QED BY <3>1, SMTT(30)
  <2> QED BY <2>1, <2>2, <2>3, <2>4, <2>5 DEF ConnStep
<1>3. \A q \in Procs : pc'[q] \in Holding => pc'[q] = pc[q]
  BY <1>0, <1>2 DEF Goto
<1>4. CASE ~ActAck(k)
  <2>1. Quiet(sess, sess') /\ sess'.nextSeq = sess.nextSeq
    <3>1. CASE Connect(k) \/ ReadFails(k) \/ CloseConn(k)
      BY <1>0, <3>1 DEF Connect, ReadFails, CloseConn
    <3>2. CASE \E mode \in FrameModes : Register(k, mode)
      <4>1. sess' = sess \/ sess' = Attach(sess, k)
        BY <3>2, NoFailure DEF Register, SaveFailed
      <4> QED BY <1>0, <4>1, QuietOperations, SameCounter, SMTT(30)
    <3>3. CASE AdoptFrameMode(k)
      <4>1. msg[k].mode \in {"sequenced", "compact"}
        BY <3>3, MessageFields DEF AdoptFrameMode, IInv, ControlOK
      <4> QED BY <1>0, <3>3, <4>1, QuietOperations, SameCounter DEF AdoptFrameMode
    <3>4. CASE RegistrationAck(k) \/ GoOffline(k) \/ \E m \in Messages : Receive(k, m)
      <4>1. sess' = sess \/ sess' = MarkOffline(sess)
        BY <3>4 DEF RegistrationAck, GoOffline, Receive, Touch
      <4> QED BY <1>0, <4>1, QuietOperations, SameCounter
    <3>5. CASE Handle(k)
      <4>1. msg[k].type \in {"status1", "ack"} => msg[k].free \in Nat
        BY MessageFields DEF IInv, ControlOK
      <4> QED BY <1>0, <3>5, <4>1, QuietOperations, SameCounter DEF Handle
    <3>6. CASE ActStatus1(k) \/ ActOther(k)
      <4>1. sess' = sess \/ sess' = SetFWMode(sess, TRUE) \/ sess' = SetFWMode(sess, FALSE)
        BY <3>6 DEF ActStatus1, ActOther
      <4>2. \A on \in BOOLEAN : Quiet(sess, SetFWMode(sess, on))
        BY <1>0, QuietOperations
      <4>3. \A on : SetFWMode(sess, on).nextSeq = sess.nextSeq
        BY <1>0, SameCounter
      <4> QED BY <1>0, <4>1, <4>2, <4>3
    <3> QED BY <1>4, <3>1, <3>2, <3>3, <3>4, <3>5, <3>6 DEF ConnStep
  <2> QED BY <1>1, <1>3, <2>1, QuietWithin DEF Calm
<1>5. CASE ActAck(k)
  <2> DEFINE U == {e \in sess.inFlight : e.seq # msg[k].frame.seq}
  <2>1. sess' = sess \/ sess' = AckInFlight(sess, msg[k].frame.seq)
    BY <1>5 DEF ActAck
  <2>2. sess'.queue = sess.queue /\ sess'.inFlight \subseteq sess.inFlight
        /\ sess'.nextSeq = sess.nextSeq
    <3>1. AckInFlight(sess, msg[k].frame.seq) = [sess EXCEPT !.inFlight = U] /\ U \subseteq sess.inFlight
      BY DEF AckInFlight
    <3> HIDE DEF U
    <3>2. CASE sess' = [sess EXCEPT !.inFlight = U]
      BY <1>0, <3>1, <3>2, SessionFields, SMTT(30)
    <3> QED BY <2>1, <3>1, <3>2
  <2> QED BY <1>1, <1>3, <2>2 DEF Calm, Within
<1> QED BY <1>4, <1>5
\* processInFlight adds the entries to be retried to the queue.
LEMMA ProcessWithin ==
  ASSUME IInv, NEW p \in Procs, ProcessStep(p), NEW S, NEW T, Within(sess, fl, S, T),
         \A e \in TimedOutRetrying(sess, expired) : Item(e.cmd, e.attempts, e.seq) \in S
  PROVE  Within(sess', fl', S, T)
<1>1. PICK order \in RetryOrders(sess, expired) :
        sess' = ProcessInFlight(sess, expired, order)
  BY DEF ProcessStep
<1> DEFINE q == PushAll(sess.queue, order)
<1>2. q \in [Priorities -> Seq(S)]
  <2>1. order \in [Priorities -> Seq(S)]
    BY RetryWithin DEF IInv, SessionOK
  <2> QED BY <2>1, PushAllCmds DEF Within
<1>3. sess \in SessionSet /\ fl' = fl
  BY DEF IInv, SessionOK, LegalSession, ProcessStep
<1> HIDE DEF q
<1>4. sess'.queue = q /\ sess'.inFlight \subseteq sess.inFlight
  <2>1. sess'.queue = q
    BY <1>1, <1>3 DEF ProcessInFlight, SessionSet, q
  <2>2. sess'.inFlight \subseteq sess.inFlight
    BY <1>1, <1>3 DEF ProcessInFlight, SessionSet
  <2> QED BY <2>1, <2>2
<1> QED BY <1>2, <1>3, <1>4 DEF Within

\* processInFlight is calm: it numbers and writes nothing.
LEMMA ProcessCalm ==
  ASSUME IInv, NEW p \in Procs, ProcessStep(p)
  PROVE  Calm
<1>1. /\ fl' = fl /\ writes' = writes /\ wire' = wire /\ issued' = issued /\ overrun' = overrun
      /\ fate' = fate /\ Goto(p, "lock")
  BY DEF ProcessStep, histVars
<1>2. sess'.nextSeq = sess.nextSeq
  <2>1. PICK order : sess' = ProcessInFlight(sess, expired, order)
    BY DEF ProcessStep
  <2>2. sess \in SessionSet
    BY DEF IInv, SessionOK, LegalSession
  <2> QED BY <2>1, <2>2, SameCounter, SMTT(30)
<1>3. \A q \in Procs : pc'[q] \in Holding => pc'[q] = pc[q]
  BY <1>1 DEF Goto, Holding, IInv, ControlOK
<1> QED BY <1>1, <1>2, <1>3 DEF Calm

\* The queue of the session is replaced by one made of items of S.
LEMMA QueueWithin ==
  ASSUME IInv, NEW S, NEW T, Within(sess, fl, S, T), NEW q \in [Priorities -> Seq(S)],
         sess' = [sess EXCEPT !.queue = q], fl'.skipped \in Seq(S)
  PROVE  Within(sess', fl', S, T) /\ sess'.nextSeq = sess.nextSeq
<1>1. sess'.queue = q /\ sess'.inFlight = sess.inFlight /\ sess'.nextSeq = sess.nextSeq
  BY SessionFields, SMTT(30) DEF IInv, SessionOK, LegalSession
<1> QED BY <1>1 DEF Within

\* The head of the next buffer leaves the queue.
LEMMA PopWithin ==
  ASSUME IInv, NEW p \in Procs, Pop(p), NEW S, NEW T, Within(sess, fl, S, T)
  PROVE  /\ Within(sess', fl', S, T) /\ sess'.nextSeq = sess.nextSeq
         /\ \/ fl'.hand = fl.hand /\ fl'.seq = fl.seq /\ pc' = pc
            \/ Goto(p, "number") /\ fl'.hand \subseteq S
<1>1. PICK b \in NextBuffer(sess.queue, fl.fwMode, fl.syncMode) :
        /\ sess' = [sess EXCEPT !.queue = PopFrom(@, b)]
        /\ \/ fl' = [fl EXCEPT !.left = @ - 1] /\ pc' = pc
           \/ /\ fl' = [fl EXCEPT !.left = @ - 1,
                                  !.skipped = Append(@, Head(sess.queue[b]))]
              /\ pc' = pc
           \/ /\ fl' = [fl EXCEPT !.left = @ - 1, !.hand = {Head(sess.queue[b])}]
              /\ Goto(p, "number")
  BY DEF Pop
<1> DEFINE x == Head(sess.queue[b])
           q == PopFrom(sess.queue, b)
<1>2. b \in Priorities /\ sess.queue[b] # <<>>
  BY SMTT(30) DEF NextBuffer, ServiceOrder, Priorities
<1>3. sess.queue \in [Priorities -> Seq(S)] /\ fl.skipped \in Seq(S) /\ fl \in FlushSet
  BY DEF Within, IInv, FlushOK
<1>4. x \in S /\ q \in [Priorities -> Seq(S)]
  BY <1>2, <1>3, PopCmds
<1> HIDE DEF x, q
<1>5. sess' = [sess EXCEPT !.queue = q]
  BY <1>1 DEF q
<1>6. CASE fl' = [fl EXCEPT !.left = @ - 1] /\ pc' = pc
  <2>1. fl'.skipped = fl.skipped /\ fl'.hand = fl.hand /\ fl'.seq = fl.seq
    BY <1>3, <1>6 DEF FlushSet
  <2> QED BY <1>3, <1>4, <1>5, <1>6, <2>1, QueueWithin
<1>7. CASE fl' = [fl EXCEPT !.left = @ - 1, !.skipped = Append(@, x)] /\ pc' = pc
  <2>1. fl'.skipped = Append(fl.skipped, x) /\ fl'.hand = fl.hand /\ fl'.seq = fl.seq
    BY <1>3, <1>7 DEF FlushSet
  <2>2. fl'.skipped \in Seq(S)
    BY <1>3, <1>4, <2>1, SMTT(30)
  <2> QED BY <1>4, <1>5, <1>7, <2>1, <2>2, QueueWithin
<1>8. CASE fl' = [fl EXCEPT !.left = @ - 1, !.hand = {x}] /\ Goto(p, "number")
  <2>1. fl'.skipped = fl.skipped /\ fl'.hand = {x}
    BY <1>3, <1>8 DEF FlushSet
  <2> QED BY <1>3, <1>4, <1>5, <1>8, <2>1, QueueWithin
<1> QED BY <1>1, <1>6, <1>7, <1>8 DEF x

\* A frame that does not fit sends its command back to those set aside.
LEMMA SendWithin ==
  ASSUME IInv, NEW p \in Procs, Send(p), NEW S, NEW T, Within(sess, fl, S, T),
         fl.hand \subseteq S
  PROVE  /\ Within(sess', fl', S, T)
         /\ \/ /\ fl'.hand = {} /\ writes' = writes /\ wire' = wire
               /\ \E label : Goto(p, label) /\ label \notin Holding
            \/ /\ fl' = fl /\ Goto(p, "inflight")
               /\ \E x \in fl.hand :
                    /\ wire' = wire \cup {[seq |-> WireSeq(fl.seq, fl.frameMode), cmd |-> x.cmd]}
                    /\ writes' = [writes EXCEPT ![x.cmd] = @ + 1]
<1>1. PICK x \in fl.hand :
        \/ /\ \/ fl' = [fl EXCEPT !.hand = {}]
              \/ fl' = [fl EXCEPT !.hand = {}, !.left = 0, !.failed = TRUE]
              \/ fl' = [fl EXCEPT !.hand = {}, !.left = 0, !.skipped = <<x>> \o @]
           /\ Goto(p, "pop") \/ Goto(p, "endscan")
           /\ writes' = writes /\ wire' = wire
        \/ /\ fl' = fl /\ Goto(p, "inflight")
           /\ wire' = wire \cup {[seq |-> WireSeq(fl.seq, fl.frameMode), cmd |-> x.cmd]}
           /\ writes' = [writes EXCEPT ![x.cmd] = @ + 1]
  BY DEF Send
<1>2. sess' = sess /\ fl \in FlushSet /\ x \in S /\ fl.skipped \in Seq(S)
  BY DEF Send, sessVars, IInv, FlushOK, Within
<1>3. CASE /\ fl' = fl /\ Goto(p, "inflight")
           /\ wire' = wire \cup {[seq |-> WireSeq(fl.seq, fl.frameMode), cmd |-> x.cmd]}
           /\ writes' = [writes EXCEPT ![x.cmd] = @ + 1]
  BY <1>2, <1>3
<1>4. CASE /\ \/ fl' = [fl EXCEPT !.hand = {}]
              \/ fl' = [fl EXCEPT !.hand = {}, !.left = 0, !.failed = TRUE]
              \/ fl' = [fl EXCEPT !.hand = {}, !.left = 0, !.skipped = <<x>> \o @]
           /\ Goto(p, "pop") \/ Goto(p, "endscan")
           /\ writes' = writes /\ wire' = wire
  <2>1. /\ writes' = writes /\ wire' = wire
        /\ \E label : Goto(p, label) /\ label \notin Holding
    BY <1>4 DEF Holding
  <2>2. CASE \/ fl' = [fl EXCEPT !.hand = {}]
             \/ fl' = [fl EXCEPT !.hand = {}, !.left = 0, !.failed = TRUE]
    <3>1. fl'.hand = {} /\ fl'.skipped = fl.skipped
      BY <1>2, <2>2 DEF FlushSet
    <3> QED BY <1>2, <2>1, <3>1 DEF Within
  <2>3. CASE fl' = [fl EXCEPT !.hand = {}, !.left = 0, !.skipped = <<x>> \o @]
    <3>1. fl'.hand = {} /\ fl'.skipped = <<x>> \o fl.skipped
      BY <1>2, <2>3 DEF FlushSet
    <3>2. fl'.skipped \in Seq(S)
      BY <1>2, <3>1, SMTT(30)
    <3> QED BY <1>2, <2>1, <3>1, <3>2 DEF Within
  <2> QED BY <1>4, <2>2, <2>3
<1> QED BY <1>1, <1>3, <1>4

\* The command in the hands of flushQueue is registered as in flight.
LEMMA InFlightWithin ==
  ASSUME IInv, NEW p \in Procs, InFlight(p), NEW S, NEW T, Within(sess, fl, S, T),
         \A x \in fl.hand :
           [seq |-> fl.seq, cmd |-> x.cmd, attempts |-> x.attempts + 1] \in T
  PROVE  /\ Within(sess', fl', S, T) /\ sess'.nextSeq = sess.nextSeq
         /\ fl'.hand = {}
         /\ \E label : Goto(p, label) /\ label \notin Holding
<1>1. PICK x \in fl.hand :
        /\ sess' = RegisterInFlight(sess, fl.seq, x)
        /\ \/ fl' = [fl EXCEPT !.hand = {}, !.last = {x}]
           \/ fl' = [fl EXCEPT !.hand = {}, !.left = 0, !.failed = TRUE]
  BY DEF InFlight
<1>2. sess \in SessionSet /\ fl \in FlushSet
  BY DEF IInv, SessionOK, LegalSession, FlushOK
<1>3. fl'.hand = {} /\ fl'.skipped = fl.skipped
  BY <1>1, <1>2 DEF FlushSet
<1> DEFINE new == [seq |-> fl.seq, cmd |-> x.cmd, attempts |-> x.attempts + 1, timer |-> 0]
           U == {e \in sess.inFlight : e.seq # fl.seq} \cup {new}
<1>4. sess' = [sess EXCEPT !.inFlight = U]
  BY <1>1 DEF RegisterInFlight
<1>5. SavedEntry(new) \in T
  BY DEF SavedEntry
<1> HIDE DEF new
<1>6. \A e \in U : SavedEntry(e) \in T
  BY <1>5 DEF Within
<1> HIDE DEF U
<1>7. sess'.queue = sess.queue /\ sess'.inFlight = U /\ sess'.nextSeq = sess.nextSeq
  BY <1>2, <1>4, SessionFields, SMTT(30)
<1>8. \E label : Goto(p, label) /\ label \notin Holding
  <2>1. Goto(p, "modes") \/ Goto(p, "acksent") \/ Goto(p, "endscan")
    BY DEF InFlight
  <2> QED BY <2>1, SMTT(30) DEF Holding
<1> QED BY <1>3, <1>6, <1>7, <1>8 DEF Within

\* The other steps of the flush are calm, and add no item and no entry.
LEMMA FlushCalm ==
  ASSUME IInv, PhaseInv, NEW p \in Procs, FlushStep(p), failures' = 0, ~ProcessStep(p),
         ~Pop(p), ~Number(p), ~Send(p), ~InFlight(p)
  PROVE  Calm /\ \A S, T : Within(sess, fl, S, T) => Within(sess', fl', S, T)
<1> USE DEF histVars, At, sessVars
<1>0. /\ sess \in SessionSet /\ Quiet(sess, sess) /\ fl \in FlushSet
      /\ pc \in [Procs -> ConnLabels \cup SweepLabels \cup FlushLabels]
  BY DEF IInv, SessionOK, LegalSession, Quiet, ControlOK, FlushOK
<1>1. /\ writes' = writes /\ wire' = wire /\ issued' = issued /\ overrun' = overrun
      /\ fate' = fate
  BY DEF FlushStep, Publish, Context, Count, Drain, PopNothing, Modes, AckSent,
     EndScan, ClearSync, ClearFW, ReturnError
<1>2. ASSUME \E label : Goto(p, label) /\ label \notin Holding
      PROVE  \A q \in Procs : pc'[q] \in Holding => pc'[q] = pc[q]
  BY <1>0, <1>2 DEF Goto
<1>3. ASSUME Quiet(sess, sess'), sess'.nextSeq = sess.nextSeq,
             \/ fl' = IdleFlush
             \/ fl'.hand = fl.hand /\ fl'.seq = fl.seq /\ fl'.skipped = fl.skipped,
             pc' = pc \/ \E label : Goto(p, label) /\ label \notin Holding
      PROVE  Calm /\ \A S, T : Within(sess, fl, S, T) => Within(sess', fl', S, T)
  <2>1. fl'.hand = {} \/ (fl'.hand = fl.hand /\ fl'.seq = fl.seq)
    BY <1>3, IdleKeeps
  <2>2. fl'.skipped = fl.skipped \/ fl'.skipped = <<>>
    BY <1>3, IdleKeeps
  <2>3. \A S, T : Within(sess, fl, S, T) => Within(sess', fl', S, T)
    BY <1>3, <2>2, QuietWithin
  <2> QED BY <1>1, <1>2, <1>3, <2>1, <2>3 DEF Calm
<1>4. {"read", "exit", "process", "count", "drain", "pop", "acksent", "return", "endscan",
       "clearsync", "clearfw"} \cap Holding = {}
  BY DEF Holding
<1>5. \A failed : AfterFlush(p, failed) \in {"read", "exit", "process"}
  BY DEF AfterFlush
<1>6. ASSUME NEW c \in Commands, Publish(p, c)
      PROVE  Calm /\ \A S, T : Within(sess, fl, S, T) => Within(sess', fl', S, T)
  BY <1>0, <1>3, <1>6 DEF Publish
<1>7. CASE Context(p)
  <2>1. CASE FlushReturn(p, FALSE)
    BY <1>0, <1>3, <1>4, <1>5, <1>7, <2>1 DEF Context, FlushReturn
  <2>2. CASE /\ fl' = [fl EXCEPT !.conn = sess.conn, !.fwMode = sess.fwMode,
                              !.syncMode = sess.syncMode,
                              !.frameMode = sess.frameMode,
                              !.remaining = EffectiveBuffer(sess.bufferFree)]
             /\ Goto(p, "count")
    <3>1. fl'.hand = fl.hand /\ fl'.seq = fl.seq /\ fl'.skipped = fl.skipped
      BY <1>0, <2>2 DEF FlushSet
    <3> QED BY <1>0, <1>3, <1>4, <1>7, <2>2, <3>1 DEF Context
  <2> QED BY <1>7, <2>1, <2>2 DEF Context
<1>8. CASE Count(p) \/ ReturnError(p)
  BY <1>0, <1>3, <1>4, <1>5, <1>8 DEF Count, ReturnError, FlushReturn
<1>9. CASE Drain(p)
  <2>1. fl'.hand = fl.hand /\ fl'.seq = fl.seq /\ fl'.skipped = fl.skipped
    BY <1>0, <1>9 DEF Drain, FlushSet
  <2>2. Goto(p, "pop") /\ sess' = [sess EXCEPT !.queue = DrainExpired(sess.queue, expired)]
    BY <1>9 DEF Drain
  <2>3. ASSUME NEW S, NEW T, Within(sess, fl, S, T) PROVE Within(sess', fl', S, T)
    <3> DEFINE q == DrainExpired(sess.queue, expired)
    <3>1. q \in [Priorities -> Seq(S)]
      BY <2>3, DrainCmds DEF Within
    <3> HIDE DEF q
    <3>2. sess' = [sess EXCEPT !.queue = q] /\ fl'.skipped \in Seq(S)
      BY <2>1, <2>2, <2>3 DEF q, Within
    <3> QED BY <2>3, <3>1, <3>2, QueueWithin
  <2>4. sess'.nextSeq = sess.nextSeq
    BY <1>0, <2>2, SessionFields
  <2> QED BY <1>1, <1>2, <1>4, <2>1, <2>2, <2>3, <2>4 DEF Calm
<1>10. CASE PopNothing(p)
  <2>1. fl'.hand = fl.hand /\ fl'.seq = fl.seq /\ fl'.skipped = fl.skipped
    BY <1>0, <1>10 DEF PopNothing, FlushSet
  <2> QED BY <1>0, <1>3, <1>4, <1>10, <2>1 DEF PopNothing
<1>11. CASE Modes(p)
  <2>1. /\ sess' = SetSyncMode(sess, TRUE) \/ sess' = SetFWMode(sess, TRUE)
        /\ fl' = [fl EXCEPT !.syncMode = TRUE] \/ fl' = [fl EXCEPT !.fwMode = TRUE] \/ fl' = IdleFlush
        /\ Goto(p, "acksent") \/ Goto(p, "return")
    BY <1>11 DEF Modes
  <2>a. Quiet(sess, sess')
    BY <1>0, <2>1, QuietOperations
  <2>b. sess'.nextSeq = sess.nextSeq
    <3>1. /\ SetFWMode(sess, TRUE).nextSeq = sess.nextSeq
          /\ SetSyncMode(sess, TRUE).nextSeq = sess.nextSeq
      BY <1>0 DEF SetFWMode, SetSyncMode, SessionSet
    <3> QED BY <2>1, <3>1
  <2>2. Quiet(sess, sess') /\ sess'.nextSeq = sess.nextSeq
    BY <2>a, <2>b
  <2>3. \/ fl' = IdleFlush
        \/ fl'.hand = fl.hand /\ fl'.seq = fl.seq /\ fl'.skipped = fl.skipped
    BY <1>0, <2>1 DEF FlushSet
  <2> QED BY <1>3, <1>4, <2>1, <2>2, <2>3
<1>12. CASE AckSent(p)
  <2>1. /\ \/ fl' = IdleFlush
           \/ \E x \in fl.last :
                fl' = [fl EXCEPT !.last = {}, !.left = 0, !.sent = TRUE,
                                 !.remaining = @ - FrameLen(x.cmd, fl.frameMode)]
        /\ Goto(p, "endscan") \/ Goto(p, "return")
        /\ sess' = sess
    BY <1>12 DEF AckSent
  <2>2. \/ fl' = IdleFlush
        \/ fl'.hand = fl.hand /\ fl'.seq = fl.seq /\ fl'.skipped = fl.skipped
    BY <1>0, <2>1 DEF FlushSet
  <2> QED BY <1>0, <1>3, <1>4, <2>1, <2>2
<1>13. CASE EndScan(p)
  <2>1. CASE /\ fl.skipped # <<>>
             /\ sess' = [sess EXCEPT !.queue = Push(@, Head(fl.skipped))]
             /\ fl' = [fl EXCEPT !.skipped = Tail(@)]
             /\ pc' = pc
    <3>1. fl'.hand = fl.hand /\ fl'.seq = fl.seq /\ fl'.skipped = Tail(fl.skipped)
      BY <1>0, <2>1 DEF FlushSet
    <3>2. ASSUME NEW S, NEW T, Within(sess, fl, S, T) PROVE Within(sess', fl', S, T)
      <4> DEFINE q == Push(sess.queue, Head(fl.skipped))
      <4>1. Head(fl.skipped) \in S /\ Tail(fl.skipped) \in Seq(S)
        BY <2>1, <3>2, TailCmds DEF Within
      <4>2. q \in [Priorities -> Seq(S)]
        BY <3>2, <4>1, PushCmds DEF Within
      <4> HIDE DEF q
      <4>3. sess' = [sess EXCEPT !.queue = q]
        BY <2>1 DEF q
      <4> QED BY <3>1, <3>2, <4>1, <4>2, <4>3, QueueWithin
    <3>3. sess'.nextSeq = sess.nextSeq
      BY <1>0, <2>1, SessionFields
    <3> QED BY <1>1, <2>1, <3>1, <3>2, <3>3 DEF Calm
  <2>2. CASE /\ sess' = sess
             /\ \/ fl' = fl /\ (Goto(p, "clearsync") \/ Goto(p, "clearfw") \/ Goto(p, "drain"))
                \/ fl' = IdleFlush /\ \E failed : Goto(p, AfterFlush(p, failed))
    BY <1>0, <1>3, <1>4, <1>5, <2>2
  <2> QED BY <1>13, <2>1, <2>2 DEF EndScan, NextRound, FlushReturn
<1>14. CASE ClearSync(p) \/ ClearFW(p)
  <2>1. /\ \/ sess' = sess \/ sess' = SetSyncMode(sess, FALSE)
           \/ sess' = SetFWMode(sess, FALSE)
        /\ \/ fl' = fl \/ fl' = IdleFlush
           \/ fl' = [fl EXCEPT !.syncMode = FALSE] \/ fl' = [fl EXCEPT !.fwMode = FALSE]
        /\ \/ Goto(p, "clearfw") \/ Goto(p, "drain")
           \/ \E failed : Goto(p, AfterFlush(p, failed))
    BY <1>14 DEF ClearSync, ClearFW, NextRound, FlushReturn
  <2>a. Quiet(sess, sess')
    BY <1>0, <2>1, QuietOperations
  <2>b. sess'.nextSeq = sess.nextSeq
    <3>1. /\ SetFWMode(sess, FALSE).nextSeq = sess.nextSeq
          /\ SetSyncMode(sess, FALSE).nextSeq = sess.nextSeq
      BY <1>0 DEF SetFWMode, SetSyncMode, SessionSet
    <3> QED BY <2>1, <3>1
  <2>2. Quiet(sess, sess') /\ sess'.nextSeq = sess.nextSeq
    BY <2>a, <2>b
  <2>3. \/ fl' = IdleFlush
        \/ fl'.hand = fl.hand /\ fl'.seq = fl.seq /\ fl'.skipped = fl.skipped
    BY <1>0, <2>1 DEF FlushSet
  <2>4. \E label : Goto(p, label) /\ label \notin Holding
    BY <1>4, <1>5, <2>1
  <2> QED BY <1>3, <2>2, <2>3, <2>4
<1> QED BY <1>6, <1>7, <1>8, <1>9, <1>10, <1>11, <1>12, <1>13, <1>14 DEF FlushStep

\* Enqueue adds the new command at most; time adds nothing.
LEMMA EnvironmentCalm ==
  ASSUME IInv, PhaseInv, Environment, ~Crash, NEW S, NEW T, Within(sess, fl, S, T),
         \A c \in Commands : fate[c] = "new" => Item(c, 0, 0) \in S
  PROVE  Calm /\ Within(sess', fl', S, T)
<1> USE DEF histVars, procVars, sessVars
<1>0. sess \in SessionSet /\ Quiet(sess, sess)
  BY DEF IInv, SessionOK, LegalSession, Quiet
<1>1. /\ fl' = fl /\ pc' = pc /\ writes' = writes /\ wire' = wire /\ issued' = issued
      /\ overrun' = overrun
  BY DEF Environment, Refuse, Accept, ExpireTTL, AckTimerElapses, DedupWindowEnds
<1>2. ASSUME Within(sess', fl, S, T), sess'.nextSeq = sess.nextSeq,
             \A c \in Commands : fate'[c] = "new" => fate[c] = "new"
      PROVE  Calm /\ Within(sess', fl', S, T)
  BY <1>1, <1>2 DEF Calm
<1>3. ASSUME NEW c \in Commands, Refuse(c) \/ Accept(c)
      PROVE  Calm /\ Within(sess', fl', S, T)
  <2> DEFINE room == MakeRoom(sess.queue, c)
             gone == Oldest(sess.queue, DropCount(sess.queue, c))
             q == Push(room, Item(c, 0, 0))
  <2>1. room = Without(sess.queue, gone)
    BY DEF MakeRoom
  <2>2. /\ \/ sess' = sess \/ sess' = [RecordKey(sess, c) EXCEPT !.queue = room]
           \/ sess' = [RecordKey(sess, c) EXCEPT !.queue = q]
        /\ fate[c] = "new"
    BY <1>3 DEF Refuse, Accept
  <2>3. \A d \in Commands : fate'[d] = "new" => fate[d] = "new"
    <3>1. CASE Accept(c)
      BY <3>1 DEF Accept
    <3>2. CASE Refuse(c)
      BY <3>2 DEF Refuse, IInv, ControlOK
    <3> QED BY <1>3, <3>1, <3>2
  <2> HIDE DEF room, gone
  <2>4. room \in [Priorities -> Seq(S)]
    BY <2>1, WithoutCmds DEF Within
  <2>5. q \in [Priorities -> Seq(S)]
    BY <2>2, <2>4, PushCmds
  <2> HIDE DEF q
  <2>6. Within(sess', fl, S, T) /\ sess'.nextSeq = sess.nextSeq
    <3>1. CASE sess' = sess
      BY <3>1
    <3>2. CASE sess' = [RecordKey(sess, c) EXCEPT !.queue = room]
      BY <1>0, <2>4, <3>2, SessionFields, SMTT(30) DEF Within
    <3>3. CASE sess' = [RecordKey(sess, c) EXCEPT !.queue = q]
      BY <1>0, <2>5, <3>3, SessionFields, SMTT(30) DEF Within
    <3> QED BY <2>2, <3>1, <3>2, <3>3
  <2> QED BY <1>2, <2>3, <2>6
<1>4. ASSUME NEW c \in Commands, ExpireTTL(c) PROVE Calm /\ Within(sess', fl', S, T)
  BY <1>2, <1>4 DEF ExpireTTL
<1>5. ASSUME NEW e \in sess.inFlight, AckTimerElapses(e) PROVE Calm /\ Within(sess', fl', S, T)
  <2> DEFINE g == [e EXCEPT !.timer = @ + 1]
             U == (sess.inFlight \ {e}) \cup {g}
  <2>1. sess' = [sess EXCEPT !.inFlight = U] /\ fate' = fate
    BY <1>5 DEF AckTimerElapses
  <2>2. SavedEntry(g) = SavedEntry(e)
    BY <1>0 DEF SavedEntry, EntrySet, SessionSet
  <2> HIDE DEF g
  <2>3. \A f \in U : SavedEntry(f) \in T
    BY <2>2 DEF Within
  <2> HIDE DEF U
  <2>4. sess'.queue = sess.queue /\ sess'.inFlight = U /\ sess'.nextSeq = sess.nextSeq
    BY <1>0, <2>1, SessionFields, SMTT(30)
  <2> QED BY <1>2, <2>1, <2>3, <2>4 DEF Within
<1>6. ASSUME NEW key \in sess.dedup, DedupWindowEnds(key) PROVE Calm /\ Within(sess', fl', S, T)
  <2>1. sess'.queue = sess.queue /\ sess'.inFlight = sess.inFlight /\ sess'.nextSeq = sess.nextSeq
    BY <1>0, <1>6 DEF DedupWindowEnds, SessionSet
  <2> QED BY <1>2, <1>6, <2>1 DEF Within, DedupWindowEnds
<1> QED BY <1>3, <1>4, <1>5, <1>6 DEF Environment

\* The flush lock keeps every other goroutine out of flushQueue.
LEMMA Alone ==
  ASSUME IInv, PhaseInv, NEW p \in Procs, pc[p] \in FlushLabels, NEW label,
         Goto(p, label) \/ (pc' = pc /\ label = pc[p])
  PROVE  pc'[p] = label /\ \A q \in Procs : q # p => pc'[q] \notin FlushLabels
  BY DEF PhaseInv, IInv, ControlOK, Goto
-----------------------------------------------------------------------------
\* The items and the entries whose number of attempts accounts for the frames
\* written for their command, and leaves the retries it is allowed.
WrittenItems(w) ==
  {x \in ItemSet : w[x.cmd] <= x.attempts /\ x.attempts <= MaxRetries(x.cmd)}

WrittenEntries(w) ==
  {e \in SavedEntrySet : w[e.cmd] <= e.attempts /\ e.attempts <= MaxRetries(e.cmd) + 1}

\* The frame of the command in the hands of flushQueue is not written yet at
\* number and send, and is at inflight.
Accounted ==
  /\ Within(sess, fl, WrittenItems(writes), WrittenEntries(writes))
  /\ \A p \in Procs : pc[p] \in {"number", "send"} => fl.hand \subseteq WrittenItems(writes)
  /\ \A p \in Procs : pc[p] = "inflight" =>
       \A x \in fl.hand : writes[x.cmd] <= x.attempts + 1 /\ x.attempts <= MaxRetries(x.cmd)
  /\ \A c \in Commands : fate[c] = "new" => writes[c] = 0
  /\ \A c \in Commands : writes[c] <= MaxRetries(c) + 1

WriteInv == failures = 0 /\ crashes = 0 => Accounted

\* A calm step keeps the account.
LEMMA CalmAccounted ==
  ASSUME Accounted, Calm,
         Within(sess', fl', WrittenItems(writes), WrittenEntries(writes))
  PROVE  Accounted'
<1>1. writes' = writes
  BY DEF Calm
<1>2. Within(sess', fl', WrittenItems(writes'), WrittenEntries(writes'))
  BY <1>1
<1>3. \A p \in Procs : pc'[p] \in {"number", "send"} => fl'.hand \subseteq WrittenItems(writes')
  BY <1>1 DEF Accounted, Calm, Holding
<1>4. \A p \in Procs : pc'[p] = "inflight" =>
        \A x \in fl'.hand : writes'[x.cmd] <= x.attempts + 1 /\ x.attempts <= MaxRetries(x.cmd)
  BY <1>1 DEF Accounted, Calm, Holding
<1>5. /\ \A c \in Commands : fate'[c] = "new" => writes'[c] = 0
      /\ \A c \in Commands : writes'[c] <= MaxRetries(c) + 1
  BY <1>1 DEF Accounted, Calm
<1> QED BY <1>2, <1>3, <1>4, <1>5 DEF Accounted

\* processInFlight queues again only what may be sent once more.
LEMMA ProcessAccounted ==
  ASSUME IInv, PhaseInv, Accounted, NEW p \in Procs, ProcessStep(p)
  PROVE  Accounted'
<1>1. ASSUME NEW e \in TimedOutRetrying(sess, expired)
      PROVE  Item(e.cmd, e.attempts, e.seq) \in WrittenItems(writes)
  <2>1. e \in sess.inFlight /\ e.attempts < MaxRetries(e.cmd) + 1
    BY DEF TimedOutRetrying, Unexpired, Due
  <2>2. e \in EntrySet
    BY <2>1 DEF IInv, SessionOK, LegalSession, SessionSet
  <2>3. e.cmd \in Commands /\ e.attempts \in Nat /\ e.seq \in Seqs /\ MaxRetries(e.cmd) \in Nat
    BY <2>2, MaxRetriesType DEF EntrySet
  <2>4. SavedEntry(e) \in WrittenEntries(writes)
    BY <2>1 DEF Accounted, Within
  <2>5. writes[e.cmd] <= e.attempts
    BY <2>4 DEF WrittenEntries, SavedEntry
  <2> DEFINE x == Item(e.cmd, e.attempts, e.seq)
  <2>6. x \in ItemSet /\ x.cmd = e.cmd /\ x.attempts = e.attempts
    BY <2>3 DEF Item, ItemSet
  <2>7. e.attempts <= MaxRetries(e.cmd)
    BY <2>1, <2>3, SMTT(30)
  <2> HIDE DEF x
  <2>8. x \in WrittenItems(writes)
    BY <2>5, <2>6, <2>7 DEF WrittenItems
  <2> QED BY <2>8 DEF x
<1>2. Within(sess', fl', WrittenItems(writes), WrittenEntries(writes))
  BY <1>1, ProcessWithin DEF Accounted
<1>3. Calm
  BY ProcessCalm
<1> QED BY <1>2, <1>3, CalmAccounted

\* The command that is popped has an account, and its number changes nothing.
LEMMA PopAccounted ==
  ASSUME IInv, PhaseInv, Accounted, NEW p \in Procs, Pop(p) \/ Number(p)
  PROVE  Accounted'
<1>0. writes' = writes /\ fate' = fate /\ pc[p] \in {"pop", "number"} /\ pc[p] \in FlushLabels
  BY DEF Pop, Number, At, histVars, FlushLabels
<1>1. CASE Pop(p)
  <2>1. /\ Within(sess', fl', WrittenItems(writes), WrittenEntries(writes))
        /\ \/ fl'.hand = fl.hand /\ fl'.seq = fl.seq /\ pc' = pc
           \/ Goto(p, "number") /\ fl'.hand \subseteq WrittenItems(writes)
    BY <1>1, PopWithin DEF Accounted
  <2>2. CASE fl'.hand = fl.hand /\ pc' = pc
    BY <1>0, <2>1, <2>2 DEF Accounted
  <2>3. CASE Goto(p, "number") /\ fl'.hand \subseteq WrittenItems(writes)
    <3>1. pc'[p] = "number" /\ \A q \in Procs : q # p => pc'[q] \notin FlushLabels
      BY <1>0, <2>3, Alone
    <3>2. \A q \in Procs : pc'[q] # "inflight"
      BY <3>1 DEF FlushLabels
    <3> QED BY <1>0, <2>1, <2>3, <3>2 DEF Accounted
  <2> QED BY <2>1, <2>2, <2>3
<1>2. CASE Number(p)
  <2>1. pc[p] = "number" /\ Goto(p, "send") /\ fl \in FlushSet /\ sess \in SessionSet
    BY <1>2 DEF Number, At, IInv, FlushOK, SessionOK, LegalSession
  <2>2. pc'[p] = "send" /\ \A q \in Procs : q # p => pc'[q] \notin FlushLabels
    BY <1>0, <2>1, Alone
  <2>3. \A q \in Procs : pc'[q] # "inflight"
    BY <2>2 DEF FlushLabels
  <2>4. fl.hand \subseteq WrittenItems(writes)
    BY <2>1 DEF Accounted
  <2>5. PICK x \in fl.hand :
        \/ /\ fl' = [fl EXCEPT !.seq = x.retrySeq, !.hand = {[x EXCEPT !.retrySeq = 0]}]
           /\ sess' = sess
        \/ /\ sess' = NextCommandSeq(sess)
           /\ fl' = [fl EXCEPT !.seq = sess'.nextSeq]
    BY <1>2 DEF Number, sessVars
  <2>6. Quiet(sess, sess')
    BY <2>1, <2>5, QuietOperations DEF Quiet
  <2>7. fl'.skipped = fl.skipped
    BY <2>1, <2>5 DEF FlushSet
  <2>8. Within(sess', fl', WrittenItems(writes), WrittenEntries(writes))
    BY <2>6, <2>7, QuietWithin DEF Accounted
  <2> DEFINE y == [x EXCEPT !.retrySeq = 0]
  <2>9. y \in WrittenItems(writes)
    <3>1. x \in ItemSet
      BY <2>1 DEF FlushSet
    <3>2. y \in ItemSet /\ y.cmd = x.cmd /\ y.attempts = x.attempts
      BY <3>1, SeqsType DEF ItemSet
    <3> HIDE DEF y
    <3> QED BY <2>4, <3>2 DEF WrittenItems
  <2> HIDE DEF y
  <2>10. fl'.hand = {y} \/ fl'.hand = fl.hand
    BY <2>1, <2>5 DEF FlushSet, y
  <2>11. fl'.hand \subseteq WrittenItems(writes)
    BY <2>4, <2>9, <2>10
  <2> QED BY <1>0, <2>3, <2>8, <2>11 DEF Accounted
<1> QED BY <1>1, <1>2

\* A frame is written for the command in the hands of flushQueue and for no
\* other one.
LEMMA SendAccounted ==
  ASSUME IInv, PhaseInv, Accounted, NEW p \in Procs, Send(p)
  PROVE  Accounted'
<1> DEFINE S == WrittenItems(writes)
           T == WrittenEntries(writes)
<1>0. /\ pc[p] = "send" /\ pc[p] \in FlushLabels /\ fate' = fate /\ sess' = sess
      /\ writes \in [Commands -> Nat]
  BY DEF Send, At, sessVars, FlushLabels, IInv, ControlOK
<1>1. fl.hand \subseteq S /\ Within(sess, fl, S, T)
  BY <1>0 DEF Accounted
<1>2. /\ Within(sess', fl', S, T)
      /\ \/ /\ fl'.hand = {} /\ writes' = writes
            /\ \E label : Goto(p, label) /\ label \notin Holding
         \/ /\ fl' = fl /\ Goto(p, "inflight")
            /\ \E x \in fl.hand : writes' = [writes EXCEPT ![x.cmd] = @ + 1]
  BY <1>1, SendWithin
<1>3. CASE fl'.hand = {} /\ writes' = writes
  BY <1>0, <1>2, <1>3 DEF Accounted
<1>4. CASE /\ fl' = fl /\ Goto(p, "inflight")
           /\ \E x \in fl.hand : writes' = [writes EXCEPT ![x.cmd] = @ + 1]
  <2>1. PICK x \in fl.hand : writes' = [writes EXCEPT ![x.cmd] = @ + 1]
    BY <1>4
  <2>2. x \in S /\ fl.hand = {x} /\ x.cmd \in Commands /\ x.attempts \in Nat /\ x \in ItemSet
    BY <1>1, <2>1 DEF PhaseInv, WrittenItems, ItemSet
  <2>3. /\ \A c \in Commands : c # x.cmd => writes'[c] = writes[c]
        /\ writes'[x.cmd] = writes[x.cmd] + 1
    BY <1>0, <2>1, <2>2
  <2>4. writes[x.cmd] <= x.attempts /\ x.attempts <= MaxRetries(x.cmd)
        /\ MaxRetries(x.cmd) \in Nat /\ writes[x.cmd] \in Nat
    BY <1>0, <2>2, MaxRetriesType DEF WrittenItems
  <2>5. /\ x.cmd \notin Queued(sess.queue) \cup Cmds(fl.skipped)
        /\ \A e \in sess.inFlight : e.cmd # x.cmd
    BY <2>1 DEF IInv, FlushOK, Carried, Held, EntryCmds
  <2>6. Within(sess', fl', WrittenItems(writes'), WrittenEntries(writes'))
    <3>1. \A y \in S : y.cmd \in Queued(sess.queue) \cup Cmds(fl.skipped)
            => y \in WrittenItems(writes')
      BY <2>3, <2>5 DEF WrittenItems, ItemSet
    <3>2. ASSUME NEW e \in sess.inFlight, SavedEntry(e) \in T
          PROVE  SavedEntry(e) \in WrittenEntries(writes')
      <4>1. SavedEntry(e).cmd = e.cmd /\ e.cmd # x.cmd
        BY <2>5 DEF SavedEntry
      <4> QED BY <2>3, <3>2, <4>1 DEF WrittenEntries, SavedEntrySet
    <3> HIDE DEF S, T
    <3> QED BY <1>0, <1>1, <1>4, <3>1, <3>2, WithinGrows
  <2>7. pc'[p] = "inflight" /\ \A q \in Procs : q # p => pc'[q] \notin FlushLabels
    BY <1>0, <1>4, Alone
  <2>8. \A q \in Procs : pc'[q] \notin {"number", "send"}
    BY <2>7 DEF FlushLabels
  <2>9. \A y \in fl'.hand : writes'[y.cmd] <= y.attempts + 1 /\ y.attempts <= MaxRetries(y.cmd)
    <3>1. writes'[x.cmd] <= x.attempts + 1 /\ x.attempts <= MaxRetries(x.cmd)
      BY <2>2, <2>3, <2>4, SMTT(30)
    <3>2. \A y \in fl'.hand : y = x
      BY <1>4, <2>2
    <3> QED BY <3>1, <3>2
  <2>10. \A c \in Commands : fate'[c] = "new" => writes'[c] = 0
    <3>1. fate[x.cmd] # "new"
      BY <2>1, <2>2 DEF IInv, Fresh, Carried
    <3> QED BY <1>0, <2>3, <3>1 DEF Accounted
  <2>11. \A c \in Commands : writes'[c] <= MaxRetries(c) + 1
    <3> TAKE c \in Commands
    <3>1. CASE c = x.cmd
      BY <2>2, <2>3, <2>4, <3>1, SMTT(30)
    <3>2. CASE c # x.cmd
      BY <2>3, <3>2 DEF Accounted
    <3> QED BY <3>1, <3>2
  <2> QED BY <2>6, <2>8, <2>9, <2>10, <2>11 DEF Accounted
<1> QED BY <1>2, <1>3, <1>4

\* RegisterInFlight counts the attempt.
LEMMA InFlightAccounted ==
  ASSUME IInv, PhaseInv, Accounted, NEW p \in Procs, InFlight(p)
  PROVE  Accounted'
<1>0. /\ pc[p] = "inflight" /\ fate' = fate /\ writes' = writes /\ fl \in FlushSet
  BY DEF InFlight, At, IInv, FlushOK
<1>1. ASSUME NEW x \in fl.hand
      PROVE  [seq |-> fl.seq, cmd |-> x.cmd, attempts |-> x.attempts + 1] \in WrittenEntries(writes)
  <2>1. /\ x.cmd \in Commands /\ x.attempts \in Nat /\ fl.seq \in Seqs
        /\ MaxRetries(x.cmd) \in Nat
    BY <1>0, MaxRetriesType DEF FlushSet, ItemSet
  <2>2. writes[x.cmd] <= x.attempts + 1 /\ x.attempts <= MaxRetries(x.cmd)
    BY <1>0 DEF Accounted
  <2> DEFINE e == [seq |-> fl.seq, cmd |-> x.cmd, attempts |-> x.attempts + 1]
  <2>3. e \in SavedEntrySet /\ e.cmd = x.cmd /\ e.attempts = x.attempts + 1
    BY <2>1, SMTT(30) DEF SavedEntrySet
  <2> HIDE DEF e
  <2>4. e \in WrittenEntries(writes)
    BY <2>1, <2>2, <2>3, SMTT(30) DEF WrittenEntries
  <2> QED BY <2>4 DEF e
<1>2. Within(sess', fl', WrittenItems(writes), WrittenEntries(writes)) /\ fl'.hand = {}
  BY <1>1, InFlightWithin DEF Accounted
<1> QED BY <1>0, <1>2 DEF Accounted

\* The account is kept by every step.
LEMMA WriteKeeps ==
  ASSUME IInv, PhaseInv, WriteInv, [Next]_vars
  PROVE  WriteInv'
<1> SUFFICES ASSUME failures' = 0, crashes' = 0 PROVE Accounted'
  BY DEF WriteInv
<1>1. Accounted /\ ~Crash
  BY CountsGrow DEF WriteInv
<1> DEFINE S == WrittenItems(writes)
           T == WrittenEntries(writes)
<1>2. Within(sess, fl, S, T)
  BY <1>1 DEF Accounted
<1>3. \A c \in Commands : fate[c] = "new" => Item(c, 0, 0) \in S
  <2> SUFFICES ASSUME NEW c \in Commands, fate[c] = "new" PROVE Item(c, 0, 0) \in S
    OBVIOUS
  <2> DEFINE x == Item(c, 0, 0)
  <2>1. x \in ItemSet /\ x.cmd = c /\ x.attempts = 0
    BY SeqsType DEF Item, ItemSet
  <2>2. writes[c] = 0 /\ MaxRetries(c) \in Nat
    BY <1>1, MaxRetriesType DEF Accounted
  <2> HIDE DEF x
  <2>3. x \in S
    BY <2>1, <2>2, SMTT(30) DEF WrittenItems
  <2> QED BY <2>3 DEF x
<1> HIDE DEF S, T
<1>4. ASSUME Calm, Within(sess', fl', S, T) PROVE Accounted'
  BY <1>1, <1>4, CalmAccounted DEF S, T
<1>5. CASE UNCHANGED vars
  BY <1>1, <1>5 DEF vars, sessVars, procVars, histVars, Accounted
<1>6. ASSUME NEW k \in Conns, ConnStep(k) PROVE Accounted'
  BY <1>2, <1>4, <1>6, ConnCalm
<1>7. ASSUME NEW p \in Procs, FlushStep(p) PROVE Accounted'
  BY <1>1, <1>2, <1>4, <1>7, FlushCalm, ProcessAccounted, PopAccounted, SendAccounted,
     InFlightAccounted
<1>8. CASE Environment
  BY <1>1, <1>2, <1>3, <1>4, <1>8, EnvironmentCalm
<1> QED BY <1>5, <1>6, <1>7, <1>8 DEF Next

\* The empty session has nothing that waits and nothing in flight.
LEMMA InitWithin == Init => \A S, T : Within(sess, fl, S, T)
<1> SUFFICES ASSUME Init, NEW S, NEW T PROVE Within(sess, fl, S, T)
  OBVIOUS
<1>1. sess.queue \in [Priorities -> Seq(S)] /\ sess.inFlight = {}
  BY EmptyQueue DEF Init, DetachedSession
<1>2. fl.skipped = <<>>
  BY IdleKeeps DEF Init
<1> QED BY <1>1, <1>2, SMTT(30) DEF Within

\* Nothing is written when the adapter starts.
LEMMA InitWrites == Init => WriteInv
<1> SUFFICES ASSUME Init PROVE Accounted
  BY DEF WriteInv
<1>1. fl.hand = {} /\ \A c \in Commands : writes[c] = 0 /\ MaxRetries(c) \in Nat
  BY IdleKeeps, MaxRetriesType DEF Init
<1>2. ASSUME NEW c \in Commands PROVE writes[c] <= MaxRetries(c) + 1
  <2>1. writes[c] = 0 /\ MaxRetries(c) \in Nat
    BY <1>1
  <2> QED BY <2>1, SMTT(30)
<1> QED BY <1>1, <1>2, InitWithin DEF Accounted

\* As long as no save failed and the adapter was not restarted, flushQueue
\* writes a command at most MaxRetries + 1 times, whatever the retry profiles,
\* however the connections interleave and whenever its timers elapse.
THEOREM WritesBounded == Spec => []TransmissionBound
<1>1. IInv /\ PhaseInv /\ WriteInv /\ [Next]_vars => WriteInv'
  BY WriteKeeps
<1>2. WriteInv => TransmissionBound
  BY DEF WriteInv, Accounted, TransmissionBound
<1> QED BY <1>1, <1>2, InitKeeps, InitPhase, InitWrites, NextKeeps, PhaseKeeps, PTL DEF Spec
=============================================================================
