------------------------- MODULE DeliveryModeProofs -------------------------
(***************************************************************************)
(* Which commands are not written: in the firmware mode and in the sync    *)
(* mode flushQueue writes no command that commandAllowedInModes forbids.   *)
(* ModeInv says what a flush knows of the modes at each of its points, and *)
(* ModeStep that only a frame of the controller makes it fall behind.      *)
(***************************************************************************)
EXTENDS DeliveryOutcomeProofs

\* A leaf goes to Zenon, unless it names the SMT solver: where it needs
\* arithmetic, or functions and records are rewritten.
USE ZenonT(30)

\* No controller reports its status: only flushQueue starts a mode.
Strict == "status1" \notin Kinds

\* The two modes then exclude each other.
Exclusive(x) == Strict => ~(x.fwMode /\ x.syncMode)

\* A session that kept its modes.
SameModes(x, y) == y.fwMode = x.fwMode /\ y.syncMode = x.syncMode

\* A command may be sent in the modes that flush f knows.
Allowed(f, item) ==
  commandAllowedInModes(item.cmd.commandID, f.fwMode, f.syncMode)

\* What a flush at a point knows of the modes of session s.  The firmware mode
\* may have ended without its knowing, and begun as well when controllers report
\* their status.
Informed(label, s, f) ==
  label \in FlushLabels \ {"return"} =>
    /\ Exclusive(f) /\ (s.syncMode <=> f.syncMode)
    /\ Strict => (s.fwMode => f.fwMode)
    /\ label \in Holding => \A x \in f.hand : Allowed(f, x)
    /\ label = "modes" =>
         \A x \in f.last : Allowed(f, x) /\ x.cmd.commandID \in ModeCommands

\* A flush at a point goes on with another firmware mode than session s is in.
Behind(label, s, f) ==
  label \in FlushLabels \ {"return"} /\ f.fwMode # s.fwMode

\* No flush gets an old firmware mode in this step.
KeepsUp == Outdated' => Outdated

\* No connection holds a status of its controller.
NoStatus == Strict => \A k \in Conns : msg[k].type # "status1"

\* The inductive invariant of the modes.
ModeInv ==
  /\ Exclusive(sess) /\ Exclusive(disk)
  /\ NoStatus
  /\ \A p \in Procs : Informed(pc[p], sess, fl)

\* What a step of flushQueue does to the modes.
ModeStep == ModeInv' /\ KeepsUp

\* Whatever is saved keeps the modes apart in the snapshot.
LEMMA SavedApart ==
  ASSUME Exclusive(disk), Exclusive(sess'),
         \/ Saved \/ NotSaved
         \/ \E t : SaveFailedOf(t) /\ Exclusive(t)
  PROVE  Exclusive(disk')
<1>1. \A t : Exclusive(t) => Exclusive(SessionSnapshot(t))
  BY DEF Exclusive, SessionSnapshot
<1> QED BY <1>1 DEF Saved, NotSaved, SaveFailedOf

\* A step outside flushQueue, and the environment's steps.
LEMMA ModesAside ==
  ASSUME IInv, ModeInv, fl' = fl, NoStatus',
         \/ pc' = pc
         \/ \E p \in Procs : \E label : label \notin FlushLabels /\ Goto(p, label),
         sess'.syncMode = sess.syncMode, Strict => (sess'.fwMode => sess.fwMode),
         \/ Saved \/ NotSaved
         \/ \E t : SaveFailedOf(t) /\ Exclusive(t)
  PROVE  ModeInv' /\ (sess'.fwMode = sess.fwMode => ModeStep)
<1>1. Exclusive(sess')
  BY DEF ModeInv, Exclusive
<1>2. Exclusive(disk')
  BY <1>1, SavedApart DEF ModeInv
<1>3. \A q \in Procs : pc'[q] = pc[q] \/ pc'[q] \notin FlushLabels
  BY DEF Goto, IInv, ControlOK
<1>4. \A q \in Procs : Informed(pc'[q], sess', fl')
  BY <1>3 DEF ModeInv, Informed
<1>5. ModeInv'
  BY <1>1, <1>2, <1>4 DEF ModeInv
<1>6. sess'.fwMode = sess.fwMode => KeepsUp
  BY <1>3 DEF KeepsUp, Outdated
<1> QED BY <1>5, <1>6 DEF ModeStep

\* While a goroutine is in flushQueue, or the lock is free, no other one is.
LEMMA NoOtherFlush ==
  ASSUME PhaseInv, NEW p \in Procs, pc[p] \in FlushLabels \/ lock = NoProc
  PROVE  \A q \in Procs : q # p => pc[q] \notin FlushLabels
  BY ProcsAssumption DEF PhaseInv

\* A step of flushQueue.
LEMMA ModesWithin ==
  ASSUME IInv, PhaseInv, ModeInv, NEW p \in Procs, NEW label, Goto(p, label),
         pc[p] \in FlushLabels \/ lock = NoProc, msg' = msg,
         Exclusive(sess'), Saved \/ NotSaved \/ SaveFailed,
         Informed(label, sess', fl'),
         Behind(label, sess', fl') => Behind(pc[p], sess, fl)
  PROVE  ModeStep
<1>1. Exclusive(disk')
  BY SavedApart DEF ModeInv, SaveFailed
<1>2. \A q \in Procs : pc'[q] = IF q = p THEN label ELSE pc[q]
  BY DEF Goto, IInv, ControlOK
<1>3. \A q \in Procs : Informed(pc'[q], sess', fl')
  BY <1>2, NoOtherFlush DEF Informed
<1>4. NoStatus'
  BY DEF ModeInv, NoStatus
<1>5. ModeInv'
  BY <1>1, <1>3, <1>4 DEF ModeInv
<1>6. ASSUME Outdated' PROVE Outdated
  <2>1. PICK q \in Procs : pc'[q] \in FlushLabels \ {"return"}
    BY <1>6 DEF Outdated
  <2>2. q = p
    BY <1>2, <2>1, NoOtherFlush
  <2>3. Behind(label, sess', fl')
    BY <1>2, <1>6, <2>1, <2>2 DEF Behind, Outdated
  <2> QED BY <2>3 DEF Behind, Outdated
<1> QED BY <1>5, <1>6 DEF ModeStep, KeepsUp

\* flushQueue goes on with the modes it knows.
LEMMA StaysInformed ==
  ASSUME NEW s, NEW t, NEW f, NEW g, NEW from \in FlushLabels \ {"return"},
         NEW label \in FlushLabels, Informed(from, s, f),
         SameModes(s, t), SameModes(f, g),
         label \in Holding => \A x \in g.hand : Allowed(f, x),
         label = "modes" =>
           \A x \in g.last : Allowed(f, x) /\ x.cmd.commandID \in ModeCommands
  PROVE  Informed(label, t, g)
<1>1. /\ Exclusive(f) /\ (s.syncMode <=> f.syncMode)
      /\ Strict => (s.fwMode => f.fwMode)
  BY DEF Informed
<1>2. /\ Exclusive(g) /\ (t.syncMode <=> g.syncMode)
      /\ Strict => (t.fwMode => g.fwMode)
  BY <1>1 DEF SameModes, Exclusive
<1>3. \A x : Allowed(f, x) => Allowed(g, x)
  BY DEF Allowed, SameModes
<1> QED BY <1>2, <1>3 DEF Informed

\* The operations on the session that leave its modes alone.
LEMMA ModesLeft ==
  ASSUME sess \in SessionSet
  PROVE  /\ \A n : SameModes(sess, UpdateBufferFree(sess, n))
         /\ \A n : SameModes(sess, SetFrameMode(sess, n))
         /\ \A k : /\ SameModes(sess, Attach(sess, k))
                   /\ SameModes(sess, MarkOffline(Attach(sess, k)))
         /\ SameModes(sess, MarkOffline(sess))
         /\ \A n : SameModes(sess, AckInFlight(sess, n))
         /\ \A order : SameModes(sess, ProcessInFlight(sess, expired, order))
         /\ \A n, x : SameModes(sess, RegisterInFlight(sess, n, x))
         /\ SameModes(sess, NextCommandSeq(sess))
         /\ \A q : SameModes(sess, [sess EXCEPT !.queue = q])
         /\ \A c, q : SameModes(sess, [RecordKey(sess, c) EXCEPT !.queue = q])
         /\ SameModes(sess, sess)
<1> USE DEF SameModes, SessionSet
<1>1. /\ \A n : SameModes(sess, UpdateBufferFree(sess, n))
      /\ \A n : SameModes(sess, SetFrameMode(sess, n))
  BY DEF UpdateBufferFree, SetFrameMode
<1>2. \A k : SameModes(sess, Attach(sess, k))
  BY DEF Attach
<1>3. \A k : SameModes(sess, MarkOffline(Attach(sess, k)))
  BY DEF Attach, MarkOffline
<1>4. SameModes(sess, MarkOffline(sess))
  BY DEF MarkOffline
<1>5. \A n : SameModes(sess, AckInFlight(sess, n))
  BY DEF AckInFlight
<1>6. \A order : SameModes(sess, ProcessInFlight(sess, expired, order))
  BY DEF ProcessInFlight
<1>7. \A n, x : SameModes(sess, RegisterInFlight(sess, n, x))
  BY DEF RegisterInFlight
<1>8. SameModes(sess, NextCommandSeq(sess))
  BY DEF NextCommandSeq
<1>9. \A q : SameModes(sess, [sess EXCEPT !.queue = q])
  OBVIOUS
<1>10. \A c, q : SameModes(sess, [RecordKey(sess, c) EXCEPT !.queue = q])
  BY DEF RecordKey
<1>11. SameModes(sess, sess)
  OBVIOUS
<1> HIDE DEF SameModes, SessionSet
<1> QED BY <1>1, <1>2, <1>3, <1>4, <1>5, <1>6, <1>7, <1>8, <1>9, <1>10, <1>11

\* SetFWMode and SetSyncMode each set one of the two modes.
LEMMA ModesSet ==
  ASSUME sess \in SessionSet, NEW on \in BOOLEAN
  PROVE  /\ SetFWMode(sess, on).fwMode = on
         /\ SetFWMode(sess, on).syncMode = sess.syncMode
         /\ SetSyncMode(sess, on).syncMode = on
         /\ SetSyncMode(sess, on).fwMode = sess.fwMode
  BY DEF SetFWMode, SetSyncMode, SessionSet

\* handleConn changes a mode only when it handles a frame of the controller, and
\* starts one only when that is a status.
LEMMA ConnModes ==
  ASSUME IInv, ModeInv, NEW k \in Conns, ConnStep(k)
  PROVE  ModeInv' /\ (KeepsUp \/ (pc[k] = "act" /\ pc'[k] # "act"))
<1> USE DEF ModeStep
<1>0. sess \in SessionSet /\ k \in Procs /\ msg \in [Conns -> MessageSet]
  BY DEF IInv, SessionOK, LegalSession, Procs, ControlOK
<1>1. fl' = fl /\ \E label : label \notin FlushLabels /\ Goto(k, label)
  BY ConnAside
<1>2. \A m : m.type # "status1" /\ msg' = [msg EXCEPT ![k] = m] => NoStatus'
  BY <1>0 DEF ModeInv, NoStatus
<1>3. msg' = msg => NoStatus'
  BY DEF ModeInv, NoStatus
<1>4. ASSUME SameModes(sess, sess'), NoStatus',
             \/ Saved \/ NotSaved \/ SaveFailed
             \/ \E n : SaveFailedOf(AckInFlight(sess, n))
      PROVE  ModeStep
  <2>1. Exclusive(sess)
    BY DEF ModeInv
  <2>2. Exclusive(sess') /\ \A n : Exclusive(AckInFlight(sess, n))
    BY <1>0, <1>4, <2>1, ModesLeft DEF Exclusive, SameModes
  <2>3. Saved \/ NotSaved \/ \E t : SaveFailedOf(t) /\ Exclusive(t)
    BY <1>4, <2>2 DEF SaveFailed
  <2>4. sess'.syncMode = sess.syncMode /\ sess'.fwMode = sess.fwMode
    BY <1>4 DEF SameModes
  <2> QED BY <1>0, <1>1, <1>4, <2>3, <2>4, ModesAside
<1>5. UNCHANGED sessVars => SameModes(sess, sess') /\ NotSaved
  BY DEF sessVars, SameModes, NotSaved
<1>6. sess' = sess => SameModes(sess, sess')
  BY DEF SameModes
<1>7. NoMsg.type # "status1"
  BY DEF NoMsg
<1>8. CASE Connect(k) \/ ReadFails(k) \/ CloseConn(k)
  BY <1>3, <1>4, <1>5, <1>8 DEF Connect, ReadFails, CloseConn
<1>9. ASSUME NEW mode \in FrameModes, Register(k, mode) PROVE ModeStep
  <2>1. NoStatus'
    <3>1. [type |-> "register", mode |-> mode].type # "status1"
      OBVIOUS
    <3> QED BY <1>2, <1>3, <1>9, <3>1 DEF Register
  <2>2. SameModes(sess, sess') /\ (Saved \/ NotSaved \/ SaveFailed)
    BY <1>0, <1>5, <1>9, ModesLeft DEF Register
  <2> QED BY <1>4, <2>1, <2>2
<1>10. CASE AdoptFrameMode(k)
  BY <1>0, <1>3, <1>4, <1>10, ModesLeft DEF AdoptFrameMode
<1>11. CASE RegistrationAck(k)
  BY <1>0, <1>2, <1>4, <1>6, <1>7, <1>11, ModesLeft DEF RegistrationAck, Touch
<1>12. ASSUME NEW m \in Messages, Receive(k, m) PROVE ModeStep
  <2>1. Strict => m.type # "status1"
    BY <1>12, EnvironmentAssumption, SMTT(30) DEF Messages, Strict
  <2>2. NoStatus'
    BY <1>2, <1>12, <2>1 DEF Receive, NoStatus
  <2> QED BY <1>4, <1>6, <1>12, <2>2 DEF Receive, Touch
<1>13. CASE Handle(k)
  BY <1>0, <1>3, <1>4, <1>6, <1>13, ModesLeft DEF Handle
\* The firmware mode is started or ended by a frame.
<1>m. ASSUME NEW on \in BOOLEAN, sess' = SetFWMode(sess, on), Strict => ~on, NoStatus',
             Saved \/ SaveFailed, pc[k] = "act",
             Goto(k, "process") \/ Goto(k, "exit")
      PROVE  ModeInv' /\ pc[k] = "act" /\ pc'[k] # "act"
  <2>1. sess'.syncMode = sess.syncMode /\ sess'.fwMode = on
    BY <1>0, <1>m, ModesSet
  <2>2. Exclusive(sess')
    BY <1>m, <2>1 DEF Exclusive
  <2>3. pc'[k] # "act"
    BY <1>0, <1>m DEF Goto, IInv, ControlOK
  <2>4. Saved \/ NotSaved \/ \E t : SaveFailedOf(t) /\ Exclusive(t)
    BY <1>m, <2>2 DEF SaveFailed
  <2>5. ModeInv'
    BY <1>0, <1>1, <1>m, <2>1, <2>4, ModesAside
  <2> QED BY <1>m, <2>3, <2>5
<1>14. CASE ActStatus1(k)
  <2>1. NoStatus' /\ ~Strict
    BY <1>2, <1>7, <1>14 DEF ActStatus1, ModeInv, NoStatus
  <2>2. CASE UNCHANGED sessVars
    BY <1>4, <1>5, <2>1, <2>2
  <2>3. CASE ~UNCHANGED sessVars
    <3>1. /\ sess' = SetFWMode(sess, TRUE) /\ (Saved \/ SaveFailed) /\ pc[k] = "act"
          /\ Goto(k, "process") \/ Goto(k, "exit")
      BY <1>14, <2>3 DEF ActStatus1, At
    <3> QED BY <1>m, <2>1, <3>1
  <2> QED BY <1>14, <2>2, <2>3 DEF ActStatus1
<1>15. CASE ActAck(k)
  BY <1>0, <1>2, <1>4, <1>5, <1>6, <1>7, <1>15, ModesLeft DEF ActAck
<1>16. CASE ActOther(k)
  <2>1. NoStatus'
    BY <1>2, <1>7, <1>16 DEF ActOther
  <2>2. CASE UNCHANGED sessVars
    BY <1>4, <1>5, <2>1, <2>2
  <2>3. CASE sess' = SetFWMode(sess, FALSE) /\ msg[k].type = "fwdone"
    BY <1>16, <1>m, <2>1, <2>3 DEF ActOther, At
  <2> QED BY <1>16, <2>2, <2>3 DEF ActOther
<1>17. CASE GoOffline(k)
  BY <1>0, <1>3, <1>4, <1>17, ModesLeft DEF GoOffline
<1> QED BY <1>8, <1>9, <1>10, <1>11, <1>12, <1>13, <1>14, <1>15, <1>16, <1>17
        DEF ConnStep

\* Nor does the environment; a restart loads modes that were saved.
LEMMA EnvironmentModes ==
  ASSUME IInv, ModeInv, Environment
  PROVE  ModeStep
<1>0. sess \in SessionSet /\ disk \in SnapshotSet
  BY DEF IInv, SessionOK, LegalSession, StoreOK, SnapshotOK, LegalSnapshot
<1>1. CASE Crash
  <2>1. SameModes(disk, sess') /\ disk' = disk
    BY <1>1 DEF Crash, RestoredSession, SameModes
  <2>2. \A q \in Procs : pc'[q] \notin FlushLabels
    BY <1>1 DEF Crash, FlushLabels
  <2>3. NoStatus'
    BY <1>1 DEF Crash, NoStatus, NoMsg
  <2>4. Exclusive(sess') /\ Exclusive(disk')
    BY <2>1 DEF ModeInv, SameModes, Exclusive
  <2>5. ModeInv'
    BY <2>2, <2>3, <2>4 DEF ModeInv, Informed
  <2>6. ~Outdated'
    BY <2>2 DEF Outdated
  <2> QED BY <2>5, <2>6 DEF ModeStep, KeepsUp
<1>2. ASSUME SameModes(sess, sess'), UNCHANGED procVars, Saved \/ NotSaved \/ SaveFailed
      PROVE  ModeStep
  <2>1. pc' = pc /\ fl' = fl /\ NoStatus'
    BY <1>2 DEF procVars, ModeInv, NoStatus
  <2>2. sess'.syncMode = sess.syncMode /\ sess'.fwMode = sess.fwMode
    BY <1>2 DEF SameModes
  <2>3. Exclusive(sess')
    BY <1>2 DEF ModeInv, Exclusive, SameModes
  <2> QED BY <1>2, <2>1, <2>2, <2>3, ModesAside DEF SaveFailed
<1>3. ASSUME NEW c \in Commands, Refuse(c) PROVE ModeStep
  <2>1. \/ sess' = sess
        \/ \E q : sess' = [RecordKey(sess, c) EXCEPT !.queue = q]
    BY <1>3 DEF Refuse
  <2>2. SameModes(sess, sess')
    <3>1. CASE sess' = sess
      BY <3>1 DEF SameModes
    <3>2. ASSUME NEW q, sess' = [RecordKey(sess, c) EXCEPT !.queue = q]
          PROVE  SameModes(sess, sess')
      BY <1>0, <3>2, ModesLeft
    <3> QED BY <2>1, <3>1, <3>2
  <2> QED BY <1>2, <1>3, <2>2 DEF Refuse
<1>4. ASSUME NEW c \in Commands, Accept(c) PROVE ModeStep
  BY <1>0, <1>2, <1>4, ModesLeft DEF Accept
<1>5. ASSUME NEW c \in Commands, ExpireTTL(c) PROVE ModeStep
  BY <1>2, <1>5 DEF ExpireTTL, sessVars, SameModes, NotSaved
<1>6. ASSUME NEW e \in sess.inFlight, AckTimerElapses(e) PROVE ModeStep
  <2>1. SameModes(sess, sess')
    BY <1>0, <1>6 DEF AckTimerElapses, SessionSet, SameModes
  <2> QED BY <1>2, <1>6, <2>1 DEF AckTimerElapses
<1>7. ASSUME NEW key \in sess.dedup, DedupWindowEnds(key) PROVE ModeStep
  <2>1. SameModes(sess, sess')
    BY <1>0, <1>7 DEF DedupWindowEnds, SessionSet, SameModes
  <2> QED BY <1>2, <1>7, <2>1 DEF DedupWindowEnds
<1> QED BY <1>1, <1>3, <1>4, <1>5, <1>6, <1>7 DEF Environment

\* flushQueue starts a mode only with a command that is allowed in the modes it
\* knows, so never while the other mode is on.
LEMMA FlushModes ==
  ASSUME IInv, PhaseInv, ModeInv, NEW p \in Procs, FlushStep(p)
  PROVE  ModeStep
<1> USE DEF At
<1>0. /\ sess \in SessionSet /\ fl \in FlushSet
      /\ Exclusive(sess) /\ Informed(pc[p], sess, fl)
  BY DEF IInv, SessionOK, LegalSession, FlushOK, ModeInv
<1>a. FlushLabels = {"count", "drain", "pop", "number", "send", "inflight", "modes",
                     "acksent", "endscan", "clearsync", "clearfw", "return"}
  BY DEF FlushLabels
<1>b. Holding = {"number", "send", "inflight"}
  BY DEF Holding
<1>c. \A s, f : \A failed : /\ Informed(AfterFlush(p, failed), s, f)
                            /\ ~Behind(AfterFlush(p, failed), s, f)
  BY <1>a DEF AfterFlush, Informed, Behind
<1>d. \A s, f : Informed("return", s, f) /\ ~Behind("return", s, f)
  BY DEF Informed, Behind
<1>e. SameModes(fl, fl) /\ SameModes(sess, sess)
  BY DEF SameModes
<1>f. UNCHANGED sessVars => sess' = sess /\ NotSaved
  BY DEF sessVars, NotSaved
<1>g. \A t : SameModes(sess, t) => Exclusive(t)
  BY <1>0 DEF SameModes, Exclusive
\* The flush returns.
<1>r. ASSUME NEW failed, FlushReturn(p, failed), msg' = msg, Exclusive(sess'),
             pc[p] \in FlushLabels \/ lock = NoProc, Saved \/ NotSaved \/ SaveFailed
      PROVE  ModeStep
  BY <1>r, <1>c, ModesWithin DEF FlushReturn
\* The flush goes on with the modes it knows.
<1>s. ASSUME NEW label \in FlushLabels, Goto(p, label), msg' = msg,
             pc[p] \in FlushLabels \ {"return"}, SameModes(sess, sess'),
             SameModes(fl, fl'), Saved \/ NotSaved \/ SaveFailed,
             label \in Holding => \A x \in fl'.hand : Allowed(fl, x),
             label = "modes" =>
               \A x \in fl'.last : Allowed(fl, x) /\ x.cmd.commandID \in ModeCommands
      PROVE  ModeStep
  <2>1. Informed(label, sess', fl')
    BY <1>0, <1>s, StaysInformed
  <2>2. Exclusive(sess')
    BY <1>g, <1>s
  <2>3. Behind(label, sess', fl') => Behind(pc[p], sess, fl)
    BY <1>s DEF Behind, SameModes
  <2> QED BY <1>s, <2>1, <2>2, <2>3, ModesWithin
<1>1. CASE ProcessStep(p)
  <2>1. SameModes(sess, sess') /\ fl' = fl /\ msg' = msg /\ Goto(p, "lock")
    BY <1>0, <1>1, ModesLeft DEF ProcessStep
  <2>2. NoStatus'
    BY <2>1 DEF ModeInv, NoStatus
  <2>3. Exclusive(sess')
    BY <1>g, <2>1
  <2>4. sess'.syncMode = sess.syncMode /\ sess'.fwMode = sess.fwMode
    BY <2>1 DEF SameModes
  <2>5. "lock" \notin FlushLabels
    BY <1>a
  <2>6. Saved \/ \E t : SaveFailedOf(t) /\ Exclusive(t)
    BY <1>1, <2>3 DEF ProcessStep, SaveFailed
  <2> QED BY <2>1, <2>2, <2>4, <2>5, <2>6, ModesAside
<1>2. ASSUME NEW c \in Commands, Publish(p, c) PROVE ModeStep
  BY <1>2 DEF Publish, sessVars, ModeStep, ModeInv, NoStatus, KeepsUp, Outdated
<1>3. CASE Context(p)
  <2>1. CASE FlushReturn(p, FALSE)
    BY <1>0, <1>3, <1>f, <1>r, <2>1 DEF Context
  <2>2. CASE Goto(p, "count") /\ sess.conn # NoConn
    <3>1. fl'.fwMode = sess.fwMode /\ fl'.syncMode = sess.syncMode
      <4>1. fl' = [fl EXCEPT !.conn = sess.conn, !.fwMode = sess.fwMode,
                             !.syncMode = sess.syncMode, !.frameMode = sess.frameMode,
                             !.remaining = EffectiveBuffer(sess.bufferFree)]
        BY <1>3, <2>2 DEF Context, FlushReturn
      <4> QED BY <1>0, <4>1, SMTT(30) DEF FlushSet
    <3>2. "count" \notin Holding
      BY <1>b
    <3>3. sess' = sess /\ NotSaved /\ msg' = msg /\ lock = NoProc
      BY <1>3, <1>f DEF Context
    <3>4. Informed("count", sess', fl')
      BY <1>0, <3>1, <3>2, <3>3 DEF Informed, Exclusive
    <3>5. ~Behind("count", sess', fl')
      BY <3>1, <3>3 DEF Behind
    <3> QED BY <1>0, <2>2, <3>3, <3>4, <3>5, ModesWithin
  <2> QED BY <1>3, <2>1, <2>2 DEF Context
<1>4. CASE Count(p)
  <2>1. CASE FlushReturn(p, FALSE)
    BY <1>0, <1>4, <1>a, <1>f, <1>r, <2>1 DEF Count
  <2>2. CASE Goto(p, "drain") /\ fl' = fl
    BY <1>4, <1>a, <1>b, <1>e, <1>f, <1>s, <2>2 DEF Count
  <2> QED BY <1>4, <2>1, <2>2 DEF Count
<1>5. CASE Drain(p)
  <2>1. SameModes(fl, fl')
    BY <1>0, <1>5 DEF Drain, SameModes, FlushSet
  <2>2. SameModes(sess, sess')
    BY <1>0, <1>5, ModesLeft DEF Drain
  <2> QED BY <1>5, <1>a, <1>b, <1>s, <2>1, <2>2 DEF Drain
<1>6. CASE PopNothing(p)
  <2>1. SameModes(fl, fl')
    BY <1>0, <1>6 DEF PopNothing, SameModes, FlushSet
  <2> QED BY <1>6, <1>a, <1>b, <1>e, <1>f, <1>s, <2>1 DEF PopNothing
<1>7. CASE Pop(p)
  <2>1. PICK b \in NextBuffer(sess.queue, fl.fwMode, fl.syncMode) :
          LET item    == Head(sess.queue[b])
              c       == item.cmd
              allowed == commandAllowedInModes(c.commandID, fl.fwMode, fl.syncMode)
          IN  /\ sess' = [sess EXCEPT !.queue = PopFrom(@, b)]
              /\ \/ fl' = [fl EXCEPT !.left = @ - 1] /\ pc' = pc
                 \/ fl' = [fl EXCEPT !.left = @ - 1, !.skipped = Append(@, item)] /\ pc' = pc
                 \/ /\ allowed /\ fl' = [fl EXCEPT !.left = @ - 1, !.hand = {item}]
                    /\ Goto(p, "number")
    BY <1>7 DEF Pop
  <2>2. SameModes(sess, sess')
    BY <1>0, <2>1, ModesLeft
  <2>3. SameModes(fl, fl')
    BY <1>0, <2>1 DEF SameModes, FlushSet
  <2>4. pc[p] = "pop" /\ msg' = msg /\ NotSaved
    BY <1>7 DEF Pop
  <2>5. CASE pc' = pc
    <3>1. Goto(p, "pop")
      BY <2>4, <2>5 DEF Goto, IInv, ControlOK
    <3> QED BY <1>a, <1>b, <1>s, <2>2, <2>3, <2>4, <3>1
  <2>6. CASE Goto(p, "number") /\ pc' # pc
    <3>1. \A x \in fl'.hand : Allowed(fl, x)
      <4>1. /\ fl' = [fl EXCEPT !.left = @ - 1, !.hand = {Head(sess.queue[b])}]
            /\ Allowed(fl, Head(sess.queue[b]))
        BY <2>1, <2>6 DEF Allowed
      <4>2. fl'.hand = {Head(sess.queue[b])}
        BY <1>0, <4>1 DEF FlushSet
      <4> QED BY <4>1, <4>2
    <3> QED BY <1>a, <1>s, <2>2, <2>3, <2>4, <2>6, <3>1
  <2> QED BY <2>1, <2>5, <2>6
<1>8. CASE Number(p)
  <2>0. pc[p] = "number" /\ msg' = msg /\ Goto(p, "send")
    BY <1>8 DEF Number
  <2>1. \A x \in fl.hand : Allowed(fl, x)
    BY <1>0, <1>a, <1>b, <2>0 DEF Informed
  <2>2. PICK item \in fl.hand :
          \/ /\ fl' = [fl EXCEPT !.seq = item.retrySeq,
                                 !.hand = {[item EXCEPT !.retrySeq = 0]}]
             /\ UNCHANGED sessVars
          \/ /\ sess' = NextCommandSeq(sess)
             /\ Saved \/ SaveFailed
             /\ fl' = [fl EXCEPT !.seq = sess'.nextSeq]
    BY <1>8 DEF Number
  <2>3. item \in ItemSet
    BY <1>0, <2>2, SMTT(30) DEF FlushSet
  <2>4. SameModes(fl, fl')
    BY <1>0, <2>2 DEF FlushSet, SameModes
  <2>5. SameModes(sess, sess') /\ (Saved \/ NotSaved \/ SaveFailed)
    BY <1>0, <1>e, <1>f, <2>2, ModesLeft
  <2>6. [item EXCEPT !.retrySeq = 0].cmd = item.cmd
    BY <2>3 DEF ItemSet
  <2>7. fl'.hand = fl.hand \/ fl'.hand = {[item EXCEPT !.retrySeq = 0]}
    BY <1>0, <2>2 DEF FlushSet
  <2>8. \A x \in fl'.hand : Allowed(fl, x)
    BY <2>1, <2>6, <2>7 DEF Allowed
  <2> QED BY <1>a, <1>s, <2>0, <2>4, <2>5, <2>8
<1>9. CASE Send(p)
  <2>0. pc[p] = "send" /\ msg' = msg /\ UNCHANGED sessVars
    BY <1>9 DEF Send
  <2>1. \A x \in fl.hand : Allowed(fl, x)
    BY <1>0, <1>a, <1>b, <2>0 DEF Informed
  <2>2. PICK item \in fl.hand :
          \/ fl' = [fl EXCEPT !.hand = {}] /\ Goto(p, "pop")
          \/ /\ fl' = [fl EXCEPT !.hand = {}, !.left = 0, !.skipped = <<item>> \o @]
             /\ Goto(p, "endscan")
          \/ fl' = fl /\ Goto(p, "inflight")
          \/ /\ fl' = [fl EXCEPT !.hand = {}, !.left = 0, !.failed = TRUE]
             /\ Goto(p, "endscan")
    BY <1>9 DEF Send
  <2>3. SameModes(fl, fl')
    BY <1>0, <1>e, <2>2 DEF FlushSet, SameModes
  <2>4. SameModes(sess, sess') /\ NotSaved
    BY <1>e, <1>f, <2>0
  <2>5. CASE Goto(p, "pop") \/ Goto(p, "endscan")
    BY <1>a, <1>b, <1>s, <2>0, <2>3, <2>4, <2>5
  <2>6. CASE fl' = fl /\ Goto(p, "inflight")
    BY <1>a, <1>s, <2>0, <2>1, <2>3, <2>4, <2>6
  <2> QED BY <2>2, <2>5, <2>6
<1>10. CASE InFlight(p)
  <2>0. pc[p] = "inflight" /\ msg' = msg
    BY <1>10 DEF InFlight
  <2>1. \A x \in fl.hand : Allowed(fl, x)
    BY <1>0, <1>a, <1>b, <2>0 DEF Informed
  <2>2. PICK item \in fl.hand :
          /\ sess' = RegisterInFlight(sess, fl.seq, item)
          /\ \/ /\ Saved
                /\ Goto(p, IF item.cmd.commandID \in ModeCommands
                           THEN "modes" ELSE "acksent")
                /\ fl' = [fl EXCEPT !.hand = {}, !.last = {item}]
             \/ /\ SaveFailed
                /\ fl' = [fl EXCEPT !.hand = {}, !.left = 0, !.failed = TRUE]
                /\ Goto(p, "endscan")
    BY <1>10 DEF InFlight
  <2>3. SameModes(fl, fl')
    BY <1>0, <2>2 DEF FlushSet, SameModes
  <2>4. SameModes(sess, sess')
    BY <1>0, <2>2, ModesLeft
  <2>5. CASE Goto(p, "endscan") /\ SaveFailed
    BY <1>a, <1>b, <1>s, <2>0, <2>3, <2>4, <2>5
  <2>6. CASE Saved /\ fl' = [fl EXCEPT !.hand = {}, !.last = {item}]
    <3>1. fl'.last = {item}
      BY <1>0, <2>6 DEF FlushSet
    <3>2. CASE item.cmd.commandID \in ModeCommands /\ Goto(p, "modes")
      <4>1. \A x \in fl'.last : Allowed(fl, x) /\ x.cmd.commandID \in ModeCommands
        BY <2>1, <3>1, <3>2
      <4> QED BY <1>a, <1>b, <1>s, <2>0, <2>3, <2>4, <2>6, <3>2, <4>1
    <3>3. CASE Goto(p, "acksent")
      BY <1>a, <1>b, <1>s, <2>0, <2>3, <2>4, <2>6, <3>3
    <3>4. CASE Goto(p, "endscan")
      BY <1>a, <1>b, <1>s, <2>0, <2>3, <2>4, <2>6, <3>4
    <3> QED BY <2>2, <3>2, <3>3, <3>4
  <2> QED BY <2>2, <2>5, <2>6
<1>11. CASE Modes(p)
  <2>0. pc[p] = "modes" /\ msg' = msg
    BY <1>11 DEF Modes
  <2>1. /\ \A x \in fl.last : Allowed(fl, x)
        /\ Exclusive(fl) /\ (sess.syncMode <=> fl.syncMode)
        /\ Strict => (sess.fwMode => fl.fwMode)
    BY <1>0, <1>a, <2>0 DEF Informed
  <2>2. PICK item \in fl.last :
          LET isSync == item.cmd.commandID \in SyncIDs
          IN  /\ sess' = IF isSync THEN SetSyncMode(sess, TRUE) ELSE SetFWMode(sess, TRUE)
              /\ \/ /\ Saved
                    /\ fl' = IF isSync THEN [fl EXCEPT !.syncMode = TRUE]
                                       ELSE [fl EXCEPT !.fwMode = TRUE]
                    /\ Goto(p, "acksent")
                 \/ SaveFailed /\ fl' = IdleFlush /\ Goto(p, "return")
    BY <1>11 DEF Modes
  <2>3. /\ item.cmd.commandID \in SyncIDs \cup {19} /\ Allowed(fl, item)
    BY <1>0, <1>a, <2>0, <2>2 DEF Informed, ModeCommands
  <2>4. CASE item.cmd.commandID \in SyncIDs
    <3>1. ~fl.fwMode
      <4>1. SyncIDs \cap (HighIDs \cup FWIDs) = {}
        BY SMTT(30) DEF SyncIDs, HighIDs, FWIDs
      <4> QED BY <2>3, <2>4, <4>1 DEF Allowed, commandAllowedInModes
    <3>2. sess'.syncMode /\ sess'.fwMode = sess.fwMode /\ (Strict => ~sess'.fwMode)
      BY <1>0, <2>1, <2>2, <2>4, <3>1, ModesSet
    <3>3. Exclusive(sess')
      BY <3>2 DEF Exclusive
    <3>4. CASE Saved /\ fl' = [fl EXCEPT !.syncMode = TRUE] /\ Goto(p, "acksent")
      <4>1. fl'.syncMode /\ ~fl'.fwMode /\ fl'.fwMode = fl.fwMode
        BY <1>0, <3>1, <3>4 DEF FlushSet
      <4>2. Informed("acksent", sess', fl')
        BY <1>b, <3>2, <4>1 DEF Informed, Exclusive
      <4>3. Behind("acksent", sess', fl') => Behind(pc[p], sess, fl)
        BY <1>a, <2>0, <3>2, <4>1 DEF Behind
      <4> QED BY <1>a, <2>0, <3>3, <3>4, <4>2, <4>3, ModesWithin
    <3>5. CASE SaveFailed /\ Goto(p, "return")
      BY <1>a, <1>d, <2>0, <3>3, <3>5, ModesWithin
    <3> QED BY <2>2, <2>4, <3>4, <3>5
  <2>5. CASE item.cmd.commandID \notin SyncIDs
    <3>1. Strict => ~fl.syncMode
      <4>1. item.cmd.commandID = 19
        BY <2>3, <2>5
      <4>2. 19 \notin SyncIDs /\ 19 \notin HighIDs \ {2, 3, 17, 18, 19, 23}
        BY SMTT(30) DEF SyncIDs
      <4> QED BY <2>1, <2>3, <4>1, <4>2 DEF Allowed, commandAllowedInModes, Exclusive
    <3>2. sess'.fwMode /\ sess'.syncMode = sess.syncMode /\ (Strict => ~sess'.syncMode)
      BY <1>0, <2>1, <2>2, <2>5, <3>1, ModesSet
    <3>3. Exclusive(sess')
      BY <3>2 DEF Exclusive
    <3>4. CASE Saved /\ fl' = [fl EXCEPT !.fwMode = TRUE] /\ Goto(p, "acksent")
      <4>1. fl'.fwMode /\ fl'.syncMode = fl.syncMode
        BY <1>0, <3>4 DEF FlushSet
      <4>2. Informed("acksent", sess', fl')
        BY <1>b, <2>1, <3>1, <3>2, <4>1 DEF Informed, Exclusive
      <4>3. ~Behind("acksent", sess', fl')
        <5>1. fl'.fwMode = sess'.fwMode
          BY <1>0, <2>2, <2>5, <3>4, SMTT(30) DEF FlushSet, SessionSet, SetFWMode
        <5> QED BY <5>1 DEF Behind
      <4> QED BY <1>a, <2>0, <3>3, <3>4, <4>2, <4>3, ModesWithin
    <3>5. CASE SaveFailed /\ Goto(p, "return")
      BY <1>a, <1>d, <2>0, <3>3, <3>5, ModesWithin
    <3> QED BY <2>2, <2>5, <3>4, <3>5
  <2> QED BY <2>4, <2>5
<1>12. CASE AckSent(p)
  <2>0. pc[p] = "acksent" /\ msg' = msg /\ sess' = sess
    BY <1>12 DEF AckSent
  <2>1. CASE SaveFailed /\ Goto(p, "return")
    BY <1>0, <1>a, <1>d, <2>0, <2>1, ModesWithin
  <2>2. ASSUME NEW item \in fl.last, Saved, Goto(p, "endscan"),
               fl' = [fl EXCEPT !.last = {}, !.left = 0, !.sent = TRUE,
                                !.remaining = @ - FrameLen(item.cmd, fl.frameMode)]
        PROVE  ModeStep
    <3>1. SameModes(fl, fl')
      BY <1>0, <2>2 DEF FlushSet, SameModes
    <3> QED BY <1>a, <1>b, <1>e, <1>s, <2>0, <2>2, <3>1
  <2> QED BY <1>12, <2>1, <2>2 DEF AckSent
\* The next round begins with the modes the flush knows.
<1>n. ASSUME NEW f, NextRound(p, f), msg' = msg, pc[p] \in FlushLabels, Exclusive(sess'),
             Saved \/ NotSaved \/ SaveFailed, Informed("drain", sess', f),
             Behind("drain", sess', f) => Behind(pc[p], sess, fl)
      PROVE  ModeStep
  <2>1. CASE fl' = f /\ Goto(p, "drain")
    BY <1>n, <2>1, ModesWithin
  <2>2. CASE FlushReturn(p, FALSE)
    BY <1>n, <1>r, <2>2
  <2> QED BY <1>n, <2>1, <2>2 DEF NextRound
<1>13. CASE EndScan(p)
  <2>0. pc[p] = "endscan" /\ msg' = msg
    BY <1>13 DEF EndScan
  <2>1. CASE /\ sess' = [sess EXCEPT !.queue = Push(@, Head(fl.skipped))]
             /\ NotSaved /\ fl' = [fl EXCEPT !.skipped = Tail(@)] /\ pc' = pc
    <3>1. Goto(p, "endscan")
      BY <2>0, <2>1 DEF Goto, IInv, ControlOK
    <3>2. SameModes(fl, fl')
      BY <1>0, <2>1 DEF FlushSet, SameModes
    <3>3. SameModes(sess, sess')
      BY <1>0, <2>1, ModesLeft
    <3> QED BY <1>a, <1>b, <1>s, <2>0, <2>1, <3>1, <3>2, <3>3
  <2>2. CASE UNCHANGED sessVars /\ fl' = fl /\ (Goto(p, "clearsync") \/ Goto(p, "clearfw"))
    BY <1>a, <1>b, <1>e, <1>f, <1>s, <2>0, <2>2
  <2>3. CASE UNCHANGED sessVars /\ NextRound(p, fl)
    <3>1. Informed("drain", sess, fl)
      BY <1>0, <1>a, <1>b, <1>e, <2>0, StaysInformed
    <3>2. Behind("drain", sess, fl) => Behind(pc[p], sess, fl)
      BY <1>a, <2>0 DEF Behind
    <3> QED BY <1>0, <1>a, <1>f, <1>n, <2>0, <2>3, <3>1, <3>2
  <2>4. CASE UNCHANGED sessVars /\ FlushReturn(p, fl.failed)
    BY <1>0, <1>a, <1>f, <1>r, <2>0, <2>4
  <2> QED BY <1>13, <2>1, <2>2, <2>3, <2>4 DEF EndScan
<1>14. CASE ClearSync(p)
  <2>0. /\ pc[p] = "clearsync" /\ msg' = msg
        /\ Exclusive(fl) /\ (sess.syncMode <=> fl.syncMode)
        /\ Strict => (sess.fwMode => fl.fwMode)
    BY <1>0, <1>14, <1>a DEF ClearSync, Informed
  <2>1. CASE sess' = SetSyncMode(sess, FALSE) /\ (Saved \/ SaveFailed)
    <3>1. /\ ~sess'.syncMode /\ sess'.fwMode = sess.fwMode
          /\ Strict => (sess'.fwMode => fl.fwMode)
      BY <1>0, <2>0, <2>1, ModesSet
    <3>2. Exclusive(sess')
      BY <3>1 DEF Exclusive
    <3>3. CASE Saved /\ fl' = [fl EXCEPT !.syncMode = FALSE] /\ Goto(p, "clearfw")
      <4>1. ~fl'.syncMode /\ fl'.fwMode = fl.fwMode
        BY <1>0, <3>3 DEF FlushSet
      <4>2. Informed("clearfw", sess', fl')
        BY <1>b, <3>1, <4>1 DEF Informed, Exclusive
      <4>3. Behind("clearfw", sess', fl') => Behind(pc[p], sess, fl)
        BY <1>a, <2>0, <3>1, <4>1 DEF Behind
      <4> QED BY <1>a, <2>0, <3>2, <3>3, <4>2, <4>3, ModesWithin
    <3>4. CASE SaveFailed /\ FlushReturn(p, TRUE)
      BY <1>a, <1>r, <2>0, <3>2, <3>4
    <3>5. CASE UNCHANGED sessVars /\ fl' = fl /\ Goto(p, "clearfw")
      BY <1>a, <1>b, <1>e, <1>f, <1>s, <2>0, <3>5
    <3> QED BY <1>14, <3>3, <3>4, <3>5 DEF ClearSync
  <2>2. CASE UNCHANGED sessVars /\ fl' = fl /\ Goto(p, "clearfw")
    BY <1>a, <1>b, <1>e, <1>f, <1>s, <2>0, <2>2
  <2> QED BY <1>14, <2>1, <2>2 DEF ClearSync
<1>15. CASE ClearFW(p)
  <2>0. /\ pc[p] = "clearfw" /\ msg' = msg
        /\ Exclusive(fl) /\ (sess.syncMode <=> fl.syncMode)
        /\ Strict => (sess.fwMode => fl.fwMode)
    BY <1>0, <1>15, <1>a DEF ClearFW, Informed
  <2>1. CASE sess' = SetFWMode(sess, FALSE) /\ Saved /\ NextRound(p, [fl EXCEPT !.fwMode = FALSE])
    <3>1. ~sess'.fwMode /\ (sess'.syncMode <=> fl.syncMode)
      BY <1>0, <2>0, <2>1, ModesSet
    <3>2. /\ ~[fl EXCEPT !.fwMode = FALSE].fwMode
          /\ [fl EXCEPT !.fwMode = FALSE].syncMode = fl.syncMode
      BY <1>0 DEF FlushSet
    <3>3. Exclusive(sess') /\ Informed("drain", sess', [fl EXCEPT !.fwMode = FALSE])
      BY <1>b, <3>1, <3>2 DEF Informed, Exclusive
    <3>4. ~Behind("drain", sess', [fl EXCEPT !.fwMode = FALSE])
      <4>1. [fl EXCEPT !.fwMode = FALSE].fwMode = sess'.fwMode
        BY <1>0, <2>1, SMTT(30) DEF FlushSet, SessionSet, SetFWMode
      <4> QED BY <4>1 DEF Behind
    <3> QED BY <1>a, <1>n, <2>0, <2>1, <3>3, <3>4
  <2>2. CASE sess' = SetFWMode(sess, FALSE) /\ SaveFailed /\ FlushReturn(p, TRUE)
    <3>1. Exclusive(sess')
      BY <1>0, <2>2, ModesSet DEF Exclusive
    <3> QED BY <1>a, <1>r, <2>0, <2>2, <3>1
  <2>3. CASE UNCHANGED sessVars /\ NextRound(p, fl)
    <3>1. Informed("drain", sess, fl)
      BY <1>0, <1>a, <1>b, <1>e, <2>0, StaysInformed
    <3>2. Behind("drain", sess, fl) => Behind(pc[p], sess, fl)
      BY <1>a, <2>0 DEF Behind
    <3> QED BY <1>0, <1>a, <1>f, <1>n, <2>0, <2>3, <3>1, <3>2
  <2> QED BY <1>15, <2>1, <2>2, <2>3 DEF ClearFW
<1>16. CASE ReturnError(p)
  BY <1>0, <1>16, <1>a, <1>f, <1>r DEF ReturnError
<1> QED BY <1>1, <1>2, <1>3, <1>4, <1>5, <1>6, <1>7, <1>8, <1>9, <1>10, <1>11, <1>12,
           <1>13, <1>14, <1>15, <1>16 DEF FlushStep

\* A frame is written for command c only if the flush holds c, and may send it
\* in the modes it knows.
LEMMA WritesAllowed ==
  ASSUME IInv, ModeInv, [Next]_vars, NEW c \in Commands, writes'[c] # writes[c]
  PROVE  /\ commandAllowedInModes(c.commandID, fl.fwMode, sess.syncMode)
         /\ Strict => commandAllowedInModes(c.commandID, sess.fwMode, sess.syncMode)
<1>1. writes \in [Commands -> Nat]
  BY DEF IInv, ControlOK
<1>2. PICK p \in Procs : Send(p)
  <2>1. CASE UNCHANGED vars
    BY <2>1 DEF vars, histVars
  <2>2. ASSUME NEW k \in Conns, ConnStep(k) PROVE writes' = writes
    BY <2>2 DEF ConnStep, Connect, Register, AdoptFrameMode, RegistrationAck, Receive,
                ReadFails, Handle, ActStatus1, ActAck, ActOther, GoOffline, CloseConn, histVars
  <2>3. Environment => writes' = writes
    BY DEF Environment, Refuse, Accept, ExpireTTL, AckTimerElapses, DedupWindowEnds, Crash,
           histVars
  <2>4. ASSUME NEW p \in Procs, FlushStep(p), ~Send(p) PROVE writes' = writes
    BY <2>4 DEF FlushStep, ProcessStep, Publish, Context, Count, Drain, PopNothing, Pop,
                Number, InFlight, Modes, AckSent, EndScan, ClearSync, ClearFW, ReturnError,
                histVars
  <2> QED BY <2>1, <2>2, <2>3, <2>4 DEF Next
<1>3. PICK item \in fl.hand : writes' = [writes EXCEPT ![item.cmd] = @ + 1]
  BY <1>2 DEF Send
<1>4. c = item.cmd
  BY <1>1, <1>3
<1>5. pc[p] = "send"
  BY <1>2 DEF Send, At
<1>6. /\ Exclusive(fl) /\ (sess.syncMode <=> fl.syncMode)
      /\ Strict => (sess.fwMode => fl.fwMode)
      /\ Allowed(fl, item)
  BY <1>5 DEF ModeInv, Informed, FlushLabels, Holding
<1> QED BY <1>4, <1>6 DEF Allowed, commandAllowedInModes, Exclusive

\* The modes at the start, and after any step.
LEMMA InitModes == Init => ModeInv
<1> SUFFICES ASSUME Init PROVE ModeInv
  OBVIOUS
<1>1. Exclusive(DetachedSession) /\ Exclusive(SessionSnapshot(DetachedSession))
  BY DEF Exclusive, DetachedSession, SessionSnapshot
<1>2. NoStatus
  BY DEF Init, NoStatus, NoMsg
<1>3. \A p \in Procs : pc[p] \notin FlushLabels
  BY DEF Init, FlushLabels
<1> QED BY <1>1, <1>2, <1>3 DEF Init, ModeInv, Informed

LEMMA NextModes ==
  ASSUME IInv, PhaseInv, ModeInv, [Next]_vars
  PROVE  ModeInv' /\ (KeepsUp \/ \E k \in Conns : pc[k] = "act" /\ pc'[k] # "act")
<1>1. CASE UNCHANGED vars
  BY <1>1 DEF vars, sessVars, procVars, ModeInv, NoStatus, KeepsUp, Outdated
<1> QED BY <1>1, ConnModes, FlushModes, EnvironmentModes DEF Next, ModeStep

\* flushQueue writes no frame that commandAllowedInModes forbids in the sync mode
\* of the session and the firmware mode the flush knows, and only a frame of the
\* controller makes that one old: whatever frames controllers send, whatever
\* fails and whenever the adapter restarts.
THEOREM ModesAlwaysRespected == Spec => ModesRespected
<1>1. IInv /\ PhaseInv /\ ModeInv /\ [Next]_vars => ModeInv'
  BY NextModes
<1>2. IInv /\ PhaseInv /\ ModeInv /\ [Next]_vars =>
        [/\ \A c \in Commands : writes'[c] # writes[c] =>
              commandAllowedInModes(c.commandID, fl.fwMode, sess.syncMode)
         /\ ~Outdated /\ Outdated' =>
              \E k \in Conns : pc[k] = "act" /\ pc'[k] # "act"]_vars
  BY WritesAllowed, NextModes DEF KeepsUp
<1> QED BY <1>1, <1>2, InitModes, InitKeeps, NextKeeps, InitPhase, PhaseKeeps, PTL
        DEF Spec, ModesRespected

\* As long as no controller reports its status, flushQueue writes no frame that
\* commandAllowedInModes forbids in the modes the session is in at that moment,
\* whatever fails and whenever the adapter restarts.
THEOREM NothingForbiddenWritten ==
  ASSUME "status1" \notin Kinds PROVE Spec => ForbiddenBlocked
<1>1. IInv /\ PhaseInv /\ ModeInv /\ [Next]_vars => ModeInv'
  BY NextModes
<1>2. IInv /\ ModeInv /\ [Next]_vars =>
        [\A c \in Commands : writes'[c] # writes[c] =>
           commandAllowedInModes(c.commandID, sess.fwMode, sess.syncMode)]_vars
  BY WritesAllowed DEF Strict
<1> QED BY <1>1, <1>2, InitModes, InitKeeps, NextKeeps, InitPhase, PhaseKeeps, PTL
        DEF Spec, ForbiddenBlocked
=============================================================================
