------------------------------ MODULE Delivery ------------------------------
(***************************************************************************)
(* Delivery of commands to one controller (internal/server/server.go).     *)
(*                                                                         *)
(* The processes are the goroutine of each TCP connection (handleConn),    *)
(* the sweeper goroutine (sweepLoop) and the callers of EnqueueCommand.    *)
(* They share the session; flushQueue runs under the flush lock of the     *)
(* controller, every other step is atomic because of m.mu or q.mu.  pc     *)
(* gives the point a goroutine is at between two such steps.               *)
(*                                                                         *)
(* The controller is the environment: it answers the frames written to it  *)
(* in any order, late, twice or never.                                     *)
(***************************************************************************)
EXTENDS SessionManager

CONSTANTS
  Sweeper,     \* the goroutine of sweepLoop
  NoProc,      \* nobody holds the flush lock
  FrameModes,  \* the frame formats controllers register with
  Buffers,     \* the free buffer sizes a controller reports
  Kinds,       \* the kinds of frames a controller sends
  MaxCrashes   \* bound: restarts of the adapter

VARIABLES
  pc,        \* where each goroutine is
  msg,       \* the frame a connection's goroutine is handling
  out,       \* terminal events a goroutine is about to publish
  lock,      \* holder of the controller's flush lock
  fl,        \* locals of the running flushQueue
  wire,      \* frames written to the controller
  expired,   \* commands whose TTL has elapsed
  fate,      \* what EnqueueCommand did with each command
  terminal,  \* number of terminal events published for each command
  writes,    \* number of frames written for each command
  crashes,   \* number of restarts
  issued,    \* sequence numbers handed out, up to NumSeqs
  overrun,   \* commands overwritten in the in-flight table
  credited   \* commands completed by the answer to another command

procVars == <<pc, msg, out, lock, fl>>
histVars == <<fate, terminal, writes, issued, overrun, credited>>
vars == <<sessVars, procVars, wire, expired, histVars, crashes>>

Procs == Conns \cup {Sweeper}

ASSUME ProcsAssumption ==
  /\ Sweeper \notin Conns \cup {NoConn}
  /\ NoProc \notin Procs

ASSUME EnvironmentAssumption ==
  /\ FrameModes \subseteq {"sequenced", "compact"}
  /\ Buffers \subseteq Nat
  /\ Kinds \subseteq {"status1", "ack", "fwdone", "other"}
  /\ MaxCrashes \in Nat

-----------------------------------------------------------------------------
\* Labels of handleConn, of the part shared with sweepLoop, and of flushQueue.
ConnLabels  == {"new", "register", "setmode", "regack", "read", "handle",
                "act", "exit", "closing", "gone"}
SweepLabels == {"process", "lock"}
FlushLabels == {"count", "drain", "pop", "number", "send", "inflight", "modes",
                "acksent", "endscan", "clearsync", "clearfw", "return"}

NoMsg == [type |-> "none"]

\* The frames of the controller, with what the handler reads of them.  ack11
\* answers any frame written so far: late, more than once, or never.
Messages ==
  [type : {"status1"} \cap Kinds, free : Buffers, ready : BOOLEAN] \cup
  [type : {"ack"} \cap Kinds, frame : wire, terminal : BOOLEAN, free : Buffers] \cup
  [type : {"fwdone", "other"} \cap Kinds]

\* The locals of flushQueue when it is not running.  hand is the command it has
\* popped and not yet registered as in flight, last the one registered since.
IdleFlush ==
  [conn |-> NoConn, fwMode |-> FALSE, syncMode |-> FALSE,
   frameMode |-> "sequenced", remaining |-> 0, left |-> 0, skipped |-> <<>>,
   hand |-> {}, last |-> {}, seq |-> 0, sent |-> FALSE, failed |-> FALSE]

\* Length of the frame EncodeFrame makes: marker, length, ttl, the sequence
\* number unless compact, command id, payload and checksum.
FrameLen(c, mode) == (IF mode = "compact" THEN 10 ELSE 11) + c.payloadLen

\* The sequence number a controller finds in a frame: a compact frame carries
\* none, and decodes with number 0.
WireSeq(seq, mode) == IF mode = "compact" THEN 0 ELSE seq

Goto(p, label) == pc' = [pc EXCEPT ![p] = label]

\* A goroutine publishes what it has to before it does anything else.
At(p, label) == pc[p] = label /\ out[p] = {}

Emit(p, cmds) == out' = [out EXCEPT ![p] = cmds]

\* Where the goroutine goes when its flush is over.
AfterFlush(p, failed) ==
  IF p = Sweeper THEN "process" ELSE IF failed THEN "exit" ELSE "read"

Init ==
  /\ sess = DetachedSession
  /\ disk = SessionSnapshot(DetachedSession)
  /\ failures = 0
  /\ pc = [p \in Procs |-> IF p = Sweeper THEN "process" ELSE "new"]
  /\ msg = [k \in Conns |-> NoMsg]
  /\ out = [p \in Procs |-> {}]
  /\ lock = NoProc
  /\ fl = IdleFlush
  /\ wire = {}
  /\ expired = {}
  /\ fate = [c \in Commands |-> "new"]
  /\ terminal = [c \in Commands |-> 0]
  /\ writes = [c \in Commands |-> 0]
  /\ crashes = 0
  /\ issued = 0
  /\ overrun = {}
  /\ credited = {}

-----------------------------------------------------------------------------
\* EnqueueCommand, called by the HTTP handlers

\* The command is refused: its id is not supported, its key was seen in the
\* last ten minutes, or the queue is full.  A refusal for lack of room comes
\* after the key was recorded and, with drop_oldest, after the whole queue was
\* dropped; neither is saved.
Refuse(c) ==
  /\ fate[c] = "new"
  /\ \/ /\ c.commandID \notin SupportedIDs \/ Duplicate(sess, c)
        /\ fate' = [fate EXCEPT ![c] = "refused"]
        /\ UNCHANGED sess
     \/ LET room == MakeRoom(sess.queue, c)
        IN  /\ c.commandID \in SupportedIDs /\ ~Duplicate(sess, c)
            /\ ~Fits(room, c)
            /\ sess' = [RecordKey(sess, c) EXCEPT !.queue = room]
            /\ fate' = [d \in Commands |->
                          IF d = c THEN "refused"
                          ELSE IF d \in Queued(sess.queue) \ Queued(room)
                          THEN "dropped" ELSE fate[d]]
  /\ NotSaved
  /\ UNCHANGED <<procVars, wire, expired, terminal, writes, issued, overrun,
                 credited, crashes>>

\* The command is queued; it stays queued when the save fails and the caller
\* is given an error.
Accept(c) ==
  LET room == MakeRoom(sess.queue, c)
  IN  /\ fate[c] = "new"
      /\ c.commandID \in SupportedIDs /\ ~Duplicate(sess, c)
      /\ Fits(room, c)
      /\ sess' = [RecordKey(sess, c) EXCEPT !.queue = Push(room, Item(c, 0, 0))]
      /\ fate' = [d \in Commands |->
                    IF d = c THEN "accepted"
                    ELSE IF d \in Queued(sess.queue) \ Queued(room)
                    THEN "dropped" ELSE fate[d]]
      /\ Saved \/ SaveFailed
      /\ UNCHANGED <<procVars, wire, expired, terminal, writes, issued,
                     overrun, credited, crashes>>

-----------------------------------------------------------------------------
\* handleConn: registration

\* The accept loop hands a new connection to its goroutine.
Connect(k) ==
  /\ pc[k] = "new"
  /\ Goto(k, "register")
  /\ UNCHANGED <<sessVars, msg, out, lock, fl, wire, expired, histVars, crashes>>

\* Mutant of Register: a session that is online is taken over.
RegisterTakeover(k, mode) ==
  /\ At(k, "register")
  /\ sess' = Attach(sess, k)
  /\ Saved
  /\ Goto(k, "setmode")
  /\ msg' = [msg EXCEPT ![k] = [type |-> "register", mode |-> mode]]
  /\ UNCHANGED <<out, lock, fl, wire, expired, histVars, crashes>>

\* Create: a session that is online is not taken over.  A failed save leaves
\* the session offline.
Register(k, mode) ==
  /\ At(k, "register")
  /\ \/ /\ sess.conn # NoConn
        /\ Goto(k, "gone")
        /\ UNCHANGED <<sessVars, msg>>
     \/ /\ sess.conn = NoConn
        /\ sess' = Attach(sess, k)
        /\ Saved
        /\ Goto(k, "setmode")
        /\ msg' = [msg EXCEPT ![k] = [type |-> "register", mode |-> mode]]
     \/ /\ sess.conn = NoConn
        /\ sess' = MarkOffline(Attach(sess, k))
        /\ SaveFailed
        /\ Goto(k, "gone")
        /\ UNCHANGED msg
  /\ UNCHANGED <<out, lock, fl, wire, expired, histVars, crashes>>

AdoptFrameMode(k) ==
  /\ At(k, "setmode")
  /\ sess' = SetFrameMode(sess, msg[k].mode)
  /\ NotSaved
  /\ Goto(k, "regack")
  /\ UNCHANGED <<msg, out, lock, fl, wire, expired, histVars, crashes>>

\* Touch saves the session at most once every five seconds and ignores an
\* error of the store.
Touch == UNCHANGED sess /\ (NotSaved \/ Saved \/ SaveFailed)

\* sendRegistrationAck; afterwards the registration frame is handled like any
\* other one.
RegistrationAck(k) ==
  /\ At(k, "regack")
  /\ \/ Touch /\ Goto(k, "process")
     \/ /\ sess' = MarkOffline(sess)
        /\ Saved \/ SaveFailed
        /\ Goto(k, "closing")
  /\ msg' = [msg EXCEPT ![k] = NoMsg]
  /\ UNCHANGED <<out, lock, fl, wire, expired, histVars, crashes>>

-----------------------------------------------------------------------------
\* handleConn: frames of a registered controller

\* ReadFrameWithMode returns a frame, and Touch runs.
Receive(k, m) ==
  /\ At(k, "read")
  /\ Touch
  /\ msg' = [msg EXCEPT ![k] = m]
  /\ Goto(k, "handle")
  /\ UNCHANGED <<out, lock, fl, wire, expired, histVars, crashes>>

\* A read error, a read timeout or a heartbeat timeout ends the connection.
ReadFails(k) ==
  /\ At(k, "read")
  /\ Goto(k, "exit")
  /\ UNCHANGED <<sessVars, msg, out, lock, fl, wire, expired, histVars, crashes>>

\* status1 and ack11 report the free buffer of the controller.
Handle(k) ==
  /\ At(k, "handle")
  /\ sess' = IF msg[k].type \in {"status1", "ack"}
             THEN UpdateBufferFree(sess, msg[k].free) ELSE sess
  /\ NotSaved
  /\ Goto(k, "act")
  /\ UNCHANGED <<msg, out, lock, fl, wire, expired, histVars, crashes>>

\* status1 is answered, and the flag in it starts the firmware mode.
ActStatus1(k) ==
  /\ At(k, "act")
  /\ msg[k].type = "status1"
  /\ \/ Goto(k, "exit") /\ UNCHANGED sessVars
     \/ ~msg[k].ready /\ Goto(k, "process") /\ UNCHANGED sessVars
     \/ /\ msg[k].ready
        /\ sess' = SetFWMode(sess, TRUE)
        /\ \/ Saved /\ Goto(k, "process")
           \/ SaveFailed /\ Goto(k, "exit")
  /\ msg' = [msg EXCEPT ![k] = NoMsg]
  /\ UNCHANGED <<out, lock, fl, wire, expired, histVars, crashes>>

\* A terminal ack11 completes the command in flight under its number, if there
\* is one.  AckInFlight puts the entry back when the save fails, so the store
\* may know of the answer when the memory does not.
ActAck(k) ==
  LET hit == {e \in sess.inFlight : e.seq = msg[k].frame.seq}
  IN  /\ At(k, "act")
      /\ msg[k].type = "ack"
      /\ \/ /\ msg[k].terminal /\ hit # {}
            /\ sess' = AckInFlight(sess, msg[k].frame.seq)
            /\ Saved
            /\ Emit(k, {e.cmd : e \in hit})
            /\ credited' = credited \cup ({e.cmd : e \in hit} \ {msg[k].frame.cmd})
         \/ /\ msg[k].terminal /\ hit # {}
            /\ SaveFailedOf(AckInFlight(sess, msg[k].frame.seq))
            /\ UNCHANGED <<sess, out, credited>>
         \/ /\ ~msg[k].terminal \/ hit = {}
            /\ UNCHANGED <<sessVars, out, credited>>
      /\ Goto(k, "process")
      /\ msg' = [msg EXCEPT ![k] = NoMsg]
      /\ UNCHANGED <<lock, fl, wire, expired, fate, terminal, writes, issued,
                     overrun, crashes>>

\* fw status 4 with a final code ends the firmware mode; other frames change
\* nothing.
ActOther(k) ==
  /\ At(k, "act")
  /\ \/ msg[k].type = "other" /\ Goto(k, "process") /\ UNCHANGED sessVars
     \/ /\ msg[k].type = "fwdone"
        /\ sess' = SetFWMode(sess, FALSE)
        /\ \/ Saved /\ Goto(k, "process")
           \/ SaveFailed /\ Goto(k, "exit")
  /\ msg' = [msg EXCEPT ![k] = NoMsg]
  /\ UNCHANGED <<out, lock, fl, wire, expired, histVars, crashes>>

\* The deferred function: the session goes offline first, the connection is
\* closed afterwards.
GoOffline(k) ==
  /\ At(k, "exit")
  /\ sess' = MarkOffline(sess)
  /\ Saved \/ SaveFailed
  /\ Goto(k, "closing")
  /\ UNCHANGED <<msg, out, lock, fl, wire, expired, histVars, crashes>>

CloseConn(k) ==
  /\ At(k, "closing")
  /\ Goto(k, "gone")
  /\ UNCHANGED <<sessVars, msg, out, lock, fl, wire, expired, histVars, crashes>>

-----------------------------------------------------------------------------
\* Steps shared by handleConn and sweepLoop

\* processInFlight.  When the save fails its outcomes are not published.
ProcessStep(p) ==
  /\ At(p, "process")
  /\ \E order \in RetryOrders(sess, expired) :
       sess' = ProcessInFlight(sess, expired, order)
  /\ \/ /\ Saved
        /\ Emit(p, {e.cmd : e \in TimedOutExpired(sess, expired) \cup
                                   TimedOutFailed(sess, expired)})
     \/ SaveFailed /\ UNCHANGED out
  /\ Goto(p, "lock")
  /\ UNCHANGED <<msg, lock, fl, wire, expired, histVars, crashes>>

\* publishAckWithCommand for one command.
Publish(p, c) ==
  /\ c \in out[p]
  /\ out' = [out EXCEPT ![p] = @ \ {c}]
  /\ terminal' = [terminal EXCEPT ![c] = @ + 1]
  /\ UNCHANGED <<sessVars, pc, msg, lock, fl, wire, expired, fate, writes,
                 issued, overrun, credited, crashes>>

-----------------------------------------------------------------------------
\* flushQueue

FlushReturn(p, failed) ==
  /\ lock' = NoProc
  /\ fl' = IdleFlush
  /\ Goto(p, AfterFlush(p, failed))

\* withFlushLock, then DeliveryContext: the connection, the modes and the
\* buffer are read once; the rest of the flush works with these copies.
Context(p) ==
  /\ At(p, "lock")
  /\ lock = NoProc
  /\ \/ sess.conn = NoConn /\ FlushReturn(p, FALSE)
     \/ /\ sess.conn # NoConn
        /\ lock' = p
        /\ fl' = [fl EXCEPT !.conn = sess.conn, !.fwMode = sess.fwMode,
                            !.syncMode = sess.syncMode,
                            !.frameMode = sess.frameMode,
                            !.remaining = EffectiveBuffer(sess.bufferFree)]
        /\ Goto(p, "count")
  /\ UNCHANGED <<sessVars, msg, out, wire, expired, histVars, crashes>>

\* Nothing is sent while a command is in flight.
Count(p) ==
  /\ At(p, "count")
  /\ \/ sess.inFlight # {} /\ FlushReturn(p, FALSE)
     \/ sess.inFlight = {} /\ Goto(p, "drain") /\ UNCHANGED <<lock, fl>>
  /\ UNCHANGED <<sessVars, msg, out, wire, expired, histVars, crashes>>

\* A round begins: expired commands leave the queue (a terminal event each),
\* and as many commands as are left will be looked at.
Drain(p) ==
  /\ At(p, "drain")
  /\ sess' = [sess EXCEPT !.queue = DrainExpired(@, expired)]
  /\ NotSaved
  /\ Emit(p, Queued(sess.queue) \cap expired)
  /\ fl' = [fl EXCEPT !.left = QueueLen(sess'.queue), !.sent = FALSE]
  /\ Goto(p, "pop")
  /\ UNCHANGED <<msg, lock, wire, expired, histVars, crashes>>

\* PopNext has nothing to give, or everything was looked at once.
PopNothing(p) ==
  /\ At(p, "pop")
  /\ fl.left = 0 \/ NextBuffer(sess.queue, fl.fwMode, fl.syncMode) = {}
  /\ fl' = [fl EXCEPT !.left = 0]
  /\ Goto(p, "endscan")
  /\ UNCHANGED <<sessVars, msg, out, lock, wire, expired, histVars, crashes>>

\* Mutant of Pop: an invalid command is dropped without an event.
PopSilent(p) ==
  /\ At(p, "pop")
  /\ fl.left > 0
  /\ \E b \in NextBuffer(sess.queue, fl.fwMode, fl.syncMode) :
       LET item == Head(sess.queue[b])
       IN  /\ sess' = [sess EXCEPT !.queue = PopFrom(@, b)]
           /\ IF item.cmd.valid
              THEN /\ fl' = [fl EXCEPT !.left = @ - 1, !.hand = {item}]
                   /\ Goto(p, "number")
              ELSE fl' = [fl EXCEPT !.left = @ - 1] /\ UNCHANGED pc
  /\ NotSaved
  /\ UNCHANGED <<out, msg, lock, wire, expired, histVars, crashes>>

\* The next command is expired or invalid (a terminal event), is not allowed
\* in the current mode (it is set aside), or is to be sent.
Pop(p) ==
  /\ At(p, "pop")
  /\ fl.left > 0
  /\ \E b \in NextBuffer(sess.queue, fl.fwMode, fl.syncMode) :
       LET item    == Head(sess.queue[b])
           c       == item.cmd
           allowed == commandAllowedInModes(c.commandID, fl.fwMode, fl.syncMode)
       IN  /\ sess' = [sess EXCEPT !.queue = PopFrom(@, b)]
           /\ \/ /\ c \in expired \/ (allowed /\ ~c.valid)
                 /\ Emit(p, {c})
                 /\ fl' = [fl EXCEPT !.left = @ - 1]
                 /\ UNCHANGED pc
              \/ /\ c \notin expired /\ ~allowed
                 /\ fl' = [fl EXCEPT !.left = @ - 1,
                                     !.skipped = Append(@, item)]
                 /\ UNCHANGED <<pc, out>>
              \/ /\ c \notin expired /\ allowed /\ c.valid
                 /\ fl' = [fl EXCEPT !.left = @ - 1, !.hand = {item}]
                 /\ Goto(p, "number")
                 /\ UNCHANGED out
  /\ NotSaved
  /\ UNCHANGED <<msg, lock, wire, expired, histVars, crashes>>

\* A retry keeps its number unless that is 0; NextCommandSeq ignores an error
\* of the store.
Number(p) ==
  /\ At(p, "number")
  /\ \E item \in fl.hand :
       \/ /\ item.retrySeq # 0
          /\ fl' = [fl EXCEPT !.seq = item.retrySeq,
                              !.hand = {[item EXCEPT !.retrySeq = 0]}]
          /\ UNCHANGED <<sessVars, issued>>
       \/ /\ item.retrySeq = 0
          /\ sess' = NextCommandSeq(sess)
          /\ Saved \/ SaveFailed
          /\ fl' = [fl EXCEPT !.seq = sess'.nextSeq]
          /\ issued' = IF issued < NumSeqs THEN issued + 1 ELSE issued
  /\ Goto(p, "send")
  /\ UNCHANGED <<msg, out, lock, wire, expired, fate, terminal, writes,
                 overrun, credited, crashes>>

\* The data part of a frame must fit in 16 bits.
Encodable(c, mode) == FrameLen(c, mode) - 8 <= 65535

\* Mutant of Send: a command that does not fit is not put back.
SendDropping(p) ==
  /\ At(p, "send")
  /\ \E item \in fl.hand :
       \/ /\ FrameLen(item.cmd, fl.frameMode) > fl.remaining
          /\ fl' = [fl EXCEPT !.hand = {}, !.left = 0]
          /\ Goto(p, "endscan")
          /\ UNCHANGED <<wire, writes>>
       \/ /\ FrameLen(item.cmd, fl.frameMode) <= fl.remaining
          /\ wire' = wire \cup {[seq |-> fl.seq, cmd |-> item.cmd]}
          /\ writes' = [writes EXCEPT ![item.cmd] = @ + 1]
          /\ Goto(p, "inflight")
          /\ UNCHANGED fl
  /\ UNCHANGED <<out, sessVars, msg, lock, expired, fate, terminal, issued, overrun,
                 credited, crashes>>

\* The frame is too large for the protocol (a terminal event), does not fit in
\* what is left of the controller's buffer (the command goes back to the tail
\* of its buffer, and those set aside after it), is written, or the write fails
\* (a terminal event).
Send(p) ==
  /\ At(p, "send")
  /\ \E item \in fl.hand :
       LET c   == item.cmd
           len == FrameLen(c, fl.frameMode)
       IN  \/ /\ ~Encodable(c, fl.frameMode)
              /\ Emit(p, {c})
              /\ fl' = [fl EXCEPT !.hand = {}]
              /\ Goto(p, "pop")
              /\ UNCHANGED <<wire, writes>>
           \/ /\ Encodable(c, fl.frameMode) /\ len > fl.remaining
              /\ fl' = [fl EXCEPT !.hand = {}, !.left = 0,
                                  !.skipped = <<item>> \o @]
              /\ Goto(p, "endscan")
              /\ UNCHANGED <<out, wire, writes>>
           \/ /\ Encodable(c, fl.frameMode) /\ len <= fl.remaining
              /\ pc[fl.conn] # "gone"
              /\ wire' = wire \cup {[seq |-> WireSeq(fl.seq, fl.frameMode), cmd |-> c]}
              /\ writes' = [writes EXCEPT ![c] = @ + 1]
              /\ Goto(p, "inflight")
              /\ UNCHANGED <<out, fl>>
           \/ /\ Encodable(c, fl.frameMode) /\ len <= fl.remaining
              /\ Emit(p, {c})
              /\ fl' = [fl EXCEPT !.hand = {}, !.left = 0, !.failed = TRUE]
              /\ Goto(p, "endscan")
              /\ UNCHANGED <<wire, writes>>
  /\ UNCHANGED <<sessVars, msg, lock, expired, fate, terminal, issued, overrun,
                 credited, crashes>>

ModeCommands == SyncIDs \cup {19}

\* RegisterInFlight runs after the write.  When its save fails the command is
\* reported as failed and yet stays in flight.
InFlight(p) ==
  /\ At(p, "inflight")
  /\ \E item \in fl.hand :
       /\ sess' = RegisterInFlight(sess, fl.seq, item)
       /\ overrun' = overrun \cup {e.cmd : e \in {e \in sess.inFlight : e.seq = fl.seq}}
       /\ \/ /\ Saved
             /\ Goto(p, IF item.cmd.commandID \in ModeCommands
                        THEN "modes" ELSE "acksent")
             /\ fl' = [fl EXCEPT !.hand = {}, !.last = {item}]
             /\ UNCHANGED out
          \/ /\ SaveFailed
             /\ Emit(p, {item.cmd})
             /\ fl' = [fl EXCEPT !.hand = {}, !.left = 0, !.failed = TRUE]
             /\ Goto(p, "endscan")
  /\ UNCHANGED <<msg, lock, wire, expired, fate, terminal, writes, issued,
                 credited, crashes>>

\* Mutant of Modes: the flush goes on with the modes it read at its start.
ModesStale(p) ==
  /\ At(p, "modes")
  /\ \E item \in fl.last :
       sess' = IF item.cmd.commandID \in SyncIDs THEN SetSyncMode(sess, TRUE)
                                                 ELSE SetFWMode(sess, TRUE)
  /\ Saved
  /\ Goto(p, "acksent")
  /\ UNCHANGED <<out, fl, msg, lock, wire, expired, histVars, crashes>>

\* A synchronisation command starts the sync mode, command 19 the firmware
\* mode.  When the save fails the commands set aside are not put back.
Modes(p) ==
  /\ At(p, "modes")
  /\ \E item \in fl.last :
       LET isSync == item.cmd.commandID \in SyncIDs
       IN  /\ sess' = IF isSync THEN SetSyncMode(sess, TRUE)
                                ELSE SetFWMode(sess, TRUE)
           /\ \/ /\ Saved
                 /\ fl' = IF isSync THEN [fl EXCEPT !.syncMode = TRUE]
                                    ELSE [fl EXCEPT !.fwMode = TRUE]
                 /\ Goto(p, "acksent")
                 /\ UNCHANGED out
              \/ /\ SaveFailed
                 /\ Emit(p, {item.cmd})
                 /\ fl' = IdleFlush
                 /\ Goto(p, "return")
  /\ UNCHANGED <<msg, lock, wire, expired, histVars, crashes>>

\* The accepted event and AckSent.  When the save fails the command, which is
\* in flight, is reported as failed and those set aside are not put back.
AckSent(p) ==
  /\ At(p, "acksent")
  /\ UNCHANGED sess
  /\ \E item \in fl.last :
       \/ /\ Saved
          /\ fl' = [fl EXCEPT !.last = {}, !.left = 0, !.sent = TRUE,
                              !.remaining = @ - FrameLen(item.cmd, fl.frameMode)]
          /\ Goto(p, "endscan")
          /\ UNCHANGED out
       \/ /\ SaveFailed
          /\ Emit(p, {item.cmd})
          /\ fl' = IdleFlush
          /\ Goto(p, "return")
  /\ UNCHANGED <<msg, lock, wire, expired, histVars, crashes>>

\* The next round, unless the controller's buffer is used up.
NextRound(p, f) ==
  \/ /\ f.remaining > 0
     /\ fl' = f
     /\ Goto(p, "drain")
     /\ UNCHANGED lock
  \/ f.remaining <= 0 /\ FlushReturn(p, FALSE)

\* The commands set aside go back to the tails of their buffers one by one;
\* then the flush goes on if it sent a command, and returns if not.
EndScan(p) ==
  /\ At(p, "endscan")
  /\ \/ /\ fl.skipped # <<>>
        /\ sess' = [sess EXCEPT !.queue = Push(@, Head(fl.skipped))]
        /\ NotSaved
        /\ fl' = [fl EXCEPT !.skipped = Tail(@)]
        /\ UNCHANGED <<pc, lock>>
     \/ /\ fl.skipped = <<>> /\ fl.sent
        /\ \/ /\ fl.syncMode \/ fl.fwMode
              /\ Goto(p, IF fl.syncMode THEN "clearsync" ELSE "clearfw")
              /\ UNCHANGED <<lock, fl>>
           \/ ~fl.syncMode /\ ~fl.fwMode /\ NextRound(p, fl)
        /\ UNCHANGED sessVars
     \/ /\ fl.skipped = <<>> /\ ~fl.sent
        /\ FlushReturn(p, fl.failed)
        /\ UNCHANGED sessVars
  /\ UNCHANGED <<msg, out, wire, expired, histVars, crashes>>

\* A mode ends when the flush finds its buffer empty after a send.
ClearSync(p) ==
  /\ At(p, "clearsync")
  /\ \/ /\ ~HasSync(sess.queue)
        /\ sess' = SetSyncMode(sess, FALSE)
        /\ \/ /\ Saved
              /\ fl' = [fl EXCEPT !.syncMode = FALSE]
              /\ Goto(p, "clearfw")
              /\ UNCHANGED lock
           \/ SaveFailed /\ FlushReturn(p, TRUE)
     \/ /\ HasSync(sess.queue)
        /\ Goto(p, "clearfw")
        /\ UNCHANGED <<sessVars, lock, fl>>
  /\ UNCHANGED <<msg, out, wire, expired, histVars, crashes>>

ClearFW(p) ==
  /\ At(p, "clearfw")
  /\ \/ /\ fl.fwMode /\ ~HasFW(sess.queue)
        /\ sess' = SetFWMode(sess, FALSE)
        /\ \/ Saved /\ NextRound(p, [fl EXCEPT !.fwMode = FALSE])
           \/ SaveFailed /\ FlushReturn(p, TRUE)
     \/ /\ ~fl.fwMode \/ HasFW(sess.queue)
        /\ NextRound(p, fl)
        /\ UNCHANGED sessVars
  /\ UNCHANGED <<msg, out, wire, expired, histVars, crashes>>

ReturnError(p) ==
  /\ At(p, "return")
  /\ FlushReturn(p, TRUE)
  /\ UNCHANGED <<sessVars, msg, out, wire, expired, histVars, crashes>>

-----------------------------------------------------------------------------
\* Time and restarts

ExpireTTL(c) ==
  /\ c.ttl /\ fate[c] = "accepted" /\ c \notin expired
  /\ expired' = expired \cup {c}
  /\ UNCHANGED <<sessVars, procVars, wire, histVars, crashes>>

AckTimerElapses(e) ==
  /\ e \in sess.inFlight /\ e.timer < 2
  /\ sess' = [sess EXCEPT !.inFlight = (@ \ {e}) \cup
                                       {[e EXCEPT !.timer = @ + 1]}]
  /\ NotSaved
  /\ UNCHANGED <<procVars, wire, expired, histVars, crashes>>

DedupWindowEnds(key) ==
  /\ key \in sess.dedup
  /\ sess' = [sess EXCEPT !.dedup = @ \ {key}]
  /\ NotSaved
  /\ UNCHANGED <<procVars, wire, expired, histVars, crashes>>

\* The process dies and starts again: Restore loads what was saved, and the
\* controllers connect anew.
Crash ==
  /\ crashes < MaxCrashes
  /\ crashes' = crashes + 1
  /\ sess' = RestoredSession(disk)
  /\ pc' = [p \in Procs |-> IF p = Sweeper THEN "process" ELSE "new"]
  /\ msg' = [k \in Conns |-> NoMsg]
  /\ out' = [p \in Procs |-> {}]
  /\ lock' = NoProc
  /\ fl' = IdleFlush
  /\ UNCHANGED <<disk, failures, wire, expired, histVars>>

-----------------------------------------------------------------------------
ConnStep(k) ==
  \/ Connect(k)
  \/ \E mode \in FrameModes : Register(k, mode)
  \/ AdoptFrameMode(k)
  \/ RegistrationAck(k)
  \/ \E m \in Messages : Receive(k, m)
  \/ ReadFails(k)
  \/ Handle(k)
  \/ ActStatus1(k)
  \/ ActAck(k)
  \/ ActOther(k)
  \/ GoOffline(k)
  \/ CloseConn(k)

FlushStep(p) ==
  \/ ProcessStep(p)
  \/ \E c \in Commands : Publish(p, c)
  \/ Context(p)
  \/ Count(p)
  \/ Drain(p)
  \/ PopNothing(p)
  \/ Pop(p)
  \/ Number(p)
  \/ Send(p)
  \/ InFlight(p)
  \/ Modes(p)
  \/ AckSent(p)
  \/ EndScan(p)
  \/ ClearSync(p)
  \/ ClearFW(p)
  \/ ReturnError(p)

Environment ==
  \/ \E c \in Commands : Refuse(c) \/ Accept(c) \/ ExpireTTL(c)
  \/ \E e \in sess.inFlight : AckTimerElapses(e)
  \/ \E key \in sess.dedup : DedupWindowEnds(key)
  \/ Crash

Next ==
  \/ \E k \in Conns : ConnStep(k)
  \/ \E p \in Procs : FlushStep(p)
  \/ Environment

Spec == Init /\ [][Next]_vars

\* Goroutines that can run do run, a read returns within its deadline, a mutex
\* that is released again and again is obtained in the end (sync.Mutex does not
\* starve a waiter), and the clock goes on.
Fairness ==
  /\ \A k \in Conns : WF_vars(pc[k] \notin {"new", "register"} /\ ConnStep(k))
  /\ \A p \in Procs : WF_vars(FlushStep(p)) /\ SF_vars(Context(p))
  /\ WF_vars(\E e \in sess.inFlight : AckTimerElapses(e))

FairSpec == Spec /\ Fairness

-----------------------------------------------------------------------------
\* Properties

\* Where a command can be while the adapter still owes it an outcome.
InFlightCmds == {e.cmd : e \in sess.inFlight}
SkippedCmds  == Cmds(fl.skipped)
HandCmds     == {item.cmd : item \in fl.hand}
Live         == Queued(sess.queue) \cup SkippedCmds \cup HandCmds \cup InFlightCmds
Announced    == UNION {out[p] : p \in Procs}
Settled      == {c \in Commands : terminal[c] > 0}

Frames == [seq : Seqs, cmd : Commands]

MessageSet ==
  {NoMsg} \cup [type : {"register"}, mode : {"sequenced", "compact"}] \cup
  [type : {"status1"}, free : Nat, ready : BOOLEAN] \cup
  [type : {"ack"}, frame : Frames, terminal : BOOLEAN, free : Nat] \cup
  [type : {"fwdone", "other"}]

FlushSet ==
  [conn : Conns \cup {NoConn}, fwMode : BOOLEAN, syncMode : BOOLEAN,
   frameMode : {"sequenced", "compact"}, remaining : Int, left : Nat,
   skipped : Seq(ItemSet), hand : SUBSET ItemSet, last : SUBSET ItemSet,
   seq : Seqs, sent : BOOLEAN, failed : BOOLEAN]

\* The values the variables can take.
TypeOK ==
  /\ sess \in SessionSet
  /\ disk \in SnapshotSet
  /\ failures \in 0..MaxFailures
  /\ pc \in [Procs -> ConnLabels \cup SweepLabels \cup FlushLabels]
  /\ msg \in [Conns -> MessageSet]
  /\ out \in [Procs -> SUBSET Commands]
  /\ lock \in Procs \cup {NoProc}
  /\ fl \in FlushSet
  /\ wire \subseteq Frames
  /\ expired \subseteq Commands
  /\ fate \in [Commands -> {"new", "accepted", "refused", "dropped"}]
  /\ terminal \in [Commands -> Nat]
  /\ writes \in [Commands -> Nat]
  /\ crashes \in 0..MaxCrashes
  /\ issued \in 0..NumSeqs
  /\ overrun \subseteq Commands
  /\ credited \subseteq Commands

\* No command is ever in two places: not twice in the queue, not queued while
\* it is in flight, set aside or in the flusher's hands, and not in flight
\* under two numbers; whatever fails and whenever the adapter restarts.  The
\* code moves commands between the queue, the locals of flushQueue and the
\* in-flight table in separate critical sections.
NoTwin ==
  /\ \A b \in Priorities : Distinct(sess.queue[b])
  /\ \A a, b \in Priorities : a # b => Cmds(sess.queue[a]) \cap Cmds(sess.queue[b]) = {}
  /\ Distinct(fl.skipped)
  /\ \A e, f \in sess.inFlight : e.cmd = f.cmd \/ e.seq = f.seq => e = f
  /\ Queued(sess.queue) \cap (SkippedCmds \cup HandCmds \cup InFlightCmds) = {}
  /\ SkippedCmds \cap (HandCmds \cup InFlightCmds) = {}
  /\ HandCmds \cap InFlightCmds = {}

\* As long as no save failed and the adapter was not restarted, a command that
\* was accepted and not dropped is still owed an outcome, about to be given
\* one, or settled; the one way to lose it is the reuse of its sequence number
\* in the in-flight table.
NothingLost ==
  failures = 0 /\ crashes = 0 =>
    \A c \in Commands : fate[c] = "accepted" =>
       c \in Live \cup Announced \cup Settled \cup overrun

\* As long as no save failed and the adapter was not restarted, a command gets
\* at most one terminal event, and once it has one the adapter does not hold
\* it any more.
SettledOnce ==
  failures = 0 /\ crashes = 0 =>
    \A c \in Settled : terminal[c] = 1 /\ c \notin Live \cup Announced

\* As long as no save failed and the 8-bit sequence counter has not wrapped,
\* RegisterInFlight never overwrites another command's entry, restarts
\* included.
NoOverrun ==
  failures = 0 /\ issued < NumSeqs => overrun = {}

\* Under the same conditions a terminal ack11 completes the command whose frame
\* the controller answered, however late the answer comes.
AckCorrelation ==
  failures = 0 /\ issued < NumSeqs => credited = {}

\* As long as no save failed and the adapter was not restarted, a command is
\* written to the controller at most MaxRetries + 1 times.
TransmissionBound ==
  failures = 0 /\ crashes = 0 =>
    \A c \in Commands : writes[c] <= MaxRetries(c) + 1

\* What a restart would load as in flight, and the next sequence number, are
\* what the adapter has in memory, as long as no save failed.
InFlightDurable ==
  failures = 0 =>
    /\ disk.nextSeq = sess.nextSeq
    /\ disk.inFlight = {SavedEntry(e) : e \in sess.inFlight}

\* As long as no save failed, a restart would not lose a command that waits in
\* the queue: the last snapshot has it, as pending or as in flight.
PendingDurable ==
  failures = 0 =>
    Queued(sess.queue) \subseteq
      Cmds(disk.pending) \cup {e.cmd : e \in disk.inFlight}

\* handleConn and MarkOffline agree on who owns the session: it is attached to
\* a connection exactly while the goroutine of that connection is between a
\* successful Create and its MarkOffline.  MarkOffline is given the id of the
\* controller and not the connection, so a second registered goroutine would
\* take the session away from the first.
SessionOwner ==
  \A k \in Conns :
    sess.conn = k <=> pc[k] \notin {"new", "register", "closing", "gone"}

\* The queue is within the limits that Enqueue compares it with.
QueueBounded ==
  /\ MaxQueueDepth > 0 => QueueLen(sess.queue) <= MaxQueueDepth
  /\ MaxQueueBytes > 0 => TotalEstimatedBytes(sess.queue) <= MaxQueueBytes

\* The commands that enter the queue from outside in a step, and those it drops.
Entering == Queued(sess.queue)' \ Live
Dropped  == {c \in Commands : fate[c] # "dropped" /\ fate'[c] = "dropped"}

\* Retries and commands that flushQueue puts back enter the queue however full
\* it is.  Until a restart a command from outside enters it only if the queue is
\* then within its limits, however far beyond them it was; commands are dropped
\* only for one that enters, or else all of them are; and none that is dropped
\* is newer than one that stays.
OverflowSound ==
  [][crashes' = crashes =>
       /\ Entering # {} => QueueBounded'
       /\ Dropped # {} => Entering # {} \/ Queued(sess.queue)' = {}
       /\ \A d \in Dropped : \A c \in Queued(sess.queue)' \ Entering :
            d.createdAt <= c.createdAt]_vars

\* The comment at the head of flushQueue: at most one outstanding command per
\* controller.
AtMostOneInFlight == Cardinality(sess.inFlight) <= 1

\* flushQueue writes no frame that commandAllowedInModes forbids in the modes
\* the session is in at that moment.
ForbiddenBlocked ==
  [][\A c \in Commands : writes'[c] # writes[c] =>
       commandAllowedInModes(c.commandID, sess.fwMode, sess.syncMode)]_vars

\* A flush goes on with another firmware mode than the session is in.
Outdated ==
  /\ \E p \in Procs : pc[p] \in FlushLabels \ {"return"}
  /\ fl.fwMode # sess.fwMode

\* flushQueue writes no frame that commandAllowedInModes forbids in the sync mode
\* of the session and the firmware mode that the flush knows.  That one is wrong
\* only because a frame of the controller changed it since: the modes that
\* flushQueue starts and ends itself, failing saves, timeouts, new commands and
\* the end of the connection never leave a flush with an old one.
ModesRespected ==
  [][/\ \A c \in Commands : writes'[c] # writes[c] =>
          commandAllowedInModes(c.commandID, fl.fwMode, sess.syncMode)
     /\ ~Outdated /\ Outdated' =>
          \E k \in Conns : pc[k] = "act" /\ pc'[k] # "act"]_vars

\* The step in which a goroutine handles a terminal ack11 of command c.
HandlesTerminalAck(k, c) ==
  /\ pc[k] = "act" /\ pc'[k] = "process"
  /\ msg[k].type = "ack" /\ msg[k].terminal /\ msg[k].frame.cmd = c

\* As long as no save failed and the sequence counter has not wrapped, a
\* terminal ack11 of a command in flight takes it out of the in-flight table.
AckFindsCommand ==
  [][failures' = 0 /\ issued < NumSeqs =>
       \A k \in Conns : \A c \in InFlightCmds :
         HandlesTerminalAck(k, c) => c \notin InFlightCmds']_vars

\* After a terminal ack11 was handled the command it answers is neither in
\* flight nor about to be registered as in flight.
TerminalAckCompletes ==
  [][\A k \in Conns : \A c \in Commands :
       HandlesTerminalAck(k, c) => c \notin InFlightCmds' \cup HandCmds']_vars

\* A command accepted for a controller that stays connected is given its
\* outcome in the end: flushQueue, the acknowledgement timeout, the retries and
\* the expiry together never leave it waiting for ever.
EventuallySettled ==
  \A c \in Commands :
    fate[c] = "accepted" ~> c \in Settled \cup overrun \/ sess.conn = NoConn
=============================================================================
