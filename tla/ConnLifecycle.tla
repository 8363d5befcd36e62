--------------------------- MODULE ConnLifecycle ---------------------------
(***************************************************************************)
(* The life of the TCP connections of internal/server/server.go: the       *)
(* accept loop of Run with its limits, one handleConn goroutine per        *)
(* connection from registration to its deferred cleanup, and the shutdown. *)
(*                                                                         *)
(* What a registered connection does with its messages is in Delivery;     *)
(* here a message only refreshes the heartbeat or ends the connection.     *)
(* Time is a set of deadlines that pass at any moment.                     *)
(***************************************************************************)
EXTENDS Integers, FiniteSets

CONSTANTS
  Conns,              \* the connections that clients open
  NoConn,
  Hosts, HostOf,      \* connRemoteHost
  Ids, NoId,          \* controllers
  MaxConnections,     \* cfg.MaxConnections, also maxConns of the manager
  MaxPerHost,         \* cfg.MaxConnectionsPerIP, 0 for no limit
  ViolationLimit      \* cfg.IPViolationLimit, 0 for no limit

VARIABLES
  loop,       \* the accept loop: its point and the connection it holds
  pc,         \* where handleConn of each connection is
  sid,        \* the controller whose session the connection was given
  registered, \* connections whose local variable registered is true
  window,     \* connections whose registration window is over
  beat,       \* connections whose last heartbeat is too old
  closed,     \* connections closed by closeAllConns
  active, tracked, ipConnCount, connWG,   \* fields of Server
  violations, blocked,                    \* ipSec, per host
  admitted,   \* handlers started for a host since it was blocked
  known,      \* controllers that have a session
  online,     \* Session.Conn, per controller
  cancelled,  \* the context is done
  listening,  \* the listener is open
  timedOut    \* the drain timed out

counts == <<active, tracked, ipConnCount, connWG>>
security == <<violations, blocked, admitted>>
manager == <<known, online>>
stopping == <<cancelled, listening, timedOut>>
clocks == <<window, beat>>
vars == <<loop, pc, sid, registered, clocks, closed, counts, security,
          manager, stopping>>

ASSUME ConnAssumption ==
  /\ IsFiniteSet(Conns) /\ NoConn \notin Conns /\ NoId \notin Ids
  /\ HostOf \in [Conns -> Hosts]
  /\ MaxConnections \in Nat /\ MaxPerHost \in Nat /\ ViolationLimit \in Nat

At(c, label) == pc[c] = label
Goto(c, label) == pc' = [pc EXCEPT ![c] = label]
Online == {id \in Ids : online[id] # NoConn}

\* Sessions restored from the store are offline.
Init ==
  /\ loop = [at |-> "accept", conn |-> NoConn]
  /\ pc = [c \in Conns |-> "away"]
  /\ sid = [c \in Conns |-> NoId]
  /\ registered = {} /\ window = {} /\ beat = {} /\ closed = {}
  /\ active = 0 /\ tracked = {} /\ connWG = 0
  /\ ipConnCount = [h \in Hosts |-> 0]
  /\ violations = [h \in Hosts |-> 0]
  /\ blocked = [h \in Hosts |-> "no"]
  /\ admitted = [h \in Hosts |-> 0]
  /\ known \in SUBSET Ids
  /\ online = [id \in Ids |-> NoConn]
  /\ cancelled = FALSE /\ listening = TRUE /\ timedOut = FALSE

-----------------------------------------------------------------------------
\* The accept loop

LoopAt(label) == loop.at = label
LoopTo(label, c) == loop' = [at |-> label, conn |-> c]

\* Mutant of Full: one connection too many.
FullOneMore == active > MaxConnections

\* The first check of the accept loop.
Full == active >= MaxConnections

\* Accept returns a connection and the number of active ones is compared.
Accept(c) ==
  /\ LoopAt("accept") /\ listening /\ At(c, "away")
  /\ \/ Full /\ Goto(c, "gone") /\ UNCHANGED loop
     \/ ~Full /\ Goto(c, "accepted") /\ LoopTo("ip", c)
  /\ UNCHANGED <<sid, registered, clocks, closed, counts, security,
                 manager, stopping>>

\* The connection is closed and the loop goes on.
Refuse(c) == Goto(c, "gone") /\ LoopTo("accept", NoConn)

\* Mutant of CheckIP: the check does not refuse.
CheckIPLenient(c) ==
  /\ LoopAt("ip") /\ loop.conn = c
  /\ LoopTo("track", c)
  /\ UNCHANGED <<pc, sid, registered, clocks, closed, counts, security,
                 manager, stopping>>

\* isIPBlocked, which forgets a block that is over and the violations with it.
CheckIP(c) ==
  LET h == HostOf[c]
  IN  /\ LoopAt("ip") /\ loop.conn = c
      /\ \/ blocked[h] = "on" /\ Refuse(c) /\ UNCHANGED security
         \/ blocked[h] = "no" /\ LoopTo("track", c) /\ UNCHANGED <<pc, security>>
         \/ /\ blocked[h] = "over"
            /\ blocked' = [blocked EXCEPT ![h] = "no"]
            /\ violations' = [violations EXCEPT ![h] = 0]
            /\ LoopTo("track", c)
            /\ UNCHANGED <<pc, admitted>>
      /\ UNCHANGED <<sid, registered, clocks, closed, counts, manager,
                     stopping>>

\* tryTrackConn.
Track(c) ==
  LET h == HostOf[c]
  IN  /\ LoopAt("track") /\ loop.conn = c
      /\ \/ /\ MaxPerHost > 0 /\ ipConnCount[h] >= MaxPerHost
            /\ Refuse(c)
            /\ UNCHANGED <<tracked, ipConnCount>>
         \/ /\ MaxPerHost = 0 \/ ipConnCount[h] < MaxPerHost
            /\ tracked' = tracked \cup {c}
            /\ ipConnCount' = [ipConnCount EXCEPT ![h] = @ + 1]
            /\ LoopTo("spawn", c)
            /\ UNCHANGED pc
      /\ UNCHANGED <<sid, registered, clocks, closed, active, connWG,
                     security, manager, stopping>>

\* The counters are incremented and handleConn starts.
Spawn(c) ==
  /\ LoopAt("spawn") /\ loop.conn = c
  /\ active' = active + 1
  /\ connWG' = connWG + 1
  /\ admitted' = [admitted EXCEPT ![HostOf[c]] =
                    IF blocked[HostOf[c]] = "on" THEN @ + 1 ELSE @]
  /\ Goto(c, "top")
  /\ LoopTo("accept", NoConn)
  /\ UNCHANGED <<sid, registered, clocks, closed, tracked, ipConnCount,
                 violations, blocked, manager, stopping>>

\* Accept fails because the listener was closed; the loop waits a moment and
\* turns to the connections.
AcceptFails ==
  /\ LoopAt("accept") /\ ~listening
  /\ LoopTo("close", NoConn)
  /\ UNCHANGED <<pc, sid, registered, clocks, closed, counts, security,
                 manager, stopping>>

\* Mutant of CloseAllConns: nothing is closed.
CloseAllConnsIdle ==
  /\ LoopAt("close")
  /\ LoopTo("drain", NoConn)
  /\ UNCHANGED <<pc, sid, registered, clocks, closed, counts, security,
                 manager, stopping>>

CloseAllConns ==
  /\ LoopAt("close")
  /\ closed' = tracked
  /\ LoopTo("drain", NoConn)
  /\ UNCHANGED <<pc, sid, registered, clocks, counts, security, manager,
                 stopping>>

\* Mutant of Drained: the number of active connections is polled.
DrainedByActive == active = 0

\* The wait group that waitForConnDrain waits on.
Drained == connWG = 0

\* waitForConnDrain returns, and Run with it, when the wait is over or after
\* shutdownDrainTimeout.
Drain ==
  /\ LoopAt("drain") /\ Drained
  /\ LoopTo("returned", NoConn)
  /\ UNCHANGED <<pc, sid, registered, clocks, closed, counts, security,
                 manager, stopping>>

DrainTimeout ==
  /\ LoopAt("drain")
  /\ timedOut' = TRUE
  /\ LoopTo("returned", NoConn)
  /\ UNCHANGED <<pc, sid, registered, clocks, closed, counts, security,
                 manager, cancelled, listening>>

-----------------------------------------------------------------------------
\* handleConn.  Its goroutines end with the process when Run has returned.

Running(c, label) == At(c, label) /\ ~LoopAt("returned")

\* registerIPViolation.
RegisterViolation(h) ==
  \/ ViolationLimit = 0 /\ UNCHANGED security
  \/ /\ ViolationLimit > 0 /\ violations[h] + 1 < ViolationLimit
     /\ violations' = [violations EXCEPT ![h] = @ + 1]
     /\ UNCHANGED <<blocked, admitted>>
  \/ /\ ViolationLimit > 0 /\ violations[h] + 1 >= ViolationLimit
     /\ violations' = [violations EXCEPT ![h] = 0]
     /\ blocked' = [blocked EXCEPT ![h] = "on"]
     /\ admitted' = [admitted EXCEPT ![h] = IF blocked[h] = "on" THEN @ ELSE 0]

\* Mutant of Stale: only silence ends a connection.
StaleNever(c) == FALSE

\* A registered controller whose last heartbeat is too old.
Stale(c) == c \in registered /\ c \in beat

\* The top of the loop: the two deadlines are compared with the clock and the
\* read deadline is set.
Top(c) ==
  /\ Running(c, "top")
  /\ \/ /\ c \notin registered /\ c \in window
        /\ RegisterViolation(HostOf[c])
        /\ Goto(c, "exit")
     \/ Stale(c) /\ Goto(c, "exit") /\ UNCHANGED security
     \/ /\ c \in registered \/ c \notin window
        /\ ~Stale(c)
        /\ Goto(c, "read")
        /\ UNCHANGED security
  /\ UNCHANGED <<loop, sid, registered, clocks, closed, counts, manager,
                 stopping>>

\* Mutant of ReadTimeout: connections that have not registered wait for ever.
ReadTimeoutRegistered(c) ==
  /\ Running(c, "read") /\ c \in registered
  /\ Goto(c, "exit")
  /\ UNCHANGED <<loop, sid, registered, clocks, closed, counts, security,
                 manager, stopping>>

\* The read deadline passes.
ReadTimeout(c) ==
  /\ Running(c, "read")
  /\ Goto(c, "exit")
  /\ UNCHANGED <<loop, sid, registered, clocks, closed, counts, security,
                 manager, stopping>>

\* The read fails, also because the connection was closed, or brings a frame
\* without payload or, instead of a registration, anything else.
ReadFails(c) ==
  /\ Running(c, "read")
  /\ \/ c \in registered /\ UNCHANGED security
     \/ c \notin registered /\ RegisterViolation(HostOf[c])
  /\ Goto(c, "exit")
  /\ UNCHANGED <<loop, sid, registered, clocks, closed, counts, manager,
                 stopping>>

\* Manager.Create refuses a controller that is online and, if it has no session
\* yet, one too many.
Refuses(id) ==
  \/ online[id] # NoConn
  \/ id \notin known /\ Cardinality(Online) >= MaxConnections

\* A registration frame arrives and Create gives the session to the connection,
\* or refuses, or cannot save it.
Create(c, id) ==
  /\ Running(c, "read") /\ c \notin registered
  /\ \/ /\ ~Refuses(id)
        /\ online' = [online EXCEPT ![id] = c]
        /\ known' = known \cup {id}
        /\ sid' = [sid EXCEPT ![c] = id]
        /\ Goto(c, "regack")
     \/ Goto(c, "exit") /\ UNCHANGED <<manager, sid>>
  /\ UNCHANGED <<loop, registered, clocks, closed, counts, security, stopping>>

\* Mutant of RegistrationAck: the failed acknowledgement leaves the session to
\* the deferred function, which looks at registered.
RegistrationAckLeaks(c) ==
  /\ Running(c, "regack")
  /\ \/ /\ c \notin closed
        /\ registered' = registered \cup {c}
        /\ beat' = beat \ {c}
        /\ Goto(c, "serve")
     \/ Goto(c, "exit") /\ UNCHANGED <<registered, beat>>
  /\ UNCHANGED <<loop, sid, window, closed, counts, security, manager,
                 stopping>>

\* sendRegistrationAck succeeds, or fails and the session goes offline.
RegistrationAck(c) ==
  /\ Running(c, "regack")
  /\ \/ /\ c \notin closed
        /\ registered' = registered \cup {c}
        /\ beat' = beat \ {c}
        /\ Goto(c, "serve")
        /\ UNCHANGED online
     \/ /\ online' = [online EXCEPT ![sid[c]] = NoConn]
        /\ Goto(c, "exit")
        /\ UNCHANGED <<registered, beat>>
  /\ UNCHANGED <<loop, sid, window, closed, counts, security, known,
                 stopping>>

\* A registered controller sends a frame; after a close, one that was buffered.
\* Only status1 counts as a heartbeat.
Frame(c) ==
  /\ Running(c, "read") /\ c \in registered
  /\ beat' \in {beat, beat \ {c}}
  /\ Goto(c, "serve")
  /\ UNCHANGED <<loop, sid, registered, window, closed, counts, security,
                 manager, stopping>>

\* The frame is handled and the queue flushed; an error of either ends the
\* connection.
Serve(c) ==
  /\ Running(c, "serve")
  /\ Goto(c, "top") \/ Goto(c, "exit")
  /\ UNCHANGED <<loop, sid, registered, clocks, closed, counts, security,
                 manager, stopping>>

\* The deferred function, in order: MarkOffline, active, untrackConn, Close and
\* then the wait group.
MarkOffline(c) ==
  /\ Running(c, "exit")
  /\ \/ c \in registered /\ online' = [online EXCEPT ![sid[c]] = NoConn]
     \/ c \notin registered /\ UNCHANGED online
  /\ Goto(c, "inactive")
  /\ UNCHANGED <<loop, sid, registered, clocks, closed, counts, security,
                 known, stopping>>

Inactive(c) ==
  /\ Running(c, "inactive")
  /\ active' = active - 1
  /\ Goto(c, "untrack")
  /\ UNCHANGED <<loop, sid, registered, clocks, closed, tracked,
                 ipConnCount, connWG, security, manager, stopping>>

\* Mutant of LessOne: the entry of a host is removed with any of its connections.
LessOneForgetting(n) == 0

\* The entry of a host is removed with its last connection.
LessOne(n) == IF n <= 1 THEN 0 ELSE n - 1

UntrackConn(c) ==
  /\ Running(c, "untrack")
  /\ tracked' = tracked \ {c}
  /\ ipConnCount' = [ipConnCount EXCEPT ![HostOf[c]] = LessOne(@)]
  /\ Goto(c, "done")
  /\ UNCHANGED <<loop, sid, registered, clocks, closed, active, connWG,
                 security, manager, stopping>>

\* The goroutine ends and its local variables with it.
Done(c) ==
  /\ Running(c, "done")
  /\ connWG' = connWG - 1
  /\ Goto(c, "gone")
  /\ sid' = [sid EXCEPT ![c] = NoId]
  /\ registered' = registered \ {c}
  /\ window' = window \ {c} /\ beat' = beat \ {c} /\ closed' = closed \ {c}
  /\ UNCHANGED <<loop, active, tracked, ipConnCount, security, manager,
                 stopping>>

-----------------------------------------------------------------------------
\* The context and the clock

\* SIGINT or SIGTERM.
Cancel ==
  /\ ~cancelled
  /\ cancelled' = TRUE
  /\ UNCHANGED <<loop, pc, sid, registered, clocks, closed, counts,
                 security, manager, listening, timedOut>>

\* The goroutine of Run that waits for the context closes the listener.
StopListening ==
  /\ cancelled /\ listening
  /\ listening' = FALSE
  /\ UNCHANGED <<loop, pc, sid, registered, clocks, closed, counts,
                 security, manager, cancelled, timedOut>>

\* A registration window or a heartbeat timeout passes.
WindowPasses(c) ==
  /\ pc[c] \in {"top", "read"} /\ c \notin registered \cup window
  /\ window' = window \cup {c}
  /\ UNCHANGED <<loop, pc, sid, registered, beat, closed, counts,
                 security, manager, stopping>>

HeartbeatPasses(c) ==
  /\ c \in registered \ beat /\ pc[c] \in {"top", "read", "serve"}
  /\ beat' = beat \cup {c}
  /\ UNCHANGED <<loop, pc, sid, registered, window, closed, counts,
                 security, manager, stopping>>

\* A block ends; the oldest violation leaves the window.
BlockEnds(h) ==
  /\ blocked[h] = "on"
  /\ blocked' = [blocked EXCEPT ![h] = "over"]
  /\ UNCHANGED <<loop, pc, sid, registered, clocks, closed, counts,
                 violations, admitted, manager, stopping>>

ViolationAges(h) ==
  /\ violations[h] > 0
  /\ violations' = [violations EXCEPT ![h] = @ - 1]
  /\ UNCHANGED <<loop, pc, sid, registered, clocks, closed, counts,
                 blocked, admitted, manager, stopping>>

LoopStep(c) == Accept(c) \/ CheckIP(c) \/ Track(c) \/ Spawn(c)

\* What handleConn does without waiting for the controller.
HandlerStep(c) ==
  \/ Top(c) \/ RegistrationAck(c) \/ Serve(c)
  \/ MarkOffline(c) \/ Inactive(c) \/ UntrackConn(c) \/ Done(c)

Next ==
  \/ \E c \in Conns :
       \/ LoopStep(c) \/ HandlerStep(c)
       \/ ReadTimeout(c) \/ ReadFails(c) \/ Frame(c)
       \/ \E id \in Ids : Create(c, id)
       \/ WindowPasses(c) \/ HeartbeatPasses(c)
  \/ AcceptFails \/ CloseAllConns \/ Drain \/ DrainTimeout
  \/ Cancel \/ StopListening
  \/ \E h \in Hosts : BlockEnds(h) \/ ViolationAges(h)

Spec == Init /\ [][Next]_vars

\* Goroutines that can run do run; the accept loop goes on with the connection
\* it holds; a read ends at its deadline at the latest; what was buffered before
\* a connection was closed runs out.  Nothing is assumed of clients, and not
\* that the drain times out.
Fairness ==
  /\ \A c \in Conns :
       /\ WF_vars(CheckIP(c) \/ Track(c) \/ Spawn(c))
       /\ WF_vars(HandlerStep(c))
       /\ WF_vars(ReadTimeout(c))
       /\ SF_vars(c \in closed /\ ReadFails(c))
  /\ WF_vars(AcceptFails \/ CloseAllConns \/ Drain)
  /\ WF_vars(StopListening)

FairSpec == Spec /\ Fairness

-----------------------------------------------------------------------------
\* Properties

\* The points of handleConn at which it may own a session, and at which its
\* connection is counted in active.
Owning == {"regack", "serve", "top", "read", "exit"}
Counted == Owning \cup {"inactive"}

\* A session is online only through the one connection that was given it, whose
\* handler will take it offline, and that connection is still counted: so no
\* more sessions are online than active connections, and these never exceed
\* MaxConnections, although Create does not compare a session it reattaches and
\* the accept loop compares before it counts.
OnlineCounted ==
  /\ \A id \in Online :
       /\ sid[online[id]] = id
       /\ pc[online[id]] \in Owning
       /\ pc[online[id]] # "regack" => online[id] \in registered
  /\ active = Cardinality({c \in Conns : pc[c] \in Counted})
  /\ Cardinality(Online) <= active /\ active <= MaxConnections

\* A connection that may register finds room: the limit in Create repeats the
\* one in the accept loop and never refuses.
CreateHasRoom ==
  (\E c \in Conns : pc[c] = "read" /\ c \notin registered) =>
    Cardinality(Online) < MaxConnections

\* ipConnCount counts the tracked connections of each host, through every order
\* of tryTrackConn and untrackConn, and keeps to the limit.
PerHostCount ==
  \A h \in Hosts :
    /\ ipConnCount[h] = Cardinality({c \in tracked : HostOf[c] = h})
    /\ MaxPerHost > 0 => ipConnCount[h] <= MaxPerHost

\* A host that is blocked gets at most one more handler until the block ends: for
\* the connection that had passed isIPBlocked when the block began.
BlockHolds == \A h \in Hosts : blocked[h] = "on" => admitted[h] <= 1

\* A shutdown whose drain did not time out leaves no handler, no tracked
\* connection and no session online.
DrainedClean ==
  LoopAt("returned") /\ ~timedOut =>
    /\ \A c \in Conns : pc[c] \in {"away", "gone"}
    /\ tracked = {} /\ active = 0 /\ connWG = 0 /\ Online = {}

\* A connection registers within its registration window.
RegisteredInTime ==
  [][\A c \in Conns : pc[c] = "read" /\ pc'[c] = "regack" => c \notin window]_vars

\* A connection that has not registered does so or frees its place, whatever
\* its client does.
SlotReleased ==
  \A c \in Conns :
    pc[c] = "top" ~> c \in registered \/ pc[c] = "gone" \/ LoopAt("returned")

\* A controller without heartbeat sends one or is disconnected, however many
\* other frames it sends.
HeartbeatEnforced ==
  \A c \in Conns :
    c \in registered \cap beat ~>
      c \notin beat \/ pc[c] = "gone" \/ LoopAt("returned")

\* A shutdown ends by itself: closing the connections ends every handler, even
\* without the timeout of the drain.
ShutdownCompletes == cancelled ~> LoopAt("returned")
=============================================================================
