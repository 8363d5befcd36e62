---------------------------- MODULE ServerProofs ----------------------------
(***************************************************************************)
(* The invariants of the TCP server and of what the adapter records about  *)
(* itself.  ConnLifecycle: for any number of connections, hosts and        *)
(* controllers and every limit.  Observability: one answer of /metrics     *)
(* agrees with itself and with what happened, for every number of          *)
(* goroutines, statuses, reasons, latencies and bounds.                    *)
(***************************************************************************)
EXTENDS ConnLifecycle, Observability, SumProofs

\* A leaf goes to Zenon, unless it names the SMT solver: where it needs
\* arithmetic, or functions and records are rewritten.
USE ZenonT(30)

-----------------------------------------------------------------------------
\* ConnLifecycle

\* The points at which the accept loop holds a connection, the ones after
\* isIPBlocked, and the points at which a connection is in tracked, or in the
\* wait group, for its handler.
Holding == {"ip", "track", "spawn"}
Passed == {"track", "spawn"}
Tracked == Counted \cup {"untrack"}
Waited == Tracked \cup {"done"}

PointLabels == Waited \cup {"away", "accepted", "gone"}
LoopLabels == Holding \cup {"accept", "close", "drain", "returned"}

AtOneOf(labels) == {c \in Conns : pc[c] \in labels}
OfHost(S, h) == {c \in S : HostOf[c] = h}

\* The values the variables can take.
ConnTypeOK ==
  /\ loop \in [at : LoopLabels, conn : Conns \cup {NoConn}]
  /\ pc \in [Conns -> PointLabels]
  /\ sid \in [Conns -> Ids \cup {NoId}]
  /\ registered \subseteq Conns
  /\ active \in Int /\ connWG \in Int
  /\ ipConnCount \in [Hosts -> Nat]
  /\ blocked \in [Hosts -> {"no", "on", "over"}]
  /\ admitted \in [Hosts -> Nat]
  /\ online \in [Ids -> Conns \cup {NoConn}]

\* The accept loop holds the one connection that is accepted and has no handler.
LoopInv ==
  /\ \A c \in Conns :
       pc[c] = "accepted" <=> (loop.at \in Holding /\ loop.conn = c)
  /\ loop.at \in Holding => loop.conn \in Conns

\* The counters are those of the handlers, up to the connection that is tracked
\* and not yet counted; the loop took it when there was room.
CountInv ==
  /\ active = Cardinality(AtOneOf(Counted))
  /\ connWG = Cardinality(AtOneOf(Waited))
  /\ active <= MaxConnections
  /\ loop.at \in Holding => active < MaxConnections

\* tryTrackConn runs before the handler and untrackConn in it.
TrackInv ==
  /\ tracked = AtOneOf(Tracked) \cup (IF LoopAt("spawn") THEN {loop.conn} ELSE {})
  /\ PerHostCount

\* A session is online through the connection that was given it, until that
\* connection's handler takes it offline.
OnlineInv ==
  /\ \A id \in Online :
       /\ sid[online[id]] = id
       /\ pc[online[id]] \in Owning
       /\ pc[online[id]] # "regack" => online[id] \in registered
  /\ \A c \in Conns : pc[c] = "regack" => sid[c] \in Ids /\ c \notin registered
  /\ \A c \in registered : sid[c] \in Ids

\* A blocked host has at most one connection that was let in, counting the one
\* that passed isIPBlocked and has no handler yet.
BlockInv ==
  \A h \in Hosts : blocked[h] = "on" =>
    /\ admitted[h] <= 1
    /\ loop.at \in Passed /\ HostOf[loop.conn] = h => admitted[h] = 0

\* Without a timeout Run returns when the wait group is empty.
DrainInv ==
  /\ LoopAt("returned") /\ ~timedOut => connWG = 0

IInv ==
  /\ ConnTypeOK /\ LoopInv /\ CountInv /\ TrackInv /\ OnlineInv
  /\ BlockInv /\ DrainInv
-----------------------------------------------------------------------------
\* Lemmas

\* The sets of connections are finite, so that the counters count them.
LEMMA FiniteAt ==
  ASSUME NEW L
  PROVE  IsFiniteSet(AtOneOf(L)) /\ Cardinality(AtOneOf(L)) \in Nat
<1>1. AtOneOf(L) \subseteq Conns /\ IsFiniteSet(Conns)
  BY ConnAssumption DEF AtOneOf
<1> QED BY <1>1, FS_Subset, FS_CardinalityType

\* One handler goes from a point to another.
LEMMA OneMoves ==
  ASSUME ConnTypeOK, NEW c \in Conns, NEW l \in PointLabels, Goto(c, l), NEW L
  PROVE  /\ pc' \in [Conns -> PointLabels]
         /\ pc'[c] = l /\ \A d \in Conns : d # c => pc'[d] = pc[d]
         /\ AtOneOf(L)' = IF l \in L THEN AtOneOf(L) \cup {c} ELSE AtOneOf(L) \ {c}
<1>1. pc \in [Conns -> PointLabels] /\ pc' = [pc EXCEPT ![c] = l]
  BY DEF ConnTypeOK, Goto
<1>2. pc' \in [Conns -> PointLabels] /\ pc'[c] = l /\ \A d \in Conns : d # c => pc'[d] = pc[d]
  BY <1>1
<1> QED BY <1>2 DEF AtOneOf

\* Counting a handler that enters, leaves or stays.
LEMMA OneCounted ==
  ASSUME ConnTypeOK, NEW c \in Conns, NEW l \in PointLabels, Goto(c, l), NEW L
  PROVE  /\ Cardinality(AtOneOf(L)) \in Nat
         /\ pc[c] \in L /\ l \in L => Cardinality(AtOneOf(L)') = Cardinality(AtOneOf(L))
         /\ pc[c] \notin L /\ l \notin L => Cardinality(AtOneOf(L)') = Cardinality(AtOneOf(L))
         /\ pc[c] \notin L /\ l \in L => Cardinality(AtOneOf(L)') = Cardinality(AtOneOf(L)) + 1
         /\ pc[c] \in L /\ l \notin L => Cardinality(AtOneOf(L)') = Cardinality(AtOneOf(L)) - 1
<1> DEFINE A == AtOneOf(L)
           B == AtOneOf(L)'
<1>1. B = IF l \in L THEN A \cup {c} ELSE A \ {c}
  BY OneMoves
<1>2. IsFiniteSet(A) /\ Cardinality(A) \in Nat
  BY FiniteAt
<1>3. c \in A <=> pc[c] \in L
  BY DEF AtOneOf
<1>4. Cardinality(A \cup {c}) = IF c \in A THEN Cardinality(A) ELSE Cardinality(A) + 1
  BY <1>2, FS_AddElement
<1>5. Cardinality(A \ {c}) = IF c \in A THEN Cardinality(A) - 1 ELSE Cardinality(A)
  BY <1>2, FS_RemoveElement
<1> HIDE DEF A, B
<1>6. /\ c \in A /\ l \in L => Cardinality(B) = Cardinality(A)
      /\ c \notin A /\ l \notin L => Cardinality(B) = Cardinality(A)
      /\ c \notin A /\ l \in L => Cardinality(B) = Cardinality(A) + 1
      /\ c \in A /\ l \notin L => Cardinality(B) = Cardinality(A) - 1
  <2>1. c \in A => A \cup {c} = A
    OBVIOUS
  <2>2. c \notin A => A \ {c} = A
    OBVIOUS
  <2> QED BY <1>1, <1>2, <1>4, <1>5, <2>1, <2>2
<1> QED BY <1>2, <1>3, <1>6 DEF A, B

\* What is said of the accept loop and of the counters.
Balance == LoopInv /\ CountInv /\ TrackInv /\ DrainInv

\* A handler that stays between its first line and its deferred function changes
\* no counter.
LEMMA StaysCounted ==
  ASSUME IInv, NEW c \in Conns, NEW l \in Counted, pc[c] \in Counted, Goto(c, l),
         UNCHANGED <<loop, counts, timedOut>>
  PROVE  Balance' /\ pc' \in [Conns -> PointLabels]
<1>1. ConnTypeOK /\ l \in PointLabels
  BY DEF IInv, PointLabels, Waited, Tracked
<1>2. Counted \subseteq Tracked /\ Counted \subseteq Waited /\ "accepted" \notin Counted
  BY DEF Counted, Owning, Tracked, Waited
<1>3. /\ Cardinality(AtOneOf(Counted)') = Cardinality(AtOneOf(Counted))
      /\ Cardinality(AtOneOf(Waited)') = Cardinality(AtOneOf(Waited))
  BY <1>1, <1>2, OneCounted
<1>4. AtOneOf(Tracked)' = AtOneOf(Tracked)
  <2>1. AtOneOf(Tracked)' = AtOneOf(Tracked) \cup {c}
    BY <1>1, <1>2, OneMoves
  <2> QED BY <1>2, <2>1 DEF AtOneOf
<1>5. pc' \in [Conns -> PointLabels] /\ pc'[c] = l /\ \A d \in Conns : d # c => pc'[d] = pc[d]
  BY <1>1, OneMoves
<1>6. LoopInv'
  BY <1>2, <1>5 DEF IInv, LoopInv
<1>7. CountInv'
  BY <1>3 DEF IInv, CountInv, counts
<1>8. TrackInv'
  BY <1>4 DEF IInv, TrackInv, PerHostCount, LoopAt, counts
<1>9. DrainInv'
  BY DEF IInv, DrainInv, LoopAt, counts
<1> QED BY <1>5, <1>6, <1>7, <1>8, <1>9 DEF Balance

\* registerIPViolation starts a block with no connection let in, or goes on with
\* one.
LEMMA ViolationKeeps ==
  ASSUME IInv, NEW h \in Hosts, RegisterViolation(h), UNCHANGED loop
  PROVE  /\ blocked' \in [Hosts -> {"no", "on", "over"}] /\ admitted' \in [Hosts -> Nat]
         /\ BlockInv'
<1>1. blocked \in [Hosts -> {"no", "on", "over"}] /\ admitted \in [Hosts -> Nat] /\ BlockInv
  BY DEF IInv, ConnTypeOK
<1>2. CASE UNCHANGED <<blocked, admitted>>
  BY <1>1, <1>2 DEF BlockInv
<1>3. CASE /\ blocked' = [blocked EXCEPT ![h] = "on"]
           /\ admitted' = [admitted EXCEPT ![h] = IF blocked[h] = "on" THEN @ ELSE 0]
  <2>1. /\ blocked' \in [Hosts -> {"no", "on", "over"}] /\ admitted' \in [Hosts -> Nat]
        /\ admitted'[h] = IF blocked[h] = "on" THEN admitted[h] ELSE 0
        /\ \A g \in Hosts : g # h => blocked'[g] = blocked[g] /\ admitted'[g] = admitted[g]
    BY <1>1, <1>3
  <2>2. ASSUME NEW g \in Hosts, blocked'[g] = "on"
        PROVE  /\ admitted'[g] <= 1
               /\ loop.at \in Passed /\ HostOf[loop.conn] = g => admitted'[g] = 0
    BY <1>1, <2>1, <2>2, SMTT(30) DEF BlockInv
  <2> QED BY <2>1, <2>2 DEF BlockInv
<1> QED BY <1>2, <1>3 DEF RegisterViolation, security

\* What says who has which session does not depend on the rest.
LEMMA OnlineSame ==
  ASSUME OnlineInv, pc' = pc, UNCHANGED <<sid, registered, online>>
  PROVE  OnlineInv'
BY DEF OnlineInv, Online

\* A handler that owns its session, if it has one, and keeps it.
LEMMA OnlineMoves ==
  ASSUME IInv, NEW c \in Conns, NEW l \in PointLabels, Goto(c, l),
         pc[c] # "regack", l # "regack", l \in Owning \/ pc[c] \notin Owning,
         UNCHANGED <<sid, registered, online>>
  PROVE  OnlineInv'
<1>1. /\ pc' \in [Conns -> PointLabels] /\ pc'[c] = l
      /\ \A d \in Conns : d # c => pc'[d] = pc[d]
  BY OneMoves DEF IInv
<1>2. \A id \in Online : online[id] \in Conns
  BY DEF Online, IInv, ConnTypeOK
<1>3. Online' = Online
  BY DEF Online
<1> QED BY <1>1, <1>2, <1>3 DEF IInv, OnlineInv
-----------------------------------------------------------------------------
\* The steps of handleConn

\* Reading, serving and giving up: the handler keeps its session and is counted
\* as before.
LEMMA HandlerMoves ==
  ASSUME IInv, NEW c \in Conns, NEW l \in Owning, pc[c] \in Owning, Goto(c, l),
         pc[c] # "regack", l # "regack",
         UNCHANGED <<loop, counts, timedOut, sid, registered, online>>,
         UNCHANGED security \/ RegisterViolation(HostOf[c])
  PROVE  IInv'
<1>1. Owning \subseteq Counted /\ l \in PointLabels /\ HostOf[c] \in Hosts
  BY ConnAssumption DEF Counted, PointLabels, Waited, Tracked
<1>2. Balance' /\ pc' \in [Conns -> PointLabels]
  BY <1>1, StaysCounted
<1>3. OnlineInv'
  BY <1>1, OnlineMoves
<1>4. /\ blocked' \in [Hosts -> {"no", "on", "over"}] /\ admitted' \in [Hosts -> Nat]
      /\ BlockInv'
  <2>1. CASE UNCHANGED security
    BY <2>1 DEF IInv, ConnTypeOK, BlockInv, security
  <2>2. CASE RegisterViolation(HostOf[c])
    BY <1>1, <2>2, ViolationKeeps
  <2> QED BY <2>1, <2>2
<1>5. ConnTypeOK'
  BY <1>2, <1>4 DEF IInv, ConnTypeOK, counts
<1> QED BY <1>2, <1>3, <1>4, <1>5 DEF IInv, Balance

\* Each of the steps that only reads, serves or gives up.
LEMMA HandlerKeeps ==
  ASSUME IInv, NEW c \in Conns,
         Top(c) \/ ReadTimeout(c) \/ ReadFails(c) \/ Frame(c) \/ Serve(c)
  PROVE  IInv'
<1>1. {"top", "read", "serve", "exit"} \subseteq Owning
  BY DEF Owning
<1>2. CASE Top(c)
  <2>1. /\ pc[c] = "top"
        /\ Goto(c, "exit") \/ Goto(c, "read")
        /\ UNCHANGED security \/ RegisterViolation(HostOf[c])
        /\ UNCHANGED <<loop, counts, timedOut, sid, registered, online>>
    BY <1>2 DEF Top, Running, At, stopping, manager
  <2> QED BY <1>1, <2>1, HandlerMoves
<1>3. CASE ReadTimeout(c)
  <2>1. /\ pc[c] = "read" /\ Goto(c, "exit") /\ UNCHANGED security
        /\ UNCHANGED <<loop, counts, timedOut, sid, registered, online>>
    BY <1>3 DEF ReadTimeout, Running, At, stopping, manager
  <2> QED BY <1>1, <2>1, HandlerMoves
<1>4. CASE ReadFails(c)
  <2>1. /\ pc[c] = "read" /\ Goto(c, "exit")
        /\ UNCHANGED security \/ RegisterViolation(HostOf[c])
        /\ UNCHANGED <<loop, counts, timedOut, sid, registered, online>>
    BY <1>4 DEF ReadFails, Running, At, stopping, manager
  <2> QED BY <1>1, <2>1, HandlerMoves
<1>5. CASE Frame(c)
  <2>1. /\ pc[c] = "read" /\ Goto(c, "serve") /\ UNCHANGED security
        /\ UNCHANGED <<loop, counts, timedOut, sid, registered, online>>
    BY <1>5 DEF Frame, Running, At, stopping, manager
  <2> QED BY <1>1, <2>1, HandlerMoves
<1>6. CASE Serve(c)
  <2>1. /\ pc[c] = "serve"
        /\ Goto(c, "top") \/ Goto(c, "exit")
        /\ UNCHANGED security
        /\ UNCHANGED <<loop, counts, timedOut, sid, registered, online>>
    BY <1>6 DEF Serve, Running, At, stopping, manager
  <2> QED BY <1>1, <2>1, HandlerMoves
<1> QED BY <1>2, <1>3, <1>4, <1>5, <1>6

\* The session goes to a connection that had none, or Create refuses.
LEMMA CreateKeeps ==
  ASSUME IInv, NEW c \in Conns, NEW id \in Ids, Create(c, id)
  PROVE  IInv'
<1>1. /\ pc[c] = "read" /\ c \notin registered
      /\ UNCHANGED <<loop, registered, counts, security, timedOut>>
  BY DEF Create, Running, At, stopping
<1>2. "read" \in Owning /\ "exit" \in Owning /\ "regack" \in Counted /\ "read" \in Counted
  BY DEF Counted, Owning
<1>3. CASE Goto(c, "exit") /\ UNCHANGED <<manager, sid>>
  BY <1>1, <1>2, <1>3, HandlerMoves DEF manager
<1>4. CASE /\ ~Refuses(id) /\ Goto(c, "regack")
           /\ online' = [online EXCEPT ![id] = c]
           /\ sid' = [sid EXCEPT ![c] = id]
  <2>1. Balance' /\ pc' \in [Conns -> PointLabels]
    BY <1>1, <1>2, <1>4, StaysCounted
  <2>2. /\ online' \in [Ids -> Conns \cup {NoConn}] /\ online'[id] = c
        /\ \A i \in Ids : i # id => online'[i] = online[i]
    BY <1>4 DEF IInv, ConnTypeOK
  <2>3. /\ sid' \in [Conns -> Ids \cup {NoId}] /\ sid'[c] = id
        /\ \A d \in Conns : d # c => sid'[d] = sid[d]
    BY <1>4 DEF IInv, ConnTypeOK
  <2>4. pc'[c] = "regack" /\ \A d \in Conns : d # c => pc'[d] = pc[d]
    BY <1>4, OneMoves DEF IInv, PointLabels, Waited, Tracked, Counted, Owning
  <2>5. \A i \in Online : online[i] \in Conns /\ online[i] # c
    BY <1>1, SMTT(30) DEF Online, IInv, ConnTypeOK, OnlineInv
  <2>6. Online' = Online \cup {id}
    BY <2>2, ConnAssumption DEF Online
  <2>7. OnlineInv'
    <3>1. ASSUME NEW i \in Online'
          PROVE  /\ sid'[online'[i]] = i
                 /\ pc'[online'[i]] \in Owning
                 /\ pc'[online'[i]] # "regack" => online'[i] \in registered'
      <4>1. CASE i = id
        BY <2>2, <2>3, <2>4, <4>1 DEF Owning
      <4>2. CASE i # id
        BY <1>1, <2>2, <2>3, <2>4, <2>5, <2>6, <4>2, SMTT(30) DEF IInv, OnlineInv, Online
      <4> QED BY <4>1, <4>2
    <3>2. \A d \in Conns : pc'[d] = "regack" => sid'[d] \in Ids /\ d \notin registered'
      BY <1>1, <2>3, <2>4 DEF IInv, OnlineInv
    <3>3. \A d \in registered' : sid'[d] \in Ids
      BY <1>1, <2>3 DEF IInv, OnlineInv, ConnTypeOK
    <3> QED BY <3>1, <3>2, <3>3 DEF OnlineInv
  <2>8. ConnTypeOK' /\ BlockInv'
    BY <1>1, <2>1, <2>2, <2>3 DEF IInv, ConnTypeOK, BlockInv, counts, security
  <2> QED BY <2>1, <2>7, <2>8 DEF IInv, Balance
<1> QED BY <1>3, <1>4 DEF Create

\* The session of connection c goes offline, and with it the only one that c
\* can own.
LEMMA OfflineMoves ==
  ASSUME IInv, NEW c \in Conns, NEW l \in Counted, Goto(c, l), l # "regack",
         pc[c] \in {"regack", "exit"}, sid[c] \in Ids,
         online' = [online EXCEPT ![sid[c]] = NoConn],
         UNCHANGED <<loop, counts, timedOut, sid, registered, security>>
  PROVE  IInv'
<1>1. pc[c] \in Counted /\ l \in PointLabels
  BY DEF Counted, Owning, PointLabels, Waited, Tracked
<1>2. Balance' /\ pc' \in [Conns -> PointLabels]
  BY <1>1, StaysCounted
<1>3. /\ online' \in [Ids -> Conns \cup {NoConn}] /\ online'[sid[c]] = NoConn
      /\ \A i \in Ids : i # sid[c] => online'[i] = online[i]
  BY DEF IInv, ConnTypeOK
<1>4. pc'[c] = l /\ \A d \in Conns : d # c => pc'[d] = pc[d]
  BY <1>1, OneMoves DEF IInv
<1>5. ASSUME NEW i \in Online'
      PROVE  i \in Online /\ online'[i] = online[i] /\ online[i] \in Conns /\ online[i] # c
  BY <1>3, SMTT(30) DEF Online, IInv, ConnTypeOK, OnlineInv
<1>6. OnlineInv'
  <2>1. ASSUME NEW i \in Online'
        PROVE  /\ sid'[online'[i]] = i
               /\ pc'[online'[i]] \in Owning
               /\ pc'[online'[i]] # "regack" => online'[i] \in registered'
    BY <1>4, <1>5, SMTT(30) DEF IInv, OnlineInv
  <2>2. \A d \in Conns : pc'[d] = "regack" => sid'[d] \in Ids /\ d \notin registered'
    BY <1>4 DEF IInv, OnlineInv
  <2>3. \A d \in registered' : sid'[d] \in Ids
    BY DEF IInv, OnlineInv
  <2> QED BY <2>1, <2>2, <2>3 DEF OnlineInv
<1>7. ConnTypeOK' /\ BlockInv'
  BY <1>2, <1>3 DEF IInv, ConnTypeOK, BlockInv, counts, security
<1> QED BY <1>2, <1>6, <1>7 DEF IInv, Balance

\* A failed registration acknowledgement takes the session offline itself.
LEMMA RegistrationAckKeeps ==
  ASSUME IInv, NEW c \in Conns, RegistrationAck(c)
  PROVE  IInv'
<1>1. /\ pc[c] = "regack"
      /\ UNCHANGED <<loop, sid, counts, security, timedOut>>
  BY DEF RegistrationAck, Running, At, stopping
<1>2. sid[c] \in Ids /\ c \notin registered
  BY <1>1 DEF IInv, OnlineInv
<1>3. "serve" \in Counted /\ "exit" \in Counted /\ "regack" \in Counted
  BY DEF Counted, Owning
<1>4. CASE /\ online' = [online EXCEPT ![sid[c]] = NoConn] /\ Goto(c, "exit")
           /\ UNCHANGED registered
  BY <1>1, <1>2, <1>3, <1>4, OfflineMoves
<1>5. CASE registered' = registered \cup {c} /\ Goto(c, "serve") /\ UNCHANGED online
  <2>1. Balance' /\ pc' \in [Conns -> PointLabels]
    BY <1>1, <1>3, <1>5, StaysCounted
  <2>2. pc'[c] = "serve" /\ \A d \in Conns : d # c => pc'[d] = pc[d]
    BY <1>5, OneMoves DEF IInv, PointLabels, Waited, Tracked, Counted, Owning
  <2>3. Online' = Online /\ \A i \in Online : online[i] \in Conns
    BY <1>5 DEF Online, IInv, ConnTypeOK
  <2>4. OnlineInv'
    <3>1. ASSUME NEW i \in Online
          PROVE  /\ sid[online[i]] = i
                 /\ pc'[online[i]] \in Owning
                 /\ pc'[online[i]] # "regack" => online[i] \in registered'
      BY <1>5, <2>2, <2>3 DEF IInv, OnlineInv, Owning
    <3>2. \A d \in Conns : pc'[d] = "regack" => sid[d] \in Ids /\ d \notin registered'
      BY <1>5, <2>2 DEF IInv, OnlineInv
    <3>3. \A d \in registered' : sid[d] \in Ids
      BY <1>2, <1>5 DEF IInv, OnlineInv
    <3> QED BY <1>1, <1>5, <2>3, <3>1, <3>2, <3>3 DEF OnlineInv
  <2>5. ConnTypeOK' /\ BlockInv'
    BY <1>1, <1>5, <2>1 DEF IInv, ConnTypeOK, BlockInv, counts, security
  <2> QED BY <2>1, <2>4, <2>5 DEF IInv, Balance
<1> QED BY <1>4, <1>5 DEF RegistrationAck

\* The deferred function takes the session of a registered connection offline.
LEMMA MarkOfflineKeeps ==
  ASSUME IInv, NEW c \in Conns, MarkOffline(c)
  PROVE  IInv'
<1>1. /\ pc[c] = "exit" /\ Goto(c, "inactive")
      /\ UNCHANGED <<loop, sid, registered, counts, security, timedOut>>
  BY DEF MarkOffline, Running, At, stopping
<1>2. "inactive" \in Counted /\ "exit" \in Counted
  BY DEF Counted, Owning
<1>3. CASE c \in registered /\ online' = [online EXCEPT ![sid[c]] = NoConn]
  BY <1>1, <1>2, <1>3, OfflineMoves DEF IInv, OnlineInv
<1>4. CASE c \notin registered /\ UNCHANGED online
  <2>1. Balance' /\ pc' \in [Conns -> PointLabels]
    BY <1>1, <1>2, StaysCounted
  <2>2. pc'[c] = "inactive" /\ \A d \in Conns : d # c => pc'[d] = pc[d]
    BY <1>1, OneMoves DEF IInv, PointLabels, Waited, Tracked, Counted
  <2>3. Online' = Online /\ \A i \in Online : online[i] \in Conns /\ online[i] # c
    BY <1>1, <1>4, SMTT(30) DEF Online, IInv, ConnTypeOK, OnlineInv
  <2>4. OnlineInv'
    BY <1>1, <1>4, <2>2, <2>3 DEF IInv, OnlineInv
  <2>5. ConnTypeOK' /\ BlockInv'
    BY <1>1, <1>4, <2>1 DEF IInv, ConnTypeOK, BlockInv, counts, security
  <2> QED BY <2>1, <2>4, <2>5 DEF IInv, Balance
<1> QED BY <1>3, <1>4 DEF MarkOffline
\* The handler no longer counts as active.
LEMMA InactiveKeeps ==
  ASSUME IInv, NEW c \in Conns, Inactive(c)
  PROVE  IInv'
<1>1. /\ pc[c] = "inactive" /\ Goto(c, "untrack") /\ active' = active - 1
      /\ loop.at # "returned"
      /\ UNCHANGED <<loop, sid, registered, tracked, ipConnCount, connWG, security,
                     online, timedOut>>
  BY DEF Inactive, Running, At, LoopAt, manager, stopping
<1>2. /\ "untrack" \in PointLabels /\ "untrack" \in Tracked /\ "untrack" \in Waited
      /\ "untrack" \notin Counted /\ "inactive" \in Counted /\ "inactive" \in Waited
      /\ "inactive" \in Tracked /\ "inactive" \notin Owning
  BY DEF PointLabels, Waited, Tracked, Counted, Owning
<1>3. ConnTypeOK
  BY DEF IInv
<1>4. /\ pc' \in [Conns -> PointLabels] /\ pc'[c] = "untrack"
      /\ \A d \in Conns : d # c => pc'[d] = pc[d]
  BY <1>1, <1>2, <1>3, OneMoves
<1>5. /\ Cardinality(AtOneOf(Counted)') = Cardinality(AtOneOf(Counted)) - 1
      /\ Cardinality(AtOneOf(Waited)') = Cardinality(AtOneOf(Waited))
  BY <1>1, <1>2, <1>3, OneCounted
<1>6. AtOneOf(Tracked)' = AtOneOf(Tracked)
  BY <1>1, <1>2, <1>4 DEF AtOneOf
<1>7. LoopInv'
  BY <1>1, <1>4 DEF IInv, LoopInv
<1>8. CountInv'
  BY <1>1, <1>3, <1>5, ConnAssumption, SMTT(30) DEF IInv, CountInv, ConnTypeOK
<1>9. TrackInv'
  BY <1>1, <1>6 DEF IInv, TrackInv, PerHostCount, LoopAt
<1>10. OnlineInv'
  BY <1>1, <1>2, OnlineMoves
<1>11. ConnTypeOK' /\ BlockInv' /\ DrainInv'
  BY <1>1, <1>4, SMTT(30) DEF IInv, ConnTypeOK, BlockInv, DrainInv, LoopAt, security
<1> QED BY <1>7, <1>8, <1>9, <1>10, <1>11 DEF IInv

\* A tracked connection of a host is one of its finitely many.
LEMMA FiniteHost ==
  ASSUME IInv, NEW h \in Hosts
  PROVE  /\ tracked \subseteq Conns
         /\ IsFiniteSet(OfHost(tracked, h))
         /\ ipConnCount[h] = Cardinality(OfHost(tracked, h))
         /\ ipConnCount[h] \in Nat
<1>1. tracked \subseteq Conns
  BY DEF IInv, TrackInv, LoopInv, AtOneOf, LoopAt, Holding
<1>2. OfHost(tracked, h) \subseteq Conns
  BY <1>1 DEF OfHost
<1>3. IsFiniteSet(OfHost(tracked, h))
  BY <1>2, FS_Subset, ConnAssumption
<1> QED BY <1>1, <1>3 DEF IInv, ConnTypeOK, TrackInv, PerHostCount, OfHost

\* untrackConn takes the connection from the count of its host.
LEMMA UntrackKeeps ==
  ASSUME IInv, NEW c \in Conns, UntrackConn(c)
  PROVE  IInv'
<1> DEFINE h == HostOf[c]
<1>1. /\ pc[c] = "untrack" /\ Goto(c, "done") /\ loop.at # "returned"
      /\ tracked' = tracked \ {c}
      /\ ipConnCount' = [ipConnCount EXCEPT ![h] = LessOne(ipConnCount[h])]
      /\ UNCHANGED <<loop, sid, registered, active, connWG, security, online, timedOut>>
  BY DEF UntrackConn, Running, At, LoopAt, manager, stopping
<1>2. /\ "done" \in PointLabels /\ "done" \notin Tracked /\ "done" \in Waited
      /\ "done" \notin Counted /\ "untrack" \notin Counted /\ "untrack" \in Waited
      /\ "untrack" \in Tracked /\ "untrack" \notin Owning
  BY DEF PointLabels, Waited, Tracked, Counted, Owning
<1>3. ConnTypeOK /\ h \in Hosts
  BY ConnAssumption DEF IInv
<1>4. /\ pc' \in [Conns -> PointLabels] /\ pc'[c] = "done"
      /\ \A d \in Conns : d # c => pc'[d] = pc[d]
  BY <1>1, <1>2, <1>3, OneMoves
<1>5. /\ Cardinality(AtOneOf(Counted)') = Cardinality(AtOneOf(Counted))
      /\ Cardinality(AtOneOf(Waited)') = Cardinality(AtOneOf(Waited))
  BY <1>1, <1>2, <1>3, OneCounted
<1>6. LoopInv' /\ CountInv'
  BY <1>1, <1>4, <1>5 DEF IInv, LoopInv, CountInv
<1>7. loop.at = "spawn" => loop.conn # c
  BY <1>1 DEF IInv, LoopInv, Holding
<1>8. tracked' = AtOneOf(Tracked)' \cup (IF LoopAt("spawn")' THEN {loop'.conn} ELSE {})
  <2>1. AtOneOf(Tracked)' = AtOneOf(Tracked) \ {c}
    BY <1>2, <1>3, <1>1, OneMoves
  <2> QED BY <1>1, <1>7, <2>1 DEF IInv, TrackInv, LoopAt
<1>9. c \in OfHost(tracked, h)
  BY <1>1, <1>2 DEF IInv, TrackInv, AtOneOf, OfHost
<1>10. /\ Cardinality(OfHost(tracked', h)) = ipConnCount[h] - 1
       /\ ipConnCount[h] \in Nat /\ ipConnCount[h] > 0
  <2>1. IsFiniteSet(OfHost(tracked, h)) /\ ipConnCount[h] = Cardinality(OfHost(tracked, h))
    BY <1>3, FiniteHost
  <2>2. OfHost(tracked', h) = OfHost(tracked, h) \ {c}
    BY <1>1 DEF OfHost
  <2>3. Cardinality(OfHost(tracked, h) \ {c}) = Cardinality(OfHost(tracked, h)) - 1
    BY <1>9, <2>1, FS_RemoveElement
  <2>4. ipConnCount[h] \in Nat /\ ipConnCount[h] # 0
    <3>1. OfHost(tracked, h) # {}
      BY <1>9
    <3> QED BY <1>3, <2>1, <3>1, FS_EmptySet, FiniteHost
  <2> QED BY <2>1, <2>2, <2>3, <2>4, SMTT(30)
<1>11. ipConnCount' \in [Hosts -> Nat] /\ ipConnCount'[h] = ipConnCount[h] - 1
       /\ \A g \in Hosts : g # h => ipConnCount'[g] = ipConnCount[g]
  <2>1. LessOne(ipConnCount[h]) = ipConnCount[h] - 1 /\ ipConnCount[h] - 1 \in Nat
    BY <1>10, SMTT(30) DEF LessOne
  <2> HIDE DEF h
  <2> QED BY <1>1, <1>3, <2>1 DEF ConnTypeOK
<1>12. PerHostCount'
  <2>1. ASSUME NEW g \in Hosts
        PROVE  /\ ipConnCount'[g] = Cardinality(OfHost(tracked', g))
               /\ MaxPerHost > 0 => ipConnCount'[g] <= MaxPerHost
    <3>1. CASE g = h
      <4>1. MaxPerHost > 0 => ipConnCount[h] <= MaxPerHost
        BY <1>3 DEF IInv, TrackInv, PerHostCount
      <4> HIDE DEF h
      <4> QED BY <1>10, <1>11, <3>1, <4>1, ConnAssumption, SMTT(30)
    <3>2. CASE g # h
      <4>1. OfHost(tracked', g) = OfHost(tracked, g)
        BY <1>1, <3>2 DEF OfHost
      <4> QED BY <1>11, <3>2, <4>1 DEF IInv, TrackInv, PerHostCount, OfHost
    <3> QED BY <3>1, <3>2
  <2> QED BY <2>1 DEF PerHostCount, OfHost
<1>13. TrackInv'
  BY <1>8, <1>12 DEF TrackInv
<1>14. OnlineInv'
  BY <1>1, <1>2, OnlineMoves
<1>15. ConnTypeOK' /\ BlockInv' /\ DrainInv'
  BY <1>1, <1>4, <1>11 DEF IInv, ConnTypeOK, BlockInv, DrainInv, LoopAt, security
<1> QED BY <1>6, <1>13, <1>14, <1>15 DEF IInv

\* The goroutine ends.
LEMMA DoneKeeps ==
  ASSUME IInv, NEW c \in Conns, Done(c)
  PROVE  IInv'
<1>1. /\ pc[c] = "done" /\ Goto(c, "gone") /\ loop.at # "returned" /\ connWG' = connWG - 1
      /\ sid' = [sid EXCEPT ![c] = NoId] /\ registered' = registered \ {c}
      /\ UNCHANGED <<loop, active, tracked, ipConnCount, security, online, timedOut>>
  BY DEF Done, Running, At, LoopAt, manager, stopping
<1>2. /\ "gone" \in PointLabels /\ "gone" \notin Tracked /\ "gone" \notin Waited
      /\ "gone" \notin Counted /\ "done" \notin Counted /\ "done" \in Waited
      /\ "done" \notin Tracked /\ "done" \notin Owning
  BY DEF PointLabels, Waited, Tracked, Counted, Owning
<1>3. ConnTypeOK
  BY DEF IInv
<1>4. /\ pc' \in [Conns -> PointLabels] /\ pc'[c] = "gone"
      /\ \A d \in Conns : d # c => pc'[d] = pc[d]
  BY <1>1, <1>2, <1>3, OneMoves
<1>5. /\ Cardinality(AtOneOf(Counted)') = Cardinality(AtOneOf(Counted))
      /\ Cardinality(AtOneOf(Waited)') = Cardinality(AtOneOf(Waited)) - 1
  BY <1>1, <1>2, <1>3, OneCounted
<1>6. AtOneOf(Tracked)' = AtOneOf(Tracked)
  BY <1>1, <1>2, <1>4 DEF AtOneOf
<1>7. LoopInv' /\ CountInv' /\ TrackInv'
  BY <1>1, <1>4, <1>5, <1>6 DEF IInv, LoopInv, CountInv, TrackInv, PerHostCount, LoopAt
<1>8. /\ sid' \in [Conns -> Ids \cup {NoId}]
      /\ \A d \in Conns : d # c => sid'[d] = sid[d]
  BY <1>1, <1>3 DEF ConnTypeOK
<1>9. Online' = Online /\ \A i \in Online : online[i] \in Conns /\ online[i] # c
  BY <1>1, <1>2, <1>3, SMTT(30) DEF Online, ConnTypeOK, IInv, OnlineInv
<1>10. OnlineInv'
  <2>1. ASSUME NEW i \in Online
        PROVE  /\ sid'[online[i]] = i
               /\ pc'[online[i]] \in Owning
               /\ pc'[online[i]] # "regack" => online[i] \in registered'
    BY <1>1, <1>4, <1>8, <1>9 DEF IInv, OnlineInv
  <2>2. \A d \in Conns : pc'[d] = "regack" => sid'[d] \in Ids /\ d \notin registered'
    BY <1>1, <1>4, <1>8 DEF IInv, OnlineInv
  <2>3. \A d \in registered' : sid'[d] \in Ids
    BY <1>1, <1>3, <1>8 DEF IInv, OnlineInv, ConnTypeOK
  <2> QED BY <1>1, <1>9, <2>1, <2>2, <2>3 DEF OnlineInv
<1>11. ConnTypeOK' /\ BlockInv' /\ DrainInv'
  BY <1>1, <1>3, <1>4, <1>8, SMTT(30) DEF IInv, ConnTypeOK, BlockInv, DrainInv, LoopAt, security
<1> QED BY <1>7, <1>10, <1>11 DEF IInv
-----------------------------------------------------------------------------
\* The accept loop

\* The loop goes on from one point to another; labels and connections are typed.
LEMMA LoopMoves ==
  ASSUME NEW l, NEW d, LoopTo(l, d)
  PROVE  /\ loop'.at = l /\ loop'.conn = d
         /\ l \in LoopLabels /\ d \in Conns \cup {NoConn} =>
              loop' \in [at : LoopLabels, conn : Conns \cup {NoConn}]
BY DEF LoopTo

\* A connection that has no handler moves between the points before and after
\* it: no counter and no session is concerned.
LEMMA IdleMoves ==
  ASSUME IInv, NEW c \in Conns, NEW l \in {"accepted", "gone"}, Goto(c, l),
         pc[c] \in {"away", "accepted"}, UNCHANGED <<sid, registered, online>>
  PROVE  /\ pc' \in [Conns -> PointLabels] /\ pc'[c] = l
         /\ \A d \in Conns : d # c => pc'[d] = pc[d]
         /\ \A L \in {Counted, Tracked, Waited} : AtOneOf(L)' = AtOneOf(L)
         /\ OnlineInv'
<1>1. /\ l \in PointLabels /\ pc[c] \notin Waited /\ l \notin Waited
      /\ Counted \subseteq Waited /\ Tracked \subseteq Waited /\ Owning \subseteq Waited
      /\ l # "regack" /\ pc[c] # "regack"
  BY DEF PointLabels, Waited, Tracked, Counted, Owning
<1>2. /\ pc' \in [Conns -> PointLabels] /\ pc'[c] = l
      /\ \A d \in Conns : d # c => pc'[d] = pc[d]
  BY <1>1, OneMoves DEF IInv
<1>3. ASSUME NEW L \in {Counted, Tracked, Waited}
      PROVE  AtOneOf(L)' = AtOneOf(L)
  <2>1. pc[c] \notin L /\ l \notin L
    BY <1>1
  <2> QED BY <1>2, <2>1 DEF AtOneOf
<1>4. OnlineInv'
  BY <1>1, OnlineMoves
<1> QED BY <1>2, <1>3, <1>4

\* The loop compares the number of active connections and takes the connection,
\* or turns it away.
LEMMA AcceptKeeps ==
  ASSUME IInv, NEW c \in Conns, Accept(c)
  PROVE  IInv'
<1>1. /\ loop.at = "accept" /\ pc[c] = "away"
      /\ UNCHANGED <<sid, registered, counts, security, online, timedOut>>
  BY DEF Accept, LoopAt, At, manager, stopping
<1>2. ConnTypeOK /\ active \in Int /\ MaxConnections \in Nat /\ loop.at \notin Holding
  BY <1>1, ConnAssumption DEF IInv, ConnTypeOK, Holding
<1>3. CASE Goto(c, "gone") /\ UNCHANGED loop
  <2>1. /\ pc' \in [Conns -> PointLabels] /\ pc'[c] = "gone"
        /\ \A d \in Conns : d # c => pc'[d] = pc[d]
        /\ AtOneOf(Counted)' = AtOneOf(Counted) /\ AtOneOf(Tracked)' = AtOneOf(Tracked)
        /\ AtOneOf(Waited)' = AtOneOf(Waited) /\ OnlineInv'
    BY <1>1, <1>3, IdleMoves
  <2>2. LoopInv' /\ CountInv' /\ TrackInv'
    BY <1>1, <1>2, <1>3, <2>1 DEF IInv, LoopInv, CountInv, TrackInv, PerHostCount, LoopAt, counts
  <2>3. ConnTypeOK' /\ BlockInv' /\ DrainInv'
    BY <1>1, <1>3, <2>1 DEF IInv, ConnTypeOK, BlockInv, DrainInv, LoopAt, counts, security
  <2> QED BY <2>1, <2>2, <2>3 DEF IInv
<1>4. CASE ~Full /\ Goto(c, "accepted") /\ LoopTo("ip", c)
  <2>1. /\ pc' \in [Conns -> PointLabels] /\ pc'[c] = "accepted"
        /\ \A d \in Conns : d # c => pc'[d] = pc[d]
        /\ AtOneOf(Counted)' = AtOneOf(Counted) /\ AtOneOf(Tracked)' = AtOneOf(Tracked)
        /\ AtOneOf(Waited)' = AtOneOf(Waited) /\ OnlineInv'
    BY <1>1, <1>4, IdleMoves
  <2>2. /\ loop'.at = "ip" /\ loop'.conn = c
        /\ loop' \in [at : LoopLabels, conn : Conns \cup {NoConn}]
    BY <1>4, LoopMoves DEF LoopLabels, Holding
  <2>3. active < MaxConnections
    BY <1>2, <1>4, SMTT(30) DEF Full
  <2>4. LoopInv'
    BY <1>1, <1>2, <2>1, <2>2 DEF IInv, LoopInv, Holding
  <2>5. CountInv' /\ TrackInv'
    BY <1>1, <2>1, <2>2, <2>3 DEF IInv, CountInv, TrackInv, PerHostCount, LoopAt, counts
  <2>6. ConnTypeOK' /\ BlockInv' /\ DrainInv'
    BY <1>1, <2>1, <2>2 DEF IInv, ConnTypeOK, BlockInv, DrainInv, LoopAt, Passed, counts, security
  <2> QED BY <2>1, <2>4, <2>5, <2>6 DEF IInv
<1> QED BY <1>3, <1>4 DEF Accept

\* The loop turns away the connection it holds and has not tracked.
LEMMA RefuseKeeps ==
  ASSUME IInv, NEW c \in Conns, loop.at \in {"ip", "track"}, loop.conn = c, Refuse(c),
         UNCHANGED <<sid, registered, counts, security, online, timedOut>>
  PROVE  IInv'
<1>1. pc[c] = "accepted" /\ ConnTypeOK /\ Goto(c, "gone") /\ LoopTo("accept", NoConn)
  BY DEF IInv, LoopInv, Holding, Refuse
<1>2. /\ pc' \in [Conns -> PointLabels] /\ pc'[c] = "gone"
      /\ \A d \in Conns : d # c => pc'[d] = pc[d]
      /\ AtOneOf(Counted)' = AtOneOf(Counted) /\ AtOneOf(Tracked)' = AtOneOf(Tracked)
      /\ AtOneOf(Waited)' = AtOneOf(Waited) /\ OnlineInv'
  BY <1>1, IdleMoves
<1>3. /\ loop'.at = "accept" /\ loop'.conn = NoConn
      /\ loop' \in [at : LoopLabels, conn : Conns \cup {NoConn}]
  BY <1>1, LoopMoves DEF LoopLabels
<1>4. LoopInv' /\ CountInv' /\ TrackInv'
  BY <1>2, <1>3 DEF IInv, LoopInv, CountInv, TrackInv, PerHostCount, LoopAt, Holding, counts
<1>5. ConnTypeOK' /\ BlockInv' /\ DrainInv'
  BY <1>2, <1>3 DEF IInv, ConnTypeOK, BlockInv, DrainInv, LoopAt, Passed, counts, security
<1> QED BY <1>2, <1>4, <1>5 DEF IInv

\* isIPBlocked refuses a blocked host and forgets a block that is over.
LEMMA CheckIPKeeps ==
  ASSUME IInv, NEW c \in Conns, CheckIP(c)
  PROVE  IInv'
<1> DEFINE h == HostOf[c]
<1>1. /\ loop.at = "ip" /\ loop.conn = c
      /\ UNCHANGED <<sid, registered, counts, online, timedOut>>
  BY DEF CheckIP, LoopAt, manager, stopping
<1>2. CASE Refuse(c) /\ UNCHANGED security
  BY <1>1, <1>2, RefuseKeeps
<1>3. CASE LoopTo("track", c) /\ UNCHANGED <<pc, admitted>> /\ blocked[h] # "on"
           /\ blocked' \in {blocked, [blocked EXCEPT ![h] = "no"]}
  <2>1. /\ loop'.at = "track" /\ loop'.conn = c
        /\ loop' \in [at : LoopLabels, conn : Conns \cup {NoConn}]
    BY <1>3, LoopMoves DEF LoopLabels, Holding
  <2>2. LoopInv' /\ CountInv'
    BY <1>1, <1>3, <2>1 DEF IInv, LoopInv, CountInv, AtOneOf, Holding, counts
  <2>3. TrackInv' /\ OnlineInv' /\ DrainInv'
    BY <1>1, <1>3, <2>1, OnlineSame
       DEF IInv, TrackInv, PerHostCount, AtOneOf, DrainInv, LoopAt, counts
  <2>4. /\ blocked' \in [Hosts -> {"no", "on", "over"}] /\ blocked'[h] # "on"
        /\ \A g \in Hosts : g # h => blocked'[g] = blocked[g]
    BY <1>3, ConnAssumption, SMTT(30) DEF IInv, ConnTypeOK
  <2>5. BlockInv'
    BY <1>3, <2>1, <2>4 DEF IInv, BlockInv
  <2>6. ConnTypeOK'
    BY <1>1, <1>3, <2>1, <2>4 DEF IInv, ConnTypeOK, counts
  <2> QED BY <2>2, <2>3, <2>5, <2>6 DEF IInv
<1> QED BY <1>2, <1>3 DEF CheckIP, security

\* tryTrackConn counts the connection for its host within the limit, or refuses.
LEMMA TrackKeeps ==
  ASSUME IInv, NEW c \in Conns, Track(c)
  PROVE  IInv'
<1> DEFINE h == HostOf[c]
<1>1. /\ loop.at = "track" /\ loop.conn = c
      /\ UNCHANGED <<sid, registered, active, connWG, security, online, timedOut>>
  BY DEF Track, LoopAt, manager, stopping
<1>2. CASE Refuse(c) /\ UNCHANGED <<tracked, ipConnCount>>
  BY <1>1, <1>2, RefuseKeeps DEF counts
<1>3. CASE /\ MaxPerHost = 0 \/ ipConnCount[h] < MaxPerHost
           /\ tracked' = tracked \cup {c}
           /\ ipConnCount' = [ipConnCount EXCEPT ![h] = ipConnCount[h] + 1]
           /\ LoopTo("spawn", c) /\ UNCHANGED pc
  <2>1. /\ loop'.at = "spawn" /\ loop'.conn = c
        /\ loop' \in [at : LoopLabels, conn : Conns \cup {NoConn}]
    BY <1>3, LoopMoves DEF LoopLabels, Holding
  <2>2. LoopInv' /\ CountInv'
    BY <1>1, <1>3, <2>1 DEF IInv, LoopInv, CountInv, AtOneOf, Holding
  <2>3. h \in Hosts /\ ipConnCount[h] \in Nat
    BY ConnAssumption DEF IInv, ConnTypeOK
  <2>4. c \notin tracked /\ tracked = AtOneOf(Tracked)
    BY <1>1 DEF IInv, LoopInv, TrackInv, AtOneOf, LoopAt, Tracked, Counted, Owning, Holding
  <2>5. Cardinality(OfHost(tracked', h)) = ipConnCount[h] + 1
    <3>1. IsFiniteSet(OfHost(tracked, h)) /\ ipConnCount[h] = Cardinality(OfHost(tracked, h))
      BY <2>3, FiniteHost
    <3>2. OfHost(tracked', h) = OfHost(tracked, h) \cup {c} /\ c \notin OfHost(tracked, h)
      BY <1>3, <2>4 DEF OfHost
    <3> QED BY <3>1, <3>2, FS_AddElement
  <2>6. /\ ipConnCount' \in [Hosts -> Nat] /\ ipConnCount'[h] = ipConnCount[h] + 1
        /\ \A g \in Hosts : g # h => ipConnCount'[g] = ipConnCount[g]
    <3> HIDE DEF h
    <3> QED BY <1>3, <2>3, SMTT(30) DEF IInv, ConnTypeOK
  <2>7. PerHostCount'
    <3>1. ASSUME NEW g \in Hosts
          PROVE  /\ ipConnCount'[g] = Cardinality(OfHost(tracked', g))
                 /\ MaxPerHost > 0 => ipConnCount'[g] <= MaxPerHost
      <4>1. CASE g = h
        <5> HIDE DEF h
        <5> QED BY <1>3, <2>3, <2>5, <2>6, <4>1, ConnAssumption, SMTT(30)
      <4>2. CASE g # h
        <5>1. OfHost(tracked', g) = OfHost(tracked, g)
          BY <1>3, <4>2 DEF OfHost
        <5> QED BY <2>6, <4>2, <5>1 DEF IInv, TrackInv, PerHostCount, OfHost
      <4> QED BY <4>1, <4>2
    <3> QED BY <3>1 DEF PerHostCount, OfHost
  <2>8. TrackInv'
    BY <1>3, <2>1, <2>4, <2>7 DEF TrackInv, AtOneOf, LoopAt
  <2>9. OnlineInv' /\ DrainInv'
    BY <1>1, <1>3, <2>1, OnlineSame DEF IInv, DrainInv, LoopAt
  <2>10. ConnTypeOK' /\ BlockInv'
    BY <1>1, <1>3, <2>1, <2>6 DEF IInv, ConnTypeOK, BlockInv, Passed, security
  <2> QED BY <2>2, <2>8, <2>9, <2>10 DEF IInv
<1> QED BY <1>2, <1>3 DEF Track

\* The handler starts, within the limit on all connections.
LEMMA SpawnKeeps ==
  ASSUME IInv, NEW c \in Conns, Spawn(c)
  PROVE  IInv'
<1> DEFINE h == HostOf[c]
<1>1. /\ loop.at = "spawn" /\ loop.conn = c /\ active' = active + 1 /\ connWG' = connWG + 1
      /\ Goto(c, "top") /\ LoopTo("accept", NoConn)
      /\ UNCHANGED <<sid, registered, tracked, ipConnCount, blocked, online, timedOut>>
  BY DEF Spawn, LoopAt, manager, stopping
<1>2. /\ "top" \in PointLabels /\ "top" \in Tracked /\ "top" \in Waited /\ "top" \in Counted
      /\ "top" \in Owning /\ "accepted" \notin Waited /\ "accepted" \notin Counted
      /\ "accepted" \notin Owning
  BY DEF PointLabels, Waited, Tracked, Counted, Owning
<1>3. ConnTypeOK /\ pc[c] = "accepted" /\ h \in Hosts
  BY <1>1, ConnAssumption DEF IInv, LoopInv, Holding
<1>4. /\ pc' \in [Conns -> PointLabels] /\ pc'[c] = "top"
      /\ \A d \in Conns : d # c => pc'[d] = pc[d]
  BY <1>1, <1>2, <1>3, OneMoves
<1>5. /\ loop'.at = "accept" /\ loop'.conn = NoConn
      /\ loop' \in [at : LoopLabels, conn : Conns \cup {NoConn}]
  BY <1>1, LoopMoves DEF LoopLabels
<1>6. LoopInv'
  BY <1>1, <1>4, <1>5 DEF IInv, LoopInv, Holding
<1>7. CountInv'
  <2>1. /\ Cardinality(AtOneOf(Counted)') = Cardinality(AtOneOf(Counted)) + 1
        /\ Cardinality(AtOneOf(Waited)') = Cardinality(AtOneOf(Waited)) + 1
    BY <1>1, <1>2, <1>3, OneCounted
  <2>2. active < MaxConnections /\ active \in Int /\ MaxConnections \in Nat
    BY <1>1, <1>3, ConnAssumption DEF IInv, CountInv, Holding, ConnTypeOK
  <2> QED BY <1>1, <1>5, <2>1, <2>2, SMTT(30) DEF IInv, CountInv, Holding
<1>8. TrackInv'
  <2>1. AtOneOf(Tracked)' = AtOneOf(Tracked) \cup {c}
    BY <1>1, <1>2, <1>3, OneMoves
  <2> QED BY <1>1, <1>5, <2>1 DEF IInv, TrackInv, PerHostCount, LoopAt
<1>9. OnlineInv'
  BY <1>1, <1>2, <1>3, OnlineMoves
<1>10. admitted' \in [Hosts -> Nat] /\ BlockInv'
  <2>1. /\ admitted \in [Hosts -> Nat] /\ BlockInv
        /\ blocked[h] = "on" => admitted[h] = 0
    BY <1>1, <1>3 DEF IInv, ConnTypeOK, BlockInv, Passed
  <2>2. admitted' = [admitted EXCEPT ![h] = IF blocked[h] = "on" THEN admitted[h] + 1
                                            ELSE admitted[h]]
    BY DEF Spawn
  <2> HIDE DEF h
  <2>3. /\ admitted' \in [Hosts -> Nat]
        /\ blocked[h] = "on" => admitted'[h] = 1
        /\ \A g \in Hosts : g # h => admitted'[g] = admitted[g]
    BY <1>3, <2>1, <2>2, SMTT(30)
  <2> QED BY <1>1, <1>5, <2>1, <2>3, SMTT(30) DEF BlockInv, Passed
<1>11. ConnTypeOK' /\ DrainInv'
  BY <1>1, <1>3, <1>4, <1>5, <1>10, SMTT(30) DEF ConnTypeOK, DrainInv, LoopAt
<1> QED BY <1>6, <1>7, <1>8, <1>9, <1>10, <1>11 DEF IInv

\* The shutdown: Accept fails, the connections are closed and the drain ends.
LEMMA ShutdownKeeps ==
  ASSUME IInv, AcceptFails \/ CloseAllConns \/ Drain \/ DrainTimeout
  PROVE  IInv'
<1>1. /\ loop.at \in {"accept", "close", "drain"} /\ timedOut' \in {timedOut, TRUE}
      /\ UNCHANGED <<pc, sid, registered, counts, security, online>>
  BY DEF AcceptFails, CloseAllConns, Drain, DrainTimeout, LoopAt, manager, stopping
<1>2. /\ loop'.at \in {"close", "drain", "returned"} /\ loop'.conn = NoConn
      /\ loop' \in [at : LoopLabels, conn : Conns \cup {NoConn}]
  BY LoopMoves DEF AcceptFails, CloseAllConns, Drain, DrainTimeout, LoopLabels
<1>3. loop'.at = "returned" /\ ~timedOut' => connWG = 0
  BY <1>2, LoopMoves, SMTT(30) DEF AcceptFails, CloseAllConns, Drain, DrainTimeout, Drained
<1>4. DrainInv'
  BY <1>1, <1>3 DEF DrainInv, LoopAt, counts
<1>5. LoopInv' /\ CountInv' /\ TrackInv'
  BY <1>1, <1>2 DEF IInv, LoopInv, CountInv, TrackInv, PerHostCount, AtOneOf, LoopAt,
                    Holding, counts
<1>6. ConnTypeOK' /\ BlockInv' /\ OnlineInv'
  BY <1>1, <1>2, OnlineSame DEF IInv, ConnTypeOK, BlockInv, Passed, counts, security
<1> QED BY <1>4, <1>5, <1>6 DEF IInv

\* The context, the clock and the ends of blocks.
LEMMA ClockKeeps ==
  ASSUME IInv,
         \/ Cancel \/ StopListening
         \/ \E c \in Conns : WindowPasses(c) \/ HeartbeatPasses(c)
         \/ \E h \in Hosts : BlockEnds(h) \/ ViolationAges(h)
         \/ UNCHANGED vars
  PROVE  IInv'
<1>1. /\ UNCHANGED <<loop, pc, sid, registered, counts, online, admitted, timedOut>>
      /\ \/ UNCHANGED blocked
         \/ \E h \in Hosts : blocked' = [blocked EXCEPT ![h] = "over"]
  BY DEF Cancel, StopListening, WindowPasses, HeartbeatPasses, BlockEnds, ViolationAges,
         vars, security, manager, stopping, clocks
<1>2. /\ blocked' \in [Hosts -> {"no", "on", "over"}]
      /\ \A g \in Hosts : blocked'[g] = "on" => blocked[g] = "on"
  BY <1>1 DEF IInv, ConnTypeOK
<1>3. ConnTypeOK' /\ BlockInv' /\ OnlineInv'
  BY <1>1, <1>2, OnlineSame DEF IInv, ConnTypeOK, BlockInv, counts
<1>4. LoopInv' /\ CountInv' /\ TrackInv' /\ DrainInv'
  BY <1>1 DEF IInv, LoopInv, CountInv, TrackInv, DrainInv, PerHostCount, AtOneOf, LoopAt, counts
<1> QED BY <1>3, <1>4 DEF IInv

\* The server starts in the invariant.
LEMMA InitKeeps == Init => IInv
<1> SUFFICES ASSUME Init PROVE IInv
  OBVIOUS
<1>1. ConnTypeOK
  BY SMTT(30) DEF Init, ConnTypeOK, PointLabels, LoopLabels
<1>2. /\ AtOneOf(Counted) = {} /\ AtOneOf(Tracked) = {} /\ AtOneOf(Waited) = {}
  BY DEF Init, AtOneOf, Waited, Tracked, Counted, Owning
<1>3. Cardinality({}) = 0
  BY FS_EmptySet
<1>4. LoopInv /\ CountInv
  BY <1>2, <1>3, ConnAssumption, SMTT(30) DEF Init, LoopInv, CountInv, Holding
<1>5. TrackInv
  <2>1. \A h \in Hosts : {c \in tracked : HostOf[c] = h} = {} /\ ipConnCount[h] = 0
    BY DEF Init
  <2> QED BY <1>2, <1>3, <2>1, ConnAssumption, SMTT(30) DEF Init, TrackInv, PerHostCount, LoopAt
<1>6. OnlineInv /\ BlockInv /\ DrainInv
  BY DEF Init, OnlineInv, Online, BlockInv, DrainInv, LoopAt
<1> QED BY <1>1, <1>4, <1>5, <1>6 DEF IInv

\* Every step keeps the invariant.
LEMMA NextKeeps == IInv /\ [Next]_vars => IInv'
<1> SUFFICES ASSUME IInv, [Next]_vars PROVE IInv'
  OBVIOUS
<1>1. ASSUME NEW c \in Conns, LoopStep(c) PROVE IInv'
  BY <1>1, AcceptKeeps, CheckIPKeeps, TrackKeeps, SpawnKeeps DEF LoopStep
<1>2. ASSUME NEW c \in Conns,
             HandlerStep(c) \/ ReadTimeout(c) \/ ReadFails(c) \/ Frame(c)
      PROVE  IInv'
  BY <1>2, HandlerKeeps, RegistrationAckKeeps, MarkOfflineKeeps, InactiveKeeps,
     UntrackKeeps, DoneKeeps DEF HandlerStep
<1> QED BY <1>1, <1>2, CreateKeeps, ShutdownKeeps, ClockKeeps DEF Next
-----------------------------------------------------------------------------
\* Theorems

\* The sessions that are online belong to different connections, so there are
\* no more of them than connections in a set that has them all.
LEMMA OnlineInjects ==
  ASSUME IInv, NEW S \in SUBSET Conns, \A id \in Online : online[id] \in S
  PROVE  Cardinality(Online) \in Nat /\ Cardinality(Online) <= Cardinality(S)
<1> DEFINE f == [id \in Online |-> online[id]]
<1>1. IsFiniteSet(S)
  BY ConnAssumption, FS_Subset
<1>2. f \in Injection(Online, S)
  <2>1. f \in [Online -> S]
    OBVIOUS
  <2>2. \A a, b \in Online : f[a] = f[b] => a = b
    BY DEF IInv, OnlineInv
  <2> QED BY <2>1, <2>2 DEF Injection, IsInjective
<1> HIDE DEF f
<1>3. IsFiniteSet(Online) /\ Cardinality(Online) <= Cardinality(S)
  BY <1>1, <1>2, FS_Injection
<1> QED BY <1>3, FS_CardinalityType

\* However handlers, the accept loop and the shutdown interleave: a session is
\* online only through the connection that was given it, active counts the
\* handlers that have not been through the deferred decrement, no more sessions
\* are online than active connections, and these keep to MaxConnections.
THEOREM OnlineIsCounted == Spec => []OnlineCounted
<1>1. IInv => OnlineCounted
  <2> SUFFICES ASSUME IInv PROVE OnlineCounted
    OBVIOUS
  <2>1. \A id \in Online : online[id] \in AtOneOf(Counted)
    BY DEF IInv, OnlineInv, ConnTypeOK, Online, AtOneOf, Counted
  <2>2. AtOneOf(Counted) \in SUBSET Conns
    BY DEF AtOneOf
  <2>3. Cardinality(Online) <= Cardinality(AtOneOf(Counted))
    BY <2>1, <2>2, OnlineInjects
  <2> QED BY <2>3 DEF IInv, OnlineInv, CountInv, OnlineCounted, AtOneOf
<1> QED BY <1>1, InitKeeps, NextKeeps, PTL DEF Spec

\* A connection that may register is counted and has no session, so fewer
\* sessions than MaxConnections are online: the limit in Create never refuses.
THEOREM CreateAlwaysHasRoom == Spec => []CreateHasRoom
<1>1. IInv => CreateHasRoom
  <2> SUFFICES ASSUME IInv, NEW c \in Conns, pc[c] = "read", c \notin registered
               PROVE  Cardinality(Online) < MaxConnections
    BY DEF CreateHasRoom
  <2> DEFINE A == AtOneOf(Counted)
  <2>1. c \in A /\ A \in SUBSET Conns /\ A \ {c} \in SUBSET Conns
    BY DEF AtOneOf, Counted, Owning
  <2>2. \A id \in Online : online[id] \in A \ {c}
    BY SMTT(30) DEF IInv, OnlineInv, ConnTypeOK, Online, AtOneOf, Counted
  <2>3. Cardinality(Online) \in Nat /\ Cardinality(Online) <= Cardinality(A \ {c})
    BY <2>1, <2>2, OnlineInjects
  <2>4. Cardinality(A \ {c}) = Cardinality(A) - 1 /\ Cardinality(A) \in Nat
    BY <2>1, FiniteAt, FS_RemoveElement
  <2>5. Cardinality(A) <= MaxConnections
    BY DEF IInv, CountInv
  <2> HIDE DEF A
  <2> QED BY <2>3, <2>4, <2>5, ConnAssumption, SMTT(30)
<1> QED BY <1>1, InitKeeps, NextKeeps, PTL DEF Spec

\* tryTrackConn and untrackConn keep the count of every host right and within
\* MaxConnectionsPerIP, in every order in which handlers end and start.
THEOREM HostsCounted == Spec => []PerHostCount
<1>1. IInv => PerHostCount
  BY DEF IInv, TrackInv
<1> QED BY <1>1, InitKeeps, NextKeeps, PTL DEF Spec

\* While a host is blocked at most one handler starts for it, whenever in the
\* accept loop the block begins.
THEOREM BlockKeepsOut == Spec => []BlockHolds
<1>1. IInv => BlockHolds
  BY DEF IInv, BlockInv, BlockHolds
<1> QED BY <1>1, InitKeeps, NextKeeps, PTL DEF Spec

\* When Run returns because the wait group is empty, no handler, tracked
\* connection or online session is left.
THEOREM DrainLeavesNothing == Spec => []DrainedClean
<1>1. IInv => DrainedClean
  <2> SUFFICES ASSUME IInv, loop.at = "returned", ~timedOut
               PROVE  /\ \A c \in Conns : pc[c] \in {"away", "gone"}
                      /\ tracked = {} /\ active = 0 /\ connWG = 0 /\ Online = {}
    BY DEF DrainedClean, LoopAt
  <2>1. connWG = 0 /\ Cardinality(AtOneOf(Waited)) = 0
    BY DEF IInv, DrainInv, LoopAt, CountInv
  <2>2. AtOneOf(Waited) = {}
    BY <2>1, FiniteAt, FS_EmptySet
  <2>3. /\ Counted \subseteq Waited /\ Tracked \subseteq Waited /\ Owning \subseteq Waited
        /\ PointLabels = Waited \cup {"away", "accepted", "gone"} /\ "returned" \notin Holding
    BY DEF PointLabels, Waited, Tracked, Counted, Holding
  <2>4. \A c \in Conns : pc[c] \in {"away", "gone"}
    BY <2>2, <2>3 DEF IInv, ConnTypeOK, LoopInv, AtOneOf
  <2>5. AtOneOf(Counted) = {} /\ AtOneOf(Tracked) = {}
    BY <2>2, <2>3 DEF AtOneOf
  <2>6. tracked = {} /\ active = 0
    BY <2>5, FS_EmptySet DEF IInv, TrackInv, CountInv, LoopAt
  <2>7. Online = {}
    BY <2>2, <2>3, SMTT(30) DEF IInv, OnlineInv, ConnTypeOK, Online, AtOneOf
  <2> QED BY <2>1, <2>4, <2>6, <2>7
<1> QED BY <1>1, InitKeeps, NextKeeps, PTL DEF Spec

-----------------------------------------------------------------------------
\* Observability

\* The histogram

\* The bounds are numbers, each larger than the one before.
LEMMA BoundsType ==
  /\ Len(Bounds) \in Nat /\ DOMAIN Bounds = 1..Len(Bounds)
  /\ \A i \in DOMAIN Bounds : i \in Int /\ Bounds[i] \in Int
  /\ \A i \in DOMAIN Bounds : i + 1 \in DOMAIN Bounds => Bounds[i] < Bounds[i + 1]
<1>1. /\ Bounds \in Seq(Int)
      /\ \A i \in 1..(Len(Bounds) - 1) : Bounds[i] < Bounds[i + 1]
  BY ObservabilityAssumption
<1> QED  BY <1>1, SMTT(30)

\* Later bounds are larger.
LEMMA BoundsGrow ==
  \A i, j \in DOMAIN Bounds : i < j => Bounds[i] < Bounds[j]
<1> USE BoundsType
<1>1. SUFFICES ASSUME NEW i \in DOMAIN Bounds
      PROVE  \A j \in DOMAIN Bounds : i < j => Bounds[i] < Bounds[j]
  OBVIOUS
<1> DEFINE A == {n \in Nat : i + n + 1 \in DOMAIN Bounds => Bounds[i] < Bounds[i + n + 1]}
<1>2. 0 \in A
  BY SMTT(30)
<1>3. ASSUME NEW n \in Nat, n \in A PROVE n + 1 \in A
  BY <1>3, SMTT(30)
<1>4. Nat \subseteq A
  <2> HIDE DEF A
  <2> QED  BY <1>2, <1>3, AllNumbers
<1>5. ASSUME NEW j \in DOMAIN Bounds, i < j PROVE Bounds[i] < Bounds[j]
  <2>1. j - i - 1 \in A
    BY <1>4, <1>5, SMTT(30)
  <2> QED  BY <2>1, <1>5, SMTT(30)
<1> QED  BY <1>5

\* A bound that a latency does not exceed has the latency's bucket at or below it.
LEMMA BucketBelow ==
  ASSUME NEW l \in Int, NEW i \in DOMAIN Bounds, l <= Bounds[i]
  PROVE  \E b \in 1..i : b \in Bucket(l)
<1> USE BoundsType
<1> DEFINE A == {n \in Nat : n \in DOMAIN Bounds /\ l <= Bounds[n]
                               => \E b \in 1..n : b \in Bucket(l)}
           B == {n \in Nat : \A m \in 0..n : m \in A}
<1>1. 0 \in B
  BY SMTT(30)
<1>2. ASSUME NEW n \in Nat, n \in B PROVE n + 1 \in B
  <2>1. ASSUME n + 1 \in DOMAIN Bounds, l <= Bounds[n + 1]
        PROVE  \E b \in 1..(n + 1) : b \in Bucket(l)
    <3>1. CASE \A j \in 1..n : Bounds[j] < l
      <4>1. n + 1 \in Bucket(l)
        BY <2>1, <3>1, SMTT(30) DEF Bucket
      <4> QED  BY <4>1, SMTT(30)
    <3>2. CASE \E j \in 1..n : ~(Bounds[j] < l)
      <4>1. PICK j \in 1..n : ~(Bounds[j] < l)
        BY <3>2
      <4>2. j \in A
        <5>1. j \in 0..n
          BY <4>1, SMTT(30)
        <5> HIDE DEF A
        <5> QED  BY <1>2, <5>1
      <4>3. j \in DOMAIN Bounds /\ l <= Bounds[j]
        BY <2>1, <4>1, SMTT(30)
      <4>4. PICK b \in 1..j : b \in Bucket(l)
        BY <4>2, <4>3
      <4> QED  BY <4>4, SMTT(30)
    <3> QED  BY <3>1, <3>2
  <2>2. n + 1 \in A
    BY <2>1, SMTT(30)
  <2>3. \A m \in 0..(n + 1) : m \in 0..n \/ m = n + 1
    BY SMTT(30)
  <2>4. n + 1 \in Nat
    BY SMTT(30)
  <2> HIDE DEF A
  <2> QED  BY <1>2, <2>2, <2>3, <2>4
<1>3. Nat \subseteq B
  <2> HIDE DEF B
  <2> QED  BY <1>1, <1>2, AllNumbers
<1>4. i \in Nat /\ i \in 0..i
  BY SMTT(30)
<1>5. i \in A
  BY <1>3, <1>4
<1> QED  BY <1>4, <1>5

\* A latency has one bucket at most, and does not exceed the bounds from there on.
LEMMA BucketAbove ==
  ASSUME NEW l \in Int, NEW b \in Bucket(l)
  PROVE  /\ b \in DOMAIN Bounds
         /\ \A i \in DOMAIN Bounds : b <= i => l <= Bounds[i]
         /\ \A i \in Bucket(l) : i = b
<1> USE BoundsType
<1>1. b \in DOMAIN Bounds /\ l <= Bounds[b]
  BY DEF Bucket
<1>2. ASSUME NEW i \in DOMAIN Bounds, b <= i PROVE l <= Bounds[i]
  BY <1>1, <1>2, BoundsGrow, SMTT(30)
<1>3. ASSUME NEW i \in Bucket(l) PROVE i = b
  BY <1>3, SMTT(30) DEF Bucket
<1> QED  BY <1>1, <1>2, <1>3

-----------------------------------------------------------------------------
\* The invariant

StepNames == {"raw", "observe", "count", "events", "telemetry"}

\* A goroutine counts an ack right after its latency, and nothing else counts.
Paired(t) ==
  \A i \in DOMAIN t :
    /\ t[i] = "observe" => i + 1 \in DOMAIN t /\ t[i + 1] = "count"
    /\ i > 1 /\ t[i] = "count" => t[i - 1] = "observe"

Unobserved(t) == \A i \in DOMAIN t : t[i] # "observe"

Terminal(g) == isTerminalAckStatus(ack[g].status)

Steps ==
  /\ todo \in [Goroutines -> Seq(StepNames)]
  /\ ack \in [Goroutines -> Acks \cup {NoAck}]
  /\ \A g \in Goroutines :
       IF Terminal(g) THEN Paired(todo[g]) ELSE Unobserved(todo[g])

\* The goroutines that have counted a latency and not yet its ack.
Between == {g \in Goroutines : Terminal(g) /\ Owes(g, "count")}

Counters ==
  /\ ackStats \in [Statuses -> Int]
  /\ ackTerminalReasonStats \in [TerminalStatuses \X Labels -> Int]
  /\ ackLatencyCount \in Int
  /\ ackLatencyBucketCounts \in [DOMAIN Bounds -> Int]
  /\ observed \in [Latencies -> Int]

ReasonsAddUp ==
  \A s \in TerminalStatuses :
    SumFunctionOnSet(ackTerminalReasonStats, {s} \X Labels) = ackStats[s]

Within(i) == {l \in Latencies : l \in 0..Bounds[i]}
Known == {l \in Latencies : l >= 0}

BucketsAddUp ==
  /\ \A i \in DOMAIN Bounds : Cumulative(i) = SumFunctionOnSet(observed, Within(i))
  /\ ackLatencyCount = SumFunctionOnSet(observed, Known)

AcksFollow ==
  SumFunctionOnSet(observed, Latencies) = SumFunctionOnSet(ackStats, TerminalStatuses) + Cardinality(Between)

ScrapeInv == Steps /\ Counters /\ ReasonsAddUp /\ BucketsAddUp /\ AcksFollow

\* The sets that sums are taken over are finite.
LEMMA Finite ==
  /\ IsFiniteSet(Goroutines) /\ IsFiniteSet(Latencies) /\ IsFiniteSet(Labels)
  /\ IsFiniteSet(TerminalStatuses) /\ IsFiniteSet(Known)
  /\ \A s : IsFiniteSet({s} \X Labels)
  /\ \A i \in DOMAIN Bounds : IsFiniteSet(1..i) /\ IsFiniteSet(Within(i))
<1>1. /\ IsFiniteSet(Goroutines) /\ IsFiniteSet(Statuses) /\ IsFiniteSet(Labels)
      /\ IsFiniteSet(Latencies)
  BY ObservabilityAssumption
<1>2. IsFiniteSet(TerminalStatuses)
  BY <1>1, FS_Subset DEF TerminalStatuses
<1>3. IsFiniteSet(Known) /\ \A i \in DOMAIN Bounds : IsFiniteSet(Within(i))
  BY <1>1, FS_Subset DEF Known, Within
<1>4. \A s : IsFiniteSet({s} \X Labels)
  BY <1>1, FS_Singleton, FS_Product
<1>5. \A i \in DOMAIN Bounds : IsFiniteSet(1..i)
  BY FS_Interval, BoundsType, SMTT(30)
<1> QED  BY <1>1, <1>2, <1>3, <1>4, <1>5

\* Every sum of an answer of /metrics is a sum of numbers over a finite set.
LEMMA CountersSummable ==
  ASSUME Counters
  PROVE  /\ Summable(observed, Latencies) /\ Summable(observed, Known)
         /\ Summable(ackStats, TerminalStatuses)
         /\ \A s \in TerminalStatuses : Summable(ackTerminalReasonStats, {s} \X Labels)
         /\ \A i \in DOMAIN Bounds : /\ Summable(ackLatencyBucketCounts, 1..i)
                                     /\ Summable(observed, Within(i))
<1>1. \A s \in TerminalStatuses : ackStats[s] \in Int
  BY DEF Counters, TerminalStatuses
<1>2. \A l \in Latencies : observed[l] \in Int
  BY DEF Counters
<1>3. ASSUME NEW s \in TerminalStatuses, NEW k \in {s} \X Labels
      PROVE  ackTerminalReasonStats[k] \in Int
  BY DEF Counters
<1>4. ASSUME NEW i \in DOMAIN Bounds, NEW j \in 1..i
      PROVE  ackLatencyBucketCounts[j] \in Int
  <2>1. j \in DOMAIN Bounds
    BY BoundsType, SMTT(30)
  <2> QED  BY <2>1 DEF Counters
<1> QED  BY <1>1, <1>2, <1>3, <1>4, Finite DEF Summable, Known, Within

\* The invariant holds before anything is counted.
LEMMA ScrapeInit == ObsInit => ScrapeInv
<1> SUFFICES ASSUME ObsInit PROVE ScrapeInv
  OBVIOUS
<1> USE DEF ObsInit
<1>1. Steps
  BY SMTT(30) DEF Steps, Terminal, isTerminalAckStatus, NoAck, Unobserved
<1>2. Counters
  BY SMTT(30) DEF Counters
<1>3. ReasonsAddUp
  <2>1. ASSUME NEW s \in TerminalStatuses
        PROVE  SumFunctionOnSet(ackTerminalReasonStats, {s} \X Labels) = 0 /\ ackStats[s] = 0
    <3>1. \A k \in {s} \X Labels : ackTerminalReasonStats[k] = 0
      OBVIOUS
    <3>2. ackStats[s] = 0
      BY DEF TerminalStatuses
    <3> QED  BY <3>1, <3>2, Finite, SumZero
  <2> QED  BY <2>1 DEF ReasonsAddUp
<1>4. BucketsAddUp
  <2>1. ASSUME NEW i \in DOMAIN Bounds
        PROVE  Cumulative(i) = 0 /\ SumFunctionOnSet(observed, Within(i)) = 0
    <3>1. \A j \in 1..i : ackLatencyBucketCounts[j] = 0
      BY BoundsType, SMTT(30)
    <3>2. \A l \in Within(i) : observed[l] = 0
      BY DEF Within
    <3> QED  BY <3>1, <3>2, Finite, SumZero DEF Cumulative
  <2>2. SumFunctionOnSet(observed, Known) = 0
    BY Finite, SumZero DEF Known
  <2> QED  BY <2>1, <2>2 DEF BucketsAddUp
<1>5. AcksFollow
  <2>1. Between = {}
    BY SMTT(30) DEF Between, Owes
  <2>2. SumFunctionOnSet(observed, Latencies) = 0
    BY Finite, SumZero
  <2>3. SumFunctionOnSet(ackStats, TerminalStatuses) = 0
    BY Finite, SumZero DEF TerminalStatuses
  <2> QED  BY <2>1, <2>2, <2>3, FS_EmptySet, SMTT(30) DEF AcksFollow
<1> QED  BY <1>1, <1>2, <1>3, <1>4, <1>5 DEF ScrapeInv

\* A goroutine without steps is one whose list of steps has no entry.
LEMMA EmptyLen == ASSUME NEW s \in Seq(StepNames) PROVE s = <<>> <=> Len(s) = 0
  BY SMTT(30)

\* What a step that is done leaves of the list of steps.
LEMMA TailShape ==
  ASSUME NEW t \in Seq(StepNames), t # <<>>
  PROVE  /\ Tail(t) \in Seq(StepNames) /\ Len(t) \in Nat \ {0} /\ Head(t) = t[1]
         /\ Paired(t) => Paired(Tail(t))
         /\ Unobserved(t) => Unobserved(Tail(t))
         /\ Unobserved(t) => Head(t) # "observe"
         /\ Tail(t) # <<>> /\ Paired(t) => (Head(Tail(t)) = "count" <=> Head(t) = "observe")
         /\ Paired(t) /\ Head(t) = "observe" => Tail(t) # <<>>
         /\ Len(t) = 1 <=> Tail(t) = <<>>
<1>1. /\ Tail(t) \in Seq(StepNames) /\ Len(t) \in Nat \ {0} /\ Head(t) = t[1]
      /\ Len(Tail(t)) = Len(t) - 1
      /\ DOMAIN t = 1..Len(t) /\ DOMAIN Tail(t) = 1..(Len(t) - 1)
      /\ \A i \in 1..(Len(t) - 1) : Tail(t)[i] = t[i + 1]
      /\ Len(t) = 1 <=> Tail(t) = <<>>
      /\ Tail(t) # <<>> => Head(Tail(t)) = t[2]
  <2>1. Len(t) \in Nat \ {0} /\ Head(t) = t[1] /\ DOMAIN t = 1..Len(t)
    BY SMTT(30)
  <2>2. Tail(t) \in Seq(StepNames) /\ Len(Tail(t)) = Len(t) - 1
    BY <2>1, SMTT(30)
  <2>3. DOMAIN Tail(t) = 1..(Len(t) - 1)
    BY <2>2, SMTT(30)
  <2>4. \A i \in 1..(Len(t) - 1) : Tail(t)[i] = t[i + 1]
    BY <2>1, SMTT(30)
  <2>5. Len(t) = 1 <=> Tail(t) = <<>>
    <3>1. Tail(t) = <<>> <=> Len(Tail(t)) = 0
      BY <2>2, EmptyLen
    <3> QED  BY <2>1, <2>2, <3>1, SMTT(30)
  <2>6. Tail(t) # <<>> => Head(Tail(t)) = t[2]
    <3>1. Tail(t) # <<>> => Head(Tail(t)) = Tail(t)[1] /\ 1 \in 1..(Len(t) - 1)
      BY <2>1, <2>2, <2>5, SMTT(30)
    <3> QED  BY <2>4, <3>1, SMTT(30)
  <2> QED  BY <2>1, <2>2, <2>3, <2>4, <2>5, <2>6
<1>2. Paired(t) => Paired(Tail(t))
  BY <1>1, SMTT(30) DEF Paired
<1>3. Unobserved(t) => Unobserved(Tail(t)) /\ Head(t) # "observe"
  BY <1>1, SMTT(30) DEF Unobserved
<1>4. Tail(t) # <<>> /\ Paired(t) => (Head(Tail(t)) = "count" <=> Head(t) = "observe")
  <2>1. SUFFICES ASSUME Tail(t) # <<>>, Paired(t)
                 PROVE  t[2] = "count" <=> t[1] = "observe"
    BY <1>1
  <2>2. 1 \in DOMAIN t /\ 2 \in DOMAIN t
    BY <1>1, <2>1, SMTT(30)
  <2>3. t[1] = "observe" => t[1 + 1] = "count"
    BY <2>1, <2>2 DEF Paired
  <2>4. t[2] = "count" => t[2 - 1] = "observe"
    BY <2>1, <2>2, SMTT(30) DEF Paired
  <2> QED  BY <2>3, <2>4, SMTT(30)
<1>5. Paired(t) /\ Head(t) = "observe" => Tail(t) # <<>>
  BY <1>1, SMTT(30) DEF Paired
<1> QED  BY <1>1, <1>2, <1>3, <1>4, <1>5

\* A goroutine without an ack has no terminal one.
LEMMA NoAckPending == ~isTerminalAckStatus(NoAck.status)
  BY SMTT(30) DEF NoAck, isTerminalAckStatus

\* A step of a goroutine: after an observation it has an ack to count, and after
\* any other step it has none.
LEMMA FinishKeeps ==
  ASSUME Steps, NEW g \in Goroutines, todo[g] # <<>>, Finish(g)
  PROVE  /\ Steps'
         /\ Owes(g, "observe") => Terminal(g)
         /\ Between' = IF Owes(g, "observe") THEN Between \cup {g} ELSE Between \ {g}
<1> DEFINE t == todo[g]
<1>1. /\ t \in Seq(StepNames) /\ todo \in [Goroutines -> Seq(StepNames)]
      /\ ack \in [Goroutines -> Acks \cup {NoAck}]
  BY DEF Steps
<1>2. /\ todo' = [todo EXCEPT ![g] = Tail(@)] /\ todo'[g] = Tail(t)
      /\ ack'[g] = IF Len(t) = 1 THEN NoAck ELSE ack[g]
      /\ ack' = [ack EXCEPT ![g] = IF Len(todo[g]) = 1 THEN NoAck ELSE @]
  BY <1>1 DEF Finish
<1>3. \A h \in Goroutines \ {g} : todo'[h] = todo[h] /\ ack'[h] = ack[h]
  BY <1>1 DEF Finish
<1>4. IF Terminal(g) THEN Paired(t) ELSE Unobserved(t)
  BY DEF Steps
<1>5. IF Terminal(g)' THEN Paired(todo'[g]) ELSE Unobserved(todo'[g])
  <2>1. CASE Len(t) = 1
    <3>1. Tail(t) = <<>>
      BY <1>1, <2>1, TailShape
    <3>2. Unobserved(<<>>)
      BY SMTT(30) DEF Unobserved
    <3> QED  BY <1>2, <2>1, <3>1, <3>2, NoAckPending DEF Terminal
  <2>2. CASE Len(t) # 1
    BY <1>1, <1>2, <1>4, <2>2, TailShape DEF Terminal
  <2> QED  BY <2>1, <2>2
<1>6. Steps'
  <2>1. todo' \in [Goroutines -> Seq(StepNames)]
    BY <1>1, <1>2, TailShape
  <2>2. ack' \in [Goroutines -> Acks \cup {NoAck}]
    BY <1>1, <1>2
  <2>3. ASSUME NEW h \in Goroutines
        PROVE  IF Terminal(h)' THEN Paired(todo'[h]) ELSE Unobserved(todo'[h])
    BY <1>3, <1>5 DEF Steps, Terminal
  <2> QED  BY <2>1, <2>2, <2>3 DEF Steps
<1>7. Owes(g, "observe") => Terminal(g)
  BY <1>1, <1>4, TailShape DEF Owes
<1>8. g \in Between' <=> Owes(g, "observe")
  <2>1. ASSUME g \in Between' PROVE Owes(g, "observe")
    <3>1. Tail(t) # <<>> /\ Head(Tail(t)) = "count" /\ Terminal(g)'
      BY <1>2, <2>1 DEF Between, Owes
    <3>2. Len(t) # 1 /\ Terminal(g)
      BY <1>1, <1>2, <3>1, TailShape DEF Terminal
    <3> QED  BY <1>1, <1>4, <3>1, <3>2, TailShape DEF Owes
  <2>2. ASSUME Owes(g, "observe") PROVE g \in Between'
    <3>1. Tail(t) # <<>> /\ Head(Tail(t)) = "count" /\ Len(t) # 1
      BY <1>1, <1>4, <1>7, <2>2, TailShape DEF Owes
    <3>2. Terminal(g)'
      BY <1>2, <1>7, <2>2, <3>1 DEF Terminal
    <3> QED  BY <1>2, <3>1, <3>2 DEF Between, Owes
  <2> QED  BY <2>1, <2>2
<1>9. \A h \in Goroutines \ {g} : h \in Between' <=> h \in Between
  BY <1>3 DEF Between, Owes, Terminal
<1>10. Between \subseteq Goroutines /\ Between' \subseteq Goroutines
  BY DEF Between
<1>11. Between' = IF Owes(g, "observe") THEN Between \cup {g} ELSE Between \ {g}
  <2> HIDE DEF Between
  <2> DEFINE B == Between
             C == Between'
             o == Owes(g, "observe")
  <2>1. /\ g \in C <=> o
        /\ \A h \in Goroutines \ {g} : h \in C <=> h \in B
        /\ B \subseteq Goroutines /\ C \subseteq Goroutines
    BY <1>8, <1>9, <1>10
  <2> HIDE DEF B, C, o
  <2>2. C = IF o THEN B \cup {g} ELSE B \ {g}
    <3>1. CASE o
      BY <2>1, <3>1
    <3>2. CASE ~o
      BY <2>1, <3>2
    <3> QED  BY <3>1, <3>2
  <2> QED  BY <2>2 DEF B, C, o
<1> QED  BY <1>6, <1>7, <1>11

\* The steps of an activity pair the latency of a terminal ack with the ack, and
\* have none for other acks; they do not begin by counting.
Fitting(a, steps) ==
  /\ steps \in Seq(StepNames)
  /\ IF isTerminalAckStatus(a.status)
     THEN Paired(steps) /\ Head(steps) # "count"
     ELSE Unobserved(steps)

\* Steps put one after the other.
LEMMA JoinedAt ==
  ASSUME NEW S, NEW s \in Seq(S), NEW t \in Seq(S)
  PROVE  /\ s \o t \in Seq(S) /\ Len(s \o t) = Len(s) + Len(t)
         /\ Len(s) \in Nat /\ Len(t) \in Nat
         /\ DOMAIN s = 1..Len(s) /\ DOMAIN t = 1..Len(t)
         /\ DOMAIN (s \o t) = 1..(Len(s) + Len(t))
         /\ \A i \in 1..Len(s) : (s \o t)[i] = s[i]
         /\ \A i \in 1..Len(t) : (s \o t)[Len(s) + i] = t[i]
  BY SMTT(30)

\* Lists of steps that are put together, as publishAck's with the others of a
\* message.
LEMMA Joined ==
  ASSUME NEW s \in Seq(StepNames), NEW t \in Seq(StepNames)
  PROVE  /\ s \o t \in Seq(StepNames)
         /\ Unobserved(s) /\ Unobserved(t) => Unobserved(s \o t)
         /\ s # <<>> => Head(s \o t) = Head(s)
         /\ Paired(s) /\ Paired(t) /\ (t # <<>> => Head(t) # "count") => Paired(s \o t)
<1>1. /\ s \o t \in Seq(StepNames) /\ Len(s \o t) = Len(s) + Len(t)
      /\ Len(s) \in Nat /\ Len(t) \in Nat
      /\ DOMAIN s = 1..Len(s) /\ DOMAIN t = 1..Len(t)
      /\ DOMAIN (s \o t) = 1..(Len(s) + Len(t))
      /\ \A i \in 1..Len(s) : (s \o t)[i] = s[i]
      /\ \A i \in 1..Len(t) : (s \o t)[Len(s) + i] = t[i]
  BY JoinedAt, SMTT(30)
<1>2. ASSUME NEW i \in 1..(Len(s) + Len(t))
      PROVE  IF i <= Len(s) THEN i \in 1..Len(s) /\ (s \o t)[i] = s[i]
             ELSE i - Len(s) \in 1..Len(t) /\ (s \o t)[i] = t[i - Len(s)]
  BY <1>1, SMTT(30)
<1>3. Unobserved(s) /\ Unobserved(t) => Unobserved(s \o t)
  BY <1>1, <1>2, SMTT(30) DEF Unobserved
<1>4. s # <<>> => Head(s \o t) = Head(s)
  <2>1. ASSUME s # <<>> PROVE Head(s \o t) = Head(s)
    <3>1. Len(s) # 0
      BY <2>1, EmptyLen
    <3>2. Head(s) = s[1] /\ Head(s \o t) = (s \o t)[1]
      BY <1>1, <3>1, SMTT(30)
    <3> QED  BY <1>1, <3>1, <3>2, SMTT(30)
  <2> QED  BY <2>1
<1>5. ASSUME Paired(s), Paired(t), t # <<>> => t[1] # "count" PROVE Paired(s \o t)
  <2>1. ASSUME NEW i \in 1..(Len(s) + Len(t)), (s \o t)[i] = "observe"
        PROVE  i + 1 \in 1..(Len(s) + Len(t)) /\ (s \o t)[i + 1] = "count"
    <3>1. CASE i <= Len(s)
      <4>1. i + 1 \in 1..Len(s) /\ s[i + 1] = "count"
        BY <1>1, <1>2, <1>5, <2>1, <3>1 DEF Paired
      <4> QED  BY <1>1, <4>1, SMTT(30)
    <3>2. CASE ~(i <= Len(s))
      <4>1. (i - Len(s)) + 1 \in 1..Len(t) /\ t[(i - Len(s)) + 1] = "count"
        BY <1>1, <1>2, <1>5, <2>1, <3>2 DEF Paired
      <4>2. (s \o t)[Len(s) + ((i - Len(s)) + 1)] = "count"
        BY <1>1, <4>1
      <4> QED  BY <1>1, <4>1, <4>2, SMTT(30)
    <3> QED  BY <3>1, <3>2
  <2>2. ASSUME NEW i \in 1..(Len(s) + Len(t)), i > 1, (s \o t)[i] = "count"
        PROVE  (s \o t)[i - 1] = "observe"
    <3>1. CASE i <= Len(s)
      <4>1. i \in DOMAIN s /\ s[i] = "count" /\ i - 1 \in 1..Len(s)
        BY <1>1, <1>2, <2>2, <3>1, SMTT(30)
      <4>2. s[i - 1] = "observe"
        BY <1>5, <2>2, <4>1 DEF Paired
      <4> QED  BY <1>1, <4>1, <4>2
    <3>2. CASE ~(i <= Len(s))
      <4> DEFINE j == i - Len(s)
      <4>1. j \in 1..Len(t) /\ t[j] = "count"
        BY <1>2, <2>2, <3>2
      <4>2. j # 1
        BY <1>1, <1>5, <4>1, EmptyLen, SMTT(30)
      <4>3. j \in DOMAIN t /\ j > 1 /\ j - 1 \in 1..Len(t) /\ Len(s) + (j - 1) = i - 1
        BY <1>1, <4>1, <4>2, SMTT(30)
      <4>4. t[j - 1] = "observe"
        BY <1>5, <4>1, <4>3 DEF Paired
      <4>5. (s \o t)[Len(s) + (j - 1)] = "observe"
        BY <1>1, <4>3, <4>4
      <4> QED  BY <4>3, <4>5
    <3> QED  BY <3>1, <3>2
  <2> QED  BY <1>1, <2>1, <2>2 DEF Paired
<1>6. t # <<>> => Head(t) = t[1]
  BY SMTT(30)
<1> QED  BY <1>1, <1>3, <1>4, <1>5, <1>6

\* The pieces that activities are made of.
LEMMA Tuples ==
  ASSUME NEW S, NEW w \in S, NEW x \in S, NEW y \in S, NEW z \in S
  PROVE  <<>> \in Seq(S) /\ <<w>> \in Seq(S) /\ <<w, x>> \in Seq(S)
           /\ <<w, x, y, z>> \in Seq(S)
  BY SMTT(30)

\* The lists of steps that activities are made of.
LEMMA Pieces ==
  /\ \A s \in {<<"observe">>, <<"raw">>} :
       s \in Seq(StepNames) /\ s # <<>> /\ Head(s) # "count"
  /\ \A s \in {<<>>, <<"raw">>, <<"count", "events">>, <<"events", "raw">>,
               <<"events", "telemetry">>, <<"events", "raw", "events", "telemetry">>} :
       s \in Seq(StepNames) /\ Unobserved(s)
  /\ Paired(<<"raw">>)
  /\ Paired(<<"events", "telemetry">>) /\ Head(<<"events", "telemetry">>) # "count"
  /\ Paired(<<"observe">> \o <<"count", "events">>)
<1>1. \A x \in StepNames : <<x>> # <<>> /\ Head(<<x>>) = x
  BY SMTT(30)
<1>2. /\ "raw" \in StepNames /\ "observe" \in StepNames /\ "count" \in StepNames
      /\ "events" \in StepNames /\ "telemetry" \in StepNames
  BY DEF StepNames
<1>3. /\ \A s \in {<<"observe">>, <<"raw">>} : s \in Seq(StepNames)
      /\ \A s \in {<<>>, <<"raw">>, <<"count", "events">>, <<"events", "raw">>,
                   <<"events", "telemetry">>, <<"events", "raw", "events", "telemetry">>} :
           s \in Seq(StepNames)
  BY <1>2, Tuples
<1>4. /\ Unobserved(<<>>) /\ Unobserved(<<"raw">>) /\ Unobserved(<<"count", "events">>)
      /\ Unobserved(<<"events", "raw">>) /\ Unobserved(<<"events", "telemetry">>)
      /\ Unobserved(<<"events", "raw", "events", "telemetry">>)
  BY SMTT(30) DEF Unobserved
<1>5. /\ Paired(<<"raw">>)
      /\ Paired(<<"events", "telemetry">>) /\ Head(<<"events", "telemetry">>) # "count"
  BY SMTT(30) DEF Paired
<1>6. Paired(<<"observe">> \o <<"count", "events">>)
  <2> DEFINE s == <<"observe">>
             t == <<"count", "events">>
  <2>1. s \in Seq(StepNames) /\ t \in Seq(StepNames)
    BY <1>3
  <2>2. Len(s) = 1 /\ Len(t) = 2 /\ s[1] = "observe" /\ t[1] = "count" /\ t[2] = "events"
    BY SMTT(30)
  <2> HIDE DEF s, t
  <2>3. /\ DOMAIN (s \o t) = 1..3 /\ (s \o t)[1] = "observe" /\ (s \o t)[2] = "count"
        /\ (s \o t)[3] = "events"
    <3>1. 1 \in 1..1 /\ 1 \in 1..2 /\ 2 \in 1..2 /\ 1 + 1 = 2 /\ 1 + 2 = 3
      BY SMTT(30)
    <3>2. /\ DOMAIN (s \o t) = 1..(Len(s) + Len(t))
          /\ \A i \in 1..Len(s) : (s \o t)[i] = s[i]
          /\ \A i \in 1..Len(t) : (s \o t)[Len(s) + i] = t[i]
      BY <2>1, JoinedAt, SMTT(30)
    <3> QED  BY <2>2, <3>1, <3>2
  <2>4. ASSUME NEW i \in 1..3 PROVE i = 1 \/ i = 2 \/ i = 3
    BY SMTT(30)
  <2>5. Paired(s \o t)
    <3>1. 1 + 1 = 2 /\ 2 - 1 = 1 /\ 2 \in 1..3 /\ ~(1 > 1)
      BY SMTT(30)
    <3> QED  BY <2>3, <2>4, <3>1 DEF Paired
  <2> QED  BY <2>5 DEF s, t
<1> QED  BY <1>1, <1>2, <1>3, <1>4, <1>5, <1>6

\* The lists of steps of the activities: a terminal ack is counted right after its
\* latency, and nothing else is.
LEMMA StepsFit ==
  ASSUME NEW a
  PROVE  /\ Fitting(a, <<"raw">> \o PublishAck(a) \o <<"events", "telemetry">>)
         /\ Fitting(a, PublishAck(a))
         /\ ~isTerminalAckStatus(a.status) =>
              /\ Fitting(a, <<"events", "raw">> \o PublishAck(a))
              /\ \A reply \in {<<>>, <<"events", "telemetry">>, <<"events", "raw">>,
                               <<"events", "raw", "events", "telemetry">>} :
                   Fitting(a, <<"raw">> \o reply)
<1>1. CASE isTerminalAckStatus(a.status)
  <2> DEFINE p == <<"observe">> \o <<"count", "events">>
  <2>1. PublishAck(a) = p
    BY <1>1 DEF PublishAck
  <2>2. p \in Seq(StepNames) /\ Head(p) = Head(<<"observe">>) /\ Head(<<"observe">>) = "observe"
    BY Pieces, Joined, SMTT(30)
  <2>3. /\ <<"raw">> \o p \in Seq(StepNames) /\ Paired(<<"raw">> \o p)
        /\ Head(<<"raw">> \o p) = Head(<<"raw">>)
    <3> HIDE DEF p
    <3> QED  BY <2>2, Pieces, Joined DEF p
  <2>4. PICK q : q = <<"raw">> \o p
    OBVIOUS
  <2>5. Paired(q \o <<"events", "telemetry">>) /\ q \o <<"events", "telemetry">> \in Seq(StepNames)
        /\ (q # <<>> => Head(q \o <<"events", "telemetry">>) = Head(q))
    BY <2>3, <2>4, Pieces, Joined
  <2>6. q # <<>>
    BY <2>2, <2>4, SMTT(30)
  <2> QED  BY <1>1, <2>1, <2>2, <2>3, <2>4, <2>5, <2>6, Pieces DEF Fitting
<1>2. CASE ~isTerminalAckStatus(a.status)
  <2>1. PublishAck(a) = <<"count", "events">>
    BY <1>2, SMTT(30) DEF PublishAck
  <2>2. Unobserved(<<"raw">> \o <<"count", "events">>) /\ <<"raw">> \o <<"count", "events">> \in Seq(StepNames)
    BY Pieces, Joined
  <2>3. Fitting(a, <<"raw">> \o PublishAck(a) \o <<"events", "telemetry">>)
    BY <1>2, <2>1, <2>2, Pieces, Joined DEF Fitting
  <2>4. Fitting(a, PublishAck(a)) /\ Fitting(a, <<"events", "raw">> \o PublishAck(a))
    BY <1>2, <2>1, Pieces, Joined DEF Fitting
  <2>5. ASSUME NEW reply \in {<<>>, <<"events", "telemetry">>, <<"events", "raw">>,
                              <<"events", "raw", "events", "telemetry">>}
        PROVE  Fitting(a, <<"raw">> \o reply)
    BY <1>2, Pieces, Joined DEF Fitting
  <2> QED  BY <2>3, <2>4, <2>5
<1> QED  BY <1>1, <1>2

\* An activity that begins counts nothing yet.
LEMMA BeginKeeps ==
  ASSUME Steps, NEW g \in Goroutines, NEW a \in Acks, NEW steps, Fitting(a, steps),
         Begin(g, a, steps)
  PROVE  Steps' /\ Between' = Between
<1>1. /\ todo \in [Goroutines -> Seq(StepNames)]
      /\ ack \in [Goroutines -> Acks \cup {NoAck}]
  BY DEF Steps
<1>2. /\ todo[g] = <<>> /\ todo'[g] = steps /\ ack'[g] = a
      /\ todo' \in [Goroutines -> Seq(StepNames)]
      /\ ack' \in [Goroutines -> Acks \cup {NoAck}]
  BY <1>1 DEF Begin, Fitting
<1>3. \A h \in Goroutines \ {g} : todo'[h] = todo[h] /\ ack'[h] = ack[h]
  BY <1>1 DEF Begin
<1>4. Steps'
  <2>1. ASSUME NEW h \in Goroutines
        PROVE  IF Terminal(h)' THEN Paired(todo'[h]) ELSE Unobserved(todo'[h])
    BY <1>2, <1>3 DEF Steps, Terminal, Fitting
  <2> QED  BY <1>2, <2>1 DEF Steps
<1>5. g \notin Between
  BY <1>2 DEF Between, Owes
<1>6. g \notin Between'
  BY <1>2 DEF Between, Owes, Terminal, Fitting
<1>7. \A h \in Goroutines \ {g} : h \in Between' <=> h \in Between
  BY <1>3 DEF Between, Owes, Terminal
<1>8. Between \subseteq Goroutines /\ Between' \subseteq Goroutines
  BY DEF Between
<1>9. Between' = Between
  <2> DEFINE B == Between
             C == Between'
  <2>1. /\ g \notin B /\ g \notin C /\ B \subseteq Goroutines /\ C \subseteq Goroutines
        /\ \A h \in Goroutines \ {g} : h \in C <=> h \in B
    BY <1>5, <1>6, <1>7, <1>8
  <2> HIDE DEF B, C
  <2>2. C = B
    BY <2>1, SMTT(30)
  <2> QED  BY <2>2 DEF B, C
<1> QED  BY <1>4, <1>9

\* What a terminal ack carries.
LEMMA TerminalAck ==
  ASSUME Steps, NEW g \in Goroutines, Terminal(g)
  PROVE  /\ ack[g].status \in TerminalStatuses /\ ack[g].label \in Labels
         /\ ack[g].latency \in Latencies
<1>1. ack[g] \in Acks \/ ack[g] = NoAck
  BY DEF Steps
<1>2. ack[g] # NoAck
  BY NoAckPending DEF Terminal
<1>3. ASSUME NEW s \in Statuses \ TerminalStatuses
      PROVE  ~isTerminalAckStatus([NoAck EXCEPT !.status = s].status)
  <2>1. [NoAck EXCEPT !.status = s].status = s
    BY SMTT(30) DEF NoAck
  <2> QED  BY <2>1 DEF TerminalStatuses
<1>4. ack[g] \in [status : TerminalStatuses, label : Labels, latency : Latencies]
  BY <1>1, <1>2, <1>3 DEF Acks, Terminal
<1> QED  BY <1>4, SMTT(30)

\* Steps that count nothing.
LEMMA NothingCounted ==
  ASSUME ScrapeInv, Steps', Between' = Between, UNCHANGED statVars
  PROVE  ScrapeInv'
<1>1. Counters' /\ ReasonsAddUp' /\ BucketsAddUp'
  BY DEF ScrapeInv, Counters, ReasonsAddUp, BucketsAddUp, Cumulative, statVars
<1>2. AcksFollow'
  BY DEF ScrapeInv, AcksFollow, statVars
<1> QED  BY <1>1, <1>2 DEF ScrapeInv

\* The goroutines between a latency and its ack are no more than there are, and
\* are counted one by one.
LEMMA BetweenFinite ==
  /\ IsFiniteSet(Between) /\ Cardinality(Between) \in Nat
  /\ Cardinality(Between) <= Cardinality(Goroutines)
  /\ \A g \in Goroutines \ Between : Cardinality(Between \cup {g}) = Cardinality(Between) + 1
  /\ \A g \in Between : Cardinality(Between \ {g}) = Cardinality(Between) - 1
<1>1. Between \subseteq Goroutines
  BY DEF Between
<1> HIDE DEF Between
<1>2. IsFiniteSet(Between) /\ Cardinality(Between) <= Cardinality(Goroutines)
  BY <1>1, Finite, FS_Subset
<1>3. Cardinality(Between) \in Nat
  BY <1>2, FS_CardinalityType
<1>4. ASSUME NEW g \in Goroutines \ Between
      PROVE  Cardinality(Between \cup {g}) = Cardinality(Between) + 1
  BY <1>2, FS_AddElement
<1>5. ASSUME NEW g \in Between
      PROVE  Cardinality(Between \ {g}) = Cardinality(Between) - 1
  BY <1>2, FS_RemoveElement
<1> QED  BY <1>2, <1>3, <1>4, <1>5

\* A latency is observed: it goes to the buckets from its own on, and to the count
\* unless it is negative.
LEMMA ObserveKeeps ==
  ASSUME ScrapeInv, NEW g \in Goroutines, ObserveAckLatency(g)
  PROVE  ScrapeInv'
<1> DEFINE l == ack[g].latency
<1>1. Steps /\ Counters /\ ReasonsAddUp /\ BucketsAddUp /\ AcksFollow
  BY DEF ScrapeInv
<1>2. Owes(g, "observe") /\ todo[g] # <<>> /\ Finish(g)
  BY DEF ObserveAckLatency, Owes
<1>3. Steps' /\ Terminal(g) /\ Between' = Between \cup {g}
  BY <1>1, <1>2, FinishKeeps
<1>4. l \in Latencies /\ l \in Int
  BY <1>1, <1>3, TerminalAck, ObservabilityAssumption
<1>5. /\ observed \in [Latencies -> Int] /\ observed' = [observed EXCEPT ![l] = @ + 1]
      /\ ackStats' = ackStats /\ ackTerminalReasonStats' = ackTerminalReasonStats
  BY <1>1 DEF ObserveAckLatency, Counters
<1>6. /\ observed' \in [Latencies -> Int] /\ observed'[l] = observed[l] + 1
      /\ \A m \in Latencies \ {l} : observed'[m] = observed[m]
  BY <1>4, <1>5, SMTT(30)
<1>7. ASSUME NEW S \in SUBSET Latencies, Summable(observed, S)
      PROVE  /\ l \in S => SumFunctionOnSet(observed', S) = SumFunctionOnSet(observed, S) + 1
             /\ l \notin S => SumFunctionOnSet(observed', S) = SumFunctionOnSet(observed, S)
  <2>1. ASSUME l \in S PROVE SumFunctionOnSet(observed', S) = SumFunctionOnSet(observed, S) + 1
    BY <1>6, <1>7, <2>1, SumBump, SMTT(30)
  <2>2. ASSUME l \notin S PROVE SumFunctionOnSet(observed', S) = SumFunctionOnSet(observed, S)
    BY <1>6, <1>7, <2>2, SumSame, SMTT(30) DEF Summable
  <2> QED  BY <2>1, <2>2
<1>8. AcksFollow'
  <2>1. SumFunctionOnSet(observed', Latencies) = SumFunctionOnSet(observed, Latencies) + 1
    BY <1>1, <1>4, <1>7, CountersSummable
  <2>2. g \notin Between
    BY <1>2, SMTT(30) DEF Between, Owes
  <2>3. Cardinality(Between') = Cardinality(Between) + 1 /\ Cardinality(Between) \in Nat
    BY <1>3, <2>2, BetweenFinite
  <2>4. /\ SumFunctionOnSet(observed, Latencies) \in Int
        /\ SumFunctionOnSet(ackStats, TerminalStatuses) \in Int
    BY <1>1, CountersSummable, SumInt
  <2>5. SumFunctionOnSet(observed, Latencies) = SumFunctionOnSet(ackStats, TerminalStatuses) + Cardinality(Between)
    BY <1>1 DEF AcksFollow
  <2>6. SumFunctionOnSet(observed', Latencies) = SumFunctionOnSet(ackStats, TerminalStatuses) + Cardinality(Between')
    BY <2>1, <2>3, <2>4, <2>5, SMTT(30)
  <2> QED  BY <1>5, <2>6 DEF AcksFollow
<1>9. ReasonsAddUp'
  BY <1>1, <1>5 DEF ReasonsAddUp
<1>10. Known \in SUBSET Latencies /\ \A i \in DOMAIN Bounds : Within(i) \in SUBSET Latencies
  BY DEF Known, Within
<1>11. CASE l < 0
  <2>1. ackLatencyCount' = ackLatencyCount /\ ackLatencyBucketCounts' = ackLatencyBucketCounts
    BY <1>4, <1>11, SMTT(30) DEF ObserveAckLatency
  <2>2. l \notin Known /\ \A i \in DOMAIN Bounds : l \notin Within(i)
    BY <1>4, <1>11, BoundsType, SMTT(30) DEF Known, Within
  <2>3. BucketsAddUp'
    BY <1>1, <1>7, <1>10, <2>1, <2>2, CountersSummable DEF BucketsAddUp, Cumulative
  <2>4. Counters'
    BY <1>1, <1>5, <1>6, <2>1 DEF Counters
  <2> QED  BY <1>3, <1>8, <1>9, <2>3, <2>4 DEF ScrapeInv
<1>12. CASE l >= 0
  <2>1. /\ ackLatencyCount' = ackLatencyCount + 1
        /\ ackLatencyBucketCounts' =
             [i \in DOMAIN Bounds |->
                ackLatencyBucketCounts[i] + (IF i \in Bucket(l) THEN 1 ELSE 0)]
    BY <1>4, <1>12, SMTT(30) DEF ObserveAckLatency
  <2>2. /\ ackLatencyCount \in Int /\ ackLatencyBucketCounts \in [DOMAIN Bounds -> Int]
        /\ ackLatencyCount = SumFunctionOnSet(observed, Known)
    BY <1>1 DEF Counters, BucketsAddUp
  <2>3. Counters'
    BY <1>1, <1>5, <1>6, <2>1, <2>2, SMTT(30) DEF Counters
  <2>4. ackLatencyCount' = SumFunctionOnSet(observed', Known)
    BY <1>1, <1>4, <1>7, <1>10, <1>12, <2>1, <2>2, CountersSummable DEF Known
  <2>5. ASSUME NEW i \in DOMAIN Bounds
        PROVE  SumFunctionOnSet(ackLatencyBucketCounts', 1..i) = SumFunctionOnSet(observed', Within(i))
    <3>1. SumFunctionOnSet(ackLatencyBucketCounts, 1..i) = SumFunctionOnSet(observed, Within(i))
      BY <1>1 DEF BucketsAddUp, Cumulative
    <3>2. /\ Summable(ackLatencyBucketCounts, 1..i) /\ Summable(observed, Within(i))
          /\ \A j \in 1..i : j \in DOMAIN Bounds
      BY <1>1, CountersSummable, BoundsType, SMTT(30)
    <3>3. CASE l <= Bounds[i]
      <4>1. l \in Within(i)
        BY <1>4, <1>12, <3>3, BoundsType, SMTT(30) DEF Within
      <4>2. PICK b \in 1..i : b \in Bucket(l)
        BY <1>4, <3>3, BucketBelow
      <4>3. /\ ackLatencyBucketCounts'[b] = ackLatencyBucketCounts[b] + 1
            /\ \A j \in (1..i) \ {b} : ackLatencyBucketCounts'[j] = ackLatencyBucketCounts[j]
        <5>1. \A j \in 1..i : j # b => j \notin Bucket(l)
          BY <1>4, <4>2, BucketAbove
        <5> QED  BY <2>1, <2>2, <3>2, <4>2, <5>1, SMTT(30)
      <4>4. SumFunctionOnSet(ackLatencyBucketCounts', 1..i) = SumFunctionOnSet(ackLatencyBucketCounts, 1..i) + 1
        BY <3>2, <4>2, <4>3, SumBump
      <4>5. SumFunctionOnSet(observed', Within(i)) = SumFunctionOnSet(observed, Within(i)) + 1
        BY <1>7, <1>10, <3>2, <4>1
      <4> QED  BY <3>1, <4>4, <4>5
    <3>4. CASE ~(l <= Bounds[i])
      <4>1. l \notin Within(i)
        BY <1>4, <3>4, BoundsType, SMTT(30) DEF Within
      <4>2. \A j \in 1..i : j \notin Bucket(l)
        BY <1>4, <3>2, <3>4, BucketAbove, SMTT(30)
      <4>3. \A j \in 1..i : ackLatencyBucketCounts'[j] = ackLatencyBucketCounts[j]
        BY <2>1, <2>2, <3>2, <4>2, SMTT(30)
      <4>4. SumFunctionOnSet(ackLatencyBucketCounts', 1..i) = SumFunctionOnSet(ackLatencyBucketCounts, 1..i)
        BY <3>2, <4>3, SumSame DEF Summable
      <4>5. SumFunctionOnSet(observed', Within(i)) = SumFunctionOnSet(observed, Within(i))
        BY <1>7, <1>10, <3>2, <4>1
      <4> QED  BY <3>1, <4>4, <4>5
    <3> QED  BY <3>3, <3>4
  <2>6. BucketsAddUp'
    BY <2>4, <2>5 DEF BucketsAddUp, Cumulative
  <2> QED  BY <1>3, <1>8, <1>9, <2>3, <2>6 DEF ScrapeInv
<1> QED  BY <1>4, <1>11, <1>12, SMTT(30)

\* An ack is counted under its status, and a terminal one under its reason too.
LEMMA CountKeeps ==
  ASSUME ScrapeInv, NEW g \in Goroutines, CountAck(g)
  PROVE  ScrapeInv'
<1> DEFINE s == ack[g].status
           k == <<s, ack[g].label>>
<1>1. Steps /\ Counters /\ ReasonsAddUp /\ BucketsAddUp /\ AcksFollow
  BY DEF ScrapeInv
<1>2. Owes(g, "count") /\ ~Owes(g, "observe") /\ todo[g] # <<>> /\ Finish(g)
  BY SMTT(30) DEF CountAck, Owes
<1>3. Steps' /\ Between' = Between \ {g}
  BY <1>1, <1>2, FinishKeeps
<1>4. /\ ackStats \in [Statuses -> Int] /\ ackStats' = [ackStats EXCEPT ![s] = @ + 1]
      /\ ackTerminalReasonStats \in [TerminalStatuses \X Labels -> Int]
      /\ ackTerminalReasonStats' = IF isTerminalAckStatus(s)
                                   THEN [ackTerminalReasonStats EXCEPT ![k] = @ + 1]
                                   ELSE ackTerminalReasonStats
      /\ observed' = observed /\ ackLatencyCount' = ackLatencyCount
      /\ ackLatencyBucketCounts' = ackLatencyBucketCounts
  BY <1>1 DEF CountAck, Counters
<1>5. BucketsAddUp'
  BY <1>1, <1>4 DEF BucketsAddUp, Cumulative
<1>6. Counters'
  <2>1. ackStats' \in [Statuses -> Int]
    <3> HIDE DEF s
    <3>1. \A r \in Statuses : ackStats'[r] = ackStats[r] + 1 \/ ackStats'[r] = ackStats[r]
      BY <1>4
    <3>2. \A r \in Statuses : ackStats'[r] \in Int
      BY <1>4, <3>1, SMTT(30)
    <3> QED  BY <1>4, <3>2
  <2>2. ackTerminalReasonStats' \in [TerminalStatuses \X Labels -> Int]
    <3> DEFINE R == TerminalStatuses \X Labels
    <3> HIDE DEF k, R
    <3>1. /\ ackTerminalReasonStats \in [R -> Int]
          /\ \/ ackTerminalReasonStats' = [ackTerminalReasonStats EXCEPT ![k] = @ + 1]
             \/ ackTerminalReasonStats' = ackTerminalReasonStats
      BY <1>4 DEF R
    <3>2. \A r \in R : \/ ackTerminalReasonStats'[r] = ackTerminalReasonStats[r] + 1
                      \/ ackTerminalReasonStats'[r] = ackTerminalReasonStats[r]
      BY <3>1
    <3>3. \A r \in R : ackTerminalReasonStats'[r] \in Int
      BY <3>1, <3>2, SMTT(30)
    <3>4. ackTerminalReasonStats' \in [R -> Int]
      BY <3>1, <3>3
    <3> QED  BY <3>4 DEF R
  <2> QED  BY <1>1, <1>4, <2>1, <2>2 DEF Counters
<1>7. CASE ~Terminal(g)
  <2>1. g \notin Between /\ Between' = Between
    BY <1>3, <1>7 DEF Between
  <2>2. \A r \in TerminalStatuses : ackStats'[r] = ackStats[r]
    BY <1>4, <1>7, SMTT(30) DEF TerminalStatuses, Terminal
  <2>3. SumFunctionOnSet(ackStats', TerminalStatuses) = SumFunctionOnSet(ackStats, TerminalStatuses)
    BY <2>2, Finite, SumSame
  <2>4. AcksFollow'
    BY <1>1, <1>4, <2>1, <2>3 DEF AcksFollow
  <2>5. ReasonsAddUp'
    BY <1>1, <1>4, <1>7, <2>2 DEF ReasonsAddUp, Terminal
  <2> QED  BY <1>3, <1>5, <1>6, <2>4, <2>5 DEF ScrapeInv
<1>8. CASE Terminal(g)
  <2>1. s \in TerminalStatuses /\ ack[g].label \in Labels /\ s \in Statuses
    BY <1>1, <1>8, TerminalAck DEF TerminalStatuses
  <2>2. /\ ackStats'[s] = ackStats[s] + 1
        /\ \A r \in TerminalStatuses \ {s} : ackStats'[r] = ackStats[r]
    BY <1>4, <2>1, SMTT(30) DEF TerminalStatuses
  <2>3. /\ ackTerminalReasonStats'[k] = ackTerminalReasonStats[k] + 1
        /\ \A j \in TerminalStatuses \X Labels :
             j # k => ackTerminalReasonStats'[j] = ackTerminalReasonStats[j]
    <3>1. k \in TerminalStatuses \X Labels
      BY <2>1
    <3>2. ackTerminalReasonStats' = [ackTerminalReasonStats EXCEPT ![k] = @ + 1]
      BY <1>4, <1>8 DEF Terminal
    <3> HIDE DEF k
    <3> QED  BY <1>4, <3>1, <3>2
  <2>4. SumFunctionOnSet(ackStats', TerminalStatuses) = SumFunctionOnSet(ackStats, TerminalStatuses) + 1
    BY <1>1, <2>1, <2>2, CountersSummable, SumBump, SMTT(30)
  <2>5. AcksFollow'
    <3>1. g \in Between
      BY <1>2, <1>8 DEF Between
    <3>2. Cardinality(Between') = Cardinality(Between) - 1 /\ Cardinality(Between) \in Nat
      BY <1>3, <3>1, BetweenFinite
    <3>3. SumFunctionOnSet(ackStats, TerminalStatuses) \in Int
      BY <1>1, CountersSummable, SumInt
    <3>4. SumFunctionOnSet(observed, Latencies)
            = SumFunctionOnSet(ackStats, TerminalStatuses) + Cardinality(Between)
      BY <1>1 DEF AcksFollow
    <3>5. SumFunctionOnSet(observed, Latencies)
            = SumFunctionOnSet(ackStats', TerminalStatuses) + Cardinality(Between')
      BY <2>4, <3>2, <3>3, <3>4, SMTT(30)
    <3> QED  BY <1>4, <3>5 DEF AcksFollow
  <2>6. ASSUME NEW r \in TerminalStatuses
        PROVE  SumFunctionOnSet(ackTerminalReasonStats', {r} \X Labels) = ackStats'[r]
    <3>1. SumFunctionOnSet(ackTerminalReasonStats, {r} \X Labels) = ackStats[r]
      BY <1>1 DEF ReasonsAddUp
    <3>2. \A j \in {r} \X Labels : j \in TerminalStatuses \X Labels
      OBVIOUS
    <3>3. CASE r = s
      <4>1. k \in {r} \X Labels
        BY <2>1, <3>3
      <4>2. Summable(ackTerminalReasonStats, {r} \X Labels)
        BY <1>1, CountersSummable
      <4>3. SumFunctionOnSet(ackTerminalReasonStats', {r} \X Labels)
              = SumFunctionOnSet(ackTerminalReasonStats, {r} \X Labels) + 1
        <5> HIDE DEF k
        <5> QED  BY <2>3, <3>2, <4>1, <4>2, SumBump, SMTT(30)
      <4> QED  BY <2>2, <3>1, <3>3, <4>3
    <3>4. CASE r # s
      <4>1. k \notin {r} \X Labels
        BY <3>4
      <4>2. SumFunctionOnSet(ackTerminalReasonStats', {r} \X Labels)
              = SumFunctionOnSet(ackTerminalReasonStats, {r} \X Labels)
        <5> HIDE DEF k
        <5> QED  BY <2>3, <3>2, <4>1, Finite, SumSame, SMTT(30)
      <4> QED  BY <2>2, <3>1, <3>4, <4>2
    <3> QED  BY <3>3, <3>4
  <2>7. ReasonsAddUp'
    BY <2>6 DEF ReasonsAddUp
  <2> QED  BY <1>3, <1>5, <1>6, <2>5, <2>7 DEF ScrapeInv
<1> QED  BY <1>7, <1>8

\* The other steps of a goroutine.
LEMMA StepKeeps ==
  ASSUME ScrapeInv, NEW g \in Goroutines, Step(g)
  PROVE  ScrapeInv'
<1>1. Steps
  BY DEF ScrapeInv
<1>2. ASSUME NEW x, Owes(g, x), x # "observe", x # "count", Finish(g)
      PROVE  Steps' /\ Between' = Between
  <2>1. todo[g] # <<>> /\ ~Owes(g, "observe") /\ g \notin Between
    BY <1>2 DEF Owes, Between
  <2>2. Steps' /\ Between' = Between \ {g}
    BY <1>1, <1>2, <2>1, FinishKeeps
  <2> QED  BY <2>1, <2>2
<1>3. ASSUME CountTelemetry(g) PROVE ScrapeInv'
  <2>1. Owes(g, "telemetry") /\ Finish(g) /\ "telemetry" # "observe" /\ "telemetry" # "count"
    BY <1>3, SMTT(30) DEF CountTelemetry
  <2>2. Steps' /\ Between' = Between
    BY <1>2, <2>1
  <2>3. /\ UNCHANGED <<ackStats, ackTerminalReasonStats, ackLatencyCount,
                       ackLatencyBucketCounts, observed>>
    BY <1>3 DEF CountTelemetry
  <2>4. Counters' /\ ReasonsAddUp' /\ BucketsAddUp' /\ AcksFollow'
    BY <2>2, <2>3
       DEF ScrapeInv, Counters, ReasonsAddUp, BucketsAddUp, Cumulative, AcksFollow
  <2> QED  BY <2>2, <2>4 DEF ScrapeInv
<1>4. ASSUME NEW f \in Feeds, Record(g, f) PROVE ScrapeInv'
  <2>1. Owes(g, f) /\ Finish(g) /\ f # "observe" /\ f # "count" /\ UNCHANGED statVars
    BY <1>4, SMTT(30) DEF Record, Feeds
  <2> QED  BY <1>2, <2>1, NothingCounted
<1> QED  BY <1>3, <1>4, ObserveKeeps, CountKeeps DEF Step

\* A goroutine begins something.
LEMMA ActivityKeeps ==
  ASSUME ScrapeInv, NEW g \in Goroutines, NEW a \in Acks,
         Receives(g, a) \/ Sends(g, a) \/ Outcome(g, a)
  PROVE  ScrapeInv'
<1>1. ASSUME NEW steps, Fitting(a, steps), Begin(g, a, steps) PROVE ScrapeInv'
  <2>1. Steps /\ UNCHANGED statVars
    BY <1>1 DEF ScrapeInv, Begin
  <2> QED  BY <1>1, <2>1, BeginKeeps, NothingCounted
<1>2. ASSUME Receives(g, a) PROVE ScrapeInv'
  <2>1. CASE a = NoAck /\ \E reply \in {<<>>, <<"events", "telemetry">>, <<"events", "raw">>,
                                         <<"events", "raw", "events", "telemetry">>} :
                            Begin(g, a, <<"raw">> \o reply)
    BY <1>1, <2>1, StepsFit, NoAckPending
  <2>2. CASE Begin(g, a, <<"raw">> \o PublishAck(a) \o <<"events", "telemetry">>)
    BY <1>1, <2>2, StepsFit
  <2> QED  BY <1>2, <2>1, <2>2 DEF Receives
<1>3. ASSUME Sends(g, a) PROVE ScrapeInv'
  <2>1. a.status = "accepted" /\ Begin(g, a, <<"events", "raw">> \o PublishAck(a))
    BY <1>3 DEF Sends
  <2>2. ~isTerminalAckStatus(a.status)
    BY <2>1, SMTT(30) DEF isTerminalAckStatus
  <2> QED  BY <1>1, <2>1, <2>2, StepsFit
<1>4. ASSUME Outcome(g, a) PROVE ScrapeInv'
  BY <1>1, <1>4, StepsFit DEF Outcome
<1> QED  BY <1>2, <1>3, <1>4

\* The pages only look.
LEMMA PageKeeps ==
  ASSUME ScrapeInv, UNCHANGED <<todo, ack, statVars>>
  PROVE  ScrapeInv'
<1>1. Steps' /\ Between' = Between
  BY DEF ScrapeInv, Steps, Between, Owes, Terminal
<1> QED  BY <1>1, NothingCounted

\* Every step keeps the invariant.
LEMMA ScrapeKeeps == ScrapeInv /\ [ObsNext]_obsVars => ScrapeInv'
<1>1. SUFFICES ASSUME ScrapeInv, [ObsNext]_obsVars PROVE ScrapeInv'
  OBVIOUS
<1>2. CASE \E g \in Goroutines, a \in Acks : Receives(g, a) \/ Sends(g, a) \/ Outcome(g, a)
  BY <1>1, <1>2, ActivityKeeps
<1>3. CASE \E g \in Goroutines : Step(g)
  BY <1>1, <1>3, StepKeeps
<1>4. ASSUME NEW f \in Pages,
             \/ Answer(f) \/ FetchFails(f) \/ Refresh(f) \/ TogglePause(f)
             \/ \E i \in DOMAIN answers[f] : Render(f, i)
      PROVE  ScrapeInv'
  BY <1>1, <1>4, PageKeeps DEF Answer, FetchFails, Refresh, TogglePause, Render
<1>5. CASE UNCHANGED obsVars
  BY <1>1, <1>5, PageKeeps DEF obsVars
<1> QED  BY <1>1, <1>2, <1>3, <1>4, <1>5 DEF ObsNext

\* The invariant gives the property.
LEMMA ScrapeImplied == ScrapeInv => ScrapeCoherent
<1>1. SUFFICES ASSUME ScrapeInv PROVE ScrapeCoherent
  OBVIOUS
<1>2. ReasonsAddUp /\ BucketsAddUp /\ AcksFollow /\ Counters
  BY <1>1 DEF ScrapeInv
<1>3. SumFunctionOnSet(observed, Latencies) - SumFunctionOnSet(ackStats, TerminalStatuses)
        \in 0..Cardinality(Goroutines)
  <2>1. SumFunctionOnSet(ackStats, TerminalStatuses) \in Int /\ Cardinality(Between) \in Nat
    BY <1>2, CountersSummable, SumInt, BetweenFinite
  <2>2. Cardinality(Goroutines) \in Nat /\ Cardinality(Between) <= Cardinality(Goroutines)
    BY BetweenFinite, Finite, FS_CardinalityType
  <2> QED  BY <1>2, <2>1, <2>2, SMTT(30) DEF AcksFollow
<1> QED  BY <1>2, <1>3 DEF ScrapeCoherent, ReasonsAddUp, BucketsAddUp, Within, Known

\* One answer of metricsHandler agrees with itself and with what happened, whatever
\* the goroutines are in the middle of.
THEOREM ScrapeAlwaysCoherent == ObsSpec => []ScrapeCoherent
<1>1. ObsSpec => []ScrapeInv
  BY ScrapeInit, ScrapeKeeps, PTL DEF ObsSpec
<1> QED  BY <1>1, ScrapeImplied, PTL
=============================================================================
