---------------------------- MODULE Observability ----------------------------
(***************************************************************************)
(* What the adapter records about itself, and the pages that show it.      *)
(* Goroutines count acks and latencies under ackMu, telemetry under        *)
(* telemetryMu, and keep the last events and the last raw messages in      *)
(* lists of their own; each critical section is a step.  The dashboard and *)
(* the page of raw messages fetch their list every few seconds; their      *)
(* requests may overtake each other or fail.                               *)
(*                                                                         *)
(* An entry of a list is the number of entries recorded before it plus     *)
(* one.  A latency is a point of a small scale; it is negative when the    *)
(* clock was set back since the command was created.                       *)
(***************************************************************************)
EXTENDS Integers, Sequences, FiniteSets, Functions

CONSTANTS
  Goroutines,      \* the ones that publish
  Statuses,        \* the ack statuses of a behaviour
  Labels,          \* the values of normalizeReasonLabel
  Latencies,       \* the latencies of a behaviour
  Bounds,          \* ackLatencyBoundsSeconds
  MaxKept,         \* maxDebugEvents and maxRawDebugMessages
  PageLimit,       \* how many entries a page asks for
  MaxActivities,   \* bound: what the goroutines have to publish
  MaxFetches,      \* bound: requests of a page under way
  Pages            \* the lists that are looked at, each on its page

Feeds == {"events", "raw"}

ASSUME ObservabilityAssumption ==
  /\ MaxKept \in Nat /\ PageLimit \in 1..MaxKept
  /\ MaxActivities \in Nat /\ MaxFetches \in Nat \ {0}
  /\ Pages \subseteq Feeds
  /\ IsFiniteSet(Goroutines) /\ IsFiniteSet(Statuses)
  /\ IsFiniteSet(Labels) /\ IsFiniteSet(Latencies)
  /\ Latencies \subseteq Int /\ Bounds \in Seq(Int)
  /\ \A i \in 1..(Len(Bounds) - 1) : Bounds[i] < Bounds[i + 1]

VARIABLES
  todo,             \* what a goroutine has still to do for its activity
  ack,              \* the ack event it publishes
  activities,       \* how many activities there have been
  ackStats,         \* acks by status
  ackTerminalReasonStats,  \* terminal acks by status and reason
  ackLatencyCount,  \* latencies observed
  ackLatencyBucketCounts,  \* latencies by the first bound that is not exceeded
  telemetryStats,   \* telemetry frames
  list,             \* debugEvents and rawMessages, oldest first
  recorded,         \* how many entries have been recorded in each
  paused,           \* a page's state.paused
  shown,            \* the entries it shows
  fetches,          \* its requests on the way to the adapter
  answers,          \* the answers on the way back
  observed          \* how often each latency has been passed to observeAckLatency

statVars == <<ackStats, ackTerminalReasonStats, ackLatencyCount,
              ackLatencyBucketCounts, telemetryStats, observed>>
pageVars == <<paused, shown, fetches, answers>>
obsVars == <<todo, ack, activities, statVars, list, recorded, pageVars>>

isTerminalAckStatus(s) ==
  s \in {"delivered", "failed", "expired", "unsupported", "duplicate"}

TerminalStatuses == {s \in Statuses : isTerminalAckStatus(s)}

\* The ack events; reason and latency matter for terminal ones only.
NoAck == [status |-> "accepted", label |-> "unspecified", latency |-> 0]

Acks ==
  [status : TerminalStatuses, label : Labels, latency : Latencies]
    \cup {[NoAck EXCEPT !.status = s] : s \in Statuses \ TerminalStatuses}

ObsInit ==
  /\ todo = [g \in Goroutines |-> <<>>]
  /\ ack = [g \in Goroutines |-> NoAck]
  /\ activities = 0
  /\ ackStats = [s \in Statuses |-> 0]
  /\ ackTerminalReasonStats = [k \in TerminalStatuses \X Labels |-> 0]
  /\ ackLatencyCount = 0
  /\ ackLatencyBucketCounts = [i \in DOMAIN Bounds |-> 0]
  /\ telemetryStats = 0
  /\ list = [f \in Feeds |-> <<>>]
  /\ recorded = [f \in Feeds |-> 0]
  /\ paused = [f \in Pages |-> FALSE]
  /\ shown = [f \in Pages |-> <<>>]
  /\ fetches = [f \in Pages |-> 1]
  /\ answers = [f \in Pages |-> <<>>]
  /\ observed = [l \in Latencies |-> 0]
-----------------------------------------------------------------------------
\* The goroutines

\* The steps of publishAck, and of publishAckWithCommand, which is the one
\* called for every terminal status.
PublishAck(a) ==
  (IF isTerminalAckStatus(a.status) THEN <<"observe">> ELSE <<>>)
    \o <<"count", "events">>

Begin(g, a, steps) ==
  /\ todo[g] = <<>>
  /\ activities < MaxActivities
  /\ activities' = activities + 1
  /\ ack' = [ack EXCEPT ![g] = a]
  /\ todo' = [todo EXCEPT ![g] = steps]
  /\ UNCHANGED <<statVars, list, recorded, pageVars>>

\* A frame is received.  It is refused before the controller is registered; or it
\* is answered, being a registration or a status; or it needs no answer; or it
\* carries an ack.  A connection that ends before the frame has been handled
\* leaves out what would have followed: the firmware mode of a status that was
\* answered cannot be saved.
Receives(g, a) ==
  \/ /\ a = NoAck
     /\ \E reply \in {<<>>, <<"events", "telemetry">>, <<"events", "raw">>,
                      <<"events", "raw", "events", "telemetry">>} :
          Begin(g, a, <<"raw">> \o reply)
  \/ /\ a.status \notin {"accepted", "retrying"}
     /\ Begin(g, a, <<"raw">> \o PublishAck(a) \o <<"events", "telemetry">>)

\* A frame is sent and accepted.
Sends(g, a) ==
  a.status = "accepted" /\ Begin(g, a, <<"events", "raw">> \o PublishAck(a))

\* An outcome of processInFlight or of flushQueue.
Outcome(g, a) ==
  a.status \notin {"accepted", "in_progress"} /\ Begin(g, a, PublishAck(a))

Owes(g, step) == todo[g] # <<>> /\ Head(todo[g]) = step

Finish(g) ==
  /\ todo' = [todo EXCEPT ![g] = Tail(@)]
  /\ ack' = [ack EXCEPT ![g] = IF Len(todo[g]) = 1 THEN NoAck ELSE @]
  /\ UNCHANGED activities

\* Mutant of Bucket: a latency is counted under every bound it does not exceed.
BucketAll(l) == {i \in DOMAIN Bounds : l <= Bounds[i]}

\* The first bound that the latency does not exceed, if there is one.
Bucket(l) ==
  {i \in DOMAIN Bounds : l <= Bounds[i] /\ \A j \in 1..(i - 1) : Bounds[j] < l}

\* EnqueueCommand gives a command without a CreatedAt one before anything is
\* published about it, so every command here has a latency.
ObserveAckLatency(g) ==
  LET l == ack[g].latency IN
  /\ Owes(g, "observe")
  /\ observed' = [observed EXCEPT ![l] = @ + 1]
  /\ \/ /\ l < 0
        /\ UNCHANGED <<ackLatencyCount, ackLatencyBucketCounts>>
     \/ /\ l >= 0
        /\ ackLatencyCount' = ackLatencyCount + 1
        /\ ackLatencyBucketCounts' =
             [i \in DOMAIN Bounds |->
                ackLatencyBucketCounts[i] + (IF i \in Bucket(l) THEN 1 ELSE 0)]
  /\ Finish(g)
  /\ UNCHANGED <<ackStats, ackTerminalReasonStats, telemetryStats, list, recorded, pageVars>>

CountAck(g) ==
  LET s == ack[g].status
      k == <<s, ack[g].label>>
  IN  /\ Owes(g, "count")
      /\ ackStats' = [ackStats EXCEPT ![s] = @ + 1]
      /\ ackTerminalReasonStats' =
           IF isTerminalAckStatus(s)
           THEN [ackTerminalReasonStats EXCEPT ![k] = @ + 1]
           ELSE ackTerminalReasonStats
      /\ Finish(g)
      /\ UNCHANGED <<ackLatencyCount, ackLatencyBucketCounts, telemetryStats, observed,
                     list, recorded, pageVars>>

CountTelemetry(g) ==
  /\ Owes(g, "telemetry")
  /\ telemetryStats' = telemetryStats + 1
  /\ Finish(g)
  /\ UNCHANGED <<ackStats, ackTerminalReasonStats, ackLatencyCount,
                 ackLatencyBucketCounts, observed, list, recorded, pageVars>>

\* Mutant of Kept: the oldest entries are kept.
KeptOldest(s) == SubSeq(s, 1, IF Len(s) < MaxKept THEN Len(s) ELSE MaxKept)

Kept(s) == IF Len(s) > MaxKept THEN SubSeq(s, Len(s) - MaxKept + 1, Len(s)) ELSE s

\* recordDebugEvent and recordRawMessage.
Record(g, f) ==
  /\ Owes(g, f)
  /\ recorded' = [recorded EXCEPT ![f] = @ + 1]
  /\ list' = [list EXCEPT ![f] = Kept(Append(@, recorded'[f]))]
  /\ Finish(g)
  /\ UNCHANGED <<statVars, pageVars>>
-----------------------------------------------------------------------------
\* The handlers and the pages

\* debugEventsSnapshot and rawMessagesSnapshot: newest first.
Snapshot(s, limit) ==
  LET n == IF limit <= 0 \/ limit > Len(s) THEN Len(s) ELSE limit
  IN  [i \in 1..n |-> s[Len(s) + 1 - i]]

\* debugDashboardHandler and debugRawMessagesHandler.
Answer(f) ==
  /\ fetches[f] > 0
  /\ fetches' = [fetches EXCEPT ![f] = @ - 1]
  /\ answers' = [answers EXCEPT ![f] = Append(@, Snapshot(list[f], PageLimit))]
  /\ UNCHANGED <<todo, ack, activities, statVars, list, recorded, paused, shown>>

\* The answers that are left once one of them arrives or is lost.
Without(s, i) == SubSeq(s, 1, i - 1) \o SubSeq(s, i + 1, Len(s))

\* refresh after the answer, also on a page that was paused in the meantime.
Render(f, i) ==
  /\ shown' = [shown EXCEPT ![f] = answers[f][i]]
  /\ answers' = [answers EXCEPT ![f] = Without(@, i)]
  /\ UNCHANGED <<todo, ack, activities, statVars, list, recorded, paused, fetches>>

\* The request or the answer is lost; the error is not shown, or only as text.
FetchFails(f) ==
  /\ \/ /\ fetches[f] > 0
        /\ fetches' = [fetches EXCEPT ![f] = @ - 1]
        /\ UNCHANGED answers
     \/ /\ \E i \in DOMAIN answers[f] :
             answers' = [answers EXCEPT ![f] = Without(@, i)]
        /\ UNCHANGED fetches
  /\ UNCHANGED <<todo, ack, activities, statVars, list, recorded, paused, shown>>

HasRoom(f) == fetches[f] + Len(answers[f]) < MaxFetches

\* The timer of the page, or the end of submitEnqueue.
Refresh(f) ==
  /\ ~paused[f] /\ HasRoom(f)
  /\ fetches' = [fetches EXCEPT ![f] = @ + 1]
  /\ UNCHANGED <<todo, ack, activities, statVars, list, recorded, paused, shown, answers>>

\* The button: a page that is resumed refreshes at once.
TogglePause(f) ==
  /\ paused' = [paused EXCEPT ![f] = ~@]
  /\ paused[f] => HasRoom(f)
  /\ fetches' = [fetches EXCEPT ![f] = IF paused[f] THEN @ + 1 ELSE @]
  /\ UNCHANGED <<todo, ack, activities, statVars, list, recorded, shown, answers>>

Step(g) ==
  \/ ObserveAckLatency(g) \/ CountAck(g) \/ CountTelemetry(g)
  \/ \E f \in Feeds : Record(g, f)

ObsNext ==
  \/ \E g \in Goroutines, a \in Acks : Receives(g, a) \/ Sends(g, a) \/ Outcome(g, a)
  \/ \E g \in Goroutines : Step(g)
  \/ \E f \in Pages :
       \/ Answer(f) \/ FetchFails(f) \/ Refresh(f) \/ TogglePause(f)
       \/ \E i \in DOMAIN answers[f] : Render(f, i)

\* Goroutines go on, the timer of a page fires again and again, and of the
\* requests that are made again and again some are answered.
ObsSpec ==
  /\ ObsInit /\ [][ObsNext]_obsVars
  /\ \A g \in Goroutines : WF_obsVars(Step(g))
  /\ \A f \in Pages :
       /\ WF_obsVars(Refresh(f))
       /\ SF_obsVars(Answer(f))
       /\ SF_obsVars(\E i \in DOMAIN answers[f] : Render(f, i))
-----------------------------------------------------------------------------
\* metricsHandler reads the acks and the histogram in one critical section.

Cumulative(i) == SumFunctionOnSet(ackLatencyBucketCounts, 1..i)

\* Whatever the goroutines are in the middle of, one answer of /metrics agrees
\* with itself and with what happened: the reasons of a terminal status add up
\* to its total; a bucket of the histogram has the commands whose latency does
\* not exceed its bound, and the last one those whose latency is known; and no
\* terminal ack is counted before its latency, so the totals differ by at most
\* the acks that are being published.
ScrapeCoherent ==
  /\ \A s \in TerminalStatuses :
       SumFunctionOnSet(ackTerminalReasonStats, {s} \X Labels) = ackStats[s]
  /\ \A i \in DOMAIN Bounds :
       Cumulative(i) = SumFunctionOnSet(observed, {l \in Latencies : l \in 0..Bounds[i]})
  /\ ackLatencyCount = SumFunctionOnSet(observed, {l \in Latencies : l >= 0})
  /\ SumFunctionOnSet(observed, Latencies) - SumFunctionOnSet(ackStats, TerminalStatuses)
       \in 0..Cardinality(Goroutines)

\* The entries a page should show: the newest ones, newest first.
Newest(f) ==
  [i \in 1..(IF recorded[f] < PageLimit THEN recorded[f] ELSE PageLimit) |->
     recorded[f] + 1 - i]

\* A page that is not paused for good shows the newest entries in the end and
\* keeps showing them, although requests fail and an older answer may come
\* after a newer one.
LiveShowsNewest ==
  \A f \in Pages : <>[]~paused[f] => <>[](shown[f] = Newest(f))
=============================================================================
