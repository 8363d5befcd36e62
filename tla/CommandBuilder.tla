--------------------------- MODULE CommandBuilder ---------------------------
(***************************************************************************)
(* The page /debug/command-builder and the two handlers it talks to.  The  *)
(* user selects a command, fills its field, builds the payload on the      *)
(* server and queues the command.  JavaScript runs one callback at a time, *)
(* from one await to the next; between two of them the user may do         *)
(* anything, and answers may come in any order or not at all.              *)
(*                                                                         *)
(* The page offers a command without payload and two with one byte of      *)
(* payload, which are enough for the page: it never looks into a payload.  *)
(* The controller's id is filled in.  How a payload is built and validated *)
(* is a parameter; the runs give it the operators of Payloads.             *)
(***************************************************************************)
EXTENDS Integers, Sequences, TLC

CONSTANTS
  BuildOf(_, _),       \* what the Build method of a command makes of its fields
  ValidPayload(_, _),  \* ValidateServerCommandPayload
  MaxRequests,  \* bound: requests of the page that are under way
  MaxQueued,    \* bound: commands that the page asks to queue
  Patient       \* whether the user keeps the selection while a request is under way

ASSUME PageAssumption ==
  MaxRequests \in Nat /\ MaxQueued \in Nat /\ Patient \in BOOLEAN

VARIABLES
  selected,  \* the value of the list of commands
  field,     \* the content of the field of that command
  built,     \* state.built: what the server built last, or null
  builds,    \* requests to /debug/build-command under way
  posts,     \* requests to /debug/enqueue under way
  posted,    \* how many of them there have been
  queued     \* the commands given to EnqueueCommand

pageVars == <<selected, field, built, builds, posts, posted, queued>>

\* The commands of the list, the default of the field of each (command 9 has no
\* field), and what a user may type into it: a byte, and a number that is none.
Offered == {2, 3, 9}
DefaultValue == 2 :> 3 @@ 3 :> 5 @@ 9 :> 0
Values == {3, 256}
NotBuilt == [cmd |-> 0, payload |-> <<>>]

\* init: the list starts at command 9.
PageInit ==
  /\ selected = 9 /\ field = DefaultValue[9] /\ built = NotBuilt
  /\ builds = <<>> /\ posts = {} /\ posted = 0 /\ queued = {}

\* Mutant of Select: what was built stays.
SelectKeeping(c) ==
  /\ Patient => builds = <<>>
  /\ selected' = c
  /\ field' = DefaultValue[c]
  /\ UNCHANGED <<built, builds, posts, posted, queued>>

\* The handler of the list: what was built for another command is forgotten, and
\* the fields have their default values again.
Select(c) ==
  /\ Patient => builds = <<>>
  /\ selected' = c
  /\ field' = DefaultValue[c]
  /\ built' = NotBuilt
  /\ UNCHANGED <<builds, posts, posted, queued>>

Edit(x) ==
  /\ selected # 9
  /\ field' = x
  /\ UNCHANGED <<selected, built, builds, posts, posted, queued>>

\* buildPayload up to the answer: the request has the command and the field of
\* now.  "queue" tells whether queueBuiltCommand waits for it.
StartBuild(queue) ==
  /\ Len(builds) < MaxRequests
  /\ builds' = Append(builds, [cmd |-> selected, value |-> field, queue |-> queue])

PressBuild ==
  /\ StartBuild(FALSE)
  /\ UNCHANGED <<selected, field, built, posts, posted, queued>>

\* queueBuiltCommand after the build: the command is the one selected now, the
\* payload the one that was built.
Post(b) ==
  /\ posted < MaxQueued
  /\ posted' = posted + 1
  /\ posts' = posts \cup
       {[id |-> posted', cmd |-> selected, payload |-> b.payload, origin |-> b.cmd]}

PressQueue ==
  \/ /\ built = NotBuilt
     /\ StartBuild(TRUE)
     /\ UNCHANGED <<selected, field, built, posts, posted, queued>>
  \/ /\ built # NotBuilt
     /\ Post(built)
     /\ UNCHANGED <<selected, field, built, builds, queued>>

\* debugBuildCommandHandler: the number must fit in a byte to be decoded.
Answer(r) ==
  IF r.cmd = 9 THEN BuildOf(9, <<>>)
  ELSE IF r.value > 255 THEN [ok |-> FALSE, bytes |-> <<>>]
  ELSE BuildOf(r.cmd, [TimeoutSec |-> <<r.value>>])

\* The requests that are left once one of them is answered.
Without(s, i) == SubSeq(s, 1, i - 1) \o SubSeq(s, i + 1, Len(s))

\* buildPayload after the answer, with what queueBuiltCommand does next if it
\* waits for it.  An error ends both.
BuildAnswered(i) ==
  LET r == builds[i]
      a == Answer(r)
      b == [cmd |-> r.cmd, payload |-> a.bytes]
  IN  /\ builds' = Without(builds, i)
      /\ \/ ~a.ok /\ built' = NotBuilt /\ UNCHANGED <<posts, posted>>
         \/ a.ok /\ built' = b /\ IF r.queue THEN Post(b) ELSE UNCHANGED <<posts, posted>>
      /\ UNCHANGED <<selected, field, queued>>

\* fetch is rejected: nothing after it runs.
BuildLost(i) ==
  /\ builds' = Without(builds, i)
  /\ UNCHANGED <<selected, field, built, posts, posted, queued>>

\* debugEnqueueHandler: a payload that the command cannot have is refused.
EnqueueRequest(r) ==
  /\ posts' = posts \ {r}
  /\ queued' = IF ValidPayload(r.cmd, r.payload)
               THEN queued \cup {r} ELSE queued
  /\ UNCHANGED <<selected, field, built, builds, posted>>

PageNext ==
  \/ \E c \in Offered : Select(c)
  \/ \E x \in Values : Edit(x)
  \/ PressBuild
  \/ PressQueue
  \/ \E i \in DOMAIN builds : BuildAnswered(i) \/ BuildLost(i)
  \/ \E r \in posts : EnqueueRequest(r)

PageSpec == PageInit /\ [][PageNext]_pageVars

-----------------------------------------------------------------------------
\* Every command that reaches EnqueueCommand from the page has the payload that
\* was built for that command, in whatever order requests are made, answered
\* and lost.  "Queue Built Command" takes the number from the list and the
\* payload from the last answer, so this needs a user who does not go to
\* another command while an answer is awaited; two commands whose payload is
\* one byte are told apart by nothing else.
QueuedAsBuilt == \A r \in queued : r.cmd = r.origin
=============================================================================
