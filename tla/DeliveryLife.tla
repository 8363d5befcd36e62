---------------------------- MODULE DeliveryLife ----------------------------
(***************************************************************************)
(* The life of a command, read off the state of the delivery: goroutines,  *)
(* connections, the queue, the table of commands in flight, numbers and    *)
(* retries are hidden.                                                     *)
(***************************************************************************)
EXTENDS Delivery

\* How far command c has come.  The adapter holds it, a goroutine is about to
\* publish its outcome, its outcome was published, or what EnqueueCommand did
\* with it is all there is; a command that was accepted and is none of these is
\* lost.
Stage(c) ==
  IF c \in Live THEN "owed"
  ELSE IF c \in Announced THEN "announced"
  ELSE IF terminal[c] > 0 THEN "settled"
  ELSE IF fate[c] = "accepted" THEN "lost"
  ELSE fate[c]

Life == INSTANCE CommandLife WITH
  stage     <- [c \in Commands |-> Stage(c)],
  written   <- writes,
  wrapped   <- issued = NumSeqs,
  faulty    <- failures > 0 \/ crashes > 0,
  MaxWrites <- [c \in Commands |-> MaxRetries(c) + 1]

\* The delivery implements the life of a command: until a save fails or the
\* adapter restarts, every step of every goroutine either leaves a command where
\* it is or takes it one stage on, no stage is skipped or visited again, and no
\* command is written too often.
ImplementsLife == Life!LifeSpec
=============================================================================
