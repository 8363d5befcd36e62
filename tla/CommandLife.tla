---------------------------- MODULE CommandLife -----------------------------
(***************************************************************************)
(* What the adapter promises to the caller of EnqueueCommand, command by   *)
(* command: a command that is taken over is written a bounded number of    *)
(* times and given one outcome, and what has an outcome never comes back.  *)
(* The promise ends with the first fault, a save that failed or a restart; *)
(* after it a command may be delivered again.                              *)
(***************************************************************************)
EXTENDS Naturals

CONSTANTS
  Commands,
  MaxWrites   \* how often each command may be written

VARIABLES
  stage,      \* how far each command has come
  written,    \* how often each command was written to the controller
  wrapped,    \* the sequence numbers have been used up once
  faulty      \* a save has failed, or the adapter was restarted

lifeVars == <<stage, written, wrapped, faulty>>

Stages ==
  {"new", "refused", "owed", "dropped", "announced", "settled", "lost"}

In(s) == {c \in Commands : stage[c] = s}

\* The commands in S come to stage s.
Move(from, S, s) == [c \in Commands |-> IF c \in S THEN s ELSE from[c]]

LifeInit ==
  /\ stage = [c \in Commands |-> "new"]
  /\ written = [c \in Commands |-> 0]
  /\ ~wrapped
  /\ ~faulty

\* EnqueueCommand takes a command over or refuses it, and may drop others to
\* make room.
HandIn(c, D, s) ==
  /\ stage' = Move(Move(stage, D, "dropped"), {c}, s)
  /\ UNCHANGED <<written, wrapped, faulty>>

\* The command is written to the controller, for the first time or again.
Write(c) ==
  /\ written[c] < MaxWrites[c]
  /\ written' = [written EXCEPT ![c] = @ + 1]
  /\ UNCHANGED <<stage, wrapped, faulty>>

\* The sequence numbers begin again.
Wrap ==
  /\ wrapped'
  /\ UNCHANGED <<stage, written, faulty>>

\* The outcome of the commands in E is known.  Those in L are overwritten by
\* another command with the same number, which takes a counter that wrapped.
Release(E, L) ==
  /\ L # {} => wrapped
  /\ stage' = Move(Move(stage, E, "announced"), L, "lost")
  /\ UNCHANGED <<written, wrapped, faulty>>

\* The outcome of a command is published.
Settle(c) ==
  /\ stage' = Move(stage, {c}, "settled")
  /\ UNCHANGED <<written, wrapped, faulty>>

\* Nothing is promised any more.
Fault ==
  /\ faulty'
  /\ stage' \in [Commands -> Stages]
  /\ written' \in [Commands -> Nat]
  /\ wrapped' \in BOOLEAN

LifeNext ==
  \/ \E c \in In("new"), D \in SUBSET In("owed"), s \in {"owed", "refused"} : HandIn(c, D, s)
  \/ \E c \in In("owed") : Write(c)
  \/ \E E \in SUBSET In("owed") : \E L \in SUBSET (In("owed") \ E) : Release(E, L)
  \/ \E c \in In("announced") : Settle(c)
  \/ Wrap
  \/ Fault

LifeSpec == LifeInit /\ [][LifeNext]_lifeVars
=============================================================================
