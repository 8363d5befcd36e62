--------------------------- MODULE DeliveryProofs ---------------------------
(***************************************************************************)
(* The session manager, and the inductive invariant of the delivery.       *)
(*                                                                         *)
(* The first part says what the operations of a controller's queue do to   *)
(* the commands in it, for queues of any length, and what the operations   *)
(* of the session manager do to a session: they keep its type, and each    *)
(* moves the commands it should and no others.                             *)
(*                                                                         *)
(* The second part has the inductive invariant IInv of the delivery of     *)
(* commands, the steps that keep it, and four properties that follow: no   *)
(* command is ever in two places, the session belongs to one connection,   *)
(* what is in flight survives a restart, and so does what is queued, as    *)
(* long as flushQueue sets no command aside.                               *)
(*                                                                         *)
(* NoTwin is not inductive. A restart loads the snapshot, so the snapshot  *)
(* must be free of twins as well; and Accept adds a command, so a command  *)
(* that was not handed in yet must be nowhere, neither in memory nor on    *)
(* disk. IInv adds both.                                                   *)
(***************************************************************************)
EXTENDS Delivery, FiniteSetTheorems, TLAPS

\* A leaf goes to Zenon, unless it names the SMT solver: where it needs
\* arithmetic, or functions and records are rewritten.
USE ZenonT(30)

-----------------------------------------------------------------------------
\* The session manager

\* A one-to-one correspondence h between the positions of Kept(seq, idx) and
\* the positions in idx, which leads to the same entries.
Picks(seq, idx) ==
  /\ Cardinality(idx) \in Nat
  /\ \E h \in [1..Cardinality(idx) -> idx] :
       /\ \A j \in 1..Cardinality(idx) : Kept(seq, idx)[j] = seq[h[j]]
       /\ \A i, j \in 1..Cardinality(idx) : h[i] = h[j] => i = j
       /\ \A i \in idx : \E j \in 1..Cardinality(idx) : h[j] = i

\* Kept picks the positions in idx one by one.  This is what the filtering
\* loops of DrainExpired, DropOldest and Restore rely on.
LEMMA KeptBijection ==
  ASSUME NEW seq, NEW n \in Nat, NEW idx, idx \subseteq 1..n
  PROVE  Picks(seq, idx)
<1> DEFINE card == Cardinality(idx)
           upto(i) == {k \in idx : k <= i}
           rank == [i \in idx |-> Cardinality(upto(i))]
           h == [j \in 1..card |-> CHOOSE i \in idx : Cardinality({k \in idx : k <= i}) = j]
<1>0. \A i \in idx : i \in Int
  BY SMTT(30)
<1>1. IsFiniteSet(idx) /\ card \in Nat
  <2>1. IsFiniteSet(1..n)
    BY FS_Interval, SMTT(30)
  <2>2. IsFiniteSet(idx)
    BY <2>1, FS_Subset
  <2> QED BY <2>2, FS_CardinalityType
<1>2. \A i \in idx : upto(i) \in SUBSET idx /\ IsFiniteSet(upto(i))
                     /\ Cardinality(upto(i)) \in Nat /\ Cardinality(upto(i)) <= card
  BY <1>1, FS_Subset, FS_CardinalityType
<1>3. \A i \in idx : Cardinality(upto(i)) >= 1
  <2> TAKE i \in idx
  <2>1. i \in upto(i)
    BY <1>0, SMTT(30)
  <2>2. Cardinality(upto(i)) # 0
    BY <1>2, <2>1, FS_EmptySet
  <2> QED BY <1>2, <2>2, SMTT(30)
<1>4. \A i, j \in idx : i < j => Cardinality(upto(i)) < Cardinality(upto(j))
  <2> SUFFICES ASSUME NEW i \in idx, NEW j \in idx, i < j
               PROVE  Cardinality(upto(i)) < Cardinality(upto(j))
    OBVIOUS
  <2>1. upto(i) \in SUBSET upto(j) /\ j \in upto(j) /\ j \notin upto(i)
    <3>1. \A k \in idx : k <= i => k <= j
      BY <1>0, SMTT(30)
    <3>2. j <= j /\ ~(j <= i)
      BY <1>0, SMTT(30)
    <3> QED BY <3>1, <3>2
  <2>2. /\ Cardinality(upto(i)) <= Cardinality(upto(j))
        /\ Cardinality(upto(j)) = Cardinality(upto(i)) => upto(j) = upto(i)
    <3> HIDE DEF upto
    <3> QED BY <1>2, <2>1, FS_Subset
  <2> QED BY <1>2, <2>1, <2>2, SMTT(30)
<1>5. rank \in Injection(idx, 1..card)
  <2>1. rank \in [idx -> 1..card]
    BY <1>1, <1>2, <1>3, SMTT(30)
  <2>2. \A i, j \in idx : rank[i] = rank[j] => i = j
    BY <1>2, <1>4, SMTT(30)
  <2> QED BY <2>1, <2>2 DEF Injection, IsInjective
<1>6. rank \in Surjection(idx, 1..card)
  <2>1. IsFiniteSet(1..card) /\ Cardinality(1..card) = card
    BY <1>1, FS_Interval, SMTT(30)
  <2> HIDE DEF rank, card
  <2> QED BY <1>5, <2>1, FS_Injection DEF card
<1>7. \A j \in 1..card : \E i \in idx : Cardinality({k \in idx : k <= i}) = j
  BY <1>6 DEF Surjection
<1>8. \A j \in 1..card : h[j] \in idx /\ Cardinality(upto(h[j])) = j
  BY <1>7, SMTT(60)
<1>9. h \in [1..card -> idx]
  BY <1>8
<1>10. \A i \in idx : \E j \in 1..card : h[j] = i
  <2> TAKE i \in idx
  <2>1. rank[i] \in 1..card
    BY <1>5 DEF Injection
  <2>2. Cardinality(upto(h[rank[i]])) = Cardinality(upto(i)) /\ h[rank[i]] \in idx
    BY <1>8, <2>1
  <2>3. ASSUME NEW k \in idx, Cardinality(upto(k)) = Cardinality(upto(i))
        PROVE  k = i
    <3>1. Cardinality(upto(k)) \in Nat /\ Cardinality(upto(i)) \in Nat
      BY <1>2
    <3>2. ~(k < i) /\ ~(i < k)
      <4> HIDE DEF upto
      <4> QED BY <1>4, <2>3, <3>1, SMTT(30)
    <3> QED BY <1>0, <3>2, SMTT(30)
  <2> QED BY <2>1, <2>2, <2>3
<1>11. \A i, j \in 1..card : h[i] = h[j] => i = j
  BY <1>8
<1>12. \A j \in 1..card : Kept(seq, idx)[j] = seq[h[j]]
  BY SMTT(30) DEF Kept
<1> QED BY <1>1, <1>9, <1>10, <1>11, <1>12 DEF Picks

\* The commands of a sequence are those of its entries.
LEMMA CmdsElements ==
  ASSUME NEW seq
  PROVE  \A c : c \in Cmds(seq) <=> \E i \in DOMAIN seq : seq[i].cmd = c
  BY DEF Cmds

\* The commands of a filtered sequence are those at the positions kept, and
\* filtering makes no duplicate.
LEMMA KeptProperties ==
  ASSUME NEW S, NEW seq \in Seq(S), NEW idx \in SUBSET (DOMAIN seq)
  PROVE  /\ Kept(seq, idx) \in Seq(S)
         /\ \A c : c \in Cmds(Kept(seq, idx)) <=> \E i \in idx : seq[i].cmd = c
         /\ Distinct(seq) => Distinct(Kept(seq, idx))
<1>1. Len(seq) \in Nat /\ DOMAIN seq = 1..Len(seq)
  BY SMTT(30)
<1> DEFINE card == Cardinality(idx)
           kept == Kept(seq, idx)
<1>2. PICK h \in [1..card -> idx] :
        /\ card \in Nat
        /\ \A j \in 1..card : kept[j] = seq[h[j]]
        /\ \A i, j \in 1..card : h[i] = h[j] => i = j
        /\ \A i \in idx : \E j \in 1..card : h[j] = i
  <2>1. Picks(seq, idx)
    BY <1>1, KeptBijection
  <2> QED BY <2>1 DEF Picks
<1>3. kept = [j \in 1..card |-> kept[j]] /\ DOMAIN kept = 1..card
  BY SMTT(30) DEF Kept
<1> HIDE DEF kept, card
<1>4. \A j \in 1..card : h[j] \in idx /\ h[j] \in DOMAIN seq /\ seq[h[j]] \in S
  BY <1>1, <1>2, SMTT(30)
<1>5. kept \in Seq(S)
  <2>1. \A j \in 1..card : kept[j] \in S
    BY <1>2, <1>4
  <2>2. [j \in 1..card |-> kept[j]] \in Seq(S)
    BY <1>2, <2>1, SMTT(30)
  <2> QED BY <1>3, <2>2
<1>6. \A c : c \in Cmds(kept) <=> \E i \in idx : seq[i].cmd = c
  BY <1>2, <1>3, SMTT(30) DEF Cmds
<1>7. ASSUME Distinct(seq) PROVE Distinct(kept)
  BY <1>2, <1>3, <1>4, <1>7, SMTT(30) DEF Distinct
<1> QED BY <1>5, <1>6, <1>7 DEF kept

\* Append adds one command.
LEMMA AppendCmds ==
  ASSUME NEW S, NEW seq \in Seq(S), NEW x \in S
  PROVE  /\ Append(seq, x) \in Seq(S)
         /\ Cmds(Append(seq, x)) = Cmds(seq) \cup {x.cmd}
         /\ Distinct(seq) /\ x.cmd \notin Cmds(seq) => Distinct(Append(seq, x))
<1> DEFINE a == Append(seq, x)
           n == Len(seq)
<1>1. /\ n \in Nat /\ DOMAIN seq = 1..n
      /\ a \in Seq(S) /\ DOMAIN a = 1..(n + 1)
      /\ \A i \in 1..n : a[i] = seq[i]
      /\ a[n + 1] = x
  BY SMTT(30)
<1> HIDE DEF a, n
<1>2. 1..(n + 1) = 1..n \cup {n + 1} /\ n + 1 \notin 1..n
  BY <1>1, SMTT(30)
<1>3. Cmds(a) = Cmds(seq) \cup {x.cmd}
  BY <1>1, <1>2, SMTT(30) DEF Cmds
<1>4. ASSUME Distinct(seq), x.cmd \notin Cmds(seq)
      PROVE  Distinct(a)
  BY <1>1, <1>2, <1>4, SMTT(30) DEF Cmds, Distinct
<1> QED BY <1>1, <1>3, <1>4 DEF a

\* Taking the head away removes one command.
LEMMA TailCmds ==
  ASSUME NEW S, NEW seq \in Seq(S), seq # <<>>
  PROVE  /\ Head(seq) \in S
         /\ Tail(seq) \in Seq(S)
         /\ Cmds(seq) = Cmds(Tail(seq)) \cup {Head(seq).cmd}
         /\ Distinct(seq) => /\ Distinct(Tail(seq))
                             /\ Head(seq).cmd \notin Cmds(Tail(seq))
<1> DEFINE t == Tail(seq)
           n == Len(seq)
<1>1. /\ n \in Nat /\ n > 0 /\ DOMAIN seq = 1..n
      /\ t \in Seq(S) /\ DOMAIN t = 1..(n - 1)
      /\ \A i \in 1..(n - 1) : t[i] = seq[i + 1]
      /\ Head(seq) = seq[1] /\ Head(seq) \in S
  BY SMTT(30)
<1> HIDE DEF t, n
<1>2. \A i \in 1..n : i = 1 \/ (i - 1 \in 1..(n - 1) /\ t[i - 1] = seq[i])
  BY <1>1, SMTT(30)
<1>3. \A i \in 1..(n - 1) : i + 1 \in 1..n /\ i + 1 # 1 /\ 1 \in 1..n
  BY <1>1, SMTT(30)
<1>4. Cmds(seq) = Cmds(t) \cup {Head(seq).cmd}
  <2>1. Cmds(seq) \subseteq Cmds(t) \cup {Head(seq).cmd}
    <3> SUFFICES ASSUME NEW i \in 1..n
                 PROVE  seq[i].cmd \in Cmds(t) \cup {Head(seq).cmd}
      BY <1>1 DEF Cmds
    <3>1. \A j \in 1..(n - 1) : t[j].cmd \in Cmds(t)
      BY <1>1 DEF Cmds
    <3> QED BY <1>1, <1>2, <3>1
  <2>2. \A i \in 1..(n - 1) : t[i].cmd \in Cmds(seq)
    BY <1>1, <1>3 DEF Cmds
  <2>3. Head(seq).cmd \in Cmds(seq)
    BY <1>1, SMTT(30) DEF Cmds
  <2> QED BY <1>1, <2>1, <2>2, <2>3 DEF Cmds
<1>5. ASSUME Distinct(seq)
      PROVE  Distinct(t) /\ Head(seq).cmd \notin Cmds(t)
  <2>1. \A i, j \in 1..n : seq[i].cmd = seq[j].cmd => i = j
    BY ONLY <1>1, <1>5, ZenonT(30) DEF Distinct
  <2>2. ASSUME NEW i \in 1..(n - 1), NEW j \in 1..(n - 1), t[i].cmd = t[j].cmd
        PROVE  i = j
    <3>1. i + 1 = j + 1
      BY <1>1, <1>3, <2>1, <2>2, SMTT(30)
    <3> QED BY <3>1, SMTT(30)
  <2>3. \A i \in 1..(n - 1) : t[i].cmd # Head(seq).cmd
    BY <1>1, <1>3, <2>1
  <2> QED BY <1>1, <2>2, <2>3 DEF Cmds, Distinct
<1> QED BY <1>1, <1>4, <1>5 DEF t

\* Concatenation has the commands of both.
LEMMA ConcatCmds ==
  ASSUME NEW S, NEW s \in Seq(S), NEW t \in Seq(S)
  PROVE  /\ s \o t \in Seq(S)
         /\ Cmds(s \o t) = Cmds(s) \cup Cmds(t)
         /\ Distinct(s) /\ Distinct(t) /\ Cmds(s) \cap Cmds(t) = {}
              => Distinct(s \o t)
<1> DEFINE u == s \o t
           m == Len(s)
           n == Len(t)
<1>1. /\ m \in Nat /\ DOMAIN s = 1..m
      /\ n \in Nat /\ DOMAIN t = 1..n
      /\ u \in Seq(S) /\ DOMAIN u = 1..(m + n)
      /\ \A i \in 1..(m + n) : u[i] = IF i <= m THEN s[i] ELSE t[i - m]
  BY SMTT(30)
<1> HIDE DEF u, m, n
<1>2. \A i \in 1..(m + n) : \/ i \in 1..m /\ u[i] = s[i]
                            \/ i - m \in 1..n /\ u[i] = t[i - m]
  BY <1>1, SMTT(30)
<1>3. \A i \in 1..m : i \in 1..(m + n) /\ u[i] = s[i]
  BY <1>1, SMTT(30)
<1>4. \A i \in 1..n : i + m \in 1..(m + n) /\ u[i + m] = t[i]
  <2> TAKE i \in 1..n
  <2>1. i + m \in 1..(m + n) /\ ~(i + m <= m) /\ (i + m) - m = i
    BY <1>1, SMTT(30)
  <2> QED BY <1>1, <2>1
<1>5. Cmds(u) = Cmds(s) \cup Cmds(t)
  <2>1. Cmds(u) \subseteq Cmds(s) \cup Cmds(t)
    BY <1>1, <1>2 DEF Cmds
  <2>2. Cmds(s) \subseteq Cmds(u)
    BY <1>1, <1>3 DEF Cmds
  <2>3. Cmds(t) \subseteq Cmds(u)
    <3>1. ASSUME NEW i \in 1..n PROVE t[i].cmd \in Cmds(u)
      BY <1>1, <1>4 DEF Cmds
    <3> QED BY <1>1, <3>1 DEF Cmds
  <2> QED BY <2>1, <2>2, <2>3
<1>6. ASSUME Distinct(s), Distinct(t), Cmds(s) \cap Cmds(t) = {},
             NEW i \in 1..(m + n), NEW j \in 1..(m + n), u[i].cmd = u[j].cmd
      PROVE  i = j
  <2>1. CASE i \in 1..m /\ j \in 1..m
    BY <1>1, <1>3, <1>6, <2>1 DEF Distinct
  <2>2. CASE i \notin 1..m /\ j \notin 1..m
    <3>1. /\ i - m \in 1..n /\ j - m \in 1..n
          /\ t[i - m].cmd = t[j - m].cmd
      BY <1>2, <1>6, <2>2
    <3>2. i - m = j - m
      BY <1>1, <1>6, <3>1 DEF Distinct
    <3> QED BY <1>1, <3>2, SMTT(30)
  <2>3. CASE i \in 1..m /\ j \notin 1..m
    BY <1>1, <1>2, <1>3, <1>6, <2>3 DEF Cmds
  <2>4. CASE i \notin 1..m /\ j \in 1..m
    BY <1>1, <1>2, <1>3, <1>6, <2>4 DEF Cmds
  <2> QED BY <2>1, <2>2, <2>3, <2>4
<1>7. Distinct(s) /\ Distinct(t) /\ Cmds(s) \cap Cmds(t) = {} => Distinct(u)
  BY <1>1, <1>6 DEF Distinct
<1> QED BY <1>1, <1>5, <1>7 DEF u
-----------------------------------------------------------------------------
\* Every command is in the buffer of its priority and in no other place.
TwinFree(q) ==
  \A p \in Priorities :
    Distinct(q[p]) /\ \A c \in Cmds(q[p]) : PriorityOf(c) = p

\* Every command has one of the four priorities.
LEMMA PriorityType == \A c : PriorityOf(c) \in Priorities
  BY DEF PriorityOf, canonicalPriorityForCommand, Priorities

\* The empty queue holds no command.
LEMMA EmptyQueue ==
  ASSUME NEW S
  PROVE  /\ NewControllerQueue \in [Priorities -> Seq(S)]
         /\ Queued(NewControllerQueue) = {}
         /\ TwinFree(NewControllerQueue)
<1>1. \A p \in Priorities : NewControllerQueue[p] = <<>>
  BY DEF NewControllerQueue
<1>2. <<>> \in Seq(S) /\ DOMAIN <<>> = {}
  BY SMTT(30)
<1>3. Cmds(<<>>) = {} /\ Distinct(<<>>)
  BY <1>2 DEF Cmds, Distinct
<1>4. NewControllerQueue \in [Priorities -> Seq(S)]
  BY <1>2 DEF NewControllerQueue
<1> QED BY <1>1, <1>3, <1>4 DEF Queued, TwinFree

\* Push adds its command and nothing else.
LEMMA PushCmds ==
  ASSUME NEW S, NEW q \in [Priorities -> Seq(S)], NEW x \in S
  PROVE  /\ Push(q, x) \in [Priorities -> Seq(S)]
         /\ Queued(Push(q, x)) = Queued(q) \cup {x.cmd}
         /\ TwinFree(q) /\ x.cmd \notin Queued(q) => TwinFree(Push(q, x))
<1> DEFINE b == PriorityOf(x.cmd)
           r == Push(q, x)
<1>1. b \in Priorities
  BY PriorityType
<1>2. /\ r[b] = Append(q[b], x)
      /\ \A p \in Priorities : p # b => r[p] = q[p]
  BY <1>1 DEF Push
<1>3. /\ Append(q[b], x) \in Seq(S)
      /\ Cmds(Append(q[b], x)) = Cmds(q[b]) \cup {x.cmd}
      /\ Distinct(q[b]) /\ x.cmd \notin Cmds(q[b]) => Distinct(Append(q[b], x))
  BY <1>1, AppendCmds
<1>4. r \in [Priorities -> Seq(S)]
  BY <1>1, <1>3 DEF Push
<1> HIDE DEF r
<1>5. \A p \in Priorities :
        Cmds(r[p]) = IF p = b THEN Cmds(q[p]) \cup {x.cmd} ELSE Cmds(q[p])
  BY <1>2, <1>3
<1>6. Queued(r) = Queued(q) \cup {x.cmd}
  BY <1>1, <1>5 DEF Queued
<1>7. ASSUME TwinFree(q), x.cmd \notin Queued(q)
      PROVE  TwinFree(r)
  BY <1>1, <1>2, <1>3, <1>5, <1>7 DEF TwinFree, Queued
<1> QED BY <1>4, <1>6, <1>7 DEF r

\* Popping from a buffer removes the command at its head.
LEMMA PopCmds ==
  ASSUME NEW S, NEW q \in [Priorities -> Seq(S)], NEW b \in Priorities,
         q[b] # <<>>
  PROVE  /\ Head(q[b]) \in S
         /\ PopFrom(q, b) \in [Priorities -> Seq(S)]
         /\ Queued(q) = Queued(PopFrom(q, b)) \cup {Head(q[b]).cmd}
         /\ TwinFree(q) => /\ TwinFree(PopFrom(q, b))
                           /\ Head(q[b]).cmd \notin Queued(PopFrom(q, b))
<1> DEFINE r == PopFrom(q, b)
           c == Head(q[b]).cmd
<1>1. /\ r[b] = Tail(q[b])
      /\ \A p \in Priorities : p # b => r[p] = q[p]
  BY DEF PopFrom
<1>2. /\ Head(q[b]) \in S
      /\ Tail(q[b]) \in Seq(S)
      /\ Cmds(q[b]) = Cmds(Tail(q[b])) \cup {c}
      /\ Distinct(q[b]) => /\ Distinct(Tail(q[b]))
                           /\ c \notin Cmds(Tail(q[b]))
  BY TailCmds
<1>3. r \in [Priorities -> Seq(S)]
  BY <1>2 DEF PopFrom
<1> HIDE DEF r, c
<1>4. Queued(q) = Queued(r) \cup {c}
  BY <1>1, <1>2 DEF Queued
<1>5. ASSUME TwinFree(q)
      PROVE  TwinFree(r) /\ c \notin Queued(r)
  <2>1. PriorityOf(c) = b
    BY <1>2, <1>5 DEF TwinFree
  <2>2. TwinFree(r)
    BY <1>1, <1>2, <1>5 DEF TwinFree
  <2>3. \A p \in Priorities : c \notin Cmds(r[p])
    BY <1>1, <1>2, <1>5, <2>1 DEF TwinFree
  <2> QED BY <2>2, <2>3 DEF Queued
<1> QED BY <1>2, <1>3, <1>4, <1>5 DEF r, c
\* Removing positions leaves the other commands where they are.
LEMMA WithoutCmds ==
  ASSUME NEW S, NEW q \in [Priorities -> Seq(S)], NEW gone
  PROVE  /\ Without(q, gone) \in [Priorities -> Seq(S)]
         /\ \A p \in Priorities : \A c :
              c \in Cmds(Without(q, gone)[p]) <=>
                \E i \in DOMAIN q[p] : <<p, i>> \notin gone /\ q[p][i].cmd = c
         /\ Queued(Without(q, gone)) \subseteq Queued(q)
         /\ TwinFree(q) => TwinFree(Without(q, gone))
<1> DEFINE idx(p) == {i \in DOMAIN q[p] : <<p, i>> \notin gone}
           r == Without(q, gone)
<1>1. \A p \in Priorities :
        /\ Kept(q[p], idx(p)) \in Seq(S)
        /\ \A c : c \in Cmds(Kept(q[p], idx(p))) <=> \E i \in idx(p) : q[p][i].cmd = c
        /\ Distinct(q[p]) => Distinct(Kept(q[p], idx(p)))
  <2> TAKE p \in Priorities
  <2>1. q[p] \in Seq(S) /\ idx(p) \in SUBSET (DOMAIN q[p])
    OBVIOUS
  <2> HIDE DEF idx
  <2> QED BY <2>1, KeptProperties
<1>2. r = [p \in Priorities |-> Kept(q[p], idx(p))]
  BY DEF Without
<1> HIDE DEF r, idx
<1>3. r \in [Priorities -> Seq(S)] /\ \A p \in Priorities : r[p] = Kept(q[p], idx(p))
  BY <1>1, <1>2
<1>4. \A p \in Priorities : \A c :
        c \in Cmds(r[p]) <=> \E i \in DOMAIN q[p] : <<p, i>> \notin gone /\ q[p][i].cmd = c
  BY <1>1, <1>3 DEF idx
<1>5. \A p \in Priorities : Cmds(r[p]) \subseteq Cmds(q[p])
  BY <1>4 DEF Cmds
<1>6. Queued(r) \subseteq Queued(q)
  BY <1>5 DEF Queued
<1>7. TwinFree(q) => TwinFree(r)
  BY <1>1, <1>3, <1>5, SMTT(30) DEF TwinFree
<1> QED BY <1>3, <1>4, <1>6, <1>7 DEF r

\* DrainExpired removes exactly the expired commands.
LEMMA DrainCmds ==
  ASSUME NEW S, NEW q \in [Priorities -> Seq(S)], NEW aged
  PROVE  /\ DrainExpired(q, aged) \in [Priorities -> Seq(S)]
         /\ Queued(DrainExpired(q, aged)) = Queued(q) \ aged
         /\ TwinFree(q) => TwinFree(DrainExpired(q, aged))
<1> DEFINE gone == ExpiredPositions(q, aged)
           r == Without(q, gone)
<1>1. \A p \in Priorities : \A i \in DOMAIN q[p] :
        <<p, i>> \in gone <=> q[p][i].cmd \in aged
  BY SMTT(30) DEF ExpiredPositions, Positions
<1> HIDE DEF gone
<1>2. /\ r \in [Priorities -> Seq(S)]
      /\ \A p \in Priorities : \A c :
           c \in Cmds(r[p]) <=>
             \E i \in DOMAIN q[p] : <<p, i>> \notin gone /\ q[p][i].cmd = c
      /\ TwinFree(q) => TwinFree(r)
  BY WithoutCmds
<1> HIDE DEF r
<1>3. \A p \in Priorities : Cmds(r[p]) = Cmds(q[p]) \ aged
  <2> TAKE p \in Priorities
  <2>1. \A c : c \in Cmds(q[p]) <=> \E i \in DOMAIN q[p] : q[p][i].cmd = c
    BY CmdsElements
  <2>2. \A c : c \in Cmds(r[p]) <=>
                 \E i \in DOMAIN q[p] : <<p, i>> \notin gone /\ q[p][i].cmd = c
    BY <1>2
  <2>3. \A c : c \in Cmds(r[p]) <=> c \in Cmds(q[p]) /\ c \notin aged
    <3>1. \A i \in DOMAIN q[p] : <<p, i>> \in gone <=> q[p][i].cmd \in aged
      BY <1>1
    <3>2. ASSUME NEW c, c \in Cmds(r[p]) PROVE c \in Cmds(q[p]) /\ c \notin aged
      <4>1. PICK i \in DOMAIN q[p] : <<p, i>> \notin gone /\ q[p][i].cmd = c
        BY <2>2, <3>2
      <4> QED BY <2>1, <3>1, <4>1
    <3>3. ASSUME NEW c, c \in Cmds(q[p]), c \notin aged PROVE c \in Cmds(r[p])
      <4>1. PICK i \in DOMAIN q[p] : q[p][i].cmd = c
        BY <2>1, <3>3
      <4> QED BY <2>2, <3>1, <3>3, <4>1
    <3> QED BY <3>2, <3>3
  <2> QED BY <2>3
<1>4. Queued(r) = Queued(q) \ aged
  BY <1>3, SMTT(30) DEF Queued
<1> QED BY <1>2, <1>4 DEF DrainExpired, r, gone

\* Appending a sequence to each buffer.
LEMMA PushAllCmds ==
  ASSUME NEW S, NEW q \in [Priorities -> Seq(S)], NEW t \in [Priorities -> Seq(S)]
  PROVE  /\ PushAll(q, t) \in [Priorities -> Seq(S)]
         /\ Queued(PushAll(q, t)) = Queued(q) \cup Queued(t)
         /\ TwinFree(q) /\ TwinFree(t) /\ Queued(q) \cap Queued(t) = {}
              => TwinFree(PushAll(q, t))
<1> DEFINE r == PushAll(q, t)
<1>1. \A p \in Priorities :
        /\ q[p] \o t[p] \in Seq(S)
        /\ Cmds(q[p] \o t[p]) = Cmds(q[p]) \cup Cmds(t[p])
        /\ Distinct(q[p]) /\ Distinct(t[p]) /\ Cmds(q[p]) \cap Cmds(t[p]) = {}
             => Distinct(q[p] \o t[p])
  <2> TAKE p \in Priorities
  <2>1. q[p] \in Seq(S) /\ t[p] \in Seq(S)
    OBVIOUS
  <2> QED BY <2>1, ConcatCmds
<1>2. r \in [Priorities -> Seq(S)] /\ \A p \in Priorities : r[p] = q[p] \o t[p]
  BY <1>1 DEF PushAll
<1> HIDE DEF r
<1>3. \A p \in Priorities : Cmds(r[p]) = Cmds(q[p]) \cup Cmds(t[p])
  BY <1>1, <1>2
<1>4. Queued(r) = Queued(q) \cup Queued(t)
  BY <1>3, SMTT(30) DEF Queued
<1>5. ASSUME TwinFree(q), TwinFree(t), Queued(q) \cap Queued(t) = {}
      PROVE  TwinFree(r)
  <2>1. \A p \in Priorities : Cmds(q[p]) \cap Cmds(t[p]) = {}
    BY <1>5 DEF Queued
  <2> QED BY <1>1, <1>2, <1>3, <1>5, <2>1 DEF TwinFree
<1> QED BY <1>2, <1>4, <1>5 DEF r

\* A snapshot has the commands of the queue, each once.
LEMMA SnapshotCmds ==
  ASSUME NEW S, NEW q \in [Priorities -> Seq(S)]
  PROVE  /\ Snapshot(q) \in Seq(S)
         /\ Cmds(Snapshot(q)) = Queued(q)
         /\ TwinFree(q) => Distinct(Snapshot(q))
<1> DEFINE h == q["high"]
           f == q["fw"]
           s == q["sync"]
           y == q["query"]
<1>1. h \in Seq(S) /\ f \in Seq(S) /\ s \in Seq(S) /\ y \in Seq(S)
  BY DEF Priorities
<1>2. Queued(q) = Cmds(h) \cup Cmds(f) \cup Cmds(s) \cup Cmds(y)
  BY DEF Queued, Priorities
<1>3. TwinFree(q) =>
        /\ Distinct(h) /\ Distinct(f) /\ Distinct(s) /\ Distinct(y)
        /\ Cmds(h) \cap Cmds(f) = {}
        /\ (Cmds(h) \cup Cmds(f)) \cap Cmds(s) = {}
        /\ (Cmds(h) \cup Cmds(f) \cup Cmds(s)) \cap Cmds(y) = {}
  BY DEF TwinFree, Priorities
<1>4. Snapshot(q) = ((h \o f) \o s) \o y
  BY DEF Snapshot
<1> HIDE DEF h, f, s, y
<1> DEFINE hf == h \o f
           hfs == hf \o s
           all == hfs \o y
<1>5. hf \in Seq(S) /\ Cmds(hf) = Cmds(h) \cup Cmds(f) /\ (TwinFree(q) => Distinct(hf))
  BY <1>1, <1>3, ConcatCmds, SMTT(30)
<1> HIDE DEF hf
<1>6. /\ hfs \in Seq(S)
      /\ Cmds(hfs) = Cmds(h) \cup Cmds(f) \cup Cmds(s)
      /\ TwinFree(q) => Distinct(hfs)
  BY <1>1, <1>3, <1>5, ConcatCmds, SMTT(30)
<1> HIDE DEF hfs
<1>7. all \in Seq(S) /\ Cmds(all) = Queued(q) /\ (TwinFree(q) => Distinct(all))
  BY <1>1, <1>2, <1>3, <1>6, ConcatCmds, SMTT(30)
<1> QED BY <1>4, <1>7 DEF hf, hfs

\* Restore puts every saved command back, each in the buffer of its priority.
LEMMA RestoreCmds ==
  ASSUME NEW S, NEW items \in Seq(S)
  PROVE  /\ Restore(items) \in [Priorities -> Seq(S)]
         /\ Queued(Restore(items)) = Cmds(items)
         /\ Distinct(items) => TwinFree(Restore(items))
<1> DEFINE idx(p) == {i \in DOMAIN items : PriorityOf(items[i].cmd) = p}
           r == Restore(items)
<1>1. \A p \in Priorities :
        /\ Kept(items, idx(p)) \in Seq(S)
        /\ \A c : c \in Cmds(Kept(items, idx(p))) <=> \E i \in idx(p) : items[i].cmd = c
        /\ Distinct(items) => Distinct(Kept(items, idx(p)))
  <2> TAKE p \in Priorities
  <2>1. idx(p) \in SUBSET (DOMAIN items)
    OBVIOUS
  <2> HIDE DEF idx
  <2> QED BY <2>1, KeptProperties
<1>2. r = [p \in Priorities |-> Kept(items, idx(p))]
  BY DEF Restore
<1> HIDE DEF r, idx
<1>3. r \in [Priorities -> Seq(S)] /\ \A p \in Priorities : r[p] = Kept(items, idx(p))
  BY <1>1, <1>2
<1>4. \A p \in Priorities : \A c :
        c \in Cmds(r[p]) <=> c \in Cmds(items) /\ PriorityOf(c) = p
  <2> TAKE p \in Priorities
  <2>1. \A c : c \in Cmds(r[p]) <=> \E i \in idx(p) : items[i].cmd = c
    BY <1>1, <1>3
  <2> QED BY <2>1, CmdsElements, SMTT(30) DEF idx
<1>5. Queued(r) = Cmds(items)
  BY <1>4, PriorityType, SMTT(60) DEF Queued
<1>6. \A p \in Priorities : \A c \in Cmds(r[p]) : PriorityOf(c) = p
  BY <1>4
<1>7. Distinct(items) => TwinFree(r)
  BY <1>1, <1>3, <1>6, SMTT(30) DEF TwinFree
<1> QED BY <1>3, <1>5, <1>7 DEF r

-----------------------------------------------------------------------------
\* The commands in an in-flight table.
EntryCmds(T) == {e.cmd : e \in T}

\* No command and no sequence number occurs twice in an in-flight table.
DistinctEntries(T) ==
  \A e, f \in T : e.cmd = f.cmd \/ e.seq = f.seq => e = f

\* A session, and a snapshot, whose in-flight table is finite.
LegalSession(s) == s \in SessionSet /\ IsFiniteSet(s.inFlight)

LegalSnapshot(d) == d \in SnapshotSet /\ IsFiniteSet(d.inFlight)

\* The sequence numbers are a non-empty range.
LEMMA SeqsType ==
  /\ Seqs \subseteq Nat /\ 0 \in Seqs
  /\ \A n \in Seqs : (n + 1) % NumSeqs \in Seqs
  BY LimitsAssumption, SMTT(30) DEF Seqs

\* A command may be sent again a natural number of times, whatever profiles are
\* configured.
LEMMA MaxRetriesType == \A c \in Commands : MaxRetries(c) \in Nat
<1> DEFINE base == Policies["base"]
           least == IF base.maxRetries < 0 THEN 0 ELSE base.maxRetries
<1>1. \A k \in {"base", "query", "sync", "fw"} : Policies[k].maxRetries \in Int
  BY PoliciesAssumption DEF Profile
<1>2. BasePolicy.maxRetries = least /\ least \in Nat
  <2>1. base \in Profile
    BY PoliciesAssumption
  <2>2. BasePolicy.maxRetries = least
    BY <2>1 DEF BasePolicy, Profile
  <2> QED BY <1>1, <2>2, SMTT(30)
<1>3. \A k \in {"query", "sync", "fw"} :
        mergeDeliveryPolicy(BasePolicy, Policies[k]).maxRetries \in Nat
  <2> TAKE k \in {"query", "sync", "fw"}
  <2> DEFINE f == Policies[k]
  <2>1. f.maxRetries \in Int
    BY <1>1
  <2>2. \/ mergeDeliveryPolicy(BasePolicy, f) = BasePolicy
        \/ mergeDeliveryPolicy(BasePolicy, f).maxRetries =
             IF f.maxRetries >= 0 THEN f.maxRetries ELSE BasePolicy.maxRetries
    BY DEF mergeDeliveryPolicy
  <2> HIDE DEF f
  <2>3. mergeDeliveryPolicy(BasePolicy, f).maxRetries \in Nat
    BY <1>2, <2>1, <2>2, SMTT(30)
  <2> QED BY <2>3 DEF f
<1> SUFFICES ASSUME NEW c \in Commands PROVE MaxRetries(c) \in Nat
  OBVIOUS
<1>4. \/ deliveryPolicyForCommand(c) = BasePolicy
      \/ \E k \in {"query", "sync", "fw"} :
           deliveryPolicyForCommand(c) = mergeDeliveryPolicy(BasePolicy, Policies[k])
  BY DEF deliveryPolicyForCommand
<1> QED BY <1>2, <1>3, <1>4 DEF MaxRetries

\* The entries to be retried, in the order chosen, are sequences of items
\* without twins, and are the commands whose timer has elapsed.
LEMMA RetryOrderCmds ==
  ASSUME NEW s, LegalSession(s), NEW aged,
         NEW order \in RetryOrders(s, aged)
  PROVE  /\ order \in [Priorities -> Seq(ItemSet)]
         /\ Queued(order) = EntryCmds(TimedOutRetrying(s, aged))
         /\ DistinctEntries(s.inFlight) => TwinFree(order)
<1> DEFINE R == TimedOutRetrying(s, aged)
           mine(p) == {e \in R : PriorityOf(e.cmd) = p}
           items(p) == {Item(e.cmd, e.attempts, e.seq) : e \in mine(p)}
<1>1. R \subseteq s.inFlight /\ s.inFlight \subseteq EntrySet /\ IsFiniteSet(s.inFlight)
  BY DEF TimedOutRetrying, Unexpired, Due, LegalSession, SessionSet
<1>2. /\ DOMAIN order = Priorities
      /\ \A p \in Priorities : order[p] \in Injection(1..Cardinality(items(p)), items(p))
      /\ order = [p \in Priorities |-> order[p]]
  BY DEF RetryOrders
<1> HIDE DEF R
<1>3. ASSUME NEW p \in Priorities
      PROVE  /\ IsFiniteSet(items(p)) /\ Cardinality(items(p)) \in Nat
             /\ items(p) \subseteq ItemSet
  <2>1. IsFiniteSet(mine(p))
    BY <1>1, FS_Subset
  <2> DEFINE f == [e \in mine(p) |-> Item(e.cmd, e.attempts, e.seq)]
  <2>2. f \in Surjection(mine(p), items(p))
    BY DEF Surjection
  <2>3. IsFiniteSet(items(p))
    <3> HIDE DEF f, mine, items
    <3> QED BY <2>1, <2>2, FS_Surjection
  <2>4. items(p) \subseteq ItemSet
    BY <1>1, SMTT(30) DEF Item, ItemSet, EntrySet
  <2> HIDE DEF items
  <2> QED BY <2>3, <2>4, FS_CardinalityType
<1>4. ASSUME NEW p \in Priorities
      PROVE  /\ order[p] \in Seq(ItemSet)
             /\ \A c : c \in Cmds(order[p]) <=> \E e \in mine(p) : e.cmd = c
             /\ DistinctEntries(s.inFlight) => Distinct(order[p])
  <2> DEFINE n == Cardinality(items(p))
             o == order[p]
             I == items(p)
  <2>1. /\ o \in [1..n -> I]
        /\ \A i, j \in 1..n : i # j => o[i] # o[j]
    BY <1>2 DEF Injection, IsInjective
  <2>2. n \in Nat /\ I \subseteq ItemSet /\ IsFiniteSet(I)
    BY <1>3
  <2>3. \A x : x \in I <=> \E e \in mine(p) : x = Item(e.cmd, e.attempts, e.seq)
    OBVIOUS
  <2>4. mine(p) \subseteq s.inFlight
    BY <1>1
  <2> HIDE DEF n, o, I, mine, items
  <2>5. o \in Surjection(1..n, I)
    <3>1. o \in Injection(1..n, I)
      BY <2>1 DEF Injection, IsInjective
    <3>2. Cardinality(1..n) = n
      BY <2>2, FS_Interval, SMTT(30)
    <3> QED BY <2>2, <3>1, <3>2, FS_Injection DEF n, I
  <2>6. \A x \in I : \E i \in 1..n : o[i] = x
    BY <2>5 DEF Surjection
  <2>7. o \in Seq(ItemSet) /\ DOMAIN o = 1..n
    <3>1. o \in [1..n -> ItemSet]
      BY <2>1, <2>2
    <3> QED BY <2>2, <3>1, SMTT(30)
  <2>8. \A i \in 1..n : \E e \in mine(p) :
          o[i] = Item(e.cmd, e.attempts, e.seq) /\ o[i].cmd = e.cmd
    BY <2>1, <2>3, SMTT(30) DEF Item
  <2>9. ASSUME NEW c
        PROVE  c \in Cmds(o) <=> \E e \in mine(p) : e.cmd = c
    <3>1. c \in Cmds(o) <=> \E i \in 1..n : o[i].cmd = c
      BY <2>7, CmdsElements
    <3>2. ASSUME NEW e \in mine(p), e.cmd = c PROVE \E i \in 1..n : o[i].cmd = c
      <4>1. Item(e.cmd, e.attempts, e.seq) \in I
        BY <2>3
      <4>2. PICK i \in 1..n : o[i] = Item(e.cmd, e.attempts, e.seq)
        BY <2>6, <4>1
      <4> QED BY <3>2, <4>2, SMTT(30) DEF Item
    <3> QED BY <2>8, <3>1, <3>2
  <2>10. ASSUME DistinctEntries(s.inFlight) PROVE Distinct(o)
    <3> SUFFICES ASSUME NEW i \in 1..n, NEW j \in 1..n, o[i].cmd = o[j].cmd
                 PROVE  i = j
      BY <2>7 DEF Distinct
    <3>1. PICK e \in mine(p) : o[i] = Item(e.cmd, e.attempts, e.seq) /\ o[i].cmd = e.cmd
      BY <2>8
    <3>2. PICK f \in mine(p) : o[j] = Item(f.cmd, f.attempts, f.seq) /\ o[j].cmd = f.cmd
      BY <2>8
    <3>3. e = f
      BY <2>4, <2>10, <3>1, <3>2 DEF DistinctEntries
    <3> QED BY <2>1, <3>1, <3>2, <3>3
  <2> QED BY <2>7, <2>9, <2>10 DEF o
<1>5. order \in [Priorities -> Seq(ItemSet)]
  BY <1>2, <1>4
<1>6. \A p \in Priorities : \A c :
        c \in Cmds(order[p]) <=> \E e \in R : e.cmd = c /\ PriorityOf(e.cmd) = p
  BY <1>4
<1>7. Queued(order) = EntryCmds(R)
  BY <1>6, PriorityType, SMTT(30) DEF Queued, EntryCmds
<1>8. ASSUME DistinctEntries(s.inFlight) PROVE TwinFree(order)
  BY <1>4, <1>6, <1>8 DEF TwinFree
<1> QED BY <1>5, <1>7, <1>8 DEF R
-----------------------------------------------------------------------------
\* The commands a session holds, and those a snapshot holds.
Held(s) == Queued(s.queue) \cup EntryCmds(s.inFlight)

SavedCmds(d) == Cmds(d.pending) \cup EntryCmds(d.inFlight)

\* A session of the right type that holds no command twice.
SessionOK(s) ==
  /\ LegalSession(s)
  /\ TwinFree(s.queue)
  /\ DistinctEntries(s.inFlight)
  /\ Queued(s.queue) \cap EntryCmds(s.inFlight) = {}

SnapshotOK(d) ==
  /\ LegalSnapshot(d)
  /\ Distinct(d.pending)
  /\ DistinctEntries(d.inFlight)
  /\ Cmds(d.pending) \cap EntryCmds(d.inFlight) = {}

\* A session made from another one by changing neither the queue nor the
\* in-flight table.
Quiet(s, t) == t \in SessionSet /\ t.queue = s.queue /\ t.inFlight = s.inFlight

\* Such a change keeps what the session holds.
LEMMA QuietKeeps ==
  ASSUME NEW s, NEW t, SessionOK(s), Quiet(s, t)
  PROVE  SessionOK(t) /\ Held(t) = Held(s)
  BY DEF Quiet, SessionOK, LegalSession, Held

\* The operations that touch neither the queue nor the in-flight table.
LEMMA QuietOperations ==
  ASSUME NEW s \in SessionSet
  PROVE  /\ \A k \in Conns : Quiet(s, Attach(s, k))
         /\ Quiet(s, MarkOffline(s))
         /\ \A k \in Conns : Quiet(s, MarkOffline(Attach(s, k)))
         /\ \A mode \in {"sequenced", "compact"} : Quiet(s, SetFrameMode(s, mode))
         /\ \A n \in Nat : Quiet(s, UpdateBufferFree(s, n))
         /\ \A on \in BOOLEAN : Quiet(s, SetFWMode(s, on)) /\ Quiet(s, SetSyncMode(s, on))
         /\ Quiet(s, NextCommandSeq(s))
<1>1. \A k \in Conns : Quiet(s, Attach(s, k))
  <2> TAKE k \in Conns
  <2>1. EffectiveBuffer(s.bufferFree) \in Nat
    BY SMTT(30) DEF EffectiveBuffer, DefaultBuffer, SessionSet
  <2> QED BY <2>1 DEF Quiet, Attach, SessionSet
<1>2. \A t \in SessionSet : Quiet(t, MarkOffline(t))
  BY DEF Quiet, MarkOffline, SessionSet
<1>7. \A k \in Conns : Quiet(s, MarkOffline(Attach(s, k)))
  BY <1>1, <1>2 DEF Quiet
<1>3. \A mode \in {"sequenced", "compact"} : Quiet(s, SetFrameMode(s, mode))
  BY DEF Quiet, SetFrameMode, SessionSet
<1>4. \A n \in Nat : Quiet(s, UpdateBufferFree(s, n))
  BY DEF Quiet, UpdateBufferFree, SessionSet
<1>5. \A on \in BOOLEAN : Quiet(s, SetFWMode(s, on)) /\ Quiet(s, SetSyncMode(s, on))
  BY DEF Quiet, SetFWMode, SetSyncMode, SessionSet
<1>6. Quiet(s, NextCommandSeq(s))
  BY SeqsType DEF Quiet, NextCommandSeq, SessionSet
<1> QED BY <1>1, <1>2, <1>3, <1>4, <1>5, <1>6, <1>7

\* A session with another queue.
LEMMA ReplaceQueue ==
  ASSUME NEW s, SessionOK(s), NEW q \in [Priorities -> Seq(ItemSet)], TwinFree(q),
         Queued(q) \cap EntryCmds(s.inFlight) = {}
  PROVE  /\ SessionOK([s EXCEPT !.queue = q])
         /\ Held([s EXCEPT !.queue = q]) = Queued(q) \cup EntryCmds(s.inFlight)
<1> DEFINE t == [s EXCEPT !.queue = q]
<1>1. t \in SessionSet /\ t.queue = q /\ t.inFlight = s.inFlight
  BY DEF SessionOK, LegalSession, SessionSet
<1> HIDE DEF t
<1>2. SessionOK(t) /\ Held(t) = Queued(q) \cup EntryCmds(s.inFlight)
  BY <1>1 DEF SessionOK, LegalSession, Held
<1> QED BY <1>2 DEF t

\* A session with another in-flight table.
LEMMA ReplaceInFlight ==
  ASSUME NEW s, SessionOK(s), NEW T \in SUBSET EntrySet, IsFiniteSet(T),
         DistinctEntries(T), Queued(s.queue) \cap EntryCmds(T) = {}
  PROVE  /\ SessionOK([s EXCEPT !.inFlight = T])
         /\ Held([s EXCEPT !.inFlight = T]) = Queued(s.queue) \cup EntryCmds(T)
<1> DEFINE t == [s EXCEPT !.inFlight = T]
<1>1. t \in SessionSet /\ t.queue = s.queue /\ t.inFlight = T
  BY DEF SessionOK, LegalSession, SessionSet
<1> HIDE DEF t
<1>2. SessionOK(t) /\ Held(t) = Queued(s.queue) \cup EntryCmds(T)
  BY <1>1 DEF SessionOK, LegalSession, Held
<1> QED BY <1>2 DEF t
-----------------------------------------------------------------------------
\* RegisterInFlight adds the command of its item and replaces what was in
\* flight under the same number.
LEMMA RegisterKeeps ==
  ASSUME NEW s, SessionOK(s), NEW n \in Seqs, NEW x \in ItemSet,
         x.cmd \notin Held(s)
  PROVE  /\ SessionOK(RegisterInFlight(s, n, x))
         /\ Held(RegisterInFlight(s, n, x)) \subseteq Held(s) \cup {x.cmd}
         /\ Held(s) \cup {x.cmd} \subseteq
              Held(RegisterInFlight(s, n, x)) \cup EntryCmds({e \in s.inFlight : e.seq = n})
<1> DEFINE kept == {e \in s.inFlight : e.seq # n}
           new == [seq |-> n, cmd |-> x.cmd, attempts |-> x.attempts + 1, timer |-> 0]
           T == kept \cup {new}
<1>1. /\ s.inFlight \subseteq EntrySet /\ IsFiniteSet(s.inFlight)
      /\ DistinctEntries(s.inFlight)
  BY DEF SessionOK, LegalSession, SessionSet
<1>2. new \in EntrySet /\ new.cmd = x.cmd /\ new.seq = n
  BY SMTT(30) DEF EntrySet, ItemSet
<1>3. IsFiniteSet(T)
  <2>1. IsFiniteSet(kept)
    BY <1>1, FS_Subset
  <2> HIDE DEF kept, new
  <2> QED BY <2>1, FS_AddElement
<1> HIDE DEF new
<1>4. EntryCmds(T) \subseteq EntryCmds(s.inFlight) \cup {x.cmd}
  BY <1>2 DEF EntryCmds
<1>10. EntryCmds(s.inFlight) \cup {x.cmd} \subseteq
         EntryCmds(T) \cup EntryCmds({e \in s.inFlight : e.seq = n})
  BY <1>2 DEF EntryCmds
<1>5. DistinctEntries(T)
  BY <1>1, <1>2 DEF DistinctEntries, EntryCmds, Held
<1>6. T \in SUBSET EntrySet
  BY <1>1, <1>2
<1>7. RegisterInFlight(s, n, x) = [s EXCEPT !.inFlight = T]
  BY DEF RegisterInFlight, new
<1>8. Queued(s.queue) \cap EntryCmds(T) = {}
  BY <1>4 DEF SessionOK, Held
<1> HIDE DEF T
<1>9. /\ SessionOK([s EXCEPT !.inFlight = T])
      /\ Held([s EXCEPT !.inFlight = T]) = Queued(s.queue) \cup EntryCmds(T)
  BY <1>3, <1>5, <1>6, <1>8, ReplaceInFlight
<1> QED BY <1>4, <1>7, <1>9, <1>10 DEF Held

\* Taking entries out of the in-flight table, as AckInFlight does.
LEMMA RemoveKeeps ==
  ASSUME NEW s, SessionOK(s), NEW T \in SUBSET s.inFlight
  PROVE  /\ SessionOK([s EXCEPT !.inFlight = T])
         /\ Held([s EXCEPT !.inFlight = T]) = Queued(s.queue) \cup EntryCmds(T)
         /\ Held([s EXCEPT !.inFlight = T]) \subseteq Held(s)
<1>1. T \in SUBSET EntrySet /\ IsFiniteSet(T) /\ DistinctEntries(T)
  BY FS_Subset DEF SessionOK, LegalSession, SessionSet, DistinctEntries
<1>2. EntryCmds(T) \subseteq EntryCmds(s.inFlight)
  BY DEF EntryCmds
<1>3. Queued(s.queue) \cap EntryCmds(T) = {}
  BY <1>2 DEF SessionOK
<1>4. /\ SessionOK([s EXCEPT !.inFlight = T])
      /\ Held([s EXCEPT !.inFlight = T]) = Queued(s.queue) \cup EntryCmds(T)
  BY <1>1, <1>3, ReplaceInFlight
<1> QED BY <1>2, <1>4 DEF Held

\* An entry's timer changes neither its command nor its number.
LEMMA TimerKeeps ==
  ASSUME NEW s, SessionOK(s), NEW e \in s.inFlight, e.timer < 2,
         NEW T, T = (s.inFlight \ {e}) \cup {[e EXCEPT !.timer = @ + 1]}
  PROVE  /\ SessionOK([s EXCEPT !.inFlight = T])
         /\ Held([s EXCEPT !.inFlight = T]) = Held(s)
<1> DEFINE g == [e EXCEPT !.timer = @ + 1]
<1>1. /\ s.inFlight \subseteq EntrySet /\ IsFiniteSet(s.inFlight)
      /\ DistinctEntries(s.inFlight)
  BY DEF SessionOK, LegalSession, SessionSet
<1>2. e \in EntrySet
  BY <1>1
<1>3. g \in EntrySet /\ g.cmd = e.cmd /\ g.seq = e.seq
  BY <1>2, SMTT(30) DEF EntrySet
<1> HIDE DEF g
<1>4. T = (s.inFlight \ {e}) \cup {g}
  BY DEF g
<1>5. IsFiniteSet(T)
  <2>1. IsFiniteSet(s.inFlight \ {e})
    BY <1>1, FS_Subset
  <2> QED BY <1>4, <2>1, FS_AddElement, SMTT(30)
<1>6. DistinctEntries(T)
  BY <1>1, <1>3, <1>4 DEF DistinctEntries
<1>7. EntryCmds(T) = EntryCmds(s.inFlight)
  BY <1>3, <1>4 DEF EntryCmds
<1>8. T \in SUBSET EntrySet /\ Queued(s.queue) \cap EntryCmds(T) = {}
  BY <1>1, <1>3, <1>4, <1>7 DEF SessionOK
<1>9. /\ SessionOK([s EXCEPT !.inFlight = T])
      /\ Held([s EXCEPT !.inFlight = T]) = Queued(s.queue) \cup EntryCmds(T)
  BY <1>5, <1>6, <1>8, ReplaceInFlight
<1> QED BY <1>7, <1>9 DEF Held
-----------------------------------------------------------------------------
\* ProcessInFlight: the commands to be retried move from the in-flight table
\* to the queue, and those it gives up leave the session.
LEMMA ProcessKeeps ==
  ASSUME NEW s, SessionOK(s), NEW aged,
         NEW order \in RetryOrders(s, aged)
  PROVE  /\ SessionOK(ProcessInFlight(s, aged, order))
         /\ Held(ProcessInFlight(s, aged, order)) =
              Held(s) \ EntryCmds(TimedOutExpired(s, aged) \cup
                                  TimedOutFailed(s, aged))
<1> DEFINE R == TimedOutRetrying(s, aged)
           T == s.inFlight \ (TimedOutExpired(s, aged) \cup
                              TimedOutFailed(s, aged) \cup R)
           q == PushAll(s.queue, order)
           u == [s EXCEPT !.inFlight = T]
<1>1. /\ order \in [Priorities -> Seq(ItemSet)]
      /\ Queued(order) = EntryCmds(R)
      /\ TwinFree(order)
  BY RetryOrderCmds DEF SessionOK
<1>2. R \subseteq s.inFlight
  BY DEF TimedOutRetrying, Unexpired, Due
<1>3. /\ SessionOK(u) /\ Held(u) = Queued(s.queue) \cup EntryCmds(T)
  BY RemoveKeeps
<1>4. u.queue = s.queue /\ u.inFlight = T /\ s.queue \in [Priorities -> Seq(ItemSet)]
  BY DEF SessionOK, LegalSession, SessionSet
<1>5. EntryCmds(R) \subseteq EntryCmds(s.inFlight) /\ EntryCmds(T) \subseteq EntryCmds(s.inFlight)
  BY <1>2 DEF EntryCmds
<1>6. EntryCmds(R) \cap EntryCmds(T) = {}
  BY <1>2 DEF EntryCmds, SessionOK, DistinctEntries
<1>7. ProcessInFlight(s, aged, order) = [u EXCEPT !.queue = q]
  BY DEF ProcessInFlight, SessionOK, LegalSession, SessionSet
<1> DEFINE G == TimedOutExpired(s, aged) \cup TimedOutFailed(s, aged)
<1>11. G \subseteq s.inFlight /\ G \cap R = {} /\ T = s.inFlight \ (G \cup R)
  <2>1. \A e \in TimedOutFailed(s, aged) \cup R :
          e \in Unexpired(s, aged) /\ e \in s.inFlight
    BY DEF TimedOutFailed, TimedOutRetrying, Unexpired, Due
  <2>2. \A e \in TimedOutExpired(s, aged) : e \in s.inFlight /\ e \notin Unexpired(s, aged)
    BY DEF TimedOutExpired, Unexpired, Due
  <2>3. TimedOutFailed(s, aged) \cap R = {}
    <3> SUFFICES ASSUME NEW e \in s.inFlight, e \in TimedOutFailed(s, aged), e \in R
                 PROVE  FALSE
      BY <1>2
    <3> DEFINE m == MaxRetries(e.cmd) + 1
    <3>1. e.attempts >= m /\ e.attempts < m
      BY DEF TimedOutFailed, TimedOutRetrying
    <3>2. m \in Int /\ e.attempts \in Int
      BY MaxRetriesType, SMTT(30) DEF SessionOK, LegalSession, SessionSet, EntrySet
    <3> HIDE DEF m
    <3> QED BY <3>1, <3>2, SMTT(30)
  <2> QED BY <2>1, <2>2, <2>3
<1> HIDE DEF R, T, u, G
<1>12. /\ EntryCmds(s.inFlight) = EntryCmds(T) \cup EntryCmds(G) \cup EntryCmds(R)
       /\ EntryCmds(G) \cap (EntryCmds(T) \cup EntryCmds(R)) = {}
  BY <1>2, <1>11, SMTT(30) DEF EntryCmds, SessionOK, DistinctEntries
<1>8. /\ q \in [Priorities -> Seq(ItemSet)]
      /\ Queued(q) = Queued(s.queue) \cup EntryCmds(R)
      /\ TwinFree(q)
  <2>1. Queued(s.queue) \cap Queued(order) = {} /\ TwinFree(s.queue)
    BY <1>1, <1>5 DEF SessionOK
  <2> DEFINE Q == [Priorities -> Seq(ItemSet)]
  <2>2. order \in Q /\ s.queue \in Q
    BY <1>1, <1>4
  <2>3. \A a, b \in Q : /\ PushAll(a, b) \in Q
                        /\ Queued(PushAll(a, b)) = Queued(a) \cup Queued(b)
                        /\ TwinFree(a) /\ TwinFree(b) /\ Queued(a) \cap Queued(b) = {}
                             => TwinFree(PushAll(a, b))
    BY PushAllCmds
  <2> HIDE DEF Q
  <2>4. /\ q \in Q /\ TwinFree(q)
        /\ Queued(q) = Queued(s.queue) \cup Queued(order)
    BY <1>1, <2>1, <2>2, <2>3
  <2> QED BY <1>1, <2>4 DEF Q
<1> HIDE DEF q
<1>9. Queued(q) \cap EntryCmds(u.inFlight) = {}
  BY <1>4, <1>5, <1>6, <1>8 DEF SessionOK
<1>10. /\ SessionOK([u EXCEPT !.queue = q])
       /\ Held([u EXCEPT !.queue = q]) = Queued(q) \cup EntryCmds(u.inFlight)
  BY <1>3, <1>8, <1>9, ReplaceQueue
<1>13. Held([u EXCEPT !.queue = q]) = Held(s) \ EntryCmds(G)
  BY <1>4, <1>8, <1>10, <1>11, <1>12 DEF Held, SessionOK
<1> QED BY <1>7, <1>10, <1>13 DEF G

\* A queue that holds no more commands than before.
LEMMA ShrinkQueue ==
  ASSUME NEW s, SessionOK(s), NEW q \in [Priorities -> Seq(ItemSet)], TwinFree(q),
         Queued(q) \subseteq Queued(s.queue)
  PROVE  /\ SessionOK([s EXCEPT !.queue = q])
         /\ Held([s EXCEPT !.queue = q]) = Queued(q) \cup EntryCmds(s.inFlight)
         /\ Held([s EXCEPT !.queue = q]) \subseteq Held(s)
<1>1. Queued(q) \cap EntryCmds(s.inFlight) = {}
  BY DEF SessionOK
<1> QED BY <1>1, ReplaceQueue DEF Held

\* A command the session does not hold is pushed on its queue.
LEMMA PushKeeps ==
  ASSUME NEW s, SessionOK(s), NEW x \in ItemSet, x.cmd \notin Held(s)
  PROVE  /\ SessionOK([s EXCEPT !.queue = Push(@, x)])
         /\ Held([s EXCEPT !.queue = Push(@, x)]) = Held(s) \cup {x.cmd}
<1> DEFINE q == Push(s.queue, x)
<1>1. s.queue \in [Priorities -> Seq(ItemSet)] /\ x.cmd \notin Queued(s.queue)
  BY DEF SessionOK, LegalSession, SessionSet, Held
<1>2. /\ q \in [Priorities -> Seq(ItemSet)]
      /\ Queued(q) = Queued(s.queue) \cup {x.cmd}
      /\ TwinFree(q)
  BY <1>1, PushCmds, SMTT(30) DEF SessionOK
<1> HIDE DEF q
<1>3. Queued(q) \cap EntryCmds(s.inFlight) = {}
  BY <1>2 DEF SessionOK, Held
<1>4. /\ SessionOK([s EXCEPT !.queue = q])
      /\ Held([s EXCEPT !.queue = q]) = Queued(q) \cup EntryCmds(s.inFlight)
  BY <1>2, <1>3, ReplaceQueue
<1> QED BY <1>2, <1>4 DEF Held, q
-----------------------------------------------------------------------------
\* What is saved of a session is what it holds.
LEMMA SnapshotKeeps ==
  ASSUME NEW s, SessionOK(s)
  PROVE  /\ SnapshotOK(SessionSnapshot(s))
         /\ SavedCmds(SessionSnapshot(s)) = Held(s)
<1> DEFINE d == SessionSnapshot(s)
           T == {SavedEntry(e) : e \in s.inFlight}
           f == [e \in s.inFlight |-> SavedEntry(e)]
<1>1. s \in SessionSet /\ IsFiniteSet(s.inFlight) /\ s.inFlight \subseteq EntrySet
  BY DEF SessionOK, LegalSession, SessionSet
<1>2. /\ Snapshot(s.queue) \in Seq(ItemSet)
      /\ Cmds(Snapshot(s.queue)) = Queued(s.queue)
      /\ Distinct(Snapshot(s.queue))
  <2>1. s.queue \in [Priorities -> Seq(ItemSet)]
    BY <1>1 DEF SessionSet
  <2> QED BY <2>1, SnapshotCmds DEF SessionOK
<1>3. f \in Surjection(s.inFlight, T)
  BY DEF Surjection
<1>4. IsFiniteSet(T)
  <2> HIDE DEF f, T
  <2> QED BY <1>1, <1>3, FS_Surjection
<1>5. T \subseteq SavedEntrySet
  BY <1>1, SMTT(30) DEF SavedEntry, SavedEntrySet, EntrySet
<1>6. DistinctEntries(T)
  BY SMTT(30) DEF SessionOK, DistinctEntries, SavedEntry
<1>7. EntryCmds(T) = EntryCmds(s.inFlight)
  <2>1. \A x : x \in T <=> \E e \in s.inFlight : x = SavedEntry(e)
    OBVIOUS
  <2>2. \A e \in s.inFlight : SavedEntry(e).cmd = e.cmd
    BY DEF SavedEntry
  <2> HIDE DEF T
  <2> QED BY <2>1, <2>2, SMTT(30) DEF EntryCmds
<1>8. d.pending = Snapshot(s.queue) /\ d.inFlight = T
  BY DEF SessionSnapshot
<1>9. d \in SnapshotSet
  <2> HIDE DEF T
  <2>1. T = {SavedEntry(e) : e \in s.inFlight}
    BY DEF T
  <2> QED BY <1>1, <1>2, <1>5, <2>1 DEF SessionSnapshot, SnapshotSet, SessionSet
<1> HIDE DEF d, T
<1>10. SnapshotOK(d) /\ SavedCmds(d) = Held(s)
  BY <1>2, <1>4, <1>6, <1>7, <1>8, <1>9
     DEF SnapshotOK, LegalSnapshot, SavedCmds, Held, SessionOK
<1> QED BY <1>10 DEF d

\* What is restored is what was saved.
LEMMA RestoreKeeps ==
  ASSUME NEW d, SnapshotOK(d)
  PROVE  /\ SessionOK(RestoredSession(d))
         /\ Held(RestoredSession(d)) = SavedCmds(d)
<1> DEFINE s == RestoredSession(d)
           T == {RestoredEntry(e) : e \in d.inFlight}
           f == [e \in d.inFlight |-> RestoredEntry(e)]
<1>1. d \in SnapshotSet /\ IsFiniteSet(d.inFlight) /\ d.inFlight \subseteq SavedEntrySet
  BY DEF SnapshotOK, LegalSnapshot, SnapshotSet
<1>2. /\ Restore(d.pending) \in [Priorities -> Seq(ItemSet)]
      /\ Queued(Restore(d.pending)) = Cmds(d.pending)
      /\ TwinFree(Restore(d.pending))
  <2>1. d.pending \in Seq(ItemSet)
    BY <1>1 DEF SnapshotSet
  <2> QED BY <2>1, RestoreCmds DEF SnapshotOK
<1>3. f \in Surjection(d.inFlight, T)
  BY DEF Surjection
<1>4. IsFiniteSet(T)
  <2> HIDE DEF f, T
  <2> QED BY <1>1, <1>3, FS_Surjection
<1>5. T \subseteq EntrySet
  BY <1>1, SMTT(30) DEF RestoredEntry, SavedEntrySet, EntrySet
<1>6. DistinctEntries(T)
  BY SMTT(30) DEF SnapshotOK, DistinctEntries, RestoredEntry
<1>7. EntryCmds(T) = EntryCmds(d.inFlight)
  <2>1. \A x : x \in T <=> \E e \in d.inFlight : x = RestoredEntry(e)
    OBVIOUS
  <2>2. \A e \in d.inFlight : RestoredEntry(e).cmd = e.cmd
    BY DEF RestoredEntry
  <2> HIDE DEF T
  <2> QED BY <2>1, <2>2, SMTT(30) DEF EntryCmds
<1>8. s.queue = Restore(d.pending) /\ s.inFlight = T
  BY DEF RestoredSession
<1>9. s \in SessionSet
  <2> HIDE DEF T
  <2>1. T = {RestoredEntry(e) : e \in d.inFlight}
    BY DEF T
  <2>2. EffectiveBuffer(d.bufferFree) \in Nat
    BY <1>1, SMTT(30) DEF EffectiveBuffer, DefaultBuffer, SnapshotSet
  <2> QED BY <1>1, <1>2, <1>5, <2>1, <2>2 DEF RestoredSession, SnapshotSet, SessionSet
<1> HIDE DEF s, T
<1>10. SessionOK(s) /\ Held(s) = SavedCmds(d)
  BY <1>2, <1>4, <1>6, <1>7, <1>8, <1>9
     DEF SnapshotOK, LegalSession, SavedCmds, Held, SessionOK
<1> QED BY <1>10 DEF s

\* The session of a controller that has just been made known.
LEMMA DetachedKeeps == SessionOK(DetachedSession) /\ Held(DetachedSession) = {}
<1>1. /\ NewControllerQueue \in [Priorities -> Seq(ItemSet)]
      /\ Queued(NewControllerQueue) = {}
      /\ TwinFree(NewControllerQueue)
  BY EmptyQueue
<1>2. /\ DetachedSession \in SessionSet
      /\ DetachedSession.queue = NewControllerQueue /\ DetachedSession.inFlight = {}
  BY <1>1, SeqsType, SMTT(30) DEF DetachedSession, SessionSet, DefaultBuffer
<1>3. IsFiniteSet({})
  BY FS_EmptySet
<1> QED BY <1>1, <1>2, <1>3 DEF SessionOK, LegalSession, DistinctEntries, Held, EntryCmds

\* A save that fails, of a session that would have held no more than the one
\* that stays in memory.
LessSaveFailed ==
  \E t \in SessionSet : SessionOK(t) /\ Held(t) \subseteq Held(sess') /\ SaveFailedOf(t)

\* Whether an operation saves the session, fails to or does not try, what is on
\* disk is a snapshot without twins of commands the session had or has.
LEMMA SaveKeeps ==
  ASSUME SnapshotOK(disk), failures \in 0..MaxFailures, SessionOK(sess'),
         Saved \/ SaveFailed \/ LessSaveFailed \/ NotSaved
  PROVE  /\ SnapshotOK(disk')
         /\ SavedCmds(disk') \subseteq SavedCmds(disk) \cup Held(sess')
         /\ failures' \in 0..MaxFailures
<1>1. CASE Saved
  <2>1. SnapshotOK(disk') /\ SavedCmds(disk') = Held(sess')
    BY <1>1, SnapshotKeeps DEF Saved
  <2> QED BY <1>1, <2>1 DEF Saved
<1>2. CASE SaveFailed \/ LessSaveFailed
  <2>1. PICK t \in SessionSet :
          SessionOK(t) /\ Held(t) \subseteq Held(sess') /\ SaveFailedOf(t)
    <3>1. sess' \in SessionSet
      BY DEF SessionOK, LegalSession
    <3> QED BY <1>2, <3>1 DEF SaveFailed, LessSaveFailed
  <2>2. SnapshotOK(SessionSnapshot(t)) /\ SavedCmds(SessionSnapshot(t)) = Held(t)
    BY <2>1, SnapshotKeeps
  <2>3. disk' = disk \/ disk' = SessionSnapshot(t)
    BY <2>1 DEF SaveFailedOf
  <2>4. failures' \in 0..MaxFailures
    BY <2>1, LimitsAssumption, SMTT(30) DEF SaveFailedOf
  <2>5. SnapshotOK(disk') /\ SavedCmds(disk') \subseteq SavedCmds(disk) \cup Held(sess')
    <3>1. CASE disk' = disk
      BY <3>1
    <3>2. CASE disk' = SessionSnapshot(t)
      BY <2>1, <2>2, <3>2
    <3> QED BY <2>3, <3>1, <3>2
  <2> QED BY <2>4, <2>5
<1>3. CASE NotSaved
  BY <1>3 DEF NotSaved
<1> QED BY <1>1, <1>2, <1>3

-----------------------------------------------------------------------------
\* The delivery

\* The commands in the hands of flushQueue.
Carried(f) == Cmds(f.skipped) \cup {item.cmd : item \in f.hand}

FlushOK(f, s) ==
  /\ f \in FlushSet
  /\ Distinct(f.skipped)
  /\ Cmds(f.skipped) \cap {item.cmd : item \in f.hand} = {}
  /\ Carried(f) \cap Held(s) = {}

\* The types of the variables that hold no commands, or only history.
ControlOK ==
  /\ pc \in [Procs -> ConnLabels \cup SweepLabels \cup FlushLabels]
  /\ msg \in [Conns -> MessageSet]
  /\ \A k \in Conns : pc[k] = "setmode" => msg[k].type = "register"
  /\ out \in [Procs -> SUBSET Commands]
  /\ lock \in Procs \cup {NoProc}
  /\ wire \subseteq Frames
  /\ expired \subseteq Commands
  /\ fate \in [Commands -> {"new", "accepted", "refused", "dropped"}]
  /\ terminal \in [Commands -> Nat]
  /\ writes \in [Commands -> Nat]
  /\ crashes \in 0..MaxCrashes
  /\ issued \in 0..NumSeqs
  /\ overrun \subseteq Commands
  /\ credited \subseteq Commands

StoreOK == SnapshotOK(disk) /\ failures \in 0..MaxFailures

Fresh ==
  \A c \in Commands : fate[c] = "new" =>
    c \notin Held(sess) \cup Carried(fl) \cup SavedCmds(disk)

IInv ==
  /\ SessionOK(sess)
  /\ StoreOK
  /\ FlushOK(fl, sess)
  /\ Fresh
  /\ ControlOK

\* What a step does to the commands: the session and the flusher hold none
\* twice, and together hold only what they held before.
Moves ==
  /\ SessionOK(sess')
  /\ FlushOK(fl', sess')
  /\ Held(sess') \cup Carried(fl') \subseteq Held(sess) \cup Carried(fl)
  /\ Saved \/ SaveFailed \/ LessSaveFailed \/ NotSaved
  /\ \A c \in Commands : fate'[c] = "new" => fate[c] = "new"

-----------------------------------------------------------------------------
\* A step that moves commands in this way keeps the invariant.
LEMMA MovesKeep ==
  ASSUME IInv, Moves, ControlOK'
  PROVE  IInv'
<1>1. /\ SnapshotOK(disk')
      /\ SavedCmds(disk') \subseteq SavedCmds(disk) \cup Held(sess')
      /\ failures' \in 0..MaxFailures
  BY SaveKeeps DEF IInv, StoreOK, Moves
<1>2. Fresh'
  BY <1>1 DEF IInv, Fresh, Moves
<1> QED BY <1>1, <1>2 DEF IInv, Moves, StoreOK

\* The invariant implies the two properties.
LEMMA IInvImplies == IInv => TypeOK /\ NoTwin
<1> SUFFICES ASSUME IInv PROVE TypeOK /\ NoTwin
  OBVIOUS
<1>1. TypeOK
  BY DEF IInv, TypeOK, StoreOK, SessionOK, LegalSession, SnapshotOK, LegalSnapshot,
         FlushOK, ControlOK
<1>2. /\ \A b \in Priorities : Distinct(sess.queue[b])
      /\ \A a, b \in Priorities :
           a # b => Cmds(sess.queue[a]) \cap Cmds(sess.queue[b]) = {}
  BY SMTT(30) DEF IInv, SessionOK, TwinFree
<1>3. \A e, f \in sess.inFlight : e.cmd = f.cmd \/ e.seq = f.seq => e = f
  BY DEF IInv, SessionOK, DistinctEntries
<1>4. InFlightCmds = EntryCmds(sess.inFlight)
  BY DEF InFlightCmds, EntryCmds
<1>5. /\ Distinct(fl.skipped)
      /\ SkippedCmds \cap HandCmds = {}
      /\ (SkippedCmds \cup HandCmds) \cap (Queued(sess.queue) \cup InFlightCmds) = {}
  BY <1>4 DEF IInv, FlushOK, Carried, Held, SkippedCmds, HandCmds
<1>6. Queued(sess.queue) \cap InFlightCmds = {}
  BY <1>4 DEF IInv, SessionOK
<1>7. NoTwin
  BY <1>2, <1>3, <1>5, <1>6 DEF NoTwin
<1> QED BY <1>1, <1>7

\* The flush that is not running carries nothing.
LEMMA IdleKeeps ==
  /\ IdleFlush \in FlushSet
  /\ IdleFlush.skipped = <<>> /\ IdleFlush.hand = {}
  /\ Cmds(<<>>) = {} /\ Distinct(<<>>)
  /\ Carried(IdleFlush) = {}
<1>1. <<>> \in Seq(ItemSet) /\ DOMAIN <<>> = {}
  BY SMTT(30)
<1>2. Cmds(<<>>) = {} /\ Distinct(<<>>)
  BY <1>1 DEF Cmds, Distinct
<1>3. IdleFlush \in FlushSet
  BY <1>1, SeqsType, SMTT(30) DEF IdleFlush, FlushSet
<1>4. IdleFlush.skipped = <<>> /\ IdleFlush.hand = {}
  BY DEF IdleFlush
<1> QED BY <1>2, <1>3, <1>4 DEF Carried

\* The invariant holds when the adapter starts.
LEMMA InitKeeps == Init => IInv
<1> SUFFICES ASSUME Init PROVE IInv
  OBVIOUS
<1>1. SessionOK(sess) /\ Held(sess) = {}
  BY DetachedKeeps DEF Init
<1>2. SnapshotOK(disk) /\ SavedCmds(disk) = {}
  BY DetachedKeeps, SnapshotKeeps DEF Init
<1>3. FlushOK(fl, sess) /\ Carried(fl) = {}
  BY <1>1, IdleKeeps DEF Init, FlushOK
<1>4. Fresh
  BY <1>1, <1>2, <1>3 DEF Fresh
<1>5. StoreOK
  BY <1>2, LimitsAssumption, SMTT(30) DEF StoreOK, Init
<1>6. ControlOK
  BY LimitsAssumption, EnvironmentAssumption, ProcsAssumption, SMTT(30)
     DEF Init, ControlOK, Procs, ConnLabels, SweepLabels, MessageSet, NoMsg
<1> QED BY <1>1, <1>3, <1>4, <1>5, <1>6 DEF IInv
-----------------------------------------------------------------------------
\* A step in which commands only leave.
LEMMA ShrinkMoves ==
  ASSUME IInv, SessionOK(sess'), Held(sess') \subseteq Held(sess),
         fl' \in FlushSet, fl'.skipped = fl.skipped \/ fl'.skipped = <<>>,
         fl'.hand \subseteq fl.hand,
         Saved \/ SaveFailed \/ LessSaveFailed \/ NotSaved,
         \A c \in Commands : fate'[c] = "new" => fate[c] = "new"
  PROVE  Moves
<1>1. Carried(fl') \subseteq Carried(fl)
  BY IdleKeeps DEF Carried
<1>2. Distinct(fl'.skipped) /\ Cmds(fl'.skipped) \subseteq Cmds(fl.skipped)
  BY IdleKeeps DEF IInv, FlushOK
<1>3. FlushOK(fl', sess')
  BY <1>1, <1>2 DEF IInv, FlushOK
<1> QED BY <1>1, <1>3 DEF Moves

\* A step that changes neither the queue nor the in-flight table nor the flush.
LEMMA QuietMoves ==
  ASSUME IInv, Quiet(sess, sess'), fl' = fl, fate' = fate,
         Saved \/ SaveFailed \/ NotSaved
  PROVE  Moves
<1>1. SessionOK(sess') /\ Held(sess') = Held(sess)
  BY QuietKeeps DEF IInv
<1>2. fl' \in FlushSet
  BY DEF IInv, FlushOK
<1> QED BY <1>1, <1>2, ShrinkMoves

\* The fields a handler reads of a message are there.
LEMMA MessageFields ==
  /\ \A m \in MessageSet :
       /\ m.type = "register" => m.mode \in {"sequenced", "compact"}
       /\ m.type \in {"status1", "ack"} => m.free \in Nat
       /\ m.type = "ack" => m.frame \in Frames
  /\ wire \subseteq Frames => Messages \subseteq MessageSet
<1>1. ASSUME NEW m \in MessageSet
      PROVE  /\ m.type = "register" => m.mode \in {"sequenced", "compact"}
             /\ m.type \in {"status1", "ack"} => m.free \in Nat
             /\ m.type = "ack" => m.frame \in Frames
  BY SMTT(30) DEF MessageSet, NoMsg
<1>2. wire \subseteq Frames => Messages \subseteq MessageSet
  BY EnvironmentAssumption DEF Messages, MessageSet
<1> QED BY <1>1, <1>2

\* The steps of handleConn outside the flush.
LEMMA ConnMoves ==
  ASSUME IInv, NEW k \in Conns, ConnStep(k)
  PROVE  Moves
<1>0. sess \in SessionSet /\ Quiet(sess, sess)
  BY DEF IInv, SessionOK, LegalSession, Quiet
<1>1. CASE Connect(k)
  BY <1>0, <1>1, QuietMoves DEF Connect, sessVars, histVars, NotSaved
<1>2. ASSUME NEW mode \in FrameModes, Register(k, mode) PROVE Moves
  BY <1>0, <1>2, QuietMoves, QuietOperations DEF Register, sessVars, histVars, NotSaved
<1>3. CASE AdoptFrameMode(k)
  <2>1. msg[k].mode \in {"sequenced", "compact"}
    BY <1>3, MessageFields DEF AdoptFrameMode, At, IInv, ControlOK
  <2>2. Quiet(sess, sess')
    BY <1>0, <1>3, <2>1, QuietOperations DEF AdoptFrameMode
  <2> QED BY <1>3, <2>2, QuietMoves DEF AdoptFrameMode, histVars
<1>4. CASE RegistrationAck(k)
  BY <1>0, <1>4, QuietMoves, QuietOperations DEF RegistrationAck, Touch, histVars
<1>5. ASSUME NEW m \in Messages, Receive(k, m) PROVE Moves
  BY <1>0, <1>5, QuietMoves DEF Receive, Touch, histVars
<1>6. CASE ReadFails(k)
  BY <1>0, <1>6, QuietMoves DEF ReadFails, sessVars, histVars, NotSaved
<1>7. CASE Handle(k)
  <2>1. msg[k].type \in {"status1", "ack"} => msg[k].free \in Nat
    BY MessageFields DEF IInv, ControlOK
  <2>2. Quiet(sess, sess')
    BY <1>0, <1>7, <2>1, QuietOperations DEF Handle
  <2> QED BY <1>7, <2>2, QuietMoves DEF Handle, histVars
<1>8. CASE ActStatus1(k)
  BY <1>0, <1>8, QuietMoves, QuietOperations DEF ActStatus1, sessVars, histVars, NotSaved
<1>9. CASE ActAck(k)
  <2> DEFINE T == {e \in sess.inFlight : e.seq # msg[k].frame.seq}
             t == AckInFlight(sess, msg[k].frame.seq)
  <2>1. t = [sess EXCEPT !.inFlight = T] /\ T \in SUBSET sess.inFlight
    BY DEF AckInFlight
  <2> HIDE DEF T, t
  <2>2. SessionOK(t) /\ Held(t) \subseteq Held(sess)
    BY <2>1, RemoveKeeps DEF IInv
  <2>3. fl' = fl /\ fate' = fate /\ fl \in FlushSet
    BY <1>9 DEF ActAck, IInv, FlushOK
  <2>4. CASE sess' = sess /\ NotSaved
    BY <1>0, <2>3, <2>4, QuietMoves
  <2>5. CASE sess' = t /\ Saved
    BY <2>2, <2>3, <2>5, ShrinkMoves
  <2>6. CASE sess' = sess /\ SaveFailedOf(t)
    <3>1. LessSaveFailed
      BY <2>2, <2>6 DEF LessSaveFailed, SessionOK, LegalSession
    <3> QED BY <2>2, <2>3, <2>6, <3>1, ShrinkMoves DEF IInv
  <2> QED BY <1>9, <2>4, <2>5, <2>6 DEF ActAck, sessVars, NotSaved, t
<1>10. CASE ActOther(k)
  BY <1>0, <1>10, QuietMoves, QuietOperations DEF ActOther, sessVars, histVars, NotSaved
<1>11. CASE GoOffline(k)
  BY <1>0, <1>11, QuietMoves, QuietOperations DEF GoOffline, histVars
<1>12. CASE CloseConn(k)
  BY <1>0, <1>12, QuietMoves DEF CloseConn, sessVars, histVars, NotSaved
<1> QED BY <1>1, <1>2, <1>3, <1>4, <1>5, <1>6, <1>7, <1>8, <1>9, <1>10, <1>11, <1>12
        DEF ConnStep
\* A goroutine of the adapter goes to a label it can be at.
LEMMA GotoKeeps ==
  ASSUME ControlOK, NEW p \in Procs, NEW label, Goto(p, label),
         label \in ConnLabels \cup SweepLabels \cup FlushLabels
  PROVE  /\ pc' \in [Procs -> ConnLabels \cup SweepLabels \cup FlushLabels]
         /\ pc'[p] = label
         /\ \A q \in Procs : q # p => pc'[q] = pc[q]
  BY DEF ControlOK, Goto

\* The control variables after a step of handleConn that leads to a label other
\* than setmode.
LEMMA ConnGoto ==
  ASSUME IInv, NEW k \in Conns,
         NEW label \in (ConnLabels \ {"setmode"}) \cup SweepLabels, Goto(k, label),
         NEW m \in MessageSet, msg' = [msg EXCEPT ![k] = m] \/ msg' = msg,
         out' \in [Procs -> SUBSET Commands], credited' \subseteq Commands,
         UNCHANGED <<lock, wire, expired, fate, terminal, writes, issued, overrun, crashes>>
  PROVE  ControlOK'
<1>1. k \in Procs
  BY DEF Procs
<1>2. /\ pc' \in [Procs -> ConnLabels \cup SweepLabels \cup FlushLabels]
      /\ pc'[k] = label
      /\ \A q \in Procs : q # k => pc'[q] = pc[q]
  BY <1>1, GotoKeeps DEF IInv
<1>3. msg' \in [Conns -> MessageSet] /\ \A q \in Conns : q # k => msg'[q] = msg[q]
  BY DEF IInv, ControlOK
<1>4. \A q \in Conns : pc'[q] = "setmode" => msg'[q].type = "register"
  <2> TAKE q \in Conns
  <2>1. CASE q = k
    BY <1>2, <2>1 DEF SweepLabels
  <2>2. CASE q # k
    BY <1>2, <1>3, <2>2 DEF IInv, ControlOK, Procs
  <2> QED BY <2>1, <2>2
<1> QED BY <1>2, <1>3, <1>4 DEF IInv, ControlOK

\* Every step of handleConn outside the flush keeps the control variables.
LEMMA ConnControl ==
  ASSUME IInv, NEW k \in Conns, ConnStep(k)
  PROVE  ControlOK'
<1> USE DEF histVars
<1>0. /\ NoMsg \in MessageSet
      /\ out \in [Procs -> SUBSET Commands] /\ credited \subseteq Commands
      /\ msg \in [Conns -> MessageSet]
  BY DEF MessageSet, IInv, ControlOK
<1>a. {"new", "register", "regack", "read", "handle", "act", "exit", "closing", "gone",
       "process"} \subseteq (ConnLabels \ {"setmode"}) \cup SweepLabels
  BY DEF ConnLabels, SweepLabels
<1>1. CASE Connect(k)
  BY <1>0, <1>a, <1>1, ConnGoto DEF Connect
<1>2. ASSUME NEW mode \in FrameModes, Register(k, mode) PROVE ControlOK'
  <2>1. CASE Goto(k, "gone") /\ msg' = msg
    BY <1>0, <1>a, <1>2, <2>1, ConnGoto DEF Register
  <2>2. CASE Goto(k, "setmode") /\ msg' = [msg EXCEPT ![k] = [type |-> "register", mode |-> mode]]
    <3>1. /\ pc' \in [Procs -> ConnLabels \cup SweepLabels \cup FlushLabels]
          /\ \A q \in Procs : q # k => pc'[q] = pc[q]
      BY <2>2, GotoKeeps DEF IInv, Procs, ConnLabels
    <3>2. [type |-> "register", mode |-> mode] \in MessageSet
      BY EnvironmentAssumption DEF MessageSet
    <3>3. /\ msg' \in [Conns -> MessageSet]
          /\ msg'[k].type = "register" /\ \A q \in Conns : q # k => msg'[q] = msg[q]
      BY <1>0, <2>2, <3>2
    <3>4. \A q \in Conns : pc'[q] = "setmode" => msg'[q].type = "register"
      BY <3>1, <3>3 DEF IInv, ControlOK, Procs
    <3> QED BY <1>2, <3>1, <3>3, <3>4 DEF Register, IInv, ControlOK
  <2> QED BY <1>2, <2>1, <2>2 DEF Register
<1>3. CASE AdoptFrameMode(k)
  BY <1>0, <1>a, <1>3, ConnGoto DEF AdoptFrameMode
<1>4. CASE RegistrationAck(k)
  BY <1>0, <1>a, <1>4, ConnGoto DEF RegistrationAck
<1>5. ASSUME NEW m \in Messages, Receive(k, m) PROVE ControlOK'
  <2>1. m \in MessageSet
    BY MessageFields DEF IInv, ControlOK
  <2> QED BY <1>0, <1>a, <1>5, <2>1, ConnGoto DEF Receive
<1>6. CASE ReadFails(k)
  BY <1>0, <1>a, <1>6, ConnGoto DEF ReadFails
<1>7. CASE Handle(k)
  BY <1>0, <1>a, <1>7, ConnGoto DEF Handle
<1>8. CASE ActStatus1(k)
  BY <1>0, <1>a, <1>8, ConnGoto DEF ActStatus1
<1>9. CASE ActAck(k)
  <2> DEFINE done == {e.cmd : e \in {e \in sess.inFlight : e.seq = msg[k].frame.seq}}
  <2>1. done \subseteq Commands
    BY SMTT(30) DEF IInv, SessionOK, LegalSession, SessionSet, EntrySet
  <2>2. /\ out' = [out EXCEPT ![k] = done] \/ out' = out
        /\ credited' = credited \cup (done \ {msg[k].frame.cmd}) \/ credited' = credited
    BY <1>9 DEF ActAck, Emit
  <2> HIDE DEF done
  <2>3. out' \in [Procs -> SUBSET Commands] /\ credited' \subseteq Commands
    BY <1>0, <2>1, <2>2
  <2> QED BY <1>0, <1>a, <1>9, <2>3, ConnGoto DEF ActAck
<1>10. CASE ActOther(k)
  BY <1>0, <1>a, <1>10, ConnGoto DEF ActOther
<1>11. CASE GoOffline(k)
  BY <1>0, <1>a, <1>11, ConnGoto DEF GoOffline
<1>12. CASE CloseConn(k)
  BY <1>0, <1>a, <1>12, ConnGoto DEF CloseConn
<1> QED BY <1>1, <1>2, <1>3, <1>4, <1>5, <1>6, <1>7, <1>8, <1>9, <1>10, <1>11, <1>12
        DEF ConnStep
-----------------------------------------------------------------------------
\* The queue in which Enqueue makes room has no command that was not there.
LEMMA RoomCmds ==
  ASSUME NEW s, SessionOK(s), NEW c
  PROVE  /\ MakeRoom(s.queue, c) \in [Priorities -> Seq(ItemSet)]
         /\ TwinFree(MakeRoom(s.queue, c))
         /\ Queued(MakeRoom(s.queue, c)) \subseteq Queued(s.queue)
<1> DEFINE room == MakeRoom(s.queue, c)
           gone == Oldest(s.queue, DropCount(s.queue, c))
<1>1. s.queue \in [Priorities -> Seq(ItemSet)] /\ TwinFree(s.queue)
  BY DEF SessionOK, LegalSession, SessionSet
<1>2. room = Without(s.queue, gone)
  BY DEF MakeRoom
<1> HIDE DEF room, gone
<1>3. /\ room \in [Priorities -> Seq(ItemSet)] /\ TwinFree(room)
      /\ Queued(room) \subseteq Queued(s.queue)
  BY <1>1, <1>2, WithoutCmds
<1> QED BY <1>3 DEF room

\* With it the session holds no more than before.
LEMMA RoomKeeps ==
  ASSUME NEW s, SessionOK(s), NEW c \in Commands
  PROVE  /\ SessionOK([RecordKey(s, c) EXCEPT !.queue = MakeRoom(s.queue, c)])
         /\ Held([RecordKey(s, c) EXCEPT !.queue = MakeRoom(s.queue, c)]) \subseteq Held(s)
<1> DEFINE room == MakeRoom(s.queue, c)
           u == RecordKey(s, c)
<1>1. s.queue \in [Priorities -> Seq(ItemSet)] /\ TwinFree(s.queue) /\ s \in SessionSet
  BY DEF SessionOK, LegalSession, SessionSet
<1>2. /\ room \in [Priorities -> Seq(ItemSet)] /\ TwinFree(room)
      /\ Queued(room) \subseteq Queued(s.queue)
  BY RoomCmds
<1>3. c.dedupKey \in STRING
  BY CommandsAssumption DEF CommandRecord
<1>4. Quiet(s, u)
  BY <1>1, <1>3 DEF Quiet, RecordKey, SessionSet
<1> HIDE DEF room, u
<1>5. SessionOK(u) /\ Held(u) = Held(s) /\ u.queue = s.queue
  BY <1>4, QuietKeeps DEF Quiet
<1>6. SessionOK([u EXCEPT !.queue = room]) /\ Held([u EXCEPT !.queue = room]) \subseteq Held(s)
  BY <1>2, <1>5, ShrinkQueue
<1> QED BY <1>6 DEF room, u

\* A command that is refused may cost others their place, and adds none.
LEMMA RefuseMoves ==
  ASSUME IInv, NEW c \in Commands, Refuse(c)
  PROVE  Moves /\ ControlOK'
<1>1. SessionOK(sess') /\ Held(sess') \subseteq Held(sess)
  <2>1. CASE sess' = sess
    BY <2>1 DEF IInv
  <2>2. CASE sess' = [RecordKey(sess, c) EXCEPT !.queue = MakeRoom(sess.queue, c)]
    BY <2>2, RoomKeeps DEF IInv
  <2> QED BY <2>1, <2>2 DEF Refuse
<1>2. /\ \A d \in Commands : fate'[d] = "new" => fate[d] = "new"
      /\ fate' \in [Commands -> {"new", "accepted", "refused", "dropped"}]
  BY DEF Refuse, IInv, ControlOK
<1>3. fl' = fl /\ fl \in FlushSet /\ NotSaved
  BY DEF Refuse, procVars, IInv, FlushOK
<1>4. Moves
  BY <1>1, <1>2, <1>3, ShrinkMoves
<1>5. ControlOK'
  BY <1>2 DEF Refuse, procVars, IInv, ControlOK
<1> QED BY <1>4, <1>5

\* A new command is accepted: it was nowhere before.
LEMMA AcceptKeeps ==
  ASSUME IInv, NEW c \in Commands, Accept(c)
  PROVE  IInv'
<1> DEFINE room == MakeRoom(sess.queue, c)
           t == [RecordKey(sess, c) EXCEPT !.queue = room]
           x == Item(c, 0, 0)
<1>1. SessionOK(t) /\ Held(t) \subseteq Held(sess)
  BY RoomKeeps DEF IInv
<1>2. x \in ItemSet /\ x.cmd = c
  BY SeqsType DEF Item, ItemSet
<1>3. c \notin Held(sess) \cup Carried(fl) \cup SavedCmds(disk)
  BY DEF Accept, IInv, Fresh
<1>4. sess' = [t EXCEPT !.queue = Push(@, x)]
  BY DEF Accept, RecordKey, IInv, SessionOK, LegalSession, SessionSet
<1> HIDE DEF t, x, room
<1>5. /\ SessionOK([t EXCEPT !.queue = Push(@, x)])
      /\ Held([t EXCEPT !.queue = Push(@, x)]) = Held(t) \cup {c}
  BY <1>1, <1>2, <1>3, PushKeeps
<1>6. SessionOK(sess') /\ Held(sess') \subseteq Held(sess) \cup {c}
  BY <1>1, <1>4, <1>5
<1>7. fl' = fl /\ (Saved \/ SaveFailed)
  BY DEF Accept, procVars
<1>8. FlushOK(fl', sess')
  BY <1>3, <1>6, <1>7 DEF IInv, FlushOK
<1>9. /\ SnapshotOK(disk') /\ failures' \in 0..MaxFailures
      /\ SavedCmds(disk') \subseteq SavedCmds(disk) \cup Held(sess')
  BY <1>6, <1>7, SaveKeeps DEF IInv, StoreOK
<1>10. /\ \A d \in Commands : fate'[d] = "new" => fate[d] = "new" /\ d # c
       /\ fate' \in [Commands -> {"new", "accepted", "refused", "dropped"}]
  BY DEF Accept, IInv, ControlOK
<1>11. Fresh'
  BY <1>6, <1>7, <1>9, <1>10 DEF IInv, Fresh
<1>12. ControlOK'
  BY <1>10 DEF Accept, procVars, IInv, ControlOK
<1> QED BY <1>6, <1>8, <1>9, <1>11, <1>12 DEF IInv, StoreOK

\* The adapter restarts: what was on disk is in memory.
LEMMA CrashKeeps ==
  ASSUME IInv, Crash
  PROVE  IInv'
<1>1. SessionOK(sess') /\ Held(sess') = SavedCmds(disk)
  BY RestoreKeeps DEF Crash, IInv, StoreOK
<1>2. FlushOK(fl', sess') /\ Carried(fl') = {}
  BY IdleKeeps DEF Crash, FlushOK
<1>3. NotSaved /\ fate' = fate
  BY DEF Crash, NotSaved, histVars
<1>4. Fresh' /\ StoreOK'
  BY <1>1, <1>2, <1>3 DEF IInv, Fresh, StoreOK, NotSaved
<1>5. ControlOK'
  <2>1. /\ pc' \in [Procs -> ConnLabels \cup SweepLabels \cup FlushLabels]
        /\ \A k \in Conns : pc'[k] # "setmode"
    BY ProcsAssumption DEF Crash, ConnLabels, SweepLabels, Procs
  <2>2. msg' \in [Conns -> MessageSet] /\ out' \in [Procs -> SUBSET Commands]
    BY DEF Crash, MessageSet
  <2>3. crashes' \in 0..MaxCrashes
    BY EnvironmentAssumption, SMTT(30) DEF Crash, IInv, ControlOK
  <2> QED BY <2>1, <2>2, <2>3 DEF Crash, histVars, IInv, ControlOK
<1> QED BY <1>1, <1>2, <1>4, <1>5 DEF IInv

\* Time passes.
LEMMA TimeMoves ==
  ASSUME IInv,
         \/ \E c \in Commands : ExpireTTL(c)
         \/ \E e \in sess.inFlight : AckTimerElapses(e)
         \/ \E key \in sess.dedup : DedupWindowEnds(key)
  PROVE  Moves /\ ControlOK'
<1> USE DEF procVars, histVars
<1>1. ASSUME NEW c \in Commands, ExpireTTL(c) PROVE Moves /\ ControlOK'
  <2>1. Moves
    BY <1>1, QuietMoves DEF ExpireTTL, sessVars, NotSaved, Quiet, IInv, SessionOK, LegalSession
  <2>2. ControlOK'
    BY <1>1 DEF ExpireTTL, IInv, ControlOK
  <2> QED BY <2>1, <2>2
<1>2. ASSUME NEW e \in sess.inFlight, AckTimerElapses(e) PROVE Moves /\ ControlOK'
  <2> DEFINE T == (sess.inFlight \ {e}) \cup {[e EXCEPT !.timer = @ + 1]}
  <2>1. sess' = [sess EXCEPT !.inFlight = T] /\ e.timer < 2
    BY <1>2 DEF AckTimerElapses
  <2>2. SessionOK([sess EXCEPT !.inFlight = T]) /\ Held([sess EXCEPT !.inFlight = T]) = Held(sess)
    BY <2>1, TimerKeeps DEF IInv
  <2> HIDE DEF T
  <2>3. Moves
    BY <1>2, <2>1, <2>2, ShrinkMoves DEF AckTimerElapses, IInv, FlushOK
  <2>4. ControlOK'
    BY <1>2 DEF AckTimerElapses, IInv, ControlOK
  <2> QED BY <2>3, <2>4
<1>3. ASSUME NEW key \in sess.dedup, DedupWindowEnds(key) PROVE Moves /\ ControlOK'
  <2>1. Quiet(sess, sess')
    BY <1>3 DEF DedupWindowEnds, Quiet, IInv, SessionOK, LegalSession, SessionSet
  <2>2. Moves
    BY <1>3, <2>1, QuietMoves DEF DedupWindowEnds
  <2>3. ControlOK'
    BY <1>3 DEF DedupWindowEnds, IInv, ControlOK
  <2> QED BY <2>2, <2>3
<1> QED BY <1>1, <1>2, <1>3

-----------------------------------------------------------------------------
-----------------------------------------------------------------------------
\* A step of the flush that moves no command, or lets go of those it carries.
LEMMA QuietFlushMoves ==
  ASSUME IInv, Quiet(sess, sess'), fl' \in FlushSet,
         fl'.skipped = fl.skipped \/ fl'.skipped = <<>>,
         fl'.hand \subseteq fl.hand, fate' = fate, Saved \/ SaveFailed \/ NotSaved
  PROVE  Moves
<1>1. SessionOK(sess') /\ Held(sess') = Held(sess)
  BY QuietKeeps DEF IInv
<1> QED BY <1>1, ShrinkMoves

\* flushQueue returns, and its locals are gone.
LEMMA ReturnMoves ==
  ASSUME IInv, Quiet(sess, sess'), fl' = IdleFlush, fate' = fate,
         Saved \/ SaveFailed \/ NotSaved
  PROVE  Moves
<1>1. fl' \in FlushSet /\ fl'.skipped = <<>> /\ fl'.hand \subseteq fl.hand
  BY IdleKeeps
<1> QED BY <1>1, QuietFlushMoves

\* t is s without the command at the head of buffer b.
Takes(s, b, t) ==
  /\ SessionOK(t)
  /\ Head(s.queue[b]) \in ItemSet
  /\ Head(s.queue[b]).cmd \notin Held(t)
  /\ Held(s) = Held(t) \cup {Head(s.queue[b]).cmd}

\* PopNext takes a command out of the session, whatever buffer it serves.
LEMMA PopTakes ==
  ASSUME NEW s, SessionOK(s), NEW fw, NEW sync,
         NEW b \in NextBuffer(s.queue, fw, sync)
  PROVE  Takes(s, b, [s EXCEPT !.queue = PopFrom(@, b)])
<1> DEFINE t == [s EXCEPT !.queue = PopFrom(@, b)]
           q == s.queue
           r == PopFrom(q, b)
           c == Head(q[b]).cmd
<1>1. b \in Priorities /\ q[b] # <<>>
  BY SMTT(30) DEF NextBuffer, ServiceOrder, Priorities
<1>2. q \in [Priorities -> Seq(ItemSet)] /\ TwinFree(q)
  BY DEF SessionOK, LegalSession, SessionSet
<1>3. /\ Head(q[b]) \in ItemSet
      /\ r \in [Priorities -> Seq(ItemSet)]
      /\ Queued(q) = Queued(r) \cup {c}
      /\ TwinFree(r) /\ c \notin Queued(r)
  BY <1>1, <1>2, PopCmds
<1> HIDE DEF c, r, t
<1>4. t = [s EXCEPT !.queue = r]
  BY DEF r, t
<1>5. /\ SessionOK(t)
      /\ Held(t) = Queued(r) \cup EntryCmds(s.inFlight)
  BY <1>3, <1>4, ShrinkQueue
<1>6. c \notin EntryCmds(s.inFlight)
  BY <1>3 DEF SessionOK
<1>7. Takes(s, b, t)
  BY <1>3, <1>5, <1>6 DEF Takes, Held, c
<1> QED BY <1>7 DEF t

\* The next command leaves the queue: settled, set aside or to be sent.
LEMMA PopMoves ==
  ASSUME IInv, NEW p \in Procs, Pop(p)
  PROVE  Moves
<1>1. PICK b \in NextBuffer(sess.queue, fl.fwMode, fl.syncMode) :
        /\ sess' = [sess EXCEPT !.queue = PopFrom(@, b)]
        /\ \/ fl' = [fl EXCEPT !.left = @ - 1]
           \/ fl' = [fl EXCEPT !.left = @ - 1,
                               !.skipped = Append(@, Head(sess.queue[b]))]
           \/ fl' = [fl EXCEPT !.left = @ - 1, !.hand = {Head(sess.queue[b])}]
  BY DEF Pop
<1> DEFINE x == Head(sess.queue[b])
<1>2. /\ SessionOK(sess') /\ x \in ItemSet /\ x.cmd \notin Held(sess')
      /\ Held(sess) = Held(sess') \cup {x.cmd}
  <2>1. Takes(sess, b, [sess EXCEPT !.queue = PopFrom(@, b)])
    BY PopTakes DEF IInv
  <2>2. Takes(sess, b, sess')
    BY <1>1, <2>1
  <2> QED BY <2>2 DEF Takes
<1>3. fate' = fate /\ NotSaved /\ fl.left - 1 \in Nat /\ fl \in FlushSet
  BY SMTT(30) DEF Pop, histVars, IInv, FlushOK, FlushSet
<1>4. CASE fl' = [fl EXCEPT !.left = @ - 1]
  <2>1. fl' \in FlushSet /\ fl'.skipped = fl.skipped /\ fl'.hand = fl.hand
    BY <1>3, <1>4 DEF FlushSet
  <2> QED BY <1>2, <1>3, <2>1, ShrinkMoves
<1> HIDE DEF x
<1>5. CASE fl' = [fl EXCEPT !.left = @ - 1, !.skipped = Append(@, x)]
  <2>1. fl.skipped \in Seq(ItemSet)
    BY <1>3 DEF FlushSet
  <2>2. x.cmd \notin Carried(fl)
    BY <1>2 DEF IInv, FlushOK
  <2>3. /\ Append(fl.skipped, x) \in Seq(ItemSet)
        /\ Cmds(Append(fl.skipped, x)) = Cmds(fl.skipped) \cup {x.cmd}
        /\ Distinct(Append(fl.skipped, x))
    BY <1>2, <2>1, <2>2, AppendCmds, SMTT(30) DEF IInv, FlushOK, Carried
  <2>4. /\ fl' \in FlushSet /\ fl'.hand = fl.hand
        /\ fl'.skipped = Append(fl.skipped, x)
    BY <1>3, <1>5, <2>3 DEF FlushSet
  <2>5. Carried(fl') = Carried(fl) \cup {x.cmd}
    BY <2>3, <2>4 DEF Carried
  <2>6. FlushOK(fl', sess')
    BY <1>2, <2>2, <2>3, <2>4, <2>5 DEF IInv, FlushOK, Carried
  <2> QED BY <1>2, <1>3, <2>5, <2>6 DEF Moves
<1>6. CASE fl' = [fl EXCEPT !.left = @ - 1, !.hand = {x}]
  <2>1. /\ fl' \in FlushSet /\ fl'.hand = {x} /\ fl'.skipped = fl.skipped
    BY <1>2, <1>3, <1>6 DEF FlushSet
  <2>2. Carried(fl') = Cmds(fl.skipped) \cup {x.cmd}
    BY <2>1 DEF Carried
  <2>3. Cmds(fl.skipped) \subseteq Carried(fl) /\ x.cmd \notin Carried(fl)
    BY <1>2 DEF IInv, FlushOK, Carried
  <2>4. FlushOK(fl', sess')
    BY <1>2, <2>1, <2>2, <2>3 DEF IInv, FlushOK
  <2> QED BY <1>2, <1>3, <2>2, <2>3, <2>4 DEF Moves
<1> QED BY <1>1, <1>4, <1>5, <1>6 DEF x

\* A frame is written, or not: the command stays in the flusher's hands, is put
\* before those set aside, or is given up.
LEMMA SendMoves ==
  ASSUME IInv, NEW p \in Procs, Send(p)
  PROVE  Moves
<1>1. Quiet(sess, sess') /\ NotSaved /\ fate' = fate /\ fl \in FlushSet
  BY DEF Send, sessVars, IInv, SessionOK, LegalSession, Quiet, NotSaved, FlushOK
<1>2. PICK x \in fl.hand :
        \/ fl' = [fl EXCEPT !.hand = {}]
        \/ fl' = [fl EXCEPT !.hand = {}, !.left = 0, !.skipped = <<x>> \o @]
        \/ fl' = fl
        \/ fl' = [fl EXCEPT !.hand = {}, !.left = 0, !.failed = TRUE]
  BY DEF Send
<1>3. CASE \/ fl' = [fl EXCEPT !.hand = {}]
           \/ fl' = fl
           \/ fl' = [fl EXCEPT !.hand = {}, !.left = 0, !.failed = TRUE]
  <2>1. fl' \in FlushSet /\ fl'.skipped = fl.skipped /\ fl'.hand \subseteq fl.hand
    <3>1. CASE fl' = [fl EXCEPT !.hand = {}]
      BY <1>1, <3>1 DEF FlushSet
    <3>2. CASE fl' = [fl EXCEPT !.hand = {}, !.left = 0, !.failed = TRUE]
      BY <1>1, <3>2 DEF FlushSet
    <3> QED BY <1>1, <1>3, <3>1, <3>2
  <2> QED BY <1>1, <2>1, QuietFlushMoves
<1>4. CASE fl' = [fl EXCEPT !.hand = {}, !.left = 0, !.skipped = <<x>> \o @]
  <2>1. x \in ItemSet /\ fl.skipped \in Seq(ItemSet)
    BY <1>1, <1>2 DEF FlushSet
  <2> DEFINE u == <<x>>
  <2>2. u \in Seq(ItemSet) /\ DOMAIN u = {1} /\ u[1] = x
    BY <2>1, SMTT(30)
  <2> HIDE DEF u
  <2>3. Cmds(u) = {x.cmd} /\ Distinct(u)
    BY <2>2 DEF Cmds, Distinct
  <2>4. x.cmd \in Carried(fl) /\ x.cmd \notin Cmds(fl.skipped)
    BY <1>2, SMTT(30) DEF IInv, FlushOK, Carried
  <2> DEFINE v == u \o fl.skipped
  <2>5. /\ v \in Seq(ItemSet) /\ Distinct(v)
        /\ Cmds(v) = {x.cmd} \cup Cmds(fl.skipped)
    BY <2>1, <2>2, <2>3, <2>4, ConcatCmds, SMTT(30) DEF IInv, FlushOK
  <2> HIDE DEF v
  <2>6. fl' \in FlushSet /\ fl'.skipped = v /\ fl'.hand = {}
    BY <1>1, <1>4, <2>5 DEF FlushSet, u, v
  <2>7. Carried(fl') = {x.cmd} \cup Cmds(fl.skipped)
    BY <2>5, <2>6 DEF Carried
  <2>8. Carried(fl') \subseteq Carried(fl)
    BY <2>4, <2>7 DEF Carried
  <2>9. SessionOK(sess') /\ Held(sess') = Held(sess)
    BY <1>1, QuietKeeps DEF IInv
  <2>10. FlushOK(fl', sess')
    BY <2>5, <2>6, <2>8, <2>9 DEF IInv, FlushOK
  <2> QED BY <1>1, <2>8, <2>9, <2>10 DEF Moves
<1> QED BY <1>2, <1>3, <1>4

\* RegisterInFlight takes the command out of the flusher's hands.
LEMMA InFlightMoves ==
  ASSUME IInv, NEW p \in Procs, InFlight(p)
  PROVE  Moves
<1>1. PICK x \in fl.hand :
        /\ sess' = RegisterInFlight(sess, fl.seq, x)
        /\ Saved \/ SaveFailed
        /\ \/ fl' = [fl EXCEPT !.hand = {}, !.last = {x}]
           \/ fl' = [fl EXCEPT !.hand = {}, !.left = 0, !.failed = TRUE]
  BY DEF InFlight
<1>2. fl \in FlushSet /\ x \in ItemSet /\ fl.seq \in Seqs /\ fate' = fate
  BY <1>1 DEF InFlight, IInv, FlushOK, FlushSet
<1>3. x.cmd \in Carried(fl) /\ x.cmd \notin Cmds(fl.skipped) /\ x.cmd \notin Held(sess)
  BY <1>1 DEF IInv, FlushOK, Carried
<1>4. SessionOK(sess') /\ Held(sess') \subseteq Held(sess) \cup {x.cmd}
  BY <1>1, <1>2, <1>3, RegisterKeeps DEF IInv
<1>5. fl' \in FlushSet /\ fl'.skipped = fl.skipped /\ fl'.hand = {}
  <2>1. CASE fl' = [fl EXCEPT !.hand = {}, !.last = {x}]
    BY <1>2, <2>1 DEF FlushSet
  <2>2. CASE fl' = [fl EXCEPT !.hand = {}, !.left = 0, !.failed = TRUE]
    BY <1>2, <2>2 DEF FlushSet
  <2> QED BY <1>1, <2>1, <2>2
<1>6. Carried(fl') = Cmds(fl.skipped) /\ Cmds(fl.skipped) \subseteq Carried(fl)
  BY <1>5 DEF Carried
<1>7. FlushOK(fl', sess')
  BY <1>3, <1>4, <1>5, <1>6, SMTT(30) DEF IInv, FlushOK
<1> QED BY <1>1, <1>2, <1>3, <1>4, <1>6, <1>7 DEF Moves

\* A command set aside goes back to the queue.
LEMMA EndScanMoves ==
  ASSUME IInv, NEW p \in Procs, EndScan(p)
  PROVE  Moves
<1>1. fate' = fate /\ fl \in FlushSet /\ Quiet(sess, sess)
  BY DEF EndScan, histVars, IInv, FlushOK, SessionOK, LegalSession, Quiet
<1>2. CASE /\ fl.skipped # <<>>
           /\ sess' = [sess EXCEPT !.queue = Push(@, Head(fl.skipped))]
           /\ NotSaved
           /\ fl' = [fl EXCEPT !.skipped = Tail(@)]
  <2> DEFINE x == Head(fl.skipped)
  <2>1. fl.skipped \in Seq(ItemSet)
    BY <1>1 DEF FlushSet
  <2>2. /\ x \in ItemSet /\ Tail(fl.skipped) \in Seq(ItemSet)
        /\ Cmds(fl.skipped) = Cmds(Tail(fl.skipped)) \cup {x.cmd}
        /\ Distinct(Tail(fl.skipped)) /\ x.cmd \notin Cmds(Tail(fl.skipped))
    BY <1>2, <2>1, TailCmds DEF IInv, FlushOK
  <2>3. /\ fl' \in FlushSet /\ fl'.skipped = Tail(fl.skipped) /\ fl'.hand = fl.hand
    BY <1>1, <1>2, <2>2 DEF FlushSet
  <2> HIDE DEF x
  <2>4. x.cmd \in Carried(fl) /\ x.cmd \notin Held(sess)
    BY <2>2 DEF IInv, FlushOK, Carried
  <2>5. /\ SessionOK([sess EXCEPT !.queue = Push(@, x)])
        /\ Held([sess EXCEPT !.queue = Push(@, x)]) = Held(sess) \cup {x.cmd}
    BY <2>2, <2>4, PushKeeps DEF IInv
  <2>6. SessionOK(sess') /\ Held(sess') = Held(sess) \cup {x.cmd}
    BY <1>2, <2>5 DEF x
  <2>7. Carried(fl') \subseteq Carried(fl) /\ x.cmd \notin Carried(fl')
    BY <2>2, <2>3 DEF Carried, IInv, FlushOK
  <2>8. FlushOK(fl', sess')
    BY <2>2, <2>3, <2>6, <2>7 DEF IInv, FlushOK
  <2> QED BY <1>1, <1>2, <2>4, <2>6, <2>7, <2>8 DEF Moves
<1>3. CASE sess' = sess /\ NotSaved /\ (fl' = fl \/ fl' = IdleFlush)
  BY <1>1, <1>3, QuietMoves, ReturnMoves
<1> QED BY <1>2, <1>3 DEF EndScan, NextRound, FlushReturn, sessVars, NotSaved

\* processInFlight moves commands from the in-flight table to the queue.
LEMMA ProcessMoves ==
  ASSUME IInv, NEW p \in Procs, ProcessStep(p)
  PROVE  Moves
<1>1. PICK order \in RetryOrders(sess, expired) :
        sess' = ProcessInFlight(sess, expired, order)
  BY DEF ProcessStep
<1>2. SessionOK(sess') /\ Held(sess') \subseteq Held(sess)
  BY <1>1, ProcessKeeps DEF IInv
<1>3. fl' = fl /\ fl \in FlushSet /\ fate' = fate /\ (Saved \/ SaveFailed)
  BY DEF ProcessStep, histVars, IInv, FlushOK
<1> QED BY <1>2, <1>3, ShrinkMoves

\* DrainExpired takes the expired commands out of the queue.
LEMMA DrainMoves ==
  ASSUME IInv, NEW p \in Procs, Drain(p)
  PROVE  Moves /\ fl' \in FlushSet
<1> DEFINE q == DrainExpired(sess.queue, expired)
<1>1. sess.queue \in [Priorities -> Seq(ItemSet)] /\ TwinFree(sess.queue)
  BY DEF IInv, SessionOK, LegalSession, SessionSet
<1>2. /\ q \in [Priorities -> Seq(ItemSet)] /\ TwinFree(q)
      /\ Queued(q) \subseteq Queued(sess.queue)
  BY <1>1, DrainCmds, SMTT(30)
<1>3. sess' = [sess EXCEPT !.queue = q]
  BY DEF Drain
<1> HIDE DEF q
<1>4. SessionOK(sess') /\ Held(sess') \subseteq Held(sess)
  BY <1>2, <1>3, ShrinkQueue DEF IInv
<1>5. QueueLen(sess'.queue) \in Nat
  <2>1. sess'.queue \in [Priorities -> Seq(ItemSet)]
    BY <1>4 DEF SessionOK, LegalSession, SessionSet
  <2> DEFINE r == sess'.queue
  <2>2. \A b \in Priorities : Len(r[b]) \in Nat
    BY <2>1, SMTT(30)
  <2> HIDE DEF r
  <2> DEFINE len(b) == Len(r[b])
  <2>3. /\ len("high") \in Nat /\ len("fw") \in Nat
        /\ len("sync") \in Nat /\ len("query") \in Nat
    BY <2>2 DEF Priorities
  <2>4. QueueLen(r) = len("high") + len("fw") + len("sync") + len("query")
    BY DEF QueueLen
  <2> HIDE DEF len
  <2>5. QueueLen(r) \in Nat
    BY <2>3, <2>4, SMTT(30)
  <2> QED BY <2>5 DEF r
<1> DEFINE n == QueueLen(sess'.queue)
<1>6. fl' = [fl EXCEPT !.left = n, !.sent = FALSE] /\ fl \in FlushSet
  BY DEF Drain, IInv, FlushOK
<1> HIDE DEF n
<1>7. fl' \in FlushSet /\ fl'.skipped = fl.skipped /\ fl'.hand = fl.hand
  BY <1>5, <1>6 DEF FlushSet, n
<1>8. fate' = fate /\ NotSaved
  BY DEF Drain, histVars
<1> QED BY <1>4, <1>7, <1>8, ShrinkMoves

\* A number is chosen for the command in the flusher's hands.
LEMMA NumberMoves ==
  ASSUME IInv, NEW p \in Procs, Number(p)
  PROVE  Moves
<1>1. PICK x \in fl.hand :
        \/ /\ fl' = [fl EXCEPT !.seq = x.retrySeq, !.hand = {[x EXCEPT !.retrySeq = 0]}]
           /\ UNCHANGED sessVars
        \/ /\ sess' = NextCommandSeq(sess)
           /\ Saved \/ SaveFailed
           /\ fl' = [fl EXCEPT !.seq = sess'.nextSeq]
  BY DEF Number
<1>2. fl \in FlushSet /\ x \in ItemSet /\ fate' = fate /\ sess \in SessionSet
  BY <1>1 DEF Number, IInv, FlushOK, FlushSet, SessionOK, LegalSession
<1>3. CASE /\ fl' = [fl EXCEPT !.seq = x.retrySeq, !.hand = {[x EXCEPT !.retrySeq = 0]}]
           /\ UNCHANGED sessVars
  <2> DEFINE y == [x EXCEPT !.retrySeq = 0]
  <2>1. y \in ItemSet /\ y.cmd = x.cmd /\ x.retrySeq \in Seqs
    BY <1>2, SeqsType DEF ItemSet
  <2> HIDE DEF y
  <2>2. fl' = [fl EXCEPT !.seq = x.retrySeq, !.hand = {y}]
    BY <1>3 DEF y
  <2>3. fl' \in FlushSet /\ fl'.skipped = fl.skipped /\ fl'.hand = {y}
    BY <1>2, <2>1, <2>2 DEF FlushSet
  <2>4. x.cmd \in Carried(fl) /\ x.cmd \notin Cmds(fl.skipped)
    <3>1. Cmds(fl.skipped) \cap {item.cmd : item \in fl.hand} = {}
      BY DEF IInv, FlushOK
    <3>2. x.cmd \in {item.cmd : item \in fl.hand}
      BY ONLY x \in fl.hand, ZenonT(30)
    <3> QED BY ONLY <3>1, <3>2, ZenonT(30) DEF Carried
  <2>5. Carried(fl') = Cmds(fl.skipped) \cup {x.cmd}
    BY <2>1, <2>3 DEF Carried
  <2>6. Carried(fl') \subseteq Carried(fl)
    BY <2>4, <2>5 DEF Carried
  <2>7. sess' = sess /\ NotSaved
    BY <1>3 DEF sessVars, NotSaved
  <2>8. FlushOK(fl', sess')
    BY <2>1, <2>3, <2>4, <2>6, <2>7 DEF IInv, FlushOK
  <2> QED BY <1>2, <2>6, <2>7, <2>8 DEF Moves, IInv
<1>4. CASE /\ sess' = NextCommandSeq(sess)
           /\ Saved \/ SaveFailed
           /\ fl' = [fl EXCEPT !.seq = sess'.nextSeq]
  <2>1. Quiet(sess, sess')
    BY <1>2, <1>4, QuietOperations
  <2>2. sess'.nextSeq \in Seqs
    BY <2>1 DEF Quiet, SessionSet
  <2>3. fl' \in FlushSet /\ fl'.skipped = fl.skipped /\ fl'.hand = fl.hand
    BY <1>2, <1>4, <2>2 DEF FlushSet
  <2> QED BY <1>2, <1>4, <2>1, <2>3, QuietFlushMoves
<1> QED BY <1>1, <1>3, <1>4

\* The other steps of the flush move no command.
LEMMA FlushMoves ==
  ASSUME IInv, NEW p \in Procs, FlushStep(p)
  PROVE  Moves
<1> USE DEF histVars
<1>0. sess \in SessionSet /\ Quiet(sess, sess) /\ fl \in FlushSet
  BY DEF IInv, SessionOK, LegalSession, Quiet, FlushOK
<1>1. ASSUME NEW c \in Commands, Publish(p, c) PROVE Moves
  BY <1>0, <1>1, QuietMoves DEF Publish, sessVars, NotSaved
<1>2. CASE Context(p)
  <2>1. CASE fl' = IdleFlush
    BY <1>0, <1>2, <2>1, ReturnMoves DEF Context, sessVars, NotSaved
  <2>2. CASE fl' # IdleFlush
    <3> DEFINE n == EffectiveBuffer(sess.bufferFree)
    <3>1. n \in Int
      BY <1>0, SMTT(30) DEF EffectiveBuffer, DefaultBuffer, SessionSet
    <3> HIDE DEF n
    <3>2. fl' = [fl EXCEPT !.conn = sess.conn, !.fwMode = sess.fwMode,
                           !.syncMode = sess.syncMode, !.frameMode = sess.frameMode,
                           !.remaining = n]
      BY <1>2, <2>2 DEF Context, FlushReturn, n
    <3>3. fl' \in FlushSet /\ fl'.skipped = fl.skipped /\ fl'.hand = fl.hand
      BY <1>0, <3>1, <3>2 DEF FlushSet, SessionSet
    <3> QED BY <1>0, <1>2, <3>3, QuietFlushMoves DEF Context, sessVars, NotSaved
  <2> QED BY <2>1, <2>2
<1>3. CASE Count(p)
  BY <1>0, <1>3, QuietMoves, ReturnMoves DEF Count, FlushReturn, sessVars, NotSaved
<1>4. CASE PopNothing(p)
  <2>1. fl' \in FlushSet /\ fl'.skipped = fl.skipped /\ fl'.hand = fl.hand
    BY <1>0, <1>4 DEF PopNothing, FlushSet
  <2> QED BY <1>0, <1>4, <2>1, QuietFlushMoves DEF PopNothing, sessVars, NotSaved
<1>5. CASE Modes(p)
  <2>1. /\ sess' = SetSyncMode(sess, TRUE) \/ sess' = SetFWMode(sess, TRUE)
        /\ \/ Saved /\ fl' = [fl EXCEPT !.syncMode = TRUE]
           \/ Saved /\ fl' = [fl EXCEPT !.fwMode = TRUE]
           \/ SaveFailed /\ fl' = IdleFlush
    BY <1>5 DEF Modes
  <2>2. Quiet(sess, sess')
    BY <1>0, <2>1, QuietOperations
  <2>3. CASE fl' = IdleFlush
    BY <1>5, <2>1, <2>2, <2>3, ReturnMoves DEF Modes
  <2>4. CASE fl' = [fl EXCEPT !.syncMode = TRUE] \/ fl' = [fl EXCEPT !.fwMode = TRUE]
    <3>1. fl' \in FlushSet /\ fl'.skipped = fl.skipped /\ fl'.hand = fl.hand
      BY <1>0, <2>4 DEF FlushSet
    <3> QED BY <1>5, <2>1, <2>2, <3>1, QuietFlushMoves DEF Modes
  <2> QED BY <2>1, <2>3, <2>4
<1>6. CASE AckSent(p)
  <2>1. CASE fl' = IdleFlush
    BY <1>0, <1>6, <2>1, ReturnMoves DEF AckSent
  <2>2. CASE fl' # IdleFlush
    <3>1. PICK x \in fl.last :
            fl' = [fl EXCEPT !.last = {}, !.left = 0, !.sent = TRUE,
                             !.remaining = @ - FrameLen(x.cmd, fl.frameMode)]
      BY <1>6, <2>2 DEF AckSent
    <3> DEFINE n == fl.remaining - FrameLen(x.cmd, fl.frameMode)
    <3>2. n \in Int
      <4>1. x.cmd.payloadLen \in Nat /\ fl.remaining \in Int
        BY <1>0, <3>1, CommandsAssumption DEF FlushSet, ItemSet, CommandRecord
      <4> QED BY <4>1, SMTT(30) DEF FrameLen
    <3> HIDE DEF n
    <3>3. fl' = [fl EXCEPT !.last = {}, !.left = 0, !.sent = TRUE, !.remaining = n]
      BY <3>1 DEF n
    <3>4. fl' \in FlushSet /\ fl'.skipped = fl.skipped /\ fl'.hand = fl.hand
      BY <1>0, <3>2, <3>3 DEF FlushSet
    <3> QED BY <1>0, <1>6, <3>4, QuietFlushMoves DEF AckSent
  <2> QED BY <2>1, <2>2
<1>7. CASE ClearSync(p)
  <2>1. Quiet(sess, sess') /\ fate' = fate /\ (Saved \/ SaveFailed \/ NotSaved)
    BY <1>0, <1>7, QuietOperations DEF ClearSync, sessVars, NotSaved
  <2>2. fl' = fl \/ fl' = IdleFlush \/ fl' = [fl EXCEPT !.syncMode = FALSE]
    BY <1>7 DEF ClearSync, FlushReturn
  <2>3. CASE fl' = [fl EXCEPT !.syncMode = FALSE]
    <3>1. fl' \in FlushSet /\ fl'.skipped = fl.skipped /\ fl'.hand = fl.hand
      BY <1>0, <2>3 DEF FlushSet
    <3> QED BY <2>1, <3>1, QuietFlushMoves
  <2> QED BY <2>1, <2>2, <2>3, QuietMoves, ReturnMoves
<1>8. CASE ClearFW(p)
  <2>1. Quiet(sess, sess') /\ fate' = fate /\ (Saved \/ SaveFailed \/ NotSaved)
    BY <1>0, <1>8, QuietOperations DEF ClearFW, sessVars, NotSaved
  <2>2. fl' = fl \/ fl' = IdleFlush \/ fl' = [fl EXCEPT !.fwMode = FALSE]
    BY <1>8 DEF ClearFW, NextRound, FlushReturn
  <2>3. CASE fl' = [fl EXCEPT !.fwMode = FALSE]
    <3>1. fl' \in FlushSet /\ fl'.skipped = fl.skipped /\ fl'.hand = fl.hand
      BY <1>0, <2>3 DEF FlushSet
    <3> QED BY <2>1, <3>1, QuietFlushMoves
  <2> QED BY <2>1, <2>2, <2>3, QuietMoves, ReturnMoves
<1>9. CASE ReturnError(p)
  BY <1>0, <1>9, ReturnMoves DEF ReturnError, FlushReturn, sessVars, NotSaved
<1> QED BY <1>1, <1>2, <1>3, <1>4, <1>5, <1>6, <1>7, <1>8, <1>9, ProcessMoves, DrainMoves,
           PopMoves, NumberMoves, SendMoves, InFlightMoves, EndScanMoves DEF FlushStep
-----------------------------------------------------------------------------
\* The control variables after a step of the flush.
LEMMA FlushGoto ==
  ASSUME IInv, NEW p \in Procs,
         NEW label \in {"process", "exit", "read", "lock"} \cup FlushLabels,
         Goto(p, label) \/ pc' = pc, msg' = msg,
         lock' \in {lock, p, NoProc},
         NEW cmds \in SUBSET Commands, Emit(p, cmds) \/ out' = out,
         wire' \subseteq Frames, writes' \in [Commands -> Nat],
         issued' \in 0..NumSeqs, overrun' \subseteq Commands,
         UNCHANGED <<expired, fate, terminal, credited, crashes>>
  PROVE  ControlOK'
<1>1. /\ pc' \in [Procs -> ConnLabels \cup SweepLabels \cup FlushLabels]
      /\ \A q \in Procs : pc'[q] = pc[q] \/ pc'[q] # "setmode"
  <2>1. CASE pc' = pc
    BY <2>1 DEF IInv, ControlOK
  <2>2. CASE Goto(p, label)
    <3>1. label \in ConnLabels \cup SweepLabels \cup FlushLabels /\ label # "setmode"
      BY DEF ConnLabels, SweepLabels, FlushLabels
    <3> QED BY <2>2, <3>1, GotoKeeps DEF IInv
  <2> QED BY <2>1, <2>2
<1>2. out' \in [Procs -> SUBSET Commands]
  BY DEF Emit, IInv, ControlOK
<1>3. \A k \in Conns : pc'[k] = "setmode" => msg'[k].type = "register"
  BY <1>1 DEF IInv, ControlOK, Procs
<1>4. lock' \in Procs \cup {NoProc}
  BY DEF IInv, ControlOK
<1> QED BY <1>1, <1>2, <1>3, <1>4 DEF IInv, ControlOK

\* Every step of the flush keeps the control variables.
LEMMA FlushControl ==
  ASSUME IInv, NEW p \in Procs, FlushStep(p)
  PROVE  ControlOK'
<1> USE DEF histVars
<1>0. /\ wire \subseteq Frames /\ writes \in [Commands -> Nat]
      /\ issued \in 0..NumSeqs /\ overrun \subseteq Commands /\ {} \subseteq Commands
      /\ fl \in FlushSet /\ sess \in SessionSet
  BY DEF IInv, ControlOK, FlushOK, SessionOK, LegalSession
<1>a. \A failed \in BOOLEAN : AfterFlush(p, failed) \in {"process", "exit", "read", "lock"}
  BY DEF AfterFlush
<1>b. \A e \in sess.inFlight : e.cmd \in Commands
  BY <1>0 DEF SessionSet, EntrySet
<1>c. \A x \in fl.hand \cup fl.last : x.cmd \in Commands
  BY <1>0 DEF FlushSet, ItemSet
<1>d. fl.failed \in BOOLEAN /\ fl.seq \in Seqs
  BY <1>0 DEF FlushSet
<1>1. CASE ProcessStep(p)
  <2> DEFINE cmds == {e.cmd : e \in TimedOutExpired(sess, expired) \cup
                                    TimedOutFailed(sess, expired)}
  <2>1. cmds \subseteq Commands
    BY <1>b DEF TimedOutExpired, TimedOutFailed, Unexpired, Due
  <2>2. Emit(p, cmds) \/ out' = out
    BY <1>1 DEF ProcessStep
  <2> HIDE DEF cmds
  <2> QED BY <1>0, <1>1, <2>1, <2>2, FlushGoto DEF ProcessStep
<1>2. ASSUME NEW c \in Commands, Publish(p, c) PROVE ControlOK'
  <2>1. out' \in [Procs -> SUBSET Commands] /\ terminal' \in [Commands -> Nat]
    BY <1>2, SMTT(30) DEF Publish, IInv, ControlOK
  <2> QED BY <1>2, <2>1 DEF Publish, IInv, ControlOK
<1>3. CASE Context(p)
  BY <1>0, <1>a, <1>3, FlushGoto DEF Context, FlushReturn, FlushLabels
<1>4. CASE Count(p)
  BY <1>0, <1>a, <1>4, FlushGoto DEF Count, FlushReturn, FlushLabels
<1>5. CASE Drain(p)
  <2>1. Queued(sess.queue) \cap expired \subseteq Commands
    BY DEF IInv, ControlOK
  <2> QED BY <1>0, <1>5, <2>1, FlushGoto DEF Drain, FlushLabels
<1>6. CASE PopNothing(p)
  BY <1>0, <1>6, FlushGoto DEF PopNothing, FlushLabels
<1>7. CASE Pop(p)
  <2>1. PICK b \in NextBuffer(sess.queue, fl.fwMode, fl.syncMode) :
          /\ Emit(p, {Head(sess.queue[b]).cmd}) \/ out' = out
          /\ Goto(p, "number") \/ pc' = pc
    BY <1>7 DEF Pop
  <2>2. Head(sess.queue[b]).cmd \in Commands
    <3>1. Head(sess.queue[b]) \in ItemSet
      BY PopTakes DEF IInv, Takes
    <3> QED BY <3>1 DEF ItemSet
  <2> DEFINE c == Head(sess.queue[b]).cmd
  <2>3. {c} \subseteq Commands /\ (Emit(p, {c}) \/ out' = out)
    BY <2>1, <2>2
  <2> HIDE DEF c
  <2>4. UNCHANGED <<msg, lock, wire, expired, histVars, crashes>>
    BY <1>7 DEF Pop
  <2> QED BY <1>0, <2>1, <2>3, <2>4, FlushGoto DEF FlushLabels
<1>8. CASE Number(p)
  <2>1. issued' \in 0..NumSeqs
    BY <1>0, <1>8, LimitsAssumption, SMTT(30) DEF Number
  <2> QED BY <1>0, <1>8, <2>1, FlushGoto DEF Number, FlushLabels
<1>9. CASE Send(p)
  <2>1. PICK x \in fl.hand :
          /\ Emit(p, {x.cmd}) \/ out' = out
          /\ \/ wire' = wire \cup {[seq |-> WireSeq(fl.seq, fl.frameMode), cmd |-> x.cmd]}
             \/ wire' = wire
          /\ writes' = [writes EXCEPT ![x.cmd] = @ + 1] \/ writes' = writes
          /\ Goto(p, "pop") \/ Goto(p, "endscan") \/ Goto(p, "inflight")
    BY <1>9 DEF Send
  <2>2. x.cmd \in Commands
    BY <1>c
  <2>3. WireSeq(fl.seq, fl.frameMode) \in Seqs
    BY <1>d, SeqsType DEF WireSeq
  <2>4. wire' \subseteq Frames
    BY <1>0, <2>1, <2>2, <2>3, SMTT(30) DEF Frames
  <2>5. writes' \in [Commands -> Nat]
    <3>1. writes' = [writes EXCEPT ![x.cmd] = @ + 1] \/ writes' = writes
      BY <2>1
    <3>2. writes \in [Commands -> Nat]
      BY <1>0
    <3> QED BY <3>1, <3>2, SMTT(30)
  <2> QED BY <1>0, <1>9, <2>1, <2>2, <2>4, <2>5, FlushGoto, SMTT(30) DEF Send, FlushLabels
<1>10. CASE InFlight(p)
  <2>1. PICK x \in fl.hand : Emit(p, {x.cmd}) \/ out' = out
    BY <1>10 DEF InFlight
  <2>2. PICK label \in {"modes", "acksent", "endscan"} : Goto(p, label)
    BY <1>10 DEF InFlight
  <2>3. overrun' \subseteq Commands
    BY <1>0, <1>b, <1>10 DEF InFlight
  <2>4. {x.cmd} \subseteq Commands /\ label \in FlushLabels
    BY <1>c DEF FlushLabels
  <2> QED BY <1>0, <1>10, <2>1, <2>2, <2>3, <2>4, FlushGoto, SMTT(30) DEF InFlight
<1>11. CASE Modes(p)
  <2>1. PICK x \in fl.last : Emit(p, {x.cmd}) \/ out' = out
    BY <1>11 DEF Modes
  <2>2. Goto(p, "acksent") \/ Goto(p, "return")
    BY <1>11 DEF Modes
  <2>3. {x.cmd} \subseteq Commands
    BY <1>c
  <2> QED BY <1>0, <1>11, <2>1, <2>2, <2>3, FlushGoto DEF Modes, FlushLabels
<1>12. CASE AckSent(p)
  <2>1. PICK x \in fl.last : Emit(p, {x.cmd}) \/ out' = out
    BY <1>12 DEF AckSent
  <2>2. Goto(p, "endscan") \/ Goto(p, "return")
    BY <1>12 DEF AckSent
  <2>3. {x.cmd} \subseteq Commands
    BY <1>c
  <2> QED BY <1>0, <1>12, <2>1, <2>2, <2>3, FlushGoto DEF AckSent, FlushLabels
<1>13. CASE EndScan(p)
  <2>1. PICK label \in {"process", "exit", "read", "lock"} \cup FlushLabels :
          Goto(p, label) \/ pc' = pc
    BY <1>13, <1>a, <1>d DEF EndScan, FlushReturn, NextRound, FlushLabels
  <2>2. lock' \in {lock, p, NoProc}
    BY <1>13 DEF EndScan, FlushReturn, NextRound
  <2> QED BY <1>0, <1>13, <2>1, <2>2, FlushGoto DEF EndScan
<1>14. CASE ClearSync(p)
  BY <1>0, <1>a, <1>14, FlushGoto DEF ClearSync, FlushReturn, FlushLabels
<1>15. CASE ClearFW(p)
  BY <1>0, <1>a, <1>15, FlushGoto DEF ClearFW, FlushReturn, NextRound, FlushLabels
<1>16. CASE ReturnError(p)
  BY <1>0, <1>a, <1>16, FlushGoto DEF ReturnError, FlushReturn
<1> QED BY <1>1, <1>2, <1>3, <1>4, <1>5, <1>6, <1>7, <1>8, <1>9, <1>10, <1>11, <1>12,
           <1>13, <1>14, <1>15, <1>16 DEF FlushStep
-----------------------------------------------------------------------------
\* IInv is inductive.
LEMMA NextKeeps == IInv /\ [Next]_vars => IInv'
<1> SUFFICES ASSUME IInv, [Next]_vars PROVE IInv'
  OBVIOUS
<1>1. ASSUME NEW k \in Conns, ConnStep(k) PROVE IInv'
  BY <1>1, ConnMoves, ConnControl, MovesKeep
<1>2. ASSUME NEW p \in Procs, FlushStep(p) PROVE IInv'
  BY <1>2, FlushMoves, FlushControl, MovesKeep
<1>3. CASE Environment
  BY <1>3, RefuseMoves, AcceptKeeps, TimeMoves, CrashKeeps, MovesKeep DEF Environment
<1>4. CASE UNCHANGED vars
  <2>1. UNCHANGED <<sess, disk, failures, pc, msg, out, lock, fl, wire, expired, fate,
                    terminal, writes, issued, overrun, credited, crashes>>
    BY <1>4 DEF vars, sessVars, procVars, histVars
  <2> QED BY <2>1 DEF IInv, StoreOK, Fresh, ControlOK
<1> QED BY <1>1, <1>2, <1>3, <1>4 DEF Next

\* The variables of the delivery keep their types.
THEOREM TypeCorrect == Spec => []TypeOK
<1>1. Spec => []IInv
  BY InitKeeps, NextKeeps, PTL DEF Spec
<1> QED BY <1>1, IInvImplies, PTL

\* No command is ever in two places: the queue, the locals of flushQueue and the
\* in-flight table never share a command, whatever saves fail and whenever the
\* adapter restarts.
THEOREM NoCommandTwice == Spec => []NoTwin
<1>1. Spec => []IInv
  BY InitKeeps, NextKeeps, PTL DEF Spec
<1> QED BY <1>1, IInvImplies, PTL

-----------------------------------------------------------------------------
\* The points of handleConn before Create has succeeded and after MarkOffline.
Outside == {"new", "register", "closing", "gone"}

\* A step that neither attaches nor detaches the session, and in which no
\* goroutine goes in or out.
StaysOwned ==
  /\ sess'.conn = sess.conn
  /\ \A k \in Conns : pc'[k] \in Outside <=> pc[k] \in Outside

\* Such a step keeps the owner.
LEMMA OwnerStays ==
  ASSUME SessionOwner, StaysOwned
  PROVE  SessionOwner'
  BY DEF SessionOwner, StaysOwned, Outside

\* A goroutine moves between two points inside.
LEMMA InsideGoto ==
  ASSUME IInv, NEW p \in Procs, NEW label, Goto(p, label), label \notin Outside,
         pc[p] \notin Outside, sess'.conn = sess.conn
  PROVE  StaysOwned
<1>1. \A q \in Procs : pc'[q] = IF q = p THEN label ELSE pc[q]
  BY DEF Goto, IInv, ControlOK
<1> QED BY <1>1 DEF StaysOwned, Procs

\* The goroutine of k leaves, or enters, together with the session.
LEMMA OwnerMoves ==
  ASSUME IInv, SessionOwner, NEW k \in Conns, NEW label, Goto(k, label),
         \/ label \in Outside /\ pc[k] \notin Outside /\ sess'.conn = NoConn
         \/ label \in Outside /\ pc[k] \in Outside /\ sess'.conn = sess.conn
         \/ label \notin Outside /\ sess.conn = NoConn /\ sess'.conn = k
  PROVE  SessionOwner'
<1>1. \A q \in Conns : pc'[q] = IF q = k THEN label ELSE pc[q]
  BY DEF Goto, IInv, ControlOK, Procs
<1> QED BY <1>1, ConnsAssumption DEF SessionOwner, Outside

\* Every step of handleConn keeps the owner.
LEMMA ConnOwner ==
  ASSUME IInv, SessionOwner, NEW k \in Conns, ConnStep(k)
  PROVE  SessionOwner'
<1> USE DEF At, sessVars
<1>0. sess \in SessionSet /\ k \in Procs
  BY DEF IInv, SessionOK, LegalSession, Procs
<1>a. {"setmode", "regack", "read", "handle", "act", "exit", "process"} \cap Outside = {}
  BY DEF Outside
<1>b. {"new", "register", "closing", "gone"} = Outside
  BY DEF Outside
<1>1. CASE Connect(k)
  BY <1>1, <1>b, OwnerMoves DEF Connect
<1>2. ASSUME NEW mode \in FrameModes, Register(k, mode) PROVE SessionOwner'
  <2>1. Attach(sess, k).conn = k /\ MarkOffline(Attach(sess, k)).conn = NoConn
    BY <1>0 DEF Attach, MarkOffline, SessionSet
  <2> QED BY <1>2, <1>a, <1>b, <2>1, OwnerMoves DEF Register
<1>3. CASE AdoptFrameMode(k)
  <2>1. sess'.conn = sess.conn
    BY <1>0, <1>3 DEF AdoptFrameMode, SetFrameMode, SessionSet
  <2> QED BY <1>0, <1>3, <1>a, <2>1, InsideGoto, OwnerStays DEF AdoptFrameMode
<1>4. CASE RegistrationAck(k)
  <2>1. MarkOffline(sess).conn = NoConn
    BY <1>0 DEF MarkOffline, SessionSet
  <2>2. CASE sess' = sess /\ Goto(k, "process")
    BY <1>0, <1>4, <1>a, <2>2, InsideGoto, OwnerStays DEF RegistrationAck
  <2>3. CASE sess' = MarkOffline(sess) /\ Goto(k, "closing")
    BY <1>4, <1>a, <1>b, <2>1, <2>3, OwnerMoves DEF RegistrationAck
  <2> QED BY <1>4, <2>2, <2>3 DEF RegistrationAck, Touch
<1>5. ASSUME NEW m \in Messages, Receive(k, m) PROVE SessionOwner'
  BY <1>0, <1>5, <1>a, InsideGoto, OwnerStays DEF Receive, Touch
<1>6. CASE ReadFails(k)
  BY <1>0, <1>6, <1>a, InsideGoto, OwnerStays DEF ReadFails
<1>7. CASE Handle(k)
  <2>1. sess'.conn = sess.conn
    BY <1>0, <1>7 DEF Handle, UpdateBufferFree, SessionSet
  <2> QED BY <1>0, <1>7, <1>a, <2>1, InsideGoto, OwnerStays DEF Handle
<1>8. CASE ActStatus1(k)
  <2>1. sess'.conn = sess.conn
    BY <1>0, <1>8 DEF ActStatus1, SetFWMode, SessionSet
  <2> QED BY <1>0, <1>8, <1>a, <2>1, InsideGoto, OwnerStays DEF ActStatus1
<1>9. CASE ActAck(k)
  <2>1. sess'.conn = sess.conn
    BY <1>0, <1>9 DEF ActAck, AckInFlight, SessionSet
  <2> QED BY <1>0, <1>9, <1>a, <2>1, InsideGoto, OwnerStays DEF ActAck
<1>10. CASE ActOther(k)
  <2>1. sess'.conn = sess.conn
    BY <1>0, <1>10 DEF ActOther, SetFWMode, SessionSet
  <2> QED BY <1>0, <1>10, <1>a, <2>1, InsideGoto, OwnerStays DEF ActOther
<1>11. CASE GoOffline(k)
  <2>1. sess'.conn = NoConn
    BY <1>0, <1>11 DEF GoOffline, MarkOffline, SessionSet
  <2> QED BY <1>11, <1>a, <1>b, <2>1, OwnerMoves DEF GoOffline
<1>12. CASE CloseConn(k)
  BY <1>12, <1>b, OwnerMoves DEF CloseConn
<1> QED BY <1>1, <1>2, <1>3, <1>4, <1>5, <1>6, <1>7, <1>8, <1>9, <1>10, <1>11, <1>12
        DEF ConnStep

\* processInFlight and flushQueue do not touch the session's connection.
LEMMA FlushOwner ==
  ASSUME IInv, SessionOwner, NEW p \in Procs, FlushStep(p)
  PROVE  SessionOwner'
<1>0. sess \in SessionSet
  BY DEF IInv, SessionOK, LegalSession
<1>1. sess'.conn = sess.conn
  <2>1. \A order : ProcessInFlight(sess, expired, order).conn = sess.conn
    BY <1>0 DEF ProcessInFlight, SessionSet
  <2>2. \A q : [sess EXCEPT !.queue = q].conn = sess.conn
    BY <1>0 DEF SessionSet
  <2>3. \A on : SetFWMode(sess, on).conn = sess.conn /\ SetSyncMode(sess, on).conn = sess.conn
    BY <1>0 DEF SetFWMode, SetSyncMode, SessionSet
  <2>4. \A n, x : RegisterInFlight(sess, n, x).conn = sess.conn
    BY <1>0 DEF RegisterInFlight, SessionSet
  <2>5. NextCommandSeq(sess).conn = sess.conn
    BY <1>0 DEF NextCommandSeq, SessionSet
  <2>6. CASE ProcessStep(p)
    BY <2>1, <2>6 DEF ProcessStep
  <2>7. CASE Drain(p) \/ Pop(p) \/ EndScan(p)
    <3>1. CASE Drain(p)
      BY <2>2, <3>1 DEF Drain
    <3>2. CASE Pop(p)
      <4>1. PICK b : sess' = [sess EXCEPT !.queue = PopFrom(@, b)]
        BY <3>2 DEF Pop
      <4> QED BY <1>0, <4>1 DEF SessionSet
    <3>3. CASE EndScan(p)
      <4>1. sess' = sess \/ sess' = [sess EXCEPT !.queue = Push(@, Head(fl.skipped))]
        BY <3>3 DEF EndScan, sessVars
      <4> QED BY <1>0, <4>1 DEF SessionSet
    <3> QED BY <2>7, <3>1, <3>2, <3>3
  <2>8. CASE Modes(p) \/ ClearSync(p) \/ ClearFW(p)
    <3>1. \/ sess' = sess
          \/ \E on \in BOOLEAN : sess' = SetFWMode(sess, on) \/ sess' = SetSyncMode(sess, on)
      BY <2>8 DEF Modes, ClearSync, ClearFW, sessVars
    <3> QED BY <2>3, <3>1, SMTT(30)
  <2>9. CASE Number(p) \/ InFlight(p)
    <3>1. \/ sess' = sess \/ sess' = NextCommandSeq(sess)
          \/ \E x \in fl.hand : sess' = RegisterInFlight(sess, fl.seq, x)
      BY <2>9 DEF Number, InFlight, sessVars
    <3> QED BY <2>4, <2>5, <3>1
  <2>10. CASE \/ \E c \in Commands : Publish(p, c)
              \/ Context(p) \/ Count(p) \/ PopNothing(p) \/ Send(p) \/ AckSent(p)
              \/ ReturnError(p)
    BY <2>10 DEF Publish, Context, Count, PopNothing, Send, AckSent, ReturnError, sessVars
  <2> QED BY <2>6, <2>7, <2>8, <2>9, <2>10 DEF FlushStep
<1>2. pc' = pc \/ \E label : Goto(p, label) /\ label \notin Outside /\ pc[p] \notin Outside
  <2> USE DEF At, Outside, FlushReturn, AfterFlush
  <2>1. CASE ProcessStep(p) \/ \E c \in Commands : Publish(p, c)
    BY <2>1 DEF ProcessStep, Publish
  <2>2. CASE Context(p) \/ Count(p)
    BY <2>2 DEF Context, Count
  <2>3. CASE Drain(p) \/ PopNothing(p) \/ Pop(p)
    BY <2>3 DEF Drain, PopNothing, Pop
  <2>4. CASE Number(p) \/ Send(p)
    BY <2>4 DEF Number, Send
  <2>5. CASE InFlight(p) \/ Modes(p) \/ AckSent(p)
    BY <2>5 DEF InFlight, Modes, AckSent
  <2>6. CASE EndScan(p) \/ ClearSync(p)
    BY <2>6 DEF EndScan, ClearSync, NextRound
  <2>7. CASE ClearFW(p) \/ ReturnError(p)
    BY <2>7 DEF ClearFW, ReturnError, NextRound
  <2> QED BY <2>1, <2>2, <2>3, <2>4, <2>5, <2>6, <2>7 DEF FlushStep
<1>3. CASE pc' = pc
  BY <1>1, <1>3, OwnerStays DEF StaysOwned
<1> QED BY <1>1, <1>2, <1>3, InsideGoto, OwnerStays

\* No other step touches the session's connection, except a restart.
LEMMA EnvironmentOwner ==
  ASSUME IInv, SessionOwner, Environment
  PROVE  SessionOwner'
<1>0. sess \in SessionSet
  BY DEF IInv, SessionOK, LegalSession
<1>1. CASE Crash
  <2>1. sess'.conn = NoConn
    BY <1>1 DEF Crash, RestoredSession
  <2>2. \A k \in Conns : pc'[k] = "new"
    BY <1>1, ProcsAssumption DEF Crash, Procs
  <2> QED BY <2>1, <2>2, ConnsAssumption DEF SessionOwner
<1>2. CASE Environment /\ ~Crash
  <2>1. pc' = pc
    BY <1>2 DEF Environment, Refuse, Accept, ExpireTTL, AckTimerElapses, DedupWindowEnds, procVars
  <2>2. ASSUME NEW c \in Commands, Refuse(c) \/ Accept(c) \/ ExpireTTL(c)
        PROVE  sess'.conn = sess.conn
    <3>1. \A q : [RecordKey(sess, c) EXCEPT !.queue = q].conn = sess.conn
      BY <1>0 DEF RecordKey, SessionSet
    <3> QED BY <2>2, <3>1 DEF Refuse, Accept, ExpireTTL, sessVars
  <2>3. ASSUME NEW e \in sess.inFlight, AckTimerElapses(e) PROVE sess'.conn = sess.conn
    BY <1>0, <2>3 DEF AckTimerElapses, SessionSet
  <2>4. ASSUME NEW key \in sess.dedup, DedupWindowEnds(key) PROVE sess'.conn = sess.conn
    BY <1>0, <2>4 DEF DedupWindowEnds, SessionSet
  <2> QED BY <1>2, <2>1, <2>2, <2>3, <2>4, OwnerStays DEF Environment, StaysOwned
<1> QED BY <1>1, <1>2

\* The session is attached to a connection exactly while the goroutine of that
\* connection is between Create and MarkOffline, so MarkOffline, which is given
\* only the controller's id, never takes the session from another connection.
THEOREM OneOwner == Spec => []SessionOwner
<1>1. Init => SessionOwner
  BY ConnsAssumption, ProcsAssumption, SMTT(30) DEF Init, SessionOwner, DetachedSession, Procs
<1>2. IInv /\ SessionOwner /\ [Next]_vars => SessionOwner'
  <2> SUFFICES ASSUME IInv, SessionOwner, [Next]_vars PROVE SessionOwner'
    OBVIOUS
  <2>1. CASE UNCHANGED vars
    BY <2>1 DEF vars, sessVars, procVars, SessionOwner
  <2> QED BY <2>1, ConnOwner, FlushOwner, EnvironmentOwner DEF Next
<1> QED BY <1>1, <1>2, InitKeeps, NextKeeps, PTL DEF Spec
-----------------------------------------------------------------------------
\* A step that saves the session, fails to, or changes neither what is in
\* flight nor the sequence counter.
Durable ==
  \/ Saved
  \/ \E t : SaveFailedOf(t)
  \/ NotSaved /\ sess'.inFlight = sess.inFlight /\ sess'.nextSeq = sess.nextSeq

\* Such a step keeps memory and disk in agreement.
LEMMA DurableKeeps ==
  ASSUME IInv, InFlightDurable, Durable
  PROVE  InFlightDurable'
<1>1. CASE Saved
  BY <1>1 DEF Saved, SessionSnapshot, InFlightDurable
<1>2. ASSUME NEW t, SaveFailedOf(t) PROVE InFlightDurable'
  BY <1>2, SMTT(30) DEF SaveFailedOf, InFlightDurable, IInv, StoreOK
<1>3. CASE NotSaved /\ sess'.inFlight = sess.inFlight /\ sess'.nextSeq = sess.nextSeq
  BY <1>3 DEF NotSaved, InFlightDurable
<1> QED BY <1>1, <1>2, <1>3 DEF Durable

\* The steps of the goroutines are of this kind.
LEMMA GoroutineDurable ==
  ASSUME IInv, \/ \E k \in Conns : ConnStep(k)
               \/ \E p \in Procs : FlushStep(p)
  PROVE  Durable
<1> USE DEF Durable, SaveFailed, sessVars, NotSaved
<1>0. sess \in SessionSet
  BY DEF IInv, SessionOK, LegalSession
<1>1. ASSUME NEW k \in Conns, ConnStep(k) PROVE Durable
  <2>1. CASE Connect(k) \/ \E mode \in FrameModes : Register(k, mode)
    BY <2>1 DEF Connect, Register
  <2>2. CASE AdoptFrameMode(k)
    BY <1>0, <2>2 DEF AdoptFrameMode, SetFrameMode, SessionSet
  <2>3. CASE RegistrationAck(k) \/ ReadFails(k) \/ \E m \in Messages : Receive(k, m)
    BY <2>3 DEF RegistrationAck, ReadFails, Receive, Touch
  <2>4. CASE Handle(k)
    BY <1>0, <2>4 DEF Handle, UpdateBufferFree, SessionSet
  <2>5. CASE ActStatus1(k) \/ ActAck(k) \/ ActOther(k)
    BY <2>5 DEF ActStatus1, ActAck, ActOther
  <2>6. CASE GoOffline(k) \/ CloseConn(k)
    BY <2>6 DEF GoOffline, CloseConn
  <2> QED BY <1>1, <2>1, <2>2, <2>3, <2>4, <2>5, <2>6 DEF ConnStep
<1>2. ASSUME NEW p \in Procs, FlushStep(p) PROVE Durable
  <2>1. CASE ProcessStep(p) \/ InFlight(p)
    BY <2>1 DEF ProcessStep, InFlight
  <2>2. CASE \/ \E c \in Commands : Publish(p, c)
             \/ Context(p) \/ Count(p) \/ PopNothing(p) \/ Send(p) \/ ReturnError(p)
    BY <2>2 DEF Publish, Context, Count, PopNothing, Send, ReturnError
  <2>3. CASE Drain(p)
    BY <1>0, <2>3 DEF Drain, SessionSet
  <2>4. CASE Pop(p)
    <3>1. PICK b : sess' = [sess EXCEPT !.queue = PopFrom(@, b)]
      BY <2>4 DEF Pop
    <3> QED BY <1>0, <2>4, <3>1 DEF Pop, SessionSet
  <2>5. CASE Number(p) \/ Modes(p) \/ AckSent(p)
    BY <2>5 DEF Number, Modes, AckSent
  <2>6. CASE EndScan(p)
    <3>1. /\ sess' = sess \/ sess' = [sess EXCEPT !.queue = Push(@, Head(fl.skipped))]
          /\ NotSaved
      BY <2>6 DEF EndScan
    <3> QED BY <1>0, <3>1 DEF SessionSet
  <2>7. CASE ClearSync(p) \/ ClearFW(p)
    BY <2>7 DEF ClearSync, ClearFW
  <2> QED BY <1>2, <2>1, <2>2, <2>3, <2>4, <2>5, <2>6, <2>7 DEF FlushStep
<1> QED BY <1>1, <1>2

\* The steps of the environment keep memory and disk in agreement: a timer is
\* not saved, and a restart loads what the disk has.
LEMMA EnvironmentDurable ==
  ASSUME IInv, InFlightDurable, Environment
  PROVE  InFlightDurable'
<1>0. sess \in SessionSet
  BY DEF IInv, SessionOK, LegalSession
<1>1. ASSUME NEW c \in Commands, Refuse(c) \/ Accept(c) \/ ExpireTTL(c)
      PROVE  InFlightDurable'
  <2>1. \A q : /\ [RecordKey(sess, c) EXCEPT !.queue = q].inFlight = sess.inFlight
               /\ [RecordKey(sess, c) EXCEPT !.queue = q].nextSeq = sess.nextSeq
    BY <1>0 DEF RecordKey, SessionSet
  <2>2. Durable
    BY <1>1, <2>1 DEF Refuse, Accept, ExpireTTL, sessVars, NotSaved, SaveFailed, Durable
  <2> QED BY <2>2, DurableKeeps
<1>2. ASSUME NEW e \in sess.inFlight, AckTimerElapses(e) PROVE InFlightDurable'
  <2> DEFINE g == [e EXCEPT !.timer = @ + 1]
             T == (sess.inFlight \ {e}) \cup {g}
  <2>1. e \in EntrySet
    BY <1>0 DEF SessionSet
  <2>2. SavedEntry(g) = SavedEntry(e)
    BY <2>1 DEF SavedEntry, EntrySet
  <2>3. sess'.inFlight = T /\ sess'.nextSeq = sess.nextSeq /\ disk' = disk /\ failures' = failures
    BY <1>0, <1>2 DEF AckTimerElapses, SessionSet, NotSaved
  <2> HIDE DEF g
  <2>4. {SavedEntry(f) : f \in T} = {SavedEntry(f) : f \in sess.inFlight}
    <3> DEFINE S == {SavedEntry(f) : f \in sess.inFlight}
               U == {SavedEntry(f) : f \in T}
    <3>1. ASSUME NEW x \in U PROVE x \in S
      BY <2>2
    <3>2. ASSUME NEW x \in S PROVE x \in U
      BY <2>2
    <3> QED BY <3>1, <3>2
  <2> QED BY <2>3, <2>4 DEF InFlightDurable
<1>3. ASSUME NEW key \in sess.dedup, DedupWindowEnds(key) PROVE InFlightDurable'
  <2>1. Durable
    BY <1>0, <1>3 DEF DedupWindowEnds, SessionSet, Durable
  <2> QED BY <2>1, DurableKeeps
<1>4. CASE Crash
  <2>1. /\ sess'.nextSeq = disk.nextSeq /\ disk' = disk
        /\ sess'.inFlight = {RestoredEntry(e) : e \in disk.inFlight}
    BY <1>4 DEF Crash, RestoredSession
  <2>2. \A e \in disk.inFlight : SavedEntry(RestoredEntry(e)) = e
    BY SMTT(30) DEF SavedEntry, RestoredEntry, SavedEntrySet, SnapshotSet, IInv, StoreOK, SnapshotOK,
           LegalSnapshot
  <2>3. disk.inFlight = {SavedEntry(f) : f \in sess'.inFlight}
    <3> DEFINE U == {SavedEntry(f) : f \in sess'.inFlight}
    <3>1. ASSUME NEW x \in U PROVE x \in disk.inFlight
      BY <2>1, <2>2
    <3>2. ASSUME NEW x \in disk.inFlight PROVE x \in U
      <4>1. RestoredEntry(x) \in sess'.inFlight /\ SavedEntry(RestoredEntry(x)) = x
        BY <2>1, <2>2
      <4> QED BY <4>1
    <3> QED BY <3>1, <3>2
  <2> QED BY <2>1, <2>3 DEF InFlightDurable
<1> QED BY <1>1, <1>2, <1>3, <1>4 DEF Environment

\* As long as no save failed, what a restart would load as in flight, and the
\* next sequence number, are what the adapter has in memory, for every queue,
\* every number of connections and however often it restarts.
THEOREM InFlightSurvives == Spec => []InFlightDurable
<1>1. Init => InFlightDurable
  BY SMTT(30) DEF Init, InFlightDurable, SessionSnapshot, DetachedSession
<1>2. IInv /\ InFlightDurable /\ [Next]_vars => InFlightDurable'
  <2> SUFFICES ASSUME IInv, InFlightDurable, [Next]_vars PROVE InFlightDurable'
    OBVIOUS
  <2>1. CASE UNCHANGED vars
    BY <2>1 DEF vars, sessVars, InFlightDurable
  <2>2. ASSUME \/ \E k \in Conns : ConnStep(k)
               \/ \E p \in Procs : FlushStep(p)
        PROVE  InFlightDurable'
    BY <2>2, GoroutineDurable, DurableKeeps
  <2> QED BY <2>1, <2>2, EnvironmentDurable DEF Next
<1> QED BY <1>1, <1>2, InitKeeps, NextKeeps, PTL DEF Spec

-----------------------------------------------------------------------------
\* flushQueue has set no command aside.
NothingSetAside == fl.skipped = <<>>

\* A step that puts no command in the queue, whether it saves the session, fails
\* to or does not try.
Sheds ==
  /\ Queued(sess'.queue) \subseteq Queued(sess.queue)
  /\ \/ Saved \/ NotSaved
     \/ \E t : t.queue = sess'.queue /\ SaveFailedOf(t)

\* Every step of the goroutines is of this kind, but for the retries of
\* ProcessInFlight, as long as flushQueue has nothing to put back.
LEMMA GoroutineSheds ==
  ASSUME IInv, NothingSetAside, \/ \E k \in Conns : ConnStep(k)
                                \/ \E p \in Procs : FlushStep(p)
  PROVE  Sheds \/ \E p \in Procs : ProcessStep(p)
<1>0. sess \in SessionSet /\ sess.queue \in [Priorities -> Seq(ItemSet)]
  BY DEF IInv, SessionOK, LegalSession, SessionSet
<1>1. ASSUME sess'.queue = sess.queue, Saved \/ NotSaved \/ SaveFailed PROVE Sheds
  BY <1>1 DEF Sheds, SaveFailed
<1>2. ASSUME UNCHANGED sessVars PROVE Sheds
  BY <1>2 DEF sessVars, NotSaved, Sheds
<1>3. ASSUME Quiet(sess, sess'), Saved \/ NotSaved \/ SaveFailed PROVE Sheds
  BY <1>1, <1>3 DEF Quiet
<1>4. ASSUME NEW k \in Conns, ConnStep(k) PROVE Sheds
  <2>1. CASE \/ Connect(k) \/ ReadFails(k) \/ CloseConn(k)
    BY <1>2, <2>1 DEF Connect, ReadFails, CloseConn
  <2>2. CASE \E mode \in FrameModes : Register(k, mode)
    BY <1>0, <1>2, <1>3, <2>2, QuietOperations DEF Register
  <2>3. CASE AdoptFrameMode(k)
    <3>1. sess'.queue = sess.queue /\ NotSaved
      BY <1>0, <2>3 DEF AdoptFrameMode, SetFrameMode, SessionSet
    <3> QED BY <1>1, <3>1
  <2>4. CASE RegistrationAck(k) \/ GoOffline(k) \/ \E m \in Messages : Receive(k, m)
    BY <1>0, <1>1, <1>3, <2>4, QuietOperations DEF RegistrationAck, GoOffline, Receive, Touch
  <2>5. CASE Handle(k)
    <3>1. sess'.queue = sess.queue /\ NotSaved
      BY <1>0, <2>5 DEF Handle, UpdateBufferFree, SessionSet
    <3> QED BY <1>1, <3>1
  <2>6. CASE ActStatus1(k) \/ ActOther(k)
    BY <1>0, <1>2, <1>3, <2>6, QuietOperations DEF ActStatus1, ActOther
  <2>7. CASE ActAck(k)
    <3>1. \A n : AckInFlight(sess, n).queue = sess.queue
      BY <1>0 DEF AckInFlight, SessionSet
    <3>2. \/ \E n : sess' = AckInFlight(sess, n) /\ Saved
          \/ \E n : UNCHANGED sess /\ SaveFailedOf(AckInFlight(sess, n))
          \/ UNCHANGED sessVars
      BY <2>7 DEF ActAck
    <3> QED BY <1>1, <1>2, <3>1, <3>2 DEF Sheds
  <2> QED BY <1>4, <2>1, <2>2, <2>3, <2>4, <2>5, <2>6, <2>7 DEF ConnStep
<1>5. ASSUME NEW p \in Procs, FlushStep(p), ~ProcessStep(p) PROVE Sheds
  <2>1. CASE \/ \E c \in Commands : Publish(p, c)
             \/ Context(p) \/ Count(p) \/ PopNothing(p) \/ Send(p) \/ ReturnError(p)
    BY <1>2, <2>1 DEF Publish, Context, Count, PopNothing, Send, ReturnError
  <2>2. CASE Drain(p)
    <3>1. sess'.queue = DrainExpired(sess.queue, expired) /\ NotSaved
      BY <1>0, <2>2 DEF Drain, SessionSet
    <3>2. Queued(DrainExpired(sess.queue, expired)) = Queued(sess.queue) \ expired
      BY <1>0, DrainCmds
    <3> QED BY <3>1, <3>2 DEF Sheds
  <2>3. CASE Pop(p)
    <3>1. PICK b \in NextBuffer(sess.queue, fl.fwMode, fl.syncMode) :
            sess' = [sess EXCEPT !.queue = PopFrom(@, b)]
      BY <2>3 DEF Pop
    <3>2. b \in Priorities /\ sess.queue[b] # <<>>
      BY <3>1, SMTT(30) DEF NextBuffer, ServiceOrder, Priorities
    <3>3. sess'.queue = PopFrom(sess.queue, b) /\ NotSaved
      BY <1>0, <2>3, <3>1 DEF Pop, SessionSet
    <3>4. Queued(sess.queue) = Queued(PopFrom(sess.queue, b)) \cup {Head(sess.queue[b]).cmd}
      BY <1>0, <3>2, PopCmds
    <3> QED BY <3>3, <3>4 DEF Sheds
  <2>4. CASE Number(p)
    BY <1>0, <1>2, <1>3, <2>4, QuietOperations DEF Number, sessVars
  <2>5. CASE InFlight(p)
    <3>1. sess'.queue = sess.queue /\ (Saved \/ SaveFailed)
      BY <1>0, <2>5 DEF InFlight, RegisterInFlight, SessionSet
    <3> QED BY <1>1, <3>1
  <2>6. CASE Modes(p)
    BY <1>0, <1>3, <2>6, QuietOperations DEF Modes
  <2>7. CASE AckSent(p)
    BY <1>1, <2>7 DEF AckSent
  <2>8. CASE EndScan(p)
    BY <1>2, <2>8 DEF EndScan, NothingSetAside
  <2>9. CASE ClearSync(p) \/ ClearFW(p)
    BY <1>0, <1>2, <1>3, <2>9, QuietOperations DEF ClearSync, ClearFW
  <2> QED BY <1>5, <2>1, <2>2, <2>3, <2>4, <2>5, <2>6, <2>7, <2>8, <2>9 DEF FlushStep
<1> QED BY <1>4, <1>5

\* So is every step of the environment, but for Accept and a restart.
LEMMA EnvironmentSheds ==
  ASSUME IInv, Environment
  PROVE  Sheds \/ Crash \/ \E c \in Commands : Accept(c)
<1>0. sess \in SessionSet /\ sess.queue \in [Priorities -> Seq(ItemSet)]
  BY DEF IInv, SessionOK, LegalSession, SessionSet
<1>1. ASSUME NEW c \in Commands, Refuse(c) PROVE Sheds
  <2>1. CASE sess' = sess
    BY <1>1, <2>1 DEF Refuse, Sheds
  <2>2. CASE sess' = [RecordKey(sess, c) EXCEPT !.queue = MakeRoom(sess.queue, c)]
    <3>1. sess'.queue = MakeRoom(sess.queue, c)
      BY <1>0, <2>2 DEF RecordKey, SessionSet
    <3> QED BY <1>1, <3>1, RoomCmds DEF Refuse, Sheds, IInv
  <2> QED BY <1>1, <2>1, <2>2 DEF Refuse
<1>2. ASSUME NEW c \in Commands, ExpireTTL(c) PROVE Sheds
  BY <1>2 DEF ExpireTTL, sessVars, NotSaved, Sheds
<1>3. ASSUME \/ \E e \in sess.inFlight : AckTimerElapses(e)
             \/ \E key \in sess.dedup : DedupWindowEnds(key)
      PROVE  Sheds
  <2>1. sess'.queue = sess.queue /\ NotSaved
    BY <1>0, <1>3 DEF AckTimerElapses, DedupWindowEnds, SessionSet
  <2> QED BY <2>1 DEF Sheds
<1> QED BY <1>1, <1>2, <1>3 DEF Environment

\* A step that saves the session, fails to, or adds nothing to the queue leaves no
\* queued command out of the snapshot.
LEMMA RecordedKeeps ==
  ASSUME IInv, IInv', PendingDurable,
         \/ Saved
         \/ \E t : SaveFailedOf(t)
         \/ NotSaved /\ Queued(sess'.queue) \subseteq Queued(sess.queue)
  PROVE  PendingDurable'
<1>1. CASE Saved
  <2>1. sess'.queue \in [Priorities -> Seq(ItemSet)]
    BY DEF IInv, SessionOK, LegalSession, SessionSet
  <2>2. Cmds(Snapshot(sess'.queue)) = Queued(sess'.queue)
    BY <2>1, SnapshotCmds
  <2>3. disk'.pending = Snapshot(sess'.queue)
    BY <1>1 DEF Saved, SessionSnapshot
  <2> QED BY <2>2, <2>3 DEF PendingDurable
<1>2. ASSUME NEW t, SaveFailedOf(t) PROVE PendingDurable'
  BY <1>2, SMTT(30) DEF SaveFailedOf, PendingDurable, IInv, StoreOK
<1>3. CASE NotSaved /\ Queued(sess'.queue) \subseteq Queued(sess.queue)
  BY <1>3 DEF NotSaved, PendingDurable
<1> QED BY <1>1, <1>2, <1>3

\* A restart loads what the snapshot has.
LEMMA CrashRestores ==
  ASSUME IInv, Crash
  PROVE  Queued(sess'.queue) = Cmds(disk.pending) /\ NotSaved
<1>1. sess'.queue = Restore(disk.pending) /\ NotSaved
  BY DEF Crash, RestoredSession, NotSaved
<1>2. disk.pending \in Seq(ItemSet)
  BY DEF IInv, StoreOK, SnapshotOK, LegalSnapshot, SnapshotSet
<1> QED BY <1>1, <1>2, RestoreCmds

\* As long as no save failed, and as long as flushQueue sets no command aside for
\* lack of buffer or because of a mode, every queued command is in the snapshot,
\* however often the adapter restarts. What flushQueue sets aside and puts back
\* without a save is thus all that the snapshot can miss (ViolPending shows that
\* it does miss it).
THEOREM QueuedSurvive == Spec /\ []NothingSetAside => []PendingDurable
<1>1. Init => PendingDurable
  <2> SUFFICES ASSUME Init PROVE PendingDurable
    OBVIOUS
  <2>1. sess.queue = NewControllerQueue
    BY DEF Init, DetachedSession
  <2>2. Queued(NewControllerQueue) = {}
    BY EmptyQueue
  <2> QED BY <2>1, <2>2 DEF PendingDurable
<1>2. IInv /\ IInv' /\ PendingDurable /\ NothingSetAside /\ [Next]_vars => PendingDurable'
  <2> SUFFICES ASSUME IInv, IInv', PendingDurable, NothingSetAside, [Next]_vars
               PROVE  PendingDurable'
    OBVIOUS
  <2>1. CASE UNCHANGED vars
    BY <2>1 DEF vars, sessVars, PendingDurable
  <2>2. CASE Sheds
    BY <2>2, RecordedKeeps DEF Sheds
  <2>3. ASSUME (\E p \in Procs : ProcessStep(p)) \/ (\E c \in Commands : Accept(c))
        PROVE  PendingDurable'
    <3>1. Saved \/ SaveFailed
      BY <2>3 DEF ProcessStep, Accept
    <3> QED BY <3>1, RecordedKeeps DEF SaveFailed
  <2>4. CASE Crash
    BY <2>4, CrashRestores DEF PendingDurable, NotSaved
  <2> QED BY <2>1, <2>2, <2>3, <2>4, GoroutineSheds, EnvironmentSheds DEF Next
<1> QED BY <1>1, <1>2, InitKeeps, NextKeeps, PTL DEF Spec
=============================================================================
