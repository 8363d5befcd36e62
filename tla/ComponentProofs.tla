-------------------------- MODULE ComponentProofs --------------------------
(***************************************************************************)
(* The parts that stand by themselves.  The block count that a firmware    *)
(* start announces, for every block size and every width of sizes and      *)
(* counts; the bounds of retryDelay, for every range of durations, every   *)
(* base and every number of transmissions; what the command builder        *)
(* queues, for every number of requests; that the frames that are sent are *)
(* the ones that are read, for every IMEI, every payload, every checksum   *)
(* and every number of frames; and that a power failure leaves a complete  *)
(* map and FileStore implements SessionStore, for every set of controllers *)
(* and snapshots and every number of errors, kills, power failures and     *)
(* damages.                                                                *)
(***************************************************************************)
EXTENDS FrameCodec, FirmwareStart, CommandBuilder, RetryBackoff, FileStore,
        TLAPS

\* A leaf goes to Zenon, unless it names the SMT solver: where it needs
\* arithmetic, or functions and records are rewritten.
USE ZenonT(30)

-----------------------------------------------------------------------------
\* Sequences

\* What a sequence is: its length and its elements.
LEMMA SeqIs ==
  ASSUME NEW S, NEW s \in Seq(S)
  PROVE  Len(s) \in Nat /\ DOMAIN s = 1..Len(s) /\ \A i \in 1..Len(s) : s[i] \in S
  BY SMTT(30)

\* A sequence without elements is the empty one: no frame is left, no byte is.
LEMMA EmptyLen == ASSUME NEW S, NEW s \in Seq(S)
                  PROVE  s = <<>> <=> Len(s) = 0
  BY SMTT(30)

\* What SubSeq cuts out of the bytes that are not yet read.
LEMMA Slice ==
  ASSUME NEW S, NEW w \in Seq(S), NEW a \in Nat, NEW b \in Nat, a <= b, b <= Len(w)
  PROVE  /\ SubSeq(w, a + 1, b) \in Seq(S) /\ Len(SubSeq(w, a + 1, b)) = b - a
         /\ \A i \in 1..(b - a) : SubSeq(w, a + 1, b)[i] = w[a + i]
  BY SMTT(30)

\* The same, with the number of bytes that are cut out.
LEMMA Taken ==
  ASSUME NEW S, NEW w \in Seq(S), NEW a \in Nat, NEW n \in Nat, a + n <= Len(w), NEW u,
         u = SubSeq(w, a + 1, a + n)
  PROVE  u \in Seq(S) /\ Len(u) = n /\ \A i \in 1..n : u[i] = w[a + i]
  BY SMTT(30)

\* Two sequences with the same elements are the same, as a frame that is read
\* back and the one that was sent.
LEMMA SameSeq ==
  ASSUME NEW S, NEW s \in Seq(S), NEW t \in Seq(S), Len(s) = Len(t),
         \A i \in 1..Len(s) : s[i] = t[i]
  PROVE  s = t
  BY SMTT(30)

\* What is written after something else is found behind it.
LEMMA Joined ==
  ASSUME NEW S, NEW s \in Seq(S), NEW t \in Seq(S)
  PROVE  /\ s \o t \in Seq(S) /\ Len(s \o t) = Len(s) + Len(t)
         /\ \A i \in 1..Len(s) : (s \o t)[i] = s[i]
         /\ \A i \in 1..Len(t) : (s \o t)[Len(s) + i] = t[i]
  BY SMTT(30)

\* Bytes that are found at a place are what is cut out there.
LEMMA SliceFound ==
  ASSUME NEW S, NEW w \in Seq(S), NEW s \in Seq(S), NEW a \in Nat,
         a + Len(s) <= Len(w), \A i \in 1..Len(s) : w[a + i] = s[i]
  PROVE  SubSeq(w, a + 1, a + Len(s)) = s
<1> DEFINE b == a + Len(s)
           u == SubSeq(w, a + 1, b)
<1>0. Len(s) \in Nat /\ b - a = Len(s)
  BY SeqIs, SMTT(30)
<1>1. b \in Nat /\ a <= b /\ b <= Len(w)
  BY SeqIs, SMTT(30)
<1> HIDE DEF b
<1>2. u \in Seq(S) /\ Len(u) = b - a /\ \A i \in 1..(b - a) : u[i] = w[a + i]
  <2>1. /\ SubSeq(w, a + 1, b) \in Seq(S) /\ Len(SubSeq(w, a + 1, b)) = b - a
        /\ \A i \in 1..(b - a) : SubSeq(w, a + 1, b)[i] = w[a + i]
    BY ONLY <1>1, Slice, w \in Seq(S), a \in Nat
  <2> QED  BY ONLY <2>1 DEF u
<1> HIDE DEF u
<1>3. u \in Seq(S) /\ Len(u) = Len(s) /\ \A i \in 1..Len(u) : u[i] = s[i]
  BY <1>0, <1>2
<1>4. u = s
  BY <1>3, SameSeq
<1> QED  BY <1>4 DEF u, b

\* Bytes may be put together in any grouping.
LEMMA Associative ==
  ASSUME NEW S, NEW s \in Seq(S), NEW t \in Seq(S), NEW u \in Seq(S)
  PROVE  (s \o t) \o u = s \o (t \o u)
  BY SMTT(30)

\* A byte of a header as a sequence.
LEMMA Single == ASSUME NEW S, NEW x \in S
                PROVE <<x>> \in Seq(S) /\ Len(<<x>>) = 1 /\ <<x>>[1] = x
  BY SMTT(30)

\* The two bytes of a length or a checksum as a sequence.
LEMMA Double == ASSUME NEW S, NEW x \in S, NEW y \in S
                PROVE <<x, y>> \in Seq(S) /\ Len(<<x, y>>) = 2
                        /\ <<x, y>>[1] = x /\ <<x, y>>[2] = y
  BY SMTT(30)

\* What a sequence is once an element is added to it.
LEMMA Appended ==
  ASSUME NEW S, NEW s \in Seq(S), NEW x \in S
  PROVE  /\ Append(s, x) \in Seq(S) /\ Len(Append(s, x)) = Len(s) + 1
         /\ Append(s, x)[Len(s) + 1] = x
         /\ \A i \in 1..Len(s) : Append(s, x)[i] = s[i]
  BY SMTT(30)

-----------------------------------------------------------------------------
\* FileStore

\* The points of writeAllLocked at which the new map is computed, and those at
\* which it has a temporary file.
Writing == {"create", "write", "sync", "rename", "syncdir"}
HasTemp == {"write", "sync", "rename"}

\* The points at which cleanupCorruptBackups runs.
Cleaning == {"list", "remove"}

\* A file that is not a map reads as the empty one.
Reads(f) == f.kind # "map" => f.data = NoSessions

\* The inductive invariant.  Until the rename the file holds what callers know,
\* after it the new map, which is the old one changed by the call; the
\* temporary file is flushed before it is renamed; and the archives still to be
\* removed do not include the newest one.
IInv ==
  /\ FileTypeOK
  /\ Survives
  /\ FileIsHeld
  /\ dir \in disk
  /\ \A left \in disk : Reads(left.main)
  /\ pc \in HasTemp => dir.temps > 0
  /\ pc = "rename" => flushed
  /\ pc = "syncdir" => dir.main.data = op.data
  /\ pc \in Writing => op.call.kind # "list" /\ op.data = Changed(held, op.call)
  /\ pc \in Cleaning => held = NoSessions
  /\ pc = "remove" => op.surplus \in 1..(Len(dir.backups) - 1)
  /\ unsynced => dirErrors > 0 \/ kills > 0

\* Changing a map with SaveSession or DeleteSession gives a map.
LEMMA ChangedType ==
  ASSUME NEW data \in Maps, NEW call \in Calls
  PROVE  Changed(data, call) \in Maps
BY DEF Changed, Maps, Calls

\* A removal takes one archive away and leaves the newest, which is not the one
\* removed.
LEMMA AllButType ==
  ASSUME NEW b \in Seq(Nat), NEW i \in 1..(Len(b) - 1)
  PROVE  /\ AllBut(b, i) \in Seq(Nat)
         /\ Len(AllBut(b, i)) = Len(b) - 1
         /\ AllBut(b, i) # <<>>
         /\ AllBut(b, i)[Len(b) - 1] = b[Len(b)]
<1> DEFINE n == Len(b) - 1
           f(j) == IF j < i THEN b[j] ELSE b[j + 1]
           s == [j \in 1..n |-> f(j)]
<1>1. n \in Nat /\ n > 0 /\ i <= n /\ n + 1 = Len(b) /\ n \in 1..n
  BY SeqIs, SMTT(30)
<1>2. \A j \in 1..n : f(j) \in Nat
  BY SeqIs, SMTT(30)
<1>3. f(n) = b[Len(b)]
  BY <1>1, SMTT(30)
<1>4. AllBut(b, i) = s
  BY DEF AllBut
<1> HIDE DEF n, f
<1>5. s \in Seq(Nat) /\ Len(s) = n
  BY <1>1, <1>2, SMTT(30)
<1>6. s[n] = b[Len(b)]
  BY <1>1, <1>3
<1>7. s # <<>>
  <2> HIDE DEF s
  <2> QED  BY <1>1, <1>5, SMTT(30)
<1> QED  BY <1>4, <1>5, <1>6, <1>7 DEF n

\* The empty map is a map, and a file that is none reads as it.
LEMMA EmptyFile ==
  ASSUME NEW kind \in Kinds
  PROVE  /\ NoSessions \in Maps
         /\ NotAMap(kind) \in Files
         /\ Reads(NotAMap(kind))
BY DEF NoSessions, Maps, NotAMap, Files, Reads

\* The program starts in the invariant.
LEMMA InitIInv == Init => IInv
<1> SUFFICES ASSUME Init PROVE IInv
  OBVIOUS
<1>1. NotAMap("absent") \in Files /\ NoSessions \in Maps /\ Reads(NotAMap("absent"))
  BY EmptyFile DEF Kinds
<1>2. dir \in Dirs /\ disk \subseteq Dirs
  BY <1>1, SMTT(30) DEF Init, Dirs
<1>3. op \in [call : Calls, data : Maps, surplus : Nat]
  BY <1>1 DEF Init, NoOp, Calls
<1>a. flushed \in BOOLEAN /\ unsynced \in BOOLEAN
  BY DEF Init
<1>b. /\ errors \in 0..MaxErrors /\ dirErrors \in 0..MaxDirErrors
      /\ kills \in 0..MaxKills /\ outages \in 0..MaxOutages
      /\ damages \in 0..MaxDamages
  BY StoreBounds, SMTT(30) DEF Init
<1>c. held \in Maps /\ archived \in Nat /\ pc = "idle"
  BY <1>1 DEF Init
<1>4. FileTypeOK
  BY <1>2, <1>3, <1>a, <1>b, <1>c DEF FileTypeOK
<1> QED BY <1>1, <1>4, SMTT(30) DEF Init, IInv, Survives, FileIsHeld, Reads, NotAMap,
                          HasTemp, Writing, Cleaning

\* A step that leaves the files alone and does not rename keeps what is said of
\* them.
LEMMA CallKeeps ==
  ASSUME IInv, NEW call \in Calls, Call(call)
  PROVE  IInv'
<1>1. NoSessions \in Maps
  BY DEF NoSessions, Maps
<1>2. op' \in [call : Calls, data : Maps, surplus : Nat]
  BY <1>1 DEF Call
<1>3. FileTypeOK'
  BY <1>2 DEF IInv, FileTypeOK, Call, counters
<1> QED BY <1>3 DEF IInv, Call, counters, Survives, FileIsHeld, HasTemp, Writing, Cleaning

\* A call that returns frees the operation.
LEMMA ReturnType ==
  Return => pc' = "idle" /\ op' \in [call : Calls, data : Maps, surplus : Nat]
BY SMTT(30) DEF Return, NoOp, Calls, NoSessions, Maps

\* An error is counted within the bound.
LEMMA ErrorBound ==
  ASSUME FileTypeOK, Error
  PROVE  errors' \in 0..MaxErrors
BY StoreBounds, SMTT(30) DEF FileTypeOK, Error

\* readAllLocked computes the map to write, returns the map, or fails.
LEMMA ReadAllKeeps ==
  ASSUME IInv, ReadAll
  PROVE  IInv'
<1>1. dir.main.data \in Maps /\ op.call \in Calls /\ dir.main.data = held
  BY DEF IInv, FileTypeOK, FileIsHeld, ReadAll, Dirs, Files
<1>2. Changed(held, op.call) \in Maps
  BY <1>1, ChangedType
<1>3. CASE pc' = "idle" /\ Return
  <2>1. FileTypeOK'
    <3>1. errors' \in 0..MaxErrors
      BY ErrorBound DEF ReadAll, IInv, FileTypeOK
    <3> QED BY <1>3, <3>1, ReturnType DEF ReadAll, IInv, FileTypeOK
  <2> QED BY <1>3, <2>1 DEF IInv, ReadAll, Survives, FileIsHeld, HasTemp, Writing, Cleaning
<1>4. CASE pc' = "create" /\ op' = [op EXCEPT !.data = Changed(held, op.call)]
           /\ op.call.kind # "list" /\ UNCHANGED errors
  <2>1. /\ op' \in [call : Calls, data : Maps, surplus : Nat]
        /\ op'.call = op.call /\ op'.data = Changed(held, op.call)
    BY <1>2, <1>4 DEF IInv, FileTypeOK
  <2>2. FileTypeOK'
    BY <1>4, <2>1 DEF ReadAll, IInv, FileTypeOK
  <2> QED BY <1>4, <2>1, <2>2 DEF IInv, ReadAll, Survives, FileIsHeld, HasTemp, Writing, Cleaning
<1> QED BY <1>1, <1>3, <1>4 DEF ReadAll, Return

\* The directory changes and its state file does not.
LEMMA SameMain ==
  ASSUME IInv, NEW new \in Dirs, Moves(new), new.main = dir.main,
         pc # "syncdir", pc' # "syncdir", UNCHANGED <<held, damages, unsynced>>
  PROVE  /\ dir' \in Dirs /\ disk' \subseteq Dirs /\ dir' \in disk'
         /\ \A left \in disk' : Reads(left.main)
         /\ Survives' /\ FileIsHeld'
<1>1. dir' = new /\ disk' = disk \cup {new} /\ dir \in disk
  BY DEF IInv, Moves
<1> QED BY <1>1 DEF IInv, FileTypeOK, Survives, FileIsHeld

\* Only the number of temporary files changes.
LEMMA OtherTemps ==
  ASSUME NEW d \in Dirs, NEW n \in Nat
  PROVE  LET new == [d EXCEPT !.temps = n]
         IN  new \in Dirs /\ new.main = d.main /\ new.temps = n
  BY DEF Dirs

\* CreateTemp adds a temporary file, or fails.
LEMMA CreateTempKeeps ==
  ASSUME IInv, CreateTemp
  PROVE  IInv'
<1>1. CASE Error /\ Return /\ UNCHANGED <<dir, disk, flushed>>
  <2>1. FileTypeOK'
    BY <1>1, ReturnType, ErrorBound DEF CreateTemp, IInv, FileTypeOK
  <2> QED BY <1>1, <2>1, ReturnType DEF IInv, CreateTemp, Survives, FileIsHeld, HasTemp, Writing, Cleaning
<1>2. CASE Moves([dir EXCEPT !.temps = @ + 1]) /\ flushed' = FALSE
           /\ pc' = "write" /\ UNCHANGED <<op, errors>>
  <2> DEFINE new == [dir EXCEPT !.temps = @ + 1]
  <2>1. new \in Dirs /\ new.main = dir.main /\ new.temps > 0
    <3>1. dir \in Dirs /\ dir.temps \in Nat
      BY DEF IInv, FileTypeOK, Dirs
    <3>2. dir.temps + 1 \in Nat /\ dir.temps + 1 > 0
      BY <3>1, SMTT(30)
    <3> QED  BY <3>1, <3>2, OtherTemps
  <2>2. pc = "create" /\ UNCHANGED <<held, damages, unsynced>>
    BY DEF CreateTemp
  <2>3. /\ dir' \in Dirs /\ disk' \subseteq Dirs /\ dir' \in disk'
        /\ \A left \in disk' : Reads(left.main)
        /\ Survives' /\ FileIsHeld'
    BY <1>2, <2>1, <2>2, SameMain
  <2>4. dir'.temps > 0
    BY <1>2, <2>1 DEF Moves
  <2>5. FileTypeOK'
    BY <1>2, <2>3 DEF CreateTemp, IInv, FileTypeOK
  <2> QED BY <1>2, <2>2, <2>3, <2>4, <2>5, SMTT(30) DEF IInv, CreateTemp, Writing, HasTemp, Cleaning
<1> QED BY <1>1, <1>2 DEF CreateTemp

\* The deferred cleanup removes the temporary file.
LEMMA GiveUpKeeps ==
  ASSUME IInv, GiveUp
  PROVE  IInv'
<1> DEFINE new == [dir EXCEPT !.temps = @ - 1]
<1>1. new \in Dirs /\ new.main = dir.main
  <2>1. dir \in Dirs /\ dir.temps \in Nat /\ dir.temps > 0
    BY DEF IInv, FileTypeOK, Dirs, GiveUp, HasTemp
  <2>2. dir.temps - 1 \in Nat
    BY <2>1, SMTT(30)
  <2> QED  BY <2>1, <2>2, OtherTemps
<1>2. /\ pc # "syncdir" /\ pc' = "idle" /\ op' \in [call : Calls, data : Maps, surplus : Nat]
      /\ Moves(new) /\ UNCHANGED <<held, damages, unsynced>>
  BY ReturnType DEF GiveUp
<1>3. /\ dir' \in Dirs /\ disk' \subseteq Dirs /\ dir' \in disk'
      /\ \A left \in disk' : Reads(left.main)
      /\ Survives' /\ FileIsHeld'
  BY <1>1, <1>2, SameMain
<1>4. FileTypeOK'
  BY <1>2, <1>3, ErrorBound DEF GiveUp, IInv, FileTypeOK
<1> QED BY <1>2, <1>3, <1>4, SMTT(30) DEF IInv, GiveUp, Writing, HasTemp, Cleaning

\* Writing and flushing the temporary file change nothing else.
LEMMA TempKeeps ==
  ASSUME IInv, WriteTemp \/ SyncTemp
  PROVE  IInv'
<1>1. FileTypeOK'
  BY DEF IInv, FileTypeOK, WriteTemp, SyncTemp, counters
<1> QED BY <1>1, SMTT(30) DEF IInv, WriteTemp, SyncTemp, counters, Survives, FileIsHeld,
                    HasTemp, Writing, Cleaning

\* The state file is replaced by one with the same map, after it was damaged.
LEMMA AfterDamage ==
  ASSUME IInv, NEW new \in Dirs, Moves(new), Reads(new.main),
         new.main.data = held', damages' > 0
  PROVE  /\ dir' \in Dirs /\ disk' \subseteq Dirs /\ dir' \in disk'
         /\ \A left \in disk' : Reads(left.main)
         /\ Survives' /\ FileIsHeld'
BY SMTT(30) DEF IInv, FileTypeOK, Survives, FileIsHeld, Moves

\* readAllLocked archives a damaged file, or leaves it.
LEMMA ArchiveKeeps ==
  ASSUME IInv, Archive
  PROVE  IInv'
<1>1. /\ dir \in Dirs /\ dir \in disk /\ archived \in Nat
      /\ dir.main.kind = "corrupt" /\ pc = "read" /\ pc' = "list" /\ op' = op
  BY DEF IInv, FileTypeOK, Archive
<1>2. held = NoSessions /\ dir.main.data = held
  BY <1>1, SMTT(30) DEF IInv, FileIsHeld, Reads
<1>3. damages > 0 /\ damages' = damages /\ held' = held /\ unsynced' = unsynced
  BY <1>1, SMTT(60) DEF IInv, FileTypeOK, Survives, Archive
<1>4. /\ dir' \in Dirs /\ disk' \subseteq Dirs /\ dir' \in disk'
      /\ \A left \in disk' : Reads(left.main)
      /\ Survives' /\ FileIsHeld'
  <2>1. CASE UNCHANGED <<dir, disk>>
    BY <1>1, <1>3, <2>1 DEF IInv, FileTypeOK, Survives, FileIsHeld
  <2>2. CASE Moves([dir EXCEPT !.main = NotAMap("absent"),
                               !.backups = Append(@, archived + 1)])
    <3> DEFINE b == Append(dir.backups, archived + 1)
               new == [dir EXCEPT !.main = NotAMap("absent"), !.backups = b]
    <3>1. dir.backups \in Seq(Nat) /\ archived + 1 \in Nat
      BY <1>1, SMTT(30) DEF Dirs
    <3>2. b \in Seq(Nat)
      BY <3>1, Appended
    <3>3. NotAMap("absent") \in Files /\ Reads(NotAMap("absent"))
          /\ NotAMap("absent").data = NoSessions
      BY EmptyFile DEF Kinds, NotAMap
    <3> HIDE DEF b
    <3>4. new \in Dirs /\ new.main = NotAMap("absent")
      BY <1>1, <3>2, <3>3 DEF Dirs
    <3>5. Moves(new)
      BY <2>2, <1>1 DEF b, Dirs
    <3> HIDE DEF new
    <3> QED  BY <1>2, <1>3, <3>3, <3>4, <3>5, AfterDamage
  <2> QED  BY <2>1, <2>2 DEF Archive
<1>5. errors' \in 0..MaxErrors /\ archived' \in Nat
  BY <1>1, ErrorBound, SMTT(60) DEF Archive, IInv, FileTypeOK
<1>6. FileTypeOK'
  BY <1>1, <1>4, <1>5 DEF Archive, IInv, FileTypeOK
<1>7. unsynced' => dirErrors' > 0 \/ kills' > 0
  BY DEF IInv, Archive
<1> QED BY <1>1, <1>2, <1>3, <1>4, <1>6, <1>7, SMTT(30)
        DEF IInv, HasTemp, Writing, Cleaning

\* After the cleanup the call goes on with the empty map, or returns it.
LEMMA GoOnType ==
  ASSUME IInv, pc \in Cleaning, GoOnEmpty
  PROVE  /\ op' \in [call : Calls, data : Maps, surplus : Nat]
         /\ \/ pc' = "idle"
            \/ /\ pc' = "create" /\ op'.call = op.call /\ op.call.kind # "list"
               /\ op'.data = Changed(held, op.call)
<1>1. NoSessions \in Maps /\ op \in [call : Calls, data : Maps, surplus : Nat]
      /\ held = NoSessions
  BY DEF IInv, FileTypeOK, NoSessions, Maps
<1>2. Changed(NoSessions, op.call) \in Maps
  BY <1>1, ChangedType
<1>3. CASE op.call.kind = "list"
  BY <1>3, ReturnType DEF GoOnEmpty
<1>4. CASE /\ op.call.kind # "list" /\ pc' = "create"
           /\ op' = [op EXCEPT !.data = Changed(NoSessions, op.call), !.surplus = 0]
  BY <1>1, <1>2, <1>4
<1> QED BY <1>3, <1>4 DEF GoOnEmpty

\* Listing the archives changes no file.
LEMMA ListArchivesKeeps ==
  ASSUME IInv, ListArchives
  PROVE  IInv'
<1>1. /\ pc = "list" /\ errors' \in 0..MaxErrors
      /\ UNCHANGED <<dir, disk, flushed, held, archived, unsynced, dirErrors,
                     kills, outages, damages>>
  BY ErrorBound DEF ListArchives, IInv, FileTypeOK
<1>2. CASE GoOnEmpty
  <2>1. /\ op' \in [call : Calls, data : Maps, surplus : Nat]
        /\ \/ pc' = "idle"
           \/ /\ pc' = "create" /\ op'.call = op.call /\ op.call.kind # "list"
              /\ op'.data = Changed(held, op.call)
    BY <1>1, <1>2, GoOnType DEF Cleaning
  <2>2. FileTypeOK'
    BY <1>1, <2>1 DEF IInv, FileTypeOK
  <2> QED BY <1>1, <2>1, <2>2 DEF IInv, Survives, FileIsHeld, HasTemp, Writing, Cleaning
<1>3. CASE /\ Len(dir.backups) > MaxCorruptBackups /\ pc' = "remove"
           /\ op' = [op EXCEPT !.surplus = Len(dir.backups) - MaxCorruptBackups]
  <2>1. dir.backups \in Seq(Nat) /\ op \in [call : Calls, data : Maps, surplus : Nat]
    BY DEF IInv, FileTypeOK, Dirs
  <2>2. Len(dir.backups) - MaxCorruptBackups \in 1..(Len(dir.backups) - 1)
    BY <1>3, <2>1, SeqIs, StoreBounds, SMTT(30)
  <2>3. op' \in [call : Calls, data : Maps, surplus : Nat]
        /\ op'.surplus \in 1..(Len(dir'.backups) - 1)
    <3>1. Len(dir.backups) - MaxCorruptBackups \in Nat
      BY <2>2, SMTT(30)
    <3> QED BY <1>1, <1>3, <2>1, <2>2, <3>1
  <2>4. FileTypeOK'
    BY <1>1, <1>3, <2>3 DEF IInv, FileTypeOK
  <2> QED BY <1>1, <1>3, <2>3, <2>4 DEF IInv, Survives, FileIsHeld, HasTemp, Writing,
                                        Cleaning
<1> QED BY <1>2, <1>3 DEF ListArchives

\* Removing an archive leaves the state file alone.
LEMMA RemoveArchiveKeeps ==
  ASSUME IInv, RemoveArchive
  PROVE  IInv'
<1>1. /\ pc = "remove" /\ errors' \in 0..MaxErrors
      /\ UNCHANGED <<flushed, held, archived, unsynced, dirErrors, kills,
                     outages, damages>>
  BY ErrorBound DEF RemoveArchive, IInv, FileTypeOK
<1>2. /\ dir \in Dirs /\ dir.backups \in Seq(Nat) /\ held = NoSessions
      /\ op \in [call : Calls, data : Maps, surplus : Nat]
      /\ op.surplus \in 1..(Len(dir.backups) - 1)
  BY <1>1 DEF IInv, FileTypeOK, Dirs, Cleaning
<1>3. pc' # "syncdir"
  BY <1>1 DEF RemoveArchive, GoOnEmpty, Return
<1>4. /\ dir' \in Dirs /\ disk' \subseteq Dirs /\ dir' \in disk'
      /\ \A left \in disk' : Reads(left.main)
      /\ Survives' /\ FileIsHeld'
      /\ Len(dir'.backups) >= Len(dir.backups) - 1
  <2>1. CASE UNCHANGED <<dir, disk>>
    <3>1. Len(dir'.backups) >= Len(dir.backups) - 1
      BY <1>2, <2>1, SeqIs, SMTT(30)
    <3> QED BY <1>1, <1>3, <2>1, <3>1 DEF IInv, FileTypeOK, Survives, FileIsHeld
  <2>2. CASE Moves([dir EXCEPT !.backups = AllBut(@, op.surplus)])
    <3> DEFINE b == AllBut(dir.backups, op.surplus)
               new == [dir EXCEPT !.backups = b]
    <3>1. b \in Seq(Nat) /\ Len(b) = Len(dir.backups) - 1
      BY <1>2, AllButType
    <3> HIDE DEF b
    <3>2. new \in Dirs /\ new.main = dir.main /\ new.backups = b
      BY <1>2, <3>1 DEF Dirs
    <3>3. Moves(new)
      BY <2>2, <1>2 DEF b, Dirs
    <3>4. Len(dir'.backups) >= Len(dir.backups) - 1
      <4>1. Len(dir'.backups) = Len(dir.backups) - 1
        BY <3>1, <3>2, <3>3 DEF Moves
      <4> QED BY <4>1, <1>2, SeqIs, SMTT(30)
    <3> HIDE DEF new
    <3> QED BY <1>1, <1>3, <3>2, <3>3, <3>4, SameMain
  <2> QED BY <2>1, <2>2 DEF RemoveArchive
<1>5. CASE op.surplus > 1 /\ op' = [op EXCEPT !.surplus = @ - 1] /\ UNCHANGED pc
  <2>1. dir'.backups \in Seq(Nat)
    BY <1>4 DEF Dirs
  <2>2. op.surplus - 1 \in 1..(Len(dir'.backups) - 1) /\ op.surplus - 1 \in Nat
    BY <1>2, <1>4, <1>5, <2>1, SeqIs, SMTT(30)
  <2>3. op' \in [call : Calls, data : Maps, surplus : Nat]
        /\ op'.surplus \in 1..(Len(dir'.backups) - 1)
    BY <1>2, <1>5, <2>2
  <2>4. FileTypeOK'
    BY <1>1, <1>4, <1>5, <2>3 DEF IInv, FileTypeOK
  <2> QED BY <1>1, <1>2, <1>4, <1>5, <2>3, <2>4 DEF IInv, HasTemp, Writing, Cleaning
<1>6. CASE GoOnEmpty
  <2>1. /\ op' \in [call : Calls, data : Maps, surplus : Nat]
        /\ \/ pc' = "idle"
           \/ /\ pc' = "create" /\ op'.call = op.call /\ op.call.kind # "list"
              /\ op'.data = Changed(held, op.call)
    BY <1>1, <1>6, GoOnType DEF Cleaning
  <2>2. FileTypeOK'
    BY <1>1, <1>4, <2>1 DEF IInv, FileTypeOK
  <2> QED BY <1>1, <1>4, <2>1, <2>2 DEF IInv, HasTemp, Writing, Cleaning
<1> QED BY <1>5, <1>6 DEF RemoveArchive

\* The rename puts the new map in place of the one callers know; the flushed
\* temporary file cannot be found damaged.
LEMMA RenameKeeps ==
  ASSUME IInv, Rename
  PROVE  IInv'
<1> DEFINE new == [dir EXCEPT !.main = MapFile(op.data), !.temps = @ - 1]
<1>1. new \in Dirs /\ new.main = MapFile(op.data)
  <2>1. MapFile(op.data) \in Files
    BY DEF IInv, FileTypeOK, MapFile, Files, Kinds
  <2>2. dir \in Dirs /\ dir.temps > 0
    BY DEF IInv, FileTypeOK, Rename, HasTemp
  <2>3. dir.temps - 1 \in Nat
    BY <2>2, SMTT(30) DEF Dirs
  <2>4. ASSUME NEW f \in Files, NEW t \in Nat
        PROVE  LET moved == [dir EXCEPT !.main = f, !.temps = t]
               IN  moved \in Dirs /\ moved.main = f
    BY <2>2 DEF Dirs
  <2> QED BY <2>1, <2>3, <2>4
<1>2. MapFile(op.data).data = op.data /\ MapFile(op.data).kind = "map"
  BY DEF MapFile
<1>3. dir' = new /\ disk' = disk \cup {new} /\ pc = "rename" /\ pc' = "syncdir"
  BY DEF Rename, IInv
<1>4. UNCHANGED <<op, flushed, held, archived, unsynced, counters>>
  BY DEF Rename
<1> HIDE DEF new
<1>5. FileTypeOK'
  BY <1>1, <1>3, <1>4 DEF IInv, FileTypeOK, counters
<1>6. Survives' /\ FileIsHeld' /\ \A left \in disk' : Reads(left.main)
  BY <1>1, <1>2, <1>3, <1>4 DEF IInv, Survives, FileIsHeld, Reads, counters
<1> QED BY <1>1, <1>2, <1>3, <1>4, <1>5, <1>6, SMTT(60) DEF IInv, HasTemp, Writing, Cleaning, counters

\* syncDir ends the call: callers know the new map from here on.
LEMMA SyncDirKeeps ==
  ASSUME IInv, SyncDir
  PROVE  IInv'
<1>1. dirErrors' \in 0..MaxDirErrors /\ unsynced' \in BOOLEAN
  <2>1. dirErrors' \in 0..MaxDirErrors
    BY StoreBounds, SMTT(30) DEF IInv, FileTypeOK, SyncDir
  <2>2. unsynced' \in BOOLEAN
    BY DEF SyncDir
  <2> QED BY <2>1, <2>2
<1>2. disk' \subseteq disk /\ dir' = dir /\ dir \in disk' /\ dir \in disk
  BY DEF IInv, SyncDir
<1>3. /\ held' = op.data /\ op.data \in Maps /\ dir.main.data = op.data
      /\ pc' = "idle" /\ op' \in [call : Calls, data : Maps, surplus : Nat]
  BY ReturnType DEF IInv, FileTypeOK, SyncDir
<1>4. FileTypeOK'
  BY <1>1, <1>2, <1>3 DEF SyncDir, IInv, FileTypeOK
<1>5. Survives' /\ FileIsHeld'
  BY <1>2, <1>3 DEF IInv, SyncDir, Survives, FileIsHeld
<1>6. unsynced' => dirErrors' > 0 \/ kills' > 0
  BY SMTT(60) DEF IInv, FileTypeOK, SyncDir
<1> QED BY <1>2, <1>3, <1>4, <1>5, <1>6 DEF IInv, HasTemp, Writing, Cleaning

\* A killed process leaves the directory, and what a power failure may leave of
\* it, as they were.
LEMMA KillKeeps ==
  ASSUME IInv, Kill
  PROVE  IInv'
<1>1. kills' \in 0..MaxKills /\ kills' > 0
  BY StoreBounds, SMTT(60) DEF IInv, FileTypeOK, Kill
<1>2. /\ held' = dir.main.data /\ held' \in Maps
      /\ pc' = "idle" /\ op' \in [call : Calls, data : Maps, surplus : Nat]
  BY ReturnType DEF IInv, FileTypeOK, Kill, Dirs, Files
<1>3. unsynced' \in BOOLEAN
  BY SMTT(60) DEF IInv, FileTypeOK, Kill
<1>4. FileTypeOK'
  BY <1>1, <1>2, <1>3, SMTT(60) DEF Kill, IInv, FileTypeOK
<1>5. Survives' /\ FileIsHeld'
  BY <1>2 DEF IInv, FileTypeOK, Kill, Survives, FileIsHeld
<1> QED BY <1>1, <1>2, <1>4, <1>5, SMTT(60) DEF IInv, Kill, HasTemp, Writing, Cleaning

\* A power failure leaves one of the directories it may leave.
LEMMA PowerKeeps ==
  ASSUME IInv, NEW left \in disk, PowerFailure(left)
  PROVE  IInv'
<1>1. outages' \in 0..MaxOutages /\ unsynced' = FALSE
  BY StoreBounds, SMTT(30) DEF IInv, FileTypeOK, PowerFailure
<1>2. /\ dir' = left /\ disk' = {left} /\ left \in Dirs
      /\ held' = left.main.data /\ held' \in Maps
      /\ pc' = "idle" /\ op' \in [call : Calls, data : Maps, surplus : Nat]
  BY ReturnType, SMTT(60) DEF IInv, FileTypeOK, PowerFailure, Dirs, Files
<1>3. FileTypeOK'
  BY <1>1, <1>2 DEF PowerFailure, IInv, FileTypeOK
<1>4. Survives' /\ FileIsHeld'
  BY <1>2 DEF IInv, PowerFailure, Survives, FileIsHeld
<1> QED BY <1>1, <1>2, <1>3, <1>4 DEF IInv, PowerFailure, HasTemp, Writing, Cleaning

\* Damage between two calls replaces the file.
LEMMA DamageKeeps ==
  ASSUME IInv, NEW kind \in {"empty", "corrupt"}, Damage(kind)
  PROVE  IInv'
<1> DEFINE new == [dir EXCEPT !.main = NotAMap(kind)]
<1>1. NotAMap(kind) \in Files /\ Reads(NotAMap(kind)) /\ NoSessions \in Maps
  BY EmptyFile DEF Kinds
<1>2. new \in Dirs /\ new.main = NotAMap(kind) /\ new.main.data = NoSessions
  BY <1>1 DEF IInv, FileTypeOK, Dirs, NotAMap
<1>3. damages' \in 0..MaxDamages /\ damages' > 0
  BY StoreBounds, SMTT(30) DEF IInv, FileTypeOK, Damage
<1>4. Moves(new) /\ held' = NoSessions /\ pc = "idle" /\ pc' = pc /\ op' = op
  BY DEF Damage
<1>5. /\ dir' \in Dirs /\ disk' \subseteq Dirs /\ dir' \in disk'
      /\ \A left \in disk' : Reads(left.main)
      /\ Survives' /\ FileIsHeld'
  <2> HIDE DEF new
  <2> QED BY <1>1, <1>2, <1>3, <1>4, AfterDamage
<1>6. FileTypeOK'
  BY <1>1, <1>3, <1>4, <1>5 DEF Damage, IInv, FileTypeOK
<1> QED BY <1>4, <1>5, <1>6 DEF IInv, Damage, HasTemp, Writing, Cleaning

\* Every step keeps the invariant.
LEMMA NextIInv == IInv /\ [Next]_vars => IInv'
<1> SUFFICES ASSUME IInv, [Next]_vars PROVE IInv'
  BY SMTT(60)
<1>1. CASE UNCHANGED vars
  <2>1. FileTypeOK'
    BY <1>1 DEF vars, counters, IInv, FileTypeOK
  <2>2. Survives' /\ FileIsHeld'
    BY <1>1 DEF vars, counters, IInv, Survives, FileIsHeld
  <2> QED BY <1>1, <2>1, <2>2 DEF vars, counters, IInv
<1> QED BY <1>1, CallKeeps, ReadAllKeeps, ArchiveKeeps, ListArchivesKeeps,
           RemoveArchiveKeeps, CreateTempKeeps, GiveUpKeeps, TempKeeps, RenameKeeps, SyncDirKeeps, KillKeeps,
           PowerKeeps, DamageKeeps DEF Next

\* A power failure at any step of writeAllLocked leaves a complete map, the old
\* one or the new one, unless something else damaged the file or a rename was
\* left unsynced.
THEOREM MapSurvives == Spec => []Survives
<1>1. IInv => Survives
  BY DEF IInv
<1> QED BY <1>1, InitIInv, NextIInv, PTL DEF Spec

\* A call of the store that fails leaves the map that was there before it.
THEOREM FailedCallKeepsMap == Spec => []FileIsHeld
<1>1. IInv => FileIsHeld
  BY DEF IInv
<1> QED BY <1>1, InitIInv, NextIInv, PTL DEF Spec

\* The map changed by a save or a delete is a step of SessionStore.
LEMMA ChangeIsStoreStep ==
  ASSUME IInv, pc = "syncdir", held' = op.data
  PROVE  Store!StoreNext
<1>1. op.call \in Calls /\ op.call.kind # "list" /\ held' = Changed(held, op.call)
  BY DEF IInv, FileTypeOK, Writing
<1>2. CASE op.call.kind = "save"
  <2>1. op.call.id \in Ids /\ op.call.snap \in Snapshots
    BY <1>1, <1>2 DEF Calls
  <2>2. Store!SaveSession(op.call.id, op.call.snap)
    BY <1>1, <1>2 DEF Changed, Store!SaveSession, Store!With
  <2> QED BY <2>1, <2>2, SMTT(60) DEF Store!StoreNext
<1>3. CASE op.call.kind = "delete"
  <2>1. op.call.id \in Ids
    BY <1>1, <1>3 DEF Calls
  <2>2. Store!DeleteSession(op.call.id)
    BY <1>1, <1>3 DEF Changed, Store!DeleteSession, Store!With
  <2> QED BY <2>1, <2>2 DEF Store!StoreNext
<1> QED BY <1>1, <1>2, <1>3, SMTT(60) DEF Calls

\* What a power failure leaves is a step of SessionStore, or no step of it.
LEMMA PowerIsStoreStep ==
  ASSUME IInv, NEW left \in disk, PowerFailure(left)
  PROVE  Store!StoreNext \/ held' = held
<1>1. held' = left.main.data /\ held' \in Store!Maps
  BY SMTT(60) DEF IInv, FileTypeOK, PowerFailure, Dirs, Files, Maps, Store!Maps
<1>2. CASE damages = 0 /\ ~unsynced
  BY <1>1, <1>2, ChangeIsStoreStep DEF IInv, Survives
<1>3. CASE damages # 0 \/ unsynced
  <2>1. Fragile
    BY <1>3, StoreBounds, SMTT(30) DEF IInv, FileTypeOK, Fragile
  <2> QED BY <1>1, <2>1, SMTT(60) DEF Store!StoreNext, Store!Lose
<1> QED BY <1>2, <1>3, SMTT(60)

\* FileStore implements SessionStore: the map that callers know starts empty,
\* and each step of FileStore saves or deletes one session in it, leaves it
\* alone, or loses what was saved, the last only once something has damaged the
\* file or while a rename is unsynced.
THEOREM FileStoreImplements == Spec => ImplementsStore
<1>1. Init => Store!StoreInit
  BY DEF Init, Store!StoreInit, NoSessions, Store!NoSessions
<1>2. IInv /\ [Next]_vars => [Store!StoreNext]_held
  <2> SUFFICES ASSUME IInv, [Next]_vars PROVE Store!StoreNext \/ held' = held
    OBVIOUS
  <2>1. CASE SyncDir
    BY <2>1, ChangeIsStoreStep, SMTT(60) DEF SyncDir
  <2>2. CASE Kill
    BY <2>2, ChangeIsStoreStep DEF Kill, IInv, FileTypeOK, FileIsHeld
  <2>3. ASSUME NEW kind \in {"empty", "corrupt"}, Damage(kind)
        PROVE  Store!StoreNext
    <3>1. Fragile'
      BY <2>3, StoreBounds, SMTT(30) DEF Damage, Fragile, IInv, FileTypeOK
    <3>2. held' \in Store!Maps
      BY <2>3 DEF Damage, NoSessions, Store!Maps
    <3> QED BY <3>1, <3>2 DEF Store!StoreNext, Store!Lose
  <2>4. CASE UNCHANGED vars
    BY <2>4, SMTT(60) DEF vars
  <2>5. ASSUME \/ \E call \in Calls : Call(call)
               \/ ReadAll \/ Archive \/ ListArchives \/ RemoveArchive
               \/ CreateTemp \/ GiveUp \/ WriteTemp \/ SyncTemp \/ Rename
        PROVE  held' = held
    BY <2>5 DEF Call, ReadAll, Archive, ListArchives, RemoveArchive, CreateTemp,
                GiveUp, WriteTemp, SyncTemp, Rename
  <2> QED BY <2>1, <2>2, <2>3, <2>4, <2>5, PowerIsStoreStep DEF Next
<1> QED BY <1>1, <1>2, InitIInv, NextIInv, PTL
        DEF Spec, ImplementsStore, Store!StoreSpec
-----------------------------------------------------------------------------
\* Temporary files and archives

\* As long as the process goes on there is a temporary file exactly while
\* writeAllLocked works on it.
TempInv ==
  kills = 0 /\ outages = 0 => dir.temps = IF pc \in HasTemp THEN 1 ELSE 0

\* As many archives as a directory may have while no cleanup runs.
Allowed == MaxCorruptBackups + errors + kills + outages

\* Every directory that a power failure may leave has at most one archive more;
\* the removals that a cleanup still has to make bring it down to that number.
ArchiveInv ==
  /\ \A left \in disk : Len(left.backups) <= Allowed + 1
  /\ pc \notin Cleaning => Len(dir.backups) <= Allowed
  /\ pc = "remove" => Len(dir.backups) <= Allowed + op.surplus
  /\ archived > 0 /\ outages = 0 =>
       dir.backups # <<>> /\ dir.backups[Len(dir.backups)] = archived

\* The program starts without temporary files and archives.
LEMMA InitTemps == Init => TempInv /\ ArchiveInv
BY StoreBounds, SMTT(30) DEF Init, TempInv, ArchiveInv, Allowed, HasTemp

\* Every step keeps TempInv.
LEMMA TempKept ==
  ASSUME IInv, TempInv, [Next]_vars
  PROVE  TempInv'
<1>1. dir \in Dirs /\ dir.temps \in Nat /\ kills \in Nat /\ outages \in Nat
  BY SMTT(30) DEF IInv, FileTypeOK, Dirs
<1>2. ASSUME dir' = dir, pc \notin HasTemp, pc' \notin HasTemp, UNCHANGED <<kills, outages>>
      PROVE  TempInv'
  BY <1>2 DEF TempInv
<1>3. ASSUME NEW call \in Calls, Call(call) PROVE TempInv'
  BY <1>3, <1>2 DEF Call, counters, HasTemp
<1>4. CASE ReadAll
  BY <1>4, <1>2 DEF ReadAll, Return, HasTemp
<1>5. CASE Archive \/ ListArchives \/ RemoveArchive
  <2>1. /\ pc \in {"read", "list", "remove"}
        /\ pc' \in {"idle", "create", "list", "remove"}
        /\ UNCHANGED <<kills, outages>>
    BY <1>5 DEF Archive, ListArchives, RemoveArchive, GoOnEmpty, Return
  <2>2. dir'.temps = dir.temps
    BY <1>5, <1>1 DEF Archive, ListArchives, RemoveArchive, Moves, Dirs
  <2> QED BY <2>1, <2>2 DEF TempInv, HasTemp
<1>6. CASE CreateTemp
  <2>1. CASE dir' = dir /\ pc' = "idle"
    BY <1>6, <2>1, <1>2 DEF CreateTemp, HasTemp
  <2>2. CASE pc' = "write" /\ dir'.temps = dir.temps + 1
    BY <1>6, <2>2, <1>1, SMTT(30) DEF CreateTemp, TempInv, HasTemp
  <2> QED BY <1>6, <1>1, <2>1, <2>2 DEF CreateTemp, Return, Moves, Dirs
<1>7. CASE GiveUp
  <2>1. pc \in HasTemp /\ pc' = "idle" /\ dir'.temps = dir.temps - 1 /\ UNCHANGED <<kills, outages>>
    BY <1>7, <1>1 DEF GiveUp, Return, Moves, Dirs, HasTemp
  <2> QED BY <1>1, <2>1, SMTT(30) DEF TempInv, HasTemp
<1>8. CASE WriteTemp \/ SyncTemp
  BY <1>8 DEF WriteTemp, SyncTemp, TempInv, HasTemp, counters
<1>9. CASE Rename
  <2>1. pc \in HasTemp /\ pc' = "syncdir" /\ dir'.temps = dir.temps - 1 /\ UNCHANGED <<kills, outages>>
    BY <1>9, <1>1 DEF Rename, Dirs, HasTemp, counters
  <2> QED BY <1>1, <2>1, SMTT(30) DEF TempInv, HasTemp
<1>10. CASE SyncDir
  BY <1>10, <1>2 DEF SyncDir, Return, HasTemp
<1>11. CASE Kill
  BY <1>1, <1>11, SMTT(30) DEF Kill, TempInv
<1>12. ASSUME NEW left \in disk, PowerFailure(left) PROVE TempInv'
  BY <1>1, <1>12, SMTT(30) DEF PowerFailure, TempInv
<1>13. ASSUME NEW kind \in {"empty", "corrupt"}, Damage(kind) PROVE TempInv'
  <2>1. dir'.temps = dir.temps
    BY <1>1, <1>13 DEF Damage, Moves, Dirs
  <2> QED BY <1>13, <2>1 DEF Damage, TempInv
<1>14. CASE UNCHANGED vars
  BY <1>14 DEF vars, counters, TempInv
<1> QED BY <1>3, <1>4, <1>5, <1>6, <1>7, <1>8, <1>9, <1>10, <1>11, <1>12, <1>13,
           <1>14 DEF Next

\* The counts of failures are numbers, and no step lowers them.
LEMMA Counted ==
  ASSUME IInv, [Next]_vars
  PROVE  /\ errors \in Nat /\ kills \in Nat /\ outages \in Nat
         /\ errors' \in Nat /\ kills' \in Nat /\ outages' \in Nat
         /\ errors' >= errors /\ kills' >= kills /\ outages' >= outages
         /\ Allowed \in Nat /\ Allowed' \in Nat /\ Allowed' >= Allowed
         /\ Allowed >= MaxCorruptBackups
<1>1. /\ errors \in Nat /\ kills \in Nat /\ outages \in Nat
  BY SMTT(30) DEF IInv, FileTypeOK
<1>2. /\ errors' = errors \/ errors' = errors + 1
      /\ kills' = kills \/ kills' = kills + 1
      /\ outages' = outages \/ outages' = outages + 1
  BY DEF Next, vars, counters, Call, ReadAll, Archive, ListArchives,
         RemoveArchive, CreateTemp, GiveUp, WriteTemp, SyncTemp, Rename, SyncDir,
         Kill, PowerFailure, Damage, Error
<1> QED BY <1>1, <1>2, StoreBounds, SMTT(30) DEF Allowed

\* A system call that fails allows for an archive more.
LEMMA ErrorAllows ==
  ASSUME IInv, [Next]_vars, Error, UNCHANGED <<kills, outages>>
  PROVE  Allowed' = Allowed + 1
  BY Counted, StoreBounds, SMTT(30) DEF Error, Allowed

\* What is within a number stays so when the number grows.
LEMMA StillWithin ==
  ASSUME NEW l \in Nat, NEW x \in Nat, NEW y \in Nat, y >= x
  PROVE  /\ l <= x => l <= y /\ l <= y + 1 /\ l + 1 <= y + 1
         /\ l <= x + 1 => l <= y + 1
         /\ \A m \in Nat : m <= l /\ l <= x + 1 => m <= y + 1
  BY SMTT(30)

\* One archive less of the surplus.
LEMMA OneRemoved ==
  ASSUME NEW l \in Nat, NEW n \in 1..(l - 1), NEW x \in Nat, NEW y \in Nat,
         l <= x + n, y >= x
  PROVE  l - 1 \in Nat /\ l - 1 <= l /\ l - 1 <= y + n - 1
  BY SMTT(30)

\* A step that leaves the archives of the directory alone, outside a cleanup,
\* keeps ArchiveInv.
LEMMA SameArchives ==
  ASSUME IInv, ArchiveInv, [Next]_vars, dir'.backups = dir.backups,
         disk' \subseteq disk \cup {dir'}, archived' = archived,
         outages' = outages, pc \notin Cleaning, pc' \notin Cleaning
  PROVE  ArchiveInv'
<1>1. dir \in disk /\ dir.backups \in Seq(Nat)
      /\ \A left \in disk : left.backups \in Seq(Nat)
  BY DEF IInv, FileTypeOK, Dirs
<1>2. Len(dir.backups) \in Nat /\ \A left \in disk : Len(left.backups) \in Nat
  BY <1>1, SeqIs
<1>3. Len(dir'.backups) <= Allowed'
  <2>1. Len(dir.backups) <= Allowed
    BY DEF ArchiveInv
  <2> QED BY <1>2, <2>1, Counted, StillWithin
<1>4. \A left \in disk' : Len(left.backups) <= Allowed' + 1
  <2>1. ASSUME NEW left \in disk PROVE Len(left.backups) <= Allowed' + 1
    <3>1. Len(left.backups) <= Allowed + 1
      BY DEF ArchiveInv
    <3> QED BY <1>2, <3>1, Counted, StillWithin
  <2>2. Len(dir'.backups) <= Allowed' + 1
    <3>1. Len(dir.backups) <= Allowed
      BY DEF ArchiveInv
    <3> QED BY <1>2, <3>1, Counted, StillWithin
  <2> QED BY <2>1, <2>2
<1> QED BY <1>3, <1>4 DEF ArchiveInv, Cleaning

\* What is said of the directories a power failure may leave, after a step that
\* adds the current one.
LEMMA DiskKept ==
  ASSUME IInv, ArchiveInv, [Next]_vars, disk' \subseteq disk \cup {dir'},
         Len(dir'.backups) <= Allowed' + 1
  PROVE  \A left \in disk' : Len(left.backups) <= Allowed' + 1
<1>1. ASSUME NEW left \in disk PROVE Len(left.backups) <= Allowed' + 1
  <2>1. Len(left.backups) <= Allowed + 1 /\ left.backups \in Seq(Nat)
    BY DEF ArchiveInv, IInv, FileTypeOK, Dirs
  <2>2. Len(left.backups) \in Nat
    BY <2>1, SeqIs
  <2> QED BY <2>1, <2>2, Counted, StillWithin
<1> QED BY <1>1

\* Archiving puts the damaged file last, one above the number allowed at most.
LEMMA ArchiveArchives ==
  ASSUME IInv, ArchiveInv, [Next]_vars, Archive
  PROVE  ArchiveInv'
<1>1. /\ dir \in Dirs /\ dir.backups \in Seq(Nat) /\ archived \in Nat
      /\ pc = "read" /\ pc' = "list" /\ Len(dir.backups) \in Nat
      /\ Len(dir.backups) <= Allowed /\ outages' = outages
  BY SeqIs DEF IInv, FileTypeOK, Dirs, Archive, ArchiveInv, Cleaning
<1>2. CASE UNCHANGED <<dir, disk, archived>>
  <2>1. Len(dir'.backups) <= Allowed' + 1
    BY <1>1, <1>2, Counted, StillWithin
  <2>2. \A left \in disk' : Len(left.backups) <= Allowed' + 1
    BY <1>2, <2>1, DiskKept
  <2> QED BY <1>1, <1>2, <2>2 DEF ArchiveInv, Cleaning
<1>3. CASE /\ Moves([dir EXCEPT !.main = NotAMap("absent"),
                                !.backups = Append(@, archived + 1)])
           /\ archived' = archived + 1
  <2> DEFINE more == Append(dir.backups, archived + 1)
  <2>1. dir'.backups = more /\ disk' = disk \cup {dir'}
    BY <1>1, <1>3 DEF Moves, Dirs
  <2>2. more \in Seq(Nat) /\ Len(more) = Len(dir.backups) + 1
        /\ more[Len(dir.backups) + 1] = archived + 1
    <3>1. archived + 1 \in Nat
      BY <1>1, SMTT(30)
    <3>2. dir.backups \in Seq(Nat)
      BY <1>1
    <3> QED BY ONLY <3>1, <3>2, Appended, ZenonT(30)
  <2> HIDE DEF more
  <2>3. Len(dir'.backups) <= Allowed' + 1 /\ more # <<>>
    <3>1. Len(dir'.backups) <= Allowed' + 1
      BY <1>1, <2>1, <2>2, Counted, StillWithin
    <3>2. more # <<>>
      BY <1>1, <2>2, SMTT(30)
    <3> QED BY <3>1, <3>2
  <2>4. \A left \in disk' : Len(left.backups) <= Allowed' + 1
    BY <2>1, <2>3, DiskKept
  <2> QED BY <1>1, <1>3, <2>1, <2>2, <2>3, <2>4 DEF ArchiveInv, Cleaning
<1> QED BY <1>2, <1>3 DEF Archive

\* The directory is listed: what is above the limit is to be removed.
LEMMA ListArchivesArchives ==
  ASSUME IInv, ArchiveInv, [Next]_vars, ListArchives
  PROVE  ArchiveInv'
<1>1. /\ dir.backups \in Seq(Nat) /\ pc = "list" /\ dir \in disk
      /\ Len(dir.backups) \in Nat /\ Len(dir.backups) <= Allowed + 1
      /\ UNCHANGED <<dir, disk, archived, kills, outages>>
      /\ op \in [call : Calls, data : Maps, surplus : Nat]
  BY SeqIs DEF IInv, FileTypeOK, Dirs, ListArchives, ArchiveInv
<1>2. \A left \in disk' : Len(left.backups) <= Allowed' + 1
  <2>1. Len(dir'.backups) <= Allowed' + 1
    BY <1>1, Counted, StillWithin
  <2> QED BY <1>1, <2>1, DiskKept
<1>3. CASE /\ Len(dir.backups) > MaxCorruptBackups /\ pc' = "remove"
           /\ op' = [op EXCEPT !.surplus = Len(dir.backups) - MaxCorruptBackups]
  <2>1. op'.surplus = Len(dir.backups) - MaxCorruptBackups
    BY <1>1, <1>3
  <2>2. Len(dir'.backups) <= Allowed' + op'.surplus
    BY <1>1, <2>1, Counted, StoreBounds, SMTT(30)
  <2> QED BY <1>1, <1>2, <1>3, <2>2 DEF ArchiveInv, Cleaning
<1>4. CASE /\ GoOnEmpty
           /\ (Len(dir.backups) <= MaxCorruptBackups) \/ Error
  <2>1. pc' \in {"idle", "create"}
    BY <1>4 DEF GoOnEmpty, Return
  <2>2. Len(dir'.backups) <= Allowed'
    <3>1. CASE Error
      <4>1. Allowed' = Allowed + 1
        BY <1>1, <3>1, ErrorAllows
      <4> QED BY <1>1, <4>1
    <3>2. CASE Len(dir.backups) <= MaxCorruptBackups
      BY <1>1, <3>2, Counted, StoreBounds, SMTT(30)
    <3> QED BY <1>4, <3>1, <3>2
  <2> QED BY <1>1, <1>2, <2>1, <2>2 DEF ArchiveInv, Cleaning
<1> QED BY <1>3, <1>4 DEF ListArchives

\* A removal, or its failure, brings the cleanup one archive nearer to the end.
LEMMA RemoveArchiveArchives ==
  ASSUME IInv, ArchiveInv, [Next]_vars, RemoveArchive
  PROVE  ArchiveInv'
<1>1. /\ dir \in Dirs /\ dir.backups \in Seq(Nat) /\ pc = "remove" /\ dir \in disk
      /\ Len(dir.backups) \in Nat /\ Len(dir.backups) <= Allowed + op.surplus
      /\ Len(dir.backups) <= Allowed + 1
      /\ UNCHANGED <<archived, kills, outages>>
      /\ op \in [call : Calls, data : Maps, surplus : Nat]
      /\ op.surplus \in 1..(Len(dir.backups) - 1)
  BY SeqIs DEF IInv, FileTypeOK, Dirs, RemoveArchive, ArchiveInv
<1>2. /\ disk' \subseteq disk \cup {dir'}
      /\ dir'.backups # <<>>
      /\ dir'.backups[Len(dir'.backups)] = dir.backups[Len(dir.backups)]
      /\ Len(dir'.backups) \in Nat
      /\ Len(dir'.backups) <= Len(dir.backups)
      /\ Len(dir'.backups) <= Allowed' + op.surplus - 1
  <2>1. CASE Error /\ UNCHANGED <<dir, disk>>
    <3>1. Allowed' = Allowed + 1
      BY <1>1, <2>1, ErrorAllows
    <3>2. dir.backups # <<>>
      BY <1>1, SMTT(30)
    <3>3. Len(dir.backups) <= Allowed' + op.surplus - 1
      BY <1>1, <3>1, Counted, SMTT(30)
    <3>4. Len(dir.backups) <= Len(dir.backups)
      BY <1>1, SMTT(30)
    <3> QED BY <1>1, <2>1, <3>2, <3>3, <3>4
  <2>2. CASE Moves([dir EXCEPT !.backups = AllBut(@, op.surplus)])
    <3> DEFINE b == AllBut(dir.backups, op.surplus)
    <3>1. /\ b \in Seq(Nat) /\ Len(b) = Len(dir.backups) - 1 /\ b # <<>>
          /\ b[Len(dir.backups) - 1] = dir.backups[Len(dir.backups)]
      BY <1>1, AllButType
    <3>2. dir'.backups = b /\ disk' = disk \cup {dir'}
      BY <1>1, <2>2 DEF Moves, Dirs
    <3> HIDE DEF b
    <3>3. Len(b) \in Nat /\ Len(b) <= Len(dir.backups)
          /\ Len(b) <= Allowed' + op.surplus - 1
      BY <1>1, <3>1, Counted, OneRemoved
    <3> QED BY <3>1, <3>2, <3>3
  <2> QED BY <2>1, <2>2 DEF RemoveArchive
<1>3. \A left \in disk' : Len(left.backups) <= Allowed' + 1
  <2>1. Len(dir'.backups) <= Allowed' + 1
    BY <1>1, <1>2, Counted, StillWithin
  <2> QED BY <1>2, <2>1, DiskKept
<1>4. CASE op.surplus > 1 /\ op' = [op EXCEPT !.surplus = @ - 1] /\ UNCHANGED pc
  <2>1. op'.surplus = op.surplus - 1
    BY <1>1, <1>4
  <2>2. Len(dir'.backups) <= Allowed' + op'.surplus
    BY <1>1, <1>2, <2>1, Counted, SMTT(30)
  <2> QED BY <1>1, <1>2, <1>3, <1>4, <2>2 DEF ArchiveInv, Cleaning
<1>5. CASE op.surplus <= 1 /\ GoOnEmpty
  <2>1. pc' \in {"idle", "create"}
    BY <1>5 DEF GoOnEmpty, Return
  <2>2. Len(dir'.backups) <= Allowed'
    BY <1>1, <1>2, <1>5, Counted, SMTT(30)
  <2> QED BY <1>1, <1>2, <1>3, <2>1, <2>2 DEF ArchiveInv, Cleaning
<1>6. op.surplus > 1 \/ op.surplus <= 1
  BY <1>1, SMTT(30)
<1> QED BY <1>4, <1>5, <1>6 DEF RemoveArchive

\* A kill, and a power failure, may leave the archive that was to be removed.
LEMMA StopArchives ==
  ASSUME IInv, ArchiveInv, [Next]_vars, NEW left \in disk,
         (Kill /\ left = dir) \/ PowerFailure(left)
  PROVE  ArchiveInv'
<1>1. /\ left.backups \in Seq(Nat) /\ Len(left.backups) \in Nat
      /\ Len(left.backups) <= Allowed + 1 /\ dir' = left /\ pc' = "idle"
      /\ archived' = archived /\ disk' \subseteq disk
  BY SeqIs DEF IInv, FileTypeOK, Dirs, ArchiveInv, Kill, PowerFailure, Return
<1>2. Allowed' = Allowed + 1
  <2>1. \/ kills' = kills + 1 /\ UNCHANGED <<errors, outages>>
        \/ outages' = outages + 1 /\ UNCHANGED <<errors, kills>>
    BY DEF Kill, PowerFailure
  <2> QED BY <2>1, Counted, StoreBounds, SMTT(30) DEF Allowed
<1>3. Len(dir'.backups) <= Allowed' /\ Len(dir'.backups) <= Allowed' + 1
  BY <1>1, <1>2, Counted, SMTT(30)
<1>4. \A other \in disk' : Len(other.backups) <= Allowed' + 1
  BY <1>1, <1>3, DiskKept
<1>5. outages' # 0 \/ (dir' = dir /\ outages' = outages)
  <2>1. outages' = outages + 1 \/ (dir' = dir /\ outages' = outages)
    BY DEF Kill, PowerFailure
  <2> QED BY <2>1, Counted, SMTT(30)
<1> QED BY <1>1, <1>3, <1>4, <1>5 DEF ArchiveInv, Cleaning

\* Every step keeps ArchiveInv.
LEMMA ArchivesKeptOn ==
  ASSUME IInv, ArchiveInv, [Next]_vars
  PROVE  ArchiveInv'
<1>1. dir \in Dirs /\ dir \in disk
  BY DEF IInv, FileTypeOK
<1>2. ASSUME NEW call \in Calls, Call(call) PROVE ArchiveInv'
  BY <1>2, SameArchives DEF Call, counters, Cleaning
<1>3. CASE ReadAll
  BY <1>3, SameArchives DEF ReadAll, Return, Cleaning
<1>4. CASE CreateTemp \/ GiveUp
  <2>1. dir'.backups = dir.backups /\ disk' \subseteq disk \cup {dir'}
    BY <1>1, <1>4 DEF CreateTemp, GiveUp, Moves, Dirs
  <2>2. pc \notin Cleaning /\ pc' \notin Cleaning
    BY <1>4 DEF CreateTemp, GiveUp, Return, Cleaning
  <2> QED BY <1>4, <2>1, <2>2, SameArchives DEF CreateTemp, GiveUp
<1>5. CASE WriteTemp \/ SyncTemp
  BY <1>5, SameArchives DEF WriteTemp, SyncTemp, counters, Cleaning
<1>6. CASE Rename
  <2>1. dir'.backups = dir.backups /\ disk' \subseteq disk \cup {dir'}
    BY <1>1, <1>6 DEF Rename, Dirs, IInv
  <2> QED BY <1>6, <2>1, SameArchives DEF Rename, counters, Cleaning
<1>7. CASE SyncDir
  BY <1>1, <1>7, SameArchives DEF SyncDir, Return, Cleaning
<1>8. ASSUME NEW kind \in {"empty", "corrupt"}, Damage(kind) PROVE ArchiveInv'
  <2>1. dir'.backups = dir.backups /\ disk' \subseteq disk \cup {dir'}
    BY <1>1, <1>8 DEF Damage, Moves, Dirs
  <2> QED BY <1>8, <2>1, SameArchives DEF Damage, Cleaning
<1>9. CASE UNCHANGED vars
  BY <1>9 DEF vars, counters, ArchiveInv, Allowed
<1>10. CASE Kill
  BY <1>1, <1>10, StopArchives
<1> QED BY <1>2, <1>3, <1>4, <1>5, <1>6, <1>7, <1>8, <1>9, <1>10, StopArchives,
           ArchiveArchives, ListArchivesArchives, RemoveArchiveArchives DEF Next

\* As long as the process is not killed, a call of the store that is over has
\* removed its temporary file, on every path of writeAllLocked.
THEOREM TempsRemoved == Spec => []NoTempLeft
<1>1. TempInv => NoTempLeft
  BY DEF TempInv, NoTempLeft, HasTemp
<1> QED BY <1>1, InitTemps, InitIInv, NextIInv, TempKept, PTL DEF Spec

\* Beyond the limit of maxCorruptBackups there is at most one archive for each
\* failure, kill or power failure that can have cut a cleanup short, and the
\* corrupt file found last stays archived, for every number of them.
THEOREM NewestArchiveKept == Spec => []ArchivesKept
<1>1. IInv /\ ArchiveInv => ArchivesKept
  <2> SUFFICES ASSUME IInv, ArchiveInv PROVE ArchivesKept
    OBVIOUS
  <2>1. /\ dir \in disk /\ dir.backups \in Seq(Nat) /\ Len(dir.backups) \in Nat
        /\ errors \in Nat /\ kills \in Nat /\ outages \in Nat
    <3>1. errors \in Nat /\ kills \in Nat /\ outages \in Nat
      BY SMTT(30) DEF IInv, FileTypeOK
    <3> QED BY <3>1, SeqIs DEF IInv, FileTypeOK, Dirs
  <2>2. Len(dir.backups) <= Allowed + 1 /\ (pc \notin Cleaning => Len(dir.backups) <= Allowed)
    BY <2>1 DEF ArchiveInv
  <2>3. Len(dir.backups) <= MaxCorruptBackups + errors + kills + outages
                            + (IF pc \in {"list", "remove"} THEN 1 ELSE 0)
    BY <2>1, <2>2, StoreBounds, SMTT(30) DEF Allowed, Cleaning
  <2> QED BY <2>3 DEF ArchiveInv, ArchivesKept
<1> QED BY <1>1, InitTemps, InitIInv, NextIInv, ArchivesKeptOn, PTL DEF Spec

-----------------------------------------------------------------------------
\* FirmwareStart

\* What a remainder and a quotient are, for the rounding of FWBlockCountForSize.
LEMMA RemainderSmall ==
  ASSUME NEW n \in Nat, NEW m \in Nat, n < m
  PROVE  n % m = n
  BY SMTT(30)

\* The quotient of FWBlockCountForSize is the number of full blocks.
LEMMA QuotientBounds ==
  ASSUME NEW n \in Nat, NEW b \in Nat \ {0}
  PROVE  /\ n \div b \in Nat
         /\ b * (n \div b) <= n
         /\ n < b * (n \div b) + b
  BY SMTT(30)

\* A product below another with the same positive factor has the smaller cofactor.
LEMMA Cancel ==
  ASSUME NEW b \in Nat \ {0}, NEW x \in Nat, NEW y \in Nat,
         b * x < b * y + b
  PROVE  x <= y
<1>1. SUFFICES ASSUME x >= y + 1 PROVE FALSE
  BY SMTT(30)
<1>2. PICK d \in Nat : x = y + 1 + d
  <2>1. x - (y + 1) \in Nat /\ x = y + 1 + (x - (y + 1))
    BY <1>1, SMTT(30)
  <2> QED  BY <2>1
<1>3. b * x = b * y + b + b * d
  BY <1>2, SMTT(30)
<1>4. b * d >= 0
  BY SMTT(30)
<1> QED  BY <1>3, <1>4, SMTT(30)

\* FWBlockCountForSize rounds up, for a file whose blocks can be counted.
LEMMA CountRoundsUp ==
  ASSUME NEW size \in Nat \ {0}, size <= Block * MaxCount
  PROVE  LET c == FWBlockCountForSize(size)
         IN  /\ c \in 1..MaxCount
             /\ (c - 1) * Block < size
             /\ size <= c * Block
<1> DEFINE n == size + Block - 1
           q == n \div Block
<1> USE FirmwareAssumption
<1>1. n \in Nat /\ n < Block * MaxCount + Block /\ n >= Block
  <2>1. Block * MaxCount \in Nat
    BY SMTT(30)
  <2> QED  BY <2>1, SMTT(30)
<1>2. n % MaxSize = n
  <2>1. n < MaxSize
    <3>1. Block * MaxCount \in Nat
      BY SMTT(30)
    <3> QED  BY <1>1, <3>1, SMTT(30)
  <2> QED  BY <1>1, <2>1, RemainderSmall
<1>3. q \in Nat /\ Block * q <= n /\ n < Block * q + Block
  BY <1>1, QuotientBounds
<1> HIDE DEF q
<1>4. q <= MaxCount
  <2>1. Block * q < Block * MaxCount + Block
    <3>1. Block * q \in Nat /\ Block * MaxCount \in Nat
      BY <1>3, SMTT(30)
    <3> QED  BY <1>1, <1>3, <3>1, SMTT(30)
  <2> QED  BY <1>3, <2>1, Cancel
<1>5. q >= 1
  <2>1. SUFFICES ASSUME q = 0 PROVE FALSE
    BY <1>3, SMTT(30)
  <2>2. Block * q = 0
    BY <2>1, SMTT(30)
  <2> QED  BY <1>1, <1>3, <2>2, SMTT(30)
<1>6. FWBlockCountForSize(size) = q
  <2>1. ((size + Block - 1) % MaxSize) \div Block = q
    BY <1>2 DEF q
  <2> QED  BY <1>3, <1>4, <2>1, SMTT(30) DEF FWBlockCountForSize
<1>7. (q - 1) * Block = Block * q - Block /\ q * Block = Block * q
  BY <1>3, SMTT(30)
<1>8. Block * q \in Nat
  BY <1>3, SMTT(30)
<1> QED  BY <1>1, <1>3, <1>4, <1>5, <1>6, <1>7, <1>8, SMTT(30)

\* What either handler accepts covers its file.
LEMMA ValidCovers ==
  ASSUME NEW p \in Starts, Valid(p), p.size <= Block * MaxCount
  PROVE  Covers(p)
<1>1. p.size \in Nat \ {0}
  BY FirmwareAssumption, SMTT(30) DEF Starts, Valid
<1> QED  BY <1>1, CountRoundsUp DEF Valid, Covers

\* The count that Build fills in is one that a command can hold.
LEMMA FilledType ==
  ASSUME NEW p \in Starts
  PROVE  p.count = 0 /\ p.size \in 1..(Block * MaxCount) => Filled(p) \in Starts
<1> SUFFICES ASSUME p.count = 0, p.size \in 1..(Block * MaxCount)
             PROVE  Filled(p) \in Starts
  OBVIOUS
<1>1. p.size \in Nat \ {0} /\ p.size <= Block * MaxCount
  BY FirmwareAssumption, SMTT(30)
<1>2. FWBlockCountForSize(p.size) \in 0..MaxCount
  BY <1>1, CountRoundsUp, FirmwareAssumption, SMTT(30)
<1> QED  BY <1>2 DEF Filled, Starts

\* A command that Build returns is valid, and has the size that was asked for.
LEMMA BuildValid ==
  ASSUME NEW p \in Starts, Build(p) # NoStart
  PROVE  Build(p) = Filled(p) /\ Valid(Filled(p))
  BY DEF Build

\* Every accepted start command announces the blocks of its file.
THEOREM BlocksAlwaysCover == FirmwareSpec => []BlocksCover
<1>1. FirmwareInit => BlocksCover
  BY DEF FirmwareInit, BlocksCover
<1>2. BlocksCover /\ [FirmwareNext]_firmwareVars => BlocksCover'
  <2> SUFFICES ASSUME BlocksCover, [FirmwareNext]_firmwareVars PROVE BlocksCover'
    OBVIOUS
  <2>1. CASE BuildStart
    <3>1. PICK p \in Starts : start' = Build(p)
      BY <2>1 DEF BuildStart
    <3>2. SUFFICES ASSUME Build(p) # NoStart, Build(p).size <= Block * MaxCount
                   PROVE  Covers(Build(p))
      BY <3>1 DEF BlocksCover, Covers
    <3>3. Build(p) = Filled(p) /\ Valid(Filled(p))
      BY <3>2, BuildValid
    <3>4. /\ Filled(p).size = p.size
          /\ Filled(p).count = FWBlockCountForSize(p.size)
      BY <3>3 DEF Filled, Valid, Starts
    <3>5. p.size \in Nat \ {0} /\ p.size <= Block * MaxCount
      BY <3>2, <3>3, <3>4, FirmwareAssumption, SMTT(30) DEF Starts, Valid
    <3> QED  BY <3>3, <3>4, <3>5, CountRoundsUp DEF Covers
  <2>2. CASE EnqueueStart
    <3>1. PICK p \in Starts : start' = IF Valid(p) THEN p ELSE NoStart
      BY <2>2 DEF EnqueueStart
    <3>2. SUFFICES ASSUME Valid(p), p.size <= Block * MaxCount
                   PROVE  Covers(p)
      BY <3>1 DEF BlocksCover, Covers
    <3> QED  BY <3>2, ValidCovers
  <2>3. CASE UNCHANGED firmwareVars
    BY <2>3 DEF BlocksCover, Covers, firmwareVars
  <2> QED  BY <2>1, <2>2, <2>3 DEF FirmwareNext
<1> QED  BY <1>1, <1>2, PTL DEF FirmwareSpec

\* Build refuses no file whose blocks can be counted.
THEOREM EverySizeAnnounced == FirmwareSpec => []SizeAnnounced
<1>1. FirmwareInit => SizeAnnounced
  BY DEF FirmwareInit, SizeAnnounced
<1>2. SizeAnnounced /\ [FirmwareNext]_firmwareVars => SizeAnnounced'
  <2> SUFFICES ASSUME SizeAnnounced, [FirmwareNext]_firmwareVars PROVE SizeAnnounced'
    OBVIOUS
  <2>1. CASE BuildStart
    <3>1. PICK p \in Starts : asked' = p /\ start' = Build(p)
      BY <2>1 DEF BuildStart
    <3>2. SUFFICES ASSUME p.fw # 0, p.crc # 0, p.count = 0,
                          p.size \in 1..(Block * MaxCount)
                   PROVE  Build(p) # NoStart
      BY <3>1 DEF SizeAnnounced
    <3>3. p.size \in Nat \ {0} /\ p.size <= Block * MaxCount
      BY <3>2, FirmwareAssumption, SMTT(30)
    <3>4. FWBlockCountForSize(p.size) # 0
      BY <3>3, CountRoundsUp, SMTT(30)
    <3>5. /\ Filled(p).count = FWBlockCountForSize(p.size)
          /\ Filled(p).size = p.size
          /\ Filled(p).fw = p.fw /\ Filled(p).crc = p.crc
      BY <3>2 DEF Filled, Starts
    <3>6. Valid(Filled(p))
      BY <3>2, <3>3, <3>4, <3>5 DEF Valid
    <3>7. Filled(p) # NoStart
      BY <3>2, FilledType, NoStartAssumption
    <3> QED  BY <3>2, <3>3, <3>5, <3>6, <3>7 DEF Build
  <2>2. CASE EnqueueStart
    BY <2>2 DEF EnqueueStart, SizeAnnounced
  <2>3. CASE UNCHANGED firmwareVars
    BY <2>3 DEF SizeAnnounced, firmwareVars
  <2> QED  BY <2>1, <2>2, <2>3 DEF FirmwareNext
<1> QED  BY <1>1, <1>2, PTL DEF FirmwareSpec

-----------------------------------------------------------------------------
\* RetryBackoff

\* The inductive invariant: nothing is waited for before the first retry.
RetryInv ==
  /\ base \in Bases
  /\ attempts \in Nat \ {0}
  /\ delay \in Int
  /\ attempts = 1 => delay = 0
  /\ DelayInRange

\* A value in the range of durations is not changed by the width.
LEMMA WrapId ==
  ASSUME NEW x \in Int, -MaxDur <= x, x < MaxDur
  PROVE  Wrap(x) = x
BY BackoffAssumption, SMTT(30) DEF Wrap

\* Every operation on durations gives an integer.
LEMMA WrapInt ==
  ASSUME NEW x \in Int
  PROVE  Wrap(x) \in Int
<1>1. MaxDur \in Nat /\ 2 * MaxDur > 0
  BY BackoffAssumption, SMTT(30)
<1> QED BY <1>1, SMTT(30) DEF Wrap

\* The factor is one of seven powers of two, and doubles until its cap.
LEMMA Factor ==
  ASSUME NEW n \in Nat, n > 1
  PROVE  /\ Shift(n) \in 0..6
         /\ Pow2[Shift(n)] \in {1, 2, 4, 8, 16, 32, 64}
         /\ n < 8 => Pow2[Shift(n + 1)] = 2 * Pow2[Shift(n)]
         /\ Pow2[Shift(2)] = 1
<1>1. Shift(n) \in 0..6 /\ (n < 8 => Shift(n + 1) = Shift(n) + 1) /\ Shift(2) = 0
  BY SMTT(30) DEF Shift, maxRetryBackoffShift
<1>2. /\ Pow2[0] = 1 /\ Pow2[1] = 2 /\ Pow2[2] = 4 /\ Pow2[3] = 8
      /\ Pow2[4] = 16 /\ Pow2[5] = 32 /\ Pow2[6] = 64
  BY SMTT(30) DEF Pow2, maxRetryBackoffShift
<1>3. n < 8 => Shift(n) \in 0..5
  BY SMTT(30) DEF Shift, maxRetryBackoffShift
<1> QED BY <1>1, <1>2, <1>3, SMTT(30)

\* What retryDelay returns is never negative.
LEMMA DelayNatural ==
  ASSUME NEW n \in Nat, NEW b \in Int, NEW out \in RetryDelay(n, b)
  PROVE  out \in Int /\ out >= 0
<1>1. CASE n <= 1 \/ b <= 0
  BY <1>1, SMTT(30) DEF RetryDelay
<1>2. CASE ~(n <= 1 \/ b <= 0)
  <2> DEFINE d == Wrap(b * Pow2[Shift(n)])
             j == JitterRange(d)
  <2>1. d \in Int
    BY <1>2, Factor, WrapInt, SMTT(30)
  <2>2. \/ out = b
        \/ out = d /\ d >= 0
        \/ out \in Jittered(d, j) /\ d >= 0 /\ j > 0
    <3>1. j \in Int
      <4>1. Wrap(d * jitterPercent) \in Int
        BY <2>1, WrapInt, SMTT(30) DEF jitterPercent
      <4> QED BY <4>1, SMTT(30) DEF JitterRange, Quot
    <3> QED BY <1>2, <2>1, <3>1, SMTT(30) DEF RetryDelay
  <2>3. ASSUME out \in Jittered(d, j), j > 0 PROVE out \in Int /\ out >= 0
    <3>1. PICK v \in (-j)..j : out = IF Wrap(d + v) < 0 THEN 0 ELSE Wrap(d + v)
      BY <2>3 DEF Jittered
    <3>2. Wrap(d + v) \in Int
      BY <2>1, <3>1, WrapInt, SMTT(30)
    <3> QED BY <3>1, <3>2, SMTT(30)
  <2> QED BY <1>2, <2>1, <2>2, <2>3, SMTT(30)
<1> QED BY <1>1, <1>2

\* For a moderate base nothing overflows, and the jitter is a fifth at most.
LEMMA DelayModerate ==
  ASSUME NEW n \in Nat, n > 1, NEW b \in Nat, b * 64 * jitterPercent < MaxDur,
         NEW out \in RetryDelay(n, b)
  PROVE  /\ 80 * b * Pow2[Shift(n)] <= 100 * out
         /\ 100 * out <= 120 * b * Pow2[Shift(n)]
<1> DEFINE k == Pow2[Shift(n)]
<1>1. k \in {1, 2, 4, 8, 16, 32, 64} /\ b * 1280 < MaxDur
  BY Factor, SMTT(30) DEF jitterPercent
<1>2. CASE b = 0
  BY <1>1, <1>2, SMTT(30) DEF RetryDelay
<1>3. CASE b > 0
  <2> DEFINE d == b * k
             j == (d * 20) \div 100
  <2>1. d \in Nat /\ d > 0 /\ d * 20 < MaxDur /\ MaxDur \in Nat
    BY <1>1, <1>3, BackoffAssumption, SMTT(30)
  <2>2. /\ 80 * b * k = 80 * d /\ 120 * b * k = 120 * d
    BY <1>1, SMTT(30)
  <2> HIDE DEF d
  <2>3. j \in Nat /\ 5 * j <= d
    BY <2>1, SMTT(30)
  <2>4. Wrap(d) = d /\ Wrap(d * 20) = d * 20
    BY <2>1, WrapId, SMTT(30)
  <2>5. JitterRange(d) = j
    BY <2>1, <2>4, SMTT(30) DEF JitterRange, Quot, jitterPercent
  <2>6. out = d \/ out \in Jittered(d, j)
    <3>1. RetryDelay(n, b) =
            IF d < 0 THEN {b}
            ELSE IF j <= 0 \/ Wrap(Wrap(j * 2) + 1) <= 0 THEN {d}
            ELSE Jittered(d, j)
      <4>1. Wrap(b * Pow2[Shift(n)]) = d
        BY <2>4 DEF d
      <4> HIDE DEF j, k
      <4>2. ~(n <= 1 \/ b <= 0)
        BY <1>3, SMTT(30)
      <4> QED BY <2>5, <4>1, <4>2 DEF RetryDelay
    <3> HIDE DEF j
    <3> QED BY <2>1, <3>1, SMTT(30)
  <2>7. out \in Nat /\ d - j <= out /\ out <= d + j
    <3>1. CASE out = d
      BY <2>1, <2>3, <3>1, SMTT(30)
    <3>2. CASE out \in Jittered(d, j)
      <4> HIDE DEF j
      <4>1. PICK v \in (-j)..j : out = IF Wrap(d + v) < 0 THEN 0 ELSE Wrap(d + v)
        BY <3>2 DEF Jittered
      <4>2. Wrap(d + v) = d + v /\ d + v >= 0
        BY <2>1, <2>3, <4>1, WrapId, SMTT(30)
      <4> QED BY <2>1, <2>3, <4>1, <4>2, SMTT(30)
    <3> QED BY <2>6, <3>1, <3>2
  <2> HIDE DEF j
  <2>8. 80 * d <= 100 * out /\ 100 * out <= 120 * d
    BY <2>1, <2>3, <2>7, SMTT(30)
  <2> QED BY <2>2, <2>8
<1> QED BY <1>2, <1>3, SMTT(30)

\* 80% of a doubled delay is more than 120% of it.
LEMMA DoublingWins ==
  ASSUME NEW m \in Int, NEW x \in Int, NEW y \in Int, m > 0
  PROVE  /\ 160 * m <= 100 * y /\ 100 * x <= 120 * m => y > x
         /\ 80 * m * 1 <= 100 * y => y > 0
BY SMTT(30)

\* Every retry keeps the invariant.
LEMMA RetryKeeps == RetryInv /\ [RetryNext]_retryVars => RetryInv'
<1> SUFFICES ASSUME RetryInv, [RetryNext]_retryVars PROVE RetryInv'
  OBVIOUS
<1>1. CASE UNCHANGED retryVars
  BY <1>1 DEF retryVars, RetryInv, DelayInRange, Moderate
<1>2. CASE Retry
  <2>1. /\ base \in Nat /\ base' = base /\ attempts' = attempts + 1
        /\ attempts' \in Nat /\ attempts' > 1
        /\ delay' \in RetryDelay(attempts', base)
    BY <1>2, BackoffAssumption, SMTT(30) DEF Retry, RetryInv
  <2>2. delay' \in Int /\ delay' >= 0
    BY <2>1, DelayNatural, SMTT(30)
  <2>3. Moderate => /\ 80 * base * Pow2[Shift(attempts')] <= 100 * delay'
                    /\ 100 * delay' <= 120 * base * Pow2[Shift(attempts')]
    BY <2>1, DelayModerate DEF Moderate
  <2>4. DelayInRange'
    BY <2>1, <2>2, <2>3 DEF DelayInRange, Moderate
  <2> QED BY <2>1, <2>2, <2>4, SMTT(30) DEF RetryInv
<1> QED BY <1>1, <1>2 DEF RetryNext

\* A command starts with its first transmission and no delay.
LEMMA RetryInitKeeps == RetryInit => RetryInv
BY BackoffAssumption, SMTT(30) DEF RetryInit, RetryInv, DelayInRange

\* A moderate backoff stays within a fifth of its doubled base, and no base makes
\* retryDelay negative, for every width of durations.
THEOREM DelayBounded == RetrySpec => []DelayInRange
<1>1. RetryInv => DelayInRange
  BY DEF RetryInv
<1> QED BY <1>1, RetryInitKeeps, RetryKeeps, PTL DEF RetrySpec

\* Retries of one command draw apart until the factor reaches its cap, for every
\* jitter.
THEOREM BackoffDrawsApart == RetrySpec => BackoffGrows
<1>1. RetryInv /\ [RetryNext]_retryVars =>
        [Moderate /\ base > 0 /\ attempts < maxRetryBackoffShift + 2 =>
           delay' > delay]_retryVars
  <2> SUFFICES ASSUME RetryInv, Retry, Moderate, base > 0,
                      attempts < maxRetryBackoffShift + 2
               PROVE  delay' > delay
    BY DEF RetryNext
  <2>1. /\ base \in Nat /\ attempts \in Nat /\ attempts > 0 /\ attempts < 8
        /\ delay \in Int /\ delay' \in RetryDelay(attempts + 1, base)
    BY BackoffAssumption, SMTT(30) DEF RetryInv, Retry, maxRetryBackoffShift
  <2>2. delay' \in Int /\ 80 * base * Pow2[Shift(attempts + 1)] <= 100 * delay'
    BY <2>1, DelayNatural, DelayModerate, SMTT(30) DEF Moderate
  <2>3. CASE attempts = 1
    <3>1. Pow2[Shift(attempts + 1)] = 1 /\ delay = 0
      BY <2>1, <2>3, Factor, SMTT(30) DEF RetryInv
    <3>2. delay' > 0
      <4>1. 80 * base * 1 <= 100 * delay'
        BY <2>2, <3>1
      <4>2. base \in Int /\ delay' \in Int /\ base > 0
        BY <2>1, <2>2, SMTT(30)
      <4> QED BY <4>1, <4>2, DoublingWins
    <3> QED BY <3>1, <3>2
  <2>4. CASE attempts > 1
    <3> DEFINE k == Pow2[Shift(attempts)]
    <3>1. k \in {1, 2, 4, 8, 16, 32, 64} /\ Pow2[Shift(attempts + 1)] = 2 * k
      BY <2>1, <2>4, Factor
    <3>2. 100 * delay <= 120 * base * k
      BY <2>4 DEF RetryInv, DelayInRange
    <3> HIDE DEF k
    <3> DEFINE m == base * k
    <3>3. m \in Nat /\ m > 0 /\ 80 * base * (2 * k) = 160 * m /\ 120 * base * k = 120 * m
      BY <2>1, <3>1, SMTT(30)
    <3> HIDE DEF m
    <3>4. 160 * m <= 100 * delay' /\ 100 * delay <= 120 * m
      BY <2>2, <3>1, <3>2, <3>3
    <3>5. m \in Int /\ m > 0 /\ delay \in Int /\ delay' \in Int
      BY <2>1, <2>2, <3>3, SMTT(30)
    <3> QED BY <3>4, <3>5, DoublingWins
  <2> QED BY <2>1, <2>3, <2>4, SMTT(30)
<1> QED BY <1>1, RetryInitKeeps, RetryKeeps, PTL DEF RetrySpec, BackoffGrows

-----------------------------------------------------------------------------
\* CommandBuilder

\* Removing an entry of a list leaves the others, as the page does with the
\* request whose answer came.
LEMMA WithoutElements ==
  ASSUME NEW S, NEW s \in Seq(S), NEW i \in DOMAIN s
  PROVE  /\ Without(s, i) \in Seq(S)
         /\ \A j \in DOMAIN Without(s, i) : \E k \in DOMAIN s : Without(s, i)[j] = s[k]
<1> DEFINE a == SubSeq(s, 1, i - 1)
           b == SubSeq(s, i + 1, Len(s))
<1>1. Len(s) \in Nat /\ DOMAIN s = 1..Len(s) /\ i \in 1..Len(s)
  BY SMTT(30)
<1>2. /\ a \in Seq(S) /\ Len(a) = i - 1
      /\ \A j \in 1..(i - 1) : a[j] = s[j]
  BY <1>1, SMTT(30)
<1>3. /\ b \in Seq(S) /\ Len(b) = Len(s) - i
      /\ \A j \in 1..(Len(s) - i) : b[j] = s[i + j]
  BY <1>1, SMTT(30)
<1>4. Without(s, i) = a \o b
  BY DEF Without
<1> HIDE DEF a, b
<1>5. /\ a \o b \in Seq(S) /\ Len(a \o b) = Len(a) + Len(b)
      /\ \A j \in 1..(Len(a) + Len(b)) :
           (a \o b)[j] = IF j <= Len(a) THEN a[j] ELSE b[j - Len(a)]
  BY <1>2, <1>3, SMTT(30)
<1>6. \A j \in 1..(Len(a) + Len(b)) : \E k \in 1..Len(s) : (a \o b)[j] = s[k]
  <2> SUFFICES ASSUME NEW j \in 1..(Len(a) + Len(b))
               PROVE  \E k \in 1..Len(s) : (a \o b)[j] = s[k]
    OBVIOUS
  <2>1. CASE j <= i - 1
    <3>1. j \in 1..(i - 1) /\ j \in 1..Len(s)
      BY <1>1, <1>2, <1>3, <2>1, SMTT(30)
    <3> QED BY <1>2, <1>5, <2>1, <3>1
  <2>2. CASE j > i - 1
    <3> DEFINE k == j - (i - 1)
    <3>1. k \in 1..(Len(s) - i) /\ i + k \in 1..Len(s)
      BY <1>1, <1>2, <1>3, <2>2, SMTT(30)
    <3>2. (a \o b)[j] = b[k]
      BY <1>1, <1>2, <1>3, <1>5, <2>2, SMTT(30)
    <3> HIDE DEF k
    <3> QED BY <1>3, <3>1, <3>2
  <2> QED BY <1>1, <2>1, <2>2, SMTT(30)
<1>7. DOMAIN (a \o b) = 1..(Len(a) + Len(b))
  BY <1>5, SMTT(30)
<1> QED BY <1>1, <1>4, <1>5, <1>6, <1>7

\* What the field of the page may hold, and what the page asks the server to
\* build.
Fields == Values \cup {DefaultValue[c] : c \in Offered}
BuildRequests == [cmd : Offered, value : Fields, queue : BOOLEAN]

\* The inductive invariant of a patient user's page: every build under way and
\* what was built last are for the command that is selected, and every command
\* on its way to EnqueueCommand has a payload of its own.
PageInv ==
  /\ builds \in Seq(BuildRequests)
  /\ selected \in Offered /\ field \in Fields
  /\ \A i \in DOMAIN builds : builds[i].cmd = selected
  /\ built # NotBuilt => built.cmd = selected
  /\ \A r \in posts \cup queued : r.cmd = r.origin

\* A build that starts is for the command that is selected.
LEMMA StartBuildKeeps ==
  ASSUME PageInv, NEW queue \in BOOLEAN, StartBuild(queue)
  PROVE  /\ builds' \in Seq(BuildRequests)
         /\ \A i \in DOMAIN builds' : builds'[i].cmd = selected
<1> DEFINE r == [cmd |-> selected, value |-> field, queue |-> queue]
<1>1. builds' = Append(builds, r) /\ builds \in Seq(BuildRequests)
  BY DEF StartBuild, PageInv
<1>2. r \in BuildRequests /\ r.cmd = selected
  BY DEF PageInv, BuildRequests
<1> HIDE DEF r
<1>3. /\ builds' \in Seq(BuildRequests) /\ DOMAIN builds' = 1..(Len(builds) + 1)
      /\ \A i \in 1..Len(builds) : builds'[i] = builds[i]
      /\ builds'[Len(builds) + 1] = r
  BY <1>1, <1>2, SMTT(30)
<1> QED BY <1>1, <1>2, <1>3, SMTT(30) DEF PageInv

\* queueBuiltCommand posts a payload with the command it was built for.
LEMMA PostKeeps ==
  ASSUME PageInv, NEW b, b.cmd = selected, Post(b)
  PROVE  \A r \in posts' : r.cmd = r.origin
BY SMTT(30) DEF Post, PageInv

\* Every step of the page of a patient user keeps the invariant.
LEMMA PageKeeps ==
  ASSUME Patient, PageInv, [PageNext]_pageVars
  PROVE  PageInv'
<1>1. ASSUME NEW c \in Offered, Select(c) PROVE PageInv'
  <2>1. DefaultValue[c] \in Fields
    BY DEF Fields
  <2> QED BY <1>1, <2>1, SMTT(30) DEF Select, PageInv
<1>2. ASSUME NEW x \in Values, Edit(x) PROVE PageInv'
  BY <1>2 DEF Edit, PageInv, Fields
<1>3. CASE PressBuild
  BY <1>3, StartBuildKeeps DEF PressBuild, PageInv
<1>4. CASE PressQueue
  BY <1>4, StartBuildKeeps, PostKeeps DEF PressQueue, PageInv
<1>5. ASSUME NEW i \in DOMAIN builds, BuildAnswered(i) \/ BuildLost(i) PROVE PageInv'
  <2>1. /\ builds' \in Seq(BuildRequests)
        /\ \A j \in DOMAIN builds' : builds'[j].cmd = selected
    BY <1>5, WithoutElements, SMTT(30) DEF BuildAnswered, BuildLost, PageInv
  <2>2. CASE BuildLost(i)
    BY <2>1, <2>2 DEF BuildLost, PageInv
  <2>3. CASE BuildAnswered(i)
    <3> DEFINE b == [cmd |-> builds[i].cmd, payload |-> Answer(builds[i]).bytes]
    <3>1. b.cmd = selected
      BY DEF PageInv
    <3>2. /\ built' \in {NotBuilt, b} /\ UNCHANGED <<selected, field, queued>>
          /\ UNCHANGED <<posts, posted>> \/ Post(b)
      BY <2>3 DEF BuildAnswered
    <3> HIDE DEF b
    <3> QED BY <2>1, <3>1, <3>2, PostKeeps DEF PageInv
  <2> QED BY <1>5, <2>2, <2>3
<1>6. ASSUME NEW r \in posts, EnqueueRequest(r) PROVE PageInv'
  <2>1. posts' \subseteq posts /\ queued' \subseteq queued \cup {r}
    BY <1>6 DEF EnqueueRequest
  <2> QED BY <1>6, <2>1 DEF EnqueueRequest, PageInv
<1>7. CASE UNCHANGED pageVars
  BY <1>7 DEF pageVars, PageInv
<1> QED BY <1>1, <1>2, <1>3, <1>4, <1>5, <1>6, <1>7 DEF PageNext

\* The page starts with nothing built and nothing under way.
LEMMA PageInitKeeps == PageInit => PageInv
BY SMTT(30) DEF PageInit, PageInv, Fields, Offered, BuildRequests

\* With a user who keeps the selection while an answer is awaited, every command
\* that reaches EnqueueCommand has the payload that was built for it, for any
\* number of requests and in whatever order they are answered or lost.
THEOREM PatientQueuesAsBuilt ==
  ASSUME Patient
  PROVE  PageSpec => []QueuedAsBuilt
<1>1. PageInv => QueuedAsBuilt
  BY DEF PageInv, QueuedAsBuilt
<1>2. PageInv /\ [PageNext]_pageVars => PageInv'
  BY PageKeeps
<1> QED BY <1>1, <1>2, PageInitKeeps, PTL DEF PageSpec

-----------------------------------------------------------------------------
\* FrameCodec

\* CRC16Modbus returns a uint16: what two bytes hold.
ChecksumType == \A s \in Seq(Byte) : Checksum(s) \in 0..MaxDataLen

\* At most one byte, at place i, tells the two apart.
ButOne(s, t, i) ==
  /\ s \in Seq(Byte) /\ t \in Seq(Byte) /\ Len(s) = Len(t)
  /\ i \in 1..Len(s) /\ \A j \in 1..Len(s) : j # i => s[j] = t[j]

\* CRC16Modbus tells apart two runs of bytes that differ in one byte.
ChecksumSound ==
  \A s, t \in Seq(Byte) : \A i \in Nat :
    ButOne(s, t, i) /\ s[i] # t[i] => Checksum(s) # Checksum(t)

\* The base of the header's numbers, and the largest length.
LEMMA BaseNumbers == Base \in Nat \ {0} /\ MaxDataLen \in Nat
<1>1. Base \in Nat \ {0}
  BY SMTT(30) DEF Base
<1>2. ASSUME NEW b \in Nat \ {0} PROVE b * b - 1 \in Nat
  BY SMTT(30)
<1> QED  BY <1>1, <1>2 DEF MaxDataLen

\* A number of two bytes is read back.
LEMMA TwoBytes ==
  ASSUME NEW n \in 0..MaxDataLen
  PROVE  /\ LittleEndian(n) \in Seq(Byte) /\ Len(LittleEndian(n)) = 2
         /\ LittleEndian(n)[1] + Base * LittleEndian(n)[2] = n
<1> DEFINE q == n \div Base
           r == n % Base
<1>1. ASSUME NEW b \in Nat \ {0}, NEW m \in 0..(b * b - 1)
      PROVE  /\ m \div b \in 0..(b - 1) /\ m % b \in 0..(b - 1)
             /\ (m % b) + b * (m \div b) = m
  <2>1. /\ m \in Nat /\ m <= b * b - 1 /\ b - 1 \in Nat
        /\ b * (b - 1) + b = b * b
    BY SMTT(30)
  <2>2. m \div b \in Nat /\ m % b \in 0..(b - 1) /\ m = b * (m \div b) + (m % b)
    BY <2>1, SMTT(30)
  <2>3. b * (m \div b) < b * (b - 1) + b
    <3>1. b * b \in Nat /\ b * (m \div b) \in Nat
      BY <2>2, SMTT(30)
    <3> QED  BY <2>1, <2>2, <3>1, SMTT(30)
  <2>4. m \div b <= b - 1
    BY <2>1, <2>2, <2>3, Cancel
  <2> QED  BY <2>1, <2>2, <2>4, SMTT(30)
<1>2. q \in Byte /\ r \in Byte /\ r + Base * q = n
  BY <1>1, BaseNumbers DEF Byte, MaxDataLen
<1>3. LittleEndian(n) = <<r, q>>
  BY DEF LittleEndian
<1> HIDE DEF q, r
<1>4. <<r, q>> \in Seq(Byte) /\ Len(<<r, q>>) = 2 /\ <<r, q>>[1] = r /\ <<r, q>>[2] = q
  BY <1>2, Double
<1> QED  BY <1>2, <1>3, <1>4

\* The marker that EncodeFrame starts with has four bytes.
LEMMA Marker == StartMarker \in Seq(Byte) /\ Len(StartMarker) = 4
<1>1. 83 \in Byte /\ 76 \in Byte /\ 68 \in Byte /\ 78 \in Byte
  BY SMTT(30) DEF Byte, Base
<1>2. ASSUME NEW S, NEW a \in S, NEW b \in S, NEW c \in S, NEW d \in S
      PROVE  <<a, b, c, d>> \in Seq(S) /\ Len(<<a, b, c, d>>) = 4
  BY SMTT(30)
<1> QED  BY <1>1, <1>2 DEF StartMarker

\* What a client sends in its mode.
Sendable(f) ==
  /\ f \in Frames /\ Encodable(f)
  /\ f.mode = "compact" => f.seq = 0

SeqPart(f) == IF f.mode = "compact" THEN <<>> ELSE <<f.seq>>
Data(f) == <<f.ttl>> \o SeqPart(f) \o f.payload
Body(f) == LittleEndian(DataLen(f)) \o Data(f)

\* The parts of a frame that a client sends, and the length that its header
\* announces.
LEMMA FrameParts ==
  ASSUME NEW f, Sendable(f)
  PROVE  /\ f.mode \in {"compact", "sequenced"} /\ f.ttl \in Byte /\ f.seq \in Byte
         /\ f.payload \in Seq(Byte) /\ Len(f.payload) \in Nat \ {0}
         /\ f = [mode |-> f.mode, ttl |-> f.ttl, seq |-> f.seq, payload |-> f.payload]
         /\ DataLen(f) \in 2..MaxDataLen
         /\ SeqPart(f) \in Seq(Byte)
         /\ DataLen(f) = 1 + Len(SeqPart(f)) + Len(f.payload)
<1>0. f \in Frames /\ f.payload # <<>> /\ DataLen(f) <= MaxDataLen
  BY DEF Sendable, Encodable
<1>2. /\ f.mode \in {"compact", "sequenced"} /\ f.ttl \in Byte /\ f.seq \in Byte
      /\ f.payload \in Seq(Byte)
      /\ f = [mode |-> f.mode, ttl |-> f.ttl, seq |-> f.seq, payload |-> f.payload]
  BY <1>0, SMTT(30) DEF Frames
<1>1. Len(f.payload) \in Nat \ {0}
  <2>1. Len(f.payload) \in Nat /\ Len(f.payload) # 0
    BY <1>0, <1>2, SeqIs, EmptyLen
  <2> QED  BY <2>1
<1>3. DataLen(f) \in 2..MaxDataLen
  <2>1. ASSUME NEW m \in Nat, NEW l \in Nat \ {0}, NEW c \in {1, 2}, l + c <= m
        PROVE  l + c \in 2..m
    BY <2>1, SMTT(30)
  <2> QED  BY <1>0, <1>1, <2>1, BaseNumbers DEF DataLen
<1>4. CASE f.mode = "compact"
  <2>1. <<>> \in Seq(Byte) /\ Len(<<>>) = 0
    BY SMTT(30)
  <2>2. DataLen(f) = 1 + 0 + Len(f.payload)
    BY <1>1, <1>4, SMTT(30) DEF DataLen
  <2> QED  BY <1>1, <1>2, <1>3, <1>4, <2>1, <2>2 DEF SeqPart
<1>5. CASE f.mode # "compact"
  <2>1. DataLen(f) = 1 + 1 + Len(f.payload)
    BY <1>1, <1>5, SMTT(30) DEF DataLen
  <2> QED  BY <1>1, <1>2, <1>3, <1>5, <2>1, Single DEF SeqPart
<1> QED  BY <1>4, <1>5

\* Where the parts of a frame are in its data: the TTL, the sequence number if
\* there is one, then the payload.
LEMMA DataParts ==
  ASSUME NEW f, Sendable(f)
  PROVE  /\ Data(f) \in Seq(Byte) /\ Len(Data(f)) = DataLen(f)
         /\ Data(f)[1] = f.ttl
         /\ f.mode = "sequenced" => Data(f)[2] = f.seq
         /\ \A i \in 1..Len(f.payload) : Data(f)[1 + Len(SeqPart(f)) + i] = f.payload[i]
<1> DEFINE t == <<f.ttl>>
           q == SeqPart(f)
           p == f.payload
<1>1. /\ t \in Seq(Byte) /\ q \in Seq(Byte) /\ p \in Seq(Byte)
      /\ Len(t) = 1 /\ t[1] = f.ttl /\ Len(q) \in Nat /\ Len(p) \in Nat
      /\ DataLen(f) = 1 + Len(q) + Len(p)
  BY FrameParts, Single, SeqIs
<1>2. f.mode = "sequenced" => Len(q) = 1 /\ q[1] = f.seq
  BY FrameParts, Single, SMTT(30) DEF SeqPart
<1> HIDE DEF t, q, p
<1> DEFINE a == t \o q
<1>3. /\ a \in Seq(Byte) /\ Len(a) = 1 + Len(q) /\ a[1] = f.ttl
      /\ f.mode = "sequenced" => a[2] = f.seq
  <2>1. /\ a \in Seq(Byte) /\ Len(a) = Len(t) + Len(q)
        /\ \A i \in 1..Len(t) : a[i] = t[i]
        /\ \A i \in 1..Len(q) : a[Len(t) + i] = q[i]
    <3>1. t \in Seq(Byte) /\ q \in Seq(Byte)
      BY <1>1
    <3> QED  BY <3>1, Joined, SMTT(30)
  <2>2. 1 \in 1..1 /\ 1 + 1 = 2
    BY SMTT(30)
  <2> QED  BY <1>1, <1>2, <2>1, <2>2
<1> HIDE DEF a
<1>4. /\ a \o p \in Seq(Byte) /\ Len(a \o p) = Len(a) + Len(p)
      /\ \A i \in 1..Len(a) : (a \o p)[i] = a[i]
      /\ \A i \in 1..Len(p) : (a \o p)[Len(a) + i] = p[i]
  <2>1. a \in Seq(Byte) /\ p \in Seq(Byte)
    BY <1>1, <1>3
  <2> QED  BY <2>1, Joined, SMTT(30)
<1>5. 1 \in 1..Len(a) /\ (f.mode = "sequenced" => 2 \in 1..Len(a))
  BY <1>1, <1>2, <1>3, SMTT(30)
<1>6. Data(f) = a \o p
  BY DEF Data, a, t, q, p
<1>7. Len(a \o p) = DataLen(f)
  BY <1>1, <1>3, <1>4
<1> QED  BY <1>3, <1>4, <1>5, <1>6, <1>7 DEF q, p

\* Where the parts of a frame are.
LEMMA EncodedParts ==
  ASSUME ChecksumType, NEW f, Sendable(f)
  PROVE  LET e == EncodeFrame(f)
             n == DataLen(f)
             c == LittleEndian(Checksum(Body(f)))
         IN  /\ e \in Seq(Byte) /\ Len(e) = n + 8
             /\ Body(f) \in Seq(Byte) /\ Len(Body(f)) = n + 2
             /\ c \in Seq(Byte) /\ Len(c) = 2
             /\ \A i \in 1..4 : e[i] = StartMarker[i]
             /\ \A i \in 1..(n + 2) : e[4 + i] = Body(f)[i]
             /\ \A i \in 1..2 : e[6 + n + i] = c[i]
             /\ Body(f)[1] + Base * Body(f)[2] = n
             /\ \A i \in 1..n : Body(f)[2 + i] = Data(f)[i]
<1> DEFINE l == LittleEndian(DataLen(f))
           d == Data(f)
           n == DataLen(f)
           b == l \o d
           c == LittleEndian(Checksum(b))
           e == (StartMarker \o b) \o c
<1>1. n \in 2..MaxDataLen /\ n \in 0..MaxDataLen /\ n \in Nat
  <2>1. ASSUME NEW m \in Nat, NEW k \in 2..m PROVE k \in 0..m /\ k \in Nat
    BY SMTT(30)
  <2> QED  BY <2>1, FrameParts, BaseNumbers
<1>2. l \in Seq(Byte) /\ Len(l) = 2 /\ l[1] + Base * l[2] = n
  BY <1>1, TwoBytes
<1>3. d \in Seq(Byte) /\ Len(d) = n
  BY DataParts
<1>4. /\ b \in Seq(Byte) /\ Len(b) = Len(l) + Len(d)
      /\ \A i \in 1..Len(l) : b[i] = l[i]
      /\ \A i \in 1..Len(d) : b[Len(l) + i] = d[i]
  <2> HIDE DEF l, d
  <2>1. l \in Seq(Byte) /\ d \in Seq(Byte)
    BY <1>2, <1>3
  <2> QED  BY <2>1, Joined, SMTT(30)
<1>5. Len(b) = n + 2 /\ Len(b) = 2 + n
  BY <1>1, <1>2, <1>3, <1>4, SMTT(30)
<1>6. c \in Seq(Byte) /\ Len(c) = 2
  <2>1. Checksum(b) \in 0..MaxDataLen
    BY <1>4 DEF ChecksumType
  <2> QED  BY <2>1, TwoBytes
<1>7. Body(f) = b /\ Body(f) \in Seq(Byte)
  BY <1>4 DEF Body
<1>8. EncodeFrame(f) = e
  <2>1. ASSUME NEW q \in Seq(Byte), NEW p \in Seq(Byte), NEW t \in Seq(Byte)
        PROVE  ((l \o t) \o q) \o p = l \o ((t \o q) \o p)
    <3> HIDE DEF l
    <3>0. l \in Seq(Byte)
      BY <1>2
    <3>1. (l \o t) \o q = l \o (t \o q)
      BY <3>0, Associative, SMTT(30)
    <3>2. t \o q \in Seq(Byte)
      BY Joined
    <3>3. (l \o (t \o q)) \o p = l \o ((t \o q) \o p)
      BY <3>0, <3>2, Associative, SMTT(30)
    <3> QED  BY <3>1, <3>3
  <2>2. /\ SeqPart(f) \in Seq(Byte) /\ f.payload \in Seq(Byte) /\ <<f.ttl>> \in Seq(Byte)
    BY FrameParts, Single
  <2>3. ((l \o <<f.ttl>>) \o SeqPart(f)) \o f.payload = b
    BY <2>1, <2>2 DEF Data
  <2> QED  BY <2>3 DEF EncodeFrame, SeqPart
<1> HIDE DEF l, d, b, c
<1> DEFINE m == StartMarker \o b
<1>9. /\ m \in Seq(Byte) /\ Len(m) = Len(StartMarker) + Len(b)
      /\ \A i \in 1..Len(StartMarker) : m[i] = StartMarker[i]
      /\ \A i \in 1..Len(b) : m[Len(StartMarker) + i] = b[i]
  <2>1. b \in Seq(Byte) /\ StartMarker \in Seq(Byte)
    BY <1>4, Marker
  <2> QED  BY <2>1, Joined, SMTT(30)
<1>10. Len(m) = n + 6 /\ Len(m) = 6 + n
  BY <1>1, <1>5, <1>9, Marker, SMTT(30)
<1> HIDE DEF m
<1>11. /\ m \o c \in Seq(Byte) /\ Len(m \o c) = Len(m) + Len(c)
       /\ \A i \in 1..Len(m) : (m \o c)[i] = m[i]
       /\ \A i \in 1..Len(c) : (m \o c)[Len(m) + i] = c[i]
  <2>1. m \in Seq(Byte) /\ c \in Seq(Byte)
    BY <1>6, <1>9
  <2> QED  BY <2>1, Joined, SMTT(30)
<1>12. e = m \o c
  BY DEF m
<1> HIDE DEF e
<1>13. e \in Seq(Byte) /\ Len(e) = n + 8
  <2>1. (n + 6) + 2 = n + 8
    BY <1>1, SMTT(30)
  <2> QED  BY <1>6, <1>10, <1>11, <1>12, <2>1
<1>14. \A i \in 1..4 : e[i] = StartMarker[i]
  <2>1. \A i \in 1..4 : i \in 1..(n + 6)
    BY <1>1, SMTT(30)
  <2> QED  BY <1>9, <1>10, <1>11, <1>12, <2>1, Marker
<1>15. \A i \in 1..(n + 2) : e[4 + i] = b[i]
  <2>1. \A i \in 1..(n + 2) : 4 + i \in 1..(n + 6)
    BY <1>1, SMTT(30)
  <2> QED  BY <1>5, <1>9, <1>10, <1>11, <1>12, <2>1, Marker
<1>16. \A i \in 1..2 : e[6 + n + i] = c[i]
  BY <1>6, <1>10, <1>11, <1>12
<1>17. b[1] + Base * b[2] = n /\ \A i \in 1..n : b[2 + i] = d[i]
  <2>1. 1 \in 1..2 /\ 2 \in 1..2
    BY SMTT(30)
  <2> QED  BY <1>2, <1>3, <1>4, <2>1
<1>18. c = LittleEndian(Checksum(Body(f)))
  BY <1>7 DEF c
<1> QED  BY <1>5, <1>6, <1>7, <1>8, <1>13, <1>14, <1>15, <1>16, <1>17, <1>18 DEF d

\* The data of a frame, read in its own mode.
LEMMA ReadInMode ==
  ASSUME NEW f, Sendable(f)
  PROVE  /\ f.mode = "compact" => Compact(Data(f)) = f
         /\ f.mode = "sequenced" => Sequenced(Data(f)) = f
         /\ ReadData(Data(f), f.mode) = f
<1> DEFINE d == Data(f)
           p == f.payload
<1>1. /\ p \in Seq(Byte) /\ d \in Seq(Byte) /\ Len(d) = DataLen(f) /\ d[1] = f.ttl
      /\ f.mode \in {"compact", "sequenced"}
      /\ f.mode = "compact" => f.seq = 0
      /\ f.mode = "sequenced" => d[2] = f.seq
      /\ \A i \in 1..Len(p) : d[1 + Len(SeqPart(f)) + i] = p[i]
      /\ f = [mode |-> f.mode, ttl |-> f.ttl, seq |-> f.seq, payload |-> f.payload]
      /\ Len(p) \in Nat \ {0}
  BY FrameParts, DataParts DEF Sendable
<1> HIDE DEF d, p
<1>2. CASE f.mode = "compact"
  <2>1. Len(SeqPart(f)) = 0 /\ Len(d) = Len(p) + 1
    BY <1>1, <1>2, SMTT(30) DEF SeqPart, DataLen, p
  <2>2. \A i \in 1..Len(p) : d[1 + i] = p[i]
    <3>1. 1 + 0 = 1
      BY SMTT(30)
    <3> QED  BY <1>1, <2>1, <3>1
  <2>3. 1 + Len(p) = Len(d) /\ 1 + Len(p) <= Len(d) /\ ~(Len(d) < 2)
    BY <1>1, <2>1, SMTT(30)
  <2>4. SubSeq(d, 1 + 1, 1 + Len(p)) = p
    BY <1>1, <2>2, <2>3, SliceFound
  <2>5. SubSeq(d, 2, Len(d)) = p
    <3>1. 1 + 1 = 2
      BY SMTT(30)
    <3> QED  BY <2>3, <2>4, <3>1
  <2>6. Compact(d) = f
    BY <1>1, <1>2, <2>5 DEF Compact, p
  <2>7. ReadData(d, "compact") = Compact(d)
    BY <2>3, SMTT(30) DEF ReadData
  <2> QED  BY <1>2, <2>6, <2>7, SMTT(30) DEF d
<1>3. CASE f.mode = "sequenced"
  <2>1. Len(SeqPart(f)) = 1 /\ Len(d) = Len(p) + 2
    BY <1>1, <1>3, SMTT(30) DEF SeqPart, DataLen, p
  <2>2. \A i \in 1..Len(p) : d[2 + i] = p[i]
    <3>1. 1 + 1 = 2
      BY SMTT(30)
    <3> QED  BY <1>1, <2>1, <3>1
  <2>3. 2 + Len(p) = Len(d) /\ 2 + Len(p) <= Len(d) /\ ~(Len(d) < 3)
    BY <1>1, <2>1, SMTT(30)
  <2>4. SubSeq(d, 2 + 1, 2 + Len(p)) = p
    BY <1>1, <2>2, <2>3, SliceFound
  <2>5. SubSeq(d, 3, Len(d)) = p
    <3>1. 2 + 1 = 3
      BY SMTT(30)
    <3> QED  BY <2>3, <2>4, <3>1
  <2>6. Sequenced(d) = f
    BY <1>1, <1>3, <2>5 DEF Sequenced, p
  <2>7. ReadData(d, "sequenced") = Sequenced(d)
    BY <2>3, SMTT(30) DEF ReadData
  <2> QED  BY <1>3, <2>6, <2>7, SMTT(30) DEF d
<1> QED  BY <1>1, <1>2, <1>3

\* A registration is found out in either mode: in the compact form of a sequenced
\* one the number of the command stands where the IMEI begins.
LEMMA ReadAutomatically ==
  ASSUME NEW f, Sendable(f), IsRegistration(f.payload)
  PROVE  ReadData(Data(f), "auto") = f
<1> DEFINE d == Data(f)
           p == f.payload
<1>1. /\ d \in Seq(Byte) /\ Len(d) = DataLen(f) /\ p \in Seq(Byte)
      /\ f.mode \in {"compact", "sequenced"}
      /\ \A i \in 1..Len(p) : d[1 + Len(SeqPart(f)) + i] = p[i]
      /\ DataLen(f) = 1 + Len(SeqPart(f)) + Len(p)
      /\ Len(SeqPart(f)) \in Nat /\ Len(p) \in Nat /\ Len(d) \in Nat
  BY FrameParts, DataParts, SeqIs
<1>2. /\ Len(p) >= ImeiLen + 3 /\ p[1] = 1 /\ ImeiLen \in Nat \ {0}
  BY CodecAssumption DEF IsRegistration
<1>3. Len(d) \in Nat /\ Len(d) > 2
  <2>1. ASSUME NEW k \in Nat, NEW i \in Nat \ {0}, NEW l \in Nat, l >= i + 3
        PROVE  1 + k + l > 2
    BY <2>1, SMTT(30)
  <2> QED  BY <1>1, <1>2, <2>1
<1>4. ReadData(d, "auto") = ReadAuto(d)
  BY SMTT(30) DEF ReadData
<1>5. ReadAuto(d) = LET c == Compact(d)
                        s == Sequenced(d)
                    IN  IF IsRegistration(c.payload) THEN c
                        ELSE IF \/ IsRegistration(s.payload)
                                \/ /\ isKnownCommandID(s.payload[1])
                                   /\ ~isKnownCommandID(c.payload[1])
                        THEN s ELSE c
  <2> HIDE DEF d
  <2>1. ASSUME NEW n \in Nat, n > 2 PROVE ~(n < 2) /\ n # 2
    BY ONLY <2>1, SMTT(30)
  <2>2. ~(Len(d) < 2) /\ Len(d) # 2
    BY ONLY <1>3, <2>1, ZenonT(30)
  <2> QED  BY <2>2 DEF ReadAuto
<1>6. CASE f.mode = "compact"
  <2>1. Compact(d) = f
    BY <1>6, ReadInMode
  <2> QED  BY <1>4, <1>5, <2>1
<1>7. CASE f.mode = "sequenced"
  <2>1. Sequenced(d) = f
    BY <1>7, ReadInMode
  <2>2. ~IsRegistration(Compact(d).payload)
    <3>1. Compact(d).payload = SubSeq(d, 2, Len(d))
      BY SMTT(30) DEF Compact
    <3>2. SubSeq(d, 2, Len(d))[2] = d[3]
      <4> HIDE DEF d
      <4>1. /\ 1 \in Nat /\ Len(d) \in Nat /\ 1 <= Len(d) /\ Len(d) <= Len(d)
            /\ 2 \in 1..(Len(d) - 1) /\ 1 + 1 = 2 /\ 1 + 2 = 3
        BY <1>3, SMTT(30)
      <4>2. \A i \in 1..(Len(d) - 1) : SubSeq(d, 1 + 1, Len(d))[i] = d[1 + i]
        <5>1. d \in Seq(Byte)
          BY <1>1
        <5> QED  BY <4>1, <5>1, Slice, SMTT(30)
      <4> QED  BY <4>1, <4>2
    <3>3. d[3] = 1
      <4>1. Len(SeqPart(f)) = 1
        BY <1>7, SMTT(30) DEF SeqPart
      <4>2. 1 \in 1..Len(p) /\ 1 + 1 + 1 = 3
        BY <1>1, <1>2, SeqIs, SMTT(30)
      <4> QED  BY <1>1, <1>2, <4>1, <4>2
    <3>4. ASSUME NEW r, IsRegistration(r) PROVE r[2] # 1
      <4>1. PICK n \in 1..ImeiLen : \A i \in 1..n : r[i + 1] \in Digits
        BY <3>4 DEF IsRegistration
      <4>2. 1 \in 1..n /\ 1 + 1 = 2
        BY <1>2, SMTT(30)
      <4>3. r[2] \in Digits
        BY <4>1, <4>2
      <4> QED  BY <4>3, SMTT(30) DEF Digits
    <3> QED  BY <3>1, <3>2, <3>3, <3>4
  <2> QED  BY <1>4, <1>5, <2>1, <2>2
<1> QED  BY <1>1, <1>6, <1>7

\* A frame at the beginning of the wire is read back, and ends where it ended.
LEMMA ReadFirst ==
  ASSUME ChecksumType, wire \in Seq(Byte), NEW f, Sendable(f),
         Len(EncodeFrame(f)) <= Len(wire),
         \A i \in 1..Len(EncodeFrame(f)) : wire[i] = EncodeFrame(f)[i]
  PROVE  /\ CanRead /\ ~BadHeader /\ FrameEnd = Len(EncodeFrame(f))
         /\ \A m : ReadFrameWithMode(m) = ReadData(Data(f), m)
<1> DEFINE e == EncodeFrame(f)
           n == DataLen(f)
           b == Body(f)
           c == LittleEndian(Checksum(Body(f)))
           d == Data(f)
<1>1. /\ e \in Seq(Byte) /\ Len(e) = n + 8
      /\ b \in Seq(Byte) /\ Len(b) = n + 2
      /\ c \in Seq(Byte) /\ Len(c) = 2
      /\ \A i \in 1..4 : e[i] = StartMarker[i]
      /\ \A i \in 1..(n + 2) : e[4 + i] = b[i]
      /\ \A i \in 1..2 : e[6 + n + i] = c[i]
      /\ b[1] + Base * b[2] = n
      /\ \A i \in 1..n : b[2 + i] = d[i]
  BY EncodedParts
<1>2. d \in Seq(Byte) /\ Len(d) = n
  BY DataParts
<1>3. n \in Nat /\ n >= 2
  <2>1. ASSUME NEW m \in Nat, NEW k \in 2..m PROVE k \in Nat /\ k >= 2
    BY SMTT(30)
  <2> QED  BY <2>1, FrameParts, BaseNumbers
<1>4. Len(e) <= Len(wire) /\ \A i \in 1..Len(e) : wire[i] = e[i]
  OBVIOUS
<1> HIDE DEF e, n, b, c, d
<1>5. Len(wire) \in Nat
  BY SeqIs
<1>6. /\ \A i \in 1..4 : wire[0 + i] = StartMarker[i]
      /\ \A i \in 1..(n + 2) : wire[4 + i] = b[i]
      /\ \A i \in 1..n : wire[6 + i] = d[i]
      /\ \A i \in 1..2 : wire[6 + n + i] = c[i]
  <2>1. /\ \A i \in 1..4 : 0 + i = i /\ i \in 1..(n + 8)
        /\ \A i \in 1..(n + 2) : 4 + i \in 1..(n + 8)
        /\ \A i \in 1..n : 2 + i \in 1..(n + 2) /\ 4 + (2 + i) = 6 + i
        /\ \A i \in 1..2 : 6 + n + i \in 1..(n + 8)
    BY <1>3, SMTT(30)
  <2>2. \A i \in 1..4 : wire[0 + i] = StartMarker[i]
    BY <1>1, <1>4, <2>1
  <2>3. \A i \in 1..(n + 2) : wire[4 + i] = b[i]
    BY <1>1, <1>4, <2>1
  <2>4. ASSUME NEW i \in 1..n PROVE wire[6 + i] = d[i]
    <3>1. wire[4 + (2 + i)] = b[2 + i]
      BY <2>1, <2>3
    <3> QED  BY <1>1, <2>1, <3>1
  <2>5. \A i \in 1..2 : wire[6 + n + i] = c[i]
    BY <1>1, <1>4, <2>1
  <2> QED  BY <2>2, <2>3, <2>4, <2>5
<1>7. /\ 0 \in Nat /\ 4 \in Nat /\ 6 \in Nat /\ 6 + n \in Nat
      /\ 0 + 4 <= Len(wire) /\ 4 + (n + 2) <= Len(wire) /\ 6 + n <= Len(wire)
      /\ 6 + n + 2 <= Len(wire)
  BY <1>1, <1>3, <1>4, <1>5, SMTT(30)
<1>8. WireLen = n
  <2>1. 1 \in 1..(n + 2) /\ 2 \in 1..(n + 2) /\ 4 + 1 = 5 /\ 4 + 2 = 6
    BY <1>3, SMTT(30)
  <2>2. wire[5] = b[1] /\ wire[6] = b[2]
    BY <1>6, <2>1
  <2> QED  BY <1>1, <2>2 DEF WireLen
<1>9. FrameEnd = n + 8 /\ FrameEnd = Len(e)
  BY <1>1, <1>3, <1>8, SMTT(30) DEF FrameEnd
<1>10. SubSeq(wire, 0 + 1, 0 + 4) = StartMarker
  BY <1>6, <1>7, Marker, SliceFound, SMTT(30)
<1>11. SubSeq(wire, 4 + 1, 4 + (n + 2)) = b
  <2>1. 4 + Len(b) <= Len(wire) /\ \A i \in 1..Len(b) : wire[4 + i] = b[i]
    BY <1>1, <1>6, <1>7
  <2>2. SubSeq(wire, 4 + 1, 4 + Len(b)) = b
    BY <1>1, <1>7, <2>1, SliceFound
  <2> QED  BY <1>1, <2>2
<1>12. SubSeq(wire, 6 + 1, 6 + n) = d
  BY <1>2, <1>6, <1>7, SliceFound
<1>13. SubSeq(wire, 6 + n + 1, 6 + n + 2) = c
  <2> DEFINE a == 6 + n
  <2>1. a + Len(c) <= Len(wire) /\ a \in Nat /\ \A i \in 1..Len(c) : wire[a + i] = c[i]
    BY <1>1, <1>6, <1>7
  <2> HIDE DEF a
  <2>2. SubSeq(wire, a + 1, a + Len(c)) = c
    BY <1>1, <2>1, SliceFound
  <2> QED  BY <1>1, <2>2 DEF a
<1>14. /\ 0 + 1 = 1 /\ 0 + 4 = 4 /\ 4 + 1 = 5 /\ 4 + (n + 2) = FrameEnd - 2
       /\ 6 + 1 = 7 /\ 6 + n = FrameEnd - 2 /\ 6 + n + 1 = FrameEnd - 1
       /\ 6 + n + 2 = FrameEnd
  BY <1>3, <1>9, SMTT(30)
<1>15. ~BadHeader
  <2>1. ~(WireLen < 1)
    BY <1>3, <1>8, SMTT(30)
  <2> QED  BY <1>10, <1>14, <2>1 DEF BadHeader
<1>16. CanRead
  <2>1. Len(wire) >= 6 /\ Len(wire) >= FrameEnd
    BY <1>3, <1>5, <1>7, <1>9, SMTT(30)
  <2> QED  BY <2>1 DEF CanRead
<1>17. ASSUME NEW m PROVE ReadFrameWithMode(m) = ReadData(d, m)
  <2>1. CrcMatches(SubSeq(wire, 5, FrameEnd - 2), SubSeq(wire, FrameEnd - 1, FrameEnd))
    BY <1>11, <1>13, <1>14 DEF CrcMatches, c, b
  <2>2. SubSeq(wire, 7, FrameEnd - 2) = d
    BY <1>12, <1>14
  <2> QED  BY <1>15, <2>1, <2>2 DEF ReadFrameWithMode
<1> QED  BY <1>9, <1>15, <1>16, <1>17 DEF e, d

\* A frame at the beginning of the wire one byte of which was changed, not of its
\* length, is refused: its marker, its checksum or what that is of is wrong.
LEMMA ReadGarbled ==
  ASSUME ChecksumType, ChecksumSound, wire \in Seq(Byte), NEW f, Sendable(f),
         NEW d, NEW x, ButOne(EncodeFrame(f), d, x), x \notin LengthBytes,
         EncodeFrame(f)[x] # d[x], Len(d) <= Len(wire),
         \A i \in 1..Len(d) : wire[i] = d[i]
  PROVE  \A m : ReadFrameWithMode(m) = NoFrame
<1> DEFINE e == EncodeFrame(f)
           n == DataLen(f)
           b == Body(f)
           c == LittleEndian(Checksum(Body(f)))
<1>1. /\ e \in Seq(Byte) /\ Len(e) = n + 8
      /\ b \in Seq(Byte) /\ Len(b) = n + 2
      /\ c \in Seq(Byte) /\ Len(c) = 2
      /\ \A i \in 1..4 : e[i] = StartMarker[i]
      /\ \A i \in 1..(n + 2) : e[4 + i] = b[i]
      /\ \A i \in 1..2 : e[6 + n + i] = c[i]
      /\ b[1] + Base * b[2] = n
  BY EncodedParts
<1>2. n \in Nat /\ n >= 2
  <2>1. ASSUME NEW m \in Nat, NEW k \in 2..m PROVE k \in Nat /\ k >= 2
    BY SMTT(30)
  <2> QED  BY <2>1, FrameParts, BaseNumbers
<1>3. /\ Len(d) = n + 8 /\ x \in 1..(n + 8) /\ x # 5 /\ x # 6
      /\ wire[x] # e[x] /\ n + 8 <= Len(wire)
      /\ \A i \in 1..(n + 8) : i # x => wire[i] = e[i]
  <2>1. /\ Len(d) = Len(e) /\ x \in 1..Len(e)
        /\ \A i \in 1..Len(e) : i # x => e[i] = d[i]
    BY DEF ButOne
  <2>2. Len(e) = n + 8 /\ x # 5 /\ x # 6
    BY <1>1 DEF LengthBytes
  <2> QED  BY <2>1, <2>2
<1>4. c = LittleEndian(Checksum(b))
  OBVIOUS
<1> HIDE DEF e, n, b, c
<1>5. Len(wire) \in Nat
  BY SeqIs
<1>6. WireLen = n
  <2>1. /\ 5 \in 1..(n + 8) /\ 6 \in 1..(n + 8) /\ 1 \in 1..(n + 2)
        /\ 2 \in 1..(n + 2) /\ 4 + 1 = 5 /\ 4 + 2 = 6
    BY <1>2, SMTT(30)
  <2>2. wire[5] = e[4 + 1] /\ wire[6] = e[4 + 2]
    BY <1>3, <2>1
  <2>3. e[4 + 1] = b[1] /\ e[4 + 2] = b[2]
    BY <1>1, <2>1
  <2> QED  BY <1>1, <2>2, <2>3 DEF WireLen
<1>7. FrameEnd = n + 8 /\ FrameEnd - 2 = 4 + (n + 2) /\ FrameEnd - 1 = (6 + n) + 1
      /\ FrameEnd = (6 + n) + 2 /\ 5 = 4 + 1
  BY <1>2, <1>6, SMTT(30) DEF FrameEnd
<1> DEFINE u == SubSeq(wire, 5, FrameEnd - 2)
           v == SubSeq(wire, FrameEnd - 1, FrameEnd)
<1>8. /\ u \in Seq(Byte) /\ Len(u) = n + 2
      /\ \A i \in 1..(n + 2) : u[i] = wire[4 + i]
  <2>1. 4 \in Nat /\ n + 2 \in Nat /\ 4 + (n + 2) <= Len(wire)
    BY <1>2, <1>3, <1>5, SMTT(30)
  <2>2. u = SubSeq(wire, 4 + 1, 4 + (n + 2))
    BY <1>7
  <2> HIDE DEF u, v
  <2>3. ASSUME NEW k \in Nat, NEW m \in Nat, k + m <= Len(wire),
               u = SubSeq(wire, k + 1, k + m)
        PROVE  u \in Seq(Byte) /\ Len(u) = m /\ \A i \in 1..m : u[i] = wire[k + i]
    BY ONLY wire \in Seq(Byte), <2>3, SMTT(30)
  <2> QED  BY ONLY <2>1, <2>2, <2>3, ZenonT(30)
<1>9. /\ v \in Seq(Byte) /\ Len(v) = 2
      /\ \A i \in 1..2 : v[i] = wire[(6 + n) + i]
  <2>1. 6 + n \in Nat /\ 2 \in Nat /\ (6 + n) + 2 <= Len(wire)
    BY <1>2, <1>3, <1>5, SMTT(30)
  <2>2. v = SubSeq(wire, (6 + n) + 1, (6 + n) + 2)
    BY <1>7
  <2> HIDE DEF u, v
  <2>3. ASSUME NEW k \in Nat, NEW m \in Nat, k + m <= Len(wire),
               v = SubSeq(wire, k + 1, k + m)
        PROVE  v \in Seq(Byte) /\ Len(v) = m /\ \A i \in 1..m : v[i] = wire[k + i]
    BY ONLY wire \in Seq(Byte), <2>3, SMTT(30)
  <2> QED  BY ONLY <2>1, <2>2, <2>3, ZenonT(30)
<1> HIDE DEF u, v
<1>10. CASE x \in 1..4
  <2>1. SubSeq(wire, 1, 4)[x] = wire[x]
    <3>1. /\ 0 \in Nat /\ 4 \in Nat /\ 0 + 4 <= Len(wire) /\ 0 + 1 = 1 /\ 0 + 4 = 4
          /\ 0 + x = x
      BY <1>2, <1>3, <1>5, <1>10, SMTT(30)
    <3>2. \A i \in 1..4 : SubSeq(wire, 0 + 1, 0 + 4)[i] = wire[0 + i]
      BY ONLY wire \in Seq(Byte), <3>1, Taken, SMTT(30)
    <3> QED  BY <1>10, <3>1, <3>2
  <2>2. BadHeader
    BY <1>1, <1>3, <1>10, <2>1 DEF BadHeader
  <2> QED  BY <2>2 DEF ReadFrameWithMode
<1>11. CASE x \in 7..(n + 6)
  <2> DEFINE y == x - 4
  <2>1. y \in 1..(n + 2) /\ 4 + y = x /\ y \in Nat
    BY <1>2, <1>11, SMTT(30)
  <2> HIDE DEF y
  <2>2. u[y] # b[y]
    BY <1>1, <1>3, <1>8, <2>1
  <2>3. ASSUME NEW j \in 1..(n + 2), j # y PROVE u[j] = b[j]
    <3>1. 4 + j \in 1..(n + 8) /\ 4 + j # x
      BY <1>2, <2>1, <2>3, SMTT(30)
    <3>2. u[j] = wire[4 + j] /\ e[4 + j] = b[j]
      BY <1>1, <1>8, <2>3
    <3>3. wire[4 + j] = e[4 + j]
      BY <1>3, <3>1
    <3> QED  BY <3>2, <3>3
  <2>4. ButOne(u, b, y)
    BY <1>1, <1>8, <2>1, <2>3 DEF ButOne
  <2>5. Checksum(u) # Checksum(b)
    BY <1>1, <1>8, <2>1, <2>2, <2>4 DEF ChecksumSound
  <2>6. v = c
    <3>1. \A i \in 1..2 : (6 + n) + i \in 1..(n + 8) /\ (6 + n) + i # x
      BY <1>2, <1>11, SMTT(30)
    <3>2. ASSUME NEW i \in 1..2 PROVE v[i] = c[i]
      <4>1. v[i] = wire[(6 + n) + i] /\ wire[(6 + n) + i] = e[(6 + n) + i]
        BY <1>3, <1>9, <3>1
      <4> QED  BY <1>1, <4>1
    <3>3. Len(v) = Len(c) /\ \A i \in 1..Len(v) : v[i] = c[i]
      BY <1>1, <1>9, <3>2
    <3> QED  BY ONLY <1>1, <1>9, <3>3, SameSeq, ZenonT(30)
  <2>7. ~CrcMatches(u, v)
    <3>1. Checksum(u) \in 0..MaxDataLen /\ Checksum(b) \in 0..MaxDataLen
      BY <1>1, <1>8 DEF ChecksumType
    <3>2. \A k, l \in 0..MaxDataLen : LittleEndian(k) = LittleEndian(l) => k = l
      BY TwoBytes
    <3> QED  BY <1>4, <2>5, <2>6, <3>1, <3>2 DEF CrcMatches
  <2> QED  BY <2>7 DEF ReadFrameWithMode, u, v
<1>12. CASE x \in (n + 7)..(n + 8)
  <2>1. u = b
    <3>1. \A i \in 1..(n + 2) : 4 + i \in 1..(n + 8) /\ 4 + i # x
      BY <1>2, <1>12, SMTT(30)
    <3>2. ASSUME NEW i \in 1..(n + 2) PROVE u[i] = b[i]
      <4>1. u[i] = wire[4 + i] /\ wire[4 + i] = e[4 + i]
        BY <1>3, <1>8, <3>1
      <4> QED  BY <1>1, <4>1
    <3>3. Len(u) = Len(b) /\ \A i \in 1..Len(u) : u[i] = b[i]
      BY <1>1, <1>8, <3>2
    <3> QED  BY ONLY <1>1, <1>8, <3>3, SameSeq, ZenonT(30)
  <2> DEFINE y == x - (6 + n)
  <2>2. y \in 1..2 /\ (6 + n) + y = x
    BY <1>2, <1>12, SMTT(30)
  <2> HIDE DEF y
  <2>3. v[y] # c[y]
    BY <1>1, <1>3, <1>9, <2>2
  <2>4. ~CrcMatches(u, v)
    BY <1>4, <2>1, <2>3 DEF CrcMatches
  <2> QED  BY <2>4 DEF ReadFrameWithMode, u, v
<1>13. x \in 1..4 \/ x \in 7..(n + 6) \/ x \in (n + 7)..(n + 8)
  BY <1>2, <1>3, SMTT(30)
<1> QED  BY <1>10, <1>11, <1>12, <1>13

\* Bytes found at a place of the wire stay there when more is sent, and move up
\* when those before them are read.
FoundAt(w, o, s) ==
  o + Len(s) <= Len(w) /\ \A i \in 1..Len(s) : w[o + i] = s[i]

\* Bytes that are found stay where they are when more are written.
LEMMA FoundJoined ==
  ASSUME NEW S, NEW w \in Seq(S), NEW e \in Seq(S)
  PROVE  /\ FoundAt(w \o e, Len(w), e)
         /\ \A o \in Nat : \A s \in Seq(S) : FoundAt(w, o, s) => FoundAt(w \o e, o, s)
<1>1. /\ w \o e \in Seq(S) /\ Len(w \o e) = Len(w) + Len(e)
      /\ \A i \in 1..Len(w) : (w \o e)[i] = w[i]
      /\ \A i \in 1..Len(e) : (w \o e)[Len(w) + i] = e[i]
  BY Joined, SMTT(30)
<1>2. Len(w) \in Nat /\ Len(e) \in Nat
  BY SeqIs
<1>3. FoundAt(w \o e, Len(w), e)
  <2>1. Len(w) + Len(e) <= Len(w) + Len(e)
    BY <1>2, SMTT(30)
  <2> QED  BY <1>1, <2>1 DEF FoundAt
<1>4. ASSUME NEW o \in Nat, NEW s \in Seq(S), FoundAt(w, o, s)
      PROVE  FoundAt(w \o e, o, s)
  <2>1. Len(s) \in Nat /\ o + Len(s) <= Len(w) /\ \A i \in 1..Len(s) : w[o + i] = s[i]
    BY <1>4, SeqIs DEF FoundAt
  <2>2. o + Len(s) <= Len(w) + Len(e) /\ \A i \in 1..Len(s) : o + i \in 1..Len(w)
    BY <1>2, <2>1, SMTT(30)
  <2> QED  BY <1>1, <2>1, <2>2 DEF FoundAt
<1> QED  BY <1>3, <1>4

\* When a frame is read, what follows it moves to the front.
LEMMA FoundMoved ==
  ASSUME NEW S, NEW w \in Seq(S), NEW c \in Nat, c <= Len(w)
  PROVE  LET v == SubSeq(w, c + 1, Len(w))
         IN  /\ v \in Seq(S) /\ Len(v) = Len(w) - c
             /\ \A o \in Nat : \A s \in Seq(S) :
                  c <= o /\ FoundAt(w, o, s) => FoundAt(v, o - c, s)
<1> DEFINE v == SubSeq(w, c + 1, Len(w))
<1>1. Len(w) \in Nat /\ Len(w) <= Len(w)
  BY SeqIs, SMTT(30)
<1>2. /\ v \in Seq(S) /\ Len(v) = Len(w) - c
      /\ \A i \in 1..(Len(w) - c) : v[i] = w[c + i]
  BY <1>1, Slice
<1> HIDE DEF v
<1>3. ASSUME NEW o \in Nat, NEW s \in Seq(S), c <= o, FoundAt(w, o, s)
      PROVE  FoundAt(v, o - c, s)
  <2>1. Len(s) \in Nat /\ o + Len(s) <= Len(w) /\ \A i \in 1..Len(s) : w[o + i] = s[i]
    BY <1>3, SeqIs DEF FoundAt
  <2>2. /\ (o - c) + Len(s) <= Len(w) - c
        /\ \A i \in 1..Len(s) : (o - c) + i \in 1..(Len(w) - c) /\ c + ((o - c) + i) = o + i
    BY <1>1, <1>3, <2>1, SMTT(30)
  <2>3. ASSUME NEW i \in 1..Len(s) PROVE v[(o - c) + i] = s[i]
    <3>1. v[(o - c) + i] = w[c + ((o - c) + i)]
      BY <1>2, <2>2
    <3> QED  BY <2>1, <2>2, <3>1
  <2> QED  BY <1>2, <2>2, <2>3 DEF FoundAt
<1> QED  BY <1>2, <1>3 DEF v

\* The runs of bytes from g + 1 on are on the wire, each beginning where the one
\* before ends.
Cuts(cut, g, es, w) ==
  /\ cut \in [g..Len(es) -> Nat] /\ cut[g] = 0 /\ cut[Len(es)] = Len(w)
  /\ \A j, k \in g..Len(es) : j <= k => cut[j] <= cut[k]
  /\ \A k \in (g + 1)..Len(es) :
       /\ cut[k] = cut[k - 1] + Len(es[k])
       /\ FoundAt(w, cut[k - 1], es[k])

\* Send adds a frame at the end of the stream, and its bytes with it.
LEMMA CutsGrow ==
  ASSUME NEW es \in Seq(Seq(Byte)), NEW w \in Seq(Byte), NEW g \in Nat,
         g <= Len(es), NEW cut, Cuts(cut, g, es, w), NEW e \in Seq(Byte)
  PROVE  \E c : Cuts(c, g, Append(es, e), w \o e)
<1> DEFINE n == Len(es)
           ds == Append(es, e)
           c == [k \in g..(n + 1) |-> IF k = n + 1 THEN Len(w) + Len(e) ELSE cut[k]]
<1>1. Len(e) \in Nat /\ Len(w) \in Nat /\ n \in Nat
  BY SeqIs
<1>3. Len(ds) = n + 1 /\ ds[n + 1] = e /\ \A k \in 1..n : ds[k] = es[k]
  <2> DEFINE S == Seq(Byte)
  <2>1. es \in Seq(S) /\ e \in S
    OBVIOUS
  <2> HIDE DEF S
  <2> QED  BY ONLY <2>1, Appended, SMTT(30) DEF n, ds
<1>4. Len(w \o e) = Len(w) + Len(e)
  BY <1>1, Joined
<1>5. /\ cut \in [g..n -> Nat] /\ cut[g] = 0 /\ cut[n] = Len(w)
      /\ \A j, k \in g..n : j <= k => cut[j] <= cut[k]
      /\ \A k \in (g + 1)..n : /\ cut[k] = cut[k - 1] + Len(es[k])
                               /\ FoundAt(w, cut[k - 1], es[k])
  BY DEF Cuts
<1> HIDE DEF n, ds
<1>6. /\ \A k \in g..n : c[k] = cut[k] /\ k \in g..(n + 1)
      /\ c[n + 1] = Len(w) + Len(e) /\ c \in [g..(n + 1) -> Nat]
      /\ g \in g..n /\ n \in g..n
  <2>1. g <= n
    BY DEF n
  <2> QED  BY <1>1, <1>5, <2>1, SMTT(30)
<1> HIDE DEF c
<1>7. ASSUME NEW j \in g..(n + 1), NEW k \in g..(n + 1), j <= k PROVE c[j] <= c[k]
  <2>1. \A i \in g..n : cut[i] \in Nat /\ cut[i] <= Len(w)
    <3>1. \A i \in g..n : i <= n
      BY <1>1, SMTT(30)
    <3> QED  BY <1>5, <1>6, <3>1
  <2>2. CASE k = n + 1
    <3>1. CASE j = n + 1
      BY <1>1, <1>6, <2>2, <3>1, SMTT(30)
    <3>2. CASE j # n + 1
      <4>1. j \in g..n
        BY <1>1, <3>2, SMTT(30)
      <4>2. c[j] \in Nat /\ c[j] <= Len(w)
        BY <1>6, <2>1, <4>1
      <4> QED  BY <1>1, <1>6, <2>2, <4>2, SMTT(30)
    <3> QED  BY <3>1, <3>2
  <2>3. CASE k # n + 1
    <3>1. j \in g..n /\ k \in g..n
      BY <1>1, <1>7, <2>3, SMTT(30)
    <3> QED  BY <1>5, <1>6, <1>7, <3>1
  <2> QED  BY <2>2, <2>3
<1>8. ASSUME NEW k \in (g + 1)..(n + 1)
      PROVE  /\ c[k] = c[k - 1] + Len(ds[k])
             /\ FoundAt(w \o e, c[k - 1], ds[k])
  <2>1. CASE k = n + 1
    <3>1. k - 1 = n
      BY <1>1, <2>1, SMTT(30)
    <3>2. c[k - 1] = Len(w) /\ c[k] = Len(w) + Len(e) /\ ds[k] = e
      BY <1>3, <1>5, <1>6, <2>1, <3>1
    <3>3. FoundAt(w \o e, Len(w), e)
      BY <1>1, FoundJoined
    <3> QED  BY <3>2, <3>3
  <2>2. CASE k # n + 1
    <3>1. k \in (g + 1)..n /\ k \in g..n /\ k - 1 \in g..n /\ k \in 1..n
      BY <1>1, <2>2, SMTT(30)
    <3>2. c[k] = cut[k] /\ c[k - 1] = cut[k - 1] /\ ds[k] = es[k] /\ cut[k - 1] \in Nat
      BY <1>3, <1>5, <1>6, <3>1
    <3>3. es[k] \in Seq(Byte)
      BY <3>1, SeqIs DEF n
    <3>4. FoundAt(w, cut[k - 1], es[k])
      BY <1>5, <3>1
    <3>5. FoundAt(w \o e, cut[k - 1], es[k])
      BY <1>1, <3>2, <3>3, <3>4, FoundJoined
    <3> QED  BY <1>5, <3>1, <3>2, <3>5
  <2> QED  BY <2>1, <2>2
<1>9. Cuts(c, g, ds, w \o e)
  BY <1>3, <1>4, <1>5, <1>6, <1>7, <1>8 DEF Cuts
<1> QED  BY <1>9 DEF ds

\* Read takes the first frame off the stream, and its bytes with it.
LEMMA CutsMove ==
  ASSUME NEW es \in Seq(Seq(Byte)), NEW w \in Seq(Byte), NEW g \in Nat,
         g < Len(es), NEW cut, Cuts(cut, g, es, w)
  PROVE  LET e == es[g + 1]
         IN  /\ FoundAt(w, 0, e)
             /\ \E c : Cuts(c, g + 1, es, SubSeq(w, Len(e) + 1, Len(w)))
             /\ SubSeq(w, Len(e) + 1, Len(w)) \in Seq(Byte)
<1> DEFINE n == Len(es)
           e == es[g + 1]
           v == SubSeq(w, Len(e) + 1, Len(w))
           c == [k \in (g + 1)..n |-> cut[k] - Len(e)]
<1>1. n \in Nat /\ Len(w) \in Nat
  BY SeqIs
<1>2. /\ g + 1 \in (g + 1)..n /\ g + 1 \in 1..n /\ (g + 1) - 1 = g /\ g + 1 \in Nat
      /\ g + 1 \in g..n /\ n \in (g + 1)..n /\ g \in g..n /\ n \in g..n
  BY <1>1, SMTT(30)
<1>3. e \in Seq(Byte) /\ Len(e) \in Nat
  <2>1. e \in Seq(Byte)
    BY <1>2, SeqIs
  <2> QED  BY <2>1, SeqIs
<1>4. /\ cut \in [g..n -> Nat] /\ cut[g] = 0 /\ cut[n] = Len(w)
      /\ \A j, k \in g..n : j <= k => cut[j] <= cut[k]
      /\ \A k \in (g + 1)..n : /\ cut[k] = cut[k - 1] + Len(es[k])
                               /\ FoundAt(w, cut[k - 1], es[k])
  BY DEF Cuts
<1>5. FoundAt(w, 0, e)
  BY <1>2, <1>4
<1>6. cut[g + 1] = Len(e)
  <2>1. cut[g + 1] = 0 + Len(e)
    BY <1>2, <1>4
  <2> QED  BY <1>3, <2>1, SMTT(30)
<1> HIDE DEF n, e
<1>7. \A k \in (g + 1)..n : k \in g..n /\ g + 1 <= k /\ k \in 1..n
  BY <1>1, SMTT(30)
<1>8. \A k \in (g + 1)..n : cut[k] \in Nat /\ Len(e) <= cut[k]
  BY <1>2, <1>4, <1>6, <1>7
<1>9. Len(e) <= Len(w)
  BY <1>2, <1>4, <1>8
<1>10. /\ v \in Seq(Byte) /\ Len(v) = Len(w) - Len(e)
       /\ \A o \in Nat : \A s \in Seq(Byte) :
            Len(e) <= o /\ FoundAt(w, o, s) => FoundAt(v, o - Len(e), s)
  BY <1>3, <1>9, FoundMoved
<1> HIDE DEF v
<1>11. /\ c \in [(g + 1)..n -> Nat]
       /\ \A k \in (g + 1)..n : c[k] = cut[k] - Len(e)
  BY <1>3, <1>8, SMTT(30)
<1> HIDE DEF c
<1>12. c[g + 1] = 0 /\ c[n] = Len(v)
  <2>1. Len(e) - Len(e) = 0
    BY <1>3, SMTT(30)
  <2> QED  BY <1>2, <1>4, <1>6, <1>10, <1>11, <2>1
<1>13. ASSUME NEW j \in (g + 1)..n, NEW k \in (g + 1)..n, j <= k PROVE c[j] <= c[k]
  <2>1. cut[j] <= cut[k]
    BY <1>4, <1>7, <1>13
  <2> QED  BY <1>3, <1>8, <1>11, <2>1, SMTT(30)
<1>14. ASSUME NEW k \in ((g + 1) + 1)..n
       PROVE  /\ c[k] = c[k - 1] + Len(es[k])
              /\ FoundAt(v, c[k - 1], es[k])
  <2>1. k \in (g + 1)..n /\ k - 1 \in (g + 1)..n
    BY <1>1, SMTT(30)
  <2>2. es[k] \in Seq(Byte) /\ Len(es[k]) \in Nat
    <3>1. es[k] \in Seq(Byte)
      BY <1>7, <2>1, SeqIs DEF n
    <3> QED  BY <3>1, SeqIs
  <2>3. /\ cut[k] = cut[k - 1] + Len(es[k])
        /\ FoundAt(w, cut[k - 1], es[k])
    BY <1>4, <2>1
  <2>4. FoundAt(v, cut[k - 1] - Len(e), es[k])
    BY <1>8, <1>10, <2>1, <2>2, <2>3
  <2>5. c[k] = cut[k] - Len(e) /\ c[k - 1] = cut[k - 1] - Len(e) /\ cut[k - 1] \in Nat
    BY <1>8, <1>11, <2>1
  <2>6. cut[k] - Len(e) = (cut[k - 1] - Len(e)) + Len(es[k])
    BY <1>3, <2>2, <2>3, <2>5, SMTT(30)
  <2> QED  BY <2>4, <2>5, <2>6
<1>15. Cuts(c, g + 1, es, v)
  BY <1>11, <1>12, <1>13, <1>14 DEF Cuts, n
<1> QED  BY <1>5, <1>10, <1>15 DEF v, e

-----------------------------------------------------------------------------
\* The codec's runs

\* What arrives of a frame: what was sent of it, or all but one byte of it, which
\* is not of its length.
Arrived(d, f) ==
  \/ d = EncodeFrame(f)
  \/ /\ garbled
     /\ \E x : ButOne(EncodeFrame(f), d, x) /\ x \notin LengthBytes

\* es is what arrived, frame after frame; what was not read is on the wire.
OnWire(es) ==
  /\ es \in Seq(Seq(Byte)) /\ Len(es) = Len(sent)
  /\ \E cut : Cuts(cut, Len(got), es, wire)
  /\ \A i \in 1..Len(sent) : Arrived(es[i], sent[i])

\* What was read is the beginning of what was sent; the rest is on the wire.
Carried ==
  /\ sent \in Seq(Frames) /\ got \in Seq(Frames) /\ wire \in Seq(Byte)
  /\ Len(got) <= Len(sent) /\ \A i \in 1..Len(got) : got[i] = sent[i]
  /\ \A i \in 1..Len(sent) : Sendable(sent[i]) /\ sent[i].mode = mode
  /\ sent # <<>> => IsRegistration(sent[1].payload)
  /\ \E es : OnWire(es)

\* No byte was changed, or one that the checksum tells.
Trusted == ~resized /\ (garbled => ChecksumSound)

\* The inductive invariant of the codec: until a byte is changed no read fails;
\* and unless a length is changed, handleConn reads what was sent, in the mode of
\* the frames that are on the wire.
CodecInv ==
  /\ mode \in {"compact", "sequenced"}
  /\ ~garbled => ~failed /\ ~resized
  /\ Trusted => Carried /\ frameMode = IF got = <<>> THEN "auto" ELSE mode

\* The invariant holds before anything is sent.
LEMMA CodecInit == ASSUME FrameInit PROVE CodecInv
<1> DEFINE none == <<>>
           c == [k \in 0..0 |-> 0]
<1>1. \A S : none \in Seq(S)
  BY SMTT(30)
<1>2. Len(none) = 0
  BY SMTT(30)
<1> HIDE DEF none
<1>3. c \in [0..0 -> Nat] /\ c[0] = 0 /\ 0 \in 0..0 /\ 0 <= 0
  BY SMTT(30)
<1>4. \A k \in 0..0 : k = 0
  BY SMTT(30)
<1>5. (0 + 1)..0 = {} /\ 1..0 = {}
  BY SMTT(30)
<1>6. Cuts(c, Len(none), none, none)
  BY <1>2, <1>3, <1>4, <1>5 DEF Cuts
<1>7. sent = none /\ got = none /\ wire = none
  BY DEF FrameInit, none
<1>8. OnWire(none)
  BY <1>1, <1>2, <1>5, <1>6, <1>7 DEF OnWire
<1>9. Carried
  BY <1>1, <1>2, <1>3, <1>5, <1>7, <1>8 DEF Carried, none
<1> QED  BY <1>9 DEF CodecInv, FrameInit

\* A registration is what ParseRegistrationPayload takes.
LEMMA RegistrationsParse ==
  ASSUME NEW p \in Registrations
  PROVE  p \in Seq(Byte) /\ Len(p) = ImeiLen + 3 /\ IsRegistration(p)
<1>1. PICK imei \in Imeis, v \in Versions, w \in Versions : p = <<1>> \o imei \o <<v, w>>
  <2>1. \E imei \in Imeis, v \in Versions, w \in Versions : p = Registration(imei, v, w)
    BY SMTT(30) DEF Registrations
  <2> QED  BY <2>1 DEF Registration
<1>2. /\ imei \in Seq(Byte) /\ Len(imei) = ImeiLen /\ v \in Byte /\ w \in Byte
      /\ ImeiLen \in Nat
  BY CodecAssumption
<1>3. ImeiLen \in Nat
  BY <1>2
<1>4. 1 \in Byte
  BY SMTT(30) DEF Byte, Base
<1> DEFINE o == <<1>>
           d == <<v, w>>
           a == o \o imei
<1>5. o \in Seq(Byte) /\ Len(o) = 1 /\ o[1] = 1
  BY <1>4, Single
<1>6. d \in Seq(Byte) /\ Len(d) = 2
  BY <1>2, Double
<1> HIDE DEF o, d
<1>7. /\ a \in Seq(Byte) /\ Len(a) = 1 + ImeiLen
      /\ \A i \in 1..1 : a[i] = o[i]
      /\ \A i \in 1..ImeiLen : a[1 + i] = imei[i]
  <2>1. /\ a \in Seq(Byte) /\ Len(a) = Len(o) + Len(imei)
        /\ \A i \in 1..Len(o) : a[i] = o[i]
        /\ \A i \in 1..Len(imei) : a[Len(o) + i] = imei[i]
    <3>1. imei \in Seq(Byte) /\ o \in Seq(Byte)
      BY <1>2, <1>5
    <3> QED  BY <3>1, Joined, SMTT(30)
  <2> QED  BY <1>2, <1>5, <2>1
<1> HIDE DEF a
<1>8. p = a \o d
  BY <1>1 DEF a, o, d
<1>9. /\ p \in Seq(Byte) /\ Len(p) = Len(a) + Len(d)
      /\ \A i \in 1..Len(a) : p[i] = a[i]
  <2>1. a \in Seq(Byte) /\ d \in Seq(Byte)
    BY <1>6, <1>7
  <2> QED  BY <1>8, <2>1, Joined
<1>10. Len(p) = ImeiLen + 3 /\ ImeiLen + 3 >= ImeiLen + 3
  BY <1>3, <1>6, <1>7, <1>9, SMTT(30)
<1>11. 1 \in 1..1 /\ 1 \in 1..Len(a) /\ \A i \in 1..ImeiLen : 1 + i \in 1..Len(a) /\ i + 1 = 1 + i
  BY <1>3, <1>7, SMTT(30)
<1>12. p[1] = 1 /\ \A i \in 1..ImeiLen : p[i + 1] = imei[i]
  BY <1>5, <1>7, <1>9, <1>11
<1>13. PICK n \in 1..ImeiLen : /\ \A i \in 1..n : imei[i] \in Digits
                               /\ \A i \in (n + 1)..ImeiLen : imei[i] = 0
  BY CodecAssumption
<1>14. (\A i \in 1..n : i \in 1..ImeiLen) /\ \A i \in (n + 1)..ImeiLen : i \in 1..ImeiLen
  BY <1>3, SMTT(30)
<1>15. /\ \A i \in 1..n : p[i + 1] \in Digits
       /\ \A i \in (n + 1)..ImeiLen : p[i + 1] = 0
  BY <1>12, <1>13, <1>14
<1> QED  BY <1>9, <1>10, <1>12, <1>15 DEF IsRegistration

\* What the client sends can be read, and is a registration at first.
LEMMA SentFrame ==
  ASSUME mode \in {"compact", "sequenced"},
         NEW p \in (IF sent = <<>> THEN Registrations ELSE Payloads),
         NEW ttl \in TTLs, NEW seq \in Seqs, NEW f,
         f = [mode |-> mode, ttl |-> ttl, payload |-> p,
              seq |-> IF mode = "compact" THEN 0 ELSE seq],
         Encodable(f)
  PROVE  /\ f.mode = mode /\ Sendable(f) /\ f \in Frames
         /\ sent = <<>> => IsRegistration(f.payload)
<1>1. p \in Seq(Byte) /\ (sent = <<>> => IsRegistration(p))
  BY RegistrationsParse, CodecAssumption
<1>2. ttl \in Byte /\ seq \in Byte
  BY CodecAssumption
<1>3. 0 \in Byte
  BY ONLY SMTT(30) DEF Byte, Base
<1>4. /\ f \in Frames /\ f.mode = mode /\ f.payload = p
      /\ f.seq = IF mode = "compact" THEN 0 ELSE seq
  BY <1>1, <1>2, <1>3, SMTT(30) DEF Frames
<1> QED  BY <1>1, <1>4 DEF Sendable

\* What arrives of a frame that is sent.
LEMMA ArrivesAs ==
  ASSUME ChecksumType, NEW f, Sendable(f), Arrives(EncodeFrame(f)), ~resized',
         ~garbled => ~resized
  PROVE  /\ \E d \in Seq(Byte) : wire' = wire \o d /\ Arrived(d, f)'
         /\ ~resized /\ (garbled => garbled')
<1> DEFINE e == EncodeFrame(f)
<1>1. e \in Seq(Byte) /\ Len(e) \in Nat /\ DOMAIN e = 1..Len(e)
      /\ \A i \in 1..Len(e) : e[i] \in Byte
  BY EncodedParts, SeqIs
<1>2. CASE wire' = wire \o e /\ UNCHANGED <<garbled, resized>>
  BY <1>1, <1>2 DEF Arrived
<1>3. ASSUME ~garbled, garbled', NEW x \in DOMAIN e, NEW n \in Noise,
             wire' = wire \o [e EXCEPT ![x] = (@ + n) % Base], x \notin LengthBytes
      PROVE  \E d \in Seq(Byte) : wire' = wire \o d /\ Arrived(d, f)'
  <2> DEFINE t == (e[x] + n) % Base
             d == [e EXCEPT ![x] = t]
  <2>1. t \in Byte
    <3>1. e[x] \in Byte /\ n \in Byte
      BY <1>1, CodecAssumption
    <3>2. ASSUME NEW b \in Nat \ {0}, NEW k \in 0..(b - 1), NEW l \in 0..(b - 1)
          PROVE  (k + l) % b \in 0..(b - 1)
      BY SMTT(30)
    <3> QED  BY <3>1, <3>2, BaseNumbers DEF Byte
  <2>2. wire' = wire \o d
    BY <1>3
  <2> HIDE DEF e, t
  <2>3. d \in Seq(Byte) /\ Len(d) = Len(e) /\ \A j \in 1..Len(e) : j # x => d[j] = e[j]
    BY <1>1, <2>1, SMTT(30)
  <2> HIDE DEF d
  <2>4. ButOne(e, d, x)
    BY <1>1, <1>3, <2>3 DEF ButOne
  <2>5. (\E y : ButOne(EncodeFrame(f), d, y) /\ y \notin LengthBytes)
    BY <1>3, <2>4 DEF e
  <2>6. Arrived(d, f)'
    BY <1>3, <2>5 DEF Arrived
  <2> QED  BY <2>2, <2>3, <2>6
<1> QED  BY <1>2, <1>3 DEF Arrives

\* A frame that the client sends keeps the invariant.
LEMMA SendKeeps ==
  ASSUME ChecksumType, CodecInv, Send PROVE CodecInv'
<1>1. PICK f : /\ f.mode = mode /\ Sendable(f) /\ f \in Frames
               /\ sent = <<>> => IsRegistration(f.payload)
               /\ sent' = Append(sent, f) /\ Arrives(EncodeFrame(f))
  <2>1. PICK p \in (IF sent = <<>> THEN Registrations ELSE Payloads),
             ttl \in TTLs, seq \in Seqs :
          LET f == [mode |-> mode, ttl |-> ttl, payload |-> p,
                    seq |-> IF mode = "compact" THEN 0 ELSE seq]
          IN  Encodable(f) /\ sent' = Append(sent, f) /\ Arrives(EncodeFrame(f))
    BY DEF Send
  <2>2. PICK f : f = [mode |-> mode, ttl |-> ttl, payload |-> p,
                      seq |-> IF mode = "compact" THEN 0 ELSE seq]
    OBVIOUS
  <2>3. Encodable(f) /\ sent' = Append(sent, f) /\ Arrives(EncodeFrame(f))
    BY <2>1, <2>2
  <2> QED  BY <2>2, <2>3, SentFrame DEF CodecInv
<1>2. UNCHANGED <<mode, got, frameMode, failed>> /\ mode \in {"compact", "sequenced"}
  BY DEF Send, CodecInv
<1>3. ~garbled' => ~failed' /\ ~resized'
  <2>1. garbled' \/ (garbled' = garbled /\ resized' = resized)
    BY <1>1 DEF Arrives
  <2>2. ~garbled => ~failed /\ ~resized
    BY DEF CodecInv
  <2>3. failed' = failed
    BY <1>2
  <2> QED  BY <2>1, <2>2, <2>3, SMTT(30)
<1>4. SUFFICES ASSUME Trusted'
               PROVE  Carried' /\ (frameMode = IF got = <<>> THEN "auto" ELSE mode)
  BY <1>2, <1>3 DEF CodecInv
<1>5. PICK d \in Seq(Byte) : wire' = wire \o d /\ Arrived(d, f)'
  BY <1>1, <1>4, ArrivesAs DEF Trusted, CodecInv
<1>6. Trusted /\ (garbled => garbled')
  BY <1>1, <1>4, ArrivesAs DEF Trusted, CodecInv
<1> DEFINE n == Len(sent)
<1>7. /\ sent \in Seq(Frames) /\ got \in Seq(Frames) /\ wire \in Seq(Byte)
      /\ Len(got) <= n /\ \A i \in 1..Len(got) : got[i] = sent[i]
      /\ \A i \in 1..n : Sendable(sent[i]) /\ sent[i].mode = mode
      /\ sent # <<>> => IsRegistration(sent[1].payload)
      /\ \E es : OnWire(es)
      /\ frameMode = IF got = <<>> THEN "auto" ELSE mode
  BY <1>6 DEF CodecInv, Carried
<1>8. n \in Nat /\ Len(got) \in Nat
  BY <1>7, SeqIs
<1>9. /\ sent' \in Seq(Frames) /\ Len(sent') = n + 1 /\ sent'[n + 1] = f
      /\ \A i \in 1..n : sent'[i] = sent[i]
  <2>1. sent \in Seq(Frames) /\ f \in Frames /\ sent' = Append(sent, f)
    BY <1>1, <1>7
  <2> QED  BY ONLY <2>1, Appended, ZenonT(30) DEF n
<1>10. PICK es : OnWire(es)
  BY <1>7
<1> DEFINE ds == Append(es, d)
<1>11. /\ es \in Seq(Seq(Byte)) /\ Len(es) = n
       /\ \E cut : Cuts(cut, Len(got), es, wire)
       /\ \A i \in 1..n : Arrived(es[i], sent[i])
  BY <1>10 DEF OnWire
<1>12. /\ ds \in Seq(Seq(Byte)) /\ Len(ds) = n + 1 /\ ds[n + 1] = d
       /\ \A i \in 1..n : ds[i] = es[i]
  <2> DEFINE S == Seq(Byte)
  <2>1. es \in Seq(S) /\ d \in S
    BY <1>11
  <2> HIDE DEF S
  <2>2. /\ ds \in Seq(S) /\ Len(ds) = Len(es) + 1 /\ ds[Len(es) + 1] = d
        /\ \A i \in 1..Len(es) : ds[i] = es[i]
    BY ONLY <2>1, Appended, SMTT(30) DEF ds
  <2> QED  BY <1>11, <2>2 DEF S
<1>13. \E cut : Cuts(cut, Len(got), ds, wire')
  <2>1. PICK cut : Cuts(cut, Len(got), es, wire)
    BY <1>11
  <2> QED  BY <1>5, <1>7, <1>8, <1>11, <2>1, CutsGrow
<1> HIDE DEF n, ds
<1>14. ASSUME NEW i \in 1..(n + 1)
       PROVE  /\ Sendable(sent'[i]) /\ sent'[i].mode = mode
              /\ Arrived(ds[i], sent[i])'
  <2>1. i = n + 1 \/ i \in 1..n
    BY <1>8, SMTT(30)
  <2>2. CASE i = n + 1
    BY <1>1, <1>5, <1>9, <1>12, <2>2 DEF Arrived
  <2>3. CASE i \in 1..n
    <3>1. Arrived(es[i], sent[i])
      BY <1>11, <2>3
    <3> QED  BY <1>6, <1>7, <1>9, <1>12, <2>3, <3>1 DEF Arrived
  <2> QED  BY <2>1, <2>2, <2>3
<1>15. OnWire(ds)'
  BY <1>2, <1>9, <1>12, <1>13, <1>14 DEF OnWire
<1>16. wire' \in Seq(Byte)
  BY <1>5, <1>7, Joined
<1>17. Len(got) <= n + 1 /\ \A i \in 1..Len(got) : i \in 1..n
  BY <1>7, <1>8, SMTT(30)
<1>18. IsRegistration(sent'[1].payload)
  <2>1. CASE sent = <<>>
    <3>1. n + 1 = 1
      BY <1>7, <2>1, EmptyLen, SMTT(30) DEF n
    <3> QED  BY <1>1, <1>9, <2>1, <3>1
  <2>2. CASE sent # <<>>
    <3>1. 1 \in 1..n
      BY <1>7, <1>8, <2>2, EmptyLen, SMTT(30) DEF n
    <3> QED  BY <1>7, <1>9, <2>2, <3>1
  <2> QED  BY <2>1, <2>2
<1>19. Carried'
  BY <1>2, <1>7, <1>9, <1>14, <1>15, <1>16, <1>17, <1>18 DEF Carried
<1> QED  BY <1>7, <1>19

\* The next frame that was sent is read, or refused if a byte of it was changed.
LEMMA NextRead ==
  ASSUME ChecksumType, CodecInv, Trusted, got # sent, NEW es, OnWire(es)
  PROVE  LET f == sent[Len(got) + 1]
         IN  /\ Len(got) < Len(sent) /\ Sendable(f) /\ f.mode = mode /\ Accepted(f)
             /\ \/ /\ CanRead /\ ReadFrameWithMode(frameMode) = f
                   /\ FrameEnd = Len(es[Len(got) + 1])
                \/ garbled /\ ReadFrameWithMode(frameMode) = NoFrame
<1> DEFINE g == Len(got)
           f == sent[g + 1]
           e == EncodeFrame(f)
           d == es[g + 1]
<1>1. /\ sent \in Seq(Frames) /\ got \in Seq(Frames) /\ wire \in Seq(Byte)
      /\ g <= Len(sent) /\ \A i \in 1..g : got[i] = sent[i]
      /\ \A i \in 1..Len(sent) : Sendable(sent[i]) /\ sent[i].mode = mode
      /\ sent # <<>> => IsRegistration(sent[1].payload)
      /\ frameMode = IF got = <<>> THEN "auto" ELSE mode
      /\ mode \in {"compact", "sequenced"}
  BY DEF CodecInv, Carried
<1>2. g \in Nat /\ Len(sent) \in Nat
  BY <1>1, SeqIs
<1>3. g # Len(sent)
  BY <1>1, SameSeq
<1>4. g < Len(sent) /\ g + 1 \in 1..Len(sent)
  BY <1>1, <1>2, <1>3, SMTT(30)
<1>5. Sendable(f) /\ f.mode = mode /\ f \in Frames
  BY <1>1, <1>4 DEF Sendable
<1>6. FoundAt(wire, 0, d) /\ d \in Seq(Byte) /\ Arrived(d, f)
  <2>1. /\ es \in Seq(Seq(Byte)) /\ Len(es) = Len(sent)
        /\ \E cut : Cuts(cut, g, es, wire)
        /\ \A i \in 1..Len(sent) : Arrived(es[i], sent[i])
    BY DEF OnWire
  <2>2. PICK cut : Cuts(cut, g, es, wire)
    BY <2>1
  <2>3. FoundAt(wire, 0, d)
    BY <1>1, <1>2, <1>4, <2>1, <2>2, CutsMove
  <2>4. d \in Seq(Byte)
    BY <1>4, <2>1, SeqIs
  <2> QED  BY <1>4, <2>1, <2>3, <2>4
<1> HIDE DEF f, d
<1>7. e \in Seq(Byte)
  BY <1>5, EncodedParts
<1> HIDE DEF e
<1>8. Len(d) <= Len(wire) /\ \A i \in 1..Len(d) : wire[i] = d[i]
  <2>1. 0 + Len(d) = Len(d) /\ \A i \in 1..Len(d) : 0 + i = i
    BY <1>6, SeqIs, SMTT(30)
  <2>2. 0 + Len(d) <= Len(wire) /\ \A i \in 1..Len(d) : wire[0 + i] = d[i]
    BY <1>6 DEF FoundAt
  <2> QED  BY <2>1, <2>2
<1>9. got = <<>> => IsRegistration(f.payload)
  <2>1. SUFFICES ASSUME got = <<>> PROVE IsRegistration(f.payload)
    OBVIOUS
  <2>2. g + 1 = 1 /\ sent # <<>>
    BY <1>1, <1>2, <1>4, <2>1, EmptyLen, SMTT(30)
  <2> QED  BY <1>1, <2>2 DEF f
<1>10. ASSUME d = e
       PROVE  CanRead /\ ReadFrameWithMode(frameMode) = f /\ FrameEnd = Len(d)
  <2>1. /\ CanRead /\ FrameEnd = Len(e)
        /\ \A m : ReadFrameWithMode(m) = ReadData(Data(f), m)
    BY <1>1, <1>5, <1>8, <1>10, ReadFirst DEF e
  <2>2. ReadFrameWithMode(frameMode) = f
    <3>1. CASE got = <<>>
      <4>1. ReadData(Data(f), "auto") = f
        BY <1>5, <1>9, <3>1, ReadAutomatically
      <4> QED  BY <1>1, <2>1, <3>1, <4>1
    <3>2. CASE got # <<>>
      <4>1. ReadData(Data(f), mode) = f
        BY <1>5, ReadInMode
      <4> QED  BY <1>1, <2>1, <3>2, <4>1
    <3> QED  BY <3>1, <3>2
  <2> QED  BY <1>10, <2>1, <2>2
<1>11. ASSUME d # e
       PROVE  garbled /\ ReadFrameWithMode(frameMode) = NoFrame
  <2>1. garbled /\ ChecksumSound
    BY <1>6, <1>11 DEF Arrived, e, Trusted
  <2>2. PICK x : ButOne(e, d, x) /\ x \notin LengthBytes
    BY <1>6, <1>11 DEF Arrived, e
  <2>3. e[x] # d[x]
    <3>1. SUFFICES ASSUME e[x] = d[x] PROVE FALSE
      OBVIOUS
    <3>2. Len(e) = Len(d) /\ \A i \in 1..Len(e) : e[i] = d[i]
      BY <2>2, <3>1 DEF ButOne
    <3> QED  BY <1>6, <1>7, <1>11, <3>2, SameSeq
  <2>4. \A m : ReadFrameWithMode(m) = NoFrame
    BY <1>1, <1>5, <1>8, <2>1, <2>2, <2>3, ReadGarbled DEF e
  <2> QED  BY <2>1, <2>4
<1>12. Accepted(f)
  <2>1. f # NoFrame
    BY <1>5, CodecAssumption
  <2>2. frameMode = "auto" => got = <<>>
    BY <1>1
  <2> QED  BY <1>9, <2>1, <2>2 DEF Accepted
<1> QED  BY <1>4, <1>5, <1>10, <1>11, <1>12 DEF f, d

\* A frame that handleConn reads keeps the invariant: it is the next one that
\* was sent, or it is refused.
LEMMA ReadKeeps ==
  ASSUME ChecksumType, CodecInv, Read PROVE CodecInv'
<1> DEFINE g == Len(got)
           f == sent[g + 1]
<1>1. UNCHANGED <<mode, sent, garbled, resized>> /\ mode \in {"compact", "sequenced"}
  BY DEF Read, CodecInv
<1>2. ASSUME Trusted
      PROVE  \/ /\ Len(got) < Len(sent) /\ Sendable(f) /\ f.mode = mode
                /\ got' = Append(got, f) /\ frameMode' = mode /\ failed' = failed
                /\ \E es : /\ OnWire(es)
                           /\ wire' = SubSeq(wire, Len(es[g + 1]) + 1, Len(wire))
             \/ garbled /\ UNCHANGED <<wire, got, frameMode>>
  <2>1. Carried
    BY <1>2 DEF CodecInv
  <2>2. PICK es : OnWire(es)
    BY <2>1 DEF Carried
  <2>3. got # sent
    <3>1. SUFFICES ASSUME got = sent PROVE FALSE
      OBVIOUS
    <3>2. PICK cut : Cuts(cut, g, es, wire)
      BY <2>2 DEF OnWire
    <3>3. Len(wire) = 0
      BY <2>2, <3>1, <3>2 DEF Cuts, OnWire
    <3>4. Len(wire) >= 6
      BY DEF Read, CanRead
    <3> QED  BY <3>3, <3>4, SMTT(30)
  <2>4. /\ Len(got) < Len(sent) /\ Sendable(f) /\ f.mode = mode /\ Accepted(f)
        /\ \/ /\ ReadFrameWithMode(frameMode) = f
              /\ FrameEnd = Len(es[g + 1])
           \/ garbled /\ ReadFrameWithMode(frameMode) = NoFrame
    BY <1>2, <2>2, <2>3, NextRead
  <2>5. CASE ReadFrameWithMode(frameMode) = f /\ FrameEnd = Len(es[g + 1])
    BY <2>2, <2>4, <2>5 DEF Read
  <2>6. CASE garbled /\ ReadFrameWithMode(frameMode) = NoFrame
    BY <2>6 DEF Read, Accepted
  <2> QED  BY <2>4, <2>5, <2>6
<1>3. ~garbled' => ~failed' /\ ~resized'
  <2>1. SUFFICES ASSUME ~garbled PROVE ~failed' /\ ~resized'
    BY <1>1
  <2>2. Trusted /\ ~failed /\ ~resized
    BY <2>1 DEF CodecInv, Trusted
  <2> HIDE DEF f
  <2>3. failed' = failed
    BY <1>2, <2>1, <2>2
  <2> QED  BY <1>1, <2>2, <2>3
<1>4. SUFFICES ASSUME Trusted
               PROVE  Carried' /\ (frameMode' = IF got' = <<>> THEN "auto" ELSE mode)
  BY <1>1, <1>3 DEF CodecInv, Trusted
<1>5. /\ sent \in Seq(Frames) /\ got \in Seq(Frames) /\ wire \in Seq(Byte)
      /\ g <= Len(sent) /\ \A i \in 1..g : got[i] = sent[i]
      /\ \A i \in 1..Len(sent) : Sendable(sent[i]) /\ sent[i].mode = mode
      /\ sent # <<>> => IsRegistration(sent[1].payload)
      /\ Carried /\ frameMode = IF got = <<>> THEN "auto" ELSE mode
  BY <1>4 DEF CodecInv, Carried
<1>6. CASE UNCHANGED <<wire, got, frameMode>>
  BY <1>1, <1>5, <1>6 DEF Carried, OnWire, Arrived
<1>7. CASE /\ Len(got) < Len(sent) /\ Sendable(f) /\ f.mode = mode
           /\ got' = Append(got, f) /\ frameMode' = mode
           /\ \E es : /\ OnWire(es)
                      /\ wire' = SubSeq(wire, Len(es[g + 1]) + 1, Len(wire))
  <2>1. g \in Nat /\ Len(sent) \in Nat
    BY <1>5, SeqIs
  <2>2. PICK es : OnWire(es) /\ wire' = SubSeq(wire, Len(es[g + 1]) + 1, Len(wire))
    BY <1>7
  <2>3. /\ es \in Seq(Seq(Byte)) /\ Len(es) = Len(sent)
        /\ \E cut : Cuts(cut, g, es, wire)
        /\ \A i \in 1..Len(sent) : Arrived(es[i], sent[i])
    BY <2>2 DEF OnWire
  <2>4. (\E c : Cuts(c, g + 1, es, wire')) /\ wire' \in Seq(Byte)
    <3>1. PICK cut : Cuts(cut, g, es, wire)
      BY <2>3
    <3> QED  BY <1>5, <1>7, <2>1, <2>2, <2>3, <3>1, CutsMove
  <2>5. f \in Frames
    BY <1>7 DEF Sendable
  <2> HIDE DEF f
  <2>6. /\ got' \in Seq(Frames) /\ Len(got') = g + 1 /\ got'[g + 1] = f
        /\ \A i \in 1..g : got'[i] = got[i]
    <3>1. got \in Seq(Frames) /\ got' = Append(got, f)
      BY <1>5, <1>7
    <3> QED  BY ONLY <2>5, <3>1, Appended, ZenonT(30)
  <2>7. ASSUME NEW i \in 1..(g + 1) PROVE got'[i] = sent[i]
    <3>1. i = g + 1 \/ i \in 1..g
      BY <2>1, SMTT(30)
    <3> QED  BY <1>5, <2>6, <3>1 DEF f
  <2>8. g + 1 <= Len(sent) /\ g + 1 # 0
    BY <1>7, <2>1, SMTT(30)
  <2>9. got' # <<>>
    BY <2>6, <2>8, EmptyLen
  <2>10. OnWire(es)'
    BY <1>1, <2>3, <2>4, <2>6 DEF OnWire, Arrived
  <2>11. Carried'
    BY <1>1, <1>5, <2>4, <2>6, <2>7, <2>8, <2>10 DEF Carried
  <2> QED  BY <1>7, <2>9, <2>11
<1> QED  BY <1>2, <1>4, <1>6, <1>7

\* Every step keeps the invariant.
LEMMA CodecKeeps ==
  ASSUME ChecksumType, CodecInv, [FrameNext]_frameVars PROVE CodecInv'
<1>1. CASE Send
  BY <1>1, SendKeeps
<1>2. CASE Read
  BY <1>2, ReadKeeps
<1>3. CASE UNCHANGED frameVars
  BY <1>3 DEF frameVars, CodecInv, Carried, Trusted, OnWire, Arrived
<1> QED  BY <1>1, <1>2, <1>3 DEF FrameNext

\* The frames that were read, as the properties speak of them.
LEMMA ReadAsSent ==
  ASSUME CodecInv, Trusted
  PROVE  AsSent /\ (got # <<>> => frameMode = mode)
<1>1. /\ sent \in Seq(Frames) /\ got \in Seq(Frames)
      /\ Len(got) <= Len(sent) /\ \A i \in 1..Len(got) : got[i] = sent[i]
      /\ frameMode = IF got = <<>> THEN "auto" ELSE mode
  BY DEF CodecInv, Carried
<1>2. Len(got) \in Nat /\ 0 + Len(got) = Len(got) /\ 0 + 1 = 1
      /\ \A i \in 1..Len(got) : 0 + i = i
  BY <1>1, SeqIs, SMTT(30)
<1>3. 0 \in Nat /\ 0 + Len(got) <= Len(sent)
      /\ \A i \in 1..Len(got) : sent[0 + i] = got[i]
  BY <1>1, <1>2
<1>4. SubSeq(sent, 0 + 1, 0 + Len(got)) = got
  BY <1>1, <1>3, SliceFound
<1> QED  BY <1>1, <1>2, <1>4 DEF AsSent

\* The invariant gives RoundTrip.
LEMMA CodecImplies ==
  ASSUME ChecksumType, CodecInv PROVE RoundTrip
<1> SUFFICES ASSUME ~garbled
             PROVE  /\ ~failed /\ AsSent
                    /\ ~CanRead => wire = <<>> /\ got = sent
  BY DEF RoundTrip
<1>1. Trusted /\ ~failed
  BY DEF CodecInv, Trusted
<1>2. wire \in Seq(Byte) /\ \E es : OnWire(es)
  BY <1>1 DEF CodecInv, Carried
<1>3. ~CanRead => wire = <<>> /\ got = sent
  <2>1. SUFFICES ASSUME ~CanRead PROVE wire = <<>> /\ got = sent
    OBVIOUS
  <2>2. PICK es : OnWire(es)
    BY <1>2
  <2>3. got = sent
    BY <1>1, <2>1, <2>2, NextRead
  <2>4. PICK cut : Cuts(cut, Len(got), es, wire)
    BY <2>2 DEF OnWire
  <2>5. Len(wire) = 0
    BY <2>2, <2>3, <2>4 DEF Cuts, OnWire
  <2> QED  BY <1>2, <2>3, <2>5, EmptyLen
<1> QED  BY <1>1, <1>3, ReadAsSent

\* Whatever two bytes the checksum makes of a frame, what EncodeFrame writes is
\* what ReadFrameWithMode reads: as long as no byte was changed on the way every
\* frame is read as it was sent, in order, and no byte is left over.
THEOREM FramesRoundTrip == ASSUME ChecksumType PROVE FrameSpec => []RoundTrip
<1>1. FrameInit => CodecInv
  BY CodecInit
<1>2. CodecInv /\ [FrameNext]_frameVars => CodecInv'
  BY CodecKeeps
<1>3. CodecInv => RoundTrip
  BY CodecImplies
<1> QED  BY <1>1, <1>2, <1>3, PTL DEF FrameSpec

\* A frame one byte of which was changed on the way, not of its length, is never
\* taken for another one, whatever its payload is, if the checksum tells apart
\* what differs in one byte.
THEOREM GarbledFrameRefused ==
  ASSUME ChecksumType, ChecksumSound PROVE FrameSpec => []GarbleDetected
<1>1. FrameInit => CodecInv
  BY CodecInit
<1>2. CodecInv /\ [FrameNext]_frameVars => CodecInv'
  BY CodecKeeps
<1>3. CodecInv => GarbleDetected
  BY ReadAsSent DEF GarbleDetected, Trusted
<1> QED  BY <1>1, <1>2, <1>3, PTL DEF FrameSpec

\* The registration tells the mode, whatever its TTL and sequence number are:
\* readAutoFrame never takes the one form for the other, unless a length was
\* changed on the way.
THEOREM ModeAlwaysDetected ==
  ASSUME ChecksumType, ChecksumSound PROVE FrameSpec => []ModeDetected
<1>1. FrameInit => CodecInv
  BY CodecInit
<1>2. CodecInv /\ [FrameNext]_frameVars => CodecInv'
  BY CodecKeeps
<1>3. CodecInv => ModeDetected
  BY ReadAsSent DEF ModeDetected, Trusted
<1> QED  BY <1>1, <1>2, <1>3, PTL DEF FrameSpec
=============================================================================
