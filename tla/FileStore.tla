----------------------------- MODULE FileStore -----------------------------
(***************************************************************************)
(* FileStore of internal/store/store.go: all sessions in one JSON file,    *)
(* rewritten on every save through a temporary file and a rename.          *)
(*                                                                         *)
(* The mutex of FileStore admits one call at a time.  Each system call is  *)
(* a step, and the process may be killed or the power may fail between any *)
(* two.  dir is the directory as processes see it, disk the set of         *)
(* directories a power failure may leave: every state since the directory  *)
(* was last synced.                                                        *)
(***************************************************************************)
EXTENDS Integers, Sequences

CONSTANTS
  Ids, Snapshots, NoSnapshot,   \* as in SessionStore
  MaxCorruptBackups,            \* maxCorruptBackups, 5 in the code
  MaxErrors,     \* bound: system calls that fail
  MaxDirErrors,  \* bound: failures to sync the directory
  MaxKills,      \* bound: times the process is killed
  MaxOutages,    \* bound: power failures
  MaxDamages     \* bound: times something else damages the file

VARIABLES
  dir,        \* the state file, the archived corrupt files, temporary files
  disk,       \* the directories a power failure may leave
  pc,         \* where the running call is
  op,         \* the running call, the map it works on, and how many archives
              \* its cleanup has still to remove
  flushed,    \* whether the temporary file was synced
  held,       \* the map as callers know it
  archived,   \* how many corrupt files were archived
  unsynced,   \* a save was reported whose rename may not be on the disk
  errors, dirErrors, kills, outages, damages

counters == <<errors, dirErrors, kills, outages, damages>>
vars == <<dir, disk, pc, op, flushed, held, archived, unsynced, counters>>

ASSUME StoreAssumption == NoSnapshot \notin Snapshots

ASSUME StoreBounds ==
  /\ MaxCorruptBackups \in Nat /\ MaxCorruptBackups > 0
  /\ MaxErrors \in Nat /\ MaxDirErrors \in Nat
  /\ MaxKills \in Nat /\ MaxOutages \in Nat /\ MaxDamages \in Nat

Maps == [Ids -> Snapshots \cup {NoSnapshot}]
NoSessions == [i \in Ids |-> NoSnapshot]

-----------------------------------------------------------------------------
\* A state file: absent, of length zero, not JSON, or a map.  What
\* readAllLocked makes of the first three is the empty map.
Kinds == {"absent", "empty", "corrupt", "map"}
Files == [kind : Kinds, data : Maps]
NotAMap(kind) == [kind |-> kind, data |-> NoSessions]
MapFile(data) == [kind |-> "map", data |-> data]

Calls == [kind : {"save"}, id : Ids, snap : Snapshots] \cup
         [kind : {"delete"}, id : Ids] \cup [kind : {"list"}]

NoOp == [call |-> [kind |-> "list"], data |-> NoSessions, surplus |-> 0]

\* Mutant of Changed: the call writes its own session only.
ChangedAlone(data, call) ==
  IF call.kind = "save"
  THEN [NoSessions EXCEPT ![call.id] = call.snap] ELSE data

\* The map that SaveSession and DeleteSession write.
Changed(data, call) ==
  CASE call.kind = "save"   -> [data EXCEPT ![call.id] = call.snap]
    [] call.kind = "delete" -> [data EXCEPT ![call.id] = NoSnapshot]
    [] call.kind = "list"   -> data

\* The directory changes; the change is not yet safe from a power failure.
Moves(new) == dir' = new /\ disk' = disk \cup {new}

Init ==
  /\ dir = [main |-> NotAMap("absent"), backups |-> <<>>, temps |-> 0]
  /\ disk = {dir}
  /\ pc = "idle"
  /\ op = NoOp
  /\ flushed = FALSE
  /\ held = NoSessions
  /\ archived = 0
  /\ unsynced = FALSE
  /\ errors = 0 /\ dirErrors = 0 /\ damages = 0
  /\ kills = 0 /\ outages = 0

-----------------------------------------------------------------------------
\* SaveSession, DeleteSession or ListSessions takes the mutex.
Call(call) ==
  /\ pc = "idle"
  /\ op' = [call |-> call, data |-> NoSessions, surplus |-> 0]
  /\ pc' = "read"
  /\ UNCHANGED <<dir, disk, flushed, held, archived, unsynced, counters>>

\* The call returns, with an error if the number of errors grows.
Return ==
  /\ pc' = "idle"
  /\ op' = NoOp

Error == errors < MaxErrors /\ errors' = errors + 1

\* readAllLocked on a file that can be read and parsed, or that cannot be read.
ReadAll ==
  /\ pc = "read"
  /\ \/ /\ dir.main.kind # "corrupt"
        /\ op.call.kind # "list"
        /\ op' = [op EXCEPT !.data = Changed(dir.main.data, op.call)]
        /\ pc' = "create"
        /\ UNCHANGED errors
     \/ /\ dir.main.kind # "corrupt"
        /\ op.call.kind = "list"
        /\ Return
        /\ UNCHANGED errors
     \/ Error /\ Return
  /\ UNCHANGED <<dir, disk, flushed, held, archived, unsynced, dirErrors,
                 kills, outages, damages>>

\* readAllLocked on a damaged file renames it to an archive, the newest.  That
\* the rename fails is ignored: the file stays and the call goes on.
Archive ==
  /\ pc = "read"
  /\ dir.main.kind = "corrupt"
  /\ \/ /\ Moves([dir EXCEPT !.main = NotAMap("absent"),
                             !.backups = Append(@, archived + 1)])
        /\ archived' = archived + 1
        /\ UNCHANGED errors
     \/ Error /\ UNCHANGED <<dir, disk, archived>>
  /\ pc' = "list"
  /\ UNCHANGED <<op, flushed, held, unsynced, dirErrors, kills, outages,
                 damages>>

\* The cleanup is over: readAllLocked returns the empty map.
GoOnEmpty ==
  IF op.call.kind = "list" THEN Return
  ELSE /\ op' = [op EXCEPT !.data = Changed(NoSessions, op.call), !.surplus = 0]
       /\ pc' = "create"

\* Mutant of ListArchives: off by one, an archive too many is kept.
ListArchivesOneMore ==
  /\ pc = "list"
  /\ \/ /\ Len(dir.backups) > MaxCorruptBackups + 1
        /\ op' = [op EXCEPT !.surplus = Len(dir.backups) - MaxCorruptBackups - 1]
        /\ pc' = "remove"
        /\ UNCHANGED errors
     \/ /\ Len(dir.backups) <= MaxCorruptBackups + 1
        /\ GoOnEmpty
        /\ UNCHANGED errors
     \/ Error /\ GoOnEmpty
  /\ UNCHANGED <<dir, disk, flushed, held, archived, unsynced, dirErrors, kills,
                 outages, damages>>

\* cleanupCorruptBackups reads the directory and sorts the archives, those
\* modified last first.  A rename keeps the modification time and damage sets
\* it, so these are the ones archived last.  (An archive whose Info fails is
\* passed over as if the directory could not be read: it is not modelled apart.)
ListArchives ==
  /\ pc = "list"
  /\ \/ /\ Len(dir.backups) > MaxCorruptBackups
        /\ op' = [op EXCEPT !.surplus = Len(dir.backups) - MaxCorruptBackups]
        /\ pc' = "remove"
        /\ UNCHANGED errors
     \/ /\ Len(dir.backups) <= MaxCorruptBackups
        /\ GoOnEmpty
        /\ UNCHANGED errors
     \/ Error /\ GoOnEmpty
  /\ UNCHANGED <<dir, disk, flushed, held, archived, unsynced, dirErrors, kills,
                 outages, damages>>

\* The archives without the one at place i.
AllBut(backups, i) ==
  [j \in 1..(Len(backups) - 1) |->
     IF j < i THEN backups[j] ELSE backups[j + 1]]

\* It removes the archives beyond the limit one by one, the newest of them
\* first; that a removal fails is ignored.
RemoveArchive ==
  /\ pc = "remove"
  /\ \/ /\ Moves([dir EXCEPT !.backups = AllBut(@, op.surplus)])
        /\ UNCHANGED errors
     \/ Error /\ UNCHANGED <<dir, disk>>
  /\ IF op.surplus > 1
     THEN op' = [op EXCEPT !.surplus = @ - 1] /\ UNCHANGED pc
     ELSE GoOnEmpty
  /\ UNCHANGED <<flushed, held, archived, unsynced, dirErrors, kills, outages,
                 damages>>

\* writeAllLocked: MkdirAll, MarshalIndent and CreateTemp.
CreateTemp ==
  /\ pc = "create"
  /\ \/ /\ Moves([dir EXCEPT !.temps = @ + 1])
        /\ flushed' = FALSE
        /\ pc' = "write"
        /\ UNCHANGED <<op, errors>>
     \/ Error /\ Return /\ UNCHANGED <<dir, disk, flushed>>
  /\ UNCHANGED <<held, archived, unsynced, dirErrors, kills, outages,
                 damages>>

\* Mutant of GiveUp: the temporary file stays.
GiveUpLeaving ==
  /\ pc \in {"write", "sync", "rename"}
  /\ Error
  /\ Return
  /\ UNCHANGED <<dir, disk, flushed, held, archived, unsynced, dirErrors,
                 kills, outages, damages>>

\* Write, Sync, Close, Chmod or Rename fails: the deferred cleanup removes the
\* temporary file (that this removal fails as well is not modelled).
GiveUp ==
  /\ pc \in {"write", "sync", "rename"}
  /\ Error
  /\ Moves([dir EXCEPT !.temps = @ - 1])
  /\ Return
  /\ UNCHANGED <<flushed, held, archived, unsynced, dirErrors, kills, outages,
                 damages>>

\* Mutant of WriteTemp: the state file is written in place.
WriteInPlace ==
  /\ pc = "write"
  /\ pc' = "sync"
  /\ Moves([dir EXCEPT !.main = MapFile(op.data)])
  /\ UNCHANGED <<op, flushed, held, archived, unsynced, counters>>

WriteTemp ==
  /\ pc = "write"
  /\ pc' = "sync"
  /\ UNCHANGED <<dir, disk, op, flushed, held, archived, unsynced, counters>>

\* Mutant of SyncTemp: the data is not flushed.
SyncTempSkipped ==
  /\ pc = "sync"
  /\ pc' = "rename"
  /\ UNCHANGED <<dir, disk, op, flushed, held, archived, unsynced, counters>>

SyncTemp ==
  /\ pc = "sync"
  /\ flushed' = TRUE
  /\ pc' = "rename"
  /\ UNCHANGED <<dir, disk, op, held, archived, unsynced, counters>>

\* Close, Chmod and Rename.  A file whose data was not flushed may be found
\* damaged after a power failure.
Rename ==
  LET new == [dir EXCEPT !.main = MapFile(op.data), !.temps = @ - 1]
  IN  /\ pc = "rename"
      /\ dir' = new
      /\ disk' = disk \cup {new} \cup
                 (IF flushed THEN {}
                  ELSE {[new EXCEPT !.main = NotAMap("corrupt")]})
      /\ pc' = "syncdir"
      /\ UNCHANGED <<op, flushed, held, archived, unsynced, counters>>

\* syncDir; the call succeeds whether it does or not.
SyncDir ==
  /\ pc = "syncdir"
  /\ \/ /\ disk' = {dir}
        /\ unsynced' = FALSE
        /\ UNCHANGED dirErrors
     \/ /\ dirErrors < MaxDirErrors
        /\ dirErrors' = dirErrors + 1
        /\ unsynced' = TRUE
        /\ UNCHANGED disk
  /\ held' = op.data
  /\ Return
  /\ UNCHANGED <<dir, flushed, archived, errors, kills, outages, damages>>

-----------------------------------------------------------------------------
\* The process is killed; the next one begins with what the directory holds,
\* which a power failure may still undo.
Kill ==
  /\ kills < MaxKills
  /\ kills' = kills + 1
  /\ held' = dir.main.data
  /\ unsynced' = (unsynced \/ pc = "syncdir")
  /\ Return
  /\ UNCHANGED <<dir, disk, flushed, archived, errors, dirErrors, outages, damages>>

PowerFailure(left) ==
  /\ outages < MaxOutages
  /\ outages' = outages + 1
  /\ dir' = left
  /\ disk' = {left}
  /\ held' = left.main.data
  /\ unsynced' = FALSE
  /\ Return
  /\ UNCHANGED <<flushed, archived, errors, dirErrors, kills, damages>>

\* Something other than the adapter damages the file between two calls.
Damage(kind) ==
  /\ pc = "idle"
  /\ damages < MaxDamages
  /\ damages' = damages + 1
  /\ Moves([dir EXCEPT !.main = NotAMap(kind)])
  /\ held' = NoSessions
  /\ UNCHANGED <<pc, op, flushed, archived, unsynced, errors, dirErrors, kills,
                 outages>>

Next ==
  \/ \E call \in Calls : Call(call)
  \/ ReadAll
  \/ Archive
  \/ ListArchives
  \/ RemoveArchive
  \/ CreateTemp
  \/ GiveUp
  \/ WriteTemp
  \/ SyncTemp
  \/ Rename
  \/ SyncDir
  \/ Kill
  \/ \E left \in disk : PowerFailure(left)
  \/ \E kind \in {"empty", "corrupt"} : Damage(kind)

Spec == Init /\ [][Next]_vars

-----------------------------------------------------------------------------
\* Properties

Dirs == [main : Files, backups : Seq(Nat), temps : Nat]

\* The values the variables can take.
FileTypeOK ==
  /\ dir \in Dirs
  /\ disk \subseteq Dirs
  /\ pc \in {"idle", "read", "list", "remove", "create", "write", "sync",
             "rename", "syncdir"}
  /\ op \in [call : Calls, data : Maps, surplus : Nat]
  /\ flushed \in BOOLEAN
  /\ held \in Maps
  /\ archived \in Nat
  /\ unsynced \in BOOLEAN
  /\ errors \in 0..MaxErrors /\ dirErrors \in 0..MaxDirErrors
  /\ kills \in 0..MaxKills /\ outages \in 0..MaxOutages
  /\ damages \in 0..MaxDamages

\* As long as nothing else damages the file, a power failure at any moment leaves
\* a complete map or no file, never a part of one; and if every rename was
\* followed by a successful syncDir it is the map the callers know, or, while
\* writeAllLocked is about to return, the new one.
Survives ==
  damages = 0 =>
    \A left \in disk :
      /\ left.main.kind \notin {"empty", "corrupt"}
      /\ \/ unsynced
         \/ left.main.data = held
         \/ pc = "syncdir" /\ left.main.data = op.data

\* A call that is over, with an error or without, leaves in the file the map
\* that callers know: after an error the one before the call.
FileIsHeld == pc # "syncdir" => dir.main.data = held

\* As long as the process is not killed, writeAllLocked removes its temporary
\* file on every path.
NoTempLeft == kills = 0 /\ outages = 0 /\ pc = "idle" => dir.temps = 0

\* Archives do not pile up: beyond the limit there is at most one for each
\* failure that cut a cleanup short (a system call that failed, a kill or a
\* power failure anywhere in it), besides the one readAllLocked is cleaning up
\* after.  And unless the power fails the file archived last is never removed,
\* whichever removals failed before.
ArchivesKept ==
  /\ Len(dir.backups) <= MaxCorruptBackups + errors + kills + outages
                         + (IF pc \in {"list", "remove"} THEN 1 ELSE 0)
  /\ archived > 0 /\ outages = 0 =>
       dir.backups # <<>> /\ dir.backups[Len(dir.backups)] = archived

\* Something has damaged the file, or its last rename may not be on the disk.
Fragile == damages > 0 \/ unsynced

Store == INSTANCE SessionStore WITH sessions <- held, fragile <- Fragile

\* FileStore implements the map that SessionStore promises: a save or a delete
\* changes the entry of its controller alone and takes effect at once, whatever
\* fails before the rename.  What was saved can be lost only once something has
\* damaged the file, or while a rename is unsynced: because syncDir failed, or
\* because the process was killed before it.
ImplementsStore == Store!StoreSpec
=============================================================================
