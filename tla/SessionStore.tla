---------------------------- MODULE SessionStore ----------------------------
(***************************************************************************)
(* What internal/store promises to the session manager: a map from         *)
(* controllers to the snapshots saved last.  InMemoryStore is this map;    *)
(* PostgresStore keeps one row per controller and changes it in one        *)
(* statement.  A call that returns an error is a stuttering step.          *)
(***************************************************************************)
CONSTANTS
  Ids,         \* controllers
  Snapshots,   \* values of store.SessionSnapshot
  NoSnapshot   \* the map has no entry for a controller

VARIABLES
  sessions,
  fragile      \* whether the medium may lose what was saved

Maps == [Ids -> Snapshots \cup {NoSnapshot}]

NoSessions == [i \in Ids |-> NoSnapshot]

With(data, id, snap) == [data EXCEPT ![id] = snap]

SaveSession(id, snap) == sessions' = With(sessions, id, snap)

DeleteSession(id) == sessions' = With(sessions, id, NoSnapshot)

\* The medium fails, while what was saved is fragile or as it becomes so.
Lose == (fragile \/ fragile') /\ sessions' \in Maps

StoreInit == sessions = NoSessions

StoreNext ==
  \/ \E id \in Ids, snap \in Snapshots : SaveSession(id, snap)
  \/ \E id \in Ids : DeleteSession(id)
  \/ Lose

StoreSpec == StoreInit /\ [][StoreNext]_sessions
=============================================================================
