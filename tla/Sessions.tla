------------------------------- MODULE Sessions -------------------------------
(***************************************************************************)
(* Agent sessions and their checkpoints (core/session.rs, api/session.rs). *)
(* The manager keeps them in memory; a handler adds to the memory first,   *)
(* and then inserts a row, whose failure is a warning in the log.  The     *)
(* table of checkpoints refers to the session and to the checkpoint before *)
(* (migrations/202602260012_agent_sessions.up.sql), and a start reads what *)
(* is in the tables.                                                       *)
(*                                                                         *)
(* Identifiers are fresh, and given in the order of created_at: they are   *)
(* the position in a sequence of all that was ever made.  Checkpoints do   *)
(* not expire here.                                                        *)
(***************************************************************************)
EXTENDS Naturals, Sequences, FiniteSets

CONSTANTS
  None,
  MaxSessions,      \* bounds
  MaxCheckpoints

ASSUME SessionsAreCounted == MaxSessions \in Nat /\ MaxCheckpoints \in Nat
ASSUME NoneIsNoNumber == None \notin Nat

VARIABLES
  madeSessions,     \* every session made: its branch and base
  madeCheckpoints,  \* every checkpoint made: its session, parent and assets
  sessions,         \* SessionState.sessions
  lists,            \* SessionState.session_checkpoint_ids
  sessionRows,      \* the table `agent_sessions`
  checkpointRows,   \* the tables `session_checkpoints` and `checkpoint_assets`
  inserting         \* the handlers that have yet to insert their row

sessionVars ==
  <<madeSessions, madeCheckpoints, sessions, lists, sessionRows, checkpointRows, inserting>>

SessionIds == 1..MaxSessions
CheckpointIds == 1..MaxCheckpoints
Insertion == [row : {"session", "checkpoint"}, id : Nat]

SessionsInit ==
  /\ madeSessions = << >>
  /\ madeCheckpoints = << >>
  /\ sessions = {}
  /\ lists = [s \in SessionIds |-> << >>]
  /\ sessionRows = {}
  /\ checkpointRows = {}
  /\ inserting = {}

-----------------------------------------------------------------------------

NextSession == Len(madeSessions) + 1
NextCheckpoint == Len(madeCheckpoints) + 1

CreateSession(branch, base) ==
  /\ NextSession \in SessionIds
  /\ madeSessions' = Append(madeSessions, [branch |-> branch, base |-> base])
  /\ sessions' = sessions \cup {NextSession}
  /\ inserting' = inserting \cup {[row |-> "session", id |-> NextSession]}
  /\ UNCHANGED <<madeCheckpoints, lists, sessionRows, checkpointRows>>

\* A session is used by who was given its identifier, at the end of its handler.
IsGiven(s) == [row |-> "session", id |-> s] \notin inserting

LastOf(list) == IF list = << >> THEN None ELSE list[Len(list)]

CreateCheckpoint(s, assets) ==
  /\ NextCheckpoint \in CheckpointIds
  /\ s \in sessions
  /\ IsGiven(s)
  /\ madeCheckpoints' =
       Append(madeCheckpoints, [session |-> s, parent |-> LastOf(lists[s]), assets |-> assets])
  /\ lists' = [lists EXCEPT ![s] = Append(@, NextCheckpoint)]
  /\ inserting' = inserting \cup {[row |-> "checkpoint", id |-> NextCheckpoint]}
  /\ UNCHANGED <<madeSessions, sessions, sessionRows, checkpointRows>>

\* Mutation: the table does not refer to the checkpoint before.
SessionIsStored(k) == madeCheckpoints[k].session \in sessionRows

\* The references of the table.
Insertable(k) ==
  /\ madeCheckpoints[k].session \in sessionRows
  /\ madeCheckpoints[k].parent \in checkpointRows \cup {None}

InsertSession(s) ==
  /\ [row |-> "session", id |-> s] \in inserting
  /\ inserting' = inserting \ {[row |-> "session", id |-> s]}
  /\ sessionRows' = sessionRows \cup {s}
  /\ UNCHANGED <<madeSessions, madeCheckpoints, sessions, lists, checkpointRows>>

\* persist_checkpoint: all of its rows or none.
InsertCheckpoint(k) ==
  /\ [row |-> "checkpoint", id |-> k] \in inserting
  /\ inserting' = inserting \ {[row |-> "checkpoint", id |-> k]}
  /\ checkpointRows' = IF Insertable(k) THEN checkpointRows \cup {k} ELSE checkpointRows
  /\ UNCHANGED <<madeSessions, madeCheckpoints, sessions, lists, sessionRows>>

\* The database fails: a warning.
FailInsertion ==
  /\ \E i \in inserting : inserting' = inserting \ {i}
  /\ UNCHANGED <<madeSessions, madeCheckpoints, sessions, lists, sessionRows, checkpointRows>>

RowsOf(s) == {k \in checkpointRows : madeCheckpoints[k].session = s}

\* In the order of created_at.
ListOfRows(s) ==
  CHOOSE list \in [1..Cardinality(RowsOf(s)) -> RowsOf(s)] :
    \A i, j \in DOMAIN list : i < j => list[i] < list[j]

RestartSessions ==
  /\ sessions' = sessionRows
  /\ lists' = [s \in SessionIds |-> ListOfRows(s)]
  /\ inserting' = {}
  /\ UNCHANGED <<madeSessions, madeCheckpoints, sessionRows, checkpointRows>>

\* checkpoint_snapshot
InMemory(k) == \E s \in sessions : k \in {lists[s][i] : i \in 1..Len(lists[s])}
BranchOf(k) == madeSessions[madeCheckpoints[k].session].branch
BaseOf(k) == madeSessions[madeCheckpoints[k].session].base
AssetsOf(k) == madeCheckpoints[k].assets

-----------------------------------------------------------------------------
(* Properties. *)

SessionTypeOK ==
  /\ sessions \subseteq 1..Len(madeSessions)
  /\ sessionRows \subseteq 1..Len(madeSessions)
  /\ checkpointRows \subseteq 1..Len(madeCheckpoints)
  /\ lists \in [SessionIds -> Seq(1..Len(madeCheckpoints))]
  /\ inserting \subseteq Insertion

\* A checkpoint is restored to what came before it: whatever rows were lost, and
\* in whatever order the handlers of one session insert theirs, a restart leaves
\* the first checkpoints of a session and none that follows a lost one
\* (api/session.rs, persist_checkpoint).
RestartKeepsPrefix ==
  \A s \in SessionIds :
    \E n \in 0..Len(lists[s]) : ListOfRows(s) = SubSeq(lists[s], 1, n)
=============================================================================
