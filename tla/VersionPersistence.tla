-------------------------- MODULE VersionPersistence --------------------------
(***************************************************************************)
(* How the version manager saves what Versioning does to PostgreSQL, and   *)
(* what a restarted server loads (core/versioning.rs, persist_repo and     *)
(* core/versioning/repo_pg.rs).                                            *)
(*                                                                         *)
(* Every successful operation copies the repository under the write lock,  *)
(* releases the lock, and then replaces the repository's rows by its copy  *)
(* in one transaction.  Transactions of one repository exclude each other  *)
(* (the first statement locks the row in `repos`), so they take effect     *)
(* whole, but in any order.  A failed transaction is logged and the client *)
(* is answered as if it had succeeded.                                     *)
(***************************************************************************)
EXTENDS Versioning

CONSTANTS
  Writers,    \* requests that may be saving at the same time
  DbFails     \* whether a transaction may fail

ASSUME DbFailsIsABoolean == DbFails \in BOOLEAN

VARIABLES
  db,       \* the rows of the repository, or None
  saving,   \* writer -> its copy and what its client will be told, or None
  told,     \* ghost: <<changeset, status>> pairs clients were told of
  spent     \* ghost: identifiers handed out, which Uuid::new_v4 never repeats

pvars == <<vars, db, saving, told, spent>>

-----------------------------------------------------------------------------

\* Mutation: drafts get no rows in `changesets`.
RowsOfVisible(default, branchMap, records, assetMap) ==
  [ default    |-> default,
    heads      |-> [b \in DOMAIN branchMap |-> branchMap[b].head],
    changesets |-> [c \in {d \in DOMAIN records : records[d].status = "visible"}
                      |-> records[c]],
    snapshots  |-> assetMap ]

\* Mutation: a status that is not `draft` is read back as `visible`.
RowsApprovedAsVisible(default, branchMap, records, assetMap) ==
  [ default    |-> default,
    heads      |-> [b \in DOMAIN branchMap |-> branchMap[b].head],
    changesets |-> [c \in DOMAIN records |->
                      IF records[c].status = "approved"
                      THEN [records[c] EXCEPT !.status = "visible"] ELSE records[c]],
    snapshots  |-> assetMap ]

\* Mutation: only the snapshots that heads point to are saved.
RowsOfHeads(default, branchMap, records, assetMap) ==
  LET heads == [b \in DOMAIN branchMap |-> branchMap[b].head]
  IN  [ default |-> default, heads |-> heads, changesets |-> records,
        snapshots |-> [c \in {d \in DOMAIN assetMap :
                                \E b \in DOMAIN heads : heads[b] = d}
                         |-> assetMap[c]] ]

\* What replace_repo_state writes.  Histories have no column, and a snapshot
\* is its rows: an empty one leaves none.
Rows(default, branchMap, records, assetMap) ==
  [ default    |-> default,
    heads      |-> [b \in DOMAIN branchMap |-> branchMap[b].head],
    changesets |-> records,
    snapshots  |-> [c \in {d \in DOMAIN assetMap : assetMap[d] # NoAssets}
                      |-> assetMap[c]] ]

RowsNow == Rows(defaultBranch, branches, changesets, snapshots)

\* Mutation: histories are not rebuilt.
LoadedHeads(rows) ==
  [b \in DOMAIN rows.heads |-> [head |-> rows.heads[b], history |-> << >>]]

\* What load_repos makes of the rows: each history is walked from its head.
LoadedBranches(rows) ==
  [b \in DOMAIN rows.heads |->
     [ head    |-> rows.heads[b],
       history |-> IF rows.heads[b] = None THEN << >>
                   ELSE LineageIn(rows.changesets)[rows.heads[b]] ]]

\* The changesets an operation made or moved on, as its response shows them.
Reported ==
  {<<c, changesets'[c].status>> : c \in
     {d \in Known' : d \in Known => changesets'[d].status # changesets[d].status}}

PInit ==
  /\ Init
  /\ db = None
  /\ saving = [w \in Writers |-> None]
  /\ told = {}
  /\ spent = {}

\* An operation that succeeds: all it does to memory, and the copy it takes.
Operate ==
  \/ \E name \in Branches : CreateRepo(name)
  \/ \E name \in Branches, from \in Changesets \cup {None} : CreateBranch(name, from)
  \/ \E name \in Branches, base \in Changesets \cup {Root},
        status \in {"draft", "visible"}, delta \in Delta :
       Submit(name, base, status, delta)
  \/ \E c \in Changesets : Approve(c) \/ Promote(c)
  \/ \E r \in Rollbacks : SubmitRollback(r)

OperateAndCopy(w) ==
  /\ saving[w] = None
  /\ Operate
  /\ (Known' \ Known) \cap spent = {}
  /\ spent' = spent \cup Known'
  /\ saving' = [saving EXCEPT ![w] = [rows |-> RowsNow', reported |-> Reported]]
  /\ UNCHANGED <<db, told>>

\* Operations that save nothing: rejections, and the first step of a rollback.
OperateOnly ==
  /\ \/ \E name \in Branches, from \in Changesets \cup {None} :
          RejectCreateBranch(name, from)
     \/ \E name \in Branches, base \in Changesets \cup {None, Root} :
          RejectSubmit(name, base)
     \/ \E r \in Rollbacks :
          \/ \E name \in Branches, target \in Changesets : PlanRollback(r, name, target)
          \/ RejectRollback(r)
  /\ UNCHANGED <<db, saving, told, spent>>

Answer(w) ==
  /\ told' = told \cup saving[w].reported
  /\ saving' = [saving EXCEPT ![w] = None]
  /\ UNCHANGED <<vars, spent>>

CommitSave(w) ==
  /\ saving[w] # None
  /\ db' = saving[w].rows
  /\ Answer(w)

FailSave(w) ==
  /\ DbFails
  /\ saving[w] # None
  /\ UNCHANGED db
  /\ Answer(w)

\* Memory becomes what with_pg loads.
Load ==
  /\ IF db = None
     THEN /\ exists' = FALSE
          /\ defaultBranch' = Main
          /\ branches' = [b \in {} |-> NewBranch]
          /\ changesets' = [c \in {} |-> None]
          /\ snapshots' = [c \in {} |-> NoAssets]
     ELSE /\ exists' = TRUE
          /\ defaultBranch' = db.default
          /\ branches' = LoadedBranches(db)
          /\ changesets' = db.changesets
          /\ snapshots' = db.snapshots
  /\ plans' = [r \in Rollbacks |-> None]

\* Mutation: transactions of the old process outlive it.
RestartDuringSaves == Load /\ UNCHANGED <<db, saving, told, spent>>

\* The process ends at any point and starts again: transactions under way are
\* rolled back and requests are cut off.
Restart ==
  /\ Load
  /\ saving' = [w \in Writers |-> None]
  /\ UNCHANGED <<db, told, spent>>

PNext ==
  \/ \E w \in Writers : OperateAndCopy(w) \/ CommitSave(w) \/ FailSave(w)
  \/ OperateOnly
  \/ Restart

PSpec == PInit /\ [][PNext]_pvars

-----------------------------------------------------------------------------
(* Properties. *)

PTypeOK ==
  /\ exists \in BOOLEAN
  /\ defaultBranch \in Branches
  /\ branches \in [DOMAIN branches -> BranchState]
  /\ changesets \in [Known -> Record]
  /\ snapshots \in [DOMAIN snapshots -> Snapshot]
  /\ plans \in [Rollbacks -> Plan \cup {None}]
  /\ DOMAIN branches \subseteq Branches
  /\ DOMAIN snapshots \subseteq Known
  /\ Known \subseteq spent
  /\ spent \subseteq Changesets
  /\ told \subseteq Changesets \X {"draft", "approved", "visible"}

Rank(status) == CASE status = "draft" -> 1 [] status = "approved" -> 2 [] OTHER -> 3

\* Whatever was saved in whatever order, a restart takes the repository back to
\* a state it was in: nothing is known that was not known before, no status is
\* further than it was, and every history is a prefix of what it was.
RestartOnlyForgets ==
  [][Restart =>
       /\ \A c \in Known' :
            c \in Known /\ Rank(changesets'[c].status) <= Rank(changesets[c].status)
       /\ \A b \in DOMAIN branches' :
            /\ b \in DOMAIN branches
            /\ Len(branches'[b].history) <= Len(branches[b].history)
            /\ branches'[b].history =
                 SubSeq(branches[b].history, 1, Len(branches'[b].history))]_pvars

\* A client that was told of a changeset finds it after any restart, at least as
\* far as it was told.
ToldIsKept ==
  \A t \in told :
    t[1] \in Known /\ Rank(t[2]) <= Rank(changesets[t[1]].status)

\* A changeset is never served with other content than it was submitted with.
SnapshotsAreKept ==
  [][\A c \in Known \cap Known' : SnapshotOf(c) = SnapshotOf(c)']_pvars
===============================================================================
