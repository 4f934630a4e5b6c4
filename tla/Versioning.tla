----------------------------- MODULE Versioning -----------------------------
(***************************************************************************)
(* The version manager of the HyperTide server (core/versioning.rs): the   *)
(* branches, changesets and snapshots of ONE repository.  The manager      *)
(* keeps every repository in a map behind one RwLock and no operation      *)
(* reads two entries, so one entry shows all there is; the operations run  *)
(* under the write lock and are atomic here.  What happens after the lock  *)
(* is released (saving the state) is in VersionPersistence.                *)
(*                                                                         *)
(* A rollback is the one operation of several steps: its handler reads a   *)
(* plan, checks locks and blobs, and submits the plan later.  `plans` holds*)
(* the plans of the rollback requests that are under way.                  *)
(*                                                                         *)
(* Left out: authors, messages, timestamps and agent metadata, which no    *)
(* operation tests.                                                        *)
(***************************************************************************)
EXTENDS Naturals, Sequences, FiniteSets

CONSTANTS
  Changesets,   \* the identifiers Uuid::new_v4 can hand out
  Branches,     \* branch names
  Main,         \* the name "main", default of a repository made implicitly
  Assets,       \* asset identifiers
  Paths,        \* asset paths
  Blobs,        \* blob hashes
  Rollbacks,    \* rollback requests that may be under way together
  None,         \* Option::None
  Root,         \* ROOT_BASE_CHANGESET_ID
  Keep          \* in a delta: this asset is not named

ASSUME MainIsABranch == Main \in Branches
ASSUME MarkersAreFresh ==
  /\ None \notin Changesets
  /\ Root \notin Changesets
  /\ Root # None
  /\ Keep \notin [path : Paths, blob : Blobs] \cup {None}

VARIABLES
  exists,         \* repos.contains_key(repo_id)
  defaultBranch,  \* RepoState.default_branch; Main until the repo exists
  branches,       \* RepoState.branches: name -> head and history
  changesets,     \* RepoState.changesets: id -> record
  snapshots,      \* RepoState.snapshots: id -> the assets at that changeset
  plans           \* rollback request -> its plan, or None

vars == <<exists, defaultBranch, branches, changesets, snapshots, plans>>

-----------------------------------------------------------------------------
(* Data. *)

Entry == [path : Paths, blob : Blobs]
Snapshot == [Assets -> Entry \cup {None}]

\* The asset deltas of a changeset: an entry to write, None to remove.  A
\* request that names an asset twice has the effect of its last delta.
Delta == [Assets -> Entry \cup {None, Keep}]

BranchState == [head : Changesets \cup {None}, history : Seq(Changesets)]

Record == [ branch   : Branches,
            parent   : Changesets \cup {None},
            base     : Changesets \cup {Root},
            status   : {"draft", "approved", "visible"},
            restores : Changesets \cup {None} ]   \* set by the rollback handler

Plan == [ branch : Branches,
          base   : Changesets,
          target : Changesets,
          delta  : Delta ]

NewBranch == [head |-> None, history |-> << >>]
NoAssets == [a \in Assets |-> None]

Elements(s) == {s[i] : i \in 1..Len(s)}
Put(f, k, v) == [x \in DOMAIN f \cup {k} |-> IF x = k THEN v ELSE f[x]]

Known == DOMAIN changesets

SnapshotOf(c) == IF c \in DOMAIN snapshots THEN snapshots[c] ELSE NoAssets

ApplyDelta(snapshot, delta) ==
  [a \in Assets |-> IF delta[a] = Keep THEN snapshot[a] ELSE delta[a]]

BlobOf(entry) == IF entry = None THEN None ELSE entry.blob

\* Only blob hashes are compared: an asset whose path alone differs is kept.
RollbackDelta(current, target) ==
  [a \in Assets |->
     IF BlobOf(current[a]) = BlobOf(target[a]) THEN Keep ELSE target[a]]

\* The chain of parents that ends in a changeset, oldest first.  The code gives
\* up on an unknown ancestor; HistoryIsLineage says there is none.
LineageIn(records) ==
  LET lineage[c \in DOMAIN records] ==
        IF records[c].parent = None THEN <<c>>
        ELSE Append(lineage[records[c].parent], c)
  IN  lineage

-----------------------------------------------------------------------------
(* Creating the repository and its branches. *)

Init ==
  /\ exists = FALSE
  /\ defaultBranch = Main
  /\ branches = [b \in {} |-> NewBranch]
  /\ changesets = [c \in {} |-> None]
  /\ snapshots = [c \in {} |-> NoAssets]
  /\ plans = [r \in Rollbacks |-> None]

\* entry().or_insert_with(RepoState::new) followed by ensure_default_branch: the
\* branches that create_branch and submit work on, whatever becomes of the call.
EnsuredBranches ==
  IF defaultBranch \in DOMAIN branches THEN branches
  ELSE Put(branches, defaultBranch, NewBranch)

EnsureRepo ==
  /\ exists' = TRUE
  /\ UNCHANGED defaultBranch

CreateRepo(name) ==
  /\ ~exists
  /\ exists' = TRUE
  /\ defaultBranch' = name
  /\ branches' = [b \in {name} |-> NewBranch]
  /\ UNCHANGED <<changesets, snapshots, plans>>

\* Mutation: a branch started from a changeset begins with an empty history.
BranchStartWithoutHistory(from) ==
  [ head    |-> IF from = None THEN EnsuredBranches[defaultBranch].head ELSE from,
    history |-> << >> ]

BranchStart(from) ==
  LET start == IF from = None THEN EnsuredBranches[defaultBranch].head ELSE from
  IN  [ head    |-> start,
        history |-> IF start = None THEN << >> ELSE LineageIn(changesets)[start] ]

BranchCreatable(name, from) ==
  /\ name \notin DOMAIN EnsuredBranches
  /\ from \in Known \cup {None}

\* `from` is any changeset of the repository, of any branch and status.
CreateBranch(name, from) ==
  /\ EnsureRepo
  /\ BranchCreatable(name, from)
  /\ branches' = Put(EnsuredBranches, name, BranchStart(from))
  /\ UNCHANGED <<changesets, snapshots, plans>>

RejectCreateBranch(name, from) ==
  /\ EnsureRepo
  /\ ~BranchCreatable(name, from)
  /\ branches' = EnsuredBranches
  /\ UNCHANGED <<changesets, snapshots, plans>>

-----------------------------------------------------------------------------
(* Submitting changesets. *)

\* Mutation: the base is not compared with the head.
SubmittableOnAnyHead(name, base) == base # None /\ name \in DOMAIN EnsuredBranches

Submittable(name, base) ==
  /\ base # None
  /\ name \in DOMAIN EnsuredBranches
  /\ LET head == EnsuredBranches[name].head
     IN  base = IF head = None THEN Root ELSE head

AdvanceHead(all, name, c) ==
  [all EXCEPT ![name] = [head |-> c, history |-> Append(@.history, c)]]

\* Mutation: what is submitted as visible is stored as a draft.
DraftRecord(name, base, status, restores) ==
  [ branch   |-> name,
    parent   |-> EnsuredBranches[name].head,
    base     |-> base,
    status   |-> "draft",
    restores |-> restores ]

NewRecord(name, base, status, restores) ==
  [ branch   |-> name,
    parent   |-> EnsuredBranches[name].head,
    base     |-> base,
    status   |-> status,
    restores |-> restores ]

\* Mutation: a submission of removals alone gets no snapshot.
StoreIfAnyAsset(c, name, base, status, delta, restores) ==
  LET snapshot == ApplyDelta(SnapshotOf(EnsuredBranches[name].head), delta)
  IN  /\ c \in Changesets \ Known
      /\ snapshots' = IF snapshot = NoAssets THEN snapshots
                      ELSE Put(snapshots, c, snapshot)
      /\ changesets' = Put(changesets, c, NewRecord(name, base, status, restores))
      /\ branches' = IF status = "visible" THEN AdvanceHead(EnsuredBranches, name, c)
                     ELSE EnsuredBranches

\* submit_internal after its checks: c is the fresh identifier.
Store(c, name, base, status, delta, restores) ==
  /\ c \in Changesets \ Known
  /\ snapshots' =
       Put(snapshots, c, ApplyDelta(SnapshotOf(EnsuredBranches[name].head), delta))
  /\ changesets' = Put(changesets, c, NewRecord(name, base, status, restores))
  /\ branches' = IF status = "visible" THEN AdvanceHead(EnsuredBranches, name, c)
                 ELSE EnsuredBranches

Submit(name, base, status, delta) ==
  /\ EnsureRepo
  /\ Submittable(name, base)
  /\ \E c \in Changesets : Store(c, name, base, status, delta, None)
  /\ UNCHANGED plans

\* A rejected submission leaves the repository and its default branch behind.
RejectSubmit(name, base) ==
  /\ EnsureRepo
  /\ ~Submittable(name, base)
  /\ branches' = EnsuredBranches
  /\ UNCHANGED <<changesets, snapshots, plans>>

-----------------------------------------------------------------------------
(* The approval gate. *)

\* Mutation: any changeset can be approved, a visible one included.
ApproveAny(c) ==
  /\ c \in Known
  /\ changesets' = [changesets EXCEPT ![c].status = "approved"]
  /\ UNCHANGED <<exists, defaultBranch, branches, snapshots, plans>>

Approve(c) ==
  /\ c \in Known
  /\ changesets[c].status = "draft"
  /\ changesets' = [changesets EXCEPT ![c].status = "approved"]
  /\ UNCHANGED <<exists, defaultBranch, branches, snapshots, plans>>

\* Mutation: the head is not compared with the base when promoting.
PromotableOnAnyHead(c) ==
  /\ changesets[c].status = "approved"
  /\ changesets[c].branch \in DOMAIN branches

\* The stored base is compared with the head as it is: an empty branch has no
\* head and no changeset has no base, so Root never matches.
Promotable(c) ==
  /\ changesets[c].status = "approved"
  /\ changesets[c].branch \in DOMAIN branches
  /\ branches[changesets[c].branch].head = changesets[c].base

Promote(c) ==
  /\ c \in Known
  /\ Promotable(c)
  /\ branches' =
       [branches EXCEPT ![changesets[c].branch] =
          [ head    |-> c,
            history |-> IF c \in Elements(@.history) THEN @.history
                        ELSE Append(@.history, c) ]]
  /\ changesets' = [changesets EXCEPT ![c].status = "visible"]
  /\ UNCHANGED <<exists, defaultBranch, snapshots, plans>>

-----------------------------------------------------------------------------
(* Rollback: plan, then submit what was planned. *)

\* Mutation: the target may be a changeset of any branch.
RollbackTargetAnywhere(name, target) ==
  /\ name \in DOMAIN branches
  /\ branches[name].head \notin {None, target}
  /\ target \in DOMAIN snapshots

RollbackTarget(name, target) ==
  /\ name \in DOMAIN branches
  /\ branches[name].head \notin {None, target}
  /\ target \in Elements(branches[name].history)
  /\ target \in DOMAIN snapshots

PlanRollback(r, name, target) ==
  /\ plans[r] = None
  /\ RollbackTarget(name, target)
  /\ LET base == branches[name].head
     IN  plans' = [plans EXCEPT ![r] =
                     [ branch |-> name, base |-> base, target |-> target,
                       delta |-> RollbackDelta(SnapshotOf(base), snapshots[target]) ]]
  /\ UNCHANGED <<exists, defaultBranch, branches, changesets, snapshots>>

SubmitRollback(r) ==
  /\ plans[r] # None
  /\ EnsureRepo
  /\ Submittable(plans[r].branch, plans[r].base)
  /\ \E c \in Changesets :
       Store(c, plans[r].branch, plans[r].base, "visible", plans[r].delta,
             plans[r].target)
  /\ plans' = [plans EXCEPT ![r] = None]

\* A lock conflict, a missing blob or a head that has moved ends the request.
RejectRollback(r) ==
  /\ plans[r] # None
  /\ plans' = [plans EXCEPT ![r] = None]
  /\ UNCHANGED <<exists, defaultBranch, branches, changesets, snapshots>>

Next ==
  \/ \E name \in Branches : CreateRepo(name)
  \/ \E name \in Branches, from \in Changesets \cup {None} :
       CreateBranch(name, from) \/ RejectCreateBranch(name, from)
  \/ \E name \in Branches, base \in Changesets \cup {None, Root} :
       \/ RejectSubmit(name, base)
       \/ \E status \in {"draft", "visible"}, delta \in Delta :
            Submit(name, base, status, delta)
  \/ \E c \in Changesets : Approve(c) \/ Promote(c)
  \/ \E r \in Rollbacks :
       \/ \E name \in Branches, target \in Changesets : PlanRollback(r, name, target)
       \/ SubmitRollback(r)
       \/ RejectRollback(r)

Spec == Init /\ [][Next]_vars

-----------------------------------------------------------------------------
(* Properties. *)

\* Every variable holds a value of its Rust type.
TypeOK ==
  /\ exists \in BOOLEAN
  /\ defaultBranch \in Branches
  /\ DOMAIN branches \subseteq Branches
  /\ branches \in [DOMAIN branches -> BranchState]
  /\ Known \subseteq Changesets
  /\ changesets \in [Known -> Record]
  /\ snapshots \in [Known -> Snapshot]
  /\ plans \in [Rollbacks -> Plan \cup {None}]

IsLineage(records, s, c) ==
  /\ s \in Seq(DOMAIN records)
  /\ s # << >>
  /\ s[Len(s)] = c
  /\ records[s[1]].parent = None
  /\ \A i \in 1..(Len(s) - 1) : records[s[i + 1]].parent = s[i]

\* A branch's history, kept by appending in submit and promote, is at all times
\* the chain of parents that ends in its head, which is what create_branch and a
\* reload from the database compute; no interleaving of drafts, promotions,
\* rollbacks and new branches makes the two differ.
HistoryIsLineage ==
  \A b \in DOMAIN branches :
    IF branches[b].head = None THEN branches[b].history = << >>
    ELSE IsLineage(changesets, branches[b].history, branches[b].head)

\* A head only ever moves to a changeset made on top of the head it replaces:
\* work based on an older head, a draft or a rollback plan included, is never
\* laid over changes its author has not seen ("stale submission rejection").
HeadMovesToItsChild ==
  [][\A b \in DOMAIN branches :
       branches'[b].head # branches[b].head =>
         changesets'[branches'[b].head].parent = branches[b].head]_vars

\* A branch never disappears and its history only grows at the end: a rollback
\* makes a new record and rewrites nothing.
HistoryOnlyGrows ==
  [][\A b \in DOMAIN branches :
       /\ b \in DOMAIN branches'
       /\ Len(branches[b].history) <= Len(branches'[b].history)
       /\ SubSeq(branches'[b].history, 1, Len(branches[b].history))
            = branches[b].history]_vars

\* A changeset is in the history of the branch it was submitted to exactly when
\* it is visible, also when other branches were started from it as a draft.
VisibleIffInOwnHistory ==
  \A c \in Known :
    (changesets[c].status = "visible")
      <=> c \in Elements(branches[changesets[c].branch].history)

\* A draft becomes visible only by way of an approval, a visible changeset
\* stays visible, and a changeset is never forgotten.
GateIsNotSkipped ==
  [][\A c \in Known :
       /\ c \in Known'
       /\ <<changesets[c].status, changesets'[c].status>> \in
            { <<"draft", "draft">>, <<"draft", "approved">>,
              <<"approved", "approved">>, <<"approved", "visible">>,
              <<"visible", "visible">> }]_vars

\* The rollback handler plans against one head and submits later; when the
\* submission is accepted, every asset has the content it had at the target,
\* whatever was submitted or promoted between the two steps.
RollbackRestoresContent ==
  \A c \in Known :
    changesets[c].restores # None =>
      \A a \in Assets :
        BlobOf(snapshots[c][a]) = BlobOf(snapshots[changesets[c].restores][a])

\* What users see of branches, and of a changeset.
LinesOf(all) == [b \in DOMAIN all |-> all[b].history]

Seen(c) == [ branch   |-> changesets[c].branch,
             after    |-> changesets[c].parent,
             content  |-> [a \in Assets |-> BlobOf(SnapshotOf(c)[a])],
             restores |-> changesets[c].restores ]

Line == LinesOf(branches)
Made == [c \in Known |-> Seen(c)]
Approved == {c \in Known : changesets[c].status = "approved"}

Shown == INSTANCE Timeline WITH
  Contents <- [Assets -> Blobs \cup {None}], line <- Line, made <- Made, approved <- Approved

\* Whatever drafts, approvals, promotions, rollbacks and new branches come
\* between one another, and however long a rollback waits for its blob checks,
\* every operation that succeeds extends at most one branch, by one changeset,
\* whose author had seen the end it is put after; a rollback puts the content
\* of an earlier changeset of the same branch there.
OneTimeline == Shown!Spec

\* A changeset that is approved, and whose branch has not moved since it was
\* submitted, can be promoted.  The code refuses the first changeset of an empty
\* branch: submit asks for the base ROOT_BASE_CHANGESET_ID there, and promote
\* compares that base with a head that is None.
ApprovedTipIsPromotable ==
  \A c \in Known :
    LET record == changesets[c]
    IN  (record.status = "approved" /\ record.parent = branches[record.branch].head)
          => Promotable(c)
=============================================================================
