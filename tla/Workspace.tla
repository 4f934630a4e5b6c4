------------------------------- MODULE Workspace -------------------------------
(***************************************************************************)
(* The command line client (crates/cli), one workspace for each client,    *)
(* over the handlers of Submission and Sessions: the files a user edits,   *)
(* and the state in .hypertide that a command reads at its start and       *)
(* writes at its end, when the server answered.  Others submit, take locks *)
(* and promote meanwhile; an answer may be lost, and the server stop.      *)
(*                                                                         *)
(* A user runs one command at a time, on the branch of the profile, and    *)
(* edits no file while a command runs.  Files that cannot be read or       *)
(* written are left out, except that a checkout may stop half-way.         *)
(***************************************************************************)
EXTENDS Submission

CONSTANTS
  Workloads,   \* what happens: [ops, users, holders, blobs]; who is no
               \* user calls the handlers, holders take locks, blobs is what they write
  MaxEdits     \* bound on the changes a client makes to its stage

ASSUME WorkloadsAreKnown == \A w \in Workloads :
  /\ w.ops \subseteq { "edit", "stage", "checkout", "sync", "switch", "submit", "draft", "rollback",
                      "checkpoint", "gate", "call", "session", "restart" }
  /\ w.users \subseteq Clients /\ w.holders \subseteq Clients
  /\ w.blobs \subseteq Blobs \cup {None}

VARIABLES
  load,
  files,      \* client -> path -> the blob of the file, or None
  profile,    \* CliProfile.current_branch
  stage,      \* StageFile: branch, base and the staged deltas
  workspace,  \* WorkspaceState: branch, base and checked_out_assets; or None
  session,    \* SessionState.current_session_id
  edits,      \* ghost: client -> the number of its changes
  seen        \* ghost: client -> the changesets it has checked out

clientVars == <<load, files, profile, stage, workspace, session, edits, seen>>
vars == <<clientVars, handlerVars, sessionVars>>

NoFiles == [p \in Paths |-> None]
EmptyStage(branch, base) == [branch |-> branch, base |-> base, delta |-> NoDelta]

Init ==
  /\ load \in Workloads
  /\ HandlerInit
  /\ SessionsInit
  /\ files = [u \in Clients |-> NoFiles]
  /\ profile = [u \in Clients |-> Main]
  /\ stage = [u \in Clients |-> EmptyStage(Main, None)]
  /\ workspace = [u \in Clients |-> None]
  /\ session = [u \in Clients |-> None]
  /\ edits = [u \in Clients |-> 0]
  /\ seen = [u \in Clients |-> {}]

-----------------------------------------------------------------------------

May(u, op) == op \in load.ops /\ u \in load.users /\ request[u] = None
Change(u) == edits[u] < MaxEdits /\ edits' = [edits EXCEPT ![u] = @ + 1]
Overwrite(u, content) ==
  files' = [files EXCEPT ![u] = [p \in Paths |-> IF content[p] = None THEN @[p] ELSE content[p]]]

\* The user writes or removes a file.
EditFile(u, p, b) ==
  /\ May(u, "edit")
  /\ files[u][p] # b
  /\ files' = [files EXCEPT ![u][p] = b]
  /\ UNCHANGED <<load, profile, stage, workspace, session, edits, seen, handlerVars, sessionVars>>

\* upsert_stage_asset, in the stage of this branch or a new one.
StageAsset(u, p, entry) ==
  LET old == IF stage[u].branch = profile[u] THEN stage[u] ELSE EmptyStage(profile[u], None)
  IN  /\ Change(u)
      /\ stage' = [stage EXCEPT ![u] = [old EXCEPT !.delta[p] = entry]]
      /\ UNCHANGED <<load, files, profile, workspace, session, seen, handlerVars, sessionVars>>

AddFile(u, p) ==
  /\ May(u, "edit")
  /\ files[u][p] # None
  /\ StageAsset(u, p, Written(p, files[u][p]))

RemoveAsset(u, p) ==
  /\ May(u, "stage")
  /\ StageAsset(u, p, None)

ClearStage(u) ==
  /\ May(u, "stage")
  /\ stage[u].delta # NoDelta
  /\ Change(u)
  /\ stage' = [stage EXCEPT ![u].delta = NoDelta]
  /\ UNCHANGED <<load, files, profile, workspace, session, seen, handlerVars, sessionVars>>

\* fetch_snapshot: the head, or a changeset of the branch.
Fetchable(u) ==
  IF profile[u] \notin DOMAIN branches THEN {}
  ELSE {HeadOf(profile[u])} \cup Manager!Elements(branches[profile[u]].history)

Content(c) == [p \in Paths |-> BlobAt(c, p)]

\* sync: what is staged is kept, and its base replaced.
Sync(u, c) ==
  /\ May(u, "sync")
  /\ c \in Fetchable(u)
  /\ Change(u)
  /\ stage' = [stage EXCEPT ![u].base = c]
  /\ workspace' = IF workspace[u] # None /\ workspace[u].branch = profile[u]
                  THEN [workspace EXCEPT ![u].base = c] ELSE workspace
  /\ UNCHANGED <<load, files, profile, session, seen, handlerVars, sessionVars>>

\* detect_local_modifications: a tracked file that is there and is not the same.
Modified(u) ==
  /\ workspace[u] # None
  /\ \E p \in Paths : /\ workspace[u].assets[p] # None
                      /\ files[u][p] \notin {None, workspace[u].assets[p]}

\* With --force a checkout does not look for modifications.
Checkout(u, c, force) ==
  /\ May(u, "checkout")
  /\ c \in Fetchable(u)
  /\ force = Modified(u)
  /\ Change(u)
  /\ Overwrite(u, Content(c))
  /\ workspace' = [workspace EXCEPT ![u] = [branch |-> profile[u], base |-> c, assets |-> Content(c)]]
  /\ stage' = [stage EXCEPT ![u] = EmptyStage(profile[u], c)]
  /\ seen' = [seen EXCEPT ![u] = @ \cup ({c} \ {None})]
  /\ UNCHANGED <<load, profile, session, handlerVars, sessionVars>>

\* Files are written before the state of the workspace is saved.
CheckoutStops(u, c) ==
  /\ May(u, "checkout")
  /\ c \in Fetchable(u)
  /\ ~Modified(u)
  /\ Change(u)
  /\ \E written \in SUBSET Paths :
       Overwrite(u, [p \in Paths |-> IF p \in written THEN BlobAt(c, p) ELSE None])
  /\ UNCHANGED <<load, profile, stage, workspace, session, seen, handlerVars, sessionVars>>

SwitchBranch(u, b, force) ==
  /\ May(u, "switch")
  /\ b \in DOMAIN branches
  /\ force = (stage[u].delta # NoDelta)
  /\ Change(u)
  /\ profile' = [profile EXCEPT ![u] = b]
  /\ stage' = [stage EXCEPT ![u] = EmptyStage(b, None)]
  /\ UNCHANGED <<load, files, workspace, session, seen, handlerVars, sessionVars>>

-----------------------------------------------------------------------------
(* Commands that change the repository. *)

\* Mutation: the base is that of the branch when the command is run.
BaseOfBranch(u) == IF HeadOf(profile[u]) = None THEN Root ELSE HeadOf(profile[u])

\* resolve_base_changeset: that of the stage; without one, what the branch has now.
ResolvedBase(u) ==
  IF stage[u].base # None THEN stage[u].base
  ELSE IF HeadOf(profile[u]) = None THEN Root ELSE HeadOf(profile[u])

\* A set that is staged on a base of its own is named; one without is None.
StagedSet(u) == IF stage[u].base = None THEN None ELSE <<u, edits[u]>>

Submit(u, status, checkpoint) ==
  /\ May(u, "submit")
  /\ profile[u] \in DOMAIN branches
  /\ stage[u].delta # NoDelta
  /\ Send(u, Submission("submit", profile[u], ResolvedBase(u), status, stage[u].delta, checkpoint, StagedSet(u)))
  /\ UNCHANGED <<clientVars, versionVars, lock, author, held, sessionVars>>

\* The stage is emptied, and its base is the changeset that was made.
Submitted(u) ==
  /\ IsAt(u, "answer")
  /\ stage' = [stage EXCEPT ![u] = EmptyStage(profile[u], request[u].made)]
  /\ EndRequest(u)
  /\ UNCHANGED <<load, files, profile, workspace, session, edits, seen>>
  /\ UNCHANGED <<versionVars, lock, author, held, sessionVars>>

\* The answer is lost: the command fails and nothing is written.
AnswerLost(u) ==
  /\ IsAt(u, "answer")
  /\ EndRequest(u)
  /\ UNCHANGED <<clientVars, versionVars, lock, author, held, sessionVars>>

\* The command, or a call of the handler.
Rollback(u, target) ==
  /\ "rollback" \in load.ops
  /\ Send(u, RollbackTo(profile[u], target))
  /\ UNCHANGED <<clientVars, versionVars, lock, author, held, sessionVars>>

Only(p, b) == [NoDelta EXCEPT ![p] = IF b = None THEN None ELSE Written(p, b)]
NewestBase == IF HeadOf(Main) = None THEN Root ELSE HeadOf(Main)

\* A client that calls the handler itself, with the base it has just read, or that
\* of a checkpoint whose assets it submits.
Call(u, status, p, b) ==
  /\ "call" \in load.ops /\ u \notin load.users
  /\ Send(u, Submission("call", Main, NewestBase, status, Only(p, b), None, None))
  /\ UNCHANGED <<clientVars, versionVars, lock, author, held, sessionVars>>

CallWithCheckpoint(u, status, k) ==
  /\ "call" \in load.ops /\ u \notin load.users
  /\ Send(u, Submission("call", Main, BaseOf(k), status, NoDelta, k, None))
  /\ UNCHANGED <<clientVars, versionVars, lock, author, held, sessionVars>>

-----------------------------------------------------------------------------
(* Sessions and checkpoints. *)

\* ensure_session
BeginSession(u) ==
  /\ May(u, "checkpoint")
  /\ session[u] = None
  /\ CreateSession(profile[u], IF workspace[u] # None /\ workspace[u].base # None
                               THEN workspace[u].base ELSE stage[u].base)
  /\ session' = [session EXCEPT ![u] = NextSession]
  /\ UNCHANGED <<load, files, profile, stage, workspace, edits, seen, handlerVars>>

\* What is staged, without its removals, or else the tracked files.
CheckpointAssets(u) ==
  IF stage[u].delta # NoDelta
  THEN [p \in Paths |-> IF stage[u].delta[p] \in {Keep, None} THEN None ELSE stage[u].delta[p].blob]
  ELSE [p \in Paths |-> IF workspace[u].assets[p] = None THEN None ELSE files[u][p]]

Collectable(u) ==
  stage[u].delta = NoDelta =>
    /\ workspace[u] # None
    /\ \A p \in Paths : workspace[u].assets[p] # None => files[u][p] # None

Save(u) ==
  /\ May(u, "checkpoint")
  /\ session[u] # None
  /\ Collectable(u)
  /\ CreateCheckpoint(session[u], CheckpointAssets(u))
  /\ UNCHANGED <<clientVars, handlerVars>>

\* materialize_checkpoint_snapshot, and then the branch of the stage.
Materialize(u, k, branch) ==
  /\ Overwrite(u, AssetsOf(k))
  /\ workspace' = [workspace EXCEPT ![u] =
       [branch |-> BranchOf(k), base |-> BaseOf(k), assets |-> AssetsOf(k)]]
  /\ stage' = [stage EXCEPT ![u] = EmptyStage(branch, BaseOf(k))]
  /\ UNCHANGED <<load, session, seen>>

\* A user restores checkpoints of the own session.
Restore(u, k) ==
  /\ May(u, "checkpoint")
  /\ InMemory(k)
  /\ madeCheckpoints[k].session = session[u]
  /\ Change(u)
  /\ Materialize(u, k, BranchOf(k))
  /\ UNCHANGED <<profile, handlerVars, sessionVars>>

BranchCheckpoint(u, k, name) ==
  /\ May(u, "checkpoint")
  /\ InMemory(k)
  /\ madeCheckpoints[k].session = session[u]
  /\ CreateBranch(name, BaseOf(k))
  /\ Change(u)
  /\ Materialize(u, k, name)
  /\ profile' = [profile EXCEPT ![u] = name]
  /\ UNCHANGED sessionVars

Restart ==
  /\ "restart" \in load.ops
  /\ RestartHandlers
  /\ RestartSessions
  /\ UNCHANGED clientVars

Statuses == IF "draft" \in load.ops THEN {None, "draft"} ELSE {None}

Command(u) ==
  \/ \E p \in Paths :
       \/ \E b \in load.blobs : EditFile(u, p, b)
       \/ AddFile(u, p) \/ RemoveAsset(u, p)
  \/ ClearStage(u)
  \/ \E c \in Changesets \cup {None} :
       Sync(u, c) \/ (\E force \in BOOLEAN : Checkout(u, c, force)) \/ CheckoutStops(u, c)
  \/ \E b \in Branches, force \in BOOLEAN : SwitchBranch(u, b, force)
  \/ \E status \in Statuses :
       \E checkpoint \in {None} \cup 1..Len(madeCheckpoints) : Submit(u, status, checkpoint)
  \/ Submitted(u) \/ AnswerLost(u)
  \/ \E target \in Changesets : Rollback(u, target)
  \/ \E status \in Statuses :
       \/ \E p \in Paths, b \in load.blobs : Call(u, status, p, b)
       \/ \E k \in 1..Len(madeCheckpoints) : CallWithCheckpoint(u, status, k)
  \/ BeginSession(u) \/ Save(u)
  \/ \E k \in 1..Len(madeCheckpoints) :
       Restore(u, k) \/ (\E name \in Branches : BranchCheckpoint(u, k, name))

\* What others do: calls of the server by clients of another kind.
Others ==
  \/ \E p \in Paths : FreePath(p) \/ \E u \in load.holders : LockPath(u, p)
  \/ \E c \in Changesets : "gate" \in load.ops /\ ApproveOrPromote(c)
  \/ \E name \in Branches, from \in Known \cup {None} : "switch" \in load.ops /\ CreateBranch(name, from)

Sessioning ==
  \/ "session" \in load.ops /\ CreateSession(Main, None)
  \/ "session" \in load.ops /\ \E s \in sessions : CreateCheckpoint(s, NoFiles)
  \/ \E s \in SessionIds : InsertSession(s)
  \/ \E k \in CheckpointIds : InsertCheckpoint(k)
  \/ "restart" \in load.ops /\ FailInsertion

Next ==
  \/ \E u \in Clients :
       \/ Command(u)
       \/ (CheckSubmission(u) \/ CheckRollback(u) \/ TakeEffect(u) \/ Refuse(u))
            /\ UNCHANGED <<clientVars, sessionVars>>
  \/ Others /\ UNCHANGED <<clientVars, sessionVars>>
  \/ Sessioning /\ UNCHANGED <<clientVars, handlerVars>>
  \/ Restart

Spec == Init /\ [][Next]_vars

-----------------------------------------------------------------------------
(* Properties. *)

StageType == [branch : Branches, base : Changesets \cup {None}, delta : Manager!Delta]

TypeOK ==
  /\ HandlerTypeOK
  /\ SessionTypeOK
  /\ files \in [Clients -> [Paths -> Blobs \cup {None}]]
  /\ profile \in [Clients -> Branches]
  /\ stage \in [Clients -> StageType]
  /\ \A u \in Clients : workspace[u] # None =>
       workspace[u].base \in Known \cup {None} /\ workspace[u].assets \in [Paths -> Blobs \cup {None}]
  /\ \A u \in Clients : stage[u].base \in Known \cup {None}
  /\ session \in [Clients -> SessionIds \cup {None}]

\* A lock protects what its holder did: once a change that the holder made under
\* the lock is in effect on a branch, only the holder changes that path there until
\* the lock is free, although the locks are read long before a submission, a
\* rollback or a promotion takes effect (api/versioning.rs, ensure_lock_access).
HolderKeepsItsContent ==
  [][\A b \in DOMAIN branches, p \in Paths :
       held[<<b, p>>] # None /\ BlobAt(HeadOf(b), p) # BlobAt(HeadOf(b), p)' =>
         author'[branches'[b].head].client = held[<<b, p>>]]_vars

\* A set that is staged on a base becomes visible once, although its answer is lost
\* and the command is run again, as a draft or not, and others submit and promote
\* in between (cmd/submit.rs).
SubmitOnce ==
  \A c, d \in Known :
    /\ changesets[c].status = "visible" /\ changesets[d].status = "visible"
    /\ author[c].set # None /\ author[c].set = author[d].set
    => c = d

\* Who does not sync and submits on a base lays no work over changes that were not
\* checked out, nor made, by this client: whatever was lost, restored from a
\* checkpoint or started again on another branch (cmd/checkout.rs, cmd/submit.rs).
NothingUnseenIsOverwritten ==
  \A c \in Known :
    /\ "sync" \notin load.ops
    /\ changesets[c].status = "visible" /\ changesets[c].parent # None
    /\ author[c].set # None
    => \/ changesets[c].parent \in seen[author[c].client]
       \/ author[changesets[c].parent].client = author[c].client
=============================================================================
