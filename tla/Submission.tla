------------------------------ MODULE Submission ------------------------------
(***************************************************************************)
(* The handlers that change a repository (api/versioning.rs), over the     *)
(* version manager of Versioning, the sessions and the locks.  A submission*)
(* or a rollback reads the checkpoint it names, the plan and the locks,    *)
(* awaits the check of its blobs, and takes effect later: meanwhile others *)
(* take locks, submit and promote.                                         *)
(*                                                                         *)
(* A lock is its entry in the cache (LockManager); the asset of a delta is *)
(* identified by its path, as it is when a request gives no other          *)
(* identifier.  The blobs that are named exist.                            *)
(***************************************************************************)
EXTENDS Sessions

CONSTANTS Clients, Changesets, Branches, Main, Paths, Blobs, Root, Keep

ASSUME MainIsABranch == Main \in Branches
ASSUME MarkersAreFresh ==
  /\ None \notin Changesets \cup Clients \cup Blobs
  /\ Root \notin Changesets \cup {None}
  /\ Keep \notin [path : Paths, blob : Blobs] \cup {None}

VARIABLES
  exists, defaultBranch, branches, changesets, snapshots,   \* see Versioning
  lock,      \* path -> who holds it, or None
  request,   \* client -> its submission or rollback, or None
  author,    \* changeset -> who submitted it
  held       \* ghost: <<branch, path>> -> the holder whose change is in effect, or None

versionVars == <<exists, defaultBranch, branches, changesets, snapshots>>
handlerVars == <<versionVars, lock, request, author, held>>

Manager == INSTANCE Versioning WITH Assets <- Paths, Rollbacks <- {}, plans <- [r \in {} |-> None]

NoDelta == [p \in Paths |-> Keep]
Written(p, b) == [path |-> p, blob |-> b]

\* What a client asks for.  set: ghost, the staged set that is submitted.
Submission(kind, branch, base, status, delta, checkpoint, set) ==
  [ kind |-> kind, branch |-> branch, base |-> base, status |-> status, delta |-> delta,
    checkpoint |-> checkpoint, target |-> None, set |-> set, at |-> "sent" ]

RollbackTo(branch, target) ==
  [ kind |-> "rollback", branch |-> branch, base |-> None, status |-> "visible", delta |-> NoDelta,
    checkpoint |-> None, target |-> target, set |-> None, at |-> "sent" ]

\* Past its checks: what the handler will hand to the version manager.
Checked(message, base, status, delta) ==
  [ kind |-> message.kind, branch |-> message.branch, base |-> base, status |-> status,
    delta |-> delta, checkpoint |-> message.checkpoint, target |-> message.target,
    set |-> message.set, at |-> "checked" ]

Answer(c) == [made |-> c, at |-> "answer"]

\* A repository that was created.
HandlerInit ==
  /\ exists = TRUE
  /\ defaultBranch = Main
  /\ branches = [b \in {Main} |-> Manager!NewBranch]
  /\ changesets = [c \in {} |-> None]
  /\ snapshots = [c \in {} |-> Manager!NoAssets]
  /\ lock = [p \in Paths |-> None]
  /\ request = [u \in Clients |-> None]
  /\ author = [c \in {} |-> None]
  /\ held = [x \in Branches \X Paths |-> None]

-----------------------------------------------------------------------------

Known == DOMAIN changesets
HeadOf(b) == IF b \in DOMAIN branches THEN branches[b].head ELSE None
BlobAt(c, p) == Manager!BlobOf(Manager!SnapshotOf(c)[p])

IsAt(u, step) == request[u] # None /\ request[u].at = step
Send(u, message) == request[u] = None /\ request' = [request EXCEPT ![u] = message]
EndRequest(u) == request' = [request EXCEPT ![u] = None]

LockPath(u, p) ==
  /\ lock[p] = None
  /\ lock' = [lock EXCEPT ![p] = u]
  /\ UNCHANGED <<versionVars, request, author, held>>

\* Released, removed by an administrator, or lapsed.
FreePath(p) ==
  /\ lock[p] # None
  /\ lock' = [lock EXCEPT ![p] = None]
  /\ held' = [x \in Branches \X Paths |-> IF x[2] = p THEN None ELSE held[x]]
  /\ UNCHANGED <<versionVars, request, author>>

\* Mutation: only what is written is looked up, and removals are not.
NoLockOnWrites(u, delta) ==
  \A p \in Paths : delta[p] \notin {Keep, None} => lock[p] \in {u, None}

\* ensure_lock_access
NoLockAgainst(u, delta) == \A p \in Paths : delta[p] # Keep => lock[p] \in {u, None}

\* The checkpoint a submission names has the same branch and the same base.
FromCheckpoint(message) ==
  message.checkpoint # None =>
    /\ InMemory(message.checkpoint)
    /\ message.branch = BranchOf(message.checkpoint)
    /\ message.base = BaseOf(message.checkpoint)

\* A submission without assets takes those of its checkpoint.
DeltaOf(message) ==
  IF message.delta # NoDelta \/ message.checkpoint = None THEN message.delta
  ELSE [p \in Paths |-> LET b == AssetsOf(message.checkpoint)[p]
                        IN  IF b = None THEN Keep ELSE Written(p, b)]

\* Mutation: a visibility that is not given is left open.
StatusAsGiven(message) == message.status

\* A submission without a visibility is visible, or a draft of its checkpoint.
StatusOf(message) ==
  IF message.status # None THEN message.status
  ELSE IF message.checkpoint = None THEN "visible" ELSE "draft"

CheckSubmission(u) ==
  LET message == request[u] IN
  /\ IsAt(u, "sent")
  /\ message.kind # "rollback"
  /\ FromCheckpoint(message)
  /\ NoLockAgainst(u, DeltaOf(message))
  /\ request' = [request EXCEPT ![u] =
       Checked(message, message.base, StatusOf(message), DeltaOf(message))]
  /\ UNCHANGED <<versionVars, lock, author, held>>

CheckRollback(u) ==
  LET message == request[u]
      head == branches[message.branch].head
      plan == Manager!RollbackDelta(snapshots[head], snapshots[message.target])
  IN
  /\ IsAt(u, "sent")
  /\ message.kind = "rollback"
  /\ Manager!RollbackTarget(message.branch, message.target)
  /\ NoLockAgainst(u, plan)
  /\ request' = [request EXCEPT ![u] = Checked(message, head, "visible", plan)]
  /\ UNCHANGED <<versionVars, lock, author, held>>

NextChangeset == CHOOSE c \in Changesets : c \notin Known

\* version_manager.submit_changeset, after the await.  A command awaits its answer.
TakeEffect(u) ==
  LET message == request[u] IN
  /\ IsAt(u, "checked")
  /\ Changesets # Known
  /\ Manager!EnsureRepo
  /\ Manager!Submittable(message.branch, message.base)
  /\ Manager!Store(NextChangeset, message.branch, message.base, message.status, message.delta,
                   message.target)
  /\ author' = Manager!Put(author, NextChangeset, [client |-> u, set |-> message.set])
  /\ held' = [x \in Branches \X Paths |->
       IF /\ x[1] = message.branch /\ message.status = "visible"
          /\ lock[x[2]] = u /\ message.delta[x[2]] # Keep
       THEN u ELSE held[x]]
  /\ request' = [request EXCEPT ![u] = IF message.kind # "submit" THEN None ELSE Answer(NextChangeset)]
  /\ UNCHANGED lock

\* A request is refused, by a check or by the version manager, or is lost.
Refuse(u) ==
  /\ request[u] # None
  /\ request[u].at \in {"sent", "checked"}
  /\ EndRequest(u)
  /\ UNCHANGED <<versionVars, lock, author, held>>

ApproveOrPromote(c) ==
  /\ c \in Known
  /\ Manager!Approve(c) \/ Manager!Promote(c)
  /\ UNCHANGED <<lock, request, author, held>>

CreateBranch(name, from) ==
  /\ Manager!CreateBranch(name, from)
  /\ UNCHANGED <<lock, request, author, held>>

RestartHandlers ==
  /\ request' = [u \in Clients |-> None]
  /\ UNCHANGED <<versionVars, lock, author, held>>

-----------------------------------------------------------------------------
(* Properties. *)

Message ==
  [ kind : {"submit", "call", "rollback"}, branch : Branches,
    base : Changesets \cup {None, Root}, status : {"visible", "draft", None},
    delta : Manager!Delta, checkpoint : CheckpointIds \cup {None},
    target : Changesets \cup {None}, set : (Clients \X Nat) \cup {None},
    at : {"sent", "checked"} ]

HandlerTypeOK ==
  /\ Manager!TypeOK
  /\ lock \in [Paths -> Clients \cup {None}]
  /\ request \in [Clients -> Message \cup [made : Changesets, at : {"answer"}] \cup {None}]
  /\ author \in [Known -> [client : Clients, set : (Clients \X Nat) \cup {None}]]
  /\ held \in [Branches \X Paths -> Clients \cup {None}]
=============================================================================
