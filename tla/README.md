# HyperTide: a TLA+ model of the asset version control server

HyperTide (`src/`) is a centralised version control system for large binary
assets: a Rust server (`src/crates/server`, axum + PostgreSQL + a content
addressed store on disk) and a command line client `ht` (`src/crates/cli`). This
directory models the server's core logic in TLA+, checks it with TLC on small
instances and proves most of its safety properties with TLAPS for every instance.

All paths below are relative to `src/`; `server/` stands for
`crates/server/src/` and `cli/` for `crates/cli/src/`.

## 1. The system

### 1.1 Components, state and operations

| Component | Code | State | Operations | What makes it correct |
|---|---|---|---|---|
| Version manager | `server/core/versioning.rs` | per repository: default branch, branches (head, history), changesets, snapshots; one `RwLock<HashMap>` | create_repo, create_branch, submit, approve, promote, rollback plan, history, sync | histories are lineages; no lost updates; draft/approve/promote gate is not skipped; a rollback restores what it names |
| Version persistence | `server/core/versioning/repo_pg.rs`, `persist_repo` | tables repos, branches, changesets, asset_deltas, snapshots | replace a repository's rows; load at start | a restart gives back what clients were told |
| Lock manager | `server/core/lock.rs`, `lock/repo_pg.rs`, `api/lock.rs` | row per path in `locks`, cache `DashMap` by path | acquire, renew, release, force-release, list, get_lock | one holder per lease; cache agrees with the table |
| Versioning API | `server/api/versioning.rs` | none of its own | the handlers: identity, checkpoint lineage, lock check, blob check, then the version manager, then event and audit records | a check still holds when what it guards happens |
| Sessions and checkpoints | `server/core/session.rs`, `api/session.rs` | sessions, checkpoints and their order, in memory; two tables | create session, save checkpoint, list, snapshot | a session's checkpoints form one chain, also after a restart |
| Auth | `server/core/auth.rs`, `auth/repo.rs`, `auth/token.rs` | API keys (memory + table), refresh tokens in families | exchange, refresh (rotation), revoke, verify | only a live refresh token is used and each use takes it; a replay ends the family |
| High-risk guard | `server/core/high_risk.rs` | nonce table | verify a signed request | a signed request is refused as long as its nonce is kept |
| Audit chain | `server/core/audit_chain.rs` | append-only hash-chained table | append, verify | one chain, no forks; verify accepts exactly what append made |
| Trust checkpoints, witnesses | `server/core/checkpoint.rs`, `witness.rs` | checkpoints, receipts | generate, attest, summarise | a checkpoint names one state of the log; a quorum is of configured witnesses |
| Event store, replay | `server/core/events/mod.rs`, `replay.rs` | event table; state rebuilt from it | append; rebuild, save, verify incrementally | replayed state = live state; incremental = full |
| Storage | `server/core/storage.rs`, `storage_backend.rs`, `api/storage.rs`, `api/blobs.rs`, `api/manifests.rs` | objects by hash, temp files; chunk and manifest tables | store, retrieve, exists, manifests | an object under a hash has that content, also with concurrent writers |
| Rate limiter, metrics | `server/state.rs` | a window per bucket; counters | allow, record | at most N requests in a window |
| CLI | `cli/` | `.hypertide/`: profile, stage, workspace base | add, stage, submit, sync, checkout, branch, lock, rollback, ... | the workspace's base is the changeset its files come from |
| Configuration, routes, health | `server/core/config.rs`, `server/routes.rs`, `bootstrap.rs`, `health.rs` | none | start-up and wiring | - |

### 1.2 How they interact

A handler authenticates, then calls managers in turn. The version manager's
operations run under one write lock, so they are atomic with respect to each
other; everything that happens between them is not: **a handler reads from the lock
manager or the version manager, awaits, and acts later**, and **a manager changes
memory under its lock, releases the lock, and then awaits PostgreSQL**. At start the
managers are filled from PostgreSQL (`bootstrap.rs:99-120`). Event and audit
records are appended after the operation; failures to append are only logged.

### 1.3 Where it is hard

- A rollback plans against one head and submits later (`api/versioning.rs:623-664`).
- Saving happens after the write lock is released, in any order, and a failure is
  logged and answered as a success (`versioning.rs:476-487`).
- Reloading rebuilds histories from parents and forgets snapshots without rows
  (`repo_pg.rs:208-245`).
- The lock manager's cache is read before an await and the table is written after
  it, by path alone (`lock.rs:135-169`, `174-194`).
- Leases end while requests are under way (`lock.rs:228`).
- Clients page through a history whose newest end moves (`versioning.rs:693-710`).
- Two-step protocols without a transaction: refresh rotation (`auth.rs:426-488`),
  checkpoint generation (`checkpoint.rs:27-97`), session checkpoints.

- An audit append waits for a lock that others hold while they fail (`audit_chain.rs:58-113`);
  events and audit entries follow an effect that is already visible (`api/versioning.rs:496-552`).
- Writers of one content share one temporary file, which the next one empties (`storage.rs:124-157`).
- Locks are read before an await and the submission takes effect after it (`api/versioning.rs:466-496`).
- A command of the client whose answer is lost is run again from the state before it.

`PROJECT.json` lists these as hazards, each at its line, with the properties that
cover it or the reason none does yet.

## 2. The modules

| Module | Models | Role |
|---|---|---|
| `Versioning` | `core/versioning.rs` and the two steps of the rollback handler | the core |
| `Timeline` | - | what a repository promises, the abstract specification of `Versioning` |
| `VersioningProofs` | - | proofs about `Versioning`, and that it implements `Timeline` |
| `VersionPersistence` | `persist_repo`, `repo_pg.rs`, restart | `Versioning` composed with the database |
| `VersionPersistenceProofs` | - | proofs, over an instance of `VersioningProofs` |
| `HistoryPaging` | `VersionManager::history` and its readers | `Versioning` composed with readers |
| `HistoryPagingProofs` | - | proofs, over `VersioningProofs` |
| `LockManager` | `core/lock.rs`, `lock/repo_pg.rs` | the lock of one path |
| `Lease` | - | what a lock promises, the abstract specification of `LockManager` |
| `LockManagerProofs` | - | proofs about `LockManager`, and that it implements `Lease` |
| `ApiKeys` | `core/auth.rs`, `auth/repo.rs`, `api/auth.rs`, `core/high_risk.rs` | API keys and the guard of signed requests |
| `RefreshTokens` | the same files and `auth/token.rs` | refresh tokens, over `ApiKeys` |
| `TokenFamily` | - | what a family of tokens promises, the abstract specification of `RefreshTokens` |
| `RefreshTokensProofs` | - | proofs about `ApiKeys` and `RefreshTokens`, and that they implement `TokenFamily` |
| `AuditChain` | `core/audit_chain.rs`, `core/checkpoint.rs`, `core/witness.rs`, `api/trust.rs` | the chain, its checkpoints and their witnesses |
| `Replay` | `core/events/mod.rs`, `core/replay.rs`, the handlers' events and audit entries | `Versioning`, locks and `AuditChain` composed with the event store |
| `ReplayProofs` | - | proofs about `AuditChain` and `Replay` |
| `Storage` | `core/storage.rs` | the object store on disk |
| `Upload` | `api/storage.rs`, `api/blobs.rs`, `api/manifests.rs`, uploads in `cli/utils.rs` | `Storage` composed with its handlers and clients |
| `UploadProofs` | - | proofs about `Storage` and `Upload` |
| `Sessions` | `core/session.rs`, `api/session.rs`, their tables | sessions and checkpoints |
| `Submission` | `api/versioning.rs` | the handlers over `Versioning`, `Sessions` and the locks |
| `Workspace` | `cli/utils.rs`, `cli/cmd/` | the client's commands over `Submission` |
| `WorkspaceProofs` | - | proofs about `Sessions`, `Submission` and `Workspace`, over an instance of `VersioningProofs`, and that its repository implements `Timeline` |
| `MC*` | - | symmetry sets and workloads for TLC |

### 2.1 `Versioning` and `Timeline`

State: the fields of one `RepoState`, under the code's names, and whether the
repository exists. Repositories do not read each other (each operation gets one
entry of the map), so one of them shows every behaviour. A `BranchState` is its
head and its history; authors, messages, timestamps and agent metadata are left
out because no operation tests them. `plans` holds the plans of rollback requests
that are between `build_rollback_plan` and `submit_changeset`.

Actions: one per operation and outcome. `Reject...` actions exist where a refused
call still changes state: `create_branch` and `submit_changeset` make the
repository and its default branch before they check anything
(`versioning.rs:367-370`, `463-466`). `Store` is `submit_internal` after its
checks; `Submit` and `SubmitRollback` share it. A changeset's `kind` and
`rollback_of` can be set by any submitter and nothing reads them, so the model
keeps `restores` instead, which only the rollback handler sets: the properties speak of what
that handler makes. Snapshots and deltas are functions over assets; a path is
kept apart from the blob because a rollback compares blobs only.

`Promotable` compares the stored base with the head as the code does. The first
changeset of an empty branch has the base `Root` and the branch has no head, so it
never matches; see section 6.

`Timeline` is the promise: each branch is one line of changesets, extended only at its end,
by one changeset whose author had seen that end, at once or after an approval; a restoration
takes its content from an earlier changeset of the same branch. `Versioning` implements it
(`OneTimeline`) with `line` mapped to the histories, `made` to each record without its status and to the blobs of
its snapshot, and `approved` to the changesets of that status. Heads, paths, deltas, plans and the base a
submission names have no counterpart: a plan waits unseen, and the rollback appears when it is submitted.

### 2.2 `VersionPersistence`

`OperateAndCopy(w)` is an operation with the copy it takes under the lock;
`CommitSave(w)` and `FailSave(w)` are the transaction and the answer. Transactions
of one repository exclude each other, because the first statement writes the row in
`repos`; so each takes effect as one step, but nothing orders them. The committed
write and the client's answer are one step: the answer needs nothing further from the
server, and a client that has not read it yet was not told. `Rows` drops what has no row (histories, empty snapshots), `LoadedBranches`
rebuilds what it can, `Restart` loads at any moment. `told` and `spent` are ghosts:
what clients were told, and the identifiers used (`Uuid::new_v4` does not
repeat one that a restart forgot).

The JSON file store (`with_persistence`) is used by tests only
(`bootstrap.rs:107` uses `with_pg`) and is not modelled.

### 2.3 `HistoryPaging`

A page is cut under the read lock and is one step. `due` is what the branch held
when the listing began, `got` what arrived so far. A reader asks with one of `Limits`
throughout a listing, clamped as the code does.

### 2.4 `LockManager` and `Lease`

One path. The HTTP handlers always use the empty repository and the scope `asset`
(`try_lock`, `lock.rs:66-73`), so a path has one row and one cache entry; locks
are therefore shared by all repositories of a server. An operation is: arrival (reads the cache
and the clock), the SQL statement, the cache update with the answer. `AcquireRow` and
`FindRow` are the two results of `acquire_lock_atomic`: the upsert judges the row as
it is, `current_lock` reads the row as it was when the statement began. What clients do is
a *workload* chosen in the initial state, so that one run can show a property of several.

Abstractions: the server's and the database's clock are one; the request's timestamp and
the statement's snapshot are taken together at arrival; a failed statement has no effect (an answer that is lost after
the statement took effect is not modelled); the clock stops at `MaxTime`.

`Lease` says what owners rely on: who was told that it holds the lock until some time is
the only one, until then or until it is given up. `LockManager` implements it with the
identity mapping of `now` and `told` (`LeaseIsKept`) for two kinds of workload: any number of concurrent
acquisitions of owners that await their answers, and every operation one at a time. For the others it does not:
`lock_release` shows why, and section 6 says what else goes wrong.

### 2.5 `ApiKeys`, `RefreshTokens` and `TokenFamily`

A key is an entry of the map in memory and a row of `api_keys`; `Accepted` says yes when
either does, as `validate_key_any` does. A handler is a record that says which statement it
awaits. Any statement may fail without effect (`FailKeyStatement`, `FailTokenStatement`), and
`Restart` loses the map, not the table. A start writes the master key into the table again, so
that a revoked master key is valid after it; `RevocationLasts` excepts it for that reason.

The high-risk guard is followed for one signed request, sent any number of times: the
check of its timestamp, the deletion of nonces that are over (whose failure is ignored) and
the `INSERT .. ON CONFLICT DO NOTHING` are separate steps (`BeginRevokeKey`, `PurgeNonces`,
`ClaimNonce`), with at most `Delay` between the first and the last.

A refresh token stands for its hash; its family is named by its first token.
`FindToken`, `InsertNextToken` and `MarkReplaced` are the three statements of a rotation, and any request about
any token may come between them: nothing in the server or the client keeps the requests of one family apart.
An answer may be lost after the last (`held'` may stay as it is). `TokenFamily` is what is promised under these
circumstances: only a live token is put to use; each use yields one token at most and takes the one presented; a family without a
live token and without a use under way has come to its end. So a family has two live tokens in clients' hands only after two
uses of one token at once. `RefreshTokens` implements it (`TokensAreRotated`) with `live` mapped to the tokens that clients
were given and that are neither replaced nor revoked, and `using` to the rotations between `FindToken` and `MarkReplaced`.
`ended` is a ghost, the tokens that were in the table when `revoke_refresh_family` ran: they stay dead
(`ReplayEndsTokens`), while the successor of a rotation that was under way does not (section 6).

### 2.6 `AuditChain` and `Replay`

An entry's hash is named by its sequence number, so that `prev` names an entry. `append` is
begin and lock (`TakeLock`), read (`ReadLast`, or `RefuseFirst` on an empty table), insert and commit
(`InsertEntry`); `Abort` ends the transaction anywhere, and may use a number up. A checkpoint is read in two statements with
appends in between: it counts its head and all before it, and what was appended meanwhile as well (`CheckpointCoversItsHead`;
`CheckpointIsAState` is what it should be, see section 6). The configured witnesses are a list, in which an identifier may
come twice, as in the code; receipts are one per identifier. A restart may change the configuration; receipts stay.

`Replay` runs the handlers of locks and versions as: effect, event, audit entry. The effect is
an action of `Versioning` (INSTANCE, without assets) or of the set `locked`; `work` is the event a handler has yet
to append. Handlers of one path or branch take effect one after the other and append their events in any order, since
the version manager's lock is released before the event is appended. `unlogged` holds what changed without an event
that is known to be of its last change: lost events, effects before a crash, branches started from a changeset, late renewals, which delete a row
and are answered with an error, and what a handler logs that was not alone on its path or branch from its effect on (`alone`).
`ReplayAgrees` says that for everything else the rebuilt state is the state. An event of a handler that was alone takes its
path or branch out of `unlogged` again, so one such change mends what any disorder before it left; and when nothing is unlogged the
verification, which compares numbers, finds no mismatch.

### 2.7 `Storage` and `Upload`

A file on disk is an identity and the set of the parts that were written to it; `temp` and
`object` say which file a name leads to. A content is written in `Parts` writes, each at its place by the handle, as
`write_all` of a file of more than 2 MiB is. `File::create` on an existing name empties the
file that is there (the same identity), also when another request still writes to it by its handle: the next part of that request leaves a
hole before it, and the file has its full length when the last part is there (`IsLong`), hole or not; `Rename` moves
whatever has the name by then. A failed or cut-off request leaves everything as it is
(`CutOff`). `Upload` adds the handlers and one client per request: the direct upload, and the
chunked one with its five calls. `compose_blob` reads a chunk that has its size; of one with a hole it reads another content, which
the constant `Holed` names, and stores what it composed under that name. Chunks and manifests are recorded in tables, or, in a server
without a database, looked up in the store. `ht chunk-upload --manifest-only` is a client that stops after the manifest.

### 2.8 `Sessions`, `Submission` and `Workspace`

`Sessions` keeps what the manager has in memory, the rows, and the insertions under way; an
insertion that refers to a missing row fails, as the foreign keys of the migration say, and the handler only logs it.

`Submission` makes the handlers of `api/versioning.rs` two steps: the checks before the await
(`CheckSubmission`, `CheckRollback`) and the effect (`TakeEffect`, an action of `Versioning`).
Between them others lock, release, submit, promote. A lock is its cache entry, which is
what `ensure_lock_access` reads; how it gets there is `LockManager`'s part. `held` is the
ghost of `HolderKeepsItsContent`: on which branch and path a holder's change took effect under its lock.

`Workspace` is the client: the files, and `profile`, `stage`, `workspace` and `session` as kept in `.hypertide`.
A command reads them, calls the server and writes them at its end; when the answer is lost
(`AnswerLost`) nothing is written. `Checkout` with and without `--force`, `CheckoutStops` half-way,
`Restore` and `BranchCheckpoint` replace files and base. The model's limits: a user runs one
command at a time on the branch of the profile, restores checkpoints of its own session, and author
and lock owner are the same; checkpoints do not expire; blobs that are named exist; the version state survives a restart
(`VersionPersistence` shows what it may lose); asset identifiers are paths; clients that call the handlers themselves name the newest base.

## 3. What TLC checks

| Run | Configuration | Shows |
|---|---|---|
| `versioning` | `MCVersioning.cfg` | lineage, visibility, rollback content, no stale head moves, the gate; the operations implement `Timeline`, so that histories are append-only |
| `versioning_gate` | `MCVersioningGate.cfg` | finding: an approved first changeset cannot be promoted |
| `persistence` | `MCVersionPersistence.cfg` | with overlapping, failing saves and restarts: a restart only forgets, contents are kept, the invariants of `Versioning` survive a reload |
| `persistence_order` | `MCVersionPersistenceOrder.cfg` | finding: with a working database, two overlapping saves can undo what a client was told |
| `history_paging` | `MCHistoryPaging.cfg` | a listing that ends skipped nothing; every listing ends |
| `locks` | `MCLockManager.cfg` | concurrent acquisitions, and all operations one at a time: leases are exclusive and held by the row; one at a time, protected by the cache |
| `lock_release` | `MCLockManagerRelease.cfg` | finding: a release or a renewal can delete or overwrite another owner's lock |
| `auth` | `MCRefreshTokens.cfg` | revocations last and keys are lost by acknowledged revocations only; two acts of one signed request are as far apart as its nonce is kept; a detected replay ends the tokens that are there; rotation implements `TokenFamily` |
| `trail` | `MCReplay.cfg` | the chain verifies, a checkpoint counts all up to its head, replay agrees with what was logged; appends end, quorums are reached |
| `audit_genesis` | `MCReplayGenesis.cfg` | finding: an empty audit chain refuses every append |
| `storage` | `MCUpload.cfg` | which objects are whole, how far an answer may be from the file, the upload protocol is not refused for what others do |
| `workspace` | `MCWorkspace.cfg` | locks protect through awaits, a staged set is visible once, nothing unseen is overwritten, a restart keeps a prefix of checkpoints |

**Bounds.** `versioning`: four changesets on two branches is the least where a branch
is started from a draft of another, a rollback overlaps a promotion, and both branches
move on (a rollback needs two visible changesets and makes a third); one asset with two
blobs tells "restored" from "not restored" since assets do not influence each other
except by name; one rollback suffices because a plan is overtaken by any submission.
The number of changesets is bounded by the constant `Changesets`; when they are used up
submissions stop, while no deadlock arises because refused calls stay possible.
`persistence`: two writers are the least that can overtake each other; three changesets
give a rollback. `history_paging`: four changesets with pages of one to three.
`locks`: three owners and three requests, a term of two, and a clock up to
two terms, so that leases end, are taken over and end again.
`lock_release`: two owners and two requests show it.
`auth`: two handlers, so that two administrators may revoke each other or the same key at the same time, with the master key and
two others; two token requests at once and three tokens, which is an exchange, a rotation and a second one of the same or the next token; the
keys' workload and the tokens' are separate, since a token request reads of the keys only whether one is accepted. A workload says how many
keys there are at a time: three, and two beside the signed request, whose acts do not depend on them. `Skew` is above `KeptAtLeast`, as with the code's default of 300 s against 30 s, so that a nonce is kept for the skew; the
clock reaches beyond that, and the client's clock is right or ahead of the server's, where a request can act twice.
`trail`: two handlers, which is the least that can fork a chain; four entries, so that a gap and a successor fit; four
events, for a draft, its approval and promotion and a rollback's beginning; one path, since the paths do not
influence each other; two handlers are also the least whose events can change places, and four events let a third change mend what they left.
The configurations of witnesses include a quorum of none, one larger than the list and a list that names one witness twice.
`storage`: three requests, of which two can share a temporary file while a third arrives
late; files of one or two chunks, equal, overlapping and distinct; two parts to a content, the least that can have a hole; up to two failures, with
a database and without. Nine files are
more than three requests can create before they stop. `workspace`: two clients, three changesets (two and a
later one that lies on them), two branches, one path, two blobs, two sessions and
checkpoints, two changes per client. The operations are split over eight workloads, each with those that meet;
`SyncWork`, for one, has no other submitter, as section 6 explains.

**Deadlock** is not checked in the runs of `MCReplay`, `MCUpload` and `MCWorkspace`: these systems stop when
identifiers, entries and failures are used up and every client has its answer.

**Symmetry** is used in runs with safety properties only; the identifiers, blobs,
writers, owners and requests are compared and never ordered. Action properties are
invariant under these permutations too. `auth`'s refinement is a safety property and symmetric.
`history_paging` and the runs of `MCReplay`, whose specification has liveness properties, use none.

**Fairness.** Two runs need some. `history_paging`: a reader that was given a cursor asks for the next
page (`WF` of `ReadPage` per reader). It is an assumption about clients, made by any
client that reads a listing to its end, and the server answers under a read lock that is held for bounded work. Nothing is
assumed of the branch, which may grow between pages; the bound on changesets means that
it does not grow for ever, and a reader of a branch that grew faster than it reads
would indeed not end. What the property shows is that a page always makes progress.

`trail` (`ChainFairness`): a handler whose statement can run gets on (`WF` of its read and
insert), and who waits for the advisory lock gets it when it is free again and again (`SF` of `TakeLock`), since
PostgreSQL grants a lock in the order of the requests. That a transaction ends, by commit or by an error, is
what `AppendsEnd` needs of the database, and nothing is assumed about `Abort`. `QuorumIsReached` needs in addition that each
configured witness attests in the end (`WF` of `Attest`), which is the witnesses' duty and not the server's; restarts are bounded,
so that the configuration is the same from some time on. What the property shows is that the
quorum asked for can be met by the witnesses there are, as `from_env` limits it to the length of the list, unless the list names a witness twice.

## 4. What TLAPS proves

Every theorem below holds for all values of the constants: any number of changesets, branches,
requests, handlers, readers, keys, tokens and files, any bound, and any workload.

| Module | Theorem | Property |
|---|---|---|
| `VersioningProofs` | `TypeCorrect` | `TypeOK` |
| | `HistoriesAreLineages` | `HistoryIsLineage` |
| | `VisibleMeansInHistory` | `VisibleIffInOwnHistory` |
| | `RollbacksRestoreContent` | `RollbackRestoresContent` |
| | `StaleWorkIsRejected` | `HeadMovesToItsChild` |
| | `HistoriesAreAppendOnly` | `HistoryOnlyGrows` |
| | `GateIsPassedInOrder` | `GateIsNotSkipped` |
| | `BranchesAreTimelines` | `OneTimeline` (refinement) |
| `VersionPersistenceProofs` | `TypeCorrect` | `PTypeOK` |
| | `HistoriesSurvive` | `HistoryIsLineage` |
| | `VisibilitySurvives` | `VisibleIffInOwnHistory` |
| | `RestartsOnlyForget` | `RestartOnlyForgets` |
| | `ContentsAreKept` | `SnapshotsAreKept` |
| `HistoryPagingProofs` | `ListingsAreComplete` | `NothingIsSkipped` |
| `LockManagerProofs` | `TypeCorrect` | `TypeOK` |
| | `CacheIsTheRow` | `CacheIsRow` |
| | `HoldersAreProtected` | `HolderIsProtected` |
| `RefreshTokensProofs` | `TypeCorrect` | `TypeOK` |
| | `RevocationsLast` | `RevocationLasts` |
| | `HandedKeysStay` | `HandedKeysAreKept` |
| | `ActsStayApart` | `ActsAreApart` |
| | `ReplaysEndTokens` | `ReplayEndsTokens` |
| | `TokensKeepTheirPromise` | `TokensAreRotated` (refinement) |
| `ReplayProofs` | `TypeCorrect` | `TypeOK` |
| | `ChainsVerify` | `ChainVerifies` |
| | `CheckpointsCoverTheirHead` | `CheckpointCoversItsHead` |
| | `ReplaysAgree` | `ReplayAgrees` |
| `UploadProofs` | `TypeCorrect` | `TypeOK` |
| | `ObjectsComeWhole` | `ObjectsBecomeWhole` |
| | `UploadsStayFaithful` | `UploadsAreFaithful` |
| | `TheProtocolSuffices` | `ProtocolSuffices` |
| `WorkspaceProofs` | `TypeCorrect` | `TypeOK` |
| | `RestartsKeepPrefixes` | `RestartKeepsPrefix` |
| | `StagedSetsAreSubmittedOnce` | `SubmitOnce` |
| | `OwnWorkIsExtended` | `NothingUnseenIsOverwritten` |
| | `LocksProtectContent` | `HolderKeepsItsContent` |
| | `HistoriesAreLineages` | `HistoryIsLineage` and `VisibleIffInOwnHistory` of the repository it contains |
| | `HandlersKeepTheTimeline` | `OneTimeline` of the repository it contains (refinement) |

### 4.1 Assumptions

The modules' own assumptions are that markers ("none", "root") are no identifiers, that bounds are
numbers, and that constants have the types their comments say; TLC evaluates them in every run. `ReadingsAreContents` says that
whatever compose may read of a file, holes included, is one of the contents that can be stored: the model's contents
are a constant, while the code stores any bytes. No theorem assumes anything of clients or of the configuration:
where a property holds under a condition, such as one request at a time in `CacheIsRow` and `HolderIsProtected`, the condition is in the property.

### 4.2 `VersioningProofs`

**The argument.** `HistoryIsLineage` is not inductive. A branch may be started from any
changeset, a draft too, and its history is then computed by walking parents; so the
invariant must say that the walk ends. `LineageDefined` says that the recursion over
parents has exactly one solution and that it gives a chain of parents for every known
changeset. The library's induction theorems take an operator as parameter, which the
provers cannot instantiate; the proof needs none, because the solution is carried through the
steps: nothing refers to a fresh identifier (`ParentsKnown`), so a new changeset extends
the solution at one point and leaves the rest as it is. A promotion appends a changeset
whose *parent* must be the head, while the code compares its *base*: `BaseIsParent` says
that the two agree except for the first changeset of an empty branch, and
`VisibleIffInOwnHistory` that what is promoted is not in the history yet.
`OnKnownBranch` says that the branch of every changeset exists. For rollbacks,
`PlansAreDiffs` says that a plan in flight is still the difference between its base and
its target; when it is submitted the base is the head, so applying the difference to the
head's snapshot gives the target's contents; `RestoresKnown` says that targets are known.
The conjunction `IInv` holds initially (`InitIInv`), every step preserves it and is a good
step (`NextGood`, over one lemma per action), and each theorem follows from it.

**The refinement** needs two more parts (`ShownInv`). `PlansNameTheirLine` says that the target of a plan in flight is still
in the history of the plan's branch, since histories only grow; `PlansAreDiffs` and `RollbackDeltaRestores` then give the submitted
content. `DefaultIsABranch` is about the branch a refused call can leave behind. Each operation is shown to be one step
of `Timeline` (`NextIsShown`, over one lemma per kind of operation): a submission is made after the head, which is the line's end (`EndIsHead`), and
a promotion's base is its parent and the head.

### 4.3 `VersionPersistenceProofs`

Between restarts the memory is a repository of `Versioning`, except that a snapshot may be missing after a reload.
`V` is `VersioningProofs` with missing snapshots counted as empty (`Whole`); each operation is shown to be a step of `V`
(`OperateMaps`), so that its invariant is carried over by `V!NextGood` instead of being proved again. A
restart is no step of `V`. It needs that whatever is committed is worth loading, which is a statement about
every copy: the rows in the database and those still on their way there, however old. `CopySound` says that the
repository a reload makes of a copy satisfies the invariant; it speaks of the copy only, so no later step disturbs it. `CopyFits` says
that the copy is a past of the memory: its changesets are known, no further on, of the same content, and
its histories are prefixes. Operations keep that because they move statuses on and histories forward; `FailSave` and
`CommitSave` only choose between copies; a restart must show it again for the
copies that are lost and the rows that stay. That a reload finds the history the memory had when it was copied is the last conjunct of
`Sound`: what was kept by appending is what walking the parents gives.

### 4.4 `HistoryPagingProofs`

While a listing is under way, whatever it owes and has not got lies at a position the offset has not passed, counted
from the old end (`ListingIsSound`). Positions of a history that is append-only (`GrowStep`) do not change, while the offset counts
from the new end: growth moves a reader back to what it has already, never forward.

### 4.5 `LockManagerProofs`

`HolderIsProtected` rests on the row (`HolderHasRow`), which is not inductive even with one request at a time: a request knows its lock before its owner does. `AnswersAreCurrent` says that
what a request will answer, or has seen, is the row as long as the lease runs; `WithinTerm`, that no promise
reaches further than a term, so that a row that has ended is after every promise; `CacheFollows`, that a lone request finds the cache as the row is.
`HolderHasRow` and `LeaseIsKept` with requests at the same time are not proved: they hold of concurrent acquisitions only
if every owner awaits its answer, which nothing in the code makes it do, and are false of concurrent renewals and releases. TLC
checks them for the workloads of section 3.

### 4.6 `RefreshTokensProofs`

Keys: `GoneAreRevoked` (memory and table), with `MakingIsExclusive`, so that nobody is about to store a key that
is gone; `HandedAreStored`, that a key that was handed out has a row which is revoked only with the acknowledgement, however the memory was
changed before; `NonceIsKept`, that after an act the nonce is kept, counted from the check before it, or its time has passed, with
`ClaimsAreTimely`, that a claim follows its check within the delay. Two acts are therefore `KeptFor` apart, less the delay.
Tokens: between the insertion of a successor and the mark on its predecessor two tokens of a family are live, and other requests may use, mark
or revoke either. `NewAreUnissued` and `NewAreUnshared` say that the token a request is about to insert is that request's alone, so an
insertion revives nothing; everything else only takes life, so that `ReplayEndsTokens` is inductive with them. `SuccessorsAreNew` says
that the mark brings a token of the same family that no client had. The
refinement maps each step to `Begin`, `Use`, `Rotate`, `Lose`, `Abandon`, `End` or a stutter (one lemma each): a use begins when the token is
found live and ends with the mark, whatever happened to the family in between.

### 4.7 `ReplayProofs`

The chain: `LockIsHeld` (who has begun to read has the advisory lock) and `PrevIsLast` (what it read is
the last entry until it inserts). A checkpoint is carried by a statement about its draft, that the head it has read is an entry of the
chain (`DraftNamesItsHead`); as entries stay, the count that follows covers it.
The replay, with handlers of one branch in any order between effect and event: `WorkIsGrounded` says of every event that is owed something that is never undone
(its changeset is known, and visible if the event says so), which is all that the rebuilt set of visible changesets needs. `AloneIsCurrent` says of
the event of a handler that is alone on its path or branch that it is what the tables hold there now; so only such an event takes its subject out of
`unlogged`. Any other effect on the subject ends that (`Owe`, `CreateBranch`, `RenewLapsed`). The recursion over the
events has one solution (`ReplayIsDefined`), which is part of the invariant and extended by one element per event.

### 4.8 `UploadProofs`

`ObjectsBecomeWhole` has two cases. A content that requests stored one after the other, of which any may fail, has a lone writer:
its parts are in the temporary file still (`LoneWriterFillsTheTemp`), and when the object is there it is whole and nobody writes (`UnsharedAreWhole`). Of a content
that several write, every file that has a name is whole or has a writer that emptied it last and will write all that it lacks (`FilesAreCovered`); the writer is named
by the file and not by the name, since the file may be renamed while it is written. The first failure ends this second part, and only this: it
is the conjunct `failures = 0 => FilesAreCovered` of the invariant. `FilesAreOfOneContent` keeps writers of different contents apart.
`UploadsAreFaithful` and `ProtocolSuffices` follow from `ClientFits`: all behind the client is recorded and
stored, and what compose has read is the file up to there, but for holes in chunks that several requests stored at the same time (`AsRead`). These statements are about
objects that exist and contents that are shared, which only become more (`OnlyGrows`).

### 4.9 `WorkspaceProofs`

The repository of `Submission` moves as `Versioning` does: `V` is an instance of `VersioningProofs`, the operations of
the two are the same (`SameStore`, `SameOperations`), so a step of a handler keeps all that is proved there
(`V!Good`), and what follows is about what the handlers and clients add.

- *Sessions.* A list is in the order its checkpoints were made, each on the one before (`ListFits`), and the rows
  of a session are the first of its list (`RowsArePrefix`): a row needs that of its parent, so it is at most the next. A
  restart sorts these rows, and numbers are in order in one way only (`RowsInOrder`).
- *Locks.* `HolderKeepsItsContent` is not inductive: a submission or a rollback reads the locks before its await, and a
  draft may be promoted long after it was made. `HeldIsRecent` gives for each branch and path with a holder's
  change in effect the changesets that came since (`IsSince`): the head is one of them, what is made on one of them is one, and
  on none of them is based a request past its checks, or a draft, that changes the path, unless it is the holder's. Such a
  request or draft has an older base, and `V` says that only what is based on the head becomes the head. A rollback keeps this
  because its plan is the difference between its base and its target (`RequestFits`).
- *Staged sets.* Every change of a stage is counted, so a set is a client and a count. `SetIsStaged`: while a set is under
  way its client has changed nothing; `StagedOnBase`: what was made of the set that is still staged has the stage's base as parent, and its
  branch; hence `SetHasOneParent`. A branch has one visible changeset on a parent, since histories are
  chains of parents that do not repeat (`OneVisibleChild`), which gives `SubmitOnce`.
- *Bases.* All bases a client keeps, in its stage, its workspace and its session, were checked out or made by it, unless
  it syncs (`BasesFit`); `SetIsOfAuthor` says so of what was made on them.
- *The timeline* is implemented by the composition too (`HandlersKeepTheTimeline`). A step changes the repository in
  the operations of the version manager only (`StepOfVersions`), and each is a step of `Timeline`, by the
  lemmas of 4.2. For a rollback that waits between its checks and its effect, `RollbacksNameTheirLine` keeps its target in the
  history of its branch, since histories only grow. `Workspace` begins with a repository that was created, which is why `Timeline`
  may begin with an empty branch.

### 4.10 What is not proved

Out of the provers' reach and only model-checked: liveness under fairness (`ListingsEnd`, `AppendsEnd`,
`QuorumIsReached`) and anything about `ENABLED`. What a recursive definition computes for *every* input would need induction
over data; where an invariant needs one, it says itself that the recursion has one solution. Every safety invariant and every
action property that the passing runs check is stated by a theorem, except `HolderHasRow` and `LeaseIsKept` (4.5). `HistoryOnlyGrows` is proved and has no
run of its own, because `OneTimeline` implies it. The findings' properties are false, and what holds
instead is in section 6.

## 5. Mutants

Each module holds, next to the definition it changes, small mutated forms (a dropped
guard, a missing write, an off-by-one). Each property of a passing run is refuted by
TLC when one of them replaces the definition, under the run's own configuration.

## 6. Findings

1. **The first changeset of an empty branch cannot be promoted** (`versioning_gate`).
   `submit_internal` demands the base `ROOT` when the branch has no head;
   `promote_changeset` compares that base with `head = None` and refuses
   (`versioning.rs:573-581`). A repository whose first changeset goes through the
   documented cycle "submit, draft, approve, promote, visible" (`docs/server/README.md:69`)
   is stuck with it; only a directly visible submission gives it a head.
2. **Overlapping saves may be committed in the wrong order** (`persistence_order`). Each
   operation copies the state under the lock and writes the copy after releasing it.
   The later copy may be committed first and be overwritten by the earlier one: both clients were told of
   success and a restart forgets the later changeset until another save repairs it. With one
   request at a time and a database that works, `ToldIsKept` holds.
3. **A release or a renewal may hit another owner's lock** (`lock_release`). `unlock` and `renew_lock` check the
   owner in the cache, await, and delete or write the row by its path alone. When the lease ends and another
   owner acquires the path in between, that owner's row is removed or overwritten, though it was told that it holds the lock.
4. **An empty audit chain stays empty** (`audit_genesis`). `append` reads the last entry with
   `fetch_one`, which is an error when there is no row, before the default `GENESIS` is
   considered (`audit_chain.rs:73-75`); `generate_checkpoint` does the same
   (`checkpoint.rs:35`). Handlers log the failure and go on, so a new server has no audit entries until
   somebody inserts one by hand. `trail` seeds the chain with one entry.

Six more were met while modelling. For each the modules state the formula that one would expect, with a comment that
it does not hold; TLC refutes it within seconds when it is added to the configuration in brackets (with the change named there). A passing run checks
what holds all the same.

- **The cache may hold a lock that is not the table's** (`CacheProtects`; `MCLockManagerRelease.cfg`). The acquisition that is answered last fills
  the cache, also with the row it was refused by, which may be over by then; `get_lock` then stops no submission against the lock
  that is held. What holds: `HolderIsProtected`, with one request at a time.
- **A family may outlive its revocation** (`ReplayEndsFamily`; `MCRefreshTokens.cfg` with four tokens). A rotation that found its token live before a replay was
  detected inserts the successor after `revoke_refresh_family`, whose caller was told "family revoked". What holds:
  `ReplayEndsTokens` and `TokensAreRotated`.
- **Events may come in another order than the effects** (`LatestHeadIsReplayed`; `MCReplay.cfg` with one branch, no restart and a workload
  of versions that loses no event). The head that
  replay finds is that of the event appended last; the verification then reports a mismatch, although nothing was lost, until the branch moves
  again. What holds: `ReplayAgrees`.
- **A checkpoint may be of no state of the log** (`CheckpointIsAState`; `MCReplay.cfg`): the head is read before the entries are counted,
  without a transaction, and witnesses sign both. What holds: `CheckpointCoversItsHead`.
- **A short object may stay** (`ObjectsAreWhole`; `MCUpload.cfg`). One of two writers of a content empties the temporary file under the
  other's hands and fails; the other renames what is there, and `store` finds that the object exists from then on. What holds: `ObjectsBecomeWhole`.
- **Compose may answer with the name of another file** (`ComposedIsTheFile`; `MCUpload.cfg`). A chunk whose file was emptied between two partial writes
  of another request has its full size and a hole; `compose_blob` compares sizes only. What holds: `UploadsAreFaithful`.

Kept as hazards without a formula: an owner that retries before it was answered can shorten its own lease; a snapshot
without assets has no rows, so after a restart a rollback to that changeset is answered
with "changeset not found"; two administrators that revoke each other at the same time leave none, until a restart renews the
master key.

What the properties do not say:

- `ActsAreApart` is no promise that a signed request acts once. A nonce is kept for `max(skew, 30)` seconds, and a request that is
  signed for the future stays in its window for up to twice the skew; with the default skew of 300 s it may act again when its nonce is gone.
- `TokensAreRotated` allows two concurrent rotations of one token to succeed: neither reads what the other wrote.
- `RevocationLasts`: the revocation must have been acknowledged; one whose statement failed leaves the key in the table, and it is accepted by way of it. Refresh families and access tokens outlive their key.
- `QuorumIsReached` is about configurations that name no witness twice; receipts of witnesses that are no longer configured count.
- `ReplayAgrees` excepts what `unlogged` holds (2.6), and nothing keeps a branch from staying there that is never changed by a handler alone.
- `UploadsAreFaithful` and `ObjectsBecomeWhole` except contents that several requests stored at the same time, the first for their holes and the second after a failure.
- `NothingUnseenIsOverwritten`: clients must not sync with changes staged: `sync` replaces the base of the stage and keeps its content. Sets that are staged without a base are excepted too.
- `SubmitOnce`: a set that is staged without a base takes the branch's head when it is submitted; after a lost answer it is submitted once more on top of itself. So is one whose base was moved by `ht sync` in between.
- `HolderKeepsItsContent` begins with the holder's own first change: a submission that was checked before the lock was acquired may take effect before that.
- A session begun on an empty branch has no base and a submission to an empty branch must name `ROOT`, so its checkpoints cannot be submitted there.

## 7. The plan

Order: what other parts rely on first. The modules and their proofs are done.

1. `Versioning` with `Timeline`, with their proofs. *Done.*
2. `VersionPersistence`, `HistoryPaging` over it, `LockManager` with `Lease`, with their proofs. *Done.*
3. `ApiKeys`, `RefreshTokens` with `TokenFamily`, with their proofs. *Done.*
4. `AuditChain` and `Replay`, with their proofs. *Done.*
5. `Storage` and `Upload`, with their proofs. *Done.*
6. `Sessions`, `Submission`, `Workspace`, with their proofs. *Done.*

What may come next: the expiry of sessions and checkpoints, and a restart of the version manager under `Submission`.

## 8. What is not modelled, and why

- **Rate limiter and metrics** (`server/state.rs`): a decision is one step under the mutex of its bucket; the
  counters are independent of everything.
- **Verification from a replay checkpoint, readiness** (`replay.rs:160-199`, `292-349`): nothing calls
  `save_checkpoint`, so a verification begins at the first event, and fails when it is asked for a checkpoint.
- **`storage_backend.rs`**: a trait and implementations nothing uses.
- **Expiry of sessions and checkpoints**, JWT claims and signatures, permissions other than the administrator's.
- **The disk below the files**: data that was written and not synced when the machine fails, and the write that a request given up by its client had
  begun (it is done by another thread and may come later).
- **Read-only commands and views** (status, diff, log, doctor, exports, the gate): they change nothing. Of `sync_snapshot` the
  client's use is modelled (`Fetchable`).
- HTTP decoding, routing, configuration and health checks, `open_core.rs` and `compliance.rs`,
  deployment scripts, migrations except for the foreign keys that `Sessions` models and the schema the
  persistence models assume, and the CLI's parsing and output.

## 9. Running

    tlc -workers 2 -config MCVersioning.cfg MCVersioning
    tlc -workers 2 -config MCWorkspace.cfg MCWorkspace
    tlapm VersioningProofs.tla
    tlapm VersionPersistenceProofs.tla
    tlapm HistoryPagingProofs.tla
    tlapm LockManagerProofs.tla
    tlapm RefreshTokensProofs.tla
    tlapm ReplayProofs.tla
    tlapm UploadProofs.tla
    tlapm WorkspaceProofs.tla

Each configuration's first line says what it is; each is run with the module its name
begins with.
