------------------------------ MODULE LockManager ------------------------------
(***************************************************************************)
(* The lock of ONE path (core/lock.rs, core/lock/repo_pg.rs): a row in the *)
(* database that decides, and a cache in memory that renew, unlock and the *)
(* lock checks of other handlers read.  Paths are independent of each      *)
(* other.  Every operation awaits the database between what it reads and   *)
(* what it writes, and requests interleave there.                          *)
(*                                                                         *)
(* What clients do is a workload, chosen at the start: which operations    *)
(* they use, how many requests are under way at most, and whether an owner *)
(* awaits its answer before its next request.                              *)
(*                                                                         *)
(* Time is `now`, up to MaxTime.  The server's and the database's clock    *)
(* are one, and an acquire request reads it where its statement begins.    *)
(***************************************************************************)
EXTENDS Naturals, FiniteSets

CONSTANTS
  Owners,
  Requests,    \* the requests the server can work on at the same time
  Workloads,   \* what clients may do
  Term,        \* lease_seconds
  MaxTime,     \* bound on the clock
  NoLock,
  Idle

ASSUME TermIsPositive == Term \in Nat \ {0} /\ MaxTime \in Nat
ASSUME RequestsAreFinite == IsFiniteSet(Requests)
ASSUME WorkloadsAreKnown == \A load \in Workloads :
  /\ load.ops \subseteq {"acquire", "renew", "unlock", "force"}
  /\ load.atOnce \in Nat \ {0}
  /\ load.waits \in BOOLEAN
ASSUME MarkersAreFresh == NoLock \notin [owner : Owners, until : Nat]

VARIABLES
  load,    \* the workload
  now,
  db,      \* the row of the table `locks`, or NoLock
  cache,   \* the entry of LockManager.locks, or NoLock
  req,     \* request -> where it stands, or Idle
  told     \* ghost: until when each owner was told it holds the lock

vars == <<load, now, db, cache, req, told>>

Lock == [owner : Owners, until : Nat]

\* at: the step a request does next.  lock: what it writes to the database or to
\* the cache; seen, began: the row and the time when its statement began.
Request ==
  [ owner : Owners,
    at    : {"acquire", "extend", "delete", "force", "put", "drop"},
    lock  : Lock,
    seen  : Lock \cup {NoLock},
    began : Nat ]

ASSUME IdleIsNoRequest == Idle \notin Request

\* Mutation: a lease is over one unit early.
ExpiredEarly(lock, time) == lock.until <= time + 1

Expired(lock, time) == lock.until <= time
Fresh(o) == [owner |-> o, until |-> now + Term]

Init ==
  /\ load \in Workloads
  /\ now = 0
  /\ db = NoLock
  /\ cache = NoLock
  /\ req = [r \in Requests |-> Idle]
  /\ told = [o \in Owners |-> 0]

-----------------------------------------------------------------------------
(* Arrival: what a request does up to its first await. *)

UnderWay == {r \in Requests : req[r] # Idle}

Begin(r, op, o, at) ==
  /\ op \in load.ops
  /\ req[r] = Idle
  /\ Cardinality(UnderWay) < load.atOnce
  /\ load.waits => \A q \in UnderWay : req[q].owner # o
  /\ req' = [req EXCEPT ![r] = [owner |-> o, at |-> at, lock |-> Fresh(o),
                                seen |-> db, began |-> now]]

BeginAcquire(r, o) ==
  /\ Begin(r, "acquire", o, "acquire")
  /\ UNCHANGED <<load, now, db, cache, told>>

CachedFor(o) == cache # NoLock /\ cache.owner = o

\* A lease that is over is cleaned up instead of being renewed.
BeginRenew(r, o) ==
  /\ CachedFor(o)
  /\ Begin(r, "renew", o, IF Expired(cache, now) THEN "delete" ELSE "extend")
  /\ UNCHANGED <<load, now, db, cache, told>>

\* The client stops relying on the lock when it asks for the release.
BeginUnlock(r, o) ==
  /\ CachedFor(o)
  /\ Begin(r, "unlock", o, "delete")
  /\ told' = [told EXCEPT ![o] = 0]
  /\ UNCHANGED <<load, now, db, cache>>

\* An administrator: o only names who asked.
BeginForce(r, o) ==
  /\ Begin(r, "force", o, "force")
  /\ UNCHANGED <<load, now, db, cache, told>>

-----------------------------------------------------------------------------
(* The database statement. *)

At(r, step) == req[r] # Idle /\ req[r].at = step
Continue(r, step, lock) ==
  req' = [req EXCEPT ![r] = [owner |-> @.owner, at |-> step, lock |-> lock,
                             seen |-> NoLock, began |-> 0]]
Finish(r) == req' = [req EXCEPT ![r] = Idle]

\* Mutation: the WHERE clause of the upsert is dropped.
ObtainsAlways(r) == TRUE

Obtains(r) ==
  db # NoLock => (db.owner = req[r].owner \/ Expired(db, req[r].began))

\* INSERT .. ON CONFLICT DO UPDATE .. WHERE judges the row as it is now.
AcquireRow(r) ==
  /\ At(r, "acquire")
  /\ Obtains(r)
  /\ db' = req[r].lock
  /\ Continue(r, "put", req[r].lock)
  /\ UNCHANGED <<load, now, cache, told>>

\* Mutation: a statement without a result is taken for the row that it saw.
FindRowAnyway(r) ==
  /\ At(r, "acquire")
  /\ ~Obtains(r)
  /\ Continue(r, "put", req[r].seen)
  /\ UNCHANGED <<load, now, db, cache, told>>

\* When it updates nothing, `current_lock` is the row as it was when the
\* statement began, and there is no result at all if there was none.
FindRow(r) ==
  /\ At(r, "acquire")
  /\ ~Obtains(r)
  /\ IF req[r].seen = NoLock THEN Finish(r) ELSE Continue(r, "put", req[r].seen)
  /\ UNCHANGED <<load, now, db, cache, told>>

\* upsert_lock and delete_lock go by the path alone.
ExtendRow(r) ==
  /\ At(r, "extend")
  /\ db' = req[r].lock
  /\ Continue(r, "put", req[r].lock)
  /\ UNCHANGED <<load, now, cache, told>>

DeleteRow(r) ==
  /\ At(r, "delete")
  /\ db' = NoLock
  /\ Continue(r, "drop", req[r].lock)
  /\ UNCHANGED <<load, now, cache, told>>

ForceDeleteRow(r) ==
  /\ At(r, "force")
  /\ db' = NoLock
  /\ Continue(r, "drop", req[r].lock)
  /\ told' = [o \in Owners |-> 0]
  /\ UNCHANGED <<load, now, cache>>

\* The statement fails without effect and the client gets an error.
FailRow(r) ==
  /\ \E step \in {"acquire", "extend", "delete", "force"} : At(r, step)
  /\ Finish(r)
  /\ UNCHANGED <<load, now, db, cache, told>>

-----------------------------------------------------------------------------
(* The cache, and the answer. *)

\* An acquire that came back with another's lock caches that and is refused.
PutCache(r) ==
  /\ At(r, "put")
  /\ cache' = req[r].lock
  /\ told' = IF req[r].lock.owner = req[r].owner
             THEN [told EXCEPT ![req[r].owner] = req[r].lock.until] ELSE told
  /\ Finish(r)
  /\ UNCHANGED <<load, now, db>>

\* Mutation: a release leaves the cache as it is.
FinishOnly(r) ==
  /\ At(r, "drop")
  /\ Finish(r)
  /\ UNCHANGED <<load, now, db, cache, told>>

DropCache(r) ==
  /\ At(r, "drop")
  /\ cache' = NoLock
  /\ Finish(r)
  /\ UNCHANGED <<load, now, db, told>>

\* Mutation: load_locks is not called.
RestartEmpty ==
  /\ cache' = NoLock
  /\ req' = [r \in Requests |-> Idle]
  /\ UNCHANGED <<load, now, db, told>>

\* The server starts again: load_locks fills the cache, expired rows included.
Restart ==
  /\ cache' = db
  /\ req' = [r \in Requests |-> Idle]
  /\ UNCHANGED <<load, now, db, told>>

Tick ==
  /\ now < MaxTime
  /\ now' = now + 1
  /\ UNCHANGED <<load, db, cache, req, told>>

Next ==
  \/ \E r \in Requests, o \in Owners :
       BeginAcquire(r, o) \/ BeginRenew(r, o) \/ BeginUnlock(r, o) \/ BeginForce(r, o)
  \/ \E r \in Requests :
       \/ AcquireRow(r) \/ FindRow(r) \/ ExtendRow(r) \/ DeleteRow(r)
       \/ ForceDeleteRow(r) \/ FailRow(r) \/ PutCache(r) \/ DropCache(r)
  \/ Restart
  \/ Tick

Spec == Init /\ [][Next]_vars

-----------------------------------------------------------------------------
(* Properties. *)

TypeOK ==
  /\ load \in Workloads
  /\ now \in Nat
  /\ db \in Lock \cup {NoLock}
  /\ cache \in Lock \cup {NoLock}
  /\ req \in [Requests -> Request \cup {Idle}]
  /\ told \in [Owners -> Nat]

\* What clients are told is what a lease promises, with acquire requests in any
\* number at the same time, or with every operation one at a time.
Promise == INSTANCE Lease
LeaseIsKept == Promise!Spec

\* Whoever was told it holds the lock has the row, for at least as long; so a
\* restart does not take the lock away, and no one else is granted it.
HolderHasRow ==
  \A o \in Owners :
    told[o] > now => db # NoLock /\ db.owner = o /\ db.until >= told[o]

\* Requests that come one at a time leave the cache and the database equal, also
\* those that fail half-way and those that a restart cuts off.
CacheIsRow == load.atOnce = 1 /\ UnderWay = {} => cache = db

\* Handlers that ask the cache (get_lock in a submission) keep everybody else out
\* while an owner was told it holds the lock (src/README.md, "lock-aware submit
\* protection").  It does not hold with two acquisitions at the same time, of which
\* the one that answers last fills the cache.
CacheProtects ==
  UnderWay = {} => \A o \in Owners : told[o] > now => CachedFor(o) /\ ~Expired(cache, now)

\* It holds with one request at a time, also after failures and restarts.
HolderIsProtected == load.atOnce = 1 => CacheProtects

\* What a release and a renewal do to the row, they do to nobody's lock but that of
\* the owner who asked ("Only the owner can unlock", core/lock.rs, unlock).  It does
\* not hold: both compare the owner with the cache and go by the path afterwards.
OtherRowsAreLeft ==
  [][\A r \in Requests :
       DeleteRow(r) \/ ExtendRow(r) => db = NoLock \/ db.owner = req[r].owner]_vars
================================================================================
