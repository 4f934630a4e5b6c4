------------------------------- MODULE Replay -------------------------------
(***************************************************************************)
(* The event store (core/events/mod.rs), the handlers that append to it    *)
(* after the locks (api/lock.rs) and the version manager                   *)
(* (api/versioning.rs) did their work, and the replay that rebuilds locks, *)
(* visible changesets and heads from the events (core/replay.rs).          *)
(*                                                                         *)
(* A handler takes effect, appends its event, and then an audit entry.     *)
(* An event that cannot be appended is a warning in the log, and the       *)
(* handler goes on.  The version manager is that of Versioning, without    *)
(* assets; a lock is a row of the table or none.  Nothing keeps the        *)
(* handlers of one path or branch in the order of their effects once they  *)
(* took effect: the events of two of them may come in either order.        *)
(***************************************************************************)
EXTENDS AuditChain

CONSTANTS Changesets, Branches, Main, Paths, Root, Keep,
  Workloads,   \* what happens: [ops, lossy, audit, seeded, settings]
  MaxEvents    \* bound on the event store

ASSUME WorkloadsAreKnown == \A load \in Workloads :
  /\ load.ops \subseteq {"lock", "version", "other"}
  /\ {load.lossy, load.audit, load.seeded} \subseteq BOOLEAN
  /\ load.settings \subseteq Settings
ASSUME SubjectsAreDistinct == Changesets \cap Branches = {} /\ Paths \cap (Changesets \cup Branches) = {}
ASSUME MainIsABranch == Main \in Branches
ASSUME MarkersAreNoIds == None \notin Changesets /\ Root \notin Changesets \cup {None}

VARIABLES
  load,
  exists, defaultBranch, branches, changesets, snapshots,   \* see Versioning
  locked,    \* the paths with a row in the table `locks`
  events,    \* the event store
  work,      \* handler -> the event it has yet to append, or None
  unlogged,  \* ghost: what changed without an event for its last change that is
             \*   known to be the last
  alone      \* ghost: the handlers that were the only ones on their path or branch
             \*   since they took effect

versionVars == <<exists, defaultBranch, branches, changesets, snapshots>>
stateVars == <<versionVars, locked>>
trailVars == <<load, stateVars, events, work, unlogged, alone>>
vars == <<chainVars, trailVars>>

Manager == INSTANCE Versioning WITH
  Assets <- {}, Blobs <- {}, Rollbacks <- {}, plans <- << >>

\* on: the path or branch; of: the changeset.
Event == [ kind : {"LOCK_ACQUIRED", "LOCK_RENEWED", "LOCK_RELEASED", "LOCK_FORCE_RELEASED",
                   "CHANGESET_CREATED_DRAFT", "CHANGESET_APPROVED", "CHANGESET_VISIBLE",
                   "CHANGESET_PROMOTED", "ROLLBACK_VISIBLE"},
           on   : Paths \cup Branches,
           of   : Changesets \cup {None} ]

ASSUME NoneIsNoEvent == None \notin Event

Init ==
  /\ load \in Workloads
  /\ ChainInit(load.seeded, load.settings)
  /\ Manager!Init
  /\ locked = {}
  /\ events = << >>
  /\ work = [w \in Writers |-> None]
  /\ unlogged = {}
  /\ alone = {}

-----------------------------------------------------------------------------
(* What an event is about, and the state that is rebuilt from events. *)

\* Mutation: a rollback is not taken for a visible changeset.
WithoutRollbacks == {"CHANGESET_VISIBLE", "CHANGESET_PROMOTED"}

MakesVisible == {"CHANGESET_VISIBLE", "ROLLBACK_VISIBLE", "CHANGESET_PROMOTED"}
Frees == {"LOCK_RELEASED", "LOCK_FORCE_RELEASED"}

Subjects(event) ==
  IF event.kind \in Frees \cup {"LOCK_ACQUIRED"} THEN {event.on}
  ELSE IF event.kind \in {"CHANGESET_VISIBLE", "ROLLBACK_VISIBLE", "CHANGESET_PROMOTED"}
  THEN {event.on, event.of} ELSE {}

\* apply_event and update_branch_head
ApplyEvent(state, event) ==
  CASE event.kind = "LOCK_ACQUIRED"  -> [state EXCEPT !.locks = state.locks \cup {event.on}]
    [] event.kind \in Frees          -> [state EXCEPT !.locks = state.locks \ {event.on}]
    [] event.kind \in MakesVisible   ->
         [ locks   |-> state.locks,
           visible |-> state.visible \cup {event.of},
           heads   |-> [state.heads EXCEPT ![event.on] = event.of] ]
    [] OTHER                         -> state

NothingReplayed == [locks |-> {}, visible |-> {}, heads |-> [b \in Branches |-> None]]

\* ReplayEngine::replay: one event after the other.
Replayed ==
  LET state[n \in 0..Len(events)] ==
        IF n = 0 THEN NothingReplayed ELSE ApplyEvent(state[n - 1], events[n])
  IN  state[Len(events)]

HeadOf(b) == IF b \in DOMAIN branches THEN branches[b].head ELSE None
Visible == {c \in DOMAIN changesets : changesets[c].status = "visible"}

\* verify_incremental from the beginning: sets are compared by their size.
Consistent ==
  /\ Cardinality(Replayed.locks) = Cardinality(locked)
  /\ Cardinality(Replayed.visible) = Cardinality(Visible)
  /\ \A b \in Branches : Replayed.heads[b] = HeadOf(b)

-----------------------------------------------------------------------------
(* Handlers. *)

Busy(w) == work[w] # None \/ writer[w] # None

PendingOn(subject) == {w \in Writers : work[w] # None /\ subject \in Subjects(work[w])}

\* A handler w took effect and has yet to append the event.
Owe(w, op, kind, on, of) ==
  /\ op \in load.ops
  /\ ~Busy(w)
  /\ lastSeq + Cardinality({v \in Writers : Busy(v)}) < MaxSeq
  /\ Len(events) + Cardinality({v \in Writers : work[v] # None}) < MaxEvents
  /\ LET event == [kind |-> kind, on |-> on, of |-> of]
     IN  /\ work' = [work EXCEPT ![w] = event]
         /\ alone' = IF on \notin Subjects(event) THEN alone
                     ELSE IF PendingOn(on) = {} THEN alone \cup {w} ELSE alone \ PendingOn(on)
  /\ UNCHANGED <<chainVars, load, events, unlogged>>

LockFile(w, p) ==
  /\ Owe(w, "lock", "LOCK_ACQUIRED", p, None)
  /\ locked' = locked \cup {p}
  /\ UNCHANGED versionVars

RenewLock(w, p) ==
  /\ p \in locked
  /\ Owe(w, "lock", "LOCK_RENEWED", p, None)
  /\ UNCHANGED stateVars

\* A renewal that comes too late removes the row; it is an error and has no event.
RenewLapsed(p) ==
  /\ load.lossy
  /\ p \in locked
  /\ locked' = locked \ {p}
  /\ unlogged' = unlogged \cup {p}
  /\ alone' = alone \ PendingOn(p)
  /\ UNCHANGED <<chainVars, load, versionVars, events, work>>

UnlockFile(w, p, kind) ==
  /\ p \in locked
  /\ Owe(w, "lock", kind, p, None)
  /\ locked' = locked \ {p}
  /\ UNCHANGED versionVars

\* Identifiers are fresh and otherwise alike: the next one is any of them.
NextChangeset == CHOOSE c \in Changesets : c \notin DOMAIN changesets

StoreOn(b, base, status, restores) ==
  /\ Changesets \ DOMAIN changesets # {}
  /\ Manager!EnsureRepo
  /\ Manager!Submittable(b, base)
  /\ Manager!Store(NextChangeset, b, base, status, << >>, restores)
  /\ UNCHANGED locked

SubmitChangeset(w, b, base, status) ==
  /\ StoreOn(b, base, status, None)
  /\ Owe(w, "version", IF status = "draft" THEN "CHANGESET_CREATED_DRAFT" ELSE "CHANGESET_VISIBLE",
         b, NextChangeset)

Rollback(w, b, target) ==
  /\ Manager!RollbackTarget(b, target)
  /\ StoreOn(b, branches[b].head, "visible", target)
  /\ Owe(w, "version", "ROLLBACK_VISIBLE", b, NextChangeset)

ApproveChangeset(w, c) ==
  /\ Manager!Approve(c)
  /\ Owe(w, "version", "CHANGESET_APPROVED", changesets[c].branch, c)
  /\ UNCHANGED locked

PromoteChangeset(w, c) ==
  /\ c \in DOMAIN changesets
  /\ Manager!Promote(c)
  /\ Owe(w, "version", "CHANGESET_PROMOTED", changesets[c].branch, c)
  /\ UNCHANGED locked

\* The handler of create_branch appends no event, also when the branch has a head.
CreateBranch(b, from) ==
  /\ "version" \in load.ops
  /\ Manager!CreateBranch(b, from)
  /\ unlogged' = IF branches'[b].head = None THEN unlogged ELSE unlogged \cup {b}
  /\ alone' = alone \ PendingOn(b)
  /\ UNCHANGED <<chainVars, load, locked, events, work>>

\* Which handlers append to the audit chain after their event, when the server
\* has one (AppState.audit_chain is an Option).
Audited == {"LOCK_FORCE_RELEASED", "CHANGESET_CREATED_DRAFT", "CHANGESET_APPROVED",
            "CHANGESET_VISIBLE", "CHANGESET_PROMOTED", "ROLLBACK_VISIBLE"}

GoOn(w) ==
  /\ work' = [work EXCEPT ![w] = None]
  /\ alone' = alone \ {w}
  /\ IF load.audit /\ work[w].kind \in Audited THEN StartAppend(w) ELSE UNCHANGED chainVars
  /\ UNCHANGED <<load, stateVars>>

LogEvent(w) ==
  /\ work[w] # None
  /\ events' = Append(events, work[w])
  /\ unlogged' = (unlogged \ Subjects(work[w]))
                   \cup IF w \in alone THEN {} ELSE Subjects(work[w]) \cap {work[w].on}
  /\ GoOn(w)

\* The event store fails: a warning.
LoseEvent(w) ==
  /\ load.lossy
  /\ work[w] # None
  /\ unlogged' = unlogged \cup Subjects(work[w])
  /\ GoOn(w)
  /\ UNCHANGED events

\* The handlers of keys and refresh tokens append audit entries as well.
OtherAudit(w) ==
  /\ "other" \in load.ops
  /\ ~Busy(w)
  /\ StartAppend(w)
  /\ UNCHANGED trailVars

\* The server stops: effects without their event stay.
Restart ==
  /\ RestartChain(load.settings)
  /\ work' = [w \in Writers |-> None]
  /\ alone' = {}
  /\ unlogged' = unlogged \cup UNION {Subjects(work[w]) : w \in {v \in Writers : work[v] # None}}
  /\ UNCHANGED <<load, stateVars, events>>

VersionRequest(w) ==
  \/ \E b \in Branches, base \in Changesets \cup {Root}, status \in {"draft", "visible"} :
       SubmitChangeset(w, b, base, status)
  \/ \E b \in Branches, target \in Changesets : Rollback(w, b, target)
  \/ \E c \in Changesets : ApproveChangeset(w, c) \/ PromoteChangeset(w, c)

Next ==
  \/ \E w \in Writers :
       \/ \E p \in Paths :
            \/ LockFile(w, p) \/ RenewLock(w, p)
            \/ \E kind \in Frees : UnlockFile(w, p, kind)
       \/ VersionRequest(w)
       \/ LogEvent(w) \/ LoseEvent(w)
       \/ OtherAudit(w)
  \/ \E p \in Paths : RenewLapsed(p)
  \/ \E b \in Branches, from \in Changesets \cup {None} : CreateBranch(b, from)
  \/ (\E w \in Writers : AppendStep(w)) /\ UNCHANGED trailVars
  \/ "other" \in load.ops /\ TrustStep /\ UNCHANGED trailVars
  \/ Restart

Spec == Init /\ [][Next]_vars /\ ChainFairness

-----------------------------------------------------------------------------
(* Properties. *)

TypeOK ==
  /\ ChainTypeOK
  /\ load \in Workloads
  /\ locked \subseteq Paths
  /\ events \in Seq(Event)
  /\ work \in [Writers -> Event \cup {None}]
  /\ unlogged \subseteq Paths \cup Branches \cup Changesets
  /\ alone \subseteq {w \in Writers : work[w] # None}

Settled(subject) == subject \notin unlogged /\ PendingOn(subject) = {}

\* What is rebuilt from the events is what the tables hold, whatever was lost and
\* reordered elsewhere: for every changeset whose event was not lost, and for every
\* path and branch whose last change has an event and had nobody else on the way
\* there until it was appended.  One such change is enough to mend a path or branch
\* after any disorder; and when all are settled, the verification finds no mismatch
\* (core/replay.rs).
ReplayAgrees ==
  /\ \A p \in Paths : Settled(p) => (p \in Replayed.locks <=> p \in locked)
  /\ \A b \in Branches : Settled(b) => Replayed.heads[b] = HeadOf(b)
  /\ \A c \in DOMAIN changesets : Settled(c) => (c \in Replayed.visible <=> c \in Visible)
  /\ (\A s \in Paths \cup Branches \cup Changesets : Settled(s)) => Consistent

\* When no event is lost and no handler is on the way, the head of every branch is
\* the one that the last event names (core/replay.rs, the test
\* tracks_latest_branch_head_from_visible_events).  It does not hold: two handlers of
\* a branch may append in the other order than they took effect.
LatestHeadIsReplayed ==
  (\A w \in Writers : work[w] = None) => \A b \in Branches : Replayed.heads[b] = HeadOf(b)
==============================================================================
