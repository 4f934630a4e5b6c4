---------------------------- MODULE ReplayProofs ----------------------------
(***************************************************************************)
(* Proofs about AuditChain and Replay, for every set of handlers, paths,   *)
(* branches and changesets, every workload and every bound.                *)
(*                                                                         *)
(* The chain.  ChainVerifies needs to know what an append under way has    *)
(* read: between its read and its insert it holds the lock (LockIsHeld),   *)
(* and the entry it read is the last one still (PrevIsLast).  A checkpoint *)
(* is made of two reads, so that CheckpointCoversItsHead is carried by a   *)
(* statement about the draft between them (DraftNamesItsHead).             *)
(*                                                                         *)
(* The replay.  ReplayAgrees needs two facts about the events that are     *)
(* owed.  Each says something that is never undone (WorkIsGrounded), which *)
(* is enough for changesets and for the types of what is rebuilt.  That of *)
(* a handler that is alone on its path or branch says what the tables hold *)
(* of it now (AloneIsCurrent); what others log stays unlogged there.  That *)
(* the recursion over the events has one solution is part of the invariant *)
(* (ReplayIsDefined) and extended with every event, so that no induction   *)
(* over data is needed.                                                    *)
(***************************************************************************)
EXTENDS Replay, FiniteSetTheorems, TLAPS

\* Handlers that append an entry.
Appending == {w \in Writers : writer[w] # None}

\* Every append under way still finds a number within the bound.
RoomIsKept == lastSeq + Cardinality(Appending) <= MaxSeq

\* Every entry has a number of its own.
CountsFit == Len(chain) <= lastSeq

\* Who reads the last entry, or is to insert after it, has the advisory lock.
LockIsHeld == \A w \in Writers : At(w, "read") \/ At(w, "insert") => holder = w

\* What an append has read is the last entry until it inserts.
PrevIsLast ==
  \A w \in Writers : At(w, "insert") => chain # << >> /\ writer[w].prev = LastEntry.seq

\* The head a draft has read is an entry of the chain.
DraftNamesItsHead == draft # None => \E i \in 1..Len(chain) : chain[i].seq = draft.head

\* What is invariant of the chain.
ChainInv ==
  /\ ChainTypeOK
  /\ RoomIsKept
  /\ CountsFit
  /\ LockIsHeld
  /\ PrevIsLast
  /\ ChainIsLinked
  /\ DraftNamesItsHead
  /\ CheckpointCoversItsHead

\* f is what the recursion over the events es computes.
Replays(f, es) ==
  f = [n \in 0..Len(es) |->
         IF n = 0 THEN NothingReplayed ELSE ApplyEvent(f[n - 1], es[n])]

\* The recursion over the events has one solution.
ReplayIsDefined ==
  \E f : Replays(f, events) /\ \A g : Replays(g, events) => g = f

\* What a replay can compute.
ReplayedType ==
  [ locks   : SUBSET Paths,
    visible : SUBSET DOMAIN changesets,
    heads   : [Branches -> Changesets \cup {None}] ]

\* The version manager's part of the state.
ManagerTypeOK ==
  /\ defaultBranch \in Branches
  /\ DOMAIN branches \subseteq Branches
  /\ \A b \in DOMAIN branches : branches[b].head \in DOMAIN changesets \cup {None}
  /\ DOMAIN changesets \subseteq Changesets
  /\ changesets \in [DOMAIN changesets -> Manager!Record]

\* What an event says that nothing undoes: what it is about exists, and the
\* changeset it makes visible is visible.
Grounded(event) ==
  /\ event.kind \in Frees \cup {"LOCK_ACQUIRED"} => event.on \in Paths
  /\ event.kind \in MakesVisible => event.on \in DOMAIN branches /\ event.of \in Visible

\* What an event says of its path or branch is what the tables hold now.
Current(event) ==
  /\ event.kind = "LOCK_ACQUIRED" => event.on \in locked
  /\ event.kind \in Frees => event.on \notin locked
  /\ event.kind \in MakesVisible => HeadOf(event.on) = event.of

\* The events that are owed are grounded.
WorkIsGrounded == \A w \in Writers : work[w] # None => Grounded(work[w])

\* Who is alone owes the only event about its path or branch, and it is current.
AloneIsCurrent ==
  \A w \in alone : Current(work[w]) /\ PendingOn(work[w].on) = {w}

\* For what is settled the replay has the locks, heads and changesets of the tables.
LocksAgree == \A p \in Paths : Settled(p) => (p \in Replayed.locks <=> p \in locked)
HeadsAgree == \A b \in Branches : Settled(b) => Replayed.heads[b] = HeadOf(b)
VisibleAgrees ==
  \A c \in DOMAIN changesets : Settled(c) => (c \in Replayed.visible <=> c \in Visible)

\* Types of the events and of what handlers owe.
TrailTypeOK ==
  /\ load \in Workloads
  /\ locked \subseteq Paths
  /\ events \in Seq(Event)
  /\ work \in [Writers -> Event \cup {None}]
  /\ unlogged \subseteq Paths \cup Branches \cup Changesets
  /\ alone \subseteq {w \in Writers : work[w] # None}

\* What is invariant of the events.
TrailInv ==
  /\ TrailTypeOK
  /\ ReplayIsDefined
  /\ Replayed \in ReplayedType
  /\ ManagerTypeOK
  /\ WorkIsGrounded
  /\ AloneIsCurrent
  /\ LocksAgree
  /\ HeadsAgree
  /\ VisibleAgrees

\* The inductive invariant.
IInv == ChainInv /\ TrailInv

-----------------------------------------------------------------------------
(* The chain. *)

\* The steps the chain takes, whichever handler they belong to.
ChainNext ==
  \/ \E w \in Writers : StartAppend(w) \/ AppendStep(w)
  \/ TrustStep
  \/ RestartChain(Settings)

\* A request that begins or goes on stays within the bound; what has ended makes room.
LEMMA WritersAreCounted ==
  ASSUME ChainTypeOK
  PROVE  /\ IsFiniteSet(Appending)
         /\ Cardinality(Appending) \in Nat
         /\ \A w \in Appending :
              /\ IsFiniteSet(Appending \ {w})
              /\ Cardinality(Appending \ {w}) = Cardinality(Appending) - 1
         /\ \A w \in Writers \ Appending :
              Cardinality(Appending \cup {w}) = Cardinality(Appending) + 1
<1>1. IsFiniteSet(Appending)
  BY WritersAreFinite, FS_Subset DEF Appending
<1>2. Cardinality(Appending) \in Nat
  BY <1>1, FS_CardinalityType
<1>3. ASSUME NEW w \in Appending
      PROVE  /\ IsFiniteSet(Appending \ {w})
             /\ Cardinality(Appending \ {w}) = Cardinality(Appending) - 1
  BY <1>1, <1>3, FS_RemoveElement
<1>4. ASSUME NEW w \in Writers \ Appending
      PROVE  Cardinality(Appending \cup {w}) = Cardinality(Appending) + 1
  BY <1>1, <1>4, FS_AddElement
<1>. QED BY <1>1, <1>2, <1>3, <1>4

\* An initial chain, empty or seeded, is linked and within the bounds.
LEMMA ChainInvInit ==
  ASSUME NEW seeded \in BOOLEAN, NEW settings, settings \subseteq Settings,
         ChainInit(seeded, settings)
  PROVE  ChainInv
<1>. USE BoundsAreNatural, NoneIsNothingElse
<1>1. ChainTypeOK
  <2>1. [seq |-> 1, prev |-> Genesis] \in Entry
    BY DEF Entry, Genesis
  <2>2. <<[seq |-> 1, prev |-> Genesis]>> \in Seq(Entry) /\ << >> \in Seq(Entry)
    BY <2>1
  <2>3. chain \in Seq(Entry)
    BY <2>2 DEF ChainInit
  <2>. QED BY <2>3 DEF ChainInit, ChainTypeOK
<1>2. Appending = {}
  BY DEF Appending, ChainInit
<1>3. RoomIsKept
  BY <1>2, FS_EmptySet DEF RoomIsKept, ChainInit
<1>4. CountsFit
  BY DEF CountsFit, ChainInit
<1>5. LockIsHeld /\ PrevIsLast
  BY DEF LockIsHeld, PrevIsLast, At, ChainInit
<1>6. ChainIsLinked
  BY DEF ChainIsLinked, ChainInit
<1>7. DraftNamesItsHead /\ CheckpointCoversItsHead
  BY DEF DraftNamesItsHead, CheckpointCoversItsHead, HeadAt, ChainInit
<1>. QED BY <1>1, <1>3, <1>4, <1>5, <1>6, <1>7 DEF ChainInv

\* A new append takes one of the numbers that are left.
LEMMA StartAppendKeeps ==
  ASSUME ChainInv, NEW w \in Writers, StartAppend(w)
  PROVE  ChainInv'
<1>. USE BoundsAreNatural
<1>1. ChainTypeOK'
  BY DEF ChainInv, StartAppend, ChainTypeOK, Writer, Genesis, witnessVars
<1>2. Appending' = Appending \cup {w} /\ w \notin Appending
  BY NoneIsNothingElse DEF StartAppend, Appending, Writer, Genesis, ChainInv, ChainTypeOK
<1>3. RoomIsKept'
  <2>1. lastSeq + Cardinality(Appending) < MaxSeq
    BY DEF StartAppend, Appending
  <2>2. Cardinality(Appending') = Cardinality(Appending) + 1
    BY <1>2, WritersAreCounted DEF ChainInv
  <2>. QED BY <2>1, <2>2, WritersAreCounted DEF RoomIsKept, StartAppend, ChainInv, ChainTypeOK
<1>4. \A v \in Writers : (At(v, "read") \/ At(v, "insert"))' =>
        v # w /\ writer'[v] = writer[v] /\ (At(v, "read") <=> At(v, "read")') /\ (At(v, "insert") <=> At(v, "insert")')
  BY DEF StartAppend, At, ChainInv, ChainTypeOK
<1>5. LockIsHeld' /\ PrevIsLast'
  BY <1>4 DEF ChainInv, LockIsHeld, PrevIsLast, StartAppend, LastEntry
<1>6. (CountsFit /\ ChainIsLinked)'
  BY DEF ChainInv, CountsFit, ChainIsLinked, StartAppend
<1>7. (DraftNamesItsHead /\ CheckpointCoversItsHead)'
  BY DEF ChainInv, DraftNamesItsHead, CheckpointCoversItsHead, HeadAt, StartAppend, witnessVars
<1>. QED BY <1>1, <1>3, <1>5, <1>6, <1>7 DEF ChainInv

\* A transaction that takes the lock, or reads the last entry under it.
LEMMA LockedReadKeeps ==
  ASSUME ChainInv, NEW w \in Writers, TakeLock(w) \/ ReadLast(w)
  PROVE  ChainInv'
<1>. USE BoundsAreNatural, NoneIsNothingElse
<1>1. LastEntry.seq \in 1..MaxSeq \/ chain = << >>
  <2>1. chain \in Seq(Entry)
    BY DEF ChainInv, ChainTypeOK
  <2>2. chain # << >> => chain[Len(chain)] \in Entry
    BY <2>1
  <2>. QED BY <2>2 DEF LastEntry, Entry
<1>2. PICK e \in Writer : writer' = [writer EXCEPT ![w] = e] /\ e.at # "lock" /\
        (e.at = "insert" => chain # << >> /\ e.prev = LastEntry.seq)
  <2>1. CASE TakeLock(w)
    <3>1. [at |-> "read", prev |-> writer[w].prev] \in Writer
      BY <2>1 DEF TakeLock, At, Writer, ChainInv, ChainTypeOK
    <3>2. [writer[w] EXCEPT !.at = "read"] = [at |-> "read", prev |-> writer[w].prev]
      BY <2>1 DEF TakeLock, At, Writer, ChainInv, ChainTypeOK
    <3>. QED BY <3>1, <3>2, <2>1 DEF TakeLock
  <2>2. CASE ReadLast(w)
    <3>1. [at |-> "insert", prev |-> LastEntry.seq] \in Writer
      BY <2>2, <1>1 DEF ReadLast, Writer
    <3>. QED BY <3>1, <2>2 DEF ReadLast
  <2>. QED BY <2>1, <2>2
<1>3. writer'[w] = e /\ (\A v \in Writers \ {w} : writer'[v] = writer[v])
  BY <1>2 DEF ChainInv, ChainTypeOK
<1>4. holder' = w /\ writer[w] # None /\ UNCHANGED <<chain, lastSeq, draft, starts, witnessVars>>
  BY DEF TakeLock, ReadLast, ChainInv, LockIsHeld, At
<1>5. ChainTypeOK'
  BY <1>2, <1>4 DEF ChainInv, ChainTypeOK, witnessVars
<1>6. Appending' = Appending
  BY <1>3, <1>4, <1>2 DEF Appending
<1>7. RoomIsKept'
  BY <1>6, <1>4 DEF ChainInv, RoomIsKept
<1>8. \A v \in Writers \ {w} : ~(At(v, "read") \/ At(v, "insert"))
  BY DEF TakeLock, ReadLast, ChainInv, LockIsHeld, At
<1>9. \A v \in Writers \ {w} : ~(At(v, "read") \/ At(v, "insert"))'
  BY <1>8, <1>3 DEF At
<1>10. LockIsHeld'
  BY <1>9, <1>4 DEF LockIsHeld
<1>11. PrevIsLast'
  BY <1>9, <1>3, <1>4, <1>2 DEF PrevIsLast, At, LastEntry
<1>12. (CountsFit /\ ChainIsLinked)'
  BY <1>4 DEF ChainInv, CountsFit, ChainIsLinked
<1>13. (DraftNamesItsHead /\ CheckpointCoversItsHead)'
  BY <1>4 DEF ChainInv, DraftNamesItsHead, CheckpointCoversItsHead, HeadAt, witnessVars
<1>. QED BY <1>5, <1>7, <1>10, <1>11, <1>12, <1>13 DEF ChainInv

\* What the end of a transaction leaves of the other appends.
LEMMA EndTransactionFacts ==
  ASSUME ChainInv, NEW w \in Writers, writer[w] # None, EndTransaction(w)
  PROVE  /\ writer' \in [Writers -> Writer \cup {None}]
         /\ holder' \in Writers \cup {None}
         /\ Cardinality(Appending') = Cardinality(Appending) - 1
         /\ Cardinality(Appending) \in Nat \ {0}
         /\ LockIsHeld'
         /\ \A v \in Writers : At(v, "insert")' =>
              v # w /\ At(v, "insert") /\ writer'[v] = writer[v]
<1>1. writer'[w] = None /\ (\A v \in Writers \ {w} : writer'[v] = writer[v])
  BY DEF EndTransaction, ChainInv, ChainTypeOK
<1>2. writer' \in [Writers -> Writer \cup {None}] /\ holder' \in Writers \cup {None}
  BY DEF EndTransaction, ChainInv, ChainTypeOK
<1>3. Appending' = Appending \ {w} /\ w \in Appending
  BY <1>1 DEF Appending
<1>4. Cardinality(Appending') = Cardinality(Appending) - 1
      /\ Cardinality(Appending) \in Nat \ {0}
  <2>1. IsFiniteSet(Appending) /\ Cardinality(Appending) \in Nat
    BY WritersAreCounted DEF ChainInv
  <2>2. Cardinality(Appending) # 0
    BY <2>1, <1>3, FS_EmptySet
  <2>. QED BY <2>1, <2>2, <1>3, WritersAreCounted DEF ChainInv
<1>5. \A v \in Writers : (At(v, "read") \/ At(v, "insert"))' =>
        v # w /\ (At(v, "read") \/ At(v, "insert")) /\ (At(v, "insert")' => At(v, "insert"))
  BY <1>1 DEF At
<1>6. LockIsHeld'
  BY <1>5 DEF ChainInv, LockIsHeld, EndTransaction
<1>. QED BY <1>1, <1>2, <1>4, <1>5, <1>6

\* A refused first entry, or a transaction that fails, changes no entry.
LEMMA NoEntryKeeps ==
  ASSUME ChainInv, NEW w \in Writers, RefuseFirst(w) \/ Abort(w)
  PROVE  ChainInv'
<1>. USE BoundsAreNatural
<1>1. /\ writer[w] # None /\ EndTransaction(w)
      /\ lastSeq' \in {lastSeq, lastSeq + 1}
      /\ UNCHANGED <<chain, draft, starts, witnessVars>>
  BY DEF RefuseFirst, Abort, At
<1>2. RoomIsKept' /\ lastSeq' \in 0..MaxSeq
  BY <1>1, EndTransactionFacts DEF RoomIsKept, ChainInv, ChainTypeOK
<1>3. ChainTypeOK'
  BY <1>1, <1>2, EndTransactionFacts DEF ChainInv, ChainTypeOK, witnessVars
<1>4. LockIsHeld'
  BY <1>1, EndTransactionFacts
<1>5. PrevIsLast'
  BY <1>1, EndTransactionFacts DEF ChainInv, PrevIsLast, LastEntry
<1>6. (CountsFit /\ ChainIsLinked)'
  BY <1>1 DEF ChainInv, ChainTypeOK, CountsFit, ChainIsLinked
<1>7. (DraftNamesItsHead /\ CheckpointCoversItsHead)'
  BY <1>1 DEF ChainInv, DraftNamesItsHead, CheckpointCoversItsHead, HeadAt, witnessVars
<1>. QED BY <1>2, <1>3, <1>4, <1>5, <1>6, <1>7 DEF ChainInv

\* The entry that is inserted follows the last one, and no other append has read
\* the entry it replaces as the last.
LEMMA InsertEntryKeeps ==
  ASSUME ChainInv, NEW w \in Writers, InsertEntry(w)
  PROVE  ChainInv'
<1>. USE BoundsAreNatural
<1>0. ChainTypeOK /\ writer[w] # None /\ EndTransaction(w) /\ lastSeq' = lastSeq + 1
  BY DEF InsertEntry, At, ChainInv
<1>1. RoomIsKept' /\ lastSeq' \in 1..MaxSeq
  BY <1>0, EndTransactionFacts DEF RoomIsKept, ChainInv, ChainTypeOK
<1>2. PICK e \in Entry : e.seq = lastSeq + 1 /\ e.prev = writer[w].prev /\ chain' = Append(chain, e)
  <2>1. writer[w] \in Writer
    BY <1>0 DEF ChainTypeOK
  <2>2. [seq |-> lastSeq + 1, prev |-> writer[w].prev] \in Entry
    BY <1>0, <1>1, <2>1 DEF Writer, Entry
  <2>. QED BY <2>2 DEF InsertEntry
<1>3. chain' \in Seq(Entry) /\ Len(chain') = Len(chain) + 1 /\ Len(chain) \in Nat
      /\ chain'[Len(chain) + 1] = e /\ \A i \in 1..Len(chain) : chain'[i] = chain[i]
  BY <1>0, <1>2 DEF ChainTypeOK
<1>4. CountsFit'
  BY <1>0, <1>3 DEF ChainInv, ChainTypeOK, CountsFit, InsertEntry
<1>5. ChainTypeOK'
  BY <1>0, <1>1, <1>3, EndTransactionFacts DEF InsertEntry, ChainTypeOK, witnessVars
<1>6. LockIsHeld'
  BY <1>0, EndTransactionFacts
<1>7. PrevIsLast'
  BY <1>0, EndTransactionFacts DEF ChainInv, InsertEntry, LockIsHeld, PrevIsLast
<1>8. ChainIsLinked'
  <2>1. chain # << >> /\ e.prev = chain[Len(chain)].seq
    BY <1>2 DEF ChainInv, InsertEntry, PrevIsLast, LastEntry
  <2>2. Len(chain) # 0
    BY <2>1, <1>0 DEF ChainTypeOK
  <2>3. ASSUME NEW i \in 1..Len(chain')
        PROVE  chain'[i].prev = IF i = 1 THEN Genesis ELSE chain'[i - 1].seq
    <3>1. CASE i \in 1..Len(chain)
      <4>1. i = 1 \/ i - 1 \in 1..Len(chain)
        BY <3>1, <1>3
      <4>. QED BY <3>1, <4>1, <1>3 DEF ChainInv, ChainIsLinked
    <3>2. CASE i = Len(chain) + 1
      BY <3>2, <2>1, <2>2, <1>3
    <3>. QED BY <3>1, <3>2, <1>3
  <2>. QED BY <2>3 DEF ChainIsLinked
<1>9. DraftNamesItsHead'
  <2>1. \A i \in 1..Len(chain) : i \in 1..Len(chain')
    BY <1>3
  <2>2. draft' = draft
    BY DEF InsertEntry
  <2>. QED BY <2>1, <2>2, <1>3 DEF ChainInv, DraftNamesItsHead
<1>10. CheckpointCoversItsHead'
  <2>1. checkpoint' = checkpoint
    BY DEF InsertEntry, witnessVars
  <2>2. ASSUME checkpoint # None
        PROVE  (\E i \in 1..checkpoint.size : i \in DOMAIN chain' /\ chain'[i].seq = checkpoint.head)
               /\ checkpoint.size <= Len(chain')
    <3>1. checkpoint.size \in Nat /\ checkpoint.size <= Len(chain)
      BY <1>0, <2>2 DEF ChainInv, CheckpointCoversItsHead, ChainTypeOK, Checkpoint
    <3>2. PICK i \in 1..checkpoint.size : i \in DOMAIN chain /\ chain[i].seq = checkpoint.head
      BY <2>2 DEF ChainInv, CheckpointCoversItsHead, HeadAt
    <3>3. i \in 1..Len(chain) /\ DOMAIN chain' = 1..Len(chain')
      BY <3>1, <3>2, <1>3
    <3>4. i \in DOMAIN chain' /\ chain'[i].seq = checkpoint.head
      BY <3>2, <3>3, <1>3
    <3>. QED BY <3>1, <3>2, <3>4, <1>3
  <2>. QED BY <2>1, <2>2 DEF CheckpointCoversItsHead, HeadAt
<1>. QED BY <1>1, <1>4, <1>5, <1>6, <1>7, <1>8, <1>9, <1>10 DEF ChainInv

\* Reading the head begins a draft, storing it makes it the checkpoint.
LEMMA TrustStepKeeps ==
  ASSUME ChainInv, TrustStep
  PROVE  ChainInv'
<1>. USE BoundsAreNatural
<1>1. ChainTypeOK /\ UNCHANGED <<chain, lastSeq, holder, writer, starts>> /\ setting' = setting
  BY DEF ChainInv, TrustStep, ReadHead, StoreCheckpoint, FailCheckpoint, Attest, witnessVars
<1>2. (RoomIsKept /\ LockIsHeld /\ PrevIsLast /\ ChainIsLinked)'
  BY <1>1 DEF ChainInv, RoomIsKept, Appending, LockIsHeld, PrevIsLast, ChainIsLinked, At, LastEntry
<1>3. Len(chain) \in Nat /\ Len(chain) <= MaxSeq /\ (chain # << >> => LastEntry \in Entry /\ Len(chain) \in 1..Len(chain))
  <2>1. chain # << >> => chain[Len(chain)] \in Entry /\ Len(chain) \in 1..Len(chain)
    BY <1>1 DEF ChainTypeOK
  <2>2. Len(chain) \in Nat /\ lastSeq \in 0..MaxSeq
    BY <1>1 DEF ChainTypeOK
  <2>. QED BY <2>1, <2>2 DEF ChainInv, CountsFit, LastEntry
<1>4. CountsFit'
  BY <1>1 DEF ChainInv, CountsFit
<1>5. CASE ReadHead
  <2>1. draft' = [head |-> LastEntry.seq, size |-> 0] /\ chain # << >>
        /\ UNCHANGED <<checkpoint, receipts>>
    BY <1>5 DEF ReadHead, witnessVars
  <2>2. draft' \in Checkpoint
    BY <2>1, <1>3 DEF Checkpoint, Entry
  <2>3. ChainTypeOK'
    BY <1>1, <2>1, <2>2 DEF ChainTypeOK
  <2>4. CheckpointCoversItsHead'
    BY <1>1, <2>1 DEF ChainInv, CheckpointCoversItsHead, HeadAt
  <2>5. DraftNamesItsHead'
    <3>1. chain'[Len(chain')].seq = draft'.head /\ Len(chain') \in 1..Len(chain')
      BY <2>1, <1>1, <1>3 DEF LastEntry
    <3>. QED BY <3>1 DEF DraftNamesItsHead
  <2>. QED BY <1>2, <1>4, <2>3, <2>4, <2>5 DEF ChainInv
<1>6. CASE StoreCheckpoint
  <2>0. draft \in Checkpoint
    BY <1>1, <1>6 DEF StoreCheckpoint, ChainTypeOK
  <2>1. checkpoint' = [head |-> draft.head, size |-> Len(chain)]
    BY <1>6, <2>0 DEF StoreCheckpoint, Checkpoint
  <2>2. draft' = None /\ receipts' = receipts
    BY <1>6 DEF StoreCheckpoint
  <2>3. checkpoint' \in Checkpoint
    BY <2>0, <2>1, <1>3 DEF Checkpoint
  <2>4. ChainTypeOK'
    BY <1>1, <2>2, <2>3 DEF ChainTypeOK
  <2>5. DraftNamesItsHead'
    BY <2>2 DEF DraftNamesItsHead
  <2>6. CheckpointCoversItsHead'
    <3>1. PICK i \in 1..Len(chain) : chain[i].seq = draft.head
      BY <1>6 DEF ChainInv, DraftNamesItsHead, StoreCheckpoint
    <3>2. checkpoint'.head = draft.head /\ checkpoint'.size = Len(chain)
      BY <2>1
    <3>3. i \in DOMAIN chain
      BY <3>1, <1>1 DEF ChainTypeOK
    <3>. QED BY <3>1, <3>2, <3>3, <1>1, <1>3 DEF CheckpointCoversItsHead, HeadAt
  <2>. QED BY <1>2, <1>4, <2>4, <2>5, <2>6 DEF ChainInv
<1>7. CASE FailCheckpoint
  <2>1. draft' = None /\ UNCHANGED <<checkpoint, receipts>>
    BY <1>7 DEF FailCheckpoint, witnessVars
  <2>2. (ChainTypeOK /\ DraftNamesItsHead /\ CheckpointCoversItsHead)'
    BY <1>1, <2>1 DEF ChainInv, ChainTypeOK, DraftNamesItsHead, CheckpointCoversItsHead, HeadAt
  <2>. QED BY <1>2, <1>4, <2>2 DEF ChainInv
<1>8. CASE \E witness \in Range(setting.witnesses) : Attest(witness)
  <2>1. PICK witness \in Range(setting.witnesses) : Attest(witness)
    BY <1>8
  <2>2. receipts' = receipts \cup {witness} /\ UNCHANGED <<draft, checkpoint>>
    BY <2>1 DEF Attest
  <2>3. witness \in Configurable
    BY <1>1 DEF ChainTypeOK, Configurable
  <2>4. (ChainTypeOK /\ DraftNamesItsHead /\ CheckpointCoversItsHead)'
    BY <1>1, <2>2, <2>3 DEF ChainInv, ChainTypeOK, Configurable, DraftNamesItsHead,
       CheckpointCoversItsHead, HeadAt
  <2>. QED BY <1>2, <1>4, <2>4 DEF ChainInv
<1>. QED BY <1>5, <1>6, <1>7, <1>8 DEF TrustStep

\* A restart ends every append and the draft; committed entries stay.
LEMMA RestartChainKeeps ==
  ASSUME ChainInv, RestartChain(Settings)
  PROVE  ChainInv'
<1>. USE BoundsAreNatural
<1>1. \A w \in Writers : writer'[w] = None
  BY DEF RestartChain
<1>2. Appending' = {}
  BY <1>1 DEF Appending
<1>3. RoomIsKept'
  BY <1>2, FS_EmptySet DEF ChainInv, ChainTypeOK, RestartChain, RoomIsKept
<1>4. ChainTypeOK'
  BY DEF ChainInv, RestartChain, ChainTypeOK
<1>5. LockIsHeld' /\ PrevIsLast'
  BY <1>1 DEF LockIsHeld, PrevIsLast, At
<1>6. (CountsFit /\ ChainIsLinked /\ DraftNamesItsHead /\ CheckpointCoversItsHead)'
  BY DEF ChainInv, RestartChain, CountsFit, ChainIsLinked, DraftNamesItsHead, CheckpointCoversItsHead, HeadAt
<1>. QED BY <1>3, <1>4, <1>5, <1>6 DEF ChainInv

\* Every step of the chain keeps its invariant.
LEMMA ChainKeeps ==
  ASSUME ChainInv, ChainNext \/ UNCHANGED chainVars
  PROVE  ChainInv'
<1>1. ASSUME NEW w \in Writers, AppendStep(w)
      PROVE  ChainInv'
  BY <1>1, LockedReadKeeps, NoEntryKeeps, InsertEntryKeeps DEF AppendStep
<1>2. CASE UNCHANGED chainVars
  BY <1>2 DEF chainVars, witnessVars, ChainInv, ChainTypeOK, RoomIsKept, Appending, CountsFit,
     LockIsHeld, PrevIsLast, At, LastEntry, ChainIsLinked, DraftNamesItsHead, CheckpointCoversItsHead, HeadAt
<1>. QED BY <1>1, <1>2, StartAppendKeeps, TrustStepKeeps, RestartChainKeeps DEF ChainNext

\* What a step of the server is for the chain.
LEMMA NextIsChainNext ==
  ASSUME load \in Workloads, [Next]_vars
  PROVE  /\ ChainNext \/ UNCHANGED chainVars
         /\ load' = load
<1>1. load.settings \subseteq Settings
  BY WorkloadsAreKnown
<1>2. ASSUME NEW w \in Writers, NEW op, NEW kind, NEW on, NEW of, Owe(w, op, kind, on, of)
      PROVE  UNCHANGED <<chainVars, load>>
  BY <1>2 DEF Owe
<1>3. ASSUME NEW w \in Writers, GoOn(w)
      PROVE  (ChainNext \/ UNCHANGED chainVars) /\ load' = load
  BY <1>3 DEF GoOn, ChainNext
<1>4. ASSUME Restart PROVE ChainNext /\ load' = load
  BY <1>1, <1>4 DEF Restart, RestartChain, ChainNext
<1>5. ASSUME NEW w \in Writers, VersionRequest(w)
      PROVE  UNCHANGED <<chainVars, load>>
  BY <1>2, <1>5 DEF VersionRequest, SubmitChangeset, Rollback, ApproveChangeset, PromoteChangeset
<1>6. ASSUME NEW w \in Writers, NEW p \in Paths,
             LockFile(w, p) \/ RenewLock(w, p) \/ \E kind \in Frees : UnlockFile(w, p, kind)
      PROVE  UNCHANGED <<chainVars, load>>
  BY <1>2, <1>6 DEF LockFile, RenewLock, UnlockFile
<1>7. ASSUME NEW w \in Writers, LogEvent(w) \/ LoseEvent(w)
      PROVE  (ChainNext \/ UNCHANGED chainVars) /\ load' = load
  BY <1>3, <1>7 DEF LogEvent, LoseEvent
<1>8. ASSUME NEW w \in Writers, OtherAudit(w)
      PROVE  ChainNext /\ load' = load
  BY <1>8 DEF OtherAudit, ChainNext, trailVars
<1>9. ASSUME NEW p \in Paths, RenewLapsed(p)
      PROVE  UNCHANGED <<chainVars, load>>
  BY <1>9 DEF RenewLapsed
<1>10. ASSUME NEW b \in Branches, NEW from \in Changesets \cup {None}, CreateBranch(b, from)
       PROVE  UNCHANGED <<chainVars, load>>
  BY <1>10 DEF CreateBranch
<1>11. ASSUME (\E w \in Writers : AppendStep(w)) \/ TrustStep, UNCHANGED trailVars
       PROVE  ChainNext /\ load' = load
  BY <1>11 DEF ChainNext, trailVars
<1>12. CASE UNCHANGED vars
  BY <1>12 DEF vars, trailVars
<1>. QED BY <1>4, <1>5, <1>6, <1>7, <1>8, <1>9, <1>10, <1>11, <1>12 DEF Next

\* The chain's invariant, and the workload, which no step changes.
LEMMA ChainInvariance == Spec => [](ChainInv /\ load \in Workloads)
<1>1. Init => ChainInv /\ load \in Workloads
  BY ChainInvInit, WorkloadsAreKnown DEF Init
<1>2. ChainInv /\ load \in Workloads /\ [Next]_vars => (ChainInv /\ load \in Workloads)'
  BY ChainKeeps, NextIsChainNext
<1>. QED BY <1>1, <1>2, PTL DEF Spec

\* verify_chain never finds a chain broken that the server wrote: appends that
\* overlap, fail or are cut off by a restart leave every entry linked to the one
\* before it, gaps in the numbers included.
THEOREM ChainsVerify == Spec => []ChainVerifies
<1>1. ChainInv => ChainVerifies
  BY DEF ChainInv, ChainVerifies
<1>. QED BY <1>1, ChainInvariance, PTL

\* A checkpoint counts its head and everything before it, and nothing that is not an
\* entry, whatever is committed between the two statements that make it.
THEOREM CheckpointsCoverTheirHead == Spec => []CheckpointCoversItsHead
<1>1. ChainInv => CheckpointCoversItsHead
  BY DEF ChainInv
<1>. QED BY <1>1, ChainInvariance, PTL

-----------------------------------------------------------------------------
(* The recursion over the events. *)

\* What is rebuilt is the last value of the one solution.
LEMMA ReplayedIsTheSolution ==
  ASSUME NEW f, Replays(f, events), \A g : Replays(g, events) => g = f
  PROVE  Replayed = f[Len(events)]
<1> DEFINE S == CHOOSE state : Replays(state, events)
<1>1. Replays(S, events)
  OBVIOUS
<1>2. Replayed = S[Len(events)]
  BY DEF Replayed, Replays
<1>. QED BY <1>1, <1>2

\* An event at the end extends a solution by one value, and no solution is lost
\* or gained.
LEMMA ReplaysExtended ==
  ASSUME NEW es \in Seq(Event), NEW e \in Event, NEW f, Replays(f, es),
         \A g : Replays(g, es) => g = f
  PROVE  \E h : /\ Replays(h, Append(es, e))
                /\ \A g : Replays(g, Append(es, e)) => g = h
                /\ h[Len(es) + 1] = ApplyEvent(f[Len(es)], e)
<1> DEFINE m == Len(es) + 1
           es2 == Append(es, e)
           last == ApplyEvent(f[Len(es)], e)
           h == [n \in 0..m |-> IF n = m THEN last ELSE f[n]]
           R(g, n) == IF n = 0 THEN NothingReplayed ELSE ApplyEvent(g[n - 1], es2[n])
<1>1. Len(es) \in Nat /\ m \in Nat \ {0} /\ Len(es2) = m /\ es2[m] = e /\ m - 1 = Len(es)
      /\ \A n \in 1..Len(es) : es2[n] = es[n]
  OBVIOUS
<1>2. \A n \in 0..Len(es) : f[n] = IF n = 0 THEN NothingReplayed ELSE ApplyEvent(f[n - 1], es[n])
  BY DEF Replays
<1>3. \A n \in 0..Len(es) : n \in 0..m /\ n # m /\ h[n] = f[n]
  BY <1>1
<1>4. h[m] = last
  BY <1>1
<1>5. ASSUME NEW n \in 0..m PROVE h[n] = R(h, n)
  <2>1. CASE n = m
    <3>. HIDE DEF h, m, es2
    <3>1. h[m - 1] = f[Len(es)]
      <4>1. Len(es) \in 0..Len(es) /\ m - 1 = Len(es)
        BY <1>1
      <4>. QED BY <4>1, <1>3
    <3>. QED BY <2>1, <3>1, <1>1, <1>4
  <2>2. CASE n = 0
    BY <2>2, <1>1, <1>2, <1>3
  <2>3. CASE n \in 1..Len(es)
    <3>1. n - 1 \in 0..Len(es) /\ n \in 0..Len(es)
      BY <2>3, <1>1
    <3>2. h[n - 1] = f[n - 1] /\ h[n] = f[n] /\ es2[n] = es[n] /\ n # 0
      BY <3>1, <2>3, <1>1, <1>3
    <3>. HIDE DEF h, es2
    <3>. QED BY <3>1, <3>2, <1>2
  <2>. QED BY <2>1, <2>2, <2>3, <1>1
<1>6. Replays(h, es2)
  <2>1. h = [n \in 0..m |-> h[n]]
    OBVIOUS
  <2>. HIDE DEF h, es2, m
  <2>2. h = [n \in 0..m |-> R(h, n)]
    BY <2>1, <1>5
  <2>. QED BY <2>2, <1>1 DEF Replays
<1>7. ASSUME NEW g, Replays(g, es2) PROVE g = h
  <2> DEFINE k == [n \in 0..Len(es) |-> g[n]]
  <2>0. g = [n \in 0..m |-> R(g, n)]
    BY <1>7, <1>1 DEF Replays
  <2>1. \A n \in 0..m : g[n] = R(g, n)
    <3>. HIDE DEF R, m
    <3>. QED BY <2>0
  <2>2. ASSUME NEW n \in 0..Len(es)
        PROVE  k[n] = IF n = 0 THEN NothingReplayed ELSE ApplyEvent(k[n - 1], es[n])
    <3>1. n \in 0..m /\ (n # 0 => n - 1 \in 0..Len(es) /\ es2[n] = es[n])
      BY <1>1
    <3>2. k[n] = g[n] /\ (n # 0 => k[n - 1] = g[n - 1])
      BY <3>1
    <3>. HIDE DEF k, es2, m
    <3>. QED BY <3>1, <3>2, <2>1
  <2>3. Replays(k, es)
    <3>1. k = [n \in 0..Len(es) |-> k[n]]
      OBVIOUS
    <3>. HIDE DEF k
    <3>2. k = [n \in 0..Len(es) |->
                 IF n = 0 THEN NothingReplayed ELSE ApplyEvent(k[n - 1], es[n])]
      BY <3>1, <2>2
    <3>. QED BY <3>2 DEF Replays
  <2>4. k = f
    BY <2>3
  <2>5. \A n \in 0..Len(es) : g[n] = f[n]
    BY <2>4
  <2>6. g[m] = last
    <3>1. g[m] = R(g, m) /\ g[m - 1] = f[Len(es)] /\ m # 0
      BY <2>1, <2>5, <1>1
    <3>. HIDE DEF m, es2
    <3>. QED BY <3>1, <1>1
  <2>7. \A n \in 0..m : g[n] = h[n]
    BY <2>5, <2>6, <1>1
  <2>8. g = [n \in 0..m |-> g[n]] /\ h = [n \in 0..m |-> h[n]]
    <3>1. h = [n \in 0..m |-> h[n]]
      OBVIOUS
    <3>. HIDE DEF h, R, m
    <3>2. g = [n \in 0..m |-> g[n]]
      BY <2>0
    <3>. QED BY <3>1, <3>2
  <2>. HIDE DEF h, m
  <2>. QED BY <2>7, <2>8
<1>. QED BY <1>4, <1>6, <1>7

\* Appending an event applies it to what was rebuilt.
LEMMA ReplayedExtended ==
  ASSUME NEW e \in Event, events \in Seq(Event), ReplayIsDefined, events' = Append(events, e)
  PROVE  ReplayIsDefined' /\ Replayed' = ApplyEvent(Replayed, e)
<1>1. PICK f : Replays(f, events) /\ \A g : Replays(g, events) => g = f
  BY DEF ReplayIsDefined
<1>2. PICK h : /\ Replays(h, events')
               /\ \A g : Replays(g, events') => g = h
               /\ h[Len(events) + 1] = ApplyEvent(f[Len(events)], e)
  BY <1>1, ReplaysExtended
<1>3. Replayed = f[Len(events)]
  BY <1>1, ReplayedIsTheSolution
<1>4. Len(events') = Len(events) + 1
  OBVIOUS
<1>5. Replayed' = h[Len(events')]
  <2> DEFINE S == CHOOSE state : Replays(state, events')
  <2>1. Replays(S, events')
    BY <1>2
  <2>2. Replayed' = S[Len(events')]
    BY DEF Replayed, Replays
  <2>. QED BY <2>1, <2>2, <1>2
<1>6. ReplayIsDefined'
  BY <1>2 DEF ReplayIsDefined
<1>. QED BY <1>2, <1>3, <1>4, <1>5, <1>6

\* Without a new event, what is rebuilt stays.
LEMMA ReplayedKept ==
  ASSUME ReplayIsDefined, UNCHANGED events
  PROVE  ReplayIsDefined' /\ Replayed' = Replayed
BY DEF ReplayIsDefined, Replayed

\* Before any event nothing is rebuilt.
LEMMA ReplayedInit ==
  ASSUME events = << >>
  PROVE  ReplayIsDefined /\ Replayed = NothingReplayed
<1> DEFINE f == [n \in 0..0 |-> NothingReplayed]
<1>1. Len(events) = 0 /\ 0..0 = {0}
  OBVIOUS
<1>2. \A g : Replays(g, events) <=> g = f
  BY <1>1 DEF Replays
<1>3. Replayed = f[Len(events)]
  BY <1>2, ReplayedIsTheSolution
<1>4. f[Len(events)] = NothingReplayed
  BY <1>1
<1>5. ReplayIsDefined
  <2>. HIDE DEF f
  <2>. QED BY <1>2 DEF ReplayIsDefined
<1>. QED BY <1>3, <1>4, <1>5

-----------------------------------------------------------------------------
(* What changes, and what the invariant makes of it. *)

\* A step changes the tables for the subjects in S only, and forgets nothing.
OnlyChanges(S) ==
  /\ locked' \subseteq Paths
  /\ \A p \in Paths \ S : p \in locked' <=> p \in locked
  /\ DOMAIN branches \subseteq DOMAIN branches'
  /\ \A b \in Branches \ S : HeadOf(b)' = HeadOf(b)
  /\ DOMAIN changesets \subseteq DOMAIN changesets'
  /\ Visible \subseteq Visible'
  /\ \A c \in DOMAIN changesets' \ S : c \in Visible' <=> c \in Visible

\* An event that is grounded has paths, branches and changesets for its subjects.
LEMMA SubjectsFacts ==
  ASSUME ManagerTypeOK, NEW e \in Event, Grounded(e)
  PROVE  /\ Subjects(e) \subseteq Paths \cup Branches \cup Changesets
         /\ e.kind \in Frees \cup {"LOCK_ACQUIRED"} =>
              Subjects(e) = {e.on} /\ e.on \in Paths
         /\ e.kind \in MakesVisible =>
              Subjects(e) = {e.on, e.of} /\ e.on \in Branches /\ e.of \in Changesets
         /\ e.kind \notin MakesVisible \cup Frees \cup {"LOCK_ACQUIRED"} => Subjects(e) = {}
         /\ \A s \in Subjects(e) \cap (Paths \cup Branches) : s = e.on
<1>1. e.kind \in MakesVisible => e.on \in Branches /\ e.of \in Changesets
  BY DEF Grounded, ManagerTypeOK, Visible
<1>2. e.kind \in Frees \cup {"LOCK_ACQUIRED"} => Subjects(e) = {e.on} /\ e.on \in Paths
  BY DEF Grounded, Subjects
<1>3. e.kind \in MakesVisible => Subjects(e) = {e.on, e.of}
  BY DEF Subjects, MakesVisible, Frees
<1>4. e.kind \notin MakesVisible \cup Frees \cup {"LOCK_ACQUIRED"} => Subjects(e) = {}
  BY DEF Subjects, MakesVisible
<1>5. \A s \in Subjects(e) \cap (Paths \cup Branches) : s = e.on
  BY <1>1, <1>2, <1>3, <1>4, SubjectsAreDistinct
<1>. QED BY <1>1, <1>2, <1>3, <1>4, <1>5

\* An event stays grounded, as nothing is forgotten.
LEMMA GroundedKept ==
  ASSUME NEW e, Grounded(e), NEW S, OnlyChanges(S)
  PROVE  Grounded(e)'
BY DEF Grounded, OnlyChanges, Frees, MakesVisible

\* An event stays current when nothing changes about its path or branch.
LEMMA CurrentKept ==
  ASSUME ManagerTypeOK, NEW e \in Event, Grounded(e), Current(e),
         NEW S, OnlyChanges(S), e.on \notin S
  PROVE  Current(e)'
<1>1. e.kind \in Frees \cup {"LOCK_ACQUIRED"} => (e.on \in locked' <=> e.on \in locked)
  BY SubjectsFacts DEF OnlyChanges
<1>2. e.kind \in MakesVisible => HeadOf(e.on)' = HeadOf(e.on)
  BY SubjectsFacts DEF OnlyChanges
<1>3. e.kind \in MakesVisible => HeadOf(e.on)' = e.of
  BY <1>2 DEF Current
<1>4. MakesVisible' = MakesVisible /\ Frees' = Frees
  BY DEF MakesVisible, Frees
<1>. QED BY <1>1, <1>3, <1>4 DEF Current

\* Who owes an event about a subject, and what is settled, after a step.
LEMMA PendingNext ==
  /\ \A s, v : v \in PendingOn(s)' <=> v \in Writers /\ work'[v] # None /\ s \in Subjects(work'[v])
  /\ \A s : Settled(s)' <=>
       s \notin unlogged' /\ \A v \in Writers : work'[v] # None => s \notin Subjects(work'[v])
<1>1. \A v \in Writers : Subjects(work[v])' = Subjects(work'[v])
  BY DEF Subjects, Frees
<1>2. \A s : PendingOn(s)' = {v \in Writers : work'[v] # None /\ s \in Subjects(work'[v])}
  BY <1>1 DEF PendingOn
<1>. QED BY <1>2 DEF Settled

\* Who was alone before a step is so after it, when it owes the same event, nobody
\* else owes one about its path or branch, and nothing changed there.
LEMMA AloneKept ==
  ASSUME TrailInv, NEW v \in alone, work'[v] = work[v], NEW S, OnlyChanges(S),
         work[v].on \notin S,
         \A u \in Writers : work'[u] # None /\ work[v].on \in Subjects(work'[u]) =>
           work'[u] = work[u]
  PROVE  Current(work[v])' /\ (PendingOn(work[v].on) = {v})'
<1>1. PICK d \in Event : d = work[v] /\ d # None /\ Grounded(d) /\ Current(d)
  BY DEF TrailInv, TrailTypeOK, WorkIsGrounded, AloneIsCurrent
<1>2. PendingOn(d.on) = {v} /\ v \in Writers
  BY <1>1 DEF TrailInv, TrailTypeOK, AloneIsCurrent
<1>3. Current(d)'
  BY <1>1, CurrentKept DEF TrailInv
<1>4. \A u : u \in PendingOn(d.on)' <=> u = v
  <2>1. d.on \in Subjects(d)
    BY <1>1, <1>2 DEF PendingOn
  <2>2. ASSUME NEW u \in PendingOn(d.on)' PROVE u = v
    BY <2>2, <1>1, <1>2, PendingNext DEF PendingOn
  <2>3. v \in PendingOn(d.on)'
    BY <2>1, <1>1, <1>2, PendingNext
  <2>. QED BY <2>2, <2>3
<1>5. PendingOn(d.on)' = {v}
  BY <1>4
<1>6. work'[v] = d
  BY <1>1
<1>. QED BY <1>3, <1>5, <1>6

\* What is rebuilt goes on to agree when only subjects change that are then
\* without their event.
LEMMA AgreementKept ==
  ASSUME TrailInv, UNCHANGED events, NEW S, OnlyChanges(S), ManagerTypeOK',
         \A s : Settled(s)' => Settled(s) /\ s \notin S
  PROVE  /\ ReplayIsDefined'
         /\ (Replayed \in ReplayedType)'
         /\ (LocksAgree /\ HeadsAgree /\ VisibleAgrees)'
<1>1. ReplayIsDefined' /\ Replayed' = Replayed
  BY ReplayedKept DEF TrailInv
<1>2. PICK R : R = Replayed
  OBVIOUS
<1>3. R \in ReplayedType /\ Replayed' = R
  BY <1>1, <1>2 DEF TrailInv
<1>4. (Replayed \in ReplayedType)'
  <2>1. R \in ReplayedType'
    BY <1>3 DEF ReplayedType, OnlyChanges
  <2>. QED BY <2>1, <1>3
<1>5. LocksAgree'
  BY <1>2, <1>3 DEF LocksAgree, TrailInv, OnlyChanges
<1>6. HeadsAgree'
  <2>1. ASSUME NEW b \in Branches, Settled(b)'
        PROVE  R.heads[b] = HeadOf(b)'
    <3>1. R.heads[b] = HeadOf(b)
      BY <2>1, <1>2 DEF TrailInv, HeadsAgree
    <3>. QED BY <2>1, <3>1 DEF OnlyChanges
  <2>. QED BY <2>1, <1>3 DEF HeadsAgree
<1>7. VisibleAgrees'
  <2>1. ASSUME NEW c \in DOMAIN changesets', Settled(c)'
        PROVE  c \in R.visible <=> c \in Visible'
    <3>1. c \in DOMAIN changesets => (c \in R.visible <=> c \in Visible)
      BY <2>1, <1>2 DEF TrailInv, VisibleAgrees
    <3>2. c \notin DOMAIN changesets => c \notin R.visible /\ c \notin Visible
      BY <1>3 DEF ReplayedType, Visible
    <3>. QED BY <2>1, <3>1, <3>2 DEF OnlyChanges
  <2>. QED BY <2>1, <1>3 DEF VisibleAgrees
<1>. QED BY <1>1, <1>4, <1>5, <1>6, <1>7

\* A handler whose effect is what its event says.
LEMMA OweKeeps ==
  ASSUME TrailInv, NEW w \in Writers, NEW op, NEW kind, NEW on, NEW of, NEW e \in Event,
         e = [kind |-> kind, on |-> on, of |-> of],
         Owe(w, op, kind, on, of), ManagerTypeOK', Grounded(e)', Current(e)',
         OnlyChanges(Subjects(e))
  PROVE  TrailInv'
<1>0. TrailTypeOK /\ ManagerTypeOK /\ e.on = on /\ e # None
  BY NoneIsNoEvent DEF TrailInv
<1>1. /\ work[w] = None /\ work'[w] = e
      /\ \A v \in Writers \ {w} : work'[v] = work[v]
      /\ work' \in [Writers -> Event \cup {None}]
      /\ UNCHANGED <<load, events, unlogged>>
  BY <1>0 DEF Owe, Busy, TrailTypeOK
<1>2. alone' = IF on \notin Subjects(e) THEN alone
               ELSE IF PendingOn(on) = {} THEN alone \cup {w} ELSE alone \ PendingOn(on)
  BY DEF Owe
<1>3. alone' \subseteq {v \in Writers : work'[v] # None} /\ w \notin alone
  BY <1>0, <1>1, <1>2 DEF TrailTypeOK
<1>4. TrailTypeOK'
  BY <1>0, <1>1, <1>3 DEF TrailTypeOK, OnlyChanges
<1>5. \A s \in Subjects(e) \cap (Paths \cup Branches) : s = on
  <2>1. e.kind \in MakesVisible => e.on \in Branches /\ e.of \in Changesets
    <3>1. e.kind \in MakesVisible => e.on \in DOMAIN branches' /\ e.of \in Visible'
      BY DEF Grounded, MakesVisible
    <3>. QED BY <3>1 DEF ManagerTypeOK, Visible
  <2>. QED BY <2>1, <1>0, SubjectsAreDistinct DEF Subjects, MakesVisible
<1>6. \A s : Settled(s)' => Settled(s) /\ s \notin Subjects(e)
  BY <1>0, <1>1, PendingNext DEF Settled, PendingOn
<1>7. ReplayIsDefined' /\ (Replayed \in ReplayedType)' /\ (LocksAgree /\ HeadsAgree /\ VisibleAgrees)'
  BY <1>1, <1>6, AgreementKept
<1>8. WorkIsGrounded'
  <2>1. ASSUME NEW v \in Writers \ {w}, work[v] # None PROVE Grounded(work[v])'
    <3>1. PICK d : d = work[v] /\ Grounded(d) /\ work'[v] = d
      BY <2>1, <1>1 DEF TrailInv, WorkIsGrounded
    <3>. QED BY <3>1, GroundedKept
  <2>2. Grounded(work[w])'
    BY <1>1
  <2>. QED BY <2>1, <2>2, <1>1 DEF WorkIsGrounded
<1>9. ASSUME NEW v \in alone', v # w
      PROVE  Current(work[v])' /\ (PendingOn(work[v].on) = {v})'
  <2>1. v \in alone /\ v \in Writers /\ work'[v] = work[v] /\ work[v] \in Event
        /\ Grounded(work[v]) /\ PendingOn(work[v].on) = {v}
    BY <1>9, <1>1, <1>2 DEF TrailInv, TrailTypeOK, WorkIsGrounded, AloneIsCurrent
  <2>2. work[v].on \in Paths \cup Branches
    BY <2>1 DEF Event
  <2>3. on \in Subjects(e) => work[v].on # on
    BY <1>2, <1>9, <2>1
  <2>4. work[v].on \notin Subjects(e)
    BY <2>2, <2>3, <1>5
  <2>5. \A u \in Writers : work'[u] # None /\ work[v].on \in Subjects(work'[u]) => work'[u] = work[u]
    BY <1>1, <2>4
  <2>. QED BY <2>1, <2>4, <2>5, AloneKept
<1>10. ASSUME w \in alone'
       PROVE  Current(work[w])' /\ (PendingOn(work[w].on) = {w})'
  <2>1. on \in Subjects(e) /\ PendingOn(on) = {}
    BY <1>10, <1>2, <1>3
  <2>2. \A u : u \in PendingOn(on)' <=> u = w
    BY <2>1, <1>0, <1>1, PendingNext DEF PendingOn
  <2>3. PendingOn(on)' = {w}
    BY <2>2
  <2>. QED BY <2>3, <1>0, <1>1
<1>11. AloneIsCurrent'
  BY <1>9, <1>10 DEF AloneIsCurrent
<1>. QED BY <1>4, <1>7, <1>8, <1>11 DEF TrailInv

-----------------------------------------------------------------------------
(* The events on their way, and the locks. *)

\* Applying an event that is grounded brings what is rebuilt to what the tables hold
\* for its changeset, and for its path or branch too when it is current; nothing
\* else changes.
LEMMA ApplyEventFacts ==
  ASSUME TrailTypeOK, ManagerTypeOK, NEW R \in ReplayedType, NEW e \in Event, Grounded(e),
         NEW Q, Q = ApplyEvent(R, e)
  PROVE  /\ Q \in ReplayedType
         /\ \A p \in Paths \ Subjects(e) : p \in Q.locks <=> p \in R.locks
         /\ \A b \in Branches \ Subjects(e) : Q.heads[b] = R.heads[b]
         /\ \A c \in DOMAIN changesets :
              c \in Q.visible <=> IF c \in Subjects(e) THEN c \in Visible ELSE c \in R.visible
         /\ Current(e) =>
              /\ \A p \in Paths \cap Subjects(e) : p \in Q.locks <=> p \in locked
              /\ \A b \in Branches \cap Subjects(e) : Q.heads[b] = HeadOf(b)
<1>0. /\ R = [locks |-> R.locks, visible |-> R.visible, heads |-> R.heads]
      /\ R.locks \subseteq Paths /\ R.visible \subseteq DOMAIN changesets
      /\ R.heads \in [Branches -> Changesets \cup {None}]
      /\ DOMAIN changesets \subseteq Changesets
      /\ locked \subseteq Paths
  BY DEF ReplayedType, ManagerTypeOK, TrailTypeOK
<1>1. CASE e.kind = "LOCK_ACQUIRED"
  <2>1. Subjects(e) = {e.on} /\ e.on \in Paths /\ (Current(e) => e.on \in locked)
    BY <1>1, SubjectsFacts DEF Current
  <2>2. Q = [R EXCEPT !.locks = R.locks \cup {e.on}]
    BY <1>1 DEF ApplyEvent, Frees, MakesVisible
  <2>3. Q \in ReplayedType /\ Q.locks = R.locks \cup {e.on} /\ Q.visible = R.visible
        /\ Q.heads = R.heads
    BY <2>1, <2>2 DEF ReplayedType
  <2>. QED BY <2>1, <2>3, <1>0, SubjectsAreDistinct
<1>2. CASE e.kind \in Frees
  <2>1. Subjects(e) = {e.on} /\ e.on \in Paths /\ (Current(e) => e.on \notin locked)
    BY <1>2, SubjectsFacts DEF Current
  <2>2. Q = [R EXCEPT !.locks = R.locks \ {e.on}]
    BY <1>2 DEF ApplyEvent, Frees, MakesVisible
  <2>3. Q \in ReplayedType /\ Q.locks = R.locks \ {e.on} /\ Q.visible = R.visible
        /\ Q.heads = R.heads
    BY <2>1, <2>2 DEF ReplayedType
  <2>. QED BY <2>1, <2>3, <1>0, SubjectsAreDistinct
<1>3. CASE e.kind \in MakesVisible
  <2>1. Subjects(e) = {e.on, e.of} /\ e.on \in Branches /\ e.of \in DOMAIN changesets
        /\ e.of \in Visible /\ (Current(e) => HeadOf(e.on) = e.of)
    BY <1>3, SubjectsFacts DEF Grounded, Current, Visible
  <2>2. Q = [ locks |-> R.locks, visible |-> R.visible \cup {e.of},
              heads |-> [R.heads EXCEPT ![e.on] = e.of] ]
    BY <1>3 DEF ApplyEvent, MakesVisible, Frees
  <2>3. Q \in ReplayedType
    BY <2>1, <2>2, <1>0 DEF ReplayedType
  <2>4. \A b \in Branches : Q.heads[b] = IF b = e.on THEN e.of ELSE R.heads[b]
    BY <2>1, <2>2, <1>0
  <2>5. Q.locks = R.locks /\ Q.visible = R.visible \cup {e.of}
    BY <2>2
  <2>. QED BY <2>1, <2>3, <2>4, <2>5, <1>0, SubjectsAreDistinct
<1>4. CASE e.kind \notin MakesVisible \cup Frees \cup {"LOCK_ACQUIRED"}
  <2>1. Subjects(e) = {} /\ Q = R
    BY <1>4, SubjectsFacts DEF ApplyEvent
  <2>. QED BY <2>1
<1>. QED BY <1>1, <1>2, <1>3, <1>4

\* A handler that goes on has one event less to append, and changes no table.
LEMMA GoOnFacts ==
  ASSUME TrailInv, NEW w \in Writers, work[w] # None, GoOn(w)
  PROVE  /\ work' \in [Writers -> Event \cup {None}]
         /\ work'[w] = None
         /\ \A v \in Writers \ {w} : work'[v] = work[v]
         /\ load' = load /\ UNCHANGED <<locked, branches, changesets, defaultBranch>>
         /\ OnlyChanges({})
         /\ alone' \subseteq {v \in Writers : work'[v] # None}
         /\ ManagerTypeOK' /\ WorkIsGrounded' /\ AloneIsCurrent'
<1>0. TrailTypeOK /\ ManagerTypeOK
  BY DEF TrailInv
<1>1. /\ work' \in [Writers -> Event \cup {None}]
      /\ work'[w] = None
      /\ \A v \in Writers \ {w} : work'[v] = work[v]
      /\ alone' = alone \ {w}
      /\ load' = load /\ UNCHANGED <<locked, branches, changesets, defaultBranch>>
  BY <1>0 DEF GoOn, stateVars, versionVars, TrailTypeOK
<1>2. OnlyChanges({})
  BY <1>0, <1>1 DEF OnlyChanges, HeadOf, Visible, TrailTypeOK
<1>3. ManagerTypeOK'
  BY <1>0, <1>1 DEF ManagerTypeOK, Manager!Record
<1>4. WorkIsGrounded'
  BY <1>1 DEF TrailInv, WorkIsGrounded, Grounded, Visible, Frees, MakesVisible
<1>5. alone' \subseteq {v \in Writers : work'[v] # None}
  BY <1>0, <1>1 DEF TrailTypeOK
<1>6. AloneIsCurrent'
  <2>1. ASSUME NEW v \in alone' PROVE Current(work[v])' /\ (PendingOn(work[v].on) = {v})'
    <3>1. v \in alone /\ work'[v] = work[v]
      BY <2>1, <1>1, <1>5
    <3>2. \A u \in Writers : work'[u] # None => work'[u] = work[u]
      BY <1>1
    <3>. QED BY <3>1, <3>2, <1>2, AloneKept
  <2>. QED BY <2>1 DEF AloneIsCurrent
<1>. QED BY <1>1, <1>2, <1>3, <1>4, <1>5, <1>6

\* The event of a handler brings what is rebuilt up to date for its changeset, and
\* for its path or branch when the handler was alone there; it stays unlogged else.
LEMMA LogEventKeeps ==
  ASSUME TrailInv, NEW w \in Writers, LogEvent(w)
  PROVE  TrailInv'
<1>1. PICK e \in Event : e = work[w] /\ Grounded(e) /\ e # None /\ (w \in alone => Current(e))
  BY DEF LogEvent, TrailInv, TrailTypeOK, WorkIsGrounded, AloneIsCurrent
<1>2. /\ events' = Append(events, e) /\ work[w] # None /\ GoOn(w)
      /\ unlogged' = (unlogged \ Subjects(e)) \cup IF w \in alone THEN {} ELSE Subjects(e) \cap {e.on}
      /\ TrailTypeOK /\ ManagerTypeOK
  BY <1>1 DEF LogEvent, TrailInv
<1>3. PICK R \in ReplayedType : R = Replayed
  BY DEF TrailInv
<1>4. PICK Q : Q = ApplyEvent(R, e)
  OBVIOUS
<1>5. ReplayIsDefined' /\ Replayed' = Q
  BY <1>1, <1>2, <1>3, <1>4, ReplayedExtended DEF TrailInv, TrailTypeOK
<1>6. /\ Q \in ReplayedType
      /\ \A p \in Paths \ Subjects(e) : p \in Q.locks <=> p \in R.locks
      /\ \A b \in Branches \ Subjects(e) : Q.heads[b] = R.heads[b]
      /\ \A c \in DOMAIN changesets :
           c \in Q.visible <=> IF c \in Subjects(e) THEN c \in Visible ELSE c \in R.visible
      /\ Current(e) =>
           /\ \A p \in Paths \cap Subjects(e) : p \in Q.locks <=> p \in locked
           /\ \A b \in Branches \cap Subjects(e) : Q.heads[b] = HeadOf(b)
  BY <1>1, <1>2, <1>4, ApplyEventFacts
<1>7. UNCHANGED <<locked, branches, changesets, defaultBranch>> /\ load' = load
      /\ ManagerTypeOK' /\ WorkIsGrounded' /\ AloneIsCurrent'
  BY <1>2, GoOnFacts
<1>8. TrailTypeOK'
  <2>1. work' \in [Writers -> Event \cup {None}] /\ alone' \subseteq {v \in Writers : work'[v] # None}
    BY <1>2, GoOnFacts
  <2>2. events' \in Seq(Event)
    BY <1>2 DEF TrailTypeOK
  <2>3. unlogged' \subseteq Paths \cup Branches \cup Changesets
    BY <1>1, <1>2, SubjectsFacts DEF TrailTypeOK
  <2>. QED BY <1>2, <1>7, <2>1, <2>2, <2>3 DEF TrailTypeOK
<1>9. \A s : Settled(s)' /\ s \notin Subjects(e) => Settled(s)
  <2>1. \A v \in Writers \ {w} : work'[v] = work[v]
    BY <1>2, GoOnFacts
  <2>. QED BY <1>1, <1>2, <2>1, PendingNext DEF Settled, PendingOn
<1>10. ASSUME NEW s \in (Paths \cup Branches) \cap Subjects(e), Settled(s)'
       PROVE  Current(e)
  <2>1. s = e.on
    BY <1>1, <1>2, SubjectsFacts
  <2>2. s \notin unlogged'
    BY <1>10, PendingNext
  <2>. QED BY <2>1, <2>2, <1>1, <1>2
<1>11. (Replayed \in ReplayedType)'
  <2>1. Q \in ReplayedType'
    BY <1>6, <1>7 DEF ReplayedType
  <2>. QED BY <2>1, <1>5
<1>12. LocksAgree'
  <2>1. ASSUME NEW p \in Paths, Settled(p)' PROVE p \in Q.locks <=> p \in locked
    <3>1. CASE p \in Subjects(e)
      BY <2>1, <3>1, <1>6, <1>10
    <3>2. CASE p \notin Subjects(e)
      BY <2>1, <3>2, <1>3, <1>6, <1>9 DEF TrailInv, LocksAgree
    <3>. QED BY <3>1, <3>2
  <2>. QED BY <2>1, <1>5, <1>7 DEF LocksAgree
<1>13. HeadsAgree'
  <2>1. \A b \in Branches : HeadOf(b)' = HeadOf(b)
    BY <1>7 DEF HeadOf
  <2>2. ASSUME NEW b \in Branches, Settled(b)' PROVE Q.heads[b] = HeadOf(b)
    <3>1. CASE b \in Subjects(e)
      BY <2>2, <3>1, <1>6, <1>10
    <3>2. CASE b \notin Subjects(e)
      BY <2>2, <3>2, <1>3, <1>6, <1>9 DEF TrailInv, HeadsAgree
    <3>. QED BY <3>1, <3>2
  <2>. QED BY <2>1, <2>2, <1>5 DEF HeadsAgree
<1>14. VisibleAgrees'
  <2>1. Visible' = Visible
    BY <1>7 DEF Visible
  <2>2. ASSUME NEW c \in DOMAIN changesets, Settled(c)' PROVE c \in Q.visible <=> c \in Visible
    BY <2>2, <1>3, <1>6, <1>9 DEF TrailInv, VisibleAgrees
  <2>. QED BY <2>1, <2>2, <1>5, <1>7 DEF VisibleAgrees
<1>. QED BY <1>5, <1>7, <1>8, <1>11, <1>12, <1>13, <1>14 DEF TrailInv

\* A lost event leaves its subjects unsettled.
LEMMA LoseEventKeeps ==
  ASSUME TrailInv, NEW w \in Writers, LoseEvent(w)
  PROVE  TrailInv'
<1>1. PICK e \in Event : e = work[w] /\ Grounded(e) /\ e # None
  BY DEF LoseEvent, TrailInv, TrailTypeOK, WorkIsGrounded
<1>2. events' = events /\ unlogged' = unlogged \cup Subjects(e) /\ work[w] # None /\ GoOn(w)
      /\ TrailTypeOK /\ ManagerTypeOK
  BY <1>1 DEF LoseEvent, TrailInv
<1>3. load' = load /\ locked' = locked
      /\ ManagerTypeOK' /\ WorkIsGrounded' /\ AloneIsCurrent' /\ OnlyChanges({})
  BY <1>2, GoOnFacts
<1>4. TrailTypeOK'
  <2>1. work' \in [Writers -> Event \cup {None}] /\ alone' \subseteq {v \in Writers : work'[v] # None}
    BY <1>2, GoOnFacts
  <2>. QED BY <1>1, <1>2, <1>3, <2>1, SubjectsFacts DEF TrailTypeOK
<1>5. \A s : Settled(s)' => Settled(s) /\ s \notin {}
  <2>1. \A v \in Writers \ {w} : work'[v] = work[v]
    BY <1>2, GoOnFacts
  <2>. QED BY <1>1, <1>2, <2>1, PendingNext DEF Settled, PendingOn
<1>6. ReplayIsDefined' /\ (Replayed \in ReplayedType)' /\ (LocksAgree /\ HeadsAgree /\ VisibleAgrees)'
  BY <1>2, <1>3, <1>5, AgreementKept
<1>. QED BY <1>3, <1>4, <1>6 DEF TrailInv

\* A restart leaves what was owed unsettled.
LEMMA RestartKeeps ==
  ASSUME TrailInv, Restart
  PROVE  TrailInv'
<1>0. TrailTypeOK /\ ManagerTypeOK
  BY DEF TrailInv
<1>1. /\ \A w \in Writers : work'[w] = None
      /\ work' \in [Writers -> Event \cup {None}]
      /\ load' = load /\ events' = events /\ alone' = {}
      /\ UNCHANGED <<locked, branches, changesets, defaultBranch>>
      /\ \A s : s \in unlogged' <=> s \in unlogged \/ \E w \in Writers : work[w] # None /\ s \in Subjects(work[w])
  BY DEF Restart, stateVars, versionVars
<1>2. unlogged' \subseteq Paths \cup Branches \cup Changesets
  <2>1. ASSUME NEW w \in Writers, work[w] # None
        PROVE  Subjects(work[w]) \subseteq Paths \cup Branches \cup Changesets
    BY <2>1, <1>0, SubjectsFacts DEF TrailInv, TrailTypeOK, WorkIsGrounded
  <2>. QED BY <2>1, <1>0, <1>1 DEF TrailTypeOK
<1>3. TrailTypeOK'
  BY <1>0, <1>1, <1>2 DEF TrailTypeOK
<1>4. ManagerTypeOK'
  BY <1>0, <1>1 DEF ManagerTypeOK, Manager!Record
<1>5. OnlyChanges({})
  BY <1>0, <1>1 DEF OnlyChanges, HeadOf, Visible, TrailTypeOK
<1>6. \A s : Settled(s)' => Settled(s) /\ s \notin {}
  BY <1>1, PendingNext DEF Settled, PendingOn
<1>7. ReplayIsDefined' /\ (Replayed \in ReplayedType)' /\ (LocksAgree /\ HeadsAgree /\ VisibleAgrees)'
  BY <1>1, <1>4, <1>5, <1>6, AgreementKept
<1>8. WorkIsGrounded' /\ AloneIsCurrent'
  BY <1>1 DEF WorkIsGrounded, AloneIsCurrent
<1>. QED BY <1>3, <1>4, <1>7, <1>8 DEF TrailInv

\* A lock is taken, renewed or given up.
LEMMA LockKeeps ==
  ASSUME TrailInv, NEW w \in Writers, NEW p \in Paths,
         \/ LockFile(w, p) \/ RenewLock(w, p)
         \/ \E kind \in Frees : UnlockFile(w, p, kind)
  PROVE  TrailInv'
<1>0. TrailTypeOK /\ ManagerTypeOK /\ UNCHANGED <<branches, changesets, defaultBranch>>
  BY DEF TrailInv, LockFile, RenewLock, UnlockFile, stateVars, versionVars
<1>1. ManagerTypeOK'
  BY <1>0 DEF ManagerTypeOK, Manager!Record
<1>2. UNCHANGED Visible /\ \A b \in Branches : HeadOf(b)' = HeadOf(b)
  BY <1>0 DEF Visible, HeadOf
<1>3. CASE LockFile(w, p)
  <2> DEFINE e == [kind |-> "LOCK_ACQUIRED", on |-> p, of |-> None]
  <2>1. e \in Event /\ Subjects(e) = {p} /\ locked' = locked \cup {p}
    BY <1>3 DEF Event, Subjects, LockFile
  <2>2. OnlyChanges(Subjects(e)) /\ Grounded(e)' /\ Current(e)'
    BY <2>1, <1>0, <1>2 DEF OnlyChanges, TrailTypeOK, Grounded, Current, Frees, MakesVisible
  <2>3. Owe(w, "lock", "LOCK_ACQUIRED", p, None)
    BY <1>3 DEF LockFile
  <2>. HIDE DEF e
  <2>4. e = [kind |-> "LOCK_ACQUIRED", on |-> p, of |-> None]
    BY DEF e
  <2>. QED BY <2>1, <2>2, <2>3, <2>4, <1>1, OweKeeps
<1>4. CASE RenewLock(w, p)
  <2> DEFINE e == [kind |-> "LOCK_RENEWED", on |-> p, of |-> None]
  <2>1. e \in Event /\ Subjects(e) = {} /\ locked' = locked
    BY <1>4 DEF Event, Subjects, Frees, RenewLock, stateVars
  <2>2. OnlyChanges(Subjects(e)) /\ Grounded(e)' /\ Current(e)'
    BY <2>1, <1>0, <1>2 DEF OnlyChanges, TrailTypeOK, Grounded, Current, Frees, MakesVisible
  <2>3. Owe(w, "lock", "LOCK_RENEWED", p, None)
    BY <1>4 DEF RenewLock
  <2>. HIDE DEF e
  <2>4. e = [kind |-> "LOCK_RENEWED", on |-> p, of |-> None]
    BY DEF e
  <2>. QED BY <2>1, <2>2, <2>3, <2>4, <1>1, OweKeeps
<1>5. ASSUME NEW kind \in Frees, UnlockFile(w, p, kind)
      PROVE  TrailInv'
  <2> DEFINE e == [kind |-> kind, on |-> p, of |-> None]
  <2>1. e \in Event /\ Subjects(e) = {p} /\ locked' = locked \ {p}
    BY <1>5 DEF Event, Subjects, Frees, UnlockFile
  <2>2. OnlyChanges(Subjects(e)) /\ Grounded(e)' /\ Current(e)'
    BY <2>1, <1>0, <1>2 DEF OnlyChanges, TrailTypeOK, Grounded, Current, Frees, MakesVisible
  <2>3. Owe(w, "lock", kind, p, None)
    BY <1>5 DEF UnlockFile
  <2>. HIDE DEF e
  <2>4. e = [kind |-> kind, on |-> p, of |-> None]
    BY DEF e
  <2>. QED BY <2>1, <2>2, <2>3, <2>4, <1>1, OweKeeps
<1>. QED BY <1>3, <1>4, <1>5

\* What an effect without an event makes of the invariant: what it changes is
\* marked, and who owes an event about it is no longer alone.
LEMMA UnloggedKeeps ==
  ASSUME TrailInv, NEW s \in Paths \cup Branches, NEW S \in SUBSET {s},
         OnlyChanges(S), ManagerTypeOK', unlogged' = unlogged \cup S,
         alone' = alone \ PendingOn(s), UNCHANGED <<load, events, work>>
  PROVE  TrailInv'
<1>0. TrailTypeOK /\ ManagerTypeOK
  BY DEF TrailInv
<1>1. TrailTypeOK'
  BY <1>0 DEF TrailTypeOK, OnlyChanges
<1>2. \A x : Settled(x)' => Settled(x) /\ x \notin S
  BY PendingNext DEF Settled, PendingOn
<1>3. ReplayIsDefined' /\ (Replayed \in ReplayedType)' /\ (LocksAgree /\ HeadsAgree /\ VisibleAgrees)'
  BY <1>2, AgreementKept
<1>4. WorkIsGrounded'
  <2>1. ASSUME NEW v \in Writers, work'[v] # None PROVE Grounded(work[v])'
    <3>1. PICK d : d = work[v] /\ d = work'[v] /\ Grounded(d)
      BY <2>1 DEF TrailInv, WorkIsGrounded
    <3>. QED BY <3>1, GroundedKept
  <2>. QED BY <2>1 DEF WorkIsGrounded
<1>5. AloneIsCurrent'
  <2>1. ASSUME NEW v \in alone' PROVE Current(work[v])' /\ (PendingOn(work[v].on) = {v})'
    <3>1. v \in alone /\ v \notin PendingOn(s) /\ v \in PendingOn(work[v].on)
      BY <2>1 DEF TrailInv, AloneIsCurrent
    <3>2. work[v].on \notin S
      BY <3>1
    <3>. QED BY <3>1, <3>2, AloneKept
  <2>. QED BY <2>1 DEF AloneIsCurrent
<1>. QED BY <1>1, <1>3, <1>4, <1>5 DEF TrailInv

\* A renewal that comes too late.
LEMMA RenewLapsedKeeps ==
  ASSUME TrailInv, NEW p \in Paths, RenewLapsed(p)
  PROVE  TrailInv'
<1>0. TrailTypeOK /\ ManagerTypeOK /\ UNCHANGED <<branches, changesets, defaultBranch>>
  BY DEF TrailInv, RenewLapsed, versionVars
<1>1. ManagerTypeOK'
  BY <1>0 DEF ManagerTypeOK, Manager!Record
<1>2. OnlyChanges({p})
  BY <1>0 DEF OnlyChanges, TrailTypeOK, Visible, HeadOf, RenewLapsed
<1>3. unlogged' = unlogged \cup {p} /\ alone' = alone \ PendingOn(p) /\ UNCHANGED <<load, events, work>>
  BY DEF RenewLapsed
<1>4. {p} \in SUBSET {p}
  OBVIOUS
<1>. QED BY <1>1, <1>2, <1>3, <1>4, UnloggedKeeps

-----------------------------------------------------------------------------
(* The version manager. *)

\* The default branch that create_branch and submit make has no head.
LEMMA EnsuredFacts ==
  ASSUME ManagerTypeOK
  PROVE  /\ DOMAIN branches \subseteq DOMAIN Manager!EnsuredBranches
         /\ DOMAIN Manager!EnsuredBranches \subseteq Branches
         /\ defaultBranch \in DOMAIN Manager!EnsuredBranches
         /\ \A b \in DOMAIN Manager!EnsuredBranches :
              /\ Manager!EnsuredBranches[b].head = HeadOf(b)
              /\ HeadOf(b) \in DOMAIN changesets \cup {None}
BY DEF ManagerTypeOK, Manager!EnsuredBranches, Manager!Put, Manager!NewBranch, HeadOf

\* A record that gets another status keeps the rest.
LEMMA StatusSet ==
  ASSUME NEW r \in Manager!Record, NEW s \in {"draft", "approved", "visible"}
  PROVE  /\ [r EXCEPT !.status = s] \in Manager!Record
         /\ [r EXCEPT !.status = s].status = s
         /\ [r EXCEPT !.status = s].branch = r.branch
BY DEF Manager!Record

\* What a submission changes.
LEMMA StoreFacts ==
  ASSUME TrailTypeOK, ManagerTypeOK, NEW b \in Branches, NEW base \in Changesets \cup {Root},
         NEW status \in {"draft", "visible"}, NEW restores \in Changesets \cup {None},
         StoreOn(b, base, status, restores)
  PROVE  /\ NextChangeset \in Changesets \ DOMAIN changesets
         /\ ManagerTypeOK'
         /\ status = "draft" => OnlyChanges({})
         /\ status = "visible" =>
              /\ OnlyChanges({b, NextChangeset})
              /\ b \in DOMAIN branches' /\ branches'[b].head = NextChangeset
              /\ NextChangeset \in Visible'
<1>1. PICK c \in Changesets \ DOMAIN changesets : c = NextChangeset
  BY DEF StoreOn, NextChangeset
<1>2. PICK ens : ens = Manager!EnsuredBranches
  OBVIOUS
<1>3. /\ DOMAIN branches \subseteq DOMAIN ens /\ DOMAIN ens \subseteq Branches
      /\ \A x \in DOMAIN ens : ens[x].head = HeadOf(x) /\ HeadOf(x) \in DOMAIN changesets \cup {None}
  BY <1>2, EnsuredFacts
<1>4. /\ b \in DOMAIN ens /\ locked' = locked /\ defaultBranch' = defaultBranch
      /\ branches' = IF status = "visible"
                     THEN [ens EXCEPT ![b] = [head |-> c, history |-> Append(ens[b].history, c)]]
                     ELSE ens
  BY <1>1, <1>2 DEF StoreOn, Manager!Submittable, Manager!Store, Manager!EnsureRepo, Manager!AdvanceHead
<1>5. PICK rec \in Manager!Record :
        rec.status = status /\ changesets' = [x \in DOMAIN changesets \cup {c} |-> IF x = c THEN rec ELSE changesets[x]]
  <2>1. Manager!NewRecord(b, base, status, restores) \in Manager!Record
    BY <1>2, <1>3, <1>4 DEF Manager!NewRecord, Manager!Record, ManagerTypeOK
  <2>2. Manager!NewRecord(b, base, status, restores).status = status
    BY DEF Manager!NewRecord
  <2>. QED BY <2>1, <2>2, <1>1 DEF StoreOn, Manager!Store, Manager!Put
<1>6. /\ DOMAIN changesets' = DOMAIN changesets \cup {c} /\ changesets'[c] = rec
      /\ \A x \in DOMAIN changesets : changesets'[x] = changesets[x]
      /\ changesets' \in [DOMAIN changesets' -> Manager!Record]
  BY <1>1, <1>5 DEF ManagerTypeOK
<1>7. Visible' = IF status = "visible" THEN Visible \cup {c} ELSE Visible
  BY <1>1, <1>5, <1>6 DEF Visible
<1>8. DOMAIN branches' = DOMAIN ens
      /\ \A x \in DOMAIN ens :
           branches'[x].head = IF x = b /\ status = "visible" THEN c ELSE HeadOf(x)
  BY <1>3, <1>4
<1>9. \A x \in Branches : HeadOf(x)' = IF x = b /\ status = "visible" THEN c ELSE HeadOf(x)
  BY <1>3, <1>4, <1>8 DEF HeadOf
<1>10. ManagerTypeOK'
  BY <1>1, <1>3, <1>4, <1>6, <1>8 DEF ManagerTypeOK, Manager!Record
<1>. QED BY <1>1, <1>3, <1>4, <1>6, <1>7, <1>8, <1>9, <1>10 DEF OnlyChanges, TrailTypeOK

\* A submission and its event.
LEMMA SubmitKeeps ==
  ASSUME TrailInv, NEW w \in Writers, NEW b \in Branches, NEW base \in Changesets \cup {Root},
         NEW status \in {"draft", "visible"}, SubmitChangeset(w, b, base, status)
  PROVE  TrailInv'
<1>1. PICK c : c = NextChangeset
  OBVIOUS
<1>2. PICK kind : kind = IF status = "draft" THEN "CHANGESET_CREATED_DRAFT" ELSE "CHANGESET_VISIBLE"
  OBVIOUS
<1>3. PICK e : e = [kind |-> kind, on |-> b, of |-> c]
  OBVIOUS
<1>4. StoreOn(b, base, status, None) /\ Owe(w, "version", kind, b, c)
  BY <1>1, <1>2 DEF SubmitChangeset
<1>5. /\ c \in Changesets /\ ManagerTypeOK'
      /\ status = "draft" => OnlyChanges({})
      /\ status = "visible" => /\ OnlyChanges({b, c})
                               /\ b \in DOMAIN branches' /\ branches'[b].head = c
                               /\ c \in Visible'
  BY <1>1, <1>4, StoreFacts DEF TrailInv
<1>6. e \in Event /\ Subjects(e) = IF status = "draft" THEN {} ELSE {b, c}
  BY <1>2, <1>3, <1>5 DEF Event, Subjects, Frees
<1>7. (Grounded(e) /\ Current(e))'
  BY <1>2, <1>3, <1>5 DEF Grounded, Current, HeadOf, Frees, MakesVisible
<1>. QED BY <1>3, <1>4, <1>5, <1>6, <1>7, OweKeeps

\* A rollback and its event.
LEMMA RollbackKeeps ==
  ASSUME TrailInv, NEW w \in Writers, NEW b \in Branches, NEW target \in Changesets,
         Rollback(w, b, target)
  PROVE  TrailInv'
<1>1. PICK c, base : c = NextChangeset /\ base = branches[b].head
  OBVIOUS
<1>2. base \in Changesets
  BY <1>1 DEF Rollback, Manager!RollbackTarget, TrailInv, ManagerTypeOK
<1>3. PICK e : e = [kind |-> "ROLLBACK_VISIBLE", on |-> b, of |-> c]
  OBVIOUS
<1>4. StoreOn(b, base, "visible", target) /\ Owe(w, "version", "ROLLBACK_VISIBLE", b, c)
  BY <1>1 DEF Rollback
<1>5. /\ c \in Changesets /\ ManagerTypeOK' /\ OnlyChanges({b, c})
      /\ b \in DOMAIN branches' /\ branches'[b].head = c /\ c \in Visible'
  BY <1>1, <1>2, <1>4, StoreFacts DEF TrailInv
<1>6. e \in Event /\ Subjects(e) = {b, c}
  BY <1>3, <1>5 DEF Event, Subjects, Frees
<1>7. (Grounded(e) /\ Current(e))'
  BY <1>3, <1>5 DEF Grounded, Current, HeadOf, Frees, MakesVisible
<1>. QED BY <1>3, <1>4, <1>5, <1>6, <1>7, OweKeeps

\* An approval and its event.
LEMMA ApproveKeeps ==
  ASSUME TrailInv, NEW w \in Writers, NEW c \in Changesets, ApproveChangeset(w, c)
  PROVE  TrailInv'
<1>0. TrailTypeOK /\ ManagerTypeOK
  BY DEF TrailInv
<1>1. /\ c \in DOMAIN changesets /\ changesets[c].status = "draft"
      /\ changesets' = [changesets EXCEPT ![c].status = "approved"]
      /\ UNCHANGED <<branches, defaultBranch, locked>>
  BY DEF ApproveChangeset, Manager!Approve, Manager!Known
<1>2. PICK b \in Branches : b = changesets[c].branch
  BY <1>0, <1>1 DEF ManagerTypeOK, Manager!Record
<1>3. PICK r \in Manager!Record : r = changesets[c]
  BY <1>0, <1>1 DEF ManagerTypeOK
<1>4. PICK q \in Manager!Record : q = [r EXCEPT !.status = "approved"] /\ q.status = "approved"
  BY <1>3, StatusSet
<1>5. /\ DOMAIN changesets' = DOMAIN changesets /\ changesets'[c] = q
      /\ \A x \in DOMAIN changesets \ {c} : changesets'[x] = changesets[x]
      /\ changesets' \in [DOMAIN changesets -> Manager!Record]
  BY <1>0, <1>1, <1>3, <1>4 DEF ManagerTypeOK
<1>6. ManagerTypeOK'
  BY <1>0, <1>1, <1>5 DEF ManagerTypeOK, Manager!Record
<1>7. Visible' = Visible
  BY <1>1, <1>3, <1>4, <1>5 DEF Visible
<1>8. PICK e : e = [kind |-> "CHANGESET_APPROVED", on |-> b, of |-> c]
  OBVIOUS
<1>9. e \in Event /\ Subjects(e) = {}
  BY <1>8 DEF Event, Subjects, Frees
<1>10. (Grounded(e) /\ Current(e))'
  BY <1>8 DEF Grounded, Current, Frees, MakesVisible
<1>11. OnlyChanges(Subjects(e))
  BY <1>0, <1>1, <1>5, <1>7, <1>9 DEF OnlyChanges, TrailTypeOK, HeadOf
<1>12. Owe(w, "version", "CHANGESET_APPROVED", b, c)
  BY <1>2 DEF ApproveChangeset
<1>. QED BY <1>6, <1>8, <1>9, <1>10, <1>11, <1>12, OweKeeps

\* A promotion and its event.
LEMMA PromoteKeeps ==
  ASSUME TrailInv, NEW w \in Writers, NEW c \in Changesets, PromoteChangeset(w, c)
  PROVE  TrailInv'
<1>0. TrailTypeOK /\ ManagerTypeOK
  BY DEF TrailInv
<1>1. PICK b, history :
        /\ b = changesets[c].branch
        /\ branches' = [branches EXCEPT ![b] = [head |-> c, history |-> history]]
  BY DEF PromoteChangeset, Manager!Promote
<1>2. /\ c \in DOMAIN changesets /\ b \in DOMAIN branches
      /\ changesets' = [changesets EXCEPT ![c].status = "visible"]
      /\ UNCHANGED <<defaultBranch, locked>>
  BY <1>1 DEF PromoteChangeset, Manager!Promote, Manager!Promotable
<1>3. PICK r \in Manager!Record : r = changesets[c]
  BY <1>0, <1>2 DEF ManagerTypeOK
<1>4. PICK q \in Manager!Record : q = [r EXCEPT !.status = "visible"] /\ q.status = "visible"
  BY <1>3, StatusSet
<1>5. /\ DOMAIN changesets' = DOMAIN changesets /\ changesets'[c] = q
      /\ \A x \in DOMAIN changesets \ {c} : changesets'[x] = changesets[x]
      /\ changesets' \in [DOMAIN changesets -> Manager!Record]
  BY <1>0, <1>2, <1>3, <1>4 DEF ManagerTypeOK
<1>6. DOMAIN branches' = DOMAIN branches /\ branches'[b].head = c
      /\ \A x \in DOMAIN branches \ {b} : branches'[x] = branches[x]
  BY <1>1, <1>2
<1>7. ManagerTypeOK'
  BY <1>0, <1>2, <1>5, <1>6 DEF ManagerTypeOK, Manager!Record
<1>8. Visible' = Visible \cup {c}
  BY <1>2, <1>4, <1>5 DEF Visible
<1>9. PICK e : e = [kind |-> "CHANGESET_PROMOTED", on |-> b, of |-> c]
  OBVIOUS
<1>10. e \in Event /\ Subjects(e) = {b, c}
  BY <1>0, <1>2, <1>9 DEF Event, Subjects, Frees, ManagerTypeOK
<1>11. (Grounded(e) /\ Current(e))'
  BY <1>2, <1>6, <1>8, <1>9 DEF Grounded, Current, HeadOf, Frees, MakesVisible
<1>12. OnlyChanges(Subjects(e))
  BY <1>0, <1>2, <1>5, <1>6, <1>8, <1>10 DEF OnlyChanges, TrailTypeOK, HeadOf
<1>13. Owe(w, "version", "CHANGESET_PROMOTED", b, c)
  BY <1>1 DEF PromoteChangeset
<1>. QED BY <1>7, <1>9, <1>10, <1>11, <1>12, <1>13, OweKeeps

\* A new branch, which has no event; it is marked when it begins with a head.
LEMMA CreateBranchKeeps ==
  ASSUME TrailInv, NEW b \in Branches, NEW from \in Changesets \cup {None}, CreateBranch(b, from)
  PROVE  TrailInv'
<1>0. TrailTypeOK /\ ManagerTypeOK
  BY DEF TrailInv
<1>1. PICK ens : ens = Manager!EnsuredBranches
  OBVIOUS
<1>2. /\ DOMAIN branches \subseteq DOMAIN ens /\ DOMAIN ens \subseteq Branches
      /\ defaultBranch \in DOMAIN ens
      /\ \A x \in DOMAIN ens : ens[x].head = HeadOf(x) /\ HeadOf(x) \in DOMAIN changesets \cup {None}
  BY <1>0, <1>1, EnsuredFacts
<1>3. PICK start : start = Manager!BranchStart(from)
  OBVIOUS
<1>4. /\ b \notin DOMAIN ens /\ from \in DOMAIN changesets \cup {None}
      /\ branches' = [x \in DOMAIN ens \cup {b} |-> IF x = b THEN start ELSE ens[x]]
      /\ UNCHANGED <<defaultBranch, changesets, locked, load, events, work>>
  BY <1>1, <1>3 DEF CreateBranch, Manager!CreateBranch, Manager!BranchCreatable, Manager!EnsureRepo,
     Manager!Put, Manager!Known
<1>5. start.head \in DOMAIN changesets \cup {None}
  BY <1>1, <1>2, <1>3, <1>4 DEF Manager!BranchStart
<1>6. /\ DOMAIN branches' = DOMAIN ens \cup {b} /\ branches'[b].head = start.head
      /\ \A x \in DOMAIN ens : branches'[x].head = HeadOf(x)
  BY <1>2, <1>4
<1>7. ManagerTypeOK'
  BY <1>0, <1>2, <1>4, <1>5, <1>6 DEF ManagerTypeOK, Manager!Record
<1>8. \A x \in Branches \ {b} : HeadOf(x)' = HeadOf(x)
  BY <1>2, <1>6 DEF HeadOf
<1>9. HeadOf(b) = None /\ HeadOf(b)' = start.head
  BY <1>2, <1>4, <1>6 DEF HeadOf
<1>10. Visible' = Visible
  BY <1>4 DEF Visible
<1>11. PICK S \in SUBSET {b} : S = IF start.head = None THEN {} ELSE {b}
  OBVIOUS
<1>12. OnlyChanges(S)
  BY <1>0, <1>2, <1>4, <1>6, <1>8, <1>9, <1>10, <1>11 DEF OnlyChanges, TrailTypeOK
<1>13. unlogged' = unlogged \cup S /\ alone' = alone \ PendingOn(b)
  BY <1>6, <1>11 DEF CreateBranch
<1>. QED BY <1>4, <1>7, <1>11, <1>12, <1>13, UnloggedKeeps

-----------------------------------------------------------------------------
(* The theorems. *)

\* At the beginning there is nothing to rebuild.
LEMMA TrailInvInit ==
  ASSUME Init
  PROVE  TrailInv
<1>1. TrailTypeOK
  BY DEF Init, TrailTypeOK
<1>2. ReplayIsDefined /\ Replayed = NothingReplayed
  BY ReplayedInit DEF Init
<1>3. ManagerTypeOK /\ DOMAIN branches = {} /\ DOMAIN changesets = {}
  BY MainIsABranch DEF Init, Manager!Init, ManagerTypeOK, Manager!Record
<1>4. Replayed \in ReplayedType
  BY <1>2 DEF ReplayedType, NothingReplayed
<1>5. WorkIsGrounded /\ AloneIsCurrent
  BY DEF Init, WorkIsGrounded, AloneIsCurrent
<1>6. LocksAgree /\ HeadsAgree /\ VisibleAgrees
  BY <1>2, <1>3 DEF Init, LocksAgree, HeadsAgree, VisibleAgrees, HeadOf, Visible, NothingReplayed
<1>. QED BY <1>1, <1>2, <1>3, <1>4, <1>5, <1>6 DEF TrailInv

\* A step of the chain alone leaves the trail as it is.
LEMMA TrailUnchanged ==
  ASSUME TrailInv, UNCHANGED trailVars
  PROVE  TrailInv'
<1>1. UNCHANGED <<load, defaultBranch, branches, changesets, locked, events, work, unlogged, alone>>
  BY DEF trailVars, stateVars, versionVars
<1>2. ReplayIsDefined' /\ Replayed' = Replayed
  BY <1>1, ReplayedKept DEF TrailInv
<1>3. TrailTypeOK' /\ (Replayed \in ReplayedType)'
  BY <1>1, <1>2 DEF TrailInv, TrailTypeOK, ReplayedType
<1>4. ManagerTypeOK'
  BY <1>1 DEF TrailInv, ManagerTypeOK, Manager!Record
<1>5. WorkIsGrounded'
  BY <1>1 DEF TrailInv, WorkIsGrounded, Grounded, Visible, Frees, MakesVisible
<1>6. \A s : Settled(s)' <=> Settled(s)
  BY <1>1, PendingNext DEF Settled, PendingOn
<1>7. LocksAgree' /\ HeadsAgree' /\ VisibleAgrees'
  <2>1. LocksAgree'
    BY <1>1, <1>2, <1>6 DEF TrailInv, LocksAgree
  <2>2. \A b \in Branches : HeadOf(b)' = HeadOf(b)
    BY <1>1 DEF HeadOf
  <2>3. HeadsAgree'
    BY <1>2, <1>6, <2>2 DEF TrailInv, HeadsAgree
  <2>4. Visible' = Visible
    BY <1>1 DEF Visible
  <2>5. VisibleAgrees'
    BY <1>1, <1>2, <1>6, <2>4 DEF TrailInv, VisibleAgrees
  <2>. QED BY <2>1, <2>3, <2>5
<1>8. AloneIsCurrent'
  <2>1. OnlyChanges({})
    BY <1>1 DEF TrailInv, TrailTypeOK, OnlyChanges, HeadOf, Visible
  <2>2. ASSUME NEW v \in alone' PROVE Current(work[v])' /\ (PendingOn(work[v].on) = {v})'
    BY <2>1, <2>2, <1>1, AloneKept
  <2>. QED BY <2>2 DEF AloneIsCurrent
<1>. QED BY <1>2, <1>3, <1>4, <1>5, <1>7, <1>8 DEF TrailInv

\* Every step of the server keeps what the trail needs.
LEMMA TrailKeeps ==
  ASSUME TrailInv, [Next]_vars
  PROVE  TrailInv'
<1>1. CASE UNCHANGED vars
  BY <1>1, TrailUnchanged DEF vars
<1>2. ASSUME NEW w \in Writers, VersionRequest(w)
      PROVE  TrailInv'
  BY <1>2, SubmitKeeps, RollbackKeeps, ApproveKeeps, PromoteKeeps DEF VersionRequest
<1>3. ASSUME NEW w \in Writers, LogEvent(w) \/ LoseEvent(w) \/ OtherAudit(w)
      PROVE  TrailInv'
  BY <1>3, LogEventKeeps, LoseEventKeeps, TrailUnchanged DEF OtherAudit
<1>. QED BY <1>1, <1>2, <1>3, LockKeeps, RenewLapsedKeeps, CreateBranchKeeps, RestartKeeps,
            TrailUnchanged DEF Next

\* The invariant of the trail and its audit chain.
THEOREM Invariance == Spec => []IInv
<1>1. Init => IInv
  BY ChainInvInit, TrailInvInit, WorkloadsAreKnown DEF Init, IInv
<1>2. IInv /\ [Next]_vars => IInv'
  <2>1. ASSUME IInv, [Next]_vars PROVE IInv'
    <3>1. load \in Workloads
      BY <2>1 DEF IInv, TrailInv, TrailTypeOK
    <3>. QED BY <2>1, <3>1, NextIsChainNext, ChainKeeps, TrailKeeps DEF IInv
  <2>. QED BY <2>1
<1>. QED BY <1>1, <1>2, PTL DEF Spec

\* Every variable of the trail keeps its type.
THEOREM TypeCorrect == Spec => []TypeOK
<1>1. IInv => TypeOK
  BY DEF IInv, ChainInv, TrailInv, TrailTypeOK, TypeOK
<1>. QED BY <1>1, Invariance, PTL

\* What core/replay.rs rebuilds from the events is what the tables hold, for
\* everything whose last change has an event, and the verification passes when
\* all have.
THEOREM ReplaysAgree == Spec => []ReplayAgrees
<1>1. ASSUME IInv, \A s \in Paths \cup Branches \cup Changesets : Settled(s)
      PROVE  Consistent
  <2>0. /\ Replayed \in ReplayedType /\ ManagerTypeOK /\ locked \subseteq Paths
        /\ LocksAgree /\ HeadsAgree /\ VisibleAgrees
    BY <1>1 DEF IInv, TrailInv, TrailTypeOK
  <2>1. Replayed.locks = locked
    BY <1>1, <2>0 DEF LocksAgree, ReplayedType
  <2>2. Replayed.visible = Visible
    BY <1>1, <2>0 DEF VisibleAgrees, ReplayedType, Visible, ManagerTypeOK
  <2>. QED BY <1>1, <2>0, <2>1, <2>2 DEF Consistent, HeadsAgree
<1>2. IInv => ReplayAgrees
  BY <1>1 DEF ReplayAgrees, IInv, TrailInv, LocksAgree, HeadsAgree, VisibleAgrees
<1>. QED BY <1>2, Invariance, PTL
=============================================================================
