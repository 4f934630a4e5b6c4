---------------------- MODULE VersionPersistenceProofs ----------------------
(***************************************************************************)
(* Proofs about VersionPersistence, for every set of changesets, branches, *)
(* writers and assets, and whether or not transactions fail.               *)
(*                                                                         *)
(* Between two restarts the memory behaves as Versioning says, if a        *)
(* snapshot that is not there counts as an empty one: V is that instance,  *)
(* and the steps proved in VersioningProofs are used through it.           *)
(*                                                                         *)
(* The rest of the invariant is about copies: the rows in the database and *)
(* those on their way there.  Sound says that a repository loaded from a   *)
(* copy is one the version manager can be in, which never changes after    *)
(* the copy is made; CopyFits says that a copy is a past of the memory,    *)
(* which every operation keeps because records only move on and histories  *)
(* only grow.  A copy is sound when it is made because a history kept by   *)
(* appending is the one a reload computes (the last conjunct of Sound).    *)
(***************************************************************************)
EXTENDS VersionPersistence, SequenceTheorems, TLAPS

\* The snapshots, those that are not there included.
Whole == [c \in Known |-> SnapshotOf(c)]

\* The version manager with every snapshot there, and what is proved of it.
V == INSTANCE VersioningProofs WITH snapshots <- Whole

\* The recursion over the parents of some records has one solution.
LineageDefinedIn(records) ==
  \E f : /\ V!Solves(f, records)
         /\ \A c \in DOMAIN records : IsLineage(records, f[c], c)
         /\ \A g : V!Solves(g, records) => g = f

\* What is proved of a repository that is made of these parts.
Sound(default, all, records, content) ==
  /\ default \in Branches
  /\ DOMAIN all \subseteq Branches
  /\ all \in [DOMAIN all -> BranchState]
  /\ DOMAIN records \subseteq Changesets
  /\ records \in [DOMAIN records -> Record]
  /\ content \in [DOMAIN records -> Snapshot]
  /\ \A c \in DOMAIN records :
       /\ records[c].parent \in DOMAIN records \cup {None}
       /\ records[c].restores \in DOMAIN records \cup {None}
       /\ records[c].base = IF records[c].parent = None THEN Root ELSE records[c].parent
       /\ records[c].branch \in DOMAIN all
       /\ (records[c].status = "visible")
            <=> c \in Elements(all[records[c].branch].history)
       /\ records[c].restores # None =>
            \A a \in Assets :
              BlobOf(content[c][a]) = BlobOf(content[records[c].restores][a])
  /\ LineageDefinedIn(records)
  /\ \A b \in DOMAIN all :
       IF all[b].head = None THEN all[b].history = << >>
       ELSE /\ IsLineage(records, all[b].history, all[b].head)
            /\ all[b].history = LineageIn(records)[all[b].head]

\* The snapshot of a changeset among some rows; one without rows is empty.
ContentIn(assetMap, c) == IF c \in DOMAIN assetMap THEN assetMap[c] ELSE NoAssets
\* The snapshots of all changesets of a copy.
ContentOf(rows) == [c \in DOMAIN rows.changesets |-> ContentIn(rows.snapshots, c)]

\* The rows in the database and those that an operation has still to save.
IsCopy(rows) ==
  \/ db # None /\ rows = db
  \/ \E w \in Writers : saving[w] # None /\ rows = saving[w].rows

\* A repository that is loaded from the copy is one the version manager can be in.
CopySound(rows) ==
  /\ Sound(rows.default, LoadedBranches(rows), rows.changesets, ContentOf(rows))
  /\ DOMAIN rows.snapshots \subseteq DOMAIN rows.changesets
  /\ rows.snapshots \in [DOMAIN rows.snapshots -> Snapshot]

\* The sequence s is where t begins.
IsPrefixOf(s, t) == Len(s) <= Len(t) /\ s = SubSeq(t, 1, Len(s))

\* The copy is a past of the memory: its changesets are known, no further on and of the
\* same content, and its histories are prefixes.
CopyFits(rows) ==
  /\ \A c \in DOMAIN rows.changesets :
       /\ c \in Known
       /\ Rank(rows.changesets[c].status) <= Rank(changesets[c].status)
       /\ ContentIn(rows.snapshots, c) = SnapshotOf(c)
  /\ \A b \in DOMAIN rows.heads :
       /\ b \in DOMAIN branches
       /\ IsPrefixOf(LoadedBranches(rows)[b].history, branches[b].history)

\* Whichever copy is committed and loaded next.
CopiesAreGood == \A rows : IsCopy(rows) => CopySound(rows) /\ CopyFits(rows)

\* What is invariant of the repository in memory.
MemoryInv ==
  /\ Sound(defaultBranch, branches, changesets, Whole)
  /\ exists \in BOOLEAN
  /\ exists \/ DOMAIN branches = {}
  /\ DOMAIN snapshots \subseteq Known
  /\ snapshots \in [DOMAIN snapshots -> Snapshot]
  /\ plans \in [Rollbacks -> Plan \cup {None}]
  /\ V!PlansAreDiffs

\* What a client can be told: a changeset and its status.
Pairs == Changesets \X {"draft", "approved", "visible"}

\* What is invariant of the copies under way and the ghosts.
GhostInv ==
  /\ DOMAIN saving = Writers
  /\ \A w \in Writers : saving[w] # None => saving[w].reported \subseteq Pairs
  /\ Known \subseteq spent
  /\ spent \subseteq Changesets
  /\ told \subseteq Pairs

\* The inductive invariant.
PInv == MemoryInv /\ GhostInv /\ CopiesAreGood

-----------------------------------------------------------------------------
(* The memory, seen as Versioning with no snapshot missing. *)

\* What the invariant says of the snapshots that are there, and of the others.
LEMMA WholeFacts ==
  ASSUME DOMAIN snapshots \subseteq Known
  PROVE  /\ DOMAIN Whole = Known
         /\ \A c \in Known : Whole[c] = SnapshotOf(c)
         /\ \A c : V!SnapshotOf(c) = SnapshotOf(c)
BY DEF Whole, V!SnapshotOf, SnapshotOf, V!NoAssets, NoAssets

\* A sound memory satisfies the invariant of Versioning.
LEMMA MemoryIsVersioning ==
  ASSUME MemoryInv
  PROVE  V!IInv
<1>. USE DEF MemoryInv, Sound
<1>1. V!TypeOK
  BY DEF V!TypeOK, Known, V!Known, BranchState, V!BranchState, Record, V!Record,
         Snapshot, V!Snapshot, Entry, V!Entry, Plan, V!Plan, Delta, V!Delta
<1>2. V!NoBranchesBeforeRepo
  BY DEF V!NoBranchesBeforeRepo
<1>3. V!ParentsKnown /\ V!RestoresKnown /\ V!BaseIsParent /\ V!OnKnownBranch
  BY DEF V!ParentsKnown, V!RestoresKnown, V!BaseIsParent, V!OnKnownBranch, V!Known
<1>4. V!LineageDefined
  BY DEF V!LineageDefined, LineageDefinedIn, V!IsLineage, IsLineage, V!Known
<1>5. V!HistoryIsLineage
  BY DEF V!HistoryIsLineage, V!IsLineage, IsLineage
<1>6. V!VisibleIffInOwnHistory
  BY DEF V!VisibleIffInOwnHistory, V!Elements, Elements, V!Known
<1>7. V!RollbackRestoresContent
  BY DEF V!RollbackRestoresContent, V!Known, V!BlobOf, BlobOf
<1>. QED BY <1>1, <1>2, <1>3, <1>4, <1>5, <1>6, <1>7 DEF V!IInv

\* The histories that were kept are those a reload computes.
HistoriesAreComputed ==
  \A b \in DOMAIN branches :
    branches[b].head # None => branches[b].history = LineageIn(changesets)[branches[b].head]

\* The converse, with what Versioning does not say.
LEMMA VersioningIsMemory ==
  ASSUME V!IInv, HistoriesAreComputed, DOMAIN snapshots \subseteq Known,
         snapshots \in [DOMAIN snapshots -> Snapshot]
  PROVE  MemoryInv
<1>. USE DEF V!IInv
<1>1. /\ defaultBranch \in Branches /\ DOMAIN branches \subseteq Branches
      /\ branches \in [DOMAIN branches -> BranchState]
      /\ Known \subseteq Changesets /\ changesets \in [Known -> Record]
      /\ Whole \in [Known -> Snapshot] /\ exists \in BOOLEAN
      /\ plans \in [Rollbacks -> Plan \cup {None}]
  BY DEF V!TypeOK, Known, V!Known, BranchState, V!BranchState, Record, V!Record,
         Snapshot, V!Snapshot, Entry, V!Entry, Plan, V!Plan, Delta, V!Delta
<1>2. \A c \in Known :
        /\ changesets[c].parent \in Known \cup {None}
        /\ changesets[c].restores \in Known \cup {None}
        /\ changesets[c].base = IF changesets[c].parent = None THEN Root
                                ELSE changesets[c].parent
        /\ changesets[c].branch \in DOMAIN branches
  BY DEF V!ParentsKnown, V!RestoresKnown, V!BaseIsParent, V!OnKnownBranch, V!Known, Known
<1>3. LineageDefinedIn(changesets)
  BY DEF V!LineageDefined, LineageDefinedIn, V!IsLineage, IsLineage, V!Known
<1>4. \A b \in DOMAIN branches :
        IF branches[b].head = None THEN branches[b].history = << >>
        ELSE /\ IsLineage(changesets, branches[b].history, branches[b].head)
             /\ branches[b].history = LineageIn(changesets)[branches[b].head]
  BY DEF V!HistoryIsLineage, V!IsLineage, IsLineage, HistoriesAreComputed
<1>5. \A c \in Known :
        (changesets[c].status = "visible")
          <=> c \in Elements(branches[changesets[c].branch].history)
  BY DEF V!VisibleIffInOwnHistory, V!Elements, Elements, V!Known, Known
<1>6. \A c \in Known : changesets[c].restores # None =>
        \A a \in Assets :
          BlobOf(Whole[c][a]) = BlobOf(Whole[changesets[c].restores][a])
  BY DEF V!RollbackRestoresContent, V!Known, Known, V!BlobOf, BlobOf
<1>. QED BY <1>1, <1>2, <1>3, <1>4, <1>5, <1>6
         DEF MemoryInv, Sound, Known, V!NoBranchesBeforeRepo

\* The lineage of a changeset is solved for by the recursion, in the next state
\* too, and what was known keeps its own.
LEMMA LineageOfKnown ==
  ASSUME NEW r1, NEW r2,
         LineageDefinedIn(r1), LineageDefinedIn(r2),
         \A c \in DOMAIN r1 : r1[c].parent \in DOMAIN r1 \cup {None},
         \A c \in DOMAIN r1 : c \in DOMAIN r2 /\ r2[c].parent = r1[c].parent
  PROVE  /\ \A c \in DOMAIN r1 : LineageIn(r2)[c] = LineageIn(r1)[c]
         /\ \A c \in DOMAIN r2 :
              LineageIn(r2)[c] = IF r2[c].parent = None THEN <<c>>
                                 ELSE Append(LineageIn(r2)[r2[c].parent], c)
<1>1. PICK f1 : V!Solves(f1, r1) /\ \A g : V!Solves(g, r1) => g = f1
  BY DEF LineageDefinedIn
<1>2. PICK f2 : V!Solves(f2, r2) /\ \A g : V!Solves(g, r2) => g = f2
  BY DEF LineageDefinedIn
<1>3. V!Solves(LineageIn(r1), r1) /\ V!Solves(LineageIn(r2), r2)
  BY <1>1, <1>2 DEF V!Solves, LineageIn
<1>4. LineageIn(r1) = f1 /\ LineageIn(r2) = f2
  BY <1>1, <1>2, <1>3
<1>5. \A c \in DOMAIN r2 : f2[c] = IF r2[c].parent = None THEN <<c>>
                                   ELSE Append(f2[r2[c].parent], c)
  BY <1>2 DEF V!Solves
<1> DEFINE f == [c \in DOMAIN r1 |-> f2[c]]
           E(c) == IF r1[c].parent = None THEN <<c>> ELSE Append(f[r1[c].parent], c)
<1>6. \A c \in DOMAIN r1 : f[c] = E(c)
  BY <1>5
<1>7. f = [c \in DOMAIN r1 |-> E(c)]
  <2>1. f = [c \in DOMAIN r1 |-> f[c]]
    OBVIOUS
  <2>. HIDE DEF f, E
  <2>. QED BY <2>1, <1>6
<1>8. V!Solves(f, r1)
  BY <1>7 DEF V!Solves
<1>9. f = f1
  BY <1>1, <1>8
<1>. QED BY <1>4, <1>5, <1>9

-----------------------------------------------------------------------------
(* What every operation does to the memory. *)

\* The branch as it was; one that is made now was empty.
Before(b) == IF b \in DOMAIN branches THEN branches[b] ELSE NewBranch

\* A branch is as it was, or a child of its head is appended, or it begins with
\* the history computed for a known changeset.
BranchMoves ==
  \A b \in DOMAIN branches' :
    \/ branches'[b] = Before(b)
    \/ /\ branches'[b].head \in Known'
       /\ changesets'[branches'[b].head].parent = Before(b).head
       /\ branches'[b].history = Append(Before(b).history, branches'[b].head)
    \/ /\ branches'[b].head \in Known
       /\ branches'[b].history = LineageIn(changesets)[branches'[b].head]

\* No operation changes what a changeset lies on.
ParentsStay ==
  \A c \in Known : c \in Known' /\ changesets'[c].parent = changesets[c].parent

\* No operation changes the content of a changeset.
ContentStays ==
  /\ DOMAIN snapshots' \subseteq Known'
  /\ snapshots' \in [DOMAIN snapshots' -> Snapshot]
  /\ \A c \in Known : SnapshotOf(c)' = SnapshotOf(c)

\* What every operation does to the memory: a step of the version manager that keeps the rest.
OperationStep == V!Next /\ BranchMoves /\ ParentsStay /\ ContentStays

\* What the memory is made of, in the forms the operations need it.
LEMMA MemoryFacts ==
  ASSUME MemoryInv
  PROVE  /\ Known \subseteq Changesets /\ None \notin Known
         /\ DOMAIN branches \subseteq Branches
         /\ branches \in [DOMAIN branches -> BranchState]
         /\ changesets \in [Known -> Record]
         /\ \A b \in DOMAIN branches : branches[b].head \in Known \cup {None}
         /\ \A c : SnapshotOf(c) \in Snapshot
         /\ \A c : V!SnapshotOf(c) = SnapshotOf(c)
         /\ \A c \in Changesets \ Known : c \notin DOMAIN snapshots
<1>. USE DEF MemoryInv, Sound
<1>1. \A b \in DOMAIN branches : branches[b].head \in Known \cup {None}
  <2>1. ASSUME NEW b \in DOMAIN branches, branches[b].head # None
        PROVE  branches[b].head \in Known
    <3>1. IsLineage(changesets, branches[b].history, branches[b].head)
      BY <2>1
    <3>. QED BY <3>1 DEF IsLineage, Known
  <2>. QED BY <2>1
<1>2. NoAssets \in Snapshot
  BY DEF NoAssets, Snapshot
<1>. QED BY <1>1, <1>2, MarkersAreFresh, WholeFacts DEF Known, SnapshotOf

\* Branches as create_branch and submit find them.
LEMMA EnsuredAre ==
  ASSUME MemoryInv
  PROVE  /\ V!EnsuredBranches = EnsuredBranches
         /\ DOMAIN branches \subseteq DOMAIN EnsuredBranches
         /\ \A b \in DOMAIN EnsuredBranches : EnsuredBranches[b] = Before(b)
         /\ \A b \in DOMAIN EnsuredBranches : EnsuredBranches[b].head \in Known \cup {None}
         /\ EnsuredBranches \in [DOMAIN EnsuredBranches -> BranchState]
         /\ defaultBranch \in DOMAIN EnsuredBranches
<1>1. V!EnsuredBranches = EnsuredBranches
  BY DEF V!EnsuredBranches, EnsuredBranches, V!Put, Put, V!NewBranch, NewBranch
<1>2. /\ DOMAIN branches \subseteq DOMAIN EnsuredBranches
      /\ \A b \in DOMAIN EnsuredBranches : EnsuredBranches[b] = Before(b)
      /\ EnsuredBranches = [b \in DOMAIN EnsuredBranches |-> EnsuredBranches[b]]
      /\ defaultBranch \in DOMAIN EnsuredBranches
  <2>1. branches = [b \in DOMAIN branches |-> branches[b]]
    BY MemoryFacts
  <2>2. CASE defaultBranch \in DOMAIN branches
    BY <2>1, <2>2 DEF EnsuredBranches, Before
  <2>3. CASE defaultBranch \notin DOMAIN branches
    BY <2>3 DEF EnsuredBranches, Before, Put
  <2>. QED BY <2>2, <2>3
<1>3. NewBranch \in BranchState /\ NewBranch.head = None
  BY DEF NewBranch, BranchState
<1>4. \A b \in DOMAIN EnsuredBranches :
        EnsuredBranches[b] \in BranchState /\ EnsuredBranches[b].head \in Known \cup {None}
  BY <1>2, <1>3, MemoryFacts DEF Before
<1>. QED BY <1>1, <1>2, <1>4

\* A step that leaves the records and the snapshots alone.
LEMMA RecordsAlone ==
  ASSUME MemoryInv, changesets' = changesets, snapshots' = snapshots
  PROVE  ParentsStay /\ ContentStays
BY DEF MemoryInv, ParentsStay, ContentStays, Known, SnapshotOf, NoAssets

\* One lemma per operation: it is a step of the version manager with whole snapshots.
LEMMA CreateRepoMaps ==
  ASSUME MemoryInv, NEW name \in Branches, CreateRepo(name)
  PROVE  OperationStep
<1>1. V!CreateRepo(name)
  BY DEF CreateRepo, V!CreateRepo, NewBranch, V!NewBranch, Whole, Known, SnapshotOf
<1>2. V!Next
  BY <1>1 DEF V!Next
<1>3. BranchMoves
  BY DEF CreateRepo, BranchMoves, Before, MemoryInv
<1>. QED BY <1>2, <1>3, RecordsAlone DEF CreateRepo, OperationStep

LEMMA CreateBranchMaps ==
  ASSUME MemoryInv, NEW name \in Branches, NEW from \in Changesets \cup {None},
         CreateBranch(name, from)
  PROVE  OperationStep
<1>0. /\ exists' = TRUE /\ defaultBranch' = defaultBranch
      /\ name \notin DOMAIN EnsuredBranches /\ from \in Known \cup {None}
      /\ branches' = Put(EnsuredBranches, name, BranchStart(from))
      /\ changesets' = changesets /\ snapshots' = snapshots /\ plans' = plans
  BY DEF CreateBranch, EnsureRepo, BranchCreatable
<1>1. V!BranchStart(from) = BranchStart(from)
  BY EnsuredAre DEF V!BranchStart, BranchStart, V!LineageIn, LineageIn
<1>2. V!CreateBranch(name, from)
  BY <1>0, <1>1, EnsuredAre
  DEF V!CreateBranch, V!EnsureRepo, V!BranchCreatable, V!Known, Known, V!Put, Put,
      Whole, SnapshotOf, NoAssets
<1>3. V!Next
  BY <1>2 DEF V!Next
<1>4. BranchMoves
  <2>1. SUFFICES ASSUME NEW b \in DOMAIN branches'
                 PROVE  \/ branches'[b] = Before(b)
                        \/ /\ branches'[b].head \in Known
                           /\ branches'[b].history = LineageIn(changesets)[branches'[b].head]
    BY DEF BranchMoves
  <2>2. CASE b # name
    BY <2>2, <1>0, EnsuredAre DEF Put
  <2>3. CASE b = name
    <3>1. branches'[b] = BranchStart(from) /\ Before(b) = NewBranch
      BY <2>3, <1>0, EnsuredAre DEF Put, Before
    <3>2. PICK start \in Known \cup {None} :
            start = IF from = None THEN EnsuredBranches[defaultBranch].head ELSE from
      BY <1>0, EnsuredAre
    <3>3. BranchStart(from) =
            [head |-> start,
             history |-> IF start = None THEN << >> ELSE LineageIn(changesets)[start]]
      BY <3>2 DEF BranchStart
    <3>. QED BY <3>1, <3>2, <3>3 DEF NewBranch
  <2>. QED BY <2>2, <2>3
<1>. QED BY <1>0, <1>3, <1>4, RecordsAlone DEF OperationStep

\* A refused call leaves an empty default branch behind at most.
LEMMA EnsuredMoves ==
  ASSUME MemoryInv, branches' = EnsuredBranches
  PROVE  BranchMoves
BY EnsuredAre DEF BranchMoves

LEMMA RejectCreateBranchMaps ==
  ASSUME MemoryInv, NEW name \in Branches, NEW from \in Changesets \cup {None},
         RejectCreateBranch(name, from)
  PROVE  OperationStep
<1>1. V!RejectCreateBranch(name, from)
  BY EnsuredAre
  DEF RejectCreateBranch, V!RejectCreateBranch, EnsureRepo, V!EnsureRepo, BranchCreatable,
      V!BranchCreatable, V!Known, Known, Whole, SnapshotOf, NoAssets
<1>2. V!Next
  BY <1>1 DEF V!Next
<1>. QED BY <1>2, EnsuredMoves, RecordsAlone DEF RejectCreateBranch, OperationStep

LEMMA RejectSubmitMaps ==
  ASSUME MemoryInv, NEW name \in Branches, NEW base \in Changesets \cup {None, Root},
         RejectSubmit(name, base)
  PROVE  OperationStep
<1>1. V!RejectSubmit(name, base)
  BY EnsuredAre
  DEF RejectSubmit, V!RejectSubmit, EnsureRepo, V!EnsureRepo, Submittable, V!Submittable,
      Whole, SnapshotOf, NoAssets, Known
<1>2. V!Next
  BY <1>1 DEF V!Next
<1>. QED BY <1>2, EnsuredMoves, RecordsAlone DEF RejectSubmit, OperationStep

\* An accepted submission: what it stores is what Versioning stores.
LEMMA StoreMaps ==
  ASSUME MemoryInv, NEW c, NEW name, NEW base, NEW status \in {"draft", "visible"},
         NEW delta \in Delta, NEW restores,
         Submittable(name, base),
         Store(c, name, base, status, delta, restores)
  PROVE  /\ V!Store(c, name, base, status, delta, restores)
         /\ V!Submittable(name, base)
         /\ BranchMoves /\ ParentsStay /\ ContentStays
<1>1. /\ c \in Changesets \ Known /\ name \in DOMAIN EnsuredBranches
      /\ changesets' = Put(changesets, c, NewRecord(name, base, status, restores))
      /\ branches' = IF status = "visible" THEN AdvanceHead(EnsuredBranches, name, c)
                     ELSE EnsuredBranches
  BY DEF Store, Submittable
<1>2. PICK head \in Known \cup {None} : head = EnsuredBranches[name].head
  BY <1>1, EnsuredAre
<1>3. PICK new : new = ApplyDelta(SnapshotOf(head), delta)
  OBVIOUS
<1>4. snapshots' = Put(snapshots, c, new)
  BY <1>2, <1>3 DEF Store
<1>5. new \in Snapshot
  <2>1. SnapshotOf(head) \in Snapshot
    BY MemoryFacts
  <2>2. \A a \in Assets : delta[a] # Keep => delta[a] \in Entry \cup {None}
    BY DEF Delta
  <2>. QED BY <2>1, <2>2, <1>3 DEF ApplyDelta, Snapshot
<1>6. Known' = Known \cup {c} /\ (\A d \in Known : changesets'[d] = changesets[d])
      /\ changesets'[c] = NewRecord(name, base, status, restores)
  BY <1>1 DEF Put, Known
<1>7. \A d : SnapshotOf(d)' = IF d = c THEN new ELSE SnapshotOf(d)
  BY <1>4 DEF SnapshotOf, Put, NoAssets
<1>8. ContentStays
  <2>1. DOMAIN snapshots' = DOMAIN snapshots \cup {c}
        /\ snapshots' \in [DOMAIN snapshots' -> Snapshot]
    BY <1>4, <1>5 DEF Put, MemoryInv
  <2>2. DOMAIN snapshots \subseteq Known
    BY DEF MemoryInv
  <2>. QED BY <1>1, <1>6, <1>7, <2>1, <2>2 DEF ContentStays
<1>9. Whole' = V!Put(Whole, c, new)
  BY <1>6, <1>7, <1>1 DEF Whole, V!Put
<1>10. V!Store(c, name, base, status, delta, restores)
  <2>1. V!ApplyDelta(V!SnapshotOf(V!EnsuredBranches[name].head), delta) = new
    BY <1>2, <1>3, EnsuredAre, MemoryFacts DEF V!ApplyDelta, ApplyDelta
  <2>2. V!NewRecord(name, base, status, restores) = NewRecord(name, base, status, restores)
    BY EnsuredAre DEF V!NewRecord, NewRecord
  <2>3. V!AdvanceHead(EnsuredBranches, name, c) = AdvanceHead(EnsuredBranches, name, c)
    BY DEF V!AdvanceHead, AdvanceHead
  <2>4. V!Put(changesets, c, NewRecord(name, base, status, restores)) = changesets'
    BY <1>1 DEF V!Put, Put
  <2>. QED BY <2>1, <2>2, <2>3, <2>4, <1>1, <1>9, EnsuredAre DEF V!Store, V!Known, Known
<1>11. V!Submittable(name, base)
  BY EnsuredAre DEF V!Submittable, Submittable
<1>12. ParentsStay
  BY <1>6 DEF ParentsStay
<1>13. BranchMoves
  <2>1. CASE branches' = EnsuredBranches
    BY <2>1, EnsuredMoves
  <2>2. CASE branches' = AdvanceHead(EnsuredBranches, name, c)
    <3>1. changesets'[c].parent = head
      BY <1>2, <1>6 DEF NewRecord
    <3>2. /\ DOMAIN branches' = DOMAIN EnsuredBranches
          /\ branches'[name].head = c
          /\ branches'[name].history = Append(EnsuredBranches[name].history, c)
          /\ \A b \in DOMAIN branches' \ {name} : branches'[b] = EnsuredBranches[b]
      BY <2>2, <1>1, EnsuredAre DEF AdvanceHead
    <3>3. \A b \in DOMAIN branches' : EnsuredBranches[b] = Before(b)
      BY <3>2, EnsuredAre
    <3>. QED BY <3>1, <3>2, <3>3, <1>1, <1>2, <1>6 DEF BranchMoves
  <2>. QED BY <2>1, <2>2, <1>1
<1>. QED BY <1>8, <1>10, <1>11, <1>12, <1>13

LEMMA SubmitMaps ==
  ASSUME MemoryInv, NEW name \in Branches, NEW base \in Changesets \cup {Root},
         NEW status \in {"draft", "visible"}, NEW delta \in Delta,
         Submit(name, base, status, delta)
  PROVE  OperationStep
<1>1. PICK c \in Changesets : Store(c, name, base, status, delta, None)
  BY DEF Submit
<1>2. Submittable(name, base) /\ EnsureRepo /\ plans' = plans
  BY DEF Submit
<1>3. /\ V!Store(c, name, base, status, delta, None) /\ V!Submittable(name, base)
      /\ BranchMoves /\ ParentsStay /\ ContentStays
  BY <1>1, <1>2, StoreMaps
<1>4. V!Submit(name, base, status, delta)
  BY <1>2, <1>3 DEF V!Submit, V!EnsureRepo, EnsureRepo
<1>5. delta \in V!Delta
  BY DEF V!Delta, Delta, V!Entry, Entry
<1>6. V!Next
  BY <1>4, <1>5 DEF V!Next
<1>. QED BY <1>3, <1>6 DEF OperationStep

LEMMA SubmitRollbackMaps ==
  ASSUME MemoryInv, NEW r \in Rollbacks, SubmitRollback(r)
  PROVE  OperationStep
<1>1. PICK p \in Plan : p = plans[r]
  BY DEF SubmitRollback, MemoryInv
<1>2. PICK c \in Changesets : Store(c, p.branch, p.base, "visible", p.delta, p.target)
  BY <1>1 DEF SubmitRollback
<1>3. /\ Submittable(p.branch, p.base) /\ EnsureRepo /\ plans[r] # None
      /\ plans' = [plans EXCEPT ![r] = None]
  BY <1>1 DEF SubmitRollback
<1>4. /\ V!Store(c, p.branch, p.base, "visible", p.delta, p.target)
      /\ V!Submittable(p.branch, p.base)
      /\ BranchMoves /\ ParentsStay /\ ContentStays
  <2>1. p.delta \in Delta
    BY DEF Plan
  <2>. QED BY <2>1, <1>2, <1>3, StoreMaps
<1>5. V!SubmitRollback(r)
  BY <1>1, <1>3, <1>4 DEF V!SubmitRollback, V!EnsureRepo, EnsureRepo
<1>6. V!Next
  BY <1>5 DEF V!Next
<1>. QED BY <1>4, <1>6 DEF OperationStep

LEMMA ApproveMaps ==
  ASSUME MemoryInv, NEW c \in Changesets, Approve(c)
  PROVE  OperationStep
<1>1. /\ c \in Known /\ changesets' = [changesets EXCEPT ![c].status = "approved"]
      /\ UNCHANGED <<exists, defaultBranch, branches, snapshots, plans>>
      /\ changesets[c].status = "draft"
  BY DEF Approve
<1>2. Known' = Known /\ \A d \in Known : changesets'[d].parent = changesets[d].parent
  BY <1>1, MemoryFacts DEF Known, Record
<1>3. Whole' = Whole /\ \A d : SnapshotOf(d)' = SnapshotOf(d)
  BY <1>1, <1>2 DEF Whole, SnapshotOf, NoAssets
<1>4. V!Approve(c)
  BY <1>1, <1>3 DEF V!Approve, V!Known, Known
<1>5. V!Next
  BY <1>4 DEF V!Next
<1>6. BranchMoves
  BY <1>1 DEF BranchMoves, Before
<1>7. ParentsStay /\ ContentStays
  BY <1>1, <1>2, <1>3 DEF ParentsStay, ContentStays, MemoryInv
<1>. QED BY <1>5, <1>6, <1>7 DEF OperationStep

\* The history that is promoted to did not hold the changeset, as it is not
\* visible yet.
LEMMA PromoteMaps ==
  ASSUME MemoryInv, NEW c \in Changesets, Promote(c)
  PROVE  OperationStep
<1>1. /\ c \in Known /\ changesets' = [changesets EXCEPT ![c].status = "visible"]
      /\ UNCHANGED <<exists, defaultBranch, snapshots, plans>>
      /\ changesets[c].status = "approved" /\ changesets[c].branch \in DOMAIN branches
      /\ branches[changesets[c].branch].head = changesets[c].base
  BY DEF Promote, Promotable
<1>2. /\ Known' = Known /\ \A d \in Known : changesets'[d].parent = changesets[d].parent
  BY <1>1, MemoryFacts DEF Known, Record
<1>3. Whole' = Whole /\ \A d : SnapshotOf(d)' = SnapshotOf(d)
  BY <1>1, <1>2 DEF Whole, SnapshotOf, NoAssets
<1>4. PICK name \in DOMAIN branches : name = changesets[c].branch
  BY <1>1
<1>5. PICK old \in BranchState : old = branches[name]
  BY <1>4, MemoryFacts
<1>6. branches' = [branches EXCEPT ![name] =
                     [ head |-> c, history |-> IF c \in Elements(old.history) THEN old.history
                                               ELSE Append(old.history, c) ]]
  BY <1>4, <1>5, MemoryFacts DEF Promote
<1>7. V!Promote(c)
  <2>1. V!Promotable(c)
    BY <1>1 DEF V!Promotable
  <2>. QED BY <2>1, <1>1, <1>3 DEF Promote, V!Promote, V!Known, Known, V!Elements, Elements
<1>8. V!Next
  BY <1>7 DEF V!Next
<1>9. BranchMoves
  <2>1. c \notin Elements(old.history)
    BY <1>1, <1>4, <1>5 DEF MemoryInv, Sound, Known
  <2>2. branches'[name].head = c /\ branches'[name].history = Append(old.history, c)
        /\ DOMAIN branches' = DOMAIN branches
        /\ \A b \in DOMAIN branches \ {name} : branches'[b] = branches[b]
    BY <2>1, <1>6, MemoryFacts
  <2>3. changesets[c].parent = old.head
    <3>1. changesets[c].base = old.head
      BY <1>1, <1>4, <1>5
    <3>2. changesets[c].base = IF changesets[c].parent = None THEN Root
                               ELSE changesets[c].parent
      BY <1>1 DEF MemoryInv, Sound, Known
    <3>3. old.head # Root
      BY MarkersAreFresh DEF BranchState
    <3>. QED BY <3>1, <3>2, <3>3
  <2>. QED BY <2>2, <2>3, <1>1, <1>2, <1>5 DEF BranchMoves, Before
<1>10. ParentsStay /\ ContentStays
  BY <1>1, <1>2, <1>3 DEF ParentsStay, ContentStays, MemoryInv
<1>. QED BY <1>8, <1>9, <1>10 DEF OperationStep

\* The steps of a rollback request that only make or drop its plan.
LEMMA PlanRollbackMaps ==
  ASSUME MemoryInv, NEW r \in Rollbacks, NEW name \in Branches, NEW target \in Changesets,
         PlanRollback(r, name, target)
  PROVE  OperationStep
<1>1. /\ plans[r] = None /\ RollbackTarget(name, target)
      /\ plans' = [plans EXCEPT ![r] =
           [ branch |-> name, base |-> branches[name].head, target |-> target,
             delta |-> RollbackDelta(SnapshotOf(branches[name].head), snapshots[target]) ]]
      /\ UNCHANGED <<exists, defaultBranch, branches, changesets, snapshots>>
  BY DEF PlanRollback
<1>2. Whole' = Whole
  BY <1>1 DEF Whole, SnapshotOf, NoAssets, Known
<1>3. target \in DOMAIN snapshots /\ DOMAIN snapshots \subseteq Known
  BY <1>1 DEF RollbackTarget, MemoryInv
<1>4. Whole[target] = snapshots[target] /\ target \in DOMAIN Whole
  BY <1>3 DEF Whole, SnapshotOf
<1>5. V!RollbackTarget(name, target)
  BY <1>1, <1>4 DEF V!RollbackTarget, RollbackTarget, V!Elements, Elements
<1>6. V!RollbackDelta(V!SnapshotOf(branches[name].head), Whole[target])
        = RollbackDelta(SnapshotOf(branches[name].head), snapshots[target])
  BY <1>4, MemoryFacts DEF V!RollbackDelta, RollbackDelta, V!BlobOf, BlobOf
<1>7. V!PlanRollback(r, name, target)
  BY <1>1, <1>2, <1>5, <1>6 DEF V!PlanRollback
<1>8. V!Next
  BY <1>7 DEF V!Next
<1>9. BranchMoves
  BY <1>1 DEF BranchMoves, Before
<1>. QED BY <1>1, <1>8, <1>9, RecordsAlone DEF OperationStep

LEMMA RejectRollbackMaps ==
  ASSUME MemoryInv, NEW r \in Rollbacks, RejectRollback(r)
  PROVE  OperationStep
<1>1. UNCHANGED <<exists, defaultBranch, branches, changesets, snapshots>>
  BY DEF RejectRollback
<1>2. V!RejectRollback(r)
  BY DEF RejectRollback, V!RejectRollback, Whole, SnapshotOf, NoAssets, Known
<1>3. V!Next
  BY <1>2 DEF V!Next
<1>4. BranchMoves
  BY <1>1 DEF BranchMoves, Before
<1>. QED BY <1>1, <1>3, <1>4, RecordsAlone DEF OperationStep

LEMMA OperateMaps ==
  ASSUME MemoryInv, Operate
  PROVE  OperationStep
<1>1. ASSUME NEW name \in Branches, CreateRepo(name) PROVE OperationStep
  BY <1>1, CreateRepoMaps
<1>2. ASSUME NEW name \in Branches, NEW from \in Changesets \cup {None},
             CreateBranch(name, from)
      PROVE  OperationStep
  BY <1>2, CreateBranchMaps
<1>3. ASSUME NEW name \in Branches, NEW base \in Changesets \cup {Root},
             NEW status \in {"draft", "visible"}, NEW delta \in Delta,
             Submit(name, base, status, delta)
      PROVE  OperationStep
  BY <1>3, SubmitMaps
<1>4. ASSUME NEW c \in Changesets, Approve(c) PROVE OperationStep
  BY <1>4, ApproveMaps
<1>5. ASSUME NEW c \in Changesets, Promote(c) PROVE OperationStep
  BY <1>5, PromoteMaps
<1>6. ASSUME NEW r \in Rollbacks, SubmitRollback(r) PROVE OperationStep
  BY <1>6, SubmitRollbackMaps
<1>. QED BY <1>1, <1>2, <1>3, <1>4, <1>5, <1>6 DEF Operate

LEMMA OperateOnlyMaps ==
  ASSUME MemoryInv, OperateOnly
  PROVE  OperationStep
<1>1. ASSUME NEW name \in Branches, NEW from \in Changesets \cup {None},
             RejectCreateBranch(name, from)
      PROVE  OperationStep
  BY <1>1, RejectCreateBranchMaps
<1>2. ASSUME NEW name \in Branches, NEW base \in Changesets \cup {None, Root},
             RejectSubmit(name, base)
      PROVE  OperationStep
  BY <1>2, RejectSubmitMaps
<1>3. ASSUME NEW r \in Rollbacks, NEW name \in Branches, NEW target \in Changesets,
             PlanRollback(r, name, target)
      PROVE  OperationStep
  BY <1>3, PlanRollbackMaps
<1>4. ASSUME NEW r \in Rollbacks, RejectRollback(r) PROVE OperationStep
  BY <1>4, RejectRollbackMaps
<1>. QED BY <1>1, <1>2, <1>3, <1>4 DEF OperateOnly

-----------------------------------------------------------------------------
(* What every operation keeps. *)

\* The same of the next state.
LEMMA VersioningIsMemoryNext ==
  (/\ V!IInv /\ HistoriesAreComputed /\ DOMAIN snapshots \subseteq Known
   /\ snapshots \in [DOMAIN snapshots -> Snapshot])' => MemoryInv'
<1>1. (/\ V!IInv /\ HistoriesAreComputed /\ DOMAIN snapshots \subseteq Known
       /\ snapshots \in [DOMAIN snapshots -> Snapshot]) => MemoryInv
  BY VersioningIsMemory
<1>. QED BY <1>1, PTL

\* Histories stay those a reload computes: one that is appended to has its head
\* for the parent of what is appended.
LEMMA HistoriesStayComputed ==
  ASSUME MemoryInv, V!IInv', BranchMoves, ParentsStay
  PROVE  HistoriesAreComputed'
<1>1. LineageDefinedIn(changesets) /\ \A c \in Known : changesets[c].parent \in Known \cup {None}
  BY DEF MemoryInv, Sound, Known
<1>2. LineageDefinedIn(changesets')
  BY DEF V!IInv, V!LineageDefined, LineageDefinedIn, V!IsLineage, IsLineage, V!Known
<1>3. PICK L1, L2 : L1 = LineageIn(changesets) /\ L2 = LineageIn(changesets')
  OBVIOUS
<1>4. /\ \A c \in Known : L2[c] = L1[c]
      /\ \A c \in Known' : L2[c] = IF changesets'[c].parent = None THEN <<c>>
                                   ELSE Append(L2[changesets'[c].parent], c)
  BY <1>1, <1>2, <1>3, LineageOfKnown DEF ParentsStay, Known
<1>5. SUFFICES ASSUME NEW b \in DOMAIN branches', branches'[b].head # None
               PROVE  branches'[b].history = L2[branches'[b].head]
  BY <1>3 DEF HistoriesAreComputed
<1>6. PICK old : old = Before(b)
  OBVIOUS
<1>7. /\ old.head \in Known \cup {None}
      /\ old.head = None => old.history = << >>
      /\ old.head # None => old.history = L1[old.head]
  BY <1>3, <1>6, MemoryFacts DEF Before, NewBranch, MemoryInv, Sound
<1>8. CASE branches'[b] = old
  BY <1>4, <1>5, <1>7, <1>8
<1>9. CASE /\ branches'[b].head \in Known'
           /\ changesets'[branches'[b].head].parent = old.head
           /\ branches'[b].history = Append(old.history, branches'[b].head)
  <2>1. PICK c \in Known' : c = branches'[b].head
    BY <1>9
  <2>2. CASE old.head = None
    <3>1. L2[c] = <<c>>
      BY <1>4, <1>9, <2>1, <2>2
    <3>2. Append(<< >>, c) = <<c>>
      OBVIOUS
    <3>. QED BY <3>1, <3>2, <1>7, <1>9, <2>1, <2>2
  <2>3. CASE old.head # None
    <3>1. L2[c] = Append(L2[old.head], c)
      BY <1>4, <1>9, <2>1, <2>3
    <3>2. L2[old.head] = old.history
      BY <1>4, <1>7, <2>3
    <3>. QED BY <3>1, <3>2, <1>9, <2>1
  <2>. QED BY <2>2, <2>3
<1>10. CASE /\ branches'[b].head \in Known
            /\ branches'[b].history = L1[branches'[b].head]
  BY <1>4, <1>10
<1>. QED BY <1>3, <1>6, <1>8, <1>9, <1>10 DEF BranchMoves

\* Between restarts nothing is forgotten: records move on, histories grow, and
\* contents stay.
OnlyGrows ==
  /\ \A c \in Known :
       /\ c \in Known'
       /\ Rank(changesets[c].status) <= Rank(changesets'[c].status)
       /\ SnapshotOf(c)' = SnapshotOf(c)
  /\ \A b \in DOMAIN branches :
       b \in DOMAIN branches' /\ IsPrefixOf(branches[b].history, branches'[b].history)

\* Statuses are ordered by numbers.
LEMMA RankIsNatural ==
  ASSUME NEW s PROVE Rank(s) \in 1..3
BY DEF Rank

\* After an operation the invariant of the memory holds again.
LEMMA OperationKeeps ==
  ASSUME MemoryInv, OperationStep
  PROVE  MemoryInv' /\ OnlyGrows
<1>. USE DEF OperationStep
<1>1. V!Good
  <2>1. V!IInv
    BY MemoryIsVersioning
  <2>. QED BY <2>1, V!NextGood, MainIsABranch, MarkersAreFresh
<1>2. V!IInv' /\ V!GrowStep /\ V!GateStep
  BY <1>1 DEF V!Good
<1>3. HistoriesAreComputed'
  BY <1>2, HistoriesStayComputed
<1>4. MemoryInv'
  BY <1>2, <1>3, VersioningIsMemoryNext DEF ContentStays
<1>5. ASSUME NEW c \in Known
      PROVE  c \in Known' /\ Rank(changesets[c].status) <= Rank(changesets'[c].status)
  <2>1. <<changesets[c].status, changesets'[c].status>> \in
          { <<"draft", "draft">>, <<"draft", "approved">>,
            <<"approved", "approved">>, <<"approved", "visible">>,
            <<"visible", "visible">> }
    BY <1>2 DEF V!GateStep, V!Known, Known
  <2>. QED BY <2>1, <1>5 DEF Rank, ParentsStay
<1>6. \A b \in DOMAIN branches :
        b \in DOMAIN branches' /\ IsPrefixOf(branches[b].history, branches'[b].history)
  BY <1>2 DEF V!GrowStep, IsPrefixOf
<1>. QED BY <1>4, <1>5, <1>6 DEF OnlyGrows, ContentStays

\* What a prefix begins with, the whole begins with.
LEMMA PrefixOfPrefix ==
  ASSUME NEW S, NEW s \in Seq(S), NEW t \in Seq(S), NEW u \in Seq(S),
         IsPrefixOf(s, t), IsPrefixOf(t, u)
  PROVE  IsPrefixOf(s, u)
<1>1. Len(s) \in Nat /\ Len(t) \in Nat /\ Len(u) \in Nat /\ Len(s) <= Len(t) /\ Len(t) <= Len(u)
  BY DEF IsPrefixOf
<1>2. \A i \in 1..Len(s) : s[i] = t[i]
  BY <1>1 DEF IsPrefixOf
<1>3. \A i \in 1..Len(t) : t[i] = u[i]
  BY <1>1 DEF IsPrefixOf
<1>4. PICK v \in Seq(S) : v = SubSeq(u, 1, Len(s))
  <2>1. SubSeq(u, 1, Len(s)) \in Seq(S)
    BY <1>1, SubSeqProperties
  <2>. QED BY <2>1
<1>5. Len(v) = Len(s) /\ \A i \in 1..Len(s) : v[i] = u[i]
  BY <1>1, <1>4
<1>6. v = s
  BY <1>1, <1>2, <1>3, <1>5
<1>. QED BY <1>1, <1>4, <1>6 DEF IsPrefixOf

\* A copy of a past is one of the past still when the memory has only grown.
LEMMA CopyStillFits ==
  ASSUME MemoryInv, MemoryInv', OnlyGrows, NEW rows, CopySound(rows), CopyFits(rows)
  PROVE  CopyFits(rows)'
<1>1. ASSUME NEW c \in DOMAIN rows.changesets
      PROVE  /\ c \in Known'
             /\ Rank(rows.changesets[c].status) <= Rank(changesets'[c].status)
             /\ ContentIn(rows.snapshots, c) = SnapshotOf(c)'
  <2>1. PICK i \in 1..3, j \in 1..3, k \in 1..3 :
          /\ i = Rank(rows.changesets[c].status) /\ j = Rank(changesets[c].status)
          /\ k = Rank(changesets'[c].status)
    BY RankIsNatural
  <2>2. c \in Known /\ i <= j /\ ContentIn(rows.snapshots, c) = SnapshotOf(c)
    BY <1>1, <2>1 DEF CopyFits
  <2>3. c \in Known' /\ j <= k /\ SnapshotOf(c)' = SnapshotOf(c)
    BY <2>1, <2>2 DEF OnlyGrows
  <2>4. i <= k
    BY <2>2, <2>3
  <2>. QED BY <2>1, <2>2, <2>3, <2>4
<1>2. ASSUME NEW b \in DOMAIN rows.heads
      PROVE  /\ b \in DOMAIN branches'
             /\ IsPrefixOf(LoadedBranches(rows)[b].history, branches'[b].history)
  <2>1. b \in DOMAIN branches /\ b \in DOMAIN branches'
        /\ IsPrefixOf(LoadedBranches(rows)[b].history, branches[b].history)
        /\ IsPrefixOf(branches[b].history, branches'[b].history)
    BY <1>2 DEF CopyFits, OnlyGrows
  <2>2. LoadedBranches(rows)[b].history \in Seq(Changesets)
    BY <1>2 DEF CopySound, Sound, LoadedBranches, BranchState
  <2>3. branches[b].history \in Seq(Changesets) /\ branches'[b].history \in Seq(Changesets)
    BY <2>1 DEF MemoryInv, Sound, BranchState
  <2>. QED BY <2>1, <2>2, <2>3, PrefixOfPrefix
<1>. QED BY <1>1, <1>2 DEF CopyFits, ContentIn, LoadedBranches, LineageIn, NoAssets

-----------------------------------------------------------------------------
(* Copies and restarts. *)

\* A copy taken of a sound memory is sound, and its own past.
LEMMA CopyNow ==
  ASSUME MemoryInv, NEW rows, rows = RowsNow
  PROVE  CopySound(rows) /\ CopyFits(rows)
<1>2. /\ rows.default = defaultBranch /\ rows.changesets = changesets
      /\ rows.heads = [b \in DOMAIN branches |-> branches[b].head]
      /\ rows.snapshots = [c \in {d \in DOMAIN snapshots : snapshots[d] # NoAssets}
                             |-> snapshots[c]]
  BY DEF RowsNow, Rows
<1>3. \A c : ContentIn(rows.snapshots, c) = SnapshotOf(c)
  BY <1>2 DEF ContentIn, SnapshotOf
<1>4. ContentOf(rows) = Whole
  BY <1>2, <1>3 DEF ContentOf, Whole, Known
<1>5. LoadedBranches(rows) = branches
  <2>1. ASSUME NEW b \in DOMAIN branches
        PROVE  branches[b] = [ head    |-> rows.heads[b],
                               history |-> IF rows.heads[b] = None THEN << >>
                                           ELSE LineageIn(rows.changesets)[rows.heads[b]] ]
    <3>1. branches[b] \in BranchState /\ rows.heads[b] = branches[b].head
      BY <1>2, MemoryFacts
    <3>2. branches[b].history = IF branches[b].head = None THEN << >>
                                ELSE LineageIn(changesets)[branches[b].head]
      BY DEF MemoryInv, Sound
    <3>. QED BY <3>1, <3>2, <1>2 DEF BranchState
  <2>2. branches = [b \in DOMAIN branches |-> branches[b]] /\ DOMAIN rows.heads = DOMAIN branches
    BY <1>2, MemoryFacts
  <2>. QED BY <2>1, <2>2 DEF LoadedBranches
<1>6. CopySound(rows)
  <2>1. DOMAIN rows.snapshots \subseteq DOMAIN snapshots
        /\ rows.snapshots \in [DOMAIN rows.snapshots -> Snapshot]
    BY <1>2 DEF MemoryInv
  <2>. QED BY <2>1, <1>2, <1>4, <1>5 DEF CopySound, MemoryInv, Known
<1>7. CopyFits(rows)
  <2>1. \A c \in Known : Rank(changesets[c].status) <= Rank(changesets[c].status)
    BY RankIsNatural
  <2>2. \A b \in DOMAIN branches : IsPrefixOf(branches[b].history, branches[b].history)
    <3>1. ASSUME NEW b \in DOMAIN branches PROVE branches[b].history \in Seq(Changesets)
      BY MemoryFacts DEF BranchState
    <3>2. ASSUME NEW s \in Seq(Changesets) PROVE IsPrefixOf(s, s)
      BY DEF IsPrefixOf
    <3>. QED BY <3>1, <3>2
  <2>3. DOMAIN rows.heads = DOMAIN branches
    BY <1>2
  <2>. QED BY <2>1, <2>2, <2>3, <1>2, <1>3, <1>5 DEF CopyFits, Known
<1>. QED BY <1>6, <1>7

\* What a copy says does not depend on the memory.
LEMMA SoundStays ==
  ASSUME NEW rows, CopySound(rows)
  PROVE  CopySound(rows)'
BY DEF CopySound, Sound, LoadedBranches, ContentOf, ContentIn, NoAssets, LineageIn

\* The same of the next state.
LEMMA CopyNowNext ==
  MemoryInv' => (\A rows : rows = RowsNow => CopySound(rows) /\ CopyFits(rows))'
<1>1. MemoryInv => \A rows : rows = RowsNow => CopySound(rows) /\ CopyFits(rows)
  BY CopyNow
<1>. QED BY <1>1, PTL

\* Nothing has one lineage.
LEMMA LineageDefinedOfNothing == LineageDefinedIn([c \in {} |-> None])
<1> DEFINE f == [c \in {} |-> None]
<1>1. V!Solves(f, f) /\ \A g : V!Solves(g, f) => g = f
  BY DEF V!Solves
<1>2. \A c \in DOMAIN f : IsLineage(f, f[c], c)
  OBVIOUS
<1>. QED BY <1>1, <1>2 DEF LineageDefinedIn

\* A repository that is not there.
LEMMA NothingIsSound ==
  ASSUME exists = FALSE, defaultBranch = Main, branches = [b \in {} |-> NewBranch],
         changesets = [c \in {} |-> None], snapshots = [c \in {} |-> NoAssets],
         plans = [r \in Rollbacks |-> None]
  PROVE  MemoryInv
<1>1. Known = {} /\ DOMAIN snapshots = {} /\ DOMAIN branches = {}
  BY DEF Known
<1>2. V!PlansAreDiffs
  BY DEF V!PlansAreDiffs
<1>3. LineageDefinedIn(changesets)
  BY LineageDefinedOfNothing
<1>. QED BY <1>1, <1>2, <1>3, MainIsABranch DEF MemoryInv, Sound, Whole, Known

\* What is loaded from a sound copy is a sound memory.
LEMMA LoadedIsSound ==
  ASSUME NEW rows, CopySound(rows), exists = TRUE, defaultBranch = rows.default,
         branches = LoadedBranches(rows), changesets = rows.changesets,
         snapshots = rows.snapshots, plans = [r \in Rollbacks |-> None]
  PROVE  MemoryInv
<1>1. Whole = ContentOf(rows)
  BY DEF Whole, ContentOf, Known, SnapshotOf, ContentIn
<1>2. V!PlansAreDiffs
  BY DEF V!PlansAreDiffs
<1>. QED BY <1>1, <1>2 DEF CopySound, MemoryInv, Known

\* Both of the next state, for a restart.
LEMMA LoadedNext ==
  /\ (/\ exists = FALSE /\ defaultBranch = Main /\ branches = [b \in {} |-> NewBranch]
      /\ changesets = [c \in {} |-> None] /\ snapshots = [c \in {} |-> NoAssets]
      /\ plans = [r \in Rollbacks |-> None])' => MemoryInv'
  /\ (\E rows : /\ CopySound(rows) /\ exists = TRUE /\ defaultBranch = rows.default
                /\ branches = LoadedBranches(rows) /\ changesets = rows.changesets
                /\ snapshots = rows.snapshots
                /\ plans = [r \in Rollbacks |-> None])' => MemoryInv'
<1>1. (/\ exists = FALSE /\ defaultBranch = Main /\ branches = [b \in {} |-> NewBranch]
       /\ changesets = [c \in {} |-> None] /\ snapshots = [c \in {} |-> NoAssets]
       /\ plans = [r \in Rollbacks |-> None]) => MemoryInv
  BY NothingIsSound
<1>2. (\E rows : /\ CopySound(rows) /\ exists = TRUE /\ defaultBranch = rows.default
                 /\ branches = LoadedBranches(rows) /\ changesets = rows.changesets
                 /\ snapshots = rows.snapshots
                 /\ plans = [r \in Rollbacks |-> None]) => MemoryInv
  BY LoadedIsSound
<1>. QED BY <1>1, <1>2, PTL

-----------------------------------------------------------------------------
(* The steps of the specification. *)

\* What a restart may do to the memory.
OnlyForgets ==
  /\ \A c \in Known' :
       c \in Known /\ Rank(changesets'[c].status) <= Rank(changesets[c].status)
  /\ \A b \in DOMAIN branches' :
       b \in DOMAIN branches /\ IsPrefixOf(branches'[b].history, branches[b].history)

\* Who is known before and after a step has the same content.
ContentIsKept == \A c \in Known \cap Known' : SnapshotOf(c) = SnapshotOf(c)'

\* Every copy of the next state is one of this state's or what the memory is now.
CopiesAreOldOrNow == \A rows : IsCopy(rows)' => IsCopy(rows) \/ rows = RowsNow'

\* A copy stays good through an operation.
LEMMA CopiesStayGood ==
  ASSUME MemoryInv, MemoryInv', OnlyGrows, CopiesAreGood, CopiesAreOldOrNow
  PROVE  CopiesAreGood'
<1>1. SUFFICES ASSUME NEW rows, IsCopy(rows)'
               PROVE  CopySound(rows)' /\ CopyFits(rows)'
  BY DEF CopiesAreGood
<1>2. CASE IsCopy(rows)
  BY <1>2, CopyStillFits, SoundStays DEF CopiesAreGood
<1>3. CASE rows = RowsNow'
  BY <1>3, CopyNowNext
<1>. QED BY <1>1, <1>2, <1>3 DEF CopiesAreOldOrNow

\* An operation and its copy.
LEMMA OperateAndCopyKeeps ==
  ASSUME PInv, NEW w \in Writers, OperateAndCopy(w)
  PROVE  PInv' /\ ContentIsKept
<1>1. MemoryInv' /\ OnlyGrows
  BY OperateMaps, OperationKeeps DEF PInv, OperateAndCopy
<1>2. PICK reported : reported = Reported
  OBVIOUS
<1>3. PICK copy : copy = [rows |-> RowsNow', reported |-> reported]
  OBVIOUS
<1>4. saving' = [saving EXCEPT ![w] = copy] /\ db' = db /\ told' = told /\ spent' = spent \cup Known'
  BY <1>2, <1>3 DEF OperateAndCopy
<1>5. reported \subseteq Pairs
  <2>1. \A c \in Known' : c \in Changesets /\ changesets'[c].status \in {"draft", "approved", "visible"}
    BY <1>1 DEF MemoryInv, Sound, Known, Record
  <2>. QED BY <2>1, <1>2 DEF Reported, Pairs
<1>6. copy.rows = RowsNow' /\ copy.reported = reported
  BY <1>3
<1>7. CopiesAreOldOrNow
  BY <1>4, <1>6 DEF CopiesAreOldOrNow, IsCopy, PInv, GhostInv
<1>8. CopiesAreGood'
  BY <1>1, <1>7, CopiesStayGood DEF PInv
<1>9. GhostInv'
  <2>1. Known' \subseteq Changesets
    BY <1>1 DEF MemoryInv, Sound, Known
  <2>2. \A v \in Writers : saving'[v] # None => saving'[v].reported \subseteq Pairs
    BY <1>4, <1>5, <1>6 DEF PInv, GhostInv
  <2>. QED BY <2>1, <2>2, <1>4 DEF PInv, GhostInv, Pairs
<1>. QED BY <1>1, <1>8, <1>9 DEF PInv, ContentIsKept, OnlyGrows

\* Operations that save nothing.
LEMMA OperateOnlyKeeps ==
  ASSUME PInv, OperateOnly
  PROVE  PInv' /\ ContentIsKept
<1>1. MemoryInv' /\ OnlyGrows /\ UNCHANGED <<db, saving, told, spent>>
  BY OperateOnlyMaps, OperationKeeps DEF PInv, OperateOnly
<1>2. CopiesAreGood'
  BY <1>1, CopiesStayGood DEF PInv, CopiesAreOldOrNow, IsCopy
<1>3. Known' \subseteq spent
  <2>1. changesets' = changesets
    BY DEF OperateOnly, RejectCreateBranch, RejectSubmit, PlanRollback, RejectRollback
  <2>. QED BY <2>1 DEF PInv, GhostInv, Known
<1>. QED BY <1>1, <1>2, <1>3 DEF PInv, GhostInv, Pairs, ContentIsKept, OnlyGrows

\* Steps that leave the memory as it is only grow it, trivially.
LEMMA SameMemory ==
  ASSUME MemoryInv, UNCHANGED vars
  PROVE  MemoryInv' /\ OnlyGrows
<1>. USE DEF vars
<1>1. Known' = Known /\ Whole' = Whole /\ \A c : SnapshotOf(c)' = SnapshotOf(c)
  BY DEF Known, Whole, SnapshotOf, NoAssets
<1>2. V!PlansAreDiffs'
  BY <1>1 DEF MemoryInv, V!PlansAreDiffs, V!Known, V!RollbackDelta, V!BlobOf
<1>3. MemoryInv'
  BY <1>1, <1>2 DEF MemoryInv, Sound
<1>4. \A b \in DOMAIN branches : IsPrefixOf(branches[b].history, branches[b].history)
  <2>1. ASSUME NEW b \in DOMAIN branches PROVE branches[b].history \in Seq(Changesets)
    BY MemoryFacts DEF BranchState
  <2>2. ASSUME NEW s \in Seq(Changesets) PROVE IsPrefixOf(s, s)
    BY DEF IsPrefixOf
  <2>. QED BY <2>1, <2>2
<1>5. \A c \in Known : Rank(changesets[c].status) <= Rank(changesets[c].status)
  BY RankIsNatural
<1>. QED BY <1>1, <1>3, <1>4, <1>5 DEF OnlyGrows

\* A transaction that commits, or fails, and the answer to the client.
LEMMA AnswerKeeps ==
  ASSUME PInv, NEW w \in Writers, CommitSave(w) \/ FailSave(w)
  PROVE  PInv' /\ ContentIsKept
<1>1. /\ saving[w] # None /\ (db' = db \/ db' = saving[w].rows)
      /\ told' = told \cup saving[w].reported /\ saving' = [saving EXCEPT ![w] = None]
      /\ UNCHANGED vars /\ spent' = spent
  BY DEF CommitSave, FailSave, Answer
<1>2. MemoryInv' /\ OnlyGrows
  BY <1>1, SameMemory DEF PInv
<1>3. CopiesAreOldOrNow
  BY <1>1 DEF CopiesAreOldOrNow, IsCopy, PInv, GhostInv
<1>4. CopiesAreGood'
  BY <1>2, <1>3, CopiesStayGood DEF PInv
<1>5. GhostInv'
  BY <1>1 DEF PInv, GhostInv, Known, Pairs, vars
<1>. QED BY <1>2, <1>4, <1>5 DEF PInv, ContentIsKept, OnlyGrows

\* A restart loads a sound past of the memory, or nothing.
LEMMA RestartKeeps ==
  ASSUME PInv, Restart
  PROVE  PInv' /\ ContentIsKept /\ OnlyForgets
<1>1. saving' = [w \in Writers |-> None] /\ UNCHANGED <<db, told, spent>>
      /\ plans' = [r \in Rollbacks |-> None]
  BY DEF Restart, Load
<1>2. CASE db = None
  <2>1. /\ exists' = FALSE /\ defaultBranch' = Main /\ branches' = [b \in {} |-> NewBranch]
        /\ changesets' = [c \in {} |-> None] /\ snapshots' = [c \in {} |-> NoAssets]
    BY <1>2 DEF Restart, Load
  <2>2. MemoryInv'
    BY <2>1, <1>1, LoadedNext DEF NewBranch, NoAssets
  <2>3. Known' = {} /\ DOMAIN branches' = {}
    BY <2>1 DEF Known
  <2>4. CopiesAreGood'
    BY <1>1, <1>2 DEF CopiesAreGood, IsCopy
  <2>5. GhostInv'
    BY <1>1, <2>3 DEF PInv, GhostInv, Pairs
  <2>. QED BY <2>2, <2>3, <2>4, <2>5 DEF PInv, ContentIsKept, OnlyForgets
<1>3. CASE db # None
  <2>1. PICK rows : rows = db
    OBVIOUS
  <2>2. CopySound(rows) /\ CopyFits(rows)
    BY <1>3, <2>1 DEF PInv, CopiesAreGood, IsCopy
  <2>3. /\ exists' = TRUE /\ defaultBranch' = rows.default /\ branches' = LoadedBranches(rows)
        /\ changesets' = rows.changesets /\ snapshots' = rows.snapshots
    BY <1>3, <2>1 DEF Restart, Load
  <2>4. MemoryInv'
    <3>1. CopySound(rows)'
      BY <2>2, SoundStays
    <3>2. branches' = LoadedBranches(rows)'
      BY <2>3 DEF LoadedBranches, LineageIn
    <3>. QED BY <3>1, <3>2, <2>3, <1>1, LoadedNext
  <2>5. \A c \in Known' :
          /\ c \in Known
          /\ Rank(changesets'[c].status) <= Rank(changesets[c].status)
          /\ SnapshotOf(c)' = SnapshotOf(c)
    BY <2>2, <2>3 DEF CopyFits, Known, ContentIn, SnapshotOf, NoAssets
  <2>6. \A b \in DOMAIN branches' :
          b \in DOMAIN branches /\ IsPrefixOf(branches'[b].history, branches[b].history)
    <3>1. DOMAIN branches' = DOMAIN rows.heads
      BY <2>3 DEF LoadedBranches
    <3>. QED BY <3>1, <2>2, <2>3 DEF CopyFits
  <2>7. CopiesAreGood'
    <3>1. CopySound(rows)' /\ CopyFits(rows)'
      <4>1. CopySound(rows)'
        BY <2>2, SoundStays
      <4>2. ASSUME NEW c \in DOMAIN rows.changesets
            PROVE  /\ c \in Known'
                   /\ Rank(rows.changesets[c].status) <= Rank(changesets'[c].status)
                   /\ ContentIn(rows.snapshots, c) = SnapshotOf(c)'
        <5>1. c \in Known' /\ rows.changesets[c].status = changesets'[c].status
          BY <2>3 DEF Known
        <5>2. ContentIn(rows.snapshots, c) = SnapshotOf(c)'
          BY <2>3 DEF ContentIn, SnapshotOf, NoAssets
        <5>. QED BY <5>1, <5>2, RankIsNatural
      <4>3. ASSUME NEW b \in DOMAIN rows.heads
            PROVE  /\ b \in DOMAIN branches'
                   /\ IsPrefixOf(LoadedBranches(rows)[b].history, branches'[b].history)
        <5>1. b \in DOMAIN LoadedBranches(rows) /\ LoadedBranches(rows)[b].history \in Seq(Changesets)
          BY <2>2 DEF CopySound, Sound, LoadedBranches, BranchState
        <5>2. ASSUME NEW s \in Seq(Changesets) PROVE IsPrefixOf(s, s)
          BY DEF IsPrefixOf
        <5>. QED BY <5>1, <5>2, <2>3
      <4>. QED BY <4>1, <4>2, <4>3 DEF CopyFits, ContentIn, LoadedBranches, LineageIn, NoAssets
    <3>. QED BY <3>1, <2>1, <1>1 DEF CopiesAreGood, IsCopy
  <2>8. GhostInv'
    BY <1>1, <2>5 DEF PInv, GhostInv, Pairs
  <2>. QED BY <2>4, <2>5, <2>6, <2>7, <2>8 DEF PInv, ContentIsKept, OnlyForgets
<1>. QED BY <1>2, <1>3

-----------------------------------------------------------------------------
(* The theorems. *)

\* An empty server satisfies the invariant.
LEMMA InitPInv == PInit => PInv
<1>. SUFFICES ASSUME PInit PROVE PInv
  OBVIOUS
<1>1. MemoryInv
  BY NothingIsSound DEF PInit, Init
<1>2. Known = {}
  BY DEF PInit, Init, Known
<1>. QED BY <1>1, <1>2 DEF PInit, PInv, GhostInv, Pairs, CopiesAreGood, IsCopy

\* What every step does to the invariant and to the two action properties.
PGood == PInv' /\ ContentIsKept /\ (Restart => OnlyForgets)

\* Every step keeps the invariant and the contents.
LEMMA NextPGood == PInv /\ [PNext]_pvars => PGood
<1>. SUFFICES ASSUME PInv, [PNext]_pvars PROVE PGood
  OBVIOUS
<1>1. ASSUME Restart PROVE OnlyForgets
  BY <1>1, RestartKeeps
<1>2. ASSUME NEW w \in Writers, OperateAndCopy(w) PROVE PInv' /\ ContentIsKept
  BY <1>2, OperateAndCopyKeeps
<1>3. ASSUME NEW w \in Writers, CommitSave(w) \/ FailSave(w) PROVE PInv' /\ ContentIsKept
  BY <1>3, AnswerKeeps
<1>4. ASSUME OperateOnly PROVE PInv' /\ ContentIsKept
  BY <1>4, OperateOnlyKeeps
<1>5. ASSUME Restart PROVE PInv' /\ ContentIsKept
  BY <1>5, RestartKeeps
<1>6. CASE UNCHANGED pvars
  <2>1. MemoryInv' /\ OnlyGrows
    BY <1>6, SameMemory DEF PInv, pvars
  <2>2. CopiesAreGood'
    BY <1>6, <2>1, CopiesStayGood DEF PInv, CopiesAreOldOrNow, IsCopy, pvars
  <2>3. GhostInv'
    BY <1>6 DEF PInv, GhostInv, pvars, vars, Known, Pairs
  <2>. QED BY <2>1, <2>2, <2>3, <1>1 DEF PInv, PGood, ContentIsKept, OnlyGrows
<1>. QED BY <1>1, <1>2, <1>3, <1>4, <1>5, <1>6 DEF PNext, PGood

\* The invariant holds of every reachable state.
THEOREM Invariance == PSpec => []PInv
<1>1. PInv /\ [PNext]_pvars => PInv'
  BY NextPGood DEF PGood
<1>. QED BY InitPInv, <1>1, PTL DEF PSpec

\* Every reachable state is well typed, also after loading what was saved in
\* any order, and no identifier was handed out that is not remembered.
THEOREM TypeCorrect == PSpec => []PTypeOK
<1>1. PInv => PTypeOK
  BY DEF PInv, MemoryInv, Sound, GhostInv, PTypeOK, Known, Pairs
<1>. QED BY Invariance, <1>1, PTL

\* A history is the chain of parents of its head also after restarts, whatever
\* was saved and lost: reloading and appending agree for ever.
THEOREM HistoriesSurvive == PSpec => []HistoryIsLineage
<1>1. PInv => HistoryIsLineage
  BY DEF PInv, MemoryInv, Sound, HistoryIsLineage
<1>. QED BY Invariance, <1>1, PTL

\* After restarts, too, a changeset is visible exactly when it is in the history
\* of its own branch.
THEOREM VisibilitySurvives == PSpec => []VisibleIffInOwnHistory
<1>1. PInv => VisibleIffInOwnHistory
  BY DEF PInv, MemoryInv, Sound, VisibleIffInOwnHistory, Known
<1>. QED BY Invariance, <1>1, PTL

\* Whatever was saved in whatever order, a restart takes the repository back to
\* a past of its own.
THEOREM RestartsOnlyForget == PSpec => RestartOnlyForgets
<1>1. PInv /\ [PNext]_pvars =>
        [Restart =>
          /\ \A c \in Known' :
               c \in Known /\ Rank(changesets'[c].status) <= Rank(changesets[c].status)
          /\ \A b \in DOMAIN branches' :
               /\ b \in DOMAIN branches
               /\ Len(branches'[b].history) <= Len(branches[b].history)
               /\ branches'[b].history =
                    SubSeq(branches[b].history, 1, Len(branches'[b].history))]_pvars
  BY NextPGood DEF PGood, OnlyForgets, IsPrefixOf
<1>. QED BY Invariance, <1>1, PTL DEF PSpec, RestartOnlyForgets

\* No operation, no failed save and no restart changes the content a changeset
\* is served with.
THEOREM ContentsAreKept == PSpec => SnapshotsAreKept
<1>1. PInv /\ [PNext]_pvars => [ContentIsKept]_pvars
  BY NextPGood DEF PGood
<1>. QED BY Invariance, <1>1, PTL DEF PSpec, SnapshotsAreKept, ContentIsKept
==============================================================================
