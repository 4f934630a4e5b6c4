-------------------------- MODULE VersioningProofs --------------------------
(***************************************************************************)
(* Proofs about Versioning, for every set of changesets, branches, assets  *)
(* and rollback requests.                                                  *)
(*                                                                         *)
(* HistoryIsLineage is not inductive.  Promote appends a changeset to a    *)
(* history because its base is the head, so BaseIsParent has to tie the    *)
(* base to the parent; CreateBranch computes a history from the records    *)
(* alone, so LineageDefined says that the recursion over parents has one   *)
(* solution and what it is.  No induction over data is needed: the         *)
(* solution is carried along by the invariant and extended when a          *)
(* changeset is added, because nothing refers to a fresh identifier.       *)
(*                                                                         *)
(* The last part shows that Versioning implements Timeline.  It needs two  *)
(* facts more: a planned rollback's target stays in the history of its     *)
(* branch, and a repository that exists has its default branch.            *)
(***************************************************************************)
EXTENDS Versioning, TLAPS

Solves(f, records) ==
  f = [c \in DOMAIN records |->
         IF records[c].parent = None THEN <<c>>
         ELSE Append(f[records[c].parent], c)]

ParentsKnown == \A c \in Known : changesets[c].parent \in Known \cup {None}

RestoresKnown == \A c \in Known : changesets[c].restores \in Known \cup {None}

OnKnownBranch == \A c \in Known : changesets[c].branch \in DOMAIN branches

BaseIsParent ==
  \A c \in Known :
    changesets[c].base = IF changesets[c].parent = None THEN Root
                         ELSE changesets[c].parent

LineageDefined ==
  \E f : /\ Solves(f, changesets)
         /\ \A c \in Known : IsLineage(changesets, f[c], c)
         /\ \A g : Solves(g, changesets) => g = f

PlansAreDiffs ==
  \A r \in Rollbacks :
    plans[r] # None =>
      /\ plans[r].base \in Known
      /\ plans[r].target \in Known
      /\ plans[r].delta = RollbackDelta(snapshots[plans[r].base],
                                        snapshots[plans[r].target])

NoBranchesBeforeRepo == exists \/ DOMAIN branches = {}

IInv ==
  /\ TypeOK
  /\ NoBranchesBeforeRepo
  /\ ParentsKnown
  /\ RestoresKnown
  /\ BaseIsParent
  /\ LineageDefined
  /\ HistoryIsLineage
  /\ OnKnownBranch
  /\ VisibleIffInOwnHistory
  /\ PlansAreDiffs
  /\ RollbackRestoresContent

-----------------------------------------------------------------------------
(* The recursion over parents. *)

\* Only the parents of the records count.
LEMMA SolvesSameParents ==
  ASSUME NEW r1, NEW r2, NEW f,
         DOMAIN r1 = DOMAIN r2,
         \A c \in DOMAIN r1 : r1[c].parent = r2[c].parent,
         Solves(f, r1)
  PROVE  Solves(f, r2)
BY DEF Solves

\* A record under a fresh identifier extends a solution at that identifier.
LEMMA SolvesExtended ==
  ASSUME NEW r, NEW c, NEW rec, NEW f,
         c \notin DOMAIN r,
         c # None,
         rec.parent \in DOMAIN r \cup {None},
         \A d \in DOMAIN r : r[d].parent \in DOMAIN r \cup {None},
         Solves(f, r)
  PROVE  Solves(Put(f, c, IF rec.parent = None THEN <<c>>
                          ELSE Append(f[rec.parent], c)),
                Put(r, c, rec))
<1> DEFINE v == IF rec.parent = None THEN <<c>> ELSE Append(f[rec.parent], c)
           f2 == Put(f, c, v)
           r2 == Put(r, c, rec)
           E(d) == IF r2[d].parent = None THEN <<d>> ELSE Append(f2[r2[d].parent], d)
<1>1. DOMAIN f = DOMAIN r
  BY DEF Solves
<1>2. DOMAIN f2 = DOMAIN r \cup {c} /\ DOMAIN r2 = DOMAIN r \cup {c}
  BY <1>1 DEF Put
<1>3. \A d \in DOMAIN r : f2[d] = f[d] /\ r2[d] = r[d]
  BY <1>1 DEF Put
<1>4. f2[c] = v /\ r2[c] = rec
  BY DEF Put
<1>5. ASSUME NEW d \in DOMAIN r2 PROVE f2[d] = E(d)
  <2>1. CASE d = c
    BY <2>1, <1>3, <1>4
  <2>2. CASE d \in DOMAIN r
    <3>1. f[d] = IF r[d].parent = None THEN <<d>> ELSE Append(f[r[d].parent], d)
      BY <2>2 DEF Solves
    <3>. QED BY <3>1, <2>2, <1>3
  <2>. QED BY <2>1, <2>2, <1>2
<1>6. f2 = [d \in DOMAIN r2 |-> E(d)]
  <2>. HIDE DEF E, v, r2
  <2>1. f2 = [d \in DOMAIN f2 |-> f2[d]]
    BY DEF f2, Put
  <2>. HIDE DEF f2
  <2>. QED BY <1>5, <1>2, <2>1
<1>. QED BY <1>6 DEF Solves

\* Conversely, a solution for the extended records restricts to a solution for
\* the records before, and is determined by it.
LEMMA SolvesRestricted ==
  ASSUME NEW r, NEW c, NEW rec, NEW g, NEW f,
         c \notin DOMAIN r,
         rec.parent \in DOMAIN r \cup {None},
         \A d \in DOMAIN r : r[d].parent \in DOMAIN r \cup {None},
         Solves(g, Put(r, c, rec)),
         f = [d \in DOMAIN r |-> g[d]]
  PROVE  /\ Solves(f, r)
         /\ g = Put(f, c, IF rec.parent = None THEN <<c>>
                          ELSE Append(f[rec.parent], c))
<1> DEFINE r2 == Put(r, c, rec)
           v == IF rec.parent = None THEN <<c>> ELSE Append(f[rec.parent], c)
           E(d) == IF r[d].parent = None THEN <<d>> ELSE Append(f[r[d].parent], d)
<1>1. DOMAIN r2 = DOMAIN r \cup {c} /\ r2[c] = rec /\ \A d \in DOMAIN r : r2[d] = r[d]
  BY DEF Put
<1>2. \A d \in DOMAIN r2 :
        g[d] = IF r2[d].parent = None THEN <<d>> ELSE Append(g[r2[d].parent], d)
  BY DEF Solves
<1>3. DOMAIN g = DOMAIN r2 /\ g = [d \in DOMAIN g |-> g[d]]
  BY DEF Solves
<1>. HIDE DEF r2
<1>4. \A d \in DOMAIN r : f[d] = E(d)
  BY <1>1, <1>2
<1>5. Solves(f, r)
  <2>1. f = [d \in DOMAIN r |-> f[d]]
    OBVIOUS
  <2>2. f = [d \in DOMAIN r |-> E(d)]
    <3>. HIDE DEF E
    <3>. QED BY <1>4, <2>1
  <2>. QED BY <2>2 DEF Solves
<1>6. g[c] = v
  BY <1>1, <1>2
<1>7. g = Put(f, c, v)
  <2>. HIDE DEF v
  <2>1. DOMAIN f = DOMAIN r
    OBVIOUS
  <2>2. DOMAIN g = DOMAIN f \cup {c}
    BY <1>1, <1>3, <2>1
  <2>3. \A d \in DOMAIN f \cup {c} : g[d] = IF d = c THEN v ELSE f[d]
    BY <1>6, <2>1
  <2>. QED BY <1>3, <2>2, <2>3 DEF Put
<1>. QED BY <1>5, <1>7

\* What create_branch walks is the lineage of the changeset it starts from.
LEMMA LineageIsLineage ==
  ASSUME LineageDefined, NEW c \in Known
  PROVE  IsLineage(changesets, LineageIn(changesets)[c], c)
<1>1. PICK f : Solves(f, changesets) /\ \A d \in Known : IsLineage(changesets, f[d], d)
  BY DEF LineageDefined
<1>2. Solves(LineageIn(changesets), changesets)
  BY <1>1 DEF Solves, LineageIn
<1>3. LineageIn(changesets) = f
  BY <1>1, <1>2 DEF LineageDefined
<1>. QED BY <1>1, <1>3

\* A lineage stays one while the parents of its changesets stay what they are.
LEMMA LineageKept ==
  ASSUME NEW r1, NEW r2, NEW s, NEW c, IsLineage(r1, s, c),
         DOMAIN r1 \subseteq DOMAIN r2,
         \A d \in DOMAIN r1 : r2[d].parent = r1[d].parent
  PROVE  IsLineage(r2, s, c)
<1>1. s \in Seq(DOMAIN r1) /\ s # << >> /\ Len(s) \in Nat /\ Len(s) > 0
  BY DEF IsLineage
<1>2. \A i \in 1..Len(s) : s[i] \in DOMAIN r1
  BY <1>1
<1>3. s \in Seq(DOMAIN r2)
  BY <1>1
<1>4. r2[s[1]].parent = None
  BY <1>1, <1>2 DEF IsLineage
<1>5. \A i \in 1..(Len(s) - 1) : r2[s[i + 1]].parent = s[i]
  BY <1>1, <1>2 DEF IsLineage
<1>. QED BY <1>1, <1>3, <1>4, <1>5 DEF IsLineage

\* A changeset whose parent ends a lineage extends it.
LEMMA LineageExtended ==
  ASSUME NEW r, NEW s, NEW c \in DOMAIN r, IsLineage(r, s, r[c].parent)
  PROVE  IsLineage(r, Append(s, c), c)
<1> DEFINE t == Append(s, c)
<1>1. s \in Seq(DOMAIN r) /\ s # << >> /\ Len(s) \in Nat /\ Len(s) > 0
  BY DEF IsLineage
<1>2. t \in Seq(DOMAIN r) /\ Len(t) = Len(s) + 1 /\ t[Len(t)] = c /\ t # << >>
  BY <1>1
<1>3. \A i \in 1..Len(s) : t[i] = s[i]
  BY <1>1
<1>4. r[t[1]].parent = None
  BY <1>1, <1>3 DEF IsLineage
<1>5. ASSUME NEW i \in 1..(Len(t) - 1)
      PROVE  r[t[i + 1]].parent = t[i]
  <2>1. CASE i = Len(s)
    BY <2>1, <1>1, <1>2, <1>3 DEF IsLineage
  <2>2. CASE i \in 1..(Len(s) - 1)
    BY <2>2, <1>1, <1>3 DEF IsLineage
  <2>. QED BY <2>1, <2>2, <1>1, <1>2
<1>. HIDE DEF t
<1>6. IsLineage(r, t, c)
  BY <1>2, <1>4, <1>5 DEF IsLineage
<1>. QED BY <1>6 DEF t

\* A changeset without a parent is its own lineage.
LEMMA LineageOfFirst ==
  ASSUME NEW r, NEW c \in DOMAIN r, r[c].parent = None
  PROVE  IsLineage(r, <<c>>, c)
BY DEF IsLineage

-----------------------------------------------------------------------------
(* What create_branch and submit work on. *)

LEMMA EnsuredFacts ==
  ASSUME TypeOK, HistoryIsLineage
  PROVE  /\ DOMAIN EnsuredBranches \subseteq Branches
         /\ EnsuredBranches \in [DOMAIN EnsuredBranches -> BranchState]
         /\ DOMAIN branches \subseteq DOMAIN EnsuredBranches
         /\ \A b \in DOMAIN branches : EnsuredBranches[b] = branches[b]
         /\ defaultBranch \in DOMAIN EnsuredBranches
         /\ \A b \in DOMAIN EnsuredBranches :
              IF EnsuredBranches[b].head = None
              THEN EnsuredBranches[b].history = << >>
              ELSE IsLineage(changesets, EnsuredBranches[b].history,
                             EnsuredBranches[b].head)
<1>1. CASE defaultBranch \in DOMAIN branches
  BY <1>1 DEF EnsuredBranches, TypeOK, HistoryIsLineage
<1>2. CASE defaultBranch \notin DOMAIN branches
  <2>1. NewBranch \in BranchState
    BY DEF NewBranch, BranchState
  <2>2. EnsuredBranches = Put(branches, defaultBranch, NewBranch)
    BY <1>2 DEF EnsuredBranches
  <2>3. DOMAIN EnsuredBranches = DOMAIN branches \cup {defaultBranch}
    BY <2>2 DEF Put
  <2>4. \A b \in DOMAIN branches : EnsuredBranches[b] = branches[b]
    BY <2>2, <1>2 DEF Put
  <2>5. EnsuredBranches[defaultBranch] = NewBranch
    BY <2>2 DEF Put
  <2>6. EnsuredBranches \in [DOMAIN EnsuredBranches -> BranchState]
    BY <2>1, <2>2, <2>3 DEF Put, TypeOK
  <2>7. NewBranch.head = None /\ NewBranch.history = << >>
    BY DEF NewBranch
  <2>. QED BY <2>3, <2>4, <2>5, <2>6, <2>7 DEF TypeOK, HistoryIsLineage
<1>. QED BY <1>1, <1>2

LEMMA HeadKnown ==
  ASSUME TypeOK, HistoryIsLineage, NEW name \in DOMAIN EnsuredBranches
  PROVE  EnsuredBranches[name].head \in Known \cup {None}
<1> DEFINE parent == EnsuredBranches[name].head
<1>1. CASE parent = None
  BY <1>1
<1>2. CASE parent # None
  <2>1. IsLineage(changesets, EnsuredBranches[name].history, parent)
    BY <1>2, EnsuredFacts
  <2>. QED BY <2>1 DEF IsLineage, Known
<1>. QED BY <1>1, <1>2

\* What submit_internal reads and writes when it accepts a submission.
LEMMA StoreFacts ==
  ASSUME TypeOK, HistoryIsLineage,
         NEW c, NEW name, NEW base, NEW status \in {"draft", "visible"},
         NEW delta \in Delta, NEW restores \in Changesets \cup {None},
         Submittable(name, base),
         Store(c, name, base, status, delta, restores)
  PROVE  /\ name \in DOMAIN EnsuredBranches
         /\ EnsuredBranches[name].head \in Known \cup {None}
         /\ base = (IF EnsuredBranches[name].head = None THEN Root
                    ELSE EnsuredBranches[name].head)
         /\ c \in Changesets \ Known
         /\ changesets' = Put(changesets, c, NewRecord(name, base, status, restores))
         /\ Known' = Known \cup {c}
         /\ Known' \subseteq Changesets
         /\ changesets' \in [Known' -> Record]
         /\ changesets'[c] = NewRecord(name, base, status, restores)
         /\ changesets'[c].parent = EnsuredBranches[name].head
         /\ \A d \in Known : changesets'[d] = changesets[d]
         /\ snapshots' \in [Known' -> Snapshot]
         /\ snapshots'[c] = ApplyDelta(SnapshotOf(EnsuredBranches[name].head), delta)
         /\ \A d \in Known : snapshots'[d] = snapshots[d]
<1> DEFINE parent == EnsuredBranches[name].head
           record == NewRecord(name, base, status, restores)
<1>1. name \in DOMAIN EnsuredBranches /\ name \in Branches
  BY EnsuredFacts DEF Submittable
<1>2. base = IF parent = None THEN Root ELSE parent
  BY DEF Submittable
<1>3. parent \in Known \cup {None}
  BY <1>1, HeadKnown
<1>4. record \in Record
  BY <1>1, <1>2, <1>3 DEF Record, NewRecord, TypeOK
<1>5. c \in Changesets \ Known /\ changesets' = Put(changesets, c, record)
  BY DEF Store
<1>6. Known' = Known \cup {c} /\ changesets'[c] = record
      /\ \A d \in Known : changesets'[d] = changesets[d]
  BY <1>5 DEF Put, Known
<1>12. Known' \subseteq Changesets /\ changesets' \in [Known' -> Record]
  <2>. HIDE DEF record
  <2>. QED BY <1>4, <1>5, <1>6 DEF Put, Known, TypeOK
<1>13. record.parent = parent
  BY DEF NewRecord
<1>7. DOMAIN snapshots = Known
  BY DEF TypeOK
<1> DEFINE new == ApplyDelta(SnapshotOf(parent), delta)
<1>8. SnapshotOf(parent) \in Snapshot
  BY <1>7 DEF SnapshotOf, NoAssets, Snapshot, TypeOK
<1>9. new \in Snapshot
  BY <1>8, MarkersAreFresh DEF ApplyDelta, Snapshot, Delta
<1>10. snapshots' = Put(snapshots, c, new)
  BY DEF Store
<1>. HIDE DEF new, record, parent
<1>11. snapshots' \in [Known' -> Snapshot] /\ snapshots'[c] = new
       /\ \A d \in Known : snapshots'[d] = snapshots[d]
  BY <1>5, <1>6, <1>7, <1>9, <1>10 DEF Put, TypeOK
<1>. QED BY <1>1, <1>2, <1>3, <1>5, <1>6, <1>11, <1>12, <1>13 DEF new, record, parent

-----------------------------------------------------------------------------
(* An accepted submission keeps the invariant. *)

\* The recursion over parents stays defined: the fresh changeset is nobody's
\* parent yet.
LEMMA LineageDefinedExtended ==
  ASSUME NEW c, NEW record,
         LineageDefined, ParentsKnown,
         c \notin Known, c # None,
         record.parent \in Known \cup {None},
         changesets' = Put(changesets, c, record)
  PROVE  LineageDefined'
<1>1. PICK f : /\ Solves(f, changesets)
               /\ \A d \in Known : IsLineage(changesets, f[d], d)
               /\ \A g : Solves(g, changesets) => g = f
  BY DEF LineageDefined
<1> DEFINE v == IF record.parent = None THEN <<c>> ELSE Append(f[record.parent], c)
           f2 == Put(f, c, v)
<1>2. Solves(f2, changesets')
  BY <1>1, SolvesExtended DEF ParentsKnown, Known
<1>3. Known' = Known \cup {c} /\ changesets'[c] = record
      /\ \A d \in Known : changesets'[d] = changesets[d]
  BY DEF Put, Known
<1>4. DOMAIN f = Known /\ f2[c] = v /\ \A d \in Known : f2[d] = f[d]
  BY <1>1 DEF Put, Solves, Known
<1>5. \A d \in Known : IsLineage(changesets', f[d], d)
  BY <1>1, <1>3, LineageKept DEF Known
<1>6. IsLineage(changesets', v, c)
  <2>1. CASE record.parent = None
    BY <2>1, <1>3, LineageOfFirst DEF Known
  <2>2. CASE record.parent # None
    BY <2>2, <1>3, <1>5, LineageExtended DEF Known
  <2>. QED BY <2>1, <2>2
<1>7. ASSUME NEW g, Solves(g, changesets') PROVE g = f2
  <2> DEFINE f1 == [d \in Known |-> g[d]]
  <2>1. Solves(f1, changesets)
        /\ g = Put(f1, c, IF record.parent = None THEN <<c>>
                          ELSE Append(f1[record.parent], c))
    BY <1>7, SolvesRestricted DEF ParentsKnown, Known
  <2>2. f1 = f
    BY <2>1, <1>1
  <2>. QED BY <2>1, <2>2
<1>. HIDE DEF f2, v
<1>8. \A d \in Known' : IsLineage(changesets', f2[d], d)
  BY <1>3, <1>4, <1>5, <1>6
<1>. QED BY <1>2, <1>7, <1>8 DEF LineageDefined

\* Changing the status of a changeset changes no lineage.
LEMMA LineageDefinedKept ==
  ASSUME LineageDefined, Known' = Known,
         \A d \in Known : changesets'[d].parent = changesets[d].parent
  PROVE  LineageDefined'
<1>1. PICK f : /\ Solves(f, changesets)
               /\ \A d \in Known : IsLineage(changesets, f[d], d)
               /\ \A g : Solves(g, changesets) => g = f
  BY DEF LineageDefined
<1>2. Solves(f, changesets')
  BY <1>1, SolvesSameParents DEF Known
<1>3. \A d \in Known : IsLineage(changesets', f[d], d)
  BY <1>1, LineageKept DEF Known
<1>4. ASSUME NEW g, Solves(g, changesets') PROVE g = f
  BY <1>1, <1>4, SolvesSameParents DEF Known
<1>. QED BY <1>2, <1>3, <1>4 DEF LineageDefined

\* The steps HeadMovesToItsChild, HistoryOnlyGrows and GateIsNotSkipped allow.
HeadStep ==
  \A b \in DOMAIN branches :
    branches'[b].head # branches[b].head =>
      changesets'[branches'[b].head].parent = branches[b].head

GrowStep ==
  \A b \in DOMAIN branches :
    /\ b \in DOMAIN branches'
    /\ Len(branches[b].history) <= Len(branches'[b].history)
    /\ SubSeq(branches'[b].history, 1, Len(branches[b].history)) = branches[b].history

GateStep ==
  \A c \in Known :
    /\ c \in Known'
    /\ <<changesets[c].status, changesets'[c].status>> \in
         { <<"draft", "draft">>, <<"draft", "approved">>,
           <<"approved", "approved">>, <<"approved", "visible">>,
           <<"visible", "visible">> }

LEMMA SeqOfMore ==
  ASSUME NEW S, NEW T, S \subseteq T, NEW s \in Seq(S)
  PROVE  s \in Seq(T)
OBVIOUS

LEMMA FieldsOfBranch ==
  ASSUME NEW b, NEW head, NEW history, branches'[b] = [head |-> head, history |-> history]
  PROVE  branches'[b].head = head /\ branches'[b].history = history
OBVIOUS

LEMMA WholeSubSeq ==
  ASSUME NEW S, NEW s \in Seq(S)
  PROVE  SubSeq(s, 1, Len(s)) = s
OBVIOUS

LEMMA PrefixOfAppend ==
  ASSUME NEW S, NEW s \in Seq(S), NEW e \in S
  PROVE  /\ Append(s, e) \in Seq(S)
         /\ Len(s) <= Len(Append(s, e))
         /\ SubSeq(Append(s, e), 1, Len(s)) = s
OBVIOUS

LEMMA ElementsOfAppend ==
  ASSUME NEW S, NEW s \in Seq(S), NEW e \in S
  PROVE  Elements(Append(s, e)) = Elements(s) \cup {e}
<1> DEFINE t == Append(s, e)
<1>1. Len(t) = Len(s) + 1 /\ Len(s) \in Nat /\ t[Len(s) + 1] = e
      /\ \A i \in 1..Len(s) : t[i] = s[i]
  OBVIOUS
<1>2. 1..Len(t) = 1..Len(s) \cup {Len(s) + 1}
  BY <1>1
<1>. HIDE DEF t
<1>3. Elements(t) = Elements(s) \cup {e}
  BY <1>1, <1>2 DEF Elements
<1>. QED BY <1>3 DEF t

\* The branches after a step in which one branch moves to a child of its head
\* and the others stay, starting from any typed set of branches.
LEMMA AdvanceFacts ==
  ASSUME NEW all, NEW name \in DOMAIN all, NEW c \in Changesets,
         all \in [DOMAIN all -> BranchState]
  PROVE  LET new == AdvanceHead(all, name, c)
         IN  /\ DOMAIN new = DOMAIN all
             /\ new \in [DOMAIN new -> BranchState]
             /\ new[name].head = c
             /\ new[name].history = Append(all[name].history, c)
             /\ \A b \in DOMAIN all \ {name} : new[b] = all[b]
<1>1. all[name] \in BranchState /\ all[name].history \in Seq(Changesets)
  BY DEF BranchState
<1>2. Append(all[name].history, c) \in Seq(Changesets)
  BY <1>1, PrefixOfAppend
<1>. QED BY <1>1, <1>2 DEF AdvanceHead, BranchState

LEMMA StoreTypes ==
  ASSUME TypeOK, HistoryIsLineage, EnsureRepo,
         NEW c, NEW name, NEW base, NEW status \in {"draft", "visible"},
         NEW delta \in Delta, NEW restores \in Changesets \cup {None},
         Submittable(name, base),
         Store(c, name, base, status, delta, restores),
         plans' \in [Rollbacks -> Plan \cup {None}]
  PROVE  TypeOK'
<1>1. changesets' \in [Known' -> Record] /\ Known' \subseteq Changesets
  BY StoreFacts DEF TypeOK
<1>2. snapshots' \in [Known' -> Snapshot]
  BY StoreFacts
<1>3. DOMAIN branches' \subseteq Branches /\ branches' \in [DOMAIN branches' -> BranchState]
  BY StoreFacts, EnsuredFacts, AdvanceFacts DEF Store
<1>4. exists' \in BOOLEAN /\ defaultBranch' \in Branches
  BY DEF EnsureRepo, TypeOK
<1>. QED BY <1>1, <1>2, <1>3, <1>4 DEF TypeOK

LEMMA StoreHistory ==
  ASSUME TypeOK, HistoryIsLineage,
         NEW c, NEW name, NEW base, NEW status \in {"draft", "visible"},
         NEW delta \in Delta, NEW restores \in Changesets \cup {None},
         Submittable(name, base),
         Store(c, name, base, status, delta, restores)
  PROVE  HistoryIsLineage' /\ HeadStep /\ GrowStep
<1>0. /\ name \in DOMAIN EnsuredBranches
      /\ c \in Changesets
      /\ changesets'[c].parent = EnsuredBranches[name].head
      /\ Known' = Known \cup {c}
      /\ \A d \in Known : changesets'[d] = changesets[d]
  <2>1. name \in DOMAIN EnsuredBranches
    BY DEF Submittable
  <2>2. c \in Changesets
    BY DEF Store
  <2>6. PICK record : /\ record = NewRecord(name, base, status, restores)
                      /\ c \notin Known /\ changesets' = Put(changesets, c, record)
    BY DEF Store
  <2>3. changesets'[c].parent = EnsuredBranches[name].head
    <3>1. changesets'[c] = record
      BY <2>6 DEF Put
    <3>2. record.parent = EnsuredBranches[name].head
      BY <2>6 DEF NewRecord
    <3>. QED BY <3>1, <3>2
  <2>4. Known' = Known \cup {c}
    BY <2>6 DEF Put, Known
  <2>5. \A d \in Known : changesets'[d] = changesets[d]
    BY <2>6 DEF Put, Known
  <2>. QED BY <2>1, <2>2, <2>3, <2>4, <2>5
<1> DEFINE all == EnsuredBranches
<1>1. /\ name \in DOMAIN all /\ c \in Changesets /\ c \in Known' /\ c # None
      /\ changesets'[c].parent = all[name].head
      /\ DOMAIN changesets \subseteq DOMAIN changesets'
      /\ \A d \in DOMAIN changesets : changesets'[d].parent = changesets[d].parent
  BY <1>0, MarkersAreFresh DEF Known
<1>2. /\ all \in [DOMAIN all -> BranchState]
      /\ DOMAIN branches \subseteq DOMAIN all
      /\ \A b \in DOMAIN branches : all[b] = branches[b]
  BY EnsuredFacts
<1>3. ASSUME NEW b \in DOMAIN all, all[b].head # None
      PROVE  IsLineage(changesets', all[b].history, all[b].head)
  BY <1>1, <1>3, EnsuredFacts, LineageKept
<1>4. ASSUME NEW b \in DOMAIN all, all[b].head = None
      PROVE  all[b].history = << >>
  BY <1>4, EnsuredFacts
<1>5. \A b \in DOMAIN all : all[b].history \in Seq(Changesets)
  BY <1>2 DEF BranchState
<1>. HIDE DEF all
<1>6. CASE branches' = all
  BY <1>6, <1>2, <1>3, <1>4, <1>5, WholeSubSeq DEF HistoryIsLineage, HeadStep, GrowStep
<1>7. CASE branches' = AdvanceHead(all, name, c)
  <2>1. /\ DOMAIN branches' = DOMAIN all
        /\ branches'[name].head = c
        /\ branches'[name].history = Append(all[name].history, c)
        /\ \A b \in DOMAIN all \ {name} : branches'[b] = all[b]
    BY <1>1, <1>2, <1>7, AdvanceFacts
  <2>2. IsLineage(changesets', branches'[name].history, c)
    <3>1. CASE all[name].head = None
      <4>1. branches'[name].history = Append(<< >>, c)
        BY <1>1, <1>4, <2>1, <3>1
      <4>2. Append(<< >>, c) = <<c>>
        OBVIOUS
      <4>. QED BY <4>1, <4>2, <1>1, <3>1, LineageOfFirst DEF Known
    <3>2. CASE all[name].head # None
      BY <1>1, <1>3, <2>1, <3>2, LineageExtended DEF Known
    <3>. QED BY <3>1, <3>2
  <2>3. HistoryIsLineage'
    <3>1. SUFFICES ASSUME NEW b \in DOMAIN branches'
                   PROVE  IF branches'[b].head = None
                          THEN branches'[b].history = << >>
                          ELSE IsLineage(changesets', branches'[b].history,
                                         branches'[b].head)
      BY DEF HistoryIsLineage
    <3>2. CASE b = name
      <4>1. branches'[b].head = c /\ c # None
        BY <3>2, <1>1, <2>1
      <4>. QED BY <4>1, <3>2, <2>2
    <3>3. CASE b # name
      BY <3>3, <1>3, <1>4, <2>1
    <3>. QED BY <3>2, <3>3
  <2>4. HeadStep
    BY <1>1, <1>2, <2>1 DEF HeadStep
  <2>5. GrowStep
    <3>1. all[name].history \in Seq(Changesets)
      BY <1>1, <1>5
    <3>2. /\ Len(all[name].history) <= Len(branches'[name].history)
          /\ SubSeq(branches'[name].history, 1, Len(all[name].history)) = all[name].history
      BY <1>1, <2>1, <3>1, PrefixOfAppend
    <3>3. ASSUME NEW b \in DOMAIN branches, b # name
          PROVE  /\ branches'[b].history = branches[b].history
                 /\ branches[b].history \in Seq(Changesets)
      BY <1>2, <1>5, <2>1, <3>3
    <3>. QED BY <1>2, <2>1, <3>2, <3>3, WholeSubSeq DEF GrowStep
  <2>. QED BY <2>3, <2>4, <2>5
<1>. QED BY <1>6, <1>7 DEF Store, all

\* A draft enters no history, a visible changeset that of its own branch.
LEMMA StoreVisible ==
  ASSUME TypeOK, HistoryIsLineage, OnKnownBranch, VisibleIffInOwnHistory,
         NEW c \in Changesets \ Known, NEW name, NEW base,
         NEW status \in {"draft", "visible"}, NEW restores,
         name \in DOMAIN EnsuredBranches,
         changesets' = Put(changesets, c, NewRecord(name, base, status, restores)),
         branches' = IF status = "visible" THEN AdvanceHead(EnsuredBranches, name, c)
                     ELSE EnsuredBranches
  PROVE  OnKnownBranch' /\ VisibleIffInOwnHistory'
<1> DEFINE all == EnsuredBranches
           record == NewRecord(name, base, status, restores)
<1>1. /\ all \in [DOMAIN all -> BranchState]
      /\ DOMAIN branches \subseteq DOMAIN all
      /\ \A b \in DOMAIN branches : all[b] = branches[b]
  BY EnsuredFacts
<1>2. \A b \in DOMAIN all : all[b].history \in Seq(Changesets)
  BY <1>1 DEF BranchState
<1>3. c \notin Elements(all[name].history)
  <2>1. CASE all[name].head = None
    <3>1. all[name].history = << >>
      BY <2>1, EnsuredFacts
    <3>. QED BY <3>1 DEF Elements
  <2>2. CASE all[name].head # None
    <3>1. IsLineage(changesets, all[name].history, all[name].head)
      BY <2>2, EnsuredFacts
    <3>. QED BY <3>1 DEF Elements, IsLineage, Known
  <2>. QED BY <2>1, <2>2
<1>4. record.branch = name /\ record.status = status
  BY DEF NewRecord
<1>. HIDE DEF record
<1>5. /\ Known' = Known \cup {c} /\ changesets'[c] = record
      /\ \A d \in Known : changesets'[d] = changesets[d]
  BY DEF Put, Known, record
<1>6. DOMAIN branches' = DOMAIN all
  BY <1>1, AdvanceFacts
<1>7. OnKnownBranch'
  BY <1>1, <1>4, <1>5, <1>6 DEF OnKnownBranch
<1>8. SUFFICES ASSUME NEW d \in Known'
               PROVE  (changesets'[d].status = "visible")
                        <=> d \in Elements(branches'[changesets'[d].branch].history)
  BY <1>7 DEF VisibleIffInOwnHistory
<1>9. CASE status = "draft"
  <2>. HIDE DEF all
  <2>1. branches' = all
    BY <1>9 DEF all
  <2>2. CASE d = c
    BY <2>1, <2>2, <1>3, <1>4, <1>5, <1>9
  <2>3. CASE d # c
    BY <2>1, <2>3, <1>1, <1>5 DEF OnKnownBranch, VisibleIffInOwnHistory
  <2>. QED BY <2>2, <2>3
<1>10. CASE status = "visible"
  <2>1. branches' = AdvanceHead(all, name, c)
    BY <1>10
  <2>2. /\ branches'[name].history = Append(all[name].history, c)
        /\ \A b \in DOMAIN all \ {name} : branches'[b] = all[b]
    BY <1>1, <2>1, AdvanceFacts
  <2>3. Elements(branches'[name].history) = Elements(all[name].history) \cup {c}
    <3>1. all[name].history \in Seq(Changesets) /\ c \in Changesets
      BY <1>2
    <3>2. Elements(Append(all[name].history, c)) = Elements(all[name].history) \cup {c}
      BY <3>1, ElementsOfAppend
    <3>. QED BY <2>2, <3>2
  <2>. HIDE DEF all
  <2>4. CASE d = c
    BY <2>3, <2>4, <1>4, <1>5, <1>10
  <2>5. CASE d # c /\ changesets[d].branch = name
    BY <2>3, <2>5, <1>1, <1>5 DEF OnKnownBranch, VisibleIffInOwnHistory
  <2>6. CASE d # c /\ changesets[d].branch # name
    BY <2>2, <2>6, <1>1, <1>5 DEF OnKnownBranch, VisibleIffInOwnHistory
  <2>. QED BY <2>4, <2>5, <2>6
<1>. QED BY <1>9, <1>10

-----------------------------------------------------------------------------
(* Steps that add no changeset. *)

\* A step that keeps the records keeps everything said of them alone.
LEMMA RecordsKept ==
  ASSUME changesets' = changesets, snapshots' = snapshots,
         ParentsKnown, RestoresKnown, BaseIsParent, LineageDefined,
         RollbackRestoresContent
  PROVE  /\ ParentsKnown' /\ RestoresKnown' /\ BaseIsParent' /\ LineageDefined'
         /\ RollbackRestoresContent' /\ Known' = Known
<1>1. Known' = Known
  BY DEF Known
<1>2. ParentsKnown' /\ RestoresKnown' /\ BaseIsParent'
  BY <1>1 DEF ParentsKnown, RestoresKnown, BaseIsParent
<1>3. LineageDefined'
  BY <1>1, LineageDefinedKept
<1>4. RollbackRestoresContent'
  BY <1>1 DEF RollbackRestoresContent
<1>. QED BY <1>1, <1>2, <1>3, <1>4

\* Every plan of the next state is a plan of this one.
PlansShrink ==
  \A r \in Rollbacks : plans'[r] # None => plans'[r] = plans[r]

\* A plan stays the difference of two known snapshots, which never change.
LEMMA PlansKept ==
  ASSUME PlansAreDiffs, PlansShrink, Known \subseteq Known',
         \A d \in Known : snapshots'[d] = snapshots[d]
  PROVE  PlansAreDiffs'
<1>1. SUFFICES ASSUME NEW r \in Rollbacks, plans'[r] # None
               PROVE  /\ plans'[r].base \in Known'
                      /\ plans'[r].target \in Known'
                      /\ plans'[r].delta = RollbackDelta(snapshots'[plans'[r].base],
                                                       snapshots'[plans'[r].target])
  BY DEF PlansAreDiffs
<1>2. plans'[r] = plans[r] /\ plans[r] # None
  BY <1>1 DEF PlansShrink
<1>3. /\ plans[r].base \in Known
      /\ plans[r].target \in Known
      /\ plans[r].delta = RollbackDelta(snapshots[plans[r].base],
                                       snapshots[plans[r].target])
  BY <1>2 DEF PlansAreDiffs
<1>. QED BY <1>2, <1>3

\* New branches that satisfy HistoryIsLineage, none of the old ones touched.
LEMMA BranchesAdded ==
  ASSUME TypeOK, OnKnownBranch, VisibleIffInOwnHistory, changesets' = changesets,
         DOMAIN branches \subseteq DOMAIN branches',
         \A b \in DOMAIN branches : branches'[b] = branches[b],
         \A b \in DOMAIN branches' :
            IF branches'[b].head = None THEN branches'[b].history = << >>
            ELSE IsLineage(changesets, branches'[b].history, branches'[b].head)
  PROVE  /\ HistoryIsLineage' /\ OnKnownBranch' /\ VisibleIffInOwnHistory'
         /\ HeadStep /\ GrowStep /\ GateStep
<1>6. OnKnownBranch' /\ VisibleIffInOwnHistory'
  BY DEF OnKnownBranch, VisibleIffInOwnHistory, Known
<1>1. HistoryIsLineage'
  BY DEF HistoryIsLineage
<1>2. HeadStep
  BY DEF HeadStep
<1>3. \A b \in DOMAIN branches : branches[b].history \in Seq(Changesets)
  BY DEF TypeOK, BranchState
<1>4. GrowStep
  BY <1>3, WholeSubSeq DEF GrowStep
<1>5. GateStep
  <2>1. \A c \in Known : changesets[c].status \in {"draft", "approved", "visible"}
    BY DEF TypeOK, Record
  <2>. QED BY <2>1 DEF GateStep, Known
<1>. QED BY <1>1, <1>2, <1>4, <1>5, <1>6

\* What every action does to the invariant and to the three action properties.
Good == IInv' /\ HeadStep /\ GrowStep /\ GateStep

LEMMA CreateRepoGood ==
  ASSUME IInv, NEW name \in Branches, CreateRepo(name)
  PROVE  Good
<1>. USE DEF IInv
<1>1. DOMAIN branches = {} /\ DOMAIN branches' = {name} /\ branches'[name] = NewBranch
  BY DEF CreateRepo, NoBranchesBeforeRepo
<1>2. changesets' = changesets /\ snapshots' = snapshots /\ plans' = plans
      /\ exists' = TRUE
  BY DEF CreateRepo
<1>3. TypeOK'
  BY <1>1, <1>2 DEF TypeOK, CreateRepo, NewBranch, BranchState, Known
<1>4. /\ HistoryIsLineage' /\ OnKnownBranch' /\ VisibleIffInOwnHistory'
      /\ HeadStep /\ GrowStep /\ GateStep
  BY <1>1, <1>2, BranchesAdded DEF NewBranch
<1>5. PlansAreDiffs'
  BY <1>2, RecordsKept, PlansKept DEF PlansShrink
<1>. QED BY <1>2, <1>3, <1>4, <1>5, RecordsKept DEF Good, NoBranchesBeforeRepo

LEMMA CreateBranchGood ==
  ASSUME IInv, NEW name \in Branches, NEW from \in Changesets \cup {None},
         CreateBranch(name, from)
  PROVE  Good
<1>. USE DEF IInv
<1>1. changesets' = changesets /\ snapshots' = snapshots /\ plans' = plans
      /\ exists' = TRUE /\ defaultBranch' = defaultBranch
  BY DEF CreateBranch, EnsureRepo
<1> DEFINE all == EnsuredBranches
           start == IF from = None THEN all[defaultBranch].head ELSE from
           new == BranchStart(from)
<1>2. start \in Known \cup {None}
  <2>1. CASE from # None
    BY <2>1 DEF CreateBranch, BranchCreatable
  <2>2. CASE from = None /\ all[defaultBranch].head # None
    <3>1. IsLineage(changesets, all[defaultBranch].history, all[defaultBranch].head)
      BY <2>2, EnsuredFacts
    <3>2. all[defaultBranch].head \in Known
      BY <3>1 DEF IsLineage, Known
    <3>. QED BY <2>2, <3>2
  <2>. QED BY <2>1, <2>2
<1>3. /\ new.head = start
      /\ new.history = IF start = None THEN << >> ELSE LineageIn(changesets)[start]
  BY DEF BranchStart
<1>4. IF start = None THEN new.history = << >>
      ELSE IsLineage(changesets, new.history, start)
  BY <1>2, <1>3, LineageIsLineage
<1>5. new \in BranchState
  <2>1. start \in Changesets \cup {None}
    BY <1>2 DEF TypeOK
  <2>2. new.history \in Seq(Changesets)
    <3>1. CASE start = None
      <4>1. new.history = << >>
        BY <3>1, <1>3
      <4>2. << >> \in Seq(Changesets)
        OBVIOUS
      <4>. QED BY <4>1, <4>2
    <3>2. CASE start # None
      <4>1. new.history \in Seq(Known)
        BY <3>2, <1>4 DEF IsLineage, Known
      <4>2. Known \subseteq Changesets
        BY DEF TypeOK
      <4>3. ASSUME NEW s \in Seq(Known) PROVE s \in Seq(Changesets)
        BY <4>2, SeqOfMore
      <4>. QED BY <4>1, <4>3
    <3>. QED BY <3>1, <3>2
  <2>3. new = [head |-> new.head, history |-> new.history]
    BY DEF BranchStart
  <2>. QED BY <2>1, <2>2, <2>3, <1>3 DEF BranchState
<1>. HIDE DEF new, start
<1>6. branches' = Put(all, name, new) /\ name \notin DOMAIN all
  BY DEF CreateBranch, BranchCreatable, new
<1>7. DOMAIN branches' = DOMAIN all \cup {name} /\ branches'[name] = new
      /\ \A b \in DOMAIN all : branches'[b] = all[b]
  BY <1>6 DEF Put
<1>8. /\ DOMAIN all \subseteq Branches
      /\ all \in [DOMAIN all -> BranchState]
      /\ DOMAIN branches \subseteq DOMAIN all
      /\ \A b \in DOMAIN branches : all[b] = branches[b]
      /\ \A b \in DOMAIN all :
           IF all[b].head = None THEN all[b].history = << >>
           ELSE IsLineage(changesets, all[b].history, all[b].head)
  BY EnsuredFacts
<1>. HIDE DEF all
<1>9. TypeOK'
  <2>1. branches' \in [DOMAIN branches' -> BranchState]
    BY <1>5, <1>6, <1>7, <1>8 DEF Put
  <2>. QED BY <2>1, <1>1, <1>7, <1>8 DEF TypeOK, Known
<1>10. /\ HistoryIsLineage' /\ OnKnownBranch' /\ VisibleIffInOwnHistory'
       /\ HeadStep /\ GrowStep /\ GateStep
  <2>1. DOMAIN branches \subseteq DOMAIN branches'
        /\ \A b \in DOMAIN branches : branches'[b] = branches[b]
    BY <1>7, <1>8
  <2>2. ASSUME NEW b \in DOMAIN branches'
        PROVE  IF branches'[b].head = None THEN branches'[b].history = << >>
               ELSE IsLineage(changesets, branches'[b].history, branches'[b].head)
    <3>1. CASE b = name
      BY <3>1, <1>3, <1>4, <1>7
    <3>2. CASE b # name
      BY <3>2, <1>7, <1>8
    <3>. QED BY <3>1, <3>2
  <2>. QED BY <2>1, <2>2, <1>1, BranchesAdded
<1>11. PlansAreDiffs'
  BY <1>1, RecordsKept, PlansKept DEF PlansShrink
<1>. QED BY <1>1, <1>9, <1>10, <1>11, RecordsKept DEF Good, NoBranchesBeforeRepo

\* A rejected call leaves at most an empty default branch behind.
LEMMA RejectGood ==
  ASSUME IInv, EnsureRepo, branches' = EnsuredBranches,
         changesets' = changesets, snapshots' = snapshots, plans' = plans
  PROVE  Good
<1>. USE DEF IInv
<1>1. exists' = TRUE /\ defaultBranch' = defaultBranch
  BY DEF EnsureRepo
<1>2. TypeOK'
  BY <1>1, EnsuredFacts DEF TypeOK, Known
<1>3. /\ HistoryIsLineage' /\ OnKnownBranch' /\ VisibleIffInOwnHistory'
      /\ HeadStep /\ GrowStep /\ GateStep
  BY EnsuredFacts, BranchesAdded
<1>4. PlansAreDiffs'
  BY RecordsKept, PlansKept DEF PlansShrink
<1>. QED BY <1>1, <1>2, <1>3, <1>4, RecordsKept DEF Good, NoBranchesBeforeRepo

-----------------------------------------------------------------------------
(* Submissions. *)

\* What every accepted submission keeps, whoever made its delta.
LEMMA StoreGood ==
  ASSUME IInv, EnsureRepo,
         NEW c, NEW name, NEW base, NEW status \in {"draft", "visible"},
         NEW delta \in Delta, NEW restores \in Changesets \cup {None},
         Submittable(name, base),
         Store(c, name, base, status, delta, restores),
         plans' \in [Rollbacks -> Plan \cup {None}], PlansShrink,
         restores # None =>
           /\ restores \in Known
           /\ \A a \in Assets :
                BlobOf(snapshots'[c][a]) = BlobOf(snapshots[restores][a])
  PROVE  Good
<1>. USE DEF IInv
<1>1. exists' = TRUE
  BY DEF EnsureRepo
<1>2. TypeOK'
  BY StoreTypes
<1>3. HistoryIsLineage' /\ HeadStep /\ GrowStep
  BY StoreHistory
<1>12. EnsuredBranches[name].head \in Known \cup {None}
  BY HeadKnown DEF Submittable
<1> DEFINE parent == EnsuredBranches[name].head
           record == NewRecord(name, base, status, restores)
<1>4. /\ parent \in Known \cup {None}
      /\ base = IF parent = None THEN Root ELSE parent
      /\ c \in Changesets \ Known
      /\ changesets' = Put(changesets, c, record)
      /\ record.parent = parent /\ record.base = base
      /\ record.restores = restores
  <2>1. record.parent = parent /\ record.base = base /\ record.restores = restores
    BY DEF NewRecord
  <2>2. parent \in Known \cup {None}
    BY <1>12
  <2>3. base = IF parent = None THEN Root ELSE parent
    BY DEF Submittable
  <2>4. c \in Changesets \ Known /\ changesets' = Put(changesets, c, record)
    BY DEF Store
  <2>. QED BY <2>1, <2>2, <2>3, <2>4
<1>. HIDE DEF record, parent
<1>5. /\ Known' = Known \cup {c} /\ changesets'[c] = record
      /\ \A d \in Known : changesets'[d] = changesets[d]
  BY <1>4 DEF Put, Known
<1>6. \A d \in Known : snapshots'[d] = snapshots[d]
  BY StoreFacts
<1>7. ParentsKnown' /\ RestoresKnown' /\ BaseIsParent'
  BY <1>4, <1>5 DEF ParentsKnown, RestoresKnown, BaseIsParent
<1>8. LineageDefined'
  BY <1>4, MarkersAreFresh, LineageDefinedExtended
<1>9. PlansAreDiffs'
  BY <1>5, <1>6, PlansKept
<1>10. RollbackRestoresContent'
  <2>1. SUFFICES ASSUME NEW d \in Known', changesets'[d].restores # None, NEW a \in Assets
                 PROVE  BlobOf(snapshots'[d][a])
                          = BlobOf(snapshots'[changesets'[d].restores][a])
    BY DEF RollbackRestoresContent
  <2>2. CASE d = c
    BY <2>1, <2>2, <1>4, <1>5, <1>6
  <2>3. CASE d # c
    BY <2>1, <2>3, <1>5, <1>6 DEF RollbackRestoresContent, RestoresKnown
  <2>. QED BY <2>2, <2>3
<1>11. GateStep
  BY <1>5 DEF GateStep, TypeOK, Record
<1>13. OnKnownBranch' /\ VisibleIffInOwnHistory'
  BY StoreVisible DEF Store, Submittable
<1>. QED BY <1>1, <1>2, <1>3, <1>7, <1>8, <1>9, <1>10, <1>11, <1>13
         DEF Good, NoBranchesBeforeRepo

LEMMA SubmitGood ==
  ASSUME IInv, NEW name, NEW base, NEW status \in {"draft", "visible"},
         NEW delta \in Delta, Submit(name, base, status, delta)
  PROVE  Good
<1>1. PICK c \in Changesets : Store(c, name, base, status, delta, None)
  BY DEF Submit
<1>2. EnsureRepo /\ Submittable(name, base) /\ plans' = plans
  BY DEF Submit
<1>3. plans' \in [Rollbacks -> Plan \cup {None}] /\ PlansShrink
  BY <1>2 DEF IInv, TypeOK, PlansShrink
<1>4. None \in Changesets \cup {None}
  OBVIOUS
<1>. QED BY <1>1, <1>2, <1>3, <1>4, StoreGood

\* What a delta made by the rollback handler does when it is applied to the
\* snapshot it was made from.
LEMMA RollbackDeltaRestores ==
  ASSUME NEW current, NEW target \in Snapshot, NEW a \in Assets
  PROVE  BlobOf(ApplyDelta(current, RollbackDelta(current, target))[a])
           = BlobOf(target[a])
<1>1. CASE BlobOf(current[a]) = BlobOf(target[a])
  BY <1>1 DEF ApplyDelta, RollbackDelta
<1>2. CASE BlobOf(current[a]) # BlobOf(target[a])
  <2>1. target[a] # Keep
    BY MarkersAreFresh DEF Snapshot, Entry
  <2>. QED BY <1>2, <2>1 DEF ApplyDelta, RollbackDelta
<1>. QED BY <1>1, <1>2

\* A rollback is accepted only on top of the head it was planned against, so the
\* snapshot its delta is applied to is the one the delta was made from.
LEMMA SubmitRollbackGood ==
  ASSUME IInv, NEW r \in Rollbacks, SubmitRollback(r)
  PROVE  Good
<1> DEFINE name == plans[r].branch
           base == plans[r].base
           target == plans[r].target
           delta == plans[r].delta
           all == EnsuredBranches
<1>1. PICK c \in Changesets : Store(c, name, base, "visible", delta, target)
  BY DEF SubmitRollback
<1>2. /\ plans[r] # None /\ EnsureRepo /\ Submittable(name, base)
      /\ plans' = [plans EXCEPT ![r] = None]
  BY DEF SubmitRollback
<1>3. /\ delta \in Delta /\ target \in Changesets /\ base \in Changesets
      /\ plans' \in [Rollbacks -> Plan \cup {None}] /\ PlansShrink
  <2>1. plans[r] \in Plan
    BY <1>2 DEF IInv, TypeOK
  <2>2. delta \in Delta /\ target \in Changesets /\ base \in Changesets
    BY <2>1 DEF Plan
  <2>3. plans' \in [Rollbacks -> Plan \cup {None}] /\ PlansShrink
    BY <1>2 DEF IInv, TypeOK, PlansShrink
  <2>. QED BY <2>2, <2>3
<1>4. /\ base \in Known /\ target \in Known
      /\ delta = RollbackDelta(snapshots[base], snapshots[target])
  BY <1>2 DEF IInv, PlansAreDiffs
<1>5. all[name].head = base
  BY <1>2, <1>3, MarkersAreFresh DEF Submittable
<1>6. snapshots' = Put(snapshots, c, ApplyDelta(SnapshotOf(all[name].head), delta))
  BY <1>1 DEF Store
<1>7. SnapshotOf(base) = snapshots[base]
  BY <1>4 DEF SnapshotOf, IInv, TypeOK
<1>8. snapshots'[c] = ApplyDelta(snapshots[base], delta)
  BY <1>5, <1>6, <1>7 DEF Put
<1>9. \A a \in Assets : BlobOf(snapshots'[c][a]) = BlobOf(snapshots[target][a])
  <2>1. snapshots[target] \in Snapshot
    BY <1>4 DEF IInv, TypeOK
  <2>. QED BY <1>4, <1>8, <2>1, RollbackDeltaRestores
<1>. HIDE DEF name, base, target, delta, all
<1>. QED BY <1>1, <1>2, <1>3, <1>4, <1>9, StoreGood

-----------------------------------------------------------------------------
(* The gate and the rollback requests. *)

LEMMA ApproveGood ==
  ASSUME IInv, NEW c \in Changesets, Approve(c)
  PROVE  Good
<1>. USE DEF IInv
<1>1. /\ c \in Known /\ changesets[c].status = "draft"
      /\ changesets' = [changesets EXCEPT ![c].status = "approved"]
      /\ exists' = exists /\ defaultBranch' = defaultBranch
      /\ branches' = branches /\ snapshots' = snapshots /\ plans' = plans
  BY DEF Approve
<1>2. /\ Known' = Known
      /\ \A d \in Known : /\ changesets'[d].parent = changesets[d].parent
                          /\ changesets'[d].base = changesets[d].base
                          /\ changesets'[d].restores = changesets[d].restores
      /\ \A d \in Known : changesets'[d].branch = changesets[d].branch
      /\ \A d \in Known : changesets'[d].status =
                            IF d = c THEN "approved" ELSE changesets[d].status
  BY <1>1 DEF Known, TypeOK, Record
<1>3. TypeOK'
  BY <1>1, <1>2 DEF TypeOK, Record, Known
<1>4. ParentsKnown' /\ RestoresKnown' /\ BaseIsParent' /\ NoBranchesBeforeRepo'
  BY <1>1, <1>2 DEF ParentsKnown, RestoresKnown, BaseIsParent, NoBranchesBeforeRepo
<1>5. LineageDefined'
  BY <1>2, LineageDefinedKept
<1>6. HistoryIsLineage'
  <2>1. SUFFICES ASSUME NEW b \in DOMAIN branches
                 PROVE  IF branches[b].head = None THEN branches[b].history = << >>
                        ELSE IsLineage(changesets', branches[b].history,
                                       branches[b].head)
    BY <1>1 DEF HistoryIsLineage
  <2>. QED BY <1>2, LineageKept DEF HistoryIsLineage, Known
<1>7. PlansAreDiffs'
  BY <1>1, <1>2, PlansKept DEF PlansShrink
<1>8. RollbackRestoresContent'
  BY <1>1, <1>2 DEF RollbackRestoresContent
<1>9. HeadStep /\ GrowStep
  <2>1. \A b \in DOMAIN branches : branches[b].history \in Seq(Changesets)
    BY DEF TypeOK, BranchState
  <2>. QED BY <1>1, <2>1, WholeSubSeq DEF HeadStep, GrowStep
<1>10. GateStep
  BY <1>1, <1>2 DEF GateStep, TypeOK, Record
<1>11. OnKnownBranch' /\ VisibleIffInOwnHistory'
  BY <1>1, <1>2 DEF OnKnownBranch, VisibleIffInOwnHistory
<1>. QED BY <1>3, <1>4, <1>5, <1>6, <1>7, <1>8, <1>9, <1>10, <1>11 DEF Good

\* Promote is given a base that equals the head, so the head is the parent; an
\* approved changeset is in no history of its branch, so it is appended.
LEMMA PromoteGood ==
  ASSUME IInv, NEW c \in Changesets, Promote(c)
  PROVE  Good
<1>. USE DEF IInv
<1> DEFINE name == changesets[c].branch
           old == branches[name]
           rest == DOMAIN branches \ {name}
<1>1. /\ c \in Known /\ changesets[c].status = "approved"
      /\ name \in DOMAIN branches /\ old.head = changesets[c].base
      /\ changesets' = [changesets EXCEPT ![c].status = "visible"]
      /\ exists' = exists /\ defaultBranch' = defaultBranch
      /\ snapshots' = snapshots /\ plans' = plans
  BY DEF Promote, Promotable
<1>2. /\ Known' = Known
      /\ \A d \in Known : /\ changesets'[d].parent = changesets[d].parent
                          /\ changesets'[d].base = changesets[d].base
                          /\ changesets'[d].restores = changesets[d].restores
      /\ \A d \in Known : changesets'[d].branch = changesets[d].branch
      /\ \A d \in Known : changesets'[d].status =
                            IF d = c THEN "visible" ELSE changesets[d].status
  BY <1>1 DEF Known, TypeOK, Record
<1>3. /\ old \in BranchState
      /\ \A b \in DOMAIN branches : branches[b].history \in Seq(Changesets)
  BY <1>1 DEF TypeOK, BranchState
<1>4. old.head # None /\ changesets[c].parent = old.head
  <2>1. changesets[c].base = IF changesets[c].parent = None THEN Root
                             ELSE changesets[c].parent
    BY <1>1 DEF BaseIsParent
  <2>2. old.head \in Changesets \cup {None}
    BY <1>3 DEF BranchState
  <2>. QED BY <2>1, <2>2, <1>1, MarkersAreFresh
<1>5. c \notin Elements(old.history)
  BY <1>1 DEF VisibleIffInOwnHistory
<1>6. /\ DOMAIN branches' = DOMAIN branches
      /\ branches'[name] = [head |-> c, history |-> Append(old.history, c)]
      /\ \A b \in rest : branches'[b] = branches[b]
      /\ branches' \in [DOMAIN branches' -> BranchState]
  <2>1. Append(old.history, c) \in Seq(Changesets)
    BY <1>1, <1>3, PrefixOfAppend
  <2>2. branches' = [branches EXCEPT ![name] =
                       [head |-> c, history |-> Append(old.history, c)]]
    BY <1>1, <1>5 DEF Promote
  <2>. QED BY <2>1, <2>2, <1>1 DEF TypeOK, BranchState
<1>7. /\ branches'[name].head = c
      /\ branches'[name].history = Append(old.history, c)
  <2>. HIDE DEF IInv, name, old, rest
  <2>1. branches'[name] = [head |-> c, history |-> Append(old.history, c)]
    BY <1>6
  <2>. QED BY <2>1, FieldsOfBranch
<1>8. TypeOK'
  <2>1. changesets[c] \in Record
    BY <1>1 DEF TypeOK, Known
  <2>2. [changesets[c] EXCEPT !.status = "visible"] \in Record
    BY <2>1 DEF Record
  <2>3. changesets' = [changesets EXCEPT ![c] = [changesets[c] EXCEPT !.status = "visible"]]
    BY <1>1
  <2>4. changesets' \in [Known' -> Record]
    BY <2>2, <2>3, <1>2 DEF TypeOK
  <2>5. DOMAIN branches' \subseteq Branches
    BY <1>6 DEF TypeOK
  <2>. QED BY <2>4, <2>5, <1>1, <1>2, <1>6 DEF TypeOK
<1>9. ParentsKnown' /\ RestoresKnown' /\ BaseIsParent' /\ NoBranchesBeforeRepo'
  BY <1>1, <1>2, <1>6
  DEF ParentsKnown, RestoresKnown, BaseIsParent, NoBranchesBeforeRepo
<1>10. LineageDefined'
  BY <1>2, LineageDefinedKept
<1>11. \A b \in DOMAIN branches :
         branches[b].head # None =>
           IsLineage(changesets', branches[b].history, branches[b].head)
  BY <1>2, LineageKept DEF HistoryIsLineage, Known
<1>12. IsLineage(changesets', Append(old.history, c), c)
  <2>1. IsLineage(changesets', old.history, changesets'[c].parent)
    BY <1>1, <1>2, <1>4, <1>11
  <2>. QED BY <2>1, <1>1, <1>2, LineageExtended DEF Known
<1>13. HistoryIsLineage'
  <2>1. SUFFICES ASSUME NEW b \in DOMAIN branches'
                 PROVE  IF branches'[b].head = None THEN branches'[b].history = << >>
                        ELSE IsLineage(changesets', branches'[b].history,
                                       branches'[b].head)
    BY DEF HistoryIsLineage
  <2>2. CASE b = name
    BY <2>2, <1>7, <1>12, MarkersAreFresh
  <2>3. CASE b # name
    BY <2>3, <1>6, <1>11 DEF HistoryIsLineage
  <2>. QED BY <2>2, <2>3
<1>14. OnKnownBranch' /\ VisibleIffInOwnHistory'
  <2>1. Elements(branches'[name].history) = Elements(old.history) \cup {c}
    BY <1>1, <1>3, <1>7, ElementsOfAppend
  <2>2. OnKnownBranch'
    BY <1>2, <1>6 DEF OnKnownBranch
  <2>3. SUFFICES ASSUME NEW d \in Known
                 PROVE  (changesets'[d].status = "visible")
                          <=> d \in Elements(branches'[changesets[d].branch].history)
    BY <2>2, <1>2 DEF VisibleIffInOwnHistory
  <2>4. CASE d = c
    BY <2>1, <2>4, <1>2
  <2>5. CASE d # c /\ changesets[d].branch = name
    BY <2>1, <2>5, <1>2 DEF VisibleIffInOwnHistory
  <2>6. CASE d # c /\ changesets[d].branch # name
    BY <2>6, <1>2, <1>6 DEF VisibleIffInOwnHistory, OnKnownBranch
  <2>. QED BY <2>4, <2>5, <2>6
<1>15. PlansAreDiffs'
  BY <1>1, <1>2, PlansKept DEF PlansShrink
<1>16. RollbackRestoresContent'
  BY <1>1, <1>2 DEF RollbackRestoresContent
<1>17. HeadStep
  BY <1>1, <1>2, <1>4, <1>6, <1>7 DEF HeadStep
<1>18. GrowStep
  <2>1. /\ Len(old.history) <= Len(Append(old.history, c))
        /\ SubSeq(Append(old.history, c), 1, Len(old.history)) = old.history
    BY <1>1, <1>3, PrefixOfAppend
  <2>2. \A b \in rest :
          /\ Len(branches[b].history) <= Len(branches'[b].history)
          /\ SubSeq(branches'[b].history, 1, Len(branches[b].history))
               = branches[b].history
    BY <1>3, <1>6, WholeSubSeq
  <2>. QED BY <2>1, <2>2, <1>6, <1>7 DEF GrowStep
<1>19. GateStep
  BY <1>1, <1>2 DEF GateStep, TypeOK, Record
<1>. QED BY <1>8, <1>9, <1>10, <1>13, <1>14, <1>15, <1>16, <1>17, <1>18, <1>19 DEF Good

\* A step that changes at most the plans, and leaves each one well formed.
LEMMA PlansStepGood ==
  ASSUME IInv, UNCHANGED <<exists, defaultBranch, branches, changesets, snapshots>>,
         plans' \in [Rollbacks -> Plan \cup {None}], PlansAreDiffs'
  PROVE  Good
<1>. USE DEF IInv
<1>1. TypeOK'
  BY DEF TypeOK, Known
<1>2. /\ HistoryIsLineage' /\ OnKnownBranch' /\ VisibleIffInOwnHistory'
      /\ HeadStep /\ GrowStep /\ GateStep
  BY BranchesAdded DEF HistoryIsLineage
<1>. QED BY <1>1, <1>2, RecordsKept DEF Good, NoBranchesBeforeRepo

LEMMA PlanRollbackGood ==
  ASSUME IInv, NEW r \in Rollbacks, NEW name \in Branches, NEW target \in Changesets,
         PlanRollback(r, name, target)
  PROVE  Good
<1> DEFINE base == branches[name].head
           plan == [ branch |-> name, base |-> base, target |-> target,
                     delta |-> RollbackDelta(SnapshotOf(base), snapshots[target]) ]
<1>1. /\ name \in DOMAIN branches /\ base \notin {None, target}
      /\ target \in DOMAIN snapshots
      /\ plans' = [plans EXCEPT ![r] = plan]
      /\ UNCHANGED <<exists, defaultBranch, branches, changesets, snapshots>>
  BY DEF PlanRollback, RollbackTarget
<1>2. DOMAIN snapshots = Known /\ Known \subseteq Changesets
  BY DEF IInv, TypeOK
<1>3. base \in Known
  <2>1. IsLineage(changesets, branches[name].history, base)
    BY <1>1 DEF IInv, HistoryIsLineage
  <2>. QED BY <2>1 DEF IsLineage, Known
<1>4. SnapshotOf(base) = snapshots[base] /\ snapshots[base] \in Snapshot
      /\ snapshots[target] \in Snapshot
  BY <1>1, <1>2, <1>3 DEF SnapshotOf, IInv, TypeOK
<1>5. RollbackDelta(snapshots[base], snapshots[target]) \in Delta
  BY <1>4 DEF RollbackDelta, Delta, Snapshot
<1>6. plan \in Plan
  BY <1>1, <1>2, <1>3, <1>4, <1>5 DEF Plan
<1>7. /\ plan.base \in Known /\ plan.target \in Known
      /\ plan.delta = RollbackDelta(snapshots[plan.base], snapshots[plan.target])
  BY <1>1, <1>2, <1>3, <1>4
<1>. HIDE DEF plan
<1>8. plans' \in [Rollbacks -> Plan \cup {None}] /\ PlansAreDiffs'
  BY <1>1, <1>6, <1>7 DEF IInv, TypeOK, PlansAreDiffs, Known
<1>. QED BY <1>1, <1>8, PlansStepGood

LEMMA RejectRollbackGood ==
  ASSUME IInv, NEW r \in Rollbacks, RejectRollback(r)
  PROVE  Good
<1>1. UNCHANGED <<exists, defaultBranch, branches, changesets, snapshots>>
  BY DEF RejectRollback
<1>2. plans' \in [Rollbacks -> Plan \cup {None}] /\ PlansAreDiffs'
  BY DEF RejectRollback, IInv, TypeOK, PlansAreDiffs, Known
<1>. QED BY <1>1, <1>2, PlansStepGood

-----------------------------------------------------------------------------
(* The theorems. *)

LEMMA InitIInv == Init => IInv
<1>. SUFFICES ASSUME Init PROVE IInv
  OBVIOUS
<1>1. Known = {} /\ DOMAIN branches = {} /\ DOMAIN snapshots = {}
  BY DEF Init, Known
<1>2. TypeOK
  BY <1>1, MainIsABranch DEF Init, TypeOK, Known
<1>3. LineageDefined
  <2> DEFINE f == [c \in {} |-> None]
  <2>1. Solves(f, changesets)
    BY <1>1 DEF Solves, Known
  <2>2. \A g : Solves(g, changesets) => g = f
    BY <1>1 DEF Solves, Known
  <2>. QED BY <2>1, <2>2, <1>1 DEF LineageDefined
<1>4. PlansAreDiffs
  BY DEF Init, PlansAreDiffs
<1>. QED BY <1>1, <1>2, <1>3, <1>4
         DEF IInv, NoBranchesBeforeRepo, ParentsKnown, RestoresKnown, BaseIsParent,
             HistoryIsLineage, OnKnownBranch, VisibleIffInOwnHistory,
             RollbackRestoresContent

LEMMA NextGood == IInv /\ [Next]_vars => Good
<1>. SUFFICES ASSUME IInv, [Next]_vars PROVE Good
  OBVIOUS
<1>1. ASSUME NEW name \in Branches, CreateRepo(name) PROVE Good
  BY <1>1, CreateRepoGood
<1>2. ASSUME NEW name \in Branches, NEW from \in Changesets \cup {None},
             CreateBranch(name, from)
      PROVE  Good
  BY <1>2, CreateBranchGood
<1>3. ASSUME NEW name \in Branches, NEW from \in Changesets \cup {None},
             RejectCreateBranch(name, from)
      PROVE  Good
  BY <1>3, RejectGood DEF RejectCreateBranch
<1>4. ASSUME NEW name \in Branches, NEW base \in Changesets \cup {None, Root},
             RejectSubmit(name, base)
      PROVE  Good
  BY <1>4, RejectGood DEF RejectSubmit
<1>5. ASSUME NEW name \in Branches, NEW base \in Changesets \cup {None, Root},
             NEW status \in {"draft", "visible"}, NEW delta \in Delta,
             Submit(name, base, status, delta)
      PROVE  Good
  BY <1>5, SubmitGood
<1>6. ASSUME NEW c \in Changesets, Approve(c) PROVE Good
  BY <1>6, ApproveGood
<1>7. ASSUME NEW c \in Changesets, Promote(c) PROVE Good
  BY <1>7, PromoteGood
<1>8. ASSUME NEW r \in Rollbacks, NEW name \in Branches, NEW target \in Changesets,
             PlanRollback(r, name, target)
      PROVE  Good
  BY <1>8, PlanRollbackGood
<1>9. ASSUME NEW r \in Rollbacks, SubmitRollback(r) PROVE Good
  BY <1>9, SubmitRollbackGood
<1>10. ASSUME NEW r \in Rollbacks, RejectRollback(r) PROVE Good
  BY <1>10, RejectRollbackGood
<1>11. CASE UNCHANGED vars
  <2>1. plans' \in [Rollbacks -> Plan \cup {None}] /\ PlansAreDiffs'
    BY <1>11 DEF vars, IInv, TypeOK, PlansAreDiffs, Known
  <2>. QED BY <1>11, <2>1, PlansStepGood DEF vars
<1>. QED BY <1>1, <1>2, <1>3, <1>4, <1>5, <1>6, <1>7, <1>8, <1>9, <1>10, <1>11
         DEF Next

LEMMA Invariance == Spec => []IInv
<1>1. IInv /\ [Next]_vars => IInv'
  BY NextGood DEF Good
<1>. QED BY InitIInv, <1>1, PTL DEF Spec

\* Every reachable state is well typed.
THEOREM TypeCorrect == Spec => []TypeOK
<1>1. IInv => TypeOK
  BY DEF IInv
<1>. QED BY Invariance, <1>1, PTL

\* Whatever is submitted, promoted, rolled back or branched, in any order, the
\* history kept with a branch is the chain of parents of its head: what
\* create_branch and a reload from the database would compute.
THEOREM HistoriesAreLineages == Spec => []HistoryIsLineage
<1>1. IInv => HistoryIsLineage
  BY DEF IInv
<1>. QED BY Invariance, <1>1, PTL

\* Visible changesets are exactly those in the history of their own branch.
THEOREM VisibleMeansInHistory == Spec => []VisibleIffInOwnHistory
<1>1. IInv => VisibleIffInOwnHistory
  BY DEF IInv
<1>. QED BY Invariance, <1>1, PTL

\* An accepted rollback restores the content of its target, however many other
\* requests ran between its plan and its submission.
THEOREM RollbacksRestoreContent == Spec => []RollbackRestoresContent
<1>1. IInv => RollbackRestoresContent
  BY DEF IInv
<1>. QED BY Invariance, <1>1, PTL

\* A head is only replaced by a changeset whose parent it is.
THEOREM StaleWorkIsRejected == Spec => HeadMovesToItsChild
<1>1. IInv /\ [Next]_vars => [HeadStep]_vars
  BY NextGood DEF Good
<1>. QED BY Invariance, <1>1, PTL DEF Spec, HeadMovesToItsChild, HeadStep

\* Histories are only appended to and branches never disappear.
THEOREM HistoriesAreAppendOnly == Spec => HistoryOnlyGrows
<1>1. IInv /\ [Next]_vars => [GrowStep]_vars
  BY NextGood DEF Good
<1>. QED BY Invariance, <1>1, PTL DEF Spec, HistoryOnlyGrows, GrowStep

\* A changeset moves from draft to approved to visible and nowhere else.
THEOREM GateIsPassedInOrder == Spec => GateIsNotSkipped
<1>1. IInv /\ [Next]_vars => [GateStep]_vars
  BY NextGood DEF Good
<1>. QED BY Invariance, <1>1, PTL DEF Spec, GateIsNotSkipped, GateStep

-----------------------------------------------------------------------------
(* What users see: the timeline. *)

\* A rollback's target is in the history of its branch, which is why what was
\* planned is still a restoration when it is submitted.
PlansNameTheirLine ==
  \A r \in Rollbacks :
    plans[r] # None =>
      /\ plans[r].branch \in DOMAIN branches
      /\ plans[r].target \in Elements(branches[plans[r].branch].history)

\* The default branch comes with the repository, so an operation that has to make
\* it finds no other.
DefaultIsABranch == exists => defaultBranch \in DOMAIN branches

ShownInv == IInv /\ PlansNameTheirLine /\ DefaultIsABranch

\* What a longer history has of a shorter one.
LEMMA ElementsOfLonger ==
  ASSUME NEW S, NEW s \in Seq(S), NEW t \in Seq(S), Len(s) <= Len(t),
         SubSeq(t, 1, Len(s)) = s
  PROVE  Elements(s) \subseteq Elements(t)
<1>1. Len(s) \in Nat /\ Len(t) \in Nat
  OBVIOUS
<1>2. ASSUME NEW i \in 1..Len(s) PROVE s[i] = t[i] /\ i \in 1..Len(t)
  <2>1. SubSeq(t, 1, Len(s))[i] = t[i]
    BY <1>1
  <2>. QED BY <1>1, <2>1
<1>. QED BY <1>2 DEF Elements

\* A step that keeps the plans there are, or gives some up, keeps them true.
LEMMA PlansStayOnTheirLine ==
  ASSUME IInv, IInv', PlansNameTheirLine, GrowStep, PlansShrink
  PROVE  PlansNameTheirLine'
<1>1. SUFFICES ASSUME NEW r \in Rollbacks, plans'[r] # None
               PROVE  /\ plans'[r].branch \in DOMAIN branches'
                      /\ plans'[r].target \in Elements(branches'[plans'[r].branch].history)
  BY DEF PlansNameTheirLine, Elements
<1>2. PICK b, target : /\ b = plans[r].branch /\ target = plans[r].target
                       /\ plans'[r].branch = b /\ plans'[r].target = target
  BY <1>1 DEF PlansShrink
<1>3. b \in DOMAIN branches /\ target \in Elements(branches[b].history)
  BY <1>1, <1>2 DEF PlansShrink, PlansNameTheirLine
<1>4. b \in DOMAIN branches'
  BY <1>3 DEF GrowStep
<1>5. branches[b].history \in Seq(Changesets)
  BY <1>3 DEF IInv, TypeOK, BranchState
<1>6. branches'[b].history \in Seq(Changesets)
  BY <1>4 DEF IInv, TypeOK, BranchState
<1>7. /\ Len(branches[b].history) <= Len(branches'[b].history)
      /\ SubSeq(branches'[b].history, 1, Len(branches[b].history)) = branches[b].history
  BY <1>3 DEF GrowStep
<1>8. Elements(branches[b].history) \subseteq Elements(branches'[b].history)
  BY <1>5, <1>6, <1>7, ElementsOfLonger
<1>. QED BY <1>2, <1>3, <1>4, <1>8

\* Only a new plan has to be looked at: its target was just checked.
LEMMA PlansNameTheirLineStep ==
  ASSUME IInv, IInv', PlansNameTheirLine, GrowStep, [Next]_vars
  PROVE  PlansNameTheirLine'
<1>1. ASSUME NEW r \in Rollbacks, NEW name \in Branches, NEW target \in Changesets,
             PlanRollback(r, name, target)
      PROVE  PlansNameTheirLine'
  <2>1. /\ name \in DOMAIN branches /\ target \in Elements(branches[name].history)
        /\ branches' = branches
    BY <1>1 DEF PlanRollback, RollbackTarget
  <2>2. PICK plan : /\ plan.branch = name /\ plan.target = target
                    /\ plans' = [plans EXCEPT ![r] = plan]
    BY <1>1 DEF PlanRollback
  <2>3. \A q \in Rollbacks \ {r} : plans'[q] = plans[q]
    BY <2>2 DEF IInv, TypeOK
  <2>4. plans'[r] = plan
    BY <2>2 DEF IInv, TypeOK
  <2>. QED BY <2>1, <2>2, <2>3, <2>4 DEF PlansNameTheirLine, Elements
<1>2. CASE PlansShrink
  BY <1>2, PlansStayOnTheirLine
<1>3. PlansShrink \/ \E r \in Rollbacks, name \in Branches, target \in Changesets :
                       PlanRollback(r, name, target)
  <2>1. CASE plans' = plans
    BY <2>1 DEF PlansShrink
  <2>2. ASSUME NEW r \in Rollbacks, SubmitRollback(r) \/ RejectRollback(r)
        PROVE  PlansShrink
    <3>1. plans' = [plans EXCEPT ![r] = None]
      BY <2>2 DEF SubmitRollback, RejectRollback
    <3>. QED BY <3>1 DEF PlansShrink, IInv, TypeOK
  <2>3. CASE Next
    BY <2>1, <2>2, <2>3
    DEF Next, CreateRepo, CreateBranch, RejectCreateBranch, RejectSubmit, Submit, Approve, Promote
  <2>. QED BY <2>1, <2>3 DEF vars
<1>. QED BY <1>1, <1>2, <1>3

LEMMA DefaultIsABranchStep ==
  ASSUME IInv, GrowStep, DefaultIsABranch, [Next]_vars
  PROVE  DefaultIsABranch'
<1>1. ASSUME DOMAIN EnsuredBranches \subseteq DOMAIN branches', EnsureRepo
      PROVE  DefaultIsABranch'
  BY <1>1, EnsuredFacts DEF IInv, EnsureRepo, DefaultIsABranch
<1>2. ASSUME exists' = exists, defaultBranch' = defaultBranch
      PROVE  DefaultIsABranch'
  BY <1>2 DEF DefaultIsABranch, GrowStep
<1>3. ASSUME NEW name \in Branches, CreateRepo(name)
      PROVE  DefaultIsABranch'
  BY <1>3 DEF CreateRepo, DefaultIsABranch
<1>4. ASSUME NEW name \in Branches, NEW from \in Changesets \cup {None}, CreateBranch(name, from)
      PROVE  DefaultIsABranch'
  BY <1>4, <1>1 DEF CreateBranch, Put
<1>5. ASSUME branches' = EnsuredBranches, EnsureRepo
      PROVE  DefaultIsABranch'
  BY <1>5, <1>1
<1>6. ASSUME NEW c, NEW name, NEW base, NEW status, NEW delta, NEW restores,
             Store(c, name, base, status, delta, restores), EnsureRepo
      PROVE  DefaultIsABranch'
  BY <1>6, <1>1 DEF Store, AdvanceHead
<1>7. ASSUME NEW name \in Branches, NEW base \in Changesets \cup {None, Root},
             NEW status \in {"draft", "visible"}, NEW delta \in Delta, Submit(name, base, status, delta)
      PROVE  DefaultIsABranch'
  BY <1>7, <1>6 DEF Submit
<1>8. ASSUME NEW r \in Rollbacks, SubmitRollback(r)
      PROVE  DefaultIsABranch'
  BY <1>8, <1>6 DEF SubmitRollback
<1>9. CASE Next
  BY <1>9, <1>2, <1>3, <1>4, <1>5, <1>7, <1>8
  DEF Next, RejectCreateBranch, RejectSubmit, Approve, Promote, PlanRollback, RejectRollback
<1>. QED BY <1>2, <1>9 DEF vars

LEMMA ShownInvariance == Spec => []ShownInv
<1>1. Init => ShownInv
  BY InitIInv DEF Init, ShownInv, PlansNameTheirLine, DefaultIsABranch
<1>2. ShownInv /\ [Next]_vars => ShownInv'
  BY NextGood, PlansNameTheirLineStep, DefaultIsABranchStep DEF ShownInv, Good
<1>. QED BY <1>1, <1>2, PTL DEF Spec

\* What ends a branch's line is its head.
LEMMA EndIsHead ==
  ASSUME IInv, NEW b \in DOMAIN EnsuredBranches
  PROVE  Shown!End(EnsuredBranches[b].history) = EnsuredBranches[b].head
<1> DEFINE all == EnsuredBranches
<1>1. IF all[b].head = None THEN all[b].history = << >>
      ELSE IsLineage(changesets, all[b].history, all[b].head)
  BY EnsuredFacts DEF IInv
<1>. HIDE DEF all
<1>2. Shown!End(all[b].history) = all[b].head
  BY <1>1 DEF Shown!End, IsLineage
<1>. QED BY <1>2 DEF all

\* The lines an operation of the code finds are those one of Timeline may find.
LEMMA EnsuredLines ==
  ASSUME ShownInv
  PROVE  LinesOf(EnsuredBranches) \in Shown!Lines
<1>1. CASE defaultBranch \in DOMAIN branches
  BY <1>1 DEF EnsuredBranches, Line, Shown!Lines
<1>2. CASE defaultBranch \notin DOMAIN branches
  <2>1. DOMAIN branches = {} /\ defaultBranch \in Branches
    BY <1>2 DEF ShownInv, IInv, NoBranchesBeforeRepo, DefaultIsABranch, TypeOK
  <2>2. EnsuredBranches = [x \in {defaultBranch} |-> NewBranch]
    BY <1>2, <2>1 DEF EnsuredBranches, Put
  <2>3. LinesOf(EnsuredBranches) = [x \in {defaultBranch} |-> << >>]
    BY <2>2 DEF LinesOf, NewBranch
  <2>4. DOMAIN Line = {}
    BY <2>1 DEF Line, LinesOf
  <2>. QED BY <2>1, <2>3, <2>4 DEF Shown!Lines, Shown!FirstLines
<1>. QED BY <1>1, <1>2

ShownStep == [Shown!Next]_<<Line, Made, Approved>>

\* A step that finds or begins the default branch and does no more.
LEMMA OpenIsShown ==
  ASSUME ShownInv, branches' = EnsuredBranches \/ branches' = branches,
         changesets' = changesets, snapshots' = snapshots
  PROVE  ShownStep
<1>1. Made' = Made /\ Approved' = Approved
  BY DEF Made, Approved, Known, Seen, SnapshotOf
<1>2. Line' \in Shown!Lines
  <2>1. CASE branches' = EnsuredBranches
    BY <2>1, EnsuredLines DEF Line, LinesOf
  <2>2. CASE branches' = branches
    BY <2>2 DEF Line, Shown!Lines
  <2>. QED BY <2>1, <2>2
<1>3. Shown!Open
  BY <1>1, <1>2 DEF Shown!Open
<1>. QED BY <1>3 DEF ShownStep, Shown!Next

\* Creating the repository makes its first branch.
LEMMA CreateRepoIsShown ==
  ASSUME ShownInv, NEW name \in Branches, CreateRepo(name)
  PROVE  ShownStep
<1>1. Made' = Made /\ Approved' = Approved
  BY DEF CreateRepo, Made, Approved, Known, Seen, SnapshotOf
<1>2. DOMAIN Line = {}
  BY DEF CreateRepo, ShownInv, IInv, NoBranchesBeforeRepo, Line, LinesOf
<1>3. Line' = [x \in {name} |-> << >>]
  BY DEF CreateRepo, NewBranch, Line, LinesOf
<1>4. Shown!Open
  BY <1>1, <1>2, <1>3 DEF Shown!Open, Shown!Lines, Shown!FirstLines
<1>. QED BY <1>4 DEF ShownStep, Shown!Next

\* The history of a branch is a line as users see it.
LEMMA LineageIsLine ==
  ASSUME IInv, NEW s, NEW c, IsLineage(changesets, s, c)
  PROVE  Shown!IsLine(s)
<1>1. DOMAIN Made = Known /\ \A d \in Known : Made[d].after = changesets[d].parent
  BY DEF Made, Seen
<1>2. s \in Seq(Known) /\ s # << >> /\ changesets[s[1]].parent = None
      /\ \A i \in 1..(Len(s) - 1) : changesets[s[i + 1]].parent = s[i]
  BY DEF IsLineage, Known
<1>3. Len(s) \in Nat /\ Len(s) > 0 /\ \A i \in 1..Len(s) : s[i] \in Known
  BY <1>2
<1>4. Made[s[1]].after = None
  BY <1>1, <1>2, <1>3
<1>5. ASSUME NEW i \in 1..(Len(s) - 1) PROVE Made[s[i + 1]].after = s[i]
  <2>1. s[i + 1] \in Known
    BY <1>3
  <2>. QED BY <2>1, <1>1, <1>2
<1>. QED BY <1>1, <1>2, <1>4, <1>5 DEF Shown!IsLine

\* A new branch begins as a line.
LEMMA CreateBranchIsShown ==
  ASSUME ShownInv, IInv', NEW name \in Branches, NEW from, CreateBranch(name, from)
  PROVE  ShownStep
<1> DEFINE all == EnsuredBranches
           lines == LinesOf(all)
<1>1. Made' = Made /\ Approved' = Approved /\ changesets' = changesets
  BY DEF CreateBranch, Made, Approved, Known, Seen, SnapshotOf
<1>2. PICK start : branches' = Put(all, name, start) /\ name \notin DOMAIN all
  BY DEF CreateBranch, BranchCreatable
<1>3. lines \in Shown!Lines /\ DOMAIN lines = DOMAIN all
  BY EnsuredLines DEF LinesOf
<1>. HIDE DEF all
<1>4. /\ DOMAIN branches' = DOMAIN all \cup {name}
      /\ \A x \in DOMAIN all : branches'[x] = all[x]
  BY <1>2 DEF Put
<1>5. Line' = [x \in DOMAIN branches' |-> branches'[x].history]
  BY DEF Line, LinesOf
<1>6. /\ DOMAIN Line' = DOMAIN lines \cup {name} /\ Line'[name] = branches'[name].history
      /\ \A x \in DOMAIN lines : Line'[x] = lines[x]
  BY <1>3, <1>4, <1>5 DEF LinesOf
<1>7. Shown!IsLine(branches'[name].history)
  <2>1. IF branches'[name].head = None THEN branches'[name].history = << >>
        ELSE IsLineage(changesets, branches'[name].history, branches'[name].head)
    BY <1>1, <1>4 DEF IInv, HistoryIsLineage
  <2>2. CASE branches'[name].head = None
    BY <2>1, <2>2 DEF Shown!IsLine
  <2>3. PICK s, c : s = branches'[name].history /\ c = branches'[name].head
    OBVIOUS
  <2>4. CASE branches'[name].head # None
    BY <2>1, <2>3, <2>4, LineageIsLine DEF ShownInv
  <2>. QED BY <2>2, <2>4
<1>. HIDE DEF lines
<1>8. Line' = [x \in DOMAIN lines \cup {name} |-> IF x = name THEN Line'[name] ELSE lines[x]]
  <2>1. name \notin DOMAIN lines
    BY <1>2, <1>3
  <2>. QED BY <2>1, <1>5, <1>6
<1>9. Shown!Begin(lines, name)
  BY <1>1, <1>2, <1>3, <1>6, <1>7, <1>8 DEF Shown!Begin
<1>. QED BY <1>3, <1>9 DEF ShownStep, Shown!Next

\* Putting a changeset after the head of a branch extends its line.
LEMMA AdvanceExtends ==
  ASSUME NEW all, NEW name \in DOMAIN all, NEW c
  PROVE  LinesOf(AdvanceHead(all, name, c)) = Shown!Extended(LinesOf(all), name, c)
BY DEF LinesOf, AdvanceHead, Shown!Extended

\* What users see of a changeset changes with its record and its snapshot only.
LEMMA SeenIsKept ==
  ASSUME NEW d \in Known, d \in Known', IInv, IInv',
         changesets'[d].branch = changesets[d].branch,
         changesets'[d].parent = changesets[d].parent,
         changesets'[d].restores = changesets[d].restores,
         snapshots'[d] = snapshots[d]
  PROVE  Seen(d)' = Seen(d)
<1>1. SnapshotOf(d) = snapshots[d]
  BY DEF SnapshotOf, IInv, TypeOK
<1>2. SnapshotOf(d)' = snapshots'[d]
  BY DEF SnapshotOf, IInv, TypeOK
<1>. QED BY <1>1, <1>2 DEF Seen

\* An accepted submission makes one changeset, of the end its author saw, and
\* puts it there if it is not a draft.
LEMMA StoreIsShown ==
  ASSUME ShownInv, IInv',
         NEW c, NEW name, NEW base, NEW status \in {"draft", "visible"},
         NEW delta \in Delta, NEW restores \in Changesets \cup {None},
         Submittable(name, base),
         Store(c, name, base, status, delta, restores),
         status = "draft" => restores = None,
         restores # None =>
           /\ restores \in Known
           /\ restores \in Elements(EnsuredBranches[name].history)
           /\ \A a \in Assets :
                BlobOf(snapshots'[c][a]) = BlobOf(snapshots[restores][a])
  PROVE  ShownStep
<1> DEFINE all == EnsuredBranches
           lines == LinesOf(all)
           content == [a \in Assets |-> BlobOf(snapshots'[c][a])]
<1>1. PICK record :
        /\ record.branch = name /\ record.parent = all[name].head
        /\ record.status = status /\ record.restores = restores
        /\ c \in Changesets \ Known /\ changesets' = Put(changesets, c, record)
  BY DEF Store, NewRecord
<1>2. /\ Known' = Known \cup {c} /\ changesets'[c] = record
      /\ \A d \in Known : changesets'[d] = changesets[d]
  BY <1>1 DEF Put, Known
<1>3. /\ \A d \in Known : snapshots'[d] = snapshots[d]
      /\ SnapshotOf(c)' = snapshots'[c]
      /\ snapshots'[c] \in Snapshot
  <2>1. DOMAIN snapshots = Known /\ DOMAIN snapshots' = Known' /\ snapshots' \in [Known' -> Snapshot]
    BY DEF ShownInv, IInv, TypeOK
  <2>2. PICK snapshot : snapshots' = Put(snapshots, c, snapshot)
    BY DEF Store
  <2>3. \A d \in Known : snapshots'[d] = snapshots[d]
    BY <2>1, <2>2, <1>1 DEF Put
  <2>. QED BY <2>1, <2>3, <1>2 DEF SnapshotOf
<1>4. name \in DOMAIN lines /\ lines[name] = all[name].history /\ name \in Branches
      /\ lines \in Shown!Lines /\ Shown!End(lines[name]) = all[name].head
  BY EndIsHead, EnsuredLines, EnsuredFacts DEF Submittable, LinesOf, ShownInv, IInv
<1>5. PICK x : x = content
  OBVIOUS
<1>6. x \in [Assets -> Blobs \cup {None}]
  <2>1. \A a \in Assets : BlobOf(snapshots'[c][a]) \in Blobs \cup {None}
    BY <1>3 DEF Snapshot, Entry, BlobOf
  <2>. QED BY <2>1, <1>5
<1>7. Seen(c)' = [ branch |-> name, after |-> all[name].head, content |-> x, restores |-> restores ]
  BY <1>1, <1>2, <1>3, <1>5 DEF Seen
<1>8. \A d \in Known : Seen(d)' = Seen(d)
  BY <1>2, <1>3, SeenIsKept DEF ShownInv
<1>9. Approved' = Approved
  BY <1>1, <1>2 DEF Approved
<1>10. restores # None =>
         restores \in Shown!Members(lines[name]) /\ x = Made[restores].content
  <2>1. SUFFICES ASSUME restores # None
                 PROVE  restores \in Shown!Members(lines[name]) /\ x = Made[restores].content
    OBVIOUS
  <2>2. restores \in Known /\ restores \in Elements(all[name].history)
    BY <2>1
  <2>3. restores \in Shown!Members(lines[name])
    BY <2>2, <1>4 DEF Shown!Members, Elements
  <2>4. Made[restores].content = [a \in Assets |-> BlobOf(SnapshotOf(restores)[a])]
    BY <2>2 DEF Made, Seen
  <2>5. SnapshotOf(restores) = snapshots[restores]
    BY <2>2 DEF SnapshotOf, ShownInv, IInv, TypeOK
  <2>. QED BY <2>1, <2>3, <2>4, <2>5, <1>5
<1>. HIDE DEF lines, content, all
<1>11. Made' = [d \in DOMAIN Made \cup {c} |->
                  IF d = c THEN [ branch |-> name, after |-> Shown!End(lines[name]),
                                  content |-> x, restores |-> restores ]
                  ELSE Made[d]]
  <2>1. DOMAIN Made = Known /\ \A d \in Known : Made[d] = Seen(d)
    BY DEF Made
  <2>2. Made' = [d \in Known' |-> Seen(d)']
    BY DEF Made
  <2>. QED BY <2>1, <2>2, <1>1, <1>2, <1>4, <1>7, <1>8
<1>12. Shown!Make(lines, name, c, x, restores)
  <2>1. DOMAIN Made = Known
    BY DEF Made
  <2>. QED BY <2>1, <1>1, <1>9, <1>10, <1>11 DEF Shown!Make
<1>13. CASE status = "draft"
  <2>1. Line' = lines
    BY <1>13 DEF Store, Line, lines, all
  <2>2. Shown!Draft(lines, name, c, x)
    BY <2>1, <1>12, <1>13 DEF Shown!Draft
  <2>. QED BY <2>2, <1>1, <1>4, <1>6 DEF ShownStep, Shown!Next
<1>14. CASE status = "visible"
  <2>1. branches' = AdvanceHead(all, name, c) /\ name \in DOMAIN all
    BY <1>14, <1>4 DEF Store, all, lines, LinesOf
  <2>2. Line' = Shown!Extended(lines, name, c)
    BY <2>1, AdvanceExtends DEF Line, LinesOf, lines
  <2>3. Shown!Submit(lines, name, c, x, restores)
    BY <2>2, <1>12 DEF Shown!Submit
  <2>. QED BY <2>3, <1>1, <1>4, <1>6 DEF ShownStep, Shown!Next
<1>. QED BY <1>13, <1>14

LEMMA SubmitIsShown ==
  ASSUME ShownInv, IInv', NEW name, NEW base, NEW status \in {"draft", "visible"},
         NEW delta \in Delta, Submit(name, base, status, delta)
  PROVE  ShownStep
<1>1. PICK c \in Changesets : Store(c, name, base, status, delta, None)
  BY DEF Submit
<1>2. Submittable(name, base)
  BY DEF Submit
<1>. QED BY <1>1, <1>2, StoreIsShown

\* The content an accepted rollback makes is that of its target, which is still
\* in the history of the branch.
LEMMA SubmitRollbackIsShown ==
  ASSUME ShownInv, IInv', NEW r \in Rollbacks, SubmitRollback(r)
  PROVE  ShownStep
<1>1. PICK name, base, target, delta :
        /\ name = plans[r].branch /\ base = plans[r].base
        /\ target = plans[r].target /\ delta = plans[r].delta
  OBVIOUS
<1>2. PICK c \in Changesets : Store(c, name, base, "visible", delta, target)
  BY <1>1 DEF SubmitRollback
<1>3. plans[r] \in Plan /\ Submittable(name, base)
  BY <1>1 DEF SubmitRollback, ShownInv, IInv, TypeOK
<1>4. delta \in Delta /\ target \in Changesets
  BY <1>1, <1>3 DEF Plan
<1>5. /\ name \in DOMAIN branches /\ target \in Elements(branches[name].history)
      /\ target \in Known
  BY <1>1, <1>3 DEF ShownInv, IInv, PlansNameTheirLine, PlansAreDiffs, SubmitRollback
<1>6. target \in Elements(EnsuredBranches[name].history)
  BY <1>5, EnsuredFacts DEF ShownInv, IInv
<1>7. changesets'[c].restores = target /\ c \in Known'
  BY <1>2 DEF Store, Put, NewRecord, Known
<1>8. \A d \in Known : snapshots'[d] = snapshots[d]
  BY <1>2, <1>3, <1>4, StoreFacts DEF ShownInv, IInv
<1>9. ASSUME NEW a \in Assets
      PROVE  BlobOf(snapshots'[c][a]) = BlobOf(snapshots[target][a])
  <2>1. target # None
    BY <1>4, MarkersAreFresh
  <2>. QED BY <2>1, <1>5, <1>7, <1>8 DEF IInv, RollbackRestoresContent
<1>. QED BY <1>2, <1>3, <1>4, <1>5, <1>6, <1>9, StoreIsShown

\* An approval changes what users see of no changeset.
LEMMA ApproveIsShown ==
  ASSUME ShownInv, IInv', NEW c \in Changesets, Approve(c)
  PROVE  ShownStep
<1>1. /\ c \in Known /\ changesets[c].status = "draft" /\ branches' = branches
      /\ changesets' = [changesets EXCEPT ![c].status = "approved"] /\ snapshots' = snapshots
  BY DEF Approve
<1>2. /\ Known' = Known /\ changesets'[c].status = "approved"
      /\ \A d \in Known \ {c} : changesets'[d].status = changesets[d].status
      /\ \A d \in Known : /\ changesets'[d].branch = changesets[d].branch
                          /\ changesets'[d].parent = changesets[d].parent
                          /\ changesets'[d].restores = changesets[d].restores
  BY <1>1 DEF Known, ShownInv, IInv, TypeOK, Record
<1>3. \A d \in Known : Seen(d)' = Seen(d)
  BY <1>1, <1>2, SeenIsKept DEF ShownInv
<1>4. Made' = Made /\ Line' = Line
  BY <1>1, <1>2, <1>3 DEF Made, Line, LinesOf
<1>5. Approved' = Approved \cup {c} /\ c \notin Approved
  BY <1>1, <1>2 DEF Approved
<1>6. /\ changesets[c].branch \in DOMAIN branches
      /\ c \notin Elements(branches[changesets[c].branch].history)
  BY <1>1 DEF ShownInv, IInv, OnKnownBranch, VisibleIffInOwnHistory
<1>7. Made[c].branch = changesets[c].branch /\ DOMAIN Made = Known
  BY <1>1 DEF Made, Seen
<1>8. c \notin Shown!Members(Line[Made[c].branch])
  BY <1>6, <1>7 DEF Line, LinesOf, Elements, Shown!Members
<1>9. Shown!Approve(c)
  BY <1>4, <1>5, <1>8 DEF Shown!Approve
<1>. QED BY <1>1, <1>7, <1>9 DEF ShownStep, Shown!Next

\* A promotion puts an approved changeset after the end its author saw.
LEMMA PromoteIsShown ==
  ASSUME ShownInv, IInv', NEW c \in Changesets, Promote(c)
  PROVE  ShownStep
<1>1. PICK name : name = changesets[c].branch
  OBVIOUS
<1>2. /\ c \in Known /\ changesets[c].status = "approved"
      /\ name \in DOMAIN branches /\ branches[name].head = changesets[c].base
      /\ changesets' = [changesets EXCEPT ![c].status = "visible"] /\ snapshots' = snapshots
  BY <1>1 DEF Promote, Promotable
<1>3. c \notin Elements(branches[name].history)
  BY <1>1, <1>2 DEF ShownInv, IInv, VisibleIffInOwnHistory
<1>4. branches' = [branches EXCEPT ![name] =
                     [head |-> c, history |-> Append(branches[name].history, c)]]
  BY <1>1, <1>3 DEF Promote
<1>5. /\ Known' = Known /\ changesets'[c].status = "visible"
      /\ \A d \in Known \ {c} : changesets'[d].status = changesets[d].status
      /\ \A d \in Known : /\ changesets'[d].branch = changesets[d].branch
                          /\ changesets'[d].parent = changesets[d].parent
                          /\ changesets'[d].restores = changesets[d].restores
  BY <1>2 DEF Known, ShownInv, IInv, TypeOK, Record
<1>6. \A d \in Known : Seen(d)' = Seen(d)
  BY <1>2, <1>5, SeenIsKept DEF ShownInv
<1>7. Made' = Made /\ DOMAIN Made = Known /\ Made[c].branch = name
      /\ Made[c].after = changesets[c].parent
  BY <1>1, <1>2, <1>5, <1>6 DEF Made, Seen
<1>8. Approved' = Approved \ {c} /\ c \in Approved
  BY <1>2, <1>5 DEF Approved
<1>9. Line' = Shown!Extended(Line, name, c)
  BY <1>2, <1>4 DEF Line, LinesOf, Shown!Extended
<1>10. branches[name].head = changesets[c].parent
  <2>1. changesets[c].base = IF changesets[c].parent = None THEN Root ELSE changesets[c].parent
    BY <1>2 DEF ShownInv, IInv, BaseIsParent
  <2>2. branches[name].head \in Changesets \cup {None}
    BY <1>2 DEF ShownInv, IInv, TypeOK, BranchState
  <2>. QED BY <2>1, <2>2, <1>2, MarkersAreFresh
<1>11. Shown!End(Line[name]) = changesets[c].parent
  <2>1. EnsuredBranches[name] = branches[name] /\ name \in DOMAIN EnsuredBranches
    BY <1>2, EnsuredFacts DEF ShownInv, IInv
  <2>2. Line[name] = branches[name].history
    BY <1>2 DEF Line, LinesOf
  <2>. QED BY <2>1, <2>2, <1>10, EndIsHead DEF ShownInv
<1>12. Shown!Publish(c)
  BY <1>7, <1>8, <1>9, <1>11 DEF Shown!Publish
<1>. QED BY <1>2, <1>7, <1>12 DEF ShownStep, Shown!Next

LEMMA NextIsShown ==
  ASSUME ShownInv, IInv', [Next]_vars
  PROVE  ShownStep
<1>1. ASSUME NEW name \in Branches, CreateRepo(name) PROVE ShownStep
  BY <1>1, CreateRepoIsShown
<1>2. ASSUME NEW name \in Branches, NEW from \in Changesets \cup {None},
             CreateBranch(name, from)
      PROVE  ShownStep
  BY <1>2, CreateBranchIsShown
<1>3. ASSUME branches' = EnsuredBranches \/ branches' = branches,
             changesets' = changesets, snapshots' = snapshots
      PROVE  ShownStep
  BY <1>3, OpenIsShown
<1>4. ASSUME NEW name \in Branches, NEW base \in Changesets \cup {None, Root},
             NEW status \in {"draft", "visible"}, NEW delta \in Delta,
             Submit(name, base, status, delta)
      PROVE  ShownStep
  BY <1>4, SubmitIsShown
<1>5. ASSUME NEW c \in Changesets, Approve(c) PROVE ShownStep
  BY <1>5, ApproveIsShown
<1>6. ASSUME NEW c \in Changesets, Promote(c) PROVE ShownStep
  BY <1>6, PromoteIsShown
<1>7. ASSUME NEW r \in Rollbacks, SubmitRollback(r) PROVE ShownStep
  BY <1>7, SubmitRollbackIsShown
<1>8. CASE Next
  BY <1>8, <1>1, <1>2, <1>3, <1>4, <1>5, <1>6, <1>7
  DEF Next, RejectCreateBranch, RejectSubmit, PlanRollback, RejectRollback
<1>. QED BY <1>3, <1>8 DEF vars

\* Versioning implements Timeline: whatever runs between the steps of a draft's
\* life or of a rollback, every operation is one extension of one line, by a
\* changeset whose author saw the end it is put after, or changes no line.
THEOREM BranchesAreTimelines == Spec => OneTimeline
<1>1. Init => Shown!Init
  BY DEF Init, Shown!Init, Line, LinesOf, Made, Approved, Known
<1>2. ShownInv /\ ShownInv' /\ [Next]_vars => [Shown!Next]_<<Line, Made, Approved>>
  BY NextIsShown DEF ShownStep, ShownInv
<1>. QED BY <1>1, <1>2, ShownInvariance, PTL DEF Spec, OneTimeline, Shown!Spec
=============================================================================
