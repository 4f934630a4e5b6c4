------------------------- MODULE HistoryPagingProofs -------------------------
(***************************************************************************)
(* Proofs about HistoryPaging: histories of any length, any number of      *)
(* readers, limits of any size, and any growth between two pages.          *)
(*                                                                         *)
(* NothingIsSkipped speaks of listings that are over.  While one is under  *)
(* way, everything it owes and has not got yet is at a position the offset *)
(* has not passed.  That position is counted from the old end, and         *)
(* histories are append-only (GrowStep of VersioningProofs), so growth     *)
(* only moves the offset back towards what was read already.               *)
(***************************************************************************)
EXTENDS HistoryPaging, VersioningProofs, FiniteSetTheorems

\* The history that a reader goes through.
HistoryOf(r) == branches[reading[r].branch].history

\* Positions a listing has not passed yet, counted from the oldest changeset.
Ahead(r) == 1..(Len(HistoryOf(r)) - reading[r].cursor)

\* What a listing owes it has got or has not passed.
ListingIsSound(r) ==
  /\ reading[r].branch \in DOMAIN branches
  /\ reading[r].limit \in Nat
  /\ reading[r].cursor \in 0..Len(HistoryOf(r))
  /\ \A c \in reading[r].due : c \in reading[r].got \/ \E i \in Ahead(r) : HistoryOf(r)[i] = c
  /\ ~reading[r].more => reading[r].due \subseteq reading[r].got

\* Every listing under way is sound.
ListingsInv ==
  /\ reading = [r \in Readers |-> reading[r]]
  /\ \A r \in Readers : reading[r] # None => ListingIsSound(r)

\* The inductive invariant.
RIInv == IInv /\ ListingsInv
-----------------------------------------------------------------------------

\* Limits are raised to 1 and cut at MaxPage.
LEMMA ClampFacts == ASSUME NEW limit \in Nat PROVE Clamp(limit) \in Nat \ {0}
BY MaxPageIsPositive DEF Clamp

\* A page holds the positions after the offset, up to the limit or the end.
LEMMA PageFacts ==
  ASSUME NEW history, Len(history) \in Nat, NEW cursor \in 0..Len(history), NEW limit \in Nat
  PROVE  LET consumed == NextCursor(cursor, limit, Page(history, cursor, limit)) IN
         /\ consumed \in cursor..Len(history)
         /\ Page(history, cursor, limit) = (cursor + 1)..consumed
<1> DEFINE last == IF cursor + Clamp(limit) < Len(history) THEN cursor + Clamp(limit) ELSE Len(history)
<1>1. Clamp(limit) \in Nat
  BY ClampFacts
<1>2. last \in Nat /\ cursor <= last /\ last <= Len(history)
  BY <1>1
<1>3. Page(history, cursor, limit) = (cursor + 1)..last
  BY <1>1 DEF Page
<1>. HIDE DEF last
<1>4. Cardinality((cursor + 1)..last) = last - cursor
  <2>1. Cardinality((cursor + 1)..last) =
          IF cursor + 1 > last THEN 0 ELSE last - (cursor + 1) + 1
    BY <1>2, FS_Interval
  <2>. QED BY <1>2, <2>1
<1>5. NextCursor(cursor, limit, Page(history, cursor, limit)) = last
  BY <1>2, <1>3, <1>4 DEF NextCursor
<1>. QED BY <1>2, <1>3, <1>5

\* A branch that is there has a sequence for its history.
LEMMA HistoryTypes ==
  ASSUME IInv, NEW b \in DOMAIN branches
  PROVE  branches[b].history \in Seq(Changesets) /\ Len(branches[b].history) \in Nat
BY DEF IInv, TypeOK, BranchState

\* The first page of a listing is still to come.
LEMMA BeginKeeps ==
  ASSUME RIInv, NEW r \in Readers, NEW name \in Branches, NEW limit \in Limits,
         Begin(r, name, limit)
  PROVE  ListingsInv'
<1> DEFINE due == Elements(branches[name].history)
           listing == [ branch |-> name, limit |-> limit, cursor |-> 0, got |-> {}, more |-> TRUE,
                        due |-> due ]
<1>1. /\ name \in DOMAIN branches /\ branches' = branches
      /\ reading' = [reading EXCEPT ![r] = listing]
  BY DEF Begin, vars
<1>2. /\ listing.branch = name /\ listing.limit = limit /\ listing.cursor = 0
      /\ listing.more /\ listing.due = due
  OBVIOUS
<1>. HIDE DEF listing
<1>3. /\ reading' = [q \in Readers |-> reading'[q]]
      /\ reading'[r] = listing /\ \A q \in Readers \ {r} : reading'[q] = reading[q]
  BY <1>1 DEF RIInv, ListingsInv
<1>4. ListingIsSound(r)'
  <2>1. Len(branches[name].history) \in Nat
    BY <1>1, HistoryTypes DEF RIInv
  <2>2. \A c \in due : \E i \in 1..Len(branches[name].history) : branches[name].history[i] = c
    BY DEF Elements
  <2>3. limit \in Nat
    BY LimitsAreNumbers
  <2>. QED BY <1>1, <1>2, <1>3, <2>1, <2>2, <2>3 DEF ListingIsSound, HistoryOf, Ahead
<1>5. ASSUME NEW q \in Readers \ {r}, reading[q] # None PROVE ListingIsSound(q)'
  BY <1>1, <1>3, <1>5 DEF RIInv, ListingsInv, ListingIsSound, HistoryOf, Ahead
<1>. QED BY <1>3, <1>4, <1>5 DEF ListingsInv

\* What a page does not bring is still ahead of the offset it leaves.
LEMMA ReadPageKeeps ==
  ASSUME RIInv, NEW r \in Readers, ReadPage(r)
  PROVE  ListingsInv'
<1> DEFINE history == HistoryOf(r)
           cursor == reading[r].cursor
           page == Page(history, cursor, reading[r].limit)
           consumed == NextCursor(cursor, reading[r].limit, page)
           got == reading[r].got \cup {Newest(history, i) : i \in page}
           listing == [ branch |-> reading[r].branch, limit |-> reading[r].limit,
                        cursor |-> consumed, got |-> got,
                        more |-> consumed < Len(history), due |-> reading[r].due ]
<1>1. reading[r] # None /\ ListingIsSound(r)
  BY DEF ReadPage, Unfinished, RIInv, ListingsInv
<1>2. reading' = [reading EXCEPT ![r] = listing] /\ branches' = branches
  BY DEF ReadPage, HistoryOf, vars
<1>3. /\ listing.branch = reading[r].branch /\ listing.limit = reading[r].limit
      /\ listing.cursor = consumed /\ listing.got = got
      /\ (listing.more <=> consumed < Len(history)) /\ listing.due = reading[r].due
  OBVIOUS
<1>4. /\ Len(history) \in Nat /\ cursor \in 0..Len(history)
      /\ consumed \in cursor..Len(history) /\ page = (cursor + 1)..consumed
  <2>1. Len(history) \in Nat
    BY <1>1, HistoryTypes DEF RIInv, ListingIsSound, HistoryOf
  <2>2. cursor \in 0..Len(history) /\ reading[r].limit \in Nat
    BY <1>1 DEF ListingIsSound
  <2>. QED BY <2>1, <2>2, PageFacts
<1>5. ASSUME NEW c \in reading[r].due
      PROVE  c \in got \/ \E i \in 1..(Len(history) - consumed) : history[i] = c
  <2>1. CASE c \in reading[r].got
    BY <2>1
  <2>2. ASSUME NEW i \in 1..(Len(history) - cursor), history[i] = c
        PROVE  c \in got \/ \E j \in 1..(Len(history) - consumed) : history[j] = c
    <3>1. CASE i <= Len(history) - consumed
      BY <1>4, <2>2, <3>1
    <3>2. CASE i > Len(history) - consumed
      <4>1. Len(history) + 1 - i \in page
        BY <1>4, <3>2
      <4>2. Newest(history, Len(history) + 1 - i) = c
        <5>1. Len(history) + 1 - (Len(history) + 1 - i) = i
          BY <1>4
        <5>. QED BY <2>2, <5>1 DEF Newest
      <4>. QED BY <4>1, <4>2
    <3>. QED BY <1>4, <3>1, <3>2
  <2>. QED BY <1>1, <2>1, <2>2 DEF ListingIsSound, Ahead
<1>6. consumed = Len(history) => reading[r].due \subseteq got
  BY <1>4, <1>5
<1>. HIDE DEF listing, got, page, consumed
<1>7. /\ reading' = [q \in Readers |-> reading'[q]]
      /\ reading'[r] = listing /\ \A q \in Readers \ {r} : reading'[q] = reading[q]
  BY <1>2 DEF RIInv, ListingsInv
<1>8. HistoryOf(r)' = history
  BY <1>2, <1>3, <1>7 DEF HistoryOf
<1>9. ListingIsSound(r)'
  <2>1. (~reading[r].more)' => consumed = Len(history)
    BY <1>3, <1>4, <1>7
  <2>2. Ahead(r)' = 1..(Len(history) - consumed)
    BY <1>3, <1>7, <1>8 DEF Ahead
  <2>. QED BY <1>1, <1>2, <1>3, <1>4, <1>5, <1>6, <1>7, <1>8, <2>1, <2>2 DEF ListingIsSound
<1>10. ASSUME NEW q \in Readers \ {r}, reading[q] # None PROVE ListingIsSound(q)'
  BY <1>2, <1>7, <1>10 DEF RIInv, ListingsInv, ListingIsSound, HistoryOf, Ahead
<1>. QED BY <1>7, <1>9, <1>10 DEF ListingsInv

\* Growth at the newest end leaves what is ahead of every offset where it was.
LEMMA GrowthKeeps ==
  ASSUME RIInv, [Next]_vars, UNCHANGED reading
  PROVE  ListingsInv'
<1>1. IInv' /\ GrowStep
  BY NextGood DEF RIInv, Good
<1>2. ASSUME NEW r \in Readers, reading[r] # None PROVE ListingIsSound(r)'
  <2> DEFINE b == reading[r].branch
             old == branches[b].history
             new == branches'[b].history
  <2>1. b \in DOMAIN branches /\ ListingIsSound(r)
    BY <1>2 DEF RIInv, ListingsInv, ListingIsSound
  <2>2. old \in Seq(Changesets) /\ Len(old) \in Nat
    BY <2>1, HistoryTypes DEF RIInv
  <2>3. b \in DOMAIN branches' /\ Len(old) <= Len(new) /\ SubSeq(new, 1, Len(old)) = old
    BY <1>1, <2>1 DEF GrowStep
  <2>4. new \in Seq(Changesets) /\ Len(new) \in Nat
    BY <1>1, <2>3 DEF IInv, TypeOK, BranchState
  <2>5. \A i \in 1..Len(old) : new[i] = old[i]
    BY <2>2, <2>3, <2>4
  <2>6. HistoryOf(r) = old /\ HistoryOf(r)' = new
    BY DEF HistoryOf
  <2>. HIDE DEF old, new
  <2>7. /\ reading[r].cursor \in 0..Len(old)
        /\ \A c \in reading[r].due :
             c \in reading[r].got \/ \E i \in 1..(Len(old) - reading[r].cursor) : old[i] = c
        /\ ~reading[r].more => reading[r].due \subseteq reading[r].got
        /\ reading[r].limit \in Nat
    BY <2>1, <2>6 DEF ListingIsSound, Ahead
  <2>8. \A i \in 1..(Len(old) - reading[r].cursor) :
          i \in 1..(Len(new) - reading[r].cursor) /\ new[i] = old[i]
    BY <2>2, <2>3, <2>4, <2>5, <2>7
  <2>9. Ahead(r)' = 1..(Len(new) - reading[r].cursor)
    BY <2>6 DEF Ahead
  <2>10. reading[r].cursor \in 0..Len(new)
    BY <2>2, <2>3, <2>4, <2>7
  <2>. QED BY <2>3, <2>6, <2>7, <2>8, <2>9, <2>10 DEF ListingIsSound
<1>. QED BY <1>2 DEF RIInv, ListingsInv

\* Every step preserves it.
LEMMA RIInvNext == RIInv /\ [RNext]_rvars => RIInv'
<1>. SUFFICES ASSUME RIInv, [RNext]_rvars PROVE RIInv'
  OBVIOUS
<1>1. ASSUME [Next]_vars, UNCHANGED reading PROVE RIInv'
  BY <1>1, GrowthKeeps, NextGood DEF RIInv, Good
<1>2. ASSUME UNCHANGED vars PROVE IInv'
  BY <1>2, NextGood DEF RIInv, Good
<1>3. ASSUME NEW r \in Readers, NEW name \in Branches, NEW limit \in Limits, Begin(r, name, limit)
      PROVE  RIInv'
  BY <1>2, <1>3, BeginKeeps DEF RIInv, Begin
<1>4. ASSUME NEW r \in Readers, ReadPage(r) PROVE RIInv'
  BY <1>2, <1>4, ReadPageKeeps DEF RIInv, ReadPage
<1>. QED BY <1>1, <1>3, <1>4 DEF RNext, rvars

\* Whoever pages through a history to its end gets every changeset that was in it when the
\* listing began, however the branch grows meanwhile and whatever the limit is
\* (core/versioning.rs, history).
THEOREM ListingsAreComplete == RSpec => []NothingIsSkipped
<1>1. RInit => RIInv
  <2>. SUFFICES ASSUME RInit PROVE RIInv
    OBVIOUS
  <2>1. IInv
    BY InitIInv DEF RInit
  <2>. QED BY <2>1 DEF RInit, RIInv, ListingsInv
<1>2. RIInv => NothingIsSkipped
  BY DEF RIInv, ListingsInv, ListingIsSound, NothingIsSkipped
<1>. QED BY <1>1, <1>2, RIInvNext, PTL DEF RSpec
==============================================================================
