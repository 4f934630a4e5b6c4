--------------------------- MODULE WorkspaceProofs ---------------------------
(***************************************************************************)
(* Proofs about Workspace, for every number of clients, paths, blobs,      *)
(* changesets, branches, sessions and checkpoints, and every workload.     *)
(*                                                                         *)
(* IInv has three parts.  SessionsInv: the list of a session is in the     *)
(* order its checkpoints were made, each on the one before, and its rows   *)
(* are the first of them, for a row is inserted only after that of its     *)
(* parent.  HandlersInv: all that is proved of the version manager         *)
(* (VersioningProofs), what requests name is known, and HeldIsRecent: of   *)
(* what came since the change of a holder, neither a request past its      *)
(* checks nor a changeset that may be promoted changes its path, unless it *)
(* is the holder's.  ClientsInv: the bases a client keeps are known, and   *)
(* its own if it does not sync; a set under way is still staged; and all   *)
(* that was made of a set has one parent and one branch.                   *)
(*                                                                         *)
(* The version manager moves as proved there; a lemma for every action     *)
(* says that it keeps IInv and that it makes a step that                   *)
(* HolderKeepsItsContent allows.  RollbacksNameTheirLine is what the       *)
(* timeline needs besides: histories only grow while a rollback waits.     *)
(***************************************************************************)
EXTENDS Workspace, FiniteSetTheorems, WellFoundedInduction, TLAPS

\* The version manager, and what is proved of it.
V == INSTANCE VersioningProofs WITH
       Assets <- Paths, Rollbacks <- {}, plans <- [r \in {} |-> None]

-----------------------------------------------------------------------------
(* The invariant of the sessions. *)

\* Every number of a list is above those before it.
Increasing(list) == \A i, j \in DOMAIN list : i < j => list[i] < list[j]

\* A list holds the checkpoints of its session, each made on the one before.
ListFits(s) ==
  /\ Increasing(lists[s])
  /\ \A i \in 1..Len(lists[s]) :
       /\ madeCheckpoints[lists[s][i]].session = s
       /\ madeCheckpoints[lists[s][i]].parent = IF i = 1 THEN None ELSE lists[s][i - 1]

\* The first n checkpoints of a session.
First(s, n) == {lists[s][i] : i \in 1..n}

\* The rows of a session are its first checkpoints.
RowsArePrefix(s) == \E n \in 0..Len(lists[s]) : RowsOf(s) = First(s, n)

\* What a handler has yet to insert is in memory.
InsertionFits(i) ==
  IF i.row = "session" THEN i.id \in 1..Len(madeSessions)
  ELSE /\ i.id \in 1..Len(madeCheckpoints)
       /\ LET s == madeCheckpoints[i.id].session
          IN  \E j \in 1..Len(lists[s]) : lists[s][j] = i.id

MadeSession == [branch : Branches, base : Changesets \cup {None}]
MadeCheckpoint == [session : SessionIds, parent : CheckpointIds \cup {None},
                   assets : [Paths -> Blobs \cup {None}]]

\* What is invariant of the sessions.
SessionsInv ==
  /\ SessionTypeOK
  /\ madeSessions \in Seq(MadeSession) /\ Len(madeSessions) <= MaxSessions
  /\ madeCheckpoints \in Seq(MadeCheckpoint) /\ Len(madeCheckpoints) <= MaxCheckpoints
  /\ \A k \in 1..Len(madeCheckpoints) : madeCheckpoints[k].session \in 1..Len(madeSessions)
  /\ \A s \in SessionIds : ListFits(s) /\ RowsArePrefix(s)
  /\ \A i \in inserting : InsertionFits(i)

-----------------------------------------------------------------------------
(* Lists in order. *)

\* A set of numbers that is not empty has a least one.
LEMMA LeastNumber ==
  ASSUME NEW T, T \subseteq Nat, T # {}
  PROVE  \E x \in T : \A y \in T : x <= y
<1> DEFINE R == {pair \in Nat \X Nat : pair[1] < pair[2]}
<1>1. IsWellFoundedOn(R, Nat)
  BY NatLessThanWellFounded DEF OpToRel
<1>2. PICK x \in T : \A y \in T : <<y, x>> \notin R
  <2>. HIDE DEF R
  <2>. QED BY <1>1, WFMin
<1>3. \A y \in T : ~(y < x)
  BY <1>2
<1>. QED BY <1>3

\* A set of numbers is in order in one way.
LEMMA OrderIsUnique ==
  ASSUME NEW n \in Nat, NEW S \in SUBSET Nat, NEW f \in [1..n -> S], NEW g \in [1..n -> S],
         Increasing(f), Increasing(g),
         \A x \in S : \E i \in 1..n : f[i] = x,
         \A x \in S : \E i \in 1..n : g[i] = x
  PROVE  f = g
<1> DEFINE T == {i \in 1..n : f[i] # g[i]}
<1>1. SUFFICES ASSUME T # {} PROVE FALSE
  OBVIOUS
<1>2. PICK i \in T : \A j \in T : i <= j
  <2>1. T \subseteq Nat
    OBVIOUS
  <2>. HIDE DEF T
  <2>. QED BY <1>1, <2>1, LeastNumber
<1>3. i \in 1..n /\ f[i] # g[i] /\ f[i] \in Nat /\ g[i] \in Nat
  OBVIOUS
<1>4. \A j \in 1..n : j < i => f[j] = g[j]
  BY <1>2, <1>3
<1>5. PICK j \in 1..n : g[j] = f[i]
  BY <1>3
<1>6. PICK k \in 1..n : f[k] = g[i]
  BY <1>3
<1>7. j > i
  BY <1>3, <1>4, <1>5 DEF Increasing
<1>8. k > i
  BY <1>3, <1>4, <1>6 DEF Increasing
<1>9. g[i] < g[j] /\ f[i] < f[k]
  BY <1>3, <1>7, <1>8 DEF Increasing
<1>. QED BY <1>3, <1>5, <1>6, <1>9

\* Numbers in order are distinct.
LEMMA OrderIsInjective ==
  ASSUME NEW n \in Nat, NEW S \in SUBSET Nat, NEW f \in [1..n -> S], Increasing(f)
  PROVE  /\ \A i, j \in 1..n : f[i] = f[j] => i = j
         /\ f \in Injection(1..n, S)
<1>1. ASSUME NEW i \in 1..n, NEW j \in 1..n, f[i] = f[j] PROVE i = j
  <2>1. f[i] \in Nat /\ f[j] \in Nat /\ DOMAIN f = 1..n
    OBVIOUS
  <2>2. ~(i < j) /\ ~(j < i)
    BY <1>1, <2>1 DEF Increasing
  <2>. QED BY <2>2
<1>. QED BY <1>1 DEF Injection, IsInjective

\* The rows of a session in order are the beginning of its list.
LEMMA RowsInOrder ==
  ASSUME NEW s \in SessionIds, lists[s] \in Seq(Nat), Increasing(lists[s]),
         NEW n \in 0..Len(lists[s]), RowsOf(s) = First(s, n)
  PROVE  ListOfRows(s) = SubSeq(lists[s], 1, n)
<1> DEFINE f == SubSeq(lists[s], 1, n)
           S == RowsOf(s)
<1>1. /\ n \in Nat /\ Len(lists[s]) \in Nat /\ DOMAIN lists[s] = 1..Len(lists[s])
      /\ f = [i \in 1..n |-> lists[s][i]]
      /\ \A i \in 1..Len(lists[s]) : lists[s][i] \in Nat
  OBVIOUS
<1>2. S = {lists[s][i] : i \in 1..n} /\ S \in SUBSET Nat
  BY <1>1 DEF First
<1>3. f \in [1..n -> S] /\ \A x \in S : \E i \in 1..n : f[i] = x
  BY <1>1, <1>2
<1>4. Increasing(f)
  <2>1. DOMAIN f = 1..n /\ \A i \in 1..n : i \in DOMAIN lists[s] /\ f[i] = lists[s][i]
    BY <1>1
  <2>. HIDE DEF f
  <2>. QED BY <2>1 DEF Increasing
<1>. HIDE DEF f, S
<1>5. Cardinality(S) = n
  <2>1. f \in Injection(1..n, S)
    BY <1>1, <1>2, <1>3, <1>4, OrderIsInjective
  <2>2. f \in Bijection(1..n, S)
    BY <2>1, <1>3 DEF Bijection, Surjection, Injection
  <2>. QED BY <2>2, <1>1, FS_CountingElements DEF ExistsBijection
<1> DEFINE IsOrder(list) == \A i, j \in DOMAIN list : i < j => list[i] < list[j]
<1>6. ListOfRows(s) = CHOOSE list \in [1..n -> S] : IsOrder(list)
  BY <1>5 DEF ListOfRows, S
<1>7. IsOrder(f)
  BY <1>4 DEF Increasing
<1>8. PICK g : g = CHOOSE list \in [1..n -> S] : IsOrder(list)
  OBVIOUS
<1>9. g \in [1..n -> S] /\ IsOrder(g)
  <2>. HIDE DEF IsOrder
  <2>. QED BY <1>3, <1>7, <1>8
<1>10. Increasing(g)
  BY <1>9 DEF Increasing
<1>11. \A x \in S : \E i \in 1..n : g[i] = x
  <2>1. IsFiniteSet(S) /\ Cardinality(1..n) = n
    <3>1. IsFiniteSet(1..n) /\ Cardinality(1..n) = n
      BY <1>1, FS_Interval
    <3>2. f \in Surjection(1..n, S)
      BY <1>3 DEF Surjection
    <3>. QED BY <3>1, <3>2, FS_Surjection
  <2>2. g \in Injection(1..n, S)
    BY <1>1, <1>2, <1>9, <1>10, OrderIsInjective
  <2>3. g \in Surjection(1..n, S)
    BY <2>1, <2>2, <1>5, FS_Injection
  <2>. QED BY <2>3 DEF Surjection
<1>12. f = g
  BY <1>1, <1>2, <1>3, <1>4, <1>9, <1>10, <1>11, OrderIsUnique
<1>. QED BY <1>6, <1>8, <1>12 DEF f

-----------------------------------------------------------------------------
(* Sessions and checkpoints. *)

\* What was made stays made.
MadeGrows ==
  /\ Len(madeSessions) <= Len(madeSessions')
  /\ \A s \in 1..Len(madeSessions) : madeSessions'[s] = madeSessions[s]
  /\ Len(madeCheckpoints) <= Len(madeCheckpoints')
  /\ \A k \in 1..Len(madeCheckpoints) : madeCheckpoints'[k] = madeCheckpoints[k]

\* An appended sequence has the elements it had, and one more.
LEMMA AppendFacts ==
  ASSUME NEW S, NEW s \in Seq(S), NEW e \in S
  PROVE  /\ Append(s, e) \in Seq(S)
         /\ Len(s) \in Nat
         /\ Len(Append(s, e)) = Len(s) + 1
         /\ Append(s, e)[Len(s) + 1] = e
         /\ \A i \in 1..Len(s) : Append(s, e)[i] = s[i]
OBVIOUS

\* A sequence over a set is one over a larger set.
LEMMA SeqOfMore ==
  ASSUME NEW S, NEW T, S \subseteq T, NEW s \in Seq(S)
  PROVE  s \in Seq(T)
OBVIOUS

\* The lists and what was made have their types.
LEMMA SessionTypes ==
  ASSUME SessionsInv
  PROVE  /\ Len(madeSessions) \in Nat /\ Len(madeCheckpoints) \in Nat
         /\ \A s \in SessionIds :
              /\ lists[s] \in Seq(1..Len(madeCheckpoints))
              /\ lists[s] \in Seq(Nat)
              /\ Len(lists[s]) \in Nat /\ DOMAIN lists[s] = 1..Len(lists[s])
              /\ \A i \in 1..Len(lists[s]) : lists[s][i] \in 1..Len(madeCheckpoints)
         /\ \A k \in 1..Len(madeCheckpoints) : madeCheckpoints[k] \in MadeCheckpoint
         /\ \A s \in 1..Len(madeSessions) : madeSessions[s] \in MadeSession
<1>1. Len(madeSessions) \in Nat /\ Len(madeCheckpoints) \in Nat
  BY DEF SessionsInv
<1>2. ASSUME NEW s \in SessionIds
      PROVE  /\ lists[s] \in Seq(1..Len(madeCheckpoints))
             /\ lists[s] \in Seq(Nat)
             /\ Len(lists[s]) \in Nat /\ DOMAIN lists[s] = 1..Len(lists[s])
             /\ \A i \in 1..Len(lists[s]) : lists[s][i] \in 1..Len(madeCheckpoints)
  <2>1. lists[s] \in Seq(1..Len(madeCheckpoints))
    BY DEF SessionsInv, SessionTypeOK
  <2>2. 1..Len(madeCheckpoints) \subseteq Nat
    BY <1>1
  <2>. QED BY <2>1, <2>2
<1>. QED BY <1>1, <1>2 DEF SessionsInv

\* No session is made yet.
LEMMA SessionsInvInit == SessionsInit => SessionsInv
<1>. SUFFICES ASSUME SessionsInit PROVE SessionsInv
  OBVIOUS
<1>1. Len(madeSessions) = 0 /\ Len(madeCheckpoints) = 0 /\ \A s \in SessionIds : lists[s] = << >>
  BY DEF SessionsInit
<1>2. SessionTypeOK
  BY <1>1 DEF SessionsInit, SessionTypeOK
<1>3. \A s \in SessionIds : ListFits(s)
  BY <1>1 DEF ListFits, Increasing
<1>4. \A s \in SessionIds : RowsArePrefix(s)
  BY <1>1 DEF RowsArePrefix, RowsOf, First, SessionsInit
<1>. QED BY <1>1, <1>2, <1>3, <1>4, SessionsAreCounted DEF SessionsInv, SessionsInit

\* A session is made, and has its number.
LEMMA CreateSessionKeeps ==
  ASSUME SessionsInv, NEW branch \in Branches, NEW base \in Changesets \cup {None},
         CreateSession(branch, base)
  PROVE  /\ SessionsInv' /\ MadeGrows
         /\ NextSession \in SessionIds /\ Len(madeSessions') = NextSession
         /\ madeSessions'[NextSession] = [branch |-> branch, base |-> base]
<1> DEFINE made == [branch |-> branch, base |-> base]
<1>1. /\ madeSessions' = Append(madeSessions, made) /\ sessions' = sessions \cup {NextSession}
      /\ inserting' = inserting \cup {[row |-> "session", id |-> NextSession]}
      /\ madeCheckpoints' = madeCheckpoints /\ lists' = lists
      /\ sessionRows' = sessionRows /\ checkpointRows' = checkpointRows
      /\ NextSession \in SessionIds
  BY DEF CreateSession
<1>2. made \in MadeSession
  BY DEF MadeSession
<1>3. /\ madeSessions' \in Seq(MadeSession) /\ Len(madeSessions') = Len(madeSessions) + 1
      /\ Len(madeSessions) \in Nat /\ madeSessions'[Len(madeSessions) + 1] = made
      /\ \A s \in 1..Len(madeSessions) : madeSessions'[s] = madeSessions[s]
  BY <1>1, <1>2, AppendFacts DEF SessionsInv
<1>4. SessionTypeOK'
  <2>1. [row |-> "session", id |-> NextSession] \in Insertion
    BY <1>3 DEF Insertion, NextSession
  <2>2. sessions' \subseteq 1..Len(madeSessions') /\ sessionRows' \subseteq 1..Len(madeSessions')
    <3>1. sessions \subseteq 1..Len(madeSessions) /\ sessionRows \subseteq 1..Len(madeSessions)
      BY DEF SessionsInv, SessionTypeOK
    <3>2. /\ 1..Len(madeSessions) \subseteq 1..Len(madeSessions')
          /\ NextSession \in 1..Len(madeSessions')
      BY <1>3 DEF NextSession
    <3>. QED BY <3>1, <3>2, <1>1
  <2>3. inserting' \subseteq Insertion
    BY <2>1, <1>1 DEF SessionsInv, SessionTypeOK
  <2>4. /\ checkpointRows' \subseteq 1..Len(madeCheckpoints')
        /\ lists' \in [SessionIds -> Seq(1..Len(madeCheckpoints'))]
    BY <1>1 DEF SessionsInv, SessionTypeOK
  <2>. QED BY <2>2, <2>3, <2>4 DEF SessionTypeOK
<1>5. ASSUME NEW s \in SessionIds PROVE ListFits(s)' /\ RowsArePrefix(s)'
  <2>1. ListFits(s) /\ RowsArePrefix(s)
    BY DEF SessionsInv
  <2>2. ListFits(s)'
    BY <2>1, <1>1 DEF ListFits, Increasing
  <2>3. RowsArePrefix(s)'
    BY <2>1, <1>1 DEF RowsArePrefix, RowsOf, First
  <2>. QED BY <2>2, <2>3
<1>6. \A i \in inserting' : InsertionFits(i)'
  BY <1>1, <1>3 DEF SessionsInv, InsertionFits, NextSession
<1>7. MadeGrows
  BY <1>1, <1>3, SessionTypes DEF MadeGrows
<1>8. Len(madeSessions') <= MaxSessions
  BY <1>1, <1>3, SessionsAreCounted DEF SessionIds, NextSession
<1>9. \A k \in 1..Len(madeCheckpoints') : madeCheckpoints'[k].session \in 1..Len(madeSessions')
  <2>1. 1..Len(madeSessions) \subseteq 1..Len(madeSessions')
    BY <1>3
  <2>. QED BY <2>1, <1>1 DEF SessionsInv
<1>. QED BY <1>1, <1>3, <1>4, <1>5, <1>6, <1>7, <1>8, <1>9 DEF SessionsInv, NextSession

\* A checkpoint is made after the others of its session.
LEMMA CreateCheckpointKeeps ==
  ASSUME SessionsInv, NEW s, NEW assets \in [Paths -> Blobs \cup {None}],
         CreateCheckpoint(s, assets)
  PROVE  SessionsInv' /\ MadeGrows
<1> DEFINE k == NextCheckpoint
           made == [session |-> s, parent |-> LastOf(lists[s]), assets |-> assets]
<1>1. /\ madeCheckpoints' = Append(madeCheckpoints, made)
      /\ lists' = [lists EXCEPT ![s] = Append(lists[s], k)]
      /\ inserting' = inserting \cup {[row |-> "checkpoint", id |-> k]}
      /\ madeSessions' = madeSessions /\ sessions' = sessions
      /\ sessionRows' = sessionRows /\ checkpointRows' = checkpointRows
      /\ k \in CheckpointIds /\ s \in sessions
  BY DEF CreateCheckpoint
<1>2. /\ s \in SessionIds /\ k = Len(madeCheckpoints) + 1
      /\ Len(madeSessions) \in Nat /\ Len(madeCheckpoints) \in Nat
  BY <1>1, SessionTypes, SessionsAreCounted
     DEF SessionsInv, SessionTypeOK, SessionIds, NextCheckpoint
<1> DEFINE old == lists[s]
<1>3. /\ old \in Seq(1..Len(madeCheckpoints)) /\ Len(old) \in Nat /\ DOMAIN old = 1..Len(old)
      /\ \A i \in 1..Len(old) : old[i] \in 1..Len(madeCheckpoints)
  BY <1>2, SessionTypes
<1>4. LastOf(old) \in CheckpointIds \cup {None}
  BY <1>2, <1>3, SessionsAreCounted DEF LastOf, CheckpointIds, SessionsInv
<1>5. made \in MadeCheckpoint
  BY <1>2, <1>4 DEF MadeCheckpoint
<1>6. /\ madeCheckpoints' \in Seq(MadeCheckpoint) /\ Len(madeCheckpoints') = k
      /\ madeCheckpoints'[k] = made
      /\ \A j \in 1..Len(madeCheckpoints) : madeCheckpoints'[j] = madeCheckpoints[j]
  BY <1>1, <1>2, <1>5, AppendFacts DEF SessionsInv
<1>7. old \in Seq(1..k)
  <2>1. 1..Len(madeCheckpoints) \subseteq 1..k
    BY <1>2
  <2>. QED BY <2>1, <1>3, SeqOfMore
<1>8. /\ lists'[s] = Append(old, k) /\ \A t \in SessionIds \ {s} : lists'[t] = lists[t]
      /\ DOMAIN lists' = SessionIds /\ lists' = [t \in SessionIds |-> lists'[t]]
  BY <1>1, <1>2 DEF SessionsInv, SessionTypeOK
<1>9. /\ lists'[s] \in Seq(1..k) /\ Len(lists'[s]) = Len(old) + 1 /\ lists'[s][Len(old) + 1] = k
      /\ \A i \in 1..Len(old) : lists'[s][i] = old[i]
      /\ DOMAIN lists'[s] = 1..Len(lists'[s])
  <2>1. k \in 1..k
    BY <1>2
  <2>2. Append(old, k) \in Seq(1..k)
    BY <2>1, <1>7, AppendFacts
  <2>. QED BY <2>1, <2>2, <1>7, <1>8, AppendFacts
<1>. HIDE DEF made, k, old
<1>10. SessionTypeOK'
  <2>1. \A t \in SessionIds \ {s} : lists'[t] \in Seq(1..k)
    <3>1. \A t \in SessionIds : lists[t] \in Seq(1..Len(madeCheckpoints))
      BY SessionTypes
    <3>2. 1..Len(madeCheckpoints) \subseteq 1..k
      BY <1>2
    <3>. QED BY <3>1, <3>2, <1>8, SeqOfMore
  <2>2. lists' \in [SessionIds -> Seq(1..Len(madeCheckpoints'))]
    <3>1. PICK all : all = Seq(1..k)
      OBVIOUS
    <3>2. \A t \in SessionIds : lists'[t] \in all
      BY <2>1, <1>9, <3>1
    <3>3. lists' \in [SessionIds -> all]
      BY <3>2, <1>8
    <3>. QED BY <3>1, <3>3, <1>6
  <2>3. inserting' \subseteq Insertion
    BY <1>1, <1>2 DEF SessionsInv, SessionTypeOK, Insertion
  <2>. QED BY <2>2, <2>3, <1>1, <1>2, <1>6 DEF SessionsInv, SessionTypeOK
<1>11. ASSUME NEW t \in SessionIds PROVE ListFits(t)'
  <2>0. ListFits(t) /\ \A i \in 1..Len(lists[t]) : lists[t][i] \in 1..Len(madeCheckpoints)
    BY SessionTypes DEF SessionsInv
  <2>1. CASE t # s
    <3>1. lists'[t] = lists[t]
      BY <2>1, <1>8
    <3>2. \A i \in 1..Len(lists[t]) : madeCheckpoints'[lists[t][i]] = madeCheckpoints[lists[t][i]]
      BY <2>0, <1>6
    <3>. QED BY <2>0, <3>1, <3>2 DEF ListFits
  <2>2. CASE t = s
    <3>0. /\ Increasing(old)
          /\ \A i \in 1..Len(old) :
               /\ madeCheckpoints[old[i]].session = s
               /\ madeCheckpoints[old[i]].parent = IF i = 1 THEN None ELSE old[i - 1]
      <4>1. ListFits(s) /\ old = lists[s]
        BY <2>0, <2>2 DEF old
      <4>. QED BY <4>1 DEF ListFits
    <3>1. Increasing(lists'[s])
      <4>1. SUFFICES ASSUME NEW i \in 1..Len(lists'[s]), NEW j \in 1..Len(lists'[s]), i < j
                     PROVE  lists'[s][i] < lists'[s][j]
        BY <1>9 DEF Increasing
      <4>2. i \in 1..Len(old) /\ lists'[s][i] = old[i]
        BY <4>1, <1>3, <1>9
      <4>3. CASE j \in 1..Len(old)
        BY <4>1, <4>2, <4>3, <3>0, <1>3, <1>9 DEF Increasing
      <4>4. CASE j = Len(old) + 1
        BY <4>2, <4>4, <1>2, <1>3, <1>9
      <4>. QED BY <4>3, <4>4, <1>3, <1>9
    <3>2. ASSUME NEW i \in 1..Len(lists'[s])
          PROVE  /\ madeCheckpoints'[lists'[s][i]].session = s
                 /\ madeCheckpoints'[lists'[s][i]].parent = IF i = 1 THEN None ELSE lists'[s][i - 1]
      <4>1. CASE i = Len(old) + 1
        <5>1. made.session = s /\ made.parent = LastOf(old)
          BY DEF made, old
        <5>2. LastOf(old) = IF i = 1 THEN None ELSE old[i - 1]
          BY <4>1, <1>3 DEF LastOf
        <5>3. lists'[s][i] = k
          BY <4>1, <1>9
        <5>4. i # 1 => i - 1 \in 1..Len(old) /\ lists'[s][i - 1] = old[i - 1]
          BY <4>1, <1>3, <1>9
        <5>5. madeCheckpoints'[lists'[s][i]] = made
          BY <5>3, <1>6
        <5>. QED BY <5>1, <5>2, <5>4, <5>5
      <4>2. CASE i \in 1..Len(old)
        <5>1. /\ lists'[s][i] = old[i] /\ madeCheckpoints'[old[i]] = madeCheckpoints[old[i]]
              /\ i # 1 => lists'[s][i - 1] = old[i - 1]
          <6>1. i # 1 => i - 1 \in 1..Len(old)
            BY <4>2, <1>3
          <6>2. old[i] \in 1..Len(madeCheckpoints)
            BY <4>2, <1>3
          <6>. QED BY <4>2, <6>1, <6>2, <1>6, <1>9
        <5>. QED BY <4>2, <5>1, <3>0
      <4>. QED BY <4>1, <4>2, <1>3, <1>9
    <3>. QED BY <3>1, <3>2, <2>2 DEF ListFits
  <2>. QED BY <2>1, <2>2
<1>12. ASSUME NEW t \in SessionIds PROVE RowsArePrefix(t)'
  <2>1. checkpointRows \subseteq 1..Len(madeCheckpoints)
    BY DEF SessionsInv, SessionTypeOK
  <2>2. RowsOf(t)' = RowsOf(t)
    BY <2>1, <1>1, <1>6 DEF RowsOf
  <2>3. PICK n \in 0..Len(lists[t]) : RowsOf(t) = First(t, n)
    BY DEF SessionsInv, RowsArePrefix
  <2>4. Len(lists[t]) \in Nat
    BY SessionTypes
  <2>5. n \in 0..Len(lists'[t]) /\ \A i \in 1..n : lists'[t][i] = lists[t][i]
    <3>1. CASE t = s
      <4>1. /\ Len(lists'[t]) = Len(lists[t]) + 1
            /\ \A i \in 1..Len(lists[t]) : lists'[t][i] = lists[t][i]
        BY <3>1, <1>9 DEF old
      <4>2. n \in 0..(Len(lists[t]) + 1) /\ 1..n \subseteq 1..Len(lists[t])
        BY <2>3, <2>4
      <4>. QED BY <4>1, <4>2
    <3>2. CASE t # s
      BY <3>2, <2>3, <1>8
    <3>. QED BY <3>1, <3>2
  <2>6. First(t, n)' = First(t, n)
    BY <2>5 DEF First
  <2>. QED BY <2>2, <2>3, <2>5, <2>6 DEF RowsArePrefix
<1>13. ASSUME NEW i \in inserting' PROVE InsertionFits(i)'
  <2>1. CASE i \in inserting
    <3>1. InsertionFits(i)
      BY <2>1 DEF SessionsInv
    <3>2. CASE i.row = "session"
      BY <3>1, <3>2, <1>1 DEF InsertionFits
    <3>3. CASE i.row # "session"
      <4>1. i.id \in 1..Len(madeCheckpoints)
        BY <3>1, <3>3 DEF InsertionFits
      <4>2. madeCheckpoints[i.id].session \in SessionIds
        BY <4>1, SessionTypes DEF MadeCheckpoint
      <4>3. PICK j \in 1..Len(lists[madeCheckpoints[i.id].session]) :
                   lists[madeCheckpoints[i.id].session][j] = i.id
        BY <3>1, <3>3 DEF InsertionFits
      <4>4. /\ j \in 1..Len(lists'[madeCheckpoints[i.id].session])
            /\ lists'[madeCheckpoints[i.id].session][j] = i.id
        <5>1. CASE madeCheckpoints[i.id].session = s
          BY <5>1, <4>3, <1>3, <1>9 DEF old
        <5>2. CASE madeCheckpoints[i.id].session # s
          BY <5>2, <4>2, <4>3, <1>8
        <5>. QED BY <5>1, <5>2
      <4>5. i.id \in 1..Len(madeCheckpoints') /\ madeCheckpoints'[i.id] = madeCheckpoints[i.id]
        BY <4>1, <1>2, <1>6
      <4>. QED BY <3>3, <4>4, <4>5 DEF InsertionFits
    <3>. QED BY <3>2, <3>3
  <2>2. CASE i = [row |-> "checkpoint", id |-> k]
    <3>1. madeCheckpoints'[k].session = s
      BY <1>6 DEF made
    <3>2. i.row # "session" /\ i.id = k /\ k \in 1..Len(madeCheckpoints')
      BY <2>2, <1>2, <1>6
    <3>3. Len(old) + 1 \in 1..Len(lists'[s]) /\ lists'[s][Len(old) + 1] = k
      BY <1>3, <1>9
    <3>. QED BY <3>1, <3>2, <3>3 DEF InsertionFits
  <2>. QED BY <2>1, <2>2, <1>1
<1>14. MadeGrows
  BY <1>1, <1>2, <1>6 DEF MadeGrows
<1>15. Len(madeCheckpoints') <= MaxCheckpoints
  BY <1>1, <1>6, SessionsAreCounted DEF CheckpointIds
<1>16. \A i \in 1..Len(madeCheckpoints') : madeCheckpoints'[i].session \in 1..Len(madeSessions')
  <2>1. 1..Len(madeCheckpoints') = 1..Len(madeCheckpoints) \cup {k}
    BY <1>2, <1>6
  <2>2. made.session = s /\ s \in 1..Len(madeSessions)
    <3>1. sessions \subseteq 1..Len(madeSessions)
      BY DEF SessionsInv, SessionTypeOK
    <3>2. made.session = s
      BY DEF made
    <3>. QED BY <3>1, <3>2, <1>1
  <2>3. \A i \in 1..Len(madeCheckpoints) : madeCheckpoints[i].session \in 1..Len(madeSessions)
    BY DEF SessionsInv
  <2>. HIDE DEF made, k
  <2>. QED BY <2>1, <2>2, <2>3, <1>1, <1>6
<1>. QED BY <1>1, <1>6, <1>10, <1>11, <1>12, <1>13, <1>14, <1>15, <1>16 DEF SessionsInv

\* The row of a session is that of a session that was made.
LEMMA InsertSessionKeeps ==
  ASSUME SessionsInv, NEW s \in SessionIds, InsertSession(s)
  PROVE  SessionsInv' /\ MadeGrows
<1>1. /\ inserting' \subseteq inserting /\ sessionRows' = sessionRows \cup {s}
      /\ madeSessions' = madeSessions /\ madeCheckpoints' = madeCheckpoints
      /\ sessions' = sessions /\ lists' = lists /\ checkpointRows' = checkpointRows
      /\ [row |-> "session", id |-> s] \in inserting
  BY DEF InsertSession
<1>2. s \in 1..Len(madeSessions)
  BY <1>1 DEF SessionsInv, InsertionFits
<1>3. SessionTypeOK'
  BY <1>1, <1>2 DEF SessionsInv, SessionTypeOK
<1>4. ASSUME NEW t \in SessionIds PROVE ListFits(t)' /\ RowsArePrefix(t)'
  <2>1. ListFits(t) /\ RowsArePrefix(t)
    BY DEF SessionsInv
  <2>2. ListFits(t)'
    BY <2>1, <1>1 DEF ListFits, Increasing
  <2>3. RowsArePrefix(t)'
    BY <2>1, <1>1 DEF RowsArePrefix, RowsOf, First
  <2>. QED BY <2>2, <2>3
<1>5. \A i \in inserting' : InsertionFits(i)'
  BY <1>1 DEF SessionsInv, InsertionFits
<1>. QED BY <1>1, <1>3, <1>4, <1>5, SessionTypes DEF SessionsInv, MadeGrows

\* An insertion that fails leaves the rows.
LEMMA FailInsertionKeeps ==
  ASSUME SessionsInv, FailInsertion
  PROVE  SessionsInv' /\ MadeGrows
<1>1. /\ inserting' \subseteq inserting /\ sessionRows' = sessionRows
      /\ madeSessions' = madeSessions /\ madeCheckpoints' = madeCheckpoints
      /\ sessions' = sessions /\ lists' = lists /\ checkpointRows' = checkpointRows
  BY DEF FailInsertion
<1>2. SessionTypeOK'
  BY <1>1 DEF SessionsInv, SessionTypeOK
<1>3. ASSUME NEW t \in SessionIds PROVE ListFits(t)' /\ RowsArePrefix(t)'
  <2>1. ListFits(t) /\ RowsArePrefix(t)
    BY DEF SessionsInv
  <2>2. ListFits(t)'
    BY <2>1, <1>1 DEF ListFits, Increasing
  <2>3. RowsArePrefix(t)'
    BY <2>1, <1>1 DEF RowsArePrefix, RowsOf, First
  <2>. QED BY <2>2, <2>3
<1>4. \A i \in inserting' : InsertionFits(i)'
  BY <1>1 DEF SessionsInv, InsertionFits
<1>. QED BY <1>1, <1>2, <1>3, <1>4, SessionTypes DEF SessionsInv, MadeGrows

\* The row of a checkpoint follows that of its parent, and is at most the next.
LEMMA InsertCheckpointKeeps ==
  ASSUME SessionsInv, NEW k \in CheckpointIds, InsertCheckpoint(k)
  PROVE  SessionsInv' /\ MadeGrows
<1>1. /\ inserting' \subseteq inserting /\ sessionRows' = sessionRows
      /\ madeSessions' = madeSessions /\ madeCheckpoints' = madeCheckpoints
      /\ sessions' = sessions /\ lists' = lists
      /\ checkpointRows' = IF Insertable(k) THEN checkpointRows \cup {k} ELSE checkpointRows
      /\ [row |-> "checkpoint", id |-> k] \in inserting
  BY DEF InsertCheckpoint
<1> DEFINE s == madeCheckpoints[k].session
<1>2. k \in 1..Len(madeCheckpoints) /\ s \in SessionIds
  <2>1. k \in 1..Len(madeCheckpoints)
    BY <1>1 DEF SessionsInv, InsertionFits
  <2>. QED BY <2>1, SessionTypes DEF MadeCheckpoint
<1>3. PICK j \in 1..Len(lists[s]) : lists[s][j] = k
  BY <1>1 DEF SessionsInv, InsertionFits
<1>4. SessionTypeOK'
  BY <1>1, <1>2 DEF SessionsInv, SessionTypeOK
<1>5. ASSUME NEW t \in SessionIds PROVE ListFits(t)'
  <2>1. ListFits(t)
    BY DEF SessionsInv
  <2>. QED BY <2>1, <1>1 DEF ListFits, Increasing
<1>6. ASSUME NEW t \in SessionIds PROVE RowsArePrefix(t)'
  <2>1. PICK n \in 0..Len(lists[t]) : RowsOf(t) = First(t, n)
    BY DEF SessionsInv, RowsArePrefix
  <2>2. \A m : First(t, m)' = First(t, m)
    BY <1>1 DEF First
  <2>3. CASE ~Insertable(k) \/ s # t
    <3>1. RowsOf(t)' = RowsOf(t)
      BY <2>3, <1>1 DEF RowsOf
    <3>. QED BY <3>1, <2>1, <2>2, <1>1 DEF RowsArePrefix
  <2>4. CASE Insertable(k) /\ s = t
    <3>1. RowsOf(t)' = RowsOf(t) \cup {lists[t][j]}
      BY <2>4, <1>1, <1>3 DEF RowsOf
    <3>2. /\ lists[t] \in Seq(Nat) /\ Len(lists[t]) \in Nat /\ j \in 1..Len(lists[t])
          /\ lists[t] \in [1..Len(lists[t]) -> Nat]
      BY <2>4, <1>3, SessionTypes
    <3>3. j <= n + 1
      <4>1. CASE j = 1
        BY <4>1, <2>1
      <4>2. CASE j # 1
        <5>0. ListFits(t) /\ j - 1 \in 1..Len(lists[t])
          BY <4>2, <3>2 DEF SessionsInv
        <5>1. /\ madeCheckpoints[k].parent = lists[t][j - 1]
              /\ madeCheckpoints[lists[t][j - 1]].session = t
          BY <4>2, <5>0, <2>4, <1>3, <3>2 DEF ListFits
        <5>2. lists[t][j - 1] \in RowsOf(t)
          BY <5>0, <5>1, <2>4, <3>2, NoneIsNoNumber DEF Insertable, RowsOf
        <5>3. PICK i \in 1..n : lists[t][i] = lists[t][j - 1]
          BY <5>2, <2>1 DEF First
        <5>4. i = j - 1
          <6>1. Increasing(lists[t])
            BY DEF SessionsInv, ListFits
          <6>2. i \in 1..Len(lists[t])
            BY <2>1, <3>2
          <6>. QED BY <6>1, <6>2, <5>0, <5>1, <5>3, <3>2, OrderIsInjective
        <5>5. i <= n /\ n \in Nat /\ j \in Nat
          BY <2>1, <3>2, <5>3
        <5>. QED BY <5>4, <5>5
      <4>. QED BY <4>1, <4>2
    <3>4. CASE j <= n
      <4>1. lists[t][j] \in First(t, n)
        BY <3>4, <3>2, <2>1 DEF First
      <4>. QED BY <4>1, <3>1, <2>1, <2>2, <1>1 DEF RowsArePrefix
    <3>5. CASE j = n + 1
      <4>1. First(t, n + 1) = First(t, n) \cup {lists[t][n + 1]}
        <5>1. 1..n + 1 = 1..n \cup {n + 1}
          BY <2>1, <3>2
        <5>. QED BY <5>1 DEF First
      <4>2. n + 1 \in 0..Len(lists'[t])
        BY <3>5, <3>2, <2>1, <1>1
      <4>. QED BY <4>1, <4>2, <3>1, <3>5, <2>1, <2>2 DEF RowsArePrefix
    <3>. QED BY <3>3, <3>4, <3>5, <3>2, <2>1
  <2>. QED BY <2>3, <2>4
<1>7. \A i \in inserting' : InsertionFits(i)'
  BY <1>1 DEF SessionsInv, InsertionFits
<1>. QED BY <1>1, <1>4, <1>5, <1>6, <1>7, SessionTypes DEF SessionsInv, MadeGrows

\* A restart leaves the beginning of a list.
LEMMA RestartLists ==
  ASSUME SessionsInv, NEW s \in SessionIds
  PROVE  \E n \in 0..Len(lists[s]) :
           RowsOf(s) = First(s, n) /\ ListOfRows(s) = SubSeq(lists[s], 1, n)
<1>1. PICK n \in 0..Len(lists[s]) : RowsOf(s) = First(s, n)
  BY DEF SessionsInv, RowsArePrefix
<1>2. lists[s] \in Seq(Nat) /\ Increasing(lists[s])
  BY SessionTypes DEF SessionsInv, ListFits
<1>. QED BY <1>1, <1>2, RowsInOrder

\* A start reads lists that fit what was made.
LEMMA RestartSessionsKeeps ==
  ASSUME SessionsInv, RestartSessions
  PROVE  SessionsInv' /\ MadeGrows
<1>1. /\ sessions' = sessionRows /\ inserting' = {}
      /\ madeSessions' = madeSessions /\ madeCheckpoints' = madeCheckpoints
      /\ sessionRows' = sessionRows /\ checkpointRows' = checkpointRows
      /\ lists' = [s \in SessionIds |-> ListOfRows(s)]
  BY DEF RestartSessions
<1>2. ASSUME NEW s \in SessionIds
      PROVE  /\ lists'[s] \in Seq(1..Len(madeCheckpoints))
             /\ ListFits(s)' /\ RowsArePrefix(s)'
  <2>1. PICK n \in 0..Len(lists[s]) : RowsOf(s) = First(s, n) /\ lists'[s] = SubSeq(lists[s], 1, n)
    BY <1>1, RestartLists
  <2>2. /\ lists[s] \in Seq(1..Len(madeCheckpoints)) /\ Len(lists[s]) \in Nat
        /\ DOMAIN lists[s] = 1..Len(lists[s])
    BY SessionTypes
  <2>3. /\ lists'[s] \in Seq(1..Len(madeCheckpoints)) /\ Len(lists'[s]) = n /\ n \in Nat
        /\ DOMAIN lists'[s] = 1..n
        /\ \A i \in 1..n : lists'[s][i] = lists[s][i]
        /\ \A i \in 1..n : i \in 1..Len(lists[s]) /\ (i # 1 => i - 1 \in 1..n)
    BY <2>1, <2>2
  <2>4. ListFits(s)
    BY DEF SessionsInv
  <2>5. Increasing(lists'[s])
    <3>1. \A i, j \in 1..n : i < j => lists'[s][i] < lists'[s][j]
      BY <2>2, <2>3, <2>4 DEF ListFits, Increasing
    <3>. QED BY <3>1, <2>3 DEF Increasing
  <2>6. ASSUME NEW i \in 1..n
        PROVE  /\ madeCheckpoints[lists'[s][i]].session = s
               /\ madeCheckpoints[lists'[s][i]].parent = IF i = 1 THEN None ELSE lists'[s][i - 1]
    BY <2>3, <2>4 DEF ListFits
  <2>7. ListFits(s)'
    BY <2>3, <2>5, <2>6, <1>1 DEF ListFits
  <2>8. RowsOf(s)' = RowsOf(s) /\ First(s, n)' = First(s, n)
    BY <2>3, <1>1 DEF RowsOf, First
  <2>9. RowsArePrefix(s)'
    BY <2>1, <2>3, <2>8 DEF RowsArePrefix
  <2>. QED BY <2>3, <2>7, <2>9
<1>3. SessionTypeOK'
  BY <1>1, <1>2 DEF SessionsInv, SessionTypeOK
<1>. QED BY <1>1, <1>2, <1>3, SessionTypes DEF SessionsInv, MadeGrows

\* RestartKeepsPrefix follows.
LEMMA SessionsArePrefixes == SessionsInv => RestartKeepsPrefix
BY RestartLists DEF RestartKeepsPrefix

\* What leaves the sessions alone.
LEMMA SessionsUnchanged ==
  ASSUME SessionsInv, UNCHANGED sessionVars
  PROVE  SessionsInv' /\ MadeGrows
<1>1. /\ inserting' = inserting /\ sessionRows' = sessionRows
      /\ madeSessions' = madeSessions /\ madeCheckpoints' = madeCheckpoints
      /\ sessions' = sessions /\ lists' = lists /\ checkpointRows' = checkpointRows
  BY DEF sessionVars
<1>2. SessionTypeOK'
  BY <1>1 DEF SessionsInv, SessionTypeOK
<1>3. ASSUME NEW t \in SessionIds PROVE ListFits(t)' /\ RowsArePrefix(t)'
  <2>1. ListFits(t) /\ RowsArePrefix(t)
    BY DEF SessionsInv
  <2>2. ListFits(t)'
    BY <2>1, <1>1 DEF ListFits, Increasing
  <2>3. RowsArePrefix(t)'
    BY <2>1, <1>1 DEF RowsArePrefix, RowsOf, First
  <2>. QED BY <2>2, <2>3
<1>4. \A i \in inserting' : InsertionFits(i)'
  BY <1>1 DEF SessionsInv, InsertionFits
<1>. QED BY <1>1, <1>2, <1>3, <1>4, SessionTypes DEF SessionsInv, MadeGrows

-----------------------------------------------------------------------------
(* The invariant of the handlers. *)

\* What is recorded of a changeset stays, except its status.
VersionsGrow ==
  /\ Known \subseteq Known'
  /\ \A c \in Known :
       /\ changesets'[c].parent = changesets[c].parent
       /\ changesets'[c].branch = changesets[c].branch
       /\ author'[c] = author[c]
       /\ snapshots'[c] = snapshots[c]

\* A repository that was created keeps its default branch.
RepoMade == exists = TRUE /\ defaultBranch \in DOMAIN branches

IsPending(u) == request[u] # None /\ request[u].at \in {"sent", "checked"}

\* What a request names is known, and a plan is the difference it was made of.
RequestFits(u) ==
  /\ IsPending(u) =>
       /\ request[u] \in Message
       /\ request[u].base \in Known \cup {None, Root}
       /\ request[u].kind # "rollback" => request[u].target = None
  /\ IsAt(u, "checked") =>
       /\ request[u].status \in {"visible", "draft"}
       /\ request[u].kind = "rollback" =>
            /\ request[u].status = "visible"
            /\ request[u].base \in Known /\ request[u].target \in Known
            /\ request[u].delta = Manager!RollbackDelta(snapshots[request[u].base],
                                                        snapshots[request[u].target])
  /\ IsAt(u, "answer") => request[u].made \in Known /\ author[request[u].made].client = u

\* Nobody but the holder has a change of this path on what came since the holder's:
\* neither a request past its checks nor a changeset that may be promoted.
IsSince(b, p, new) ==
  /\ branches[b].head \in new
  /\ \A c \in Known : changesets[c].parent \in new => c \in new
  /\ \A w \in Clients :
       /\ IsAt(w, "checked") /\ w # held[<<b, p>>]
       /\ request[w].branch = b /\ request[w].delta[p] # Keep
       => request[w].base \notin new
  /\ \A c \in Known :
       /\ changesets[c].branch = b /\ changesets[c].status # "visible"
       /\ author[c].client # held[<<b, p>>]
       /\ BlobAt(c, p) # BlobAt(changesets[c].parent, p)
       => changesets[c].parent \notin new

HeldIsRecent ==
  \A b \in Branches, p \in Paths :
    held[<<b, p>>] # None =>
      /\ lock[p] = held[<<b, p>>]
      /\ b \in DOMAIN branches
      /\ \E new \in SUBSET Known : IsSince(b, p, new)

HandlersInv ==
  /\ V!IInv
  /\ HandlerTypeOK
  /\ RepoMade
  /\ \A u \in Clients : RequestFits(u)
  /\ HeldIsRecent

HolderStep ==
  \A b \in DOMAIN branches, p \in Paths :
    held[<<b, p>>] # None /\ BlobAt(HeadOf(b), p) # BlobAt(HeadOf(b), p)' =>
      author'[branches'[b].head].client = held[<<b, p>>]

-----------------------------------------------------------------------------
(* The invariant of the clients. *)

WorkspaceType ==
  [branch : Branches, base : Changesets \cup {None}, assets : [Paths -> Blobs \cup {None}]]

ClientTypes ==
  /\ load \in Workloads
  /\ files \in [Clients -> [Paths -> Blobs \cup {None}]]
  /\ profile \in [Clients -> Branches]
  /\ stage \in [Clients -> StageType]
  /\ workspace \in [Clients -> WorkspaceType \cup {None}]
  /\ session \in [Clients -> SessionIds \cup {None}]
  /\ edits \in [Clients -> Nat]
  /\ seen \in [Clients -> SUBSET Changesets]

\* A base of a client that does not sync is checked out or its own.
IsOwn(u, c) == c = None \/ c \in seen[u] \/ (c \in Known /\ author[c].client = u)

\* The bases that a client keeps.
BasesFit(u) ==
  /\ stage[u].base \in Known \cup {None}
  /\ workspace[u] # None => workspace[u].base \in Known \cup {None}
  /\ session[u] # None => session[u] \in 1..Len(madeSessions)
  /\ "sync" \notin load.ops =>
       /\ IsOwn(u, stage[u].base)
       /\ workspace[u] # None => IsOwn(u, workspace[u].base)
       /\ session[u] # None => IsOwn(u, madeSessions[session[u]].base)

SessionBases == \A s \in 1..Len(madeSessions) : madeSessions[s].base \in Known \cup {None}

\* A staged set that is being submitted is still staged.
SetIsStaged(u) ==
  IsPending(u) /\ request[u].set # None =>
    /\ request[u].kind = "submit" /\ request[u].set = <<u, edits[u]>>
    /\ request[u].base = stage[u].base /\ stage[u].base # None
    /\ request[u].branch = profile[u]
    /\ stage[u].delta # NoDelta

\* A changeset of a set was made on a base its author had then.
SetIsOfAuthor(c) ==
  author[c].set # None =>
    /\ \E n \in 0..edits[author[c].client] : author[c].set = <<author[c].client, n>>
    /\ changesets[c].parent \in Known
    /\ "sync" \notin load.ops => IsOwn(author[c].client, changesets[c].parent)

\* The set that is staged now was submitted on the base and branch it has now.
StagedOnBase ==
  \A c \in Known, u \in Clients :
    author[c].set = <<u, edits[u]>> /\ author[c].set # None /\ stage[u].delta # NoDelta =>
      changesets[c].parent = stage[u].base /\ changesets[c].branch = profile[u]

SetHasOneParent ==
  \A c, d \in Known :
    author[c].set # None /\ author[c].set = author[d].set =>
      changesets[c].parent = changesets[d].parent /\ changesets[c].branch = changesets[d].branch

ClientsInv ==
  /\ ClientTypes
  /\ SessionBases
  /\ \A u \in Clients : BasesFit(u) /\ SetIsStaged(u)
  /\ \A c \in Known : SetIsOfAuthor(c)
  /\ StagedOnBase
  /\ SetHasOneParent

IInv == SessionsInv /\ HandlersInv /\ ClientsInv

-----------------------------------------------------------------------------
(* The version manager. *)

\* What the handlers call is what is proved of.
LEMMA SameManager ==
  /\ Manager!Delta = V!Delta /\ Manager!Entry = V!Entry /\ Manager!Snapshot = V!Snapshot
  /\ Manager!EnsuredBranches = V!EnsuredBranches
  /\ Manager!EnsureRepo = V!EnsureRepo
  /\ Manager!TypeOK = V!TypeOK
  /\ Known = V!Known
  /\ \A e : Manager!BlobOf(e) = V!BlobOf(e)
  /\ \A c : Manager!SnapshotOf(c) = V!SnapshotOf(c)
  /\ \A old, delta : Manager!ApplyDelta(old, delta) = V!ApplyDelta(old, delta)
  /\ \A old, new : Manager!RollbackDelta(old, new) = V!RollbackDelta(old, new)
  /\ \A f, k, v : Manager!Put(f, k, v) = V!Put(f, k, v)
<1>1. /\ Manager!Delta = V!Delta /\ Manager!Entry = V!Entry /\ Manager!Snapshot = V!Snapshot
      /\ Known = V!Known
  BY DEF Manager!Delta, V!Delta, Manager!Entry, V!Entry, Manager!Snapshot, V!Snapshot,
         Known, V!Known
<1>2. \A f, k, v : Manager!Put(f, k, v) = V!Put(f, k, v)
  BY DEF Manager!Put, V!Put
<1>3. Manager!NewBranch = V!NewBranch /\ Manager!NoAssets = V!NoAssets
  BY DEF Manager!NewBranch, V!NewBranch, Manager!NoAssets, V!NoAssets
<1>4. Manager!EnsuredBranches = V!EnsuredBranches
  BY <1>2, <1>3 DEF Manager!EnsuredBranches, V!EnsuredBranches
<1>5. Manager!EnsureRepo = V!EnsureRepo
  BY DEF Manager!EnsureRepo, V!EnsureRepo
<1>6. Manager!TypeOK = V!TypeOK
  BY DEF Manager!TypeOK, V!TypeOK, Manager!BranchState, V!BranchState, Manager!Record, V!Record,
         Manager!Known, V!Known, Manager!Snapshot, V!Snapshot, Manager!Entry, V!Entry,
         Manager!Plan, V!Plan, Manager!Delta, V!Delta
<1>7. /\ \A e : Manager!BlobOf(e) = V!BlobOf(e)
      /\ \A c : Manager!SnapshotOf(c) = V!SnapshotOf(c)
  BY <1>3 DEF Manager!BlobOf, V!BlobOf, Manager!SnapshotOf, V!SnapshotOf
<1>8. \A old, delta : Manager!ApplyDelta(old, delta) = V!ApplyDelta(old, delta)
  BY DEF Manager!ApplyDelta, V!ApplyDelta
<1>9. \A old, new : Manager!RollbackDelta(old, new) = V!RollbackDelta(old, new)
  BY <1>7 DEF Manager!RollbackDelta, V!RollbackDelta
<1>. QED BY <1>1, <1>2, <1>4, <1>5, <1>6, <1>7, <1>8, <1>9

\* A submission is stored as the version manager does.
LEMMA SameStore ==
  ASSUME NEW c, NEW name, NEW base, NEW status, NEW delta, NEW restores
  PROVE  /\ Manager!Submittable(name, base) = V!Submittable(name, base)
         /\ Manager!Store(c, name, base, status, delta, restores)
              = V!Store(c, name, base, status, delta, restores)
<1>1. Manager!Submittable(name, base) = V!Submittable(name, base)
  BY SameManager DEF Manager!Submittable, V!Submittable
<1>2. Manager!Known = V!Known /\ \A all : Manager!AdvanceHead(all, name, c) = V!AdvanceHead(all, name, c)
  BY DEF Manager!Known, V!Known, Manager!AdvanceHead, V!AdvanceHead
<1>3. Manager!NewRecord(name, base, status, restores) = V!NewRecord(name, base, status, restores)
  BY SameManager DEF Manager!NewRecord, V!NewRecord
<1>4. Manager!Store(c, name, base, status, delta, restores)
        = V!Store(c, name, base, status, delta, restores)
  BY <1>2, <1>3, SameManager DEF Manager!Store, V!Store
<1>. QED BY <1>1, <1>4

\* Approvals, promotions and new branches are those of the version manager.
LEMMA SameOperations ==
  ASSUME NEW c, NEW name, NEW from
  PROVE  /\ Manager!Approve(c) = V!Approve(c)
         /\ Manager!Promote(c) = V!Promote(c)
         /\ Manager!CreateBranch(name, from) = V!CreateBranch(name, from)
<1>1. Manager!Known = V!Known
  BY DEF Manager!Known, V!Known
<1>2. Manager!Approve(c) = V!Approve(c)
  BY <1>1 DEF Manager!Approve, V!Approve
<1>3. Manager!Promote(c) = V!Promote(c)
  BY <1>1 DEF Manager!Promote, V!Promote, Manager!Promotable, V!Promotable,
              Manager!Elements, V!Elements
<1>4. Manager!LineageIn(changesets) = V!LineageIn(changesets)
  BY DEF Manager!LineageIn, V!LineageIn
<1>5. Manager!BranchStart(from) = V!BranchStart(from)
  BY <1>4, SameManager DEF Manager!BranchStart, V!BranchStart
<1>6. Manager!CreateBranch(name, from) = V!CreateBranch(name, from)
  BY <1>1, <1>5, SameManager
     DEF Manager!CreateBranch, V!CreateBranch, Manager!BranchCreatable, V!BranchCreatable
<1>. QED BY <1>2, <1>3, <1>6

\* What the version manager assumes of its constants.
LEMMA ManagerAssumptions ==
  /\ Main \in Branches
  /\ None \notin Changesets /\ Root \notin Changesets /\ Root # None
  /\ Keep \notin [path : Paths, blob : Blobs] \cup {None}
BY MainIsABranch, MarkersAreFresh

\* Types of what the version manager keeps.
LEMMA VersionFacts ==
  ASSUME HandlersInv
  PROVE  /\ Known \subseteq Changesets /\ None \notin Known
         /\ DOMAIN snapshots = Known /\ DOMAIN author = Known
         /\ \A c \in Known :
              /\ snapshots[c] \in V!Snapshot
              /\ changesets[c] \in V!Record
              /\ changesets[c].branch \in Branches
              /\ changesets[c].parent \in Known \cup {None}
              /\ author[c] \in [client : Clients, set : (Clients \X Nat) \cup {None}]
              /\ changesets[c].base = IF changesets[c].parent = None THEN Root
                                      ELSE changesets[c].parent
         /\ \A b \in DOMAIN branches : b \in Branches /\ branches[b].head \in Known \cup {None}
         /\ V!EnsuredBranches = branches
<1>1. V!TypeOK /\ V!ParentsKnown /\ V!HistoryIsLineage /\ V!BaseIsParent /\ HandlerTypeOK /\ RepoMade
  BY DEF HandlersInv, V!IInv
<1>2. Known \subseteq Changesets /\ None \notin Known /\ DOMAIN snapshots = Known
  BY <1>1, MarkersAreFresh DEF V!TypeOK, V!Known, Known
<1>3. V!EnsuredBranches = branches
  BY <1>1 DEF V!EnsuredBranches, RepoMade
<1>4. ASSUME NEW b \in DOMAIN branches
      PROVE  b \in Branches /\ branches[b].head \in Known \cup {None}
  <2>1. V!EnsuredBranches[b].head \in V!Known \cup {None}
    BY <1>1, <1>3, V!HeadKnown, ManagerAssumptions
  <2>. QED BY <2>1, <1>1, <1>3 DEF V!TypeOK, V!Known, Known
<1>5. ASSUME NEW c \in Known
      PROVE  /\ snapshots[c] \in V!Snapshot /\ changesets[c] \in V!Record
             /\ changesets[c].branch \in Branches
             /\ changesets[c].parent \in Known \cup {None}
             /\ changesets[c].base = IF changesets[c].parent = None THEN Root
                                     ELSE changesets[c].parent
  BY <1>1 DEF V!TypeOK, V!ParentsKnown, V!BaseIsParent, V!Known, Known, V!Record
<1>6. /\ DOMAIN author = Known
      /\ \A c \in Known : author[c] \in [client : Clients, set : (Clients \X Nat) \cup {None}]
  BY <1>1 DEF HandlerTypeOK
<1>. QED BY <1>2, <1>3, <1>4, <1>5, <1>6

\* A step of the version manager keeps what is proved of it.
LEMMA GoodStep ==
  ASSUME HandlersInv, V!Good
  PROVE  /\ V!IInv' /\ Manager!TypeOK'
         /\ Known \subseteq Known' /\ DOMAIN branches \subseteq DOMAIN branches'
<1>1. V!IInv' /\ V!GateStep /\ V!GrowStep
  BY DEF V!Good
<1>2. V!TypeOK'
  BY <1>1 DEF V!IInv
<1>3. Manager!TypeOK'
  BY <1>2 DEF Manager!TypeOK, V!TypeOK, Manager!BranchState, V!BranchState, Manager!Record,
              V!Record, Manager!Known, V!Known, Manager!Snapshot, V!Snapshot, Manager!Entry,
              V!Entry, Manager!Plan, V!Plan, Manager!Delta, V!Delta
<1>4. Known \subseteq Known' /\ DOMAIN branches \subseteq DOMAIN branches'
  BY <1>1 DEF V!GateStep, V!GrowStep, V!Known, Known
<1>. QED BY <1>1, <1>3, <1>4

-----------------------------------------------------------------------------
(* The steps of the handlers. *)

\* What every step does to the handlers.
HandlersGood == HandlersInv' /\ VersionsGrow /\ HolderStep

\* Nothing changes for the version manager.
LEMMA VersionsUnchanged ==
  ASSUME HandlersInv, UNCHANGED <<versionVars, author>>
  PROVE  /\ V!IInv' /\ Manager!TypeOK' /\ RepoMade' /\ VersionsGrow
         /\ Known' = Known /\ \A c, p : BlobAt(c, p)' = BlobAt(c, p)
<1>1. /\ exists' = exists /\ defaultBranch' = defaultBranch /\ branches' = branches
      /\ changesets' = changesets /\ snapshots' = snapshots /\ author' = author
  BY DEF versionVars
<1>2. V!Good
  <2>1. V!IInv /\ UNCHANGED V!vars
    BY <1>1 DEF HandlersInv, V!vars
  <2>. QED BY <2>1, V!NextGood, ManagerAssumptions
<1>3. V!IInv' /\ Manager!TypeOK'
  BY <1>2, GoodStep
<1>4. RepoMade'
  BY <1>1 DEF HandlersInv, RepoMade
<1>5. VersionsGrow /\ Known' = Known
  BY <1>1 DEF VersionsGrow, Known
<1>6. \A c, p : BlobAt(c, p)' = BlobAt(c, p)
  BY <1>1 DEF BlobAt, Manager!SnapshotOf, Manager!NoAssets, Manager!BlobOf
<1>. QED BY <1>3, <1>4, <1>5, <1>6

\* A request that is left alone fits what was added.
LEMMA FitsKept ==
  ASSUME HandlersInv, VersionsGrow, NEW u \in Clients, request'[u] = request[u]
  PROVE  RequestFits(u)'
<1>1. RequestFits(u)
  BY DEF HandlersInv
<1>2. Known \subseteq Known' /\ \A c \in Known : snapshots'[c] = snapshots[c] /\ author'[c] = author[c]
  BY DEF VersionsGrow
<1>3. ASSUME IsPending(u)'
      PROVE  /\ request'[u] \in Message
             /\ request'[u].base \in Known' \cup {None, Root}
             /\ request'[u].kind # "rollback" => request'[u].target = None
  BY <1>1, <1>2, <1>3 DEF RequestFits, IsPending
<1>4. ASSUME IsAt(u, "checked")'
      PROVE  /\ request'[u].status \in {"visible", "draft"}
             /\ request'[u].kind = "rollback" =>
                  /\ request'[u].status = "visible"
                  /\ request'[u].base \in Known' /\ request'[u].target \in Known'
                  /\ request'[u].delta = Manager!RollbackDelta(snapshots'[request'[u].base],
                                                               snapshots'[request'[u].target])
  <2>1. IsAt(u, "checked")
    BY <1>4 DEF IsAt
  <2>2. request'[u].status \in {"visible", "draft"}
    BY <2>1, <1>1 DEF RequestFits
  <2>3. request[u].kind = "rollback" =>
          /\ request[u].status = "visible"
          /\ request[u].base \in Known /\ request[u].target \in Known
          /\ request[u].delta = Manager!RollbackDelta(snapshots[request[u].base],
                                                      snapshots[request[u].target])
    BY <2>1, <1>1 DEF RequestFits
  <2>. QED BY <2>2, <2>3, <1>2
<1>5. IsAt(u, "answer")' => request'[u].made \in Known' /\ author'[request'[u].made].client = u
  BY <1>1, <1>2 DEF RequestFits, IsAt
<1>. QED BY <1>3, <1>4, <1>5 DEF RequestFits, Message

\* Requests come, are checked, answered and refused: a request that passes its
\* checks writes no path that another holds.
LEMMA RequestStep ==
  ASSUME HandlersInv, UNCHANGED <<versionVars, lock, author, held>>,
         request' \in [Clients -> Message \cup [made : Changesets, at : {"answer"}] \cup {None}],
         \A u \in Clients : RequestFits(u)',
         \A w \in Clients : IsAt(w, "checked")' =>
           \/ request'[w] = request[w]
           \/ \A p \in Paths : request'[w].delta[p] # Keep => lock[p] \in {w, None}
  PROVE  HandlersGood
<1>1. /\ exists' = exists /\ defaultBranch' = defaultBranch /\ branches' = branches
      /\ changesets' = changesets /\ snapshots' = snapshots /\ author' = author
      /\ lock' = lock /\ held' = held
  BY DEF versionVars
<1>2. /\ V!IInv' /\ Manager!TypeOK' /\ RepoMade' /\ VersionsGrow
      /\ Known' = Known /\ \A c, p : BlobAt(c, p)' = BlobAt(c, p)
  BY <1>1, VersionsUnchanged
<1>3. HandlerTypeOK'
  BY <1>1, <1>2 DEF HandlersInv, HandlerTypeOK, Message
<1>4. HeldIsRecent'
  <2>1. SUFFICES ASSUME NEW b \in Branches, NEW p \in Paths, held[<<b, p>>] # None
                 PROVE  /\ lock[p] = held[<<b, p>>] /\ b \in DOMAIN branches
                        /\ \E new \in SUBSET Known : IsSince(b, p, new)'
    BY <1>1, <1>2 DEF HeldIsRecent
  <2>2. PICK new \in SUBSET Known : IsSince(b, p, new)
    BY <2>1 DEF HandlersInv, HeldIsRecent
  <2>3. lock[p] = held[<<b, p>>] /\ b \in DOMAIN branches
    BY <2>1 DEF HandlersInv, HeldIsRecent
  <2>4. held[<<b, p>>] \in Clients \cup {None} /\ None \notin Clients
    BY MarkersAreFresh DEF HandlersInv, HandlerTypeOK
  <2>5. ASSUME NEW w \in Clients, IsAt(w, "checked")', w # held[<<b, p>>],
               request'[w].branch = b, request'[w].delta[p] # Keep
        PROVE  request'[w].base \notin new
    <3>1. request'[w] = request[w]
      BY <2>1, <2>3, <2>5
    <3>2. IsAt(w, "checked")
      BY <3>1, <2>5 DEF IsAt
    <3>. QED BY <3>1, <3>2, <2>2, <2>5 DEF IsSince
  <2>6. IsSince(b, p, new)'
    BY <2>2, <2>5, <1>1, <1>2 DEF IsSince
  <2>. QED BY <2>3, <2>6
<1>5. HolderStep
  BY <1>1, <1>2 DEF HolderStep, HeadOf
<1>. QED BY <1>2, <1>3, <1>4, <1>5 DEF HandlersGood, HandlersInv

\* A message that is sent names what is known.
LEMMA SendKeeps ==
  ASSUME HandlersInv, UNCHANGED <<versionVars, lock, author, held>>,
         NEW u \in Clients, NEW message \in Message, Send(u, message), message.at = "sent",
         message.base \in Known \cup {None, Root},
         message.kind # "rollback" => message.target = None
  PROVE  HandlersGood
<1>1. request' = [request EXCEPT ![u] = message]
  BY DEF Send
<1>2. request \in [Clients -> Message \cup [made : Changesets, at : {"answer"}] \cup {None}]
  BY DEF HandlersInv, HandlerTypeOK
<1>3. request'[u] = message /\ \A w \in Clients \ {u} : request'[w] = request[w]
  BY <1>1, <1>2
<1>4. VersionsGrow /\ Known' = Known
  BY VersionsUnchanged
<1>5. ASSUME NEW w \in Clients PROVE RequestFits(w)'
  <2>1. CASE w = u
    BY <2>1, <1>3, <1>4 DEF RequestFits, IsPending, IsAt, Message
  <2>2. CASE w # u
    BY <2>2, <1>3, <1>4, FitsKept
  <2>. QED BY <2>1, <2>2
<1>6. ASSUME NEW w \in Clients, IsAt(w, "checked")' PROVE request'[w] = request[w]
  BY <1>3, <1>6 DEF IsAt
<1>. QED BY <1>1, <1>2, <1>5, <1>6, RequestStep

\* A request ends.
LEMMA EndKeeps ==
  ASSUME HandlersInv, UNCHANGED <<versionVars, lock, author, held>>,
         NEW u \in Clients, EndRequest(u)
  PROVE  HandlersGood
<1>1. request' = [request EXCEPT ![u] = None]
  BY DEF EndRequest
<1>2. request \in [Clients -> Message \cup [made : Changesets, at : {"answer"}] \cup {None}]
  BY DEF HandlersInv, HandlerTypeOK
<1>3. request'[u] = None /\ \A w \in Clients \ {u} : request'[w] = request[w]
  BY <1>1, <1>2
<1>4. VersionsGrow
  BY VersionsUnchanged
<1>5. ASSUME NEW w \in Clients PROVE RequestFits(w)'
  <2>1. CASE w = u
    BY <2>1, <1>3 DEF RequestFits, IsPending, IsAt
  <2>2. CASE w # u
    BY <2>2, <1>3, <1>4, FitsKept
  <2>. QED BY <2>1, <2>2
<1>6. ASSUME NEW w \in Clients, IsAt(w, "checked")' PROVE request'[w] = request[w]
  BY <1>3, <1>6 DEF IsAt
<1>. QED BY <1>1, <1>2, <1>5, <1>6, RequestStep

\* A restart leaves no request.
LEMMA RestartHandlersKeeps ==
  ASSUME HandlersInv, RestartHandlers
  PROVE  HandlersGood
<1>1. \A w \in Clients : request'[w] = None
  BY DEF RestartHandlers
<1>2. \A w \in Clients : RequestFits(w)' /\ ~IsAt(w, "checked")'
  BY <1>1 DEF RequestFits, IsPending, IsAt
<1>3. request' \in [Clients -> Message \cup [made : Changesets, at : {"answer"}] \cup {None}]
  BY DEF RestartHandlers
<1>. QED BY <1>2, <1>3, RequestStep DEF RestartHandlers

\* The deltas that requests carry.
LEMMA DeltaTyped ==
  ASSUME HandlersInv, SessionsInv, NEW message \in Message,
         message.checkpoint # None => InMemory(message.checkpoint)
  PROVE  DeltaOf(message) \in V!Delta
<1>1. message.delta \in V!Delta
  BY SameManager DEF Message
<1>2. CASE message.delta # NoDelta \/ message.checkpoint = None
  BY <1>1, <1>2 DEF DeltaOf
<1>3. CASE message.delta = NoDelta /\ message.checkpoint # None
  <2> DEFINE k == message.checkpoint
  <2>1. PICK s \in sessions : k \in {lists[s][i] : i \in 1..Len(lists[s])}
    BY <1>3 DEF InMemory
  <2>2. s \in SessionIds
    BY SessionsAreCounted, SessionTypes DEF SessionsInv, SessionTypeOK, SessionIds
  <2>3. k \in 1..Len(madeCheckpoints)
    BY <2>1, <2>2, SessionTypes
  <2>4. AssetsOf(k) \in [Paths -> Blobs \cup {None}]
    BY <2>3, SessionTypes DEF AssetsOf, MadeCheckpoint
  <2>5. DeltaOf(message) = [p \in Paths |-> LET b == AssetsOf(k)[p]
                                            IN  IF b = None THEN Keep ELSE Written(p, b)]
    BY <1>3 DEF DeltaOf
  <2>. HIDE DEF k
  <2>6. \A p \in Paths : AssetsOf(k)[p] # None => Written(p, AssetsOf(k)[p]) \in V!Entry
    BY <2>4 DEF Written, V!Entry
  <2>. QED BY <2>4, <2>5, <2>6 DEF V!Delta
<1>. QED BY <1>2, <1>3

\* A submission passes its checks where nobody else has a lock on what it writes.
LEMMA CheckSubmissionKeeps ==
  ASSUME HandlersInv, SessionsInv, NEW u \in Clients, CheckSubmission(u)
  PROVE  HandlersGood
<1> DEFINE message == request[u]
           checked == Checked(message, message.base, StatusOf(message), DeltaOf(message))
<1>1. /\ IsAt(u, "sent") /\ message.kind # "rollback" /\ FromCheckpoint(message)
      /\ NoLockAgainst(u, DeltaOf(message))
      /\ request' = [request EXCEPT ![u] = checked]
      /\ UNCHANGED <<versionVars, lock, author, held>>
  BY DEF CheckSubmission
<1>2. request \in [Clients -> Message \cup [made : Changesets, at : {"answer"}] \cup {None}]
  BY DEF HandlersInv, HandlerTypeOK
<1>3. /\ message \in Message /\ message.base \in Known \cup {None, Root}
      /\ message.target = None
  <2>1. IsPending(u)
    BY <1>1 DEF IsPending, IsAt
  <2>. QED BY <2>1, <1>1 DEF HandlersInv, RequestFits
<1>. HIDE DEF message
<1>4. DeltaOf(message) \in Manager!Delta
  BY <1>1, <1>3, DeltaTyped, SameManager DEF FromCheckpoint
<1>5. StatusOf(message) \in {"visible", "draft"}
  <2>1. message.status \in {"visible", "draft", None}
    BY <1>3 DEF Message
  <2>. QED BY <2>1 DEF StatusOf
<1>6. /\ checked.kind = message.kind /\ checked.branch = message.branch
      /\ checked.base = message.base /\ checked.status = StatusOf(message)
      /\ checked.delta = DeltaOf(message) /\ checked.target = message.target
      /\ checked.at = "checked"
  BY DEF Checked
<1>7. checked \in Message
  BY <1>3, <1>4, <1>5 DEF Checked, Message
<1>. HIDE DEF checked
<1>8. request'[u] = checked /\ \A w \in Clients \ {u} : request'[w] = request[w]
  BY <1>1, <1>2
<1>9. request' \in [Clients -> Message \cup [made : Changesets, at : {"answer"}] \cup {None}]
  BY <1>1, <1>2, <1>7
<1>10. VersionsGrow /\ Known' = Known
  BY <1>1, VersionsUnchanged
<1>11. ASSUME NEW w \in Clients PROVE RequestFits(w)'
  <2>1. CASE w = u
    BY <2>1, <1>1, <1>3, <1>5, <1>6, <1>7, <1>8, <1>10 DEF RequestFits, IsPending, IsAt, Message
  <2>2. CASE w # u
    BY <2>2, <1>8, <1>10, FitsKept
  <2>. QED BY <2>1, <2>2
<1>12. ASSUME NEW w \in Clients
       PROVE  \/ request'[w] = request[w]
              \/ \A p \in Paths : request'[w].delta[p] # Keep => lock[p] \in {w, None}
  <2>1. CASE w = u
    BY <2>1, <1>1, <1>6, <1>8 DEF NoLockAgainst
  <2>2. CASE w # u
    BY <2>2, <1>8
  <2>. QED BY <2>1, <2>2
<1>. QED BY <1>1, <1>9, <1>11, <1>12, RequestStep

\* A rollback passes its checks with the plan against the head it read.
LEMMA CheckRollbackKeeps ==
  ASSUME HandlersInv, NEW u \in Clients, CheckRollback(u)
  PROVE  HandlersGood
<1> DEFINE message == request[u]
           head == branches[message.branch].head
           plan == Manager!RollbackDelta(snapshots[head], snapshots[message.target])
           checked == Checked(message, head, "visible", plan)
<1>1. /\ IsAt(u, "sent") /\ message.kind = "rollback"
      /\ Manager!RollbackTarget(message.branch, message.target)
      /\ NoLockAgainst(u, plan)
      /\ request' = [request EXCEPT ![u] = checked]
      /\ UNCHANGED <<versionVars, lock, author, held>>
  BY DEF CheckRollback
<1>2. request \in [Clients -> Message \cup [made : Changesets, at : {"answer"}] \cup {None}]
  BY DEF HandlersInv, HandlerTypeOK
<1>3. message \in Message
  <2>1. IsPending(u)
    BY <1>1 DEF IsPending, IsAt
  <2>. QED BY <2>1 DEF HandlersInv, RequestFits
<1>4. head \in Known /\ message.target \in Known
  BY <1>1, VersionFacts DEF Manager!RollbackTarget
<1>. HIDE DEF message, head
<1>5. plan \in Manager!Delta
  BY <1>4, VersionFacts, SameManager DEF V!Snapshot, V!Delta, V!RollbackDelta
<1>. HIDE DEF plan
<1>6. /\ checked.kind = "rollback" /\ checked.branch = message.branch
      /\ checked.base = head /\ checked.status = "visible"
      /\ checked.delta = plan /\ checked.target = message.target
      /\ checked.at = "checked"
  BY <1>1 DEF Checked
<1>7. checked \in Message
  BY <1>3, <1>4, <1>5, VersionFacts DEF Checked, Message
<1>. HIDE DEF checked
<1>8. request'[u] = checked /\ \A w \in Clients \ {u} : request'[w] = request[w]
  BY <1>1, <1>2
<1>9. request' \in [Clients -> Message \cup [made : Changesets, at : {"answer"}] \cup {None}]
  BY <1>1, <1>2, <1>7
<1>10. VersionsGrow /\ Known' = Known /\ snapshots' = snapshots
  BY <1>1, VersionsUnchanged DEF versionVars
<1>11. ASSUME NEW w \in Clients PROVE RequestFits(w)'
  <2>1. CASE w = u
    <3>1. request'[w].delta = Manager!RollbackDelta(snapshots'[request'[w].base],
                                                    snapshots'[request'[w].target])
      BY <2>1, <1>6, <1>8, <1>10 DEF plan
    <3>. QED BY <2>1, <3>1, <1>4, <1>6, <1>7, <1>8, <1>10 DEF RequestFits, IsPending, IsAt, Message
  <2>2. CASE w # u
    BY <2>2, <1>8, <1>10, FitsKept
  <2>. QED BY <2>1, <2>2
<1>12. ASSUME NEW w \in Clients
       PROVE  \/ request'[w] = request[w]
              \/ \A p \in Paths : request'[w].delta[p] # Keep => lock[p] \in {w, None}
  <2>1. CASE w = u
    BY <2>1, <1>1, <1>6, <1>8 DEF NoLockAgainst
  <2>2. CASE w # u
    BY <2>2, <1>8
  <2>. QED BY <2>1, <2>2
<1>. QED BY <1>1, <1>9, <1>11, <1>12, RequestStep

\* Locks are taken where nobody's change is in effect, and a change is in effect
\* no longer than its lock.
LEMMA LocksKeep ==
  ASSUME HandlersInv, NEW p \in Paths,
         \/ \E u \in Clients : LockPath(u, p)
         \/ FreePath(p)
  PROVE  HandlersGood
<1>1. /\ exists' = exists /\ defaultBranch' = defaultBranch /\ branches' = branches
      /\ changesets' = changesets /\ snapshots' = snapshots /\ author' = author
      /\ request' = request
  BY DEF LockPath, FreePath, versionVars
<1>2. /\ V!IInv' /\ Manager!TypeOK' /\ RepoMade' /\ VersionsGrow
      /\ Known' = Known /\ \A c, q : BlobAt(c, q)' = BlobAt(c, q)
  BY <1>1, VersionsUnchanged DEF versionVars
<1>3. /\ lock \in [Paths -> Clients \cup {None}] /\ held \in [Branches \X Paths -> Clients \cup {None}]
      /\ None \notin Clients
  BY MarkersAreFresh DEF HandlersInv, HandlerTypeOK
<1>4. /\ lock' \in [Paths -> Clients \cup {None}]
      /\ held' \in [Branches \X Paths -> Clients \cup {None}]
      /\ \A b \in Branches, q \in Paths : held'[<<b, q>>] # None =>
           held'[<<b, q>>] = held[<<b, q>>] /\ lock'[q] = lock[q]
  <2>1. CASE \E u \in Clients : LockPath(u, p)
    <3>1. PICK u \in Clients : LockPath(u, p)
      BY <2>1
    <3>2. lock[p] = None /\ lock' = [lock EXCEPT ![p] = u] /\ held' = held
      BY <3>1 DEF LockPath
    <3>3. \A b \in Branches : held[<<b, p>>] = None
      BY <3>2, <1>3 DEF HandlersInv, HeldIsRecent
    <3>. QED BY <3>2, <3>3, <1>3
  <2>2. CASE FreePath(p)
    <3>1. /\ lock' = [lock EXCEPT ![p] = None]
          /\ held' = [x \in Branches \X Paths |-> IF x[2] = p THEN None ELSE held[x]]
      BY <2>2 DEF FreePath
    <3>2. \A b \in Branches, q \in Paths :
            held'[<<b, q>>] = IF q = p THEN None ELSE held[<<b, q>>]
      BY <3>1
    <3>3. held' \in [Branches \X Paths -> Clients \cup {None}]
      BY <3>1, <1>3
    <3>. QED BY <3>1, <3>2, <3>3, <1>3
  <2>. QED BY <2>1, <2>2
<1>5. HandlerTypeOK'
  BY <1>1, <1>2, <1>4 DEF HandlersInv, HandlerTypeOK, Message
<1>6. \A u \in Clients : RequestFits(u)'
  BY <1>1, <1>2, FitsKept
<1>7. HeldIsRecent'
  <2>1. SUFFICES ASSUME NEW b \in Branches, NEW q \in Paths, held'[<<b, q>>] # None
                 PROVE  /\ lock'[q] = held'[<<b, q>>] /\ b \in DOMAIN branches
                        /\ \E new \in SUBSET Known : IsSince(b, q, new)'
    BY <1>1, <1>2 DEF HeldIsRecent
  <2>2. held'[<<b, q>>] = held[<<b, q>>] /\ lock'[q] = lock[q]
    BY <2>1, <1>4
  <2>3. /\ lock[q] = held[<<b, q>>] /\ b \in DOMAIN branches
        /\ \E new \in SUBSET Known : IsSince(b, q, new)
    BY <2>1, <2>2 DEF HandlersInv, HeldIsRecent
  <2>4. PICK new \in SUBSET Known : IsSince(b, q, new)
    BY <2>3
  <2>5. IsSince(b, q, new)'
    BY <2>2, <2>4, <1>1, <1>2 DEF IsSince, IsAt
  <2>. QED BY <2>2, <2>3, <2>5
<1>8. HolderStep
  BY <1>1, <1>2 DEF HolderStep, HeadOf
<1>. QED BY <1>2, <1>5, <1>6, <1>7, <1>8 DEF HandlersGood, HandlersInv

\* A new branch is beside those there are.
LEMMA CreateBranchKeeps ==
  ASSUME HandlersInv, NEW name \in Branches, NEW from \in Changesets \cup {None},
         CreateBranch(name, from)
  PROVE  HandlersGood /\ name \in DOMAIN branches'
<1>1. /\ V!CreateBranch(name, from) /\ UNCHANGED <<lock, request, author, held>>
  BY SameOperations DEF CreateBranch
<1>2. V!Good
  BY <1>1, V!CreateBranchGood, ManagerAssumptions DEF HandlersInv
<1>3. /\ V!IInv' /\ Manager!TypeOK' /\ DOMAIN branches \subseteq DOMAIN branches'
  BY <1>2, GoodStep
<1>4. /\ exists' = TRUE /\ defaultBranch' = defaultBranch
      /\ changesets' = changesets /\ snapshots' = snapshots
      /\ name \notin DOMAIN branches
      /\ branches' = V!Put(branches, name, V!BranchStart(from))
  BY <1>1, VersionFacts DEF V!CreateBranch, V!EnsureRepo, V!BranchCreatable
<1>5. /\ \A b \in DOMAIN branches : branches'[b] = branches[b]
      /\ name \in DOMAIN branches'
  BY <1>4 DEF V!Put
<1>6. RepoMade'
  BY <1>3, <1>4 DEF HandlersInv, RepoMade
<1>7. Known' = Known /\ VersionsGrow
  BY <1>1, <1>4 DEF VersionsGrow, Known
<1>8. \A c, p : BlobAt(c, p)' = BlobAt(c, p)
  BY <1>4 DEF BlobAt, Manager!SnapshotOf, Manager!NoAssets, Manager!BlobOf
<1>9. HandlerTypeOK'
  BY <1>1, <1>3, <1>7 DEF HandlersInv, HandlerTypeOK, Message
<1>10. \A u \in Clients : RequestFits(u)'
  BY <1>1, <1>7, FitsKept
<1>11. HeldIsRecent'
  <2>1. SUFFICES ASSUME NEW b \in Branches, NEW p \in Paths, held[<<b, p>>] # None
                 PROVE  /\ lock[p] = held[<<b, p>>] /\ b \in DOMAIN branches'
                        /\ \E new \in SUBSET Known : IsSince(b, p, new)'
    BY <1>1, <1>7 DEF HeldIsRecent
  <2>2. /\ lock[p] = held[<<b, p>>] /\ b \in DOMAIN branches
        /\ \E new \in SUBSET Known : IsSince(b, p, new)
    BY <2>1 DEF HandlersInv, HeldIsRecent
  <2>3. PICK new \in SUBSET Known : IsSince(b, p, new)
    BY <2>2
  <2>4. branches'[b] = branches[b]
    BY <2>2, <1>5
  <2>5. IsSince(b, p, new)'
    BY <2>3, <2>4, <1>1, <1>4, <1>7, <1>8 DEF IsSince, IsAt
  <2>. QED BY <2>2, <2>5, <1>3
<1>12. HolderStep
  <2>1. ASSUME NEW b \in DOMAIN branches, NEW p \in Paths PROVE BlobAt(HeadOf(b), p)' = BlobAt(HeadOf(b), p)
    <3>1. HeadOf(b)' = HeadOf(b)
      BY <1>3, <1>5 DEF HeadOf
    <3>. QED BY <3>1, <1>4 DEF BlobAt, Manager!SnapshotOf, Manager!NoAssets, Manager!BlobOf
  <2>. QED BY <2>1 DEF HolderStep
<1>. QED BY <1>3, <1>5, <1>6, <1>7, <1>9, <1>10, <1>11, <1>12 DEF HandlersGood, HandlersInv

\* The records after an approval or a promotion.
LEMMA ApproveOrPromoteRecords ==
  ASSUME HandlersInv, NEW c \in Known, NEW status,
         changesets' = [changesets EXCEPT ![c].status = status], snapshots' = snapshots,
         author' = author
  PROVE  /\ Known' = Known /\ VersionsGrow
         /\ changesets'[c].status = status
         /\ \A d \in Known \ {c} : changesets'[d] = changesets[d]
         /\ \A d, p : BlobAt(d, p)' = BlobAt(d, p)
<1>1. Known' = Known
  BY DEF Known
<1>2. \A d \in Known \ {c} : changesets'[d] = changesets[d]
  BY DEF Known
<1>3. changesets'[c] = [changesets[c] EXCEPT !.status = status] /\ changesets[c] \in V!Record
  BY VersionFacts DEF Known
<1>4. /\ changesets'[c].parent = changesets[c].parent /\ changesets'[c].branch = changesets[c].branch
      /\ changesets'[c].status = status
  BY <1>3 DEF V!Record
<1>5. VersionsGrow
  BY <1>1, <1>2, <1>4 DEF VersionsGrow
<1>6. \A d, p : BlobAt(d, p)' = BlobAt(d, p)
  BY DEF BlobAt, Manager!SnapshotOf, Manager!NoAssets, Manager!BlobOf
<1>. QED BY <1>1, <1>2, <1>4, <1>5, <1>6

\* An approval changes a status that no head shows.
LEMMA ApproveKeeps ==
  ASSUME HandlersInv, NEW c \in Known, Manager!Approve(c), UNCHANGED <<lock, request, author, held>>
  PROVE  HandlersGood
<1>1. V!Approve(c)
  BY SameOperations
<1>2. /\ changesets[c].status = "draft"
      /\ changesets' = [changesets EXCEPT ![c].status = "approved"]
      /\ exists' = exists /\ defaultBranch' = defaultBranch
      /\ branches' = branches /\ snapshots' = snapshots
  BY <1>1 DEF V!Approve
<1>3. V!Good
  <2>1. c \in Changesets
    BY VersionFacts
  <2>. QED BY <1>1, <2>1, V!ApproveGood, ManagerAssumptions DEF HandlersInv
<1>4. V!IInv' /\ Manager!TypeOK'
  BY <1>3, GoodStep
<1>5. /\ Known' = Known /\ VersionsGrow
      /\ \A d \in Known \ {c} : changesets'[d] = changesets[d]
      /\ \A d, p : BlobAt(d, p)' = BlobAt(d, p)
  BY <1>2, ApproveOrPromoteRecords
<1>6. \A d \in Known : /\ changesets'[d].parent = changesets[d].parent
                       /\ changesets'[d].branch = changesets[d].branch
                       /\ changesets'[d].status # "visible" => changesets[d].status # "visible"
  BY <1>2, <1>5 DEF VersionsGrow
<1>7. RepoMade'
  BY <1>2 DEF HandlersInv, RepoMade
<1>8. HandlerTypeOK'
  BY <1>4, <1>5 DEF HandlersInv, HandlerTypeOK, Message
<1>9. \A u \in Clients : RequestFits(u)'
  BY <1>5, FitsKept
<1>10. HeldIsRecent'
  <2>1. SUFFICES ASSUME NEW b \in Branches, NEW p \in Paths, held[<<b, p>>] # None
                 PROVE  /\ lock[p] = held[<<b, p>>] /\ b \in DOMAIN branches
                        /\ \E new \in SUBSET Known : IsSince(b, p, new)'
    BY <1>2, <1>5 DEF HeldIsRecent
  <2>2. /\ lock[p] = held[<<b, p>>] /\ b \in DOMAIN branches
        /\ \E new \in SUBSET Known : IsSince(b, p, new)
    BY <2>1 DEF HandlersInv, HeldIsRecent
  <2>3. PICK new \in SUBSET Known : IsSince(b, p, new)
    BY <2>2
  <2>4. IsSince(b, p, new)'
    BY <2>3, <1>2, <1>5, <1>6 DEF IsSince, IsAt
  <2>. QED BY <2>2, <2>4
<1>11. HolderStep
  BY <1>2, <1>5 DEF HolderStep, HeadOf
<1>. QED BY <1>4, <1>5, <1>7, <1>8, <1>9, <1>10, <1>11 DEF HandlersGood, HandlersInv

\* What is promoted was made on the head: what came since a change that is held
\* changes that path nowhere.
LEMMA PromoteKeeps ==
  ASSUME HandlersInv, NEW c \in Known, Manager!Promote(c), UNCHANGED <<lock, request, author, held>>
  PROVE  HandlersGood
<1> DEFINE name == changesets[c].branch
<1>1. V!Promote(c)
  BY SameOperations
<1>2. /\ changesets[c].status = "approved" /\ name \in DOMAIN branches
      /\ branches[name].head = changesets[c].base
      /\ changesets' = [changesets EXCEPT ![c].status = "visible"]
      /\ exists' = exists /\ defaultBranch' = defaultBranch /\ snapshots' = snapshots
      /\ DOMAIN branches' = DOMAIN branches
      /\ branches'[name].head = c
      /\ \A b \in DOMAIN branches \ {name} : branches'[b] = branches[b]
  BY <1>1 DEF V!Promote, V!Promotable
<1>3. V!Good
  <2>1. c \in Changesets
    BY VersionFacts
  <2>. QED BY <1>1, <2>1, V!PromoteGood, ManagerAssumptions DEF HandlersInv
<1>4. V!IInv' /\ Manager!TypeOK'
  BY <1>3, GoodStep
<1>5. /\ Known' = Known /\ VersionsGrow
      /\ changesets'[c].status = "visible"
      /\ \A d \in Known \ {c} : changesets'[d] = changesets[d]
      /\ \A d, p : BlobAt(d, p)' = BlobAt(d, p)
  BY <1>2, ApproveOrPromoteRecords
<1>6. \A d \in Known : /\ changesets'[d].parent = changesets[d].parent
                       /\ changesets'[d].branch = changesets[d].branch
                       /\ changesets'[d].status # "visible" => changesets[d].status # "visible"
  BY <1>2, <1>5 DEF VersionsGrow
<1>7. changesets[c].parent = branches[name].head /\ branches[name].head \in Known
  BY <1>2, VersionFacts, ManagerAssumptions
<1>8. RepoMade'
  BY <1>2 DEF HandlersInv, RepoMade
<1>9. HandlerTypeOK'
  BY <1>4, <1>5 DEF HandlersInv, HandlerTypeOK, Message
<1>10. \A u \in Clients : RequestFits(u)'
  BY <1>5, FitsKept
<1>11. ASSUME NEW b \in Branches, NEW p \in Paths, held[<<b, p>>] # None
       PROVE  /\ lock[p] = held[<<b, p>>] /\ b \in DOMAIN branches
              /\ \E new \in SUBSET Known : IsSince(b, p, new)'
              /\ b = name => \/ BlobAt(c, p) = BlobAt(changesets[c].parent, p)
                             \/ author[c].client = held[<<b, p>>]
  <2>1. /\ lock[p] = held[<<b, p>>] /\ b \in DOMAIN branches
        /\ \E new \in SUBSET Known : IsSince(b, p, new)
    BY <1>11 DEF HandlersInv, HeldIsRecent
  <2>2. PICK new \in SUBSET Known : IsSince(b, p, new)
    BY <2>1
  <2>3. branches'[b].head \in new
    <3>1. CASE b = name
      <4>1. changesets[c].parent \in new
        BY <3>1, <2>2, <1>7 DEF IsSince
      <4>. QED BY <4>1, <3>1, <2>2, <1>2 DEF IsSince
    <3>2. CASE b # name
      BY <3>2, <2>1, <2>2, <1>2 DEF IsSince
    <3>. QED BY <3>1, <3>2
  <2>4. IsSince(b, p, new)'
    BY <2>2, <2>3, <1>2, <1>5, <1>6 DEF IsSince, IsAt
  <2>5. ASSUME b = name
        PROVE  \/ BlobAt(c, p) = BlobAt(changesets[c].parent, p)
               \/ author[c].client = held[<<b, p>>]
    <3>1. changesets[c].parent \in new
      BY <2>5, <2>2, <1>7 DEF IsSince
    <3>. QED BY <3>1, <2>5, <2>2, <1>2 DEF IsSince
  <2>. QED BY <2>1, <2>4, <2>5
<1>12. HeldIsRecent'
  BY <1>2, <1>5, <1>11 DEF HeldIsRecent
<1>13. HolderStep
  <2>1. SUFFICES ASSUME NEW b \in DOMAIN branches, NEW p \in Paths, held[<<b, p>>] # None,
                        BlobAt(HeadOf(b), p) # BlobAt(HeadOf(b), p)'
                 PROVE  author'[branches'[b].head].client = held[<<b, p>>]
    BY DEF HolderStep
  <2>2. HeadOf(b) = branches[b].head /\ HeadOf(b)' = branches'[b].head
    BY <1>2 DEF HeadOf
  <2>3. BlobAt(HeadOf(b), p)' = BlobAt(branches'[b].head, p)
    BY <2>2, <1>2 DEF BlobAt, Manager!SnapshotOf, Manager!NoAssets, Manager!BlobOf
  <2>4. b = name
    BY <2>1, <2>2, <2>3, <1>2
  <2>5. author[c].client = held[<<b, p>>]
    BY <2>1, <2>2, <2>3, <2>4, <1>2, <1>7, <1>11, VersionFacts
  <2>. QED BY <2>4, <2>5, <1>2
<1>. QED BY <1>4, <1>5, <1>8, <1>9, <1>10, <1>12, <1>13 DEF HandlersGood, HandlersInv

\* What a submission m that takes effect on the head h reads and writes: it makes c.
TakesEffect(u, m, h, c) ==
  /\ m = request[u] /\ m \in Message /\ m.at = "checked" /\ m.status \in {"visible", "draft"}
  /\ V!Good
  /\ m.branch \in DOMAIN branches /\ h = branches[m.branch].head
  /\ m.base = IF h = None THEN Root ELSE h
  /\ c = NextChangeset /\ c \in Changesets /\ c \notin Known /\ Known' = Known \cup {c}
  /\ changesets'[c].parent = h /\ changesets'[c].branch = m.branch
  /\ changesets'[c].status = m.status
  /\ \A d \in Known : /\ changesets'[d] = changesets[d]
                      /\ snapshots'[d] = snapshots[d]
                      /\ author'[d] = author[d]
  /\ author' \in [Known' -> [client : Clients, set : (Clients \X Nat) \cup {None}]]
  /\ author'[c].client = u /\ author'[c].set = m.set
  /\ DOMAIN branches' = DOMAIN branches
  /\ \A b \in DOMAIN branches : b # m.branch => branches'[b] = branches[b]
  /\ branches'[m.branch].head = IF m.status = "visible" THEN c ELSE h
  /\ \A d \in Known \cup {None}, p \in Paths : BlobAt(d, p)' = BlobAt(d, p)
  /\ \A p \in Paths : m.delta[p] = Keep => BlobAt(c, p)' = BlobAt(h, p)
  /\ exists' = TRUE /\ defaultBranch' = defaultBranch

\* What a step that takes effect reads and writes.
LEMMA TakeEffectFacts ==
  ASSUME HandlersInv, NEW u \in Clients, TakeEffect(u)
  PROVE  \E m, h, c : TakesEffect(u, m, h, c)
<1>0. PICK m, h, c : m = request[u] /\ h = branches[m.branch].head /\ c = NextChangeset
  OBVIOUS
<1>1. /\ IsAt(u, "checked") /\ Changesets # Known
      /\ V!EnsureRepo /\ V!Submittable(m.branch, m.base)
      /\ V!Store(c, m.branch, m.base, m.status, m.delta, m.target)
      /\ author' = V!Put(author, c, [client |-> u, set |-> m.set])
  BY <1>0, SameManager, SameStore DEF TakeEffect
<1>2. /\ m \in Message /\ m.at = "checked" /\ m.status \in {"visible", "draft"}
      /\ m.kind # "rollback" => m.target = None
      /\ m.kind = "rollback" => /\ m.base \in Known /\ m.target \in Known
                                /\ m.delta = V!RollbackDelta(snapshots[m.base], snapshots[m.target])
  <2>1. IsPending(u)
    BY <1>1 DEF IsPending, IsAt
  <2>2. RequestFits(u)
    BY DEF HandlersInv
  <2>. QED BY <1>0, <1>1, <2>1, <2>2, SameManager DEF RequestFits, IsAt
<1>3. V!TypeOK /\ V!HistoryIsLineage /\ V!IInv
  BY DEF HandlersInv, V!IInv
<1>4. m.delta \in V!Delta /\ m.target \in Changesets \cup {None} /\ m.set \in (Clients \X Nat) \cup {None}
  BY <1>2, SameManager DEF Message
<1>5. /\ m.branch \in DOMAIN branches
      /\ m.base = IF h = None THEN Root ELSE h
      /\ c \in Changesets /\ c \notin Known /\ Known' = Known \cup {c}
      /\ changesets'[c] = V!NewRecord(m.branch, m.base, m.status, m.target)
      /\ snapshots'[c] = V!ApplyDelta(V!SnapshotOf(h), m.delta)
      /\ \A d \in Known : changesets'[d] = changesets[d] /\ snapshots'[d] = snapshots[d]
      /\ DOMAIN snapshots' = Known'
  <2>1. Known = V!Known /\ Known' = V!Known' /\ V!EnsuredBranches = branches
    BY VersionFacts DEF Known, V!Known
  <2>2. /\ m.branch \in DOMAIN V!EnsuredBranches
        /\ m.base = (IF V!EnsuredBranches[m.branch].head = None THEN Root
                     ELSE V!EnsuredBranches[m.branch].head)
    BY <1>1 DEF V!Submittable
  <2>3. /\ c \in Changesets \ V!Known
        /\ changesets' = V!Put(changesets, c, V!NewRecord(m.branch, m.base, m.status, m.target))
        /\ snapshots' = V!Put(snapshots, c, V!ApplyDelta(V!SnapshotOf(V!EnsuredBranches[m.branch].head),
                                                        m.delta))
    BY <1>1 DEF V!Store
  <2>4. \A d \in Known : changesets'[d] = changesets[d] /\ snapshots'[d] = snapshots[d]
    BY <2>1, <2>3, VersionFacts DEF V!Put, Known
  <2>5. /\ changesets'[c] = V!NewRecord(m.branch, m.base, m.status, m.target)
        /\ snapshots'[c] = V!ApplyDelta(V!SnapshotOf(V!EnsuredBranches[m.branch].head), m.delta)
        /\ DOMAIN changesets' = Known \cup {c} /\ DOMAIN snapshots' = Known \cup {c}
    BY <2>1, <2>3, VersionFacts DEF V!Put, Known
  <2>. QED BY <1>0, <2>1, <2>2, <2>3, <2>4, <2>5 DEF Known
<1>6. h \in Known \cup {None}
  BY <1>0, <1>5, VersionFacts
<1>7. /\ changesets'[c].parent = h /\ changesets'[c].branch = m.branch
      /\ changesets'[c].status = m.status
  BY <1>0, <1>5, VersionFacts DEF V!NewRecord
<1>8. /\ \A d \in Known : author'[d] = author[d]
      /\ author' \in [Known' -> [client : Clients, set : (Clients \X Nat) \cup {None}]]
      /\ author'[c].client = u /\ author'[c].set = m.set
  <2>1. [client |-> u, set |-> m.set] \in [client : Clients, set : (Clients \X Nat) \cup {None}]
    BY <1>4
  <2>2. DOMAIN author' = Known' /\ author' = [x \in Known' |-> author'[x]]
    BY <1>1, <1>5, VersionFacts DEF V!Put
  <2>3. author'[c] = [client |-> u, set |-> m.set] /\ \A d \in Known : author'[d] = author[d]
    BY <1>1, <1>5, VersionFacts DEF V!Put
  <2>. QED BY <2>1, <2>2, <2>3, <1>5, VersionFacts
<1>9. /\ DOMAIN branches' = DOMAIN branches
      /\ \A b \in DOMAIN branches : b # m.branch => branches'[b] = branches[b]
      /\ branches'[m.branch].head = IF m.status = "visible" THEN c ELSE h
  BY <1>0, <1>1, <1>5, VersionFacts DEF V!Store, V!AdvanceHead
<1>10. ASSUME NEW d \in Known \cup {None}, NEW p \in Paths PROVE BlobAt(d, p)' = BlobAt(d, p)
  <2>1. V!SnapshotOf(d)' = V!SnapshotOf(d)
    BY <1>5, VersionFacts, ManagerAssumptions DEF V!SnapshotOf, V!NoAssets
  <2>2. BlobAt(d, p) = Manager!BlobOf(V!SnapshotOf(d)[p])
    BY SameManager DEF BlobAt
  <2>3. BlobAt(d, p)' = Manager!BlobOf(V!SnapshotOf(d)'[p])
    BY DEF BlobAt, Manager!SnapshotOf, V!SnapshotOf, Manager!NoAssets, V!NoAssets, Manager!BlobOf
  <2>. QED BY <2>1, <2>2, <2>3
<1>11. ASSUME NEW p \in Paths, m.delta[p] = Keep PROVE BlobAt(c, p)' = BlobAt(h, p)
  <2>1. V!SnapshotOf(c)' = snapshots'[c]
    BY <1>5 DEF V!SnapshotOf
  <2>2. snapshots'[c][p] = V!SnapshotOf(h)[p]
    BY <1>5, <1>11 DEF V!ApplyDelta
  <2>3. BlobAt(h, p) = Manager!BlobOf(V!SnapshotOf(h)[p])
    BY SameManager DEF BlobAt
  <2>4. BlobAt(c, p)' = Manager!BlobOf(V!SnapshotOf(c)'[p])
    BY DEF BlobAt, Manager!SnapshotOf, V!SnapshotOf, Manager!NoAssets, V!NoAssets, Manager!BlobOf
  <2>. QED BY <2>1, <2>2, <2>3, <2>4
<1>12. V!Good
  <2>1. m.target # None =>
          /\ m.target \in V!Known
          /\ \A a \in Paths :
               V!BlobOf(snapshots'[c][a]) = V!BlobOf(snapshots[m.target][a])
    <3>1. SUFFICES ASSUME m.target # None
                   PROVE  /\ m.target \in Known
                          /\ \A a \in Paths :
                               V!BlobOf(snapshots'[c][a]) = V!BlobOf(snapshots[m.target][a])
      BY VersionFacts DEF V!Known, Known
    <3>2. /\ m.base \in Known /\ m.target \in Known
          /\ m.delta = V!RollbackDelta(snapshots[m.base], snapshots[m.target])
      BY <3>1, <1>2
    <3>3. h = m.base
      BY <3>2, <1>5, VersionFacts, ManagerAssumptions
    <3>4. V!SnapshotOf(h) = snapshots[m.base] /\ snapshots[m.target] \in V!Snapshot
      BY <3>2, <3>3, VersionFacts DEF V!SnapshotOf
    <3>5. snapshots'[c] = V!ApplyDelta(snapshots[m.base], V!RollbackDelta(snapshots[m.base], snapshots[m.target]))
      BY <3>2, <3>4, <1>5
    <3>6. \A a \in Paths : V!BlobOf(snapshots'[c][a]) = V!BlobOf(snapshots[m.target][a])
      BY <3>4, <3>5, V!RollbackDeltaRestores, ManagerAssumptions
    <3>. QED BY <3>2, <3>6
  <2>2. V!PlansShrink
    BY DEF V!PlansShrink
  <2>3. m.status \in {"draft", "visible"}
    BY <1>2
  <2>4. [r \in {} |-> None]' \in [{} -> V!Plan \cup {None}]
    OBVIOUS
  <2>. QED BY <2>1, <2>2, <2>3, <2>4, <1>1, <1>3, <1>4, V!StoreGood, ManagerAssumptions
<1>13. exists' = TRUE /\ defaultBranch' = defaultBranch
  BY <1>1 DEF V!EnsureRepo
<1>14. TakesEffect(u, m, h, c)
  BY <1>0, <1>2, <1>5, <1>7, <1>8, <1>9, <1>10, <1>11, <1>12, <1>13 DEF TakesEffect
<1>. QED BY <1>14

\* A submission that takes effect on a branch where another's change is held has
\* its base before that change, and is refused, or leaves the path as it is.
LEMMA TakeEffectKeeps ==
  ASSUME HandlersInv, NEW u \in Clients, TakeEffect(u)
  PROVE  HandlersGood
<1>0. PICK m, h, c : TakesEffect(u, m, h, c)
  BY TakeEffectFacts
<1> DEFINE answer == IF m.kind # "submit" THEN None ELSE Answer(NextChangeset)
<1>2. /\ IsAt(u, "checked")
      /\ held' = [x \in Branches \X Paths |->
           IF /\ x[1] = m.branch /\ m.status = "visible"
              /\ lock[x[2]] = u /\ m.delta[x[2]] # Keep
           THEN u ELSE held[x]]
      /\ request' = [request EXCEPT ![u] = answer]
      /\ lock' = lock
  BY <1>0 DEF TakeEffect, TakesEffect
<1>3. V!IInv' /\ Manager!TypeOK'
  BY <1>0, GoodStep DEF TakesEffect
<1>4. VersionsGrow
  BY <1>0 DEF VersionsGrow, TakesEffect
<1>5. RepoMade'
  BY <1>0 DEF HandlersInv, RepoMade, TakesEffect
<1>6. /\ request \in [Clients -> Message \cup [made : Changesets, at : {"answer"}] \cup {None}]
      /\ lock \in [Paths -> Clients \cup {None}] /\ held \in [Branches \X Paths -> Clients \cup {None}]
      /\ None \notin Clients
  BY MarkersAreFresh DEF HandlersInv, HandlerTypeOK
<1>7. /\ request'[u] = None \/ (request'[u] = [made |-> c, at |-> "answer"])
      /\ \A w \in Clients \ {u} : request'[w] = request[w]
      /\ request' \in [Clients -> Message \cup [made : Changesets, at : {"answer"}] \cup {None}]
  <2>1. answer = None \/ answer = [made |-> c, at |-> "answer"]
    BY <1>0 DEF Answer, TakesEffect
  <2>2. answer \in Message \cup [made : Changesets, at : {"answer"}] \cup {None}
    BY <2>1, <1>0 DEF TakesEffect
  <2>. HIDE DEF answer
  <2>. QED BY <2>1, <2>2, <1>2, <1>6
<1>. HIDE DEF answer
<1>8. /\ held' \in [Branches \X Paths -> Clients \cup {None}]
      /\ \A b \in Branches, p \in Paths :
           held'[<<b, p>>] = IF /\ b = m.branch /\ m.status = "visible"
                                /\ lock[p] = u /\ m.delta[p] # Keep
                             THEN u ELSE held[<<b, p>>]
  BY <1>2, <1>6
<1>9. HandlerTypeOK'
  BY <1>0, <1>2, <1>3, <1>6, <1>7, <1>8 DEF HandlerTypeOK, Message, TakesEffect
<1>10. ASSUME NEW w \in Clients PROVE RequestFits(w)'
  <2>1. CASE w = u
    <3>1. ~IsPending(w)' /\ ~IsAt(w, "checked")'
      BY <2>1, <1>7 DEF IsPending, IsAt
    <3>2. IsAt(w, "answer")' => request'[w].made = c
      BY <2>1, <1>7 DEF IsAt
    <3>. QED BY <3>1, <3>2, <2>1, <1>0 DEF RequestFits, TakesEffect
  <2>2. CASE w # u
    BY <2>2, <1>4, <1>7, FitsKept
  <2>. QED BY <2>1, <2>2
\* Everyone else who passed the checks did so before c was made.
<1>11. ASSUME NEW w \in Clients, IsAt(w, "checked")'
       PROVE  /\ IsAt(w, "checked") /\ request'[w] = request[w] /\ w # u
              /\ request'[w].base # c
  <2>1. w # u /\ request'[w] = request[w]
    BY <1>7, <1>11 DEF IsAt
  <2>2. IsAt(w, "checked") /\ IsPending(w)
    BY <2>1, <1>11 DEF IsAt, IsPending
  <2>3. request[w].base \in Known \cup {None, Root}
    BY <2>2 DEF HandlersInv, RequestFits
  <2>. QED BY <2>1, <2>2, <2>3, <1>0, ManagerAssumptions DEF TakesEffect
<1>12. h \in Known \cup {None}
  BY <1>0, VersionFacts DEF TakesEffect
\* The change takes effect: it is what is recent.
<1>13. ASSUME NEW p \in Paths, m.status = "visible", lock[p] = u, m.delta[p] # Keep
       PROVE  IsSince(m.branch, p, {c})'
  <2>1. held'[<<m.branch, p>>] = u
    BY <1>0, <1>8, <1>13, VersionFacts DEF TakesEffect
  <2>2. branches'[m.branch].head \in {c}
    BY <1>0, <1>13 DEF TakesEffect
  <2>3. ASSUME NEW d \in Known' PROVE changesets'[d].parent # c
    BY <1>0, <1>12, VersionFacts, ManagerAssumptions DEF TakesEffect
  <2>. QED BY <2>2, <2>3, <1>11 DEF IsSince
\* A change that is held stays recent.
<1>14. ASSUME NEW b \in Branches, NEW p \in Paths, held[<<b, p>>] # None,
              held'[<<b, p>>] = held[<<b, p>>], NEW new \in SUBSET Known, IsSince(b, p, new),
              b \in DOMAIN branches,
              b = m.branch /\ u # held[<<b, p>>] /\ h \in new => m.delta[p] = Keep
       PROVE  \E after \in SUBSET Known' : IsSince(b, p, after)'
  <2> DEFINE after == IF h \in new THEN new \cup {c} ELSE new
  <2>1. after \in SUBSET Known' /\ c \notin new /\ new \subseteq after
    BY <1>0 DEF TakesEffect
  <2>2. branches'[b].head \in after
    <3>1. branches[b].head \in new
      BY <1>14 DEF IsSince
    <3>2. CASE b = m.branch
      BY <3>1, <3>2, <1>0 DEF TakesEffect
    <3>3. CASE b # m.branch
      BY <3>1, <3>3, <1>0, <1>14 DEF TakesEffect
    <3>. QED BY <3>2, <3>3
  <2>3. ASSUME NEW d \in Known', changesets'[d].parent \in after PROVE d \in after
    <3>1. CASE d = c
      BY <3>1, <2>3, <1>0, <1>12, ManagerAssumptions DEF TakesEffect
    <3>2. CASE d \in Known
      <4>1. changesets[d].parent \in new
        BY <3>2, <2>3, <1>0, VersionFacts, ManagerAssumptions DEF TakesEffect
      <4>. QED BY <4>1, <3>2, <1>14 DEF IsSince
    <3>. QED BY <3>1, <3>2, <1>0 DEF TakesEffect
  <2>4. ASSUME NEW w \in Clients, IsAt(w, "checked")', w # held'[<<b, p>>],
               request'[w].branch = b, request'[w].delta[p] # Keep
        PROVE  request'[w].base \notin after
    BY <2>4, <1>11, <1>14 DEF IsSince
  <2>5. ASSUME NEW d \in Known', changesets'[d].branch = b, changesets'[d].status # "visible",
               author'[d].client # held'[<<b, p>>],
               BlobAt(d, p)' # BlobAt(changesets[d].parent, p)'
        PROVE  changesets'[d].parent \notin after
    <3>1. CASE d = c
      <4>1. b = m.branch /\ u # held[<<b, p>>]
        BY <3>1, <2>5, <1>0, <1>14 DEF TakesEffect
      <4>2. BlobAt(h, p)' = BlobAt(h, p) /\ changesets'[d].parent = h
        BY <3>1, <1>0, <1>12 DEF TakesEffect
      <4>3. m.delta[p] # Keep
        BY <3>1, <4>2, <2>5, <1>0 DEF TakesEffect
      <4>. QED BY <4>1, <4>2, <4>3, <1>0, <1>12, <1>14, ManagerAssumptions DEF TakesEffect
    <3>2. CASE d \in Known
      <4>1. changesets'[d] = changesets[d] /\ author'[d] = author[d]
            /\ changesets[d].parent \in Known \cup {None}
        BY <3>2, <1>0, VersionFacts DEF TakesEffect
      <4>2. BlobAt(d, p) # BlobAt(changesets[d].parent, p)
        <5>1. \A x \in Known \cup {None} : BlobAt(x, p)' = BlobAt(x, p)
          BY <1>0 DEF TakesEffect
        <5>. QED BY <5>1, <3>2, <4>1, <2>5
      <4>3. changesets[d].parent \notin new
        BY <3>2, <4>1, <4>2, <2>5, <1>14 DEF IsSince
      <4>. QED BY <4>1, <4>3, <1>0, ManagerAssumptions DEF TakesEffect
    <3>. QED BY <3>1, <3>2, <1>0 DEF TakesEffect
  <2>. HIDE DEF after
  <2>6. IsSince(b, p, after)'
    BY <2>2, <2>3, <2>4, <2>5 DEF IsSince
  <2>. QED BY <2>1, <2>6
\* Another's change of the path is based on what was before.
<1>15. ASSUME NEW b \in Branches, NEW p \in Paths, NEW new \in SUBSET Known, IsSince(b, p, new),
              b = m.branch, u # held[<<b, p>>], h \in new
       PROVE  m.delta[p] = Keep
  <2>1. m.base = h
    BY <1>0, <1>15, VersionFacts DEF TakesEffect
  <2>2. m = request[u]
    BY <1>0 DEF TakesEffect
  <2>. QED BY <2>1, <2>2, <1>2, <1>15 DEF IsSince
<1>16. ASSUME NEW b \in Branches, NEW p \in Paths, held[<<b, p>>] # None
       PROVE  /\ lock[p] = held[<<b, p>>] /\ b \in DOMAIN branches
              /\ \E new \in SUBSET Known : IsSince(b, p, new)
  BY <1>16 DEF HandlersInv, HeldIsRecent
<1>17. HeldIsRecent'
  <2>1. SUFFICES ASSUME NEW b \in Branches, NEW p \in Paths, held'[<<b, p>>] # None
                 PROVE  /\ lock[p] = held'[<<b, p>>] /\ b \in DOMAIN branches
                        /\ \E after \in SUBSET Known' : IsSince(b, p, after)'
    BY <1>0, <1>2 DEF HeldIsRecent, TakesEffect
  <2>2. CASE /\ b = m.branch /\ m.status = "visible"
             /\ lock[p] = u /\ m.delta[p] # Keep
    <3>1. IsSince(b, p, {c})' /\ {c} \in SUBSET Known'
      BY <2>2, <1>0, <1>13 DEF TakesEffect
    <3>. QED BY <3>1, <2>2, <1>0, <1>8 DEF TakesEffect
  <2>3. CASE ~(/\ b = m.branch /\ m.status = "visible"
               /\ lock[p] = u /\ m.delta[p] # Keep)
    <3>1. held'[<<b, p>>] = held[<<b, p>>]
      BY <2>3, <1>8
    <3>2. PICK new \in SUBSET Known : IsSince(b, p, new)
      BY <3>1, <2>1, <1>16
    <3>. QED BY <3>1, <3>2, <2>1, <1>14, <1>15, <1>16
  <2>. QED BY <2>2, <2>3
<1>18. HolderStep
  <2>1. SUFFICES ASSUME NEW b \in DOMAIN branches, NEW p \in Paths, held[<<b, p>>] # None,
                        BlobAt(HeadOf(b), p) # BlobAt(HeadOf(b), p)'
                 PROVE  author'[branches'[b].head].client = held[<<b, p>>]
    BY DEF HolderStep
  <2>2. HeadOf(b) = branches[b].head /\ HeadOf(b)' = branches'[b].head /\ b \in Branches
    BY <1>0, VersionFacts DEF HeadOf, TakesEffect
  <2>3. branches[b].head \in Known \cup {None}
    BY VersionFacts
  <2>4. CASE branches'[b].head = branches[b].head
    <3>0. PICK x : x = branches[b].head
      OBVIOUS
    <3>1. BlobAt(HeadOf(b), p)' = BlobAt(x, p)'
      BY <3>0, <2>2, <2>4 DEF BlobAt, Manager!SnapshotOf, Manager!NoAssets, Manager!BlobOf
    <3>. QED BY <3>0, <3>1, <2>1, <2>2, <2>3, <1>0 DEF TakesEffect
  <2>5. CASE branches'[b].head # branches[b].head
    <3>1. b = m.branch /\ branches'[b].head = c
      BY <2>5, <1>0 DEF TakesEffect
    <3>2. CASE u = held[<<b, p>>]
      BY <3>1, <3>2, <1>0 DEF TakesEffect
    <3>3. CASE u # held[<<b, p>>]
      <4>1. PICK new \in SUBSET Known : IsSince(b, p, new)
        BY <2>1, <2>2, <1>16
      <4>2. h \in new
        BY <4>1, <3>1, <1>0 DEF IsSince, TakesEffect
      <4>3. m.delta[p] = Keep
        BY <4>1, <4>2, <3>1, <3>3, <2>2, <1>15
      <4>4. BlobAt(HeadOf(b), p)' = BlobAt(c, p)'
        BY <2>2, <3>1 DEF BlobAt, Manager!SnapshotOf, Manager!NoAssets, Manager!BlobOf
      <4>5. BlobAt(HeadOf(b), p) = BlobAt(h, p)
        BY <2>2, <3>1, <1>0 DEF TakesEffect
      <4>. QED BY <4>3, <4>4, <4>5, <2>1, <1>0 DEF TakesEffect
    <3>. QED BY <3>2, <3>3
  <2>. QED BY <2>4, <2>5
<1>. QED BY <1>3, <1>4, <1>5, <1>9, <1>10, <1>17, <1>18 DEF HandlersGood, HandlersInv

\* A repository that was created has nothing in it.
LEMMA HandlersInvInit == HandlerInit => HandlersInv
<1>. SUFFICES ASSUME HandlerInit PROVE HandlersInv
  OBVIOUS
<1>1. /\ exists = TRUE /\ defaultBranch = Main /\ Known = {} /\ V!Known = {}
      /\ DOMAIN branches = {Main}
      /\ branches[Main].head = None /\ branches[Main].history = << >>
      /\ branches[Main] \in V!BranchState
      /\ branches = [b \in DOMAIN branches |-> branches[b]]
      /\ changesets = [c \in {} |-> None] /\ snapshots = [c \in {} |-> V!NoAssets]
  BY DEF HandlerInit, Known, V!Known, Manager!NewBranch, V!BranchState, Manager!NoAssets, V!NoAssets
<1>2. V!TypeOK
  <2>1. [r \in {} |-> None] \in [{} -> V!Plan \cup {None}]
    OBVIOUS
  <2>. QED BY <1>1, <2>1, MainIsABranch DEF V!TypeOK
<1>3. V!LineageDefined
  <2>1. \A g : V!Solves(g, changesets) <=> g = [c \in {} |-> << >>]
    BY <1>1 DEF V!Solves
  <2>. QED BY <2>1, <1>1 DEF V!LineageDefined
<1>4. V!IInv
  BY <1>1, <1>2, <1>3
     DEF V!IInv, V!NoBranchesBeforeRepo, V!ParentsKnown, V!RestoresKnown, V!BaseIsParent,
         V!HistoryIsLineage, V!OnKnownBranch, V!VisibleIffInOwnHistory, V!PlansAreDiffs,
         V!RollbackRestoresContent
<1>5. HandlerTypeOK
  BY <1>1, <1>2, SameManager DEF HandlerTypeOK, HandlerInit
<1>6. RepoMade
  BY <1>1 DEF RepoMade
<1>7. \A u \in Clients : RequestFits(u)
  BY DEF HandlerInit, RequestFits, IsPending, IsAt
<1>8. HeldIsRecent
  BY DEF HandlerInit, HeldIsRecent
<1>. QED BY <1>4, <1>5, <1>6, <1>7, <1>8 DEF HandlersInv

-----------------------------------------------------------------------------
(* The steps of the clients. *)

\* A change of what is staged is counted.
EditStep(u) ==
  \/ edits'[u] = edits[u] + 1
  \/ /\ edits'[u] = edits[u]
     /\ stage'[u].delta # NoDelta =>
          stage[u].delta # NoDelta /\ stage'[u].base = stage[u].base /\ profile'[u] = profile[u]

\* What is checked out or made stays so.
LEMMA OwnKept ==
  ASSUME VersionsGrow, NEW u, seen[u] \subseteq seen'[u], NEW c, IsOwn(u, c)
  PROVE  IsOwn(u, c)'
BY DEF VersionsGrow, IsOwn

\* No changeset is made, and every client fits.
LEMMA ClientsStep ==
  ASSUME HandlersInv, ClientsInv, VersionsGrow, Known' = Known,
         load' = load, ClientTypes', SessionBases',
         \A u \in Clients : BasesFit(u)' /\ SetIsStaged(u)' /\ EditStep(u) /\ seen[u] \subseteq seen'[u]
  PROVE  ClientsInv'
<1>1. \A c \in Known : /\ changesets'[c].parent = changesets[c].parent
                       /\ changesets'[c].branch = changesets[c].branch
                       /\ author'[c] = author[c]
                       /\ author[c].client \in Clients
                       /\ SetIsOfAuthor(c)
  BY VersionFacts DEF VersionsGrow, ClientsInv
<1>2. \A u \in Clients : edits[u] \in Nat /\ edits'[u] \in Nat /\ edits[u] <= edits'[u]
  <2>1. SUFFICES ASSUME NEW u \in Clients
                 PROVE  edits[u] \in Nat /\ edits'[u] \in Nat /\ edits[u] <= edits'[u]
    OBVIOUS
  <2>2. edits[u] \in Nat /\ edits'[u] \in Nat
    BY DEF ClientsInv, ClientTypes
  <2>3. edits'[u] = edits[u] + 1 \/ edits'[u] = edits[u]
    BY DEF EditStep
  <2>. QED BY <2>2, <2>3
<1>3. ASSUME NEW c \in Known PROVE SetIsOfAuthor(c)'
  <2>1. SUFFICES ASSUME author[c].set # None
                 PROVE  /\ \E n \in 0..edits'[author[c].client] : author[c].set = <<author[c].client, n>>
                        /\ changesets[c].parent \in Known
                        /\ "sync" \notin load.ops => IsOwn(author[c].client, changesets[c].parent)'
    BY <1>1 DEF SetIsOfAuthor, IsOwn
  <2>2. PICK n \in 0..edits[author[c].client] : author[c].set = <<author[c].client, n>>
    BY <1>1, <2>1 DEF SetIsOfAuthor
  <2>3. n \in 0..edits'[author[c].client]
    BY <1>1, <1>2, <2>2
  <2>4. changesets[c].parent \in Known
        /\ ("sync" \notin load.ops => IsOwn(author[c].client, changesets[c].parent))
    BY <1>1, <2>1 DEF SetIsOfAuthor
  <2>5. PICK u, x : u = author[c].client /\ x = changesets[c].parent
    OBVIOUS
  <2>6. "sync" \notin load.ops => IsOwn(u, x)'
    BY <1>1, <2>4, <2>5, OwnKept
  <2>. QED BY <1>1, <2>2, <2>3, <2>4, <2>5, <2>6 DEF IsOwn
<1>4. StagedOnBase'
  <2>0. SUFFICES ASSUME NEW c \in Known', NEW u \in Clients,
                        author'[c].set = <<u, edits'[u]>>, author'[c].set # None,
                        stage'[u].delta # NoDelta
                 PROVE  changesets'[c].parent = stage'[u].base /\ changesets'[c].branch = profile'[u]
    BY DEF StagedOnBase
  <2>1. /\ c \in Known /\ author[c].set = <<u, edits'[u]>> /\ author[c].set # None
        /\ changesets'[c].parent = changesets[c].parent /\ changesets'[c].branch = changesets[c].branch
    BY <2>0, <1>1
  <2>2. PICK n \in 0..edits[author[c].client] : author[c].set = <<author[c].client, n>>
    BY <1>1, <2>1 DEF SetIsOfAuthor
  <2>3. u = author[c].client /\ n = edits'[u] /\ n <= edits[u]
    BY <2>1, <2>2, <1>1, <1>2
  <2>4. edits'[u] = edits[u]
    BY <2>3, <1>2
  <2>5. stage[u].delta # NoDelta /\ stage'[u].base = stage[u].base /\ profile'[u] = profile[u]
    BY <2>0, <2>4, <1>2 DEF EditStep
  <2>. QED BY <2>1, <2>4, <2>5 DEF ClientsInv, StagedOnBase
<1>5. SetHasOneParent'
  BY <1>1 DEF ClientsInv, SetHasOneParent
<1>. QED BY <1>3, <1>4, <1>5 DEF ClientsInv

\* A client whose bases are left alone keeps bases that fit.
LEMMA BasesKept ==
  ASSUME VersionsGrow, MadeGrows, NEW u, BasesFit(u), load' = load, Len(madeSessions) \in Nat, Len(madeSessions') \in Nat,
         stage'[u].base = stage[u].base, workspace'[u] = workspace[u], session'[u] = session[u],
         seen[u] \subseteq seen'[u]
  PROVE  BasesFit(u)'
<1>1. \A c : IsOwn(u, c) => IsOwn(u, c)'
  BY OwnKept
<1>2. session[u] # None =>
        /\ session[u] \in 1..Len(madeSessions')
        /\ madeSessions'[session[u]].base = madeSessions[session[u]].base
  BY DEF MadeGrows, BasesFit
<1>3. PICK x, y, z : x = stage[u].base /\ y = workspace[u].base /\ z = madeSessions[session[u]].base
  OBVIOUS
<1>4. "sync" \notin load.ops =>
        /\ IsOwn(u, x)'
        /\ workspace[u] # None => IsOwn(u, y)'
        /\ session[u] # None => IsOwn(u, z)'
  BY <1>1, <1>3 DEF BasesFit
<1>. QED BY <1>2, <1>3, <1>4 DEF BasesFit, VersionsGrow, IsOwn

\* The clients are left alone.
LEMMA ClientsUnchanged ==
  ASSUME IInv, UNCHANGED clientVars, VersionsGrow, Known' = Known, MadeGrows, SessionsInv',
         SessionBases', \A u \in Clients : SetIsStaged(u)'
  PROVE  ClientsInv'
<1>1. /\ load' = load /\ files' = files /\ profile' = profile /\ stage' = stage
      /\ workspace' = workspace /\ session' = session /\ edits' = edits /\ seen' = seen
  BY DEF clientVars
<1>2. ClientTypes'
  BY <1>1 DEF IInv, ClientsInv, ClientTypes, StageType, WorkspaceType, Manager!Delta, Manager!Entry
<1>3. Len(madeSessions) \in Nat /\ Len(madeSessions') \in Nat
  BY DEF IInv, SessionsInv
<1>4. \A u \in Clients : BasesFit(u)'
  BY <1>1, <1>3, BasesKept DEF IInv, ClientsInv
<1>5. \A u \in Clients : EditStep(u)
  BY <1>1 DEF EditStep
<1>. QED BY <1>1, <1>2, <1>4, <1>5, ClientsStep DEF IInv

UserTyped(u) ==
  /\ files[u] \in [Paths -> Blobs \cup {None}]
  /\ profile[u] \in Branches
  /\ stage[u] \in StageType
  /\ workspace[u] \in WorkspaceType \cup {None}
  /\ session[u] \in SessionIds \cup {None}
  /\ edits[u] \in Nat
  /\ seen[u] \in SUBSET Changesets

OnlyChanges(u) ==
  /\ load' = load
  /\ files' = [files EXCEPT ![u] = files'[u]]
  /\ profile' = [profile EXCEPT ![u] = profile'[u]]
  /\ stage' = [stage EXCEPT ![u] = stage'[u]]
  /\ workspace' = [workspace EXCEPT ![u] = workspace'[u]]
  /\ session' = [session EXCEPT ![u] = session'[u]]
  /\ edits' = [edits EXCEPT ![u] = edits'[u]]
  /\ seen' = [seen EXCEPT ![u] = seen'[u]]
  /\ \A w \in Clients \ {u} : request'[w] = request[w]

\* A client changes what is its own.
LEMMA UserStep ==
  ASSUME IInv, NEW u \in Clients, OnlyChanges(u), VersionsGrow, Known' = Known, MadeGrows, SessionsInv',
         SessionBases', UserTyped(u)', BasesFit(u)', SetIsStaged(u)', EditStep(u),
         seen[u] \subseteq seen'[u]
  PROVE  ClientsInv'
<1>1. ClientTypes
  BY DEF IInv, ClientsInv
<1>2. ASSUME NEW w \in Clients \ {u}
      PROVE  /\ files'[w] = files[w] /\ profile'[w] = profile[w] /\ stage'[w] = stage[w]
             /\ workspace'[w] = workspace[w] /\ session'[w] = session[w]
             /\ edits'[w] = edits[w] /\ seen'[w] = seen[w]
             /\ request'[w] = request[w]
  BY <1>1 DEF OnlyChanges, ClientTypes
<1>3. ClientTypes'
  <2>1. load' \in Workloads /\ files' \in [Clients -> [Paths -> Blobs \cup {None}]]
        /\ profile' \in [Clients -> Branches]
    BY <1>1 DEF OnlyChanges, ClientTypes, UserTyped
  <2>2. stage' \in [Clients -> StageType] /\ workspace' \in [Clients -> WorkspaceType \cup {None}]
    <3>1. stage'[u] \in StageType /\ workspace'[u] \in WorkspaceType \cup {None}
      BY DEF UserTyped, StageType, WorkspaceType, Manager!Delta, Manager!Entry
    <3>. QED BY <1>1, <3>1 DEF OnlyChanges, ClientTypes
  <2>3. session' \in [Clients -> SessionIds \cup {None}] /\ edits' \in [Clients -> Nat]
        /\ seen' \in [Clients -> SUBSET Changesets]
    BY <1>1 DEF OnlyChanges, ClientTypes, UserTyped
  <2>. QED BY <2>1, <2>2, <2>3 DEF ClientTypes, StageType, WorkspaceType, Manager!Delta, Manager!Entry
<1>4. Len(madeSessions) \in Nat /\ Len(madeSessions') \in Nat
  BY DEF IInv, SessionsInv
<1>5. \A w \in Clients : BasesFit(w)'
  BY <1>2, <1>4, BasesKept DEF IInv, ClientsInv, OnlyChanges
<1>6. \A w \in Clients : SetIsStaged(w)'
  BY <1>2 DEF IInv, ClientsInv, SetIsStaged, IsPending
<1>7. \A w \in Clients : EditStep(w) /\ seen[w] \subseteq seen'[w]
  BY <1>2 DEF EditStep
<1>. QED BY <1>3, <1>5, <1>6, <1>7, ClientsStep DEF IInv, OnlyChanges

\* A set that takes effect is staged by its author, who changed nothing since.
LEMMA TakeEffectOfClients ==
  ASSUME IInv, NEW u \in Clients, TakeEffect(u), UNCHANGED <<clientVars, sessionVars>>
  PROVE  ClientsInv'
<1>1. /\ load' = load /\ files' = files /\ profile' = profile /\ stage' = stage
      /\ workspace' = workspace /\ session' = session /\ edits' = edits /\ seen' = seen
      /\ madeSessions' = madeSessions
  BY DEF clientVars, sessionVars
<1>2. PICK m, h, c : TakesEffect(u, m, h, c)
  BY TakeEffectFacts DEF IInv
<1>3. /\ m = request[u] /\ c \notin Known /\ Known' = Known \cup {c}
      /\ m.base = IF h = None THEN Root ELSE h
      /\ h = branches[m.branch].head /\ m.branch \in DOMAIN branches
      /\ changesets'[c].parent = h /\ changesets'[c].branch = m.branch
      /\ author'[c].client = u /\ author'[c].set = m.set
      /\ \A d \in Known : /\ changesets'[d].parent = changesets[d].parent
                          /\ changesets'[d].branch = changesets[d].branch
                          /\ author'[d] = author[d]
  BY <1>2 DEF TakesEffect
<1>4. VersionsGrow
  BY TakeEffectKeeps DEF HandlersGood, IInv
<1>5. MadeGrows /\ Len(madeSessions) \in Nat /\ Len(madeSessions') \in Nat
  <2>1. UNCHANGED sessionVars
    OBVIOUS
  <2>. QED BY <2>1, <1>1, SessionsUnchanged, SessionTypes DEF IInv
<1>6. ClientTypes'
  BY <1>1 DEF IInv, ClientsInv, ClientTypes, StageType, WorkspaceType, Manager!Delta, Manager!Entry
<1>7. SessionBases'
  BY <1>1, <1>3 DEF IInv, ClientsInv, SessionBases
<1>8. \A w \in Clients : BasesFit(w)'
  BY <1>1, <1>4, <1>5, BasesKept DEF IInv, ClientsInv
<1>9. /\ \A w \in Clients : IsPending(w)' => IsPending(w) /\ request'[w] = request[w] /\ w # u
      /\ m.at = "checked" /\ request[u] # None
  <2>1. IsAt(u, "checked")
    BY DEF TakeEffect
  <2>2. request' = [request EXCEPT ![u] = IF request[u].kind # "submit" THEN None
                                          ELSE Answer(NextChangeset)]
    BY DEF TakeEffect
  <2>3. request'[u] = None \/ request'[u] = Answer(NextChangeset)
    BY <2>2 DEF IInv, HandlersInv, HandlerTypeOK
  <2>4. ~IsPending(u)'
    BY <2>3 DEF IsPending, Answer
  <2>5. \A w \in Clients : w # u => request'[w] = request[w]
    BY <2>2 DEF IInv, HandlersInv, HandlerTypeOK
  <2>. QED BY <2>1, <2>4, <2>5, <1>3 DEF IsPending, IsAt
<1>10. \A w \in Clients : SetIsStaged(w)'
  BY <1>1, <1>9 DEF IInv, ClientsInv, SetIsStaged
<1>11. ASSUME m.set # None
       PROVE  /\ m.set = <<u, edits[u]>> /\ h = stage[u].base /\ h \in Known
              /\ m.branch = profile[u] /\ stage[u].delta # NoDelta
              /\ "sync" \notin load.ops => IsOwn(u, h)
  <2>1. IsPending(u) /\ SetIsStaged(u) /\ BasesFit(u)
    BY <1>3, <1>9 DEF IsPending, IInv, ClientsInv
  <2>2. /\ m.set = <<u, edits[u]>> /\ m.base = stage[u].base /\ stage[u].base # None
        /\ m.branch = profile[u] /\ stage[u].delta # NoDelta
    BY <2>1, <1>3, <1>11 DEF SetIsStaged
  <2>3. m.base \in Known
    BY <2>1, <2>2 DEF BasesFit
  <2>4. h = m.base
    BY <2>3, <1>3, VersionFacts, ManagerAssumptions DEF IInv
  <2>. QED BY <2>1, <2>2, <2>3, <2>4 DEF BasesFit
<1>12. ASSUME NEW d \in Known' PROVE SetIsOfAuthor(d)'
  <2>1. CASE d = c
    <3>1. SUFFICES ASSUME m.set # None
                   PROVE  /\ \E n \in 0..edits'[u] : m.set = <<u, n>>
                          /\ h \in Known'
                          /\ "sync" \notin load'.ops => IsOwn(u, h)'
      BY <2>1, <1>3 DEF SetIsOfAuthor, IsOwn
    <3>2. edits[u] \in 0..edits[u]
      BY DEF IInv, ClientsInv, ClientTypes
    <3>3. IsOwn(u, h) => IsOwn(u, h)'
      BY <1>1, <1>4, OwnKept
    <3>. QED BY <3>1, <3>2, <3>3, <1>1, <1>3, <1>11
  <2>2. CASE d \in Known
    <3>1. SetIsOfAuthor(d) /\ author'[d] = author[d] /\ changesets'[d].parent = changesets[d].parent
      BY <2>2, <1>3 DEF IInv, ClientsInv
    <3>2. PICK w, x : w = author[d].client /\ x = changesets[d].parent
      OBVIOUS
    <3>3. IsOwn(w, x) => IsOwn(w, x)'
      BY <1>1, <1>4, OwnKept
    <3>. QED BY <3>1, <3>2, <3>3, <1>1, <1>3 DEF SetIsOfAuthor, IsOwn
  <2>. QED BY <2>1, <2>2, <1>3
<1>13. ASSUME NEW d \in Known, m.set # None, author[d].set = m.set
       PROVE  changesets[d].parent = h /\ changesets[d].branch = m.branch
  BY <1>11, <1>13 DEF IInv, ClientsInv, StagedOnBase
<1>14. StagedOnBase'
  <2>1. SUFFICES ASSUME NEW d \in Known', NEW w \in Clients,
                        author'[d].set = <<w, edits[w]>>, author'[d].set # None,
                        stage[w].delta # NoDelta
                 PROVE  changesets'[d].parent = stage[w].base /\ changesets'[d].branch = profile[w]
    BY <1>1 DEF StagedOnBase
  <2>2. CASE d = c
    <3>1. m.set = <<w, edits[w]>> /\ m.set # None
      BY <2>1, <2>2, <1>3
    <3>2. w = u
      BY <3>1, <1>11
    <3>. QED BY <3>1, <3>2, <2>2, <1>3, <1>11
  <2>3. CASE d \in Known
    <3>1. /\ author[d].set = <<w, edits[w]>> /\ author[d].set # None
          /\ changesets'[d].parent = changesets[d].parent
          /\ changesets'[d].branch = changesets[d].branch
      BY <2>1, <2>3, <1>3
    <3>2. StagedOnBase
      BY DEF IInv, ClientsInv
    <3>. QED BY <3>1, <3>2, <2>1, <2>3 DEF StagedOnBase
  <2>. QED BY <2>2, <2>3, <1>3
<1>15. SetHasOneParent'
  <2>1. SUFFICES ASSUME NEW d \in Known', NEW e \in Known', author'[d].set # None,
                        author'[d].set = author'[e].set
                 PROVE  /\ changesets'[d].parent = changesets'[e].parent
                        /\ changesets'[d].branch = changesets'[e].branch
    BY DEF SetHasOneParent
  <2>2. CASE d \in Known /\ e \in Known
    BY <2>1, <2>2, <1>3 DEF IInv, ClientsInv, SetHasOneParent
  <2>3. CASE d = c /\ e \in Known
    BY <2>1, <2>3, <1>3, <1>13
  <2>4. CASE d \in Known /\ e = c
    BY <2>1, <2>4, <1>3, <1>13
  <2>5. CASE d = c /\ e = c
    BY <2>5
  <2>. QED BY <2>2, <2>3, <2>4, <2>5, <1>3
<1>. QED BY <1>6, <1>7, <1>8, <1>10, <1>12, <1>14, <1>15 DEF ClientsInv

\* What every step does.
StepGood == IInv' /\ HolderStep

\* A step that leaves the handlers alone is good for them.
LEMMA HandlersUnchanged ==
  ASSUME HandlersInv, UNCHANGED handlerVars
  PROVE  HandlersGood /\ Known' = Known
<1>1. UNCHANGED <<versionVars, lock, author, held>> /\ request' = request
  BY DEF handlerVars
<1>2. VersionsGrow /\ Known' = Known
  BY <1>1, VersionsUnchanged
<1>3. \A u \in Clients : RequestFits(u)'
  BY <1>1, <1>2, FitsKept
<1>4. request' \in [Clients -> Message \cup [made : Changesets, at : {"answer"}] \cup {None}]
  BY <1>1 DEF HandlersInv, HandlerTypeOK
<1>. QED BY <1>1, <1>2, <1>3, <1>4, RequestStep

\* What is invariant of one client.
LEMMA UserFacts ==
  ASSUME IInv, NEW u \in Clients
  PROVE  /\ UserTyped(u) /\ BasesFit(u) /\ SetIsStaged(u)
         /\ DOMAIN files = Clients /\ files = [files EXCEPT ![u] = files[u]]
         /\ DOMAIN profile = Clients /\ profile = [profile EXCEPT ![u] = profile[u]]
         /\ DOMAIN stage = Clients /\ stage = [stage EXCEPT ![u] = stage[u]]
         /\ DOMAIN workspace = Clients /\ workspace = [workspace EXCEPT ![u] = workspace[u]]
         /\ DOMAIN session = Clients /\ session = [session EXCEPT ![u] = session[u]]
         /\ DOMAIN edits = Clients /\ edits = [edits EXCEPT ![u] = edits[u]]
         /\ DOMAIN seen = Clients /\ seen = [seen EXCEPT ![u] = seen[u]]
         /\ DOMAIN request = Clients
<1>1. ClientTypes /\ BasesFit(u) /\ SetIsStaged(u)
  BY DEF IInv, ClientsInv
<1>2. UserTyped(u)
  BY <1>1 DEF ClientTypes, UserTyped
<1>3. /\ DOMAIN files = Clients /\ files = [files EXCEPT ![u] = files[u]]
      /\ DOMAIN profile = Clients /\ profile = [profile EXCEPT ![u] = profile[u]]
      /\ DOMAIN stage = Clients /\ stage = [stage EXCEPT ![u] = stage[u]]
      /\ DOMAIN workspace = Clients /\ workspace = [workspace EXCEPT ![u] = workspace[u]]
      /\ DOMAIN session = Clients /\ session = [session EXCEPT ![u] = session[u]]
      /\ DOMAIN edits = Clients /\ edits = [edits EXCEPT ![u] = edits[u]]
      /\ DOMAIN seen = Clients /\ seen = [seen EXCEPT ![u] = seen[u]]
  BY <1>1 DEF ClientTypes
<1>4. DOMAIN request = Clients
  BY DEF IInv, HandlersInv, HandlerTypeOK
<1>. QED BY <1>1, <1>2, <1>3, <1>4

\* A step of a client alone, who has no request under way.
LEMMA OwnStep ==
  ASSUME IInv, NEW u \in Clients, OnlyChanges(u), UNCHANGED <<handlerVars, sessionVars>>,
         request[u] = None, UserTyped(u)', BasesFit(u)', EditStep(u), seen[u] \subseteq seen'[u]
  PROVE  StepGood
<1>1. HandlersGood /\ Known' = Known
  BY HandlersUnchanged DEF IInv
<1>2. SessionsInv' /\ MadeGrows /\ madeSessions' = madeSessions
  <2>1. UNCHANGED sessionVars
    OBVIOUS
  <2>. QED BY <2>1, SessionsUnchanged DEF IInv, sessionVars
<1>3. SessionBases'
  BY <1>1, <1>2 DEF IInv, ClientsInv, SessionBases
<1>4. SetIsStaged(u)'
  BY DEF SetIsStaged, IsPending, handlerVars
<1>5. ClientsInv'
  BY <1>1, <1>2, <1>3, <1>4, UserStep DEF HandlersGood
<1>. QED BY <1>1, <1>2, <1>5 DEF StepGood, IInv, HandlersGood

\* What a client may fetch is known and typed.
LEMMA ContentTyped ==
  ASSUME IInv
  PROVE  /\ \A c \in Known \cup {None}, p \in Paths : BlobAt(c, p) \in Blobs \cup {None}
         /\ \A c \in Known \cup {None} : Content(c) \in [Paths -> Blobs \cup {None}]
         /\ \A u \in Clients : Fetchable(u) \subseteq Known \cup {None}
         /\ Known \subseteq Changesets
<1>1. ASSUME NEW c \in Known \cup {None}, NEW p \in Paths PROVE BlobAt(c, p) \in Blobs \cup {None}
  <2>1. V!SnapshotOf(c) \in V!Snapshot
    BY VersionFacts, ManagerAssumptions DEF V!SnapshotOf, V!NoAssets, V!Snapshot, IInv
  <2>2. BlobAt(c, p) = V!BlobOf(V!SnapshotOf(c)[p])
    BY SameManager DEF BlobAt
  <2>. QED BY <2>1, <2>2 DEF V!BlobOf, V!Snapshot, V!Entry
<1>2. \A c \in Known \cup {None} : Content(c) \in [Paths -> Blobs \cup {None}]
  BY <1>1 DEF Content
<1>3. ASSUME NEW u \in Clients PROVE Fetchable(u) \subseteq Known \cup {None}
  <2>1. CASE profile[u] \notin DOMAIN branches
    BY <2>1 DEF Fetchable
  <2>2. CASE profile[u] \in DOMAIN branches
    <3> DEFINE b == branches[profile[u]]
    <3>1. b.head \in Known \cup {None}
      BY <2>2, VersionFacts DEF IInv
    <3>2. IF b.head = None THEN b.history = << >> ELSE V!IsLineage(changesets, b.history, b.head)
      BY <2>2 DEF IInv, HandlersInv, V!IInv, V!HistoryIsLineage
    <3>. HIDE DEF b
    <3>3. b.history \in Seq(Known)
      <4>0. << >> \in Seq(Known)
        OBVIOUS
      <4>1. CASE b.head = None
        BY <3>2, <4>0, <4>1
      <4>2. CASE b.head # None
        BY <3>2, <4>2 DEF V!IsLineage, Known
      <4>. QED BY <4>1, <4>2
    <3>4. Manager!Elements(b.history) \subseteq Known
      BY <3>3 DEF Manager!Elements
    <3>. QED BY <2>2, <3>1, <3>4 DEF Fetchable, HeadOf, b
  <2>. QED BY <2>1, <2>2
<1>. QED BY <1>1, <1>2, <1>3, VersionFacts DEF IInv

-----------------------------------------------------------------------------
(* Commands that leave the repository alone. *)

\* A file is edited: nothing that is staged changes.
LEMMA EditFileGood ==
  ASSUME IInv, NEW u \in Clients, NEW p \in Paths, NEW b \in load.blobs, EditFile(u, p, b)
  PROVE  StepGood
<1>1. /\ request[u] = None /\ UNCHANGED <<handlerVars, sessionVars>>
      /\ files' = [files EXCEPT ![u][p] = b]
      /\ load' = load /\ profile' = profile /\ stage' = stage /\ workspace' = workspace
      /\ session' = session /\ edits' = edits /\ seen' = seen /\ request' = request
  BY DEF EditFile, May, handlerVars
<1>2. b \in Blobs \cup {None}
  BY WorkloadsAreKnown DEF IInv, ClientsInv, ClientTypes
<1>3. files'[u] = [files[u] EXCEPT ![p] = b] /\ files' = [files EXCEPT ![u] = files'[u]]
  <2>1. DOMAIN files = Clients /\ files = [files EXCEPT ![u] = files[u]]
    BY UserFacts
  <2>. QED BY <2>1, <1>1
<1>4. OnlyChanges(u)
  BY <1>1, <1>3, UserFacts DEF OnlyChanges
<1>5. UserTyped(u)'
  BY <1>1, <1>2, <1>3, UserFacts DEF UserTyped, StageType, WorkspaceType, Manager!Delta, Manager!Entry
<1>6. EditStep(u)
  BY <1>1 DEF EditStep
<1>7. BasesFit(u)'
  BY <1>1, <1>4, UserFacts, HandlersUnchanged, SessionsUnchanged, SessionTypes, BasesKept
     DEF IInv, HandlersGood
<1>. QED BY <1>1, <1>4, <1>5, <1>6, <1>7, OwnStep

\* A base that a client may keep.
MayBase(u, x) == x \in Known \cup {None} /\ ("sync" \notin load.ops => IsOwn(u, x))

\* The bases a client keeps, and what a step leaves of them.
LEMMA BasesOf ==
  ASSUME IInv, NEW u \in Clients
  PROVE  /\ MayBase(u, None) /\ MayBase(u, stage[u].base)
         /\ workspace[u] # None => MayBase(u, workspace[u].base)
         /\ session[u] # None =>
              session[u] \in 1..Len(madeSessions) /\ MayBase(u, madeSessions[session[u]].base)
<1>1. BasesFit(u) /\ SessionBases
  BY UserFacts DEF IInv, ClientsInv
<1>. QED BY <1>1 DEF MayBase, BasesFit, SessionBases, IsOwn

\* A base that a client may keep stays one.
LEMMA MayBaseKept ==
  ASSUME VersionsGrow, NEW u, seen[u] \subseteq seen'[u], load' = load, NEW x, MayBase(u, x)
  PROVE  MayBase(u, x)'
<1>1. IsOwn(u, x) => IsOwn(u, x)'
  BY OwnKept
<1>. QED BY <1>1 DEF MayBase, VersionsGrow

\* The bases of a client fit if those it takes do.
LEMMA BasesFrom ==
  ASSUME IInv, NEW u \in Clients, VersionsGrow, MadeGrows, Len(madeSessions') \in Nat, load' = load,
         session'[u] = session[u], seen[u] \subseteq seen'[u],
         NEW x, stage'[u].base = x, MayBase(u, x)',
         NEW y, workspace'[u] # None => workspace'[u].base = y /\ MayBase(u, y)'
  PROVE  BasesFit(u)'
<1>1. PICK z : z = madeSessions[session[u]].base
  OBVIOUS
<1>2. Len(madeSessions) \in Nat
  BY DEF IInv, SessionsInv
<1>3. session[u] # None => MayBase(u, z)'
  BY <1>1, BasesOf, MayBaseKept
<1>4. session[u] # None => /\ session[u] \in 1..Len(madeSessions')
                           /\ madeSessions'[session[u]].base = z
  BY <1>1, <1>2, BasesOf DEF MadeGrows
<1>. QED BY <1>3, <1>4 DEF BasesFit, MayBase

\* What a step of a client alone leaves of the rest.
LEMMA RestKept ==
  ASSUME IInv, UNCHANGED <<handlerVars, sessionVars>>
  PROVE  VersionsGrow /\ Known' = Known /\ MadeGrows /\ Len(madeSessions') \in Nat /\ request' = request
<1>1. UNCHANGED handlerVars /\ UNCHANGED sessionVars
  OBVIOUS
<1>2. VersionsGrow /\ Known' = Known
  BY <1>1, HandlersUnchanged DEF IInv, HandlersGood
<1>3. MadeGrows /\ Len(madeSessions') \in Nat
  BY <1>1, SessionsUnchanged, SessionTypes DEF IInv, sessionVars
<1>. QED BY <1>1, <1>2, <1>3 DEF handlerVars

\* An asset is staged on the base of the stage, or on none in a new one.
LEMMA StageAssetGood ==
  ASSUME IInv, NEW u \in Clients, NEW p \in Paths, NEW entry \in V!Entry \cup {None},
         request[u] = None, StageAsset(u, p, entry)
  PROVE  StepGood
<1> DEFINE old == IF stage[u].branch = profile[u] THEN stage[u] ELSE EmptyStage(profile[u], None)
           new == [old EXCEPT !.delta[p] = entry]
<1>1. /\ UNCHANGED <<handlerVars, sessionVars>>
      /\ edits' = [edits EXCEPT ![u] = edits[u] + 1]
      /\ stage' = [stage EXCEPT ![u] = new]
      /\ load' = load /\ files' = files /\ profile' = profile /\ workspace' = workspace
      /\ session' = session /\ seen' = seen
  BY DEF StageAsset, Change
<1>2. VersionsGrow /\ Known' = Known /\ MadeGrows /\ Len(madeSessions') \in Nat /\ request' = request
  BY <1>1, RestKept
<1>3. old \in StageType /\ old.base \in {stage[u].base, None}
  <2>1. NoDelta \in Manager!Delta
    BY DEF NoDelta, Manager!Delta
  <2>. QED BY <2>1, UserFacts DEF UserTyped, StageType, EmptyStage
<1>. HIDE DEF old
<1>4. new \in StageType /\ new.base = old.base
  BY <1>3, SameManager DEF StageType, V!Delta, V!Entry
<1>. HIDE DEF new
<1>5. stage'[u] = new /\ stage' = [stage EXCEPT ![u] = stage'[u]]
      /\ edits'[u] = edits[u] + 1 /\ edits' = [edits EXCEPT ![u] = edits'[u]]
  BY <1>1, UserFacts
<1>6. OnlyChanges(u)
  BY <1>1, <1>2, <1>5, UserFacts DEF OnlyChanges
<1>7. UserTyped(u)'
  BY <1>1, <1>4, <1>5, UserFacts DEF UserTyped, StageType, WorkspaceType, Manager!Delta, Manager!Entry
<1>8. EditStep(u)
  BY <1>5 DEF EditStep
<1>9. BasesFit(u)'
  <2>1. PICK x, y : x = new.base /\ y = workspace[u].base
    OBVIOUS
  <2>2. MayBase(u, x) /\ (workspace[u] # None => MayBase(u, y))
    BY <2>1, <1>3, <1>4, BasesOf
  <2>3. MayBase(u, x)' /\ (workspace[u] # None => MayBase(u, y)')
    BY <2>2, <1>1, <1>2, MayBaseKept
  <2>. QED BY <2>1, <2>3, <1>1, <1>2, <1>5, BasesFrom
<1>. QED BY <1>1, <1>6, <1>7, <1>8, <1>9, OwnStep

\* A file is staged as it is.
LEMMA AddFileGood ==
  ASSUME IInv, NEW u \in Clients, NEW p \in Paths, AddFile(u, p)
  PROVE  StepGood
<1>1. request[u] = None /\ files[u][p] # None /\ StageAsset(u, p, Written(p, files[u][p]))
  BY DEF AddFile, May
<1>2. Written(p, files[u][p]) \in V!Entry
  BY <1>1, UserFacts DEF UserTyped, Written, V!Entry
<1>. QED BY <1>1, <1>2, StageAssetGood

\* A removal is staged.
LEMMA RemoveAssetGood ==
  ASSUME IInv, NEW u \in Clients, NEW p \in Paths, RemoveAsset(u, p)
  PROVE  StepGood
BY StageAssetGood DEF RemoveAsset, May

\* A client changes its own state alone: what it stages and keeps afterwards.
LEMMA OwnChange ==
  ASSUME IInv, NEW u \in Clients, request[u] = None, UNCHANGED <<handlerVars, sessionVars>>,
         NEW f \in [Paths -> Blobs \cup {None}], files' = [files EXCEPT ![u] = f],
         NEW b \in Branches, profile' = [profile EXCEPT ![u] = b],
         NEW s \in StageType, stage' = [stage EXCEPT ![u] = s],
         NEW w \in WorkspaceType \cup {None}, workspace' = [workspace EXCEPT ![u] = w],
         NEW n \in SUBSET Changesets, seen' = [seen EXCEPT ![u] = n], seen[u] \subseteq n,
         edits' = [edits EXCEPT ![u] = edits[u] + 1],
         load' = load, session' = session,
         MayBase(u, s.base)', w # None => MayBase(u, w.base)'
  PROVE  StepGood
<1>1. VersionsGrow /\ Known' = Known /\ MadeGrows /\ Len(madeSessions') \in Nat /\ request' = request
  BY RestKept
<1>2. /\ files'[u] = f /\ profile'[u] = b /\ stage'[u] = s /\ workspace'[u] = w
      /\ seen'[u] = n /\ edits'[u] = edits[u] + 1
  BY UserFacts
<1>3. OnlyChanges(u)
  BY <1>1, <1>2, UserFacts DEF OnlyChanges
<1>4. UserTyped(u)'
  BY <1>2, UserFacts DEF UserTyped, StageType, WorkspaceType, Manager!Delta, Manager!Entry
<1>5. EditStep(u)
  BY <1>2 DEF EditStep
<1>6. BasesFit(u)'
  BY <1>1, <1>2, BasesFrom
<1>. QED BY <1>2, <1>3, <1>4, <1>5, <1>6, OwnStep

\* The stage is emptied, and keeps its base.
LEMMA ClearStageGood ==
  ASSUME IInv, NEW u \in Clients, ClearStage(u)
  PROVE  StepGood
<1>0. PICK f, b, s, w, n : /\ f = files[u] /\ b = profile[u] /\ s = [stage[u] EXCEPT !.delta = NoDelta]
                           /\ w = workspace[u] /\ n = seen[u]
  OBVIOUS
<1>1. /\ request[u] = None /\ UNCHANGED <<handlerVars, sessionVars>>
      /\ stage' = [stage EXCEPT ![u] = s] /\ edits' = [edits EXCEPT ![u] = edits[u] + 1]
      /\ load' = load /\ session' = session
      /\ files' = files /\ profile' = profile /\ workspace' = workspace /\ seen' = seen
  BY <1>0 DEF ClearStage, May, Change
<1>2. /\ f \in [Paths -> Blobs \cup {None}] /\ b \in Branches
      /\ w \in WorkspaceType \cup {None} /\ n \in SUBSET Changesets
  BY <1>0, UserFacts DEF UserTyped
<1>3. s \in StageType /\ s.base = stage[u].base
  <2>1. NoDelta \in Manager!Delta /\ stage[u] \in StageType
    BY UserFacts DEF NoDelta, Manager!Delta, UserTyped
  <2>. QED BY <2>1, <1>0 DEF StageType
<1>4. /\ files' = [files EXCEPT ![u] = f] /\ profile' = [profile EXCEPT ![u] = b]
      /\ workspace' = [workspace EXCEPT ![u] = w] /\ seen' = [seen EXCEPT ![u] = n]
      /\ seen'[u] = n
  BY <1>0, <1>1, UserFacts
<1>5. PICK x, y : x = s.base /\ y = w.base
  OBVIOUS
<1>6. MayBase(u, x) /\ (w # None => MayBase(u, y))
  BY <1>0, <1>3, <1>5, BasesOf
<1>7. MayBase(u, x)' /\ (w # None => MayBase(u, y)')
  BY <1>0, <1>1, <1>4, <1>6, RestKept, MayBaseKept
<1>. QED BY <1>0, <1>1, <1>2, <1>3, <1>4, <1>5, <1>7, OwnChange

\* A client that syncs takes a base it did not check out.
LEMMA SyncGood ==
  ASSUME IInv, NEW u \in Clients, NEW c \in Changesets \cup {None}, Sync(u, c)
  PROVE  StepGood
<1>0. PICK f, b, s, w, n : /\ f = files[u] /\ b = profile[u] /\ s = [stage[u] EXCEPT !.base = c]
                           /\ w = IF workspace[u] # None /\ workspace[u].branch = profile[u]
                                  THEN [workspace[u] EXCEPT !.base = c] ELSE workspace[u]
                           /\ n = seen[u]
  OBVIOUS
<1>1. /\ request[u] = None /\ UNCHANGED <<handlerVars, sessionVars>> /\ c \in Fetchable(u)
      /\ "sync" \in load.ops
      /\ stage' = [stage EXCEPT ![u] = s] /\ edits' = [edits EXCEPT ![u] = edits[u] + 1]
      /\ load' = load /\ session' = session
      /\ workspace' = IF workspace[u] # None /\ workspace[u].branch = profile[u]
                      THEN [workspace EXCEPT ![u].base = c] ELSE workspace
      /\ files' = files /\ profile' = profile /\ seen' = seen
  BY <1>0 DEF Sync, May, Change
<1>2. /\ f \in [Paths -> Blobs \cup {None}] /\ b \in Branches /\ n \in SUBSET Changesets
      /\ stage[u] \in StageType /\ workspace[u] \in WorkspaceType \cup {None}
  BY <1>0, UserFacts DEF UserTyped
<1>3. s \in StageType /\ s.base = c
  BY <1>0, <1>2 DEF StageType
<1>4. w \in WorkspaceType \cup {None} /\ (w # None => w.base \in {c, workspace[u].base})
      /\ (w # None => workspace[u] # None)
  <2>1. None \notin WorkspaceType => w \in WorkspaceType \cup {None}
    BY <1>0, <1>2 DEF WorkspaceType
  <2>. QED BY <1>0, <1>2, <2>1 DEF WorkspaceType
<1>5. /\ files' = [files EXCEPT ![u] = f] /\ profile' = [profile EXCEPT ![u] = b]
      /\ workspace' = [workspace EXCEPT ![u] = w] /\ seen' = [seen EXCEPT ![u] = n]
      /\ seen'[u] = n
  BY <1>0, <1>1, UserFacts
<1>6. PICK x, y : x = s.base /\ y = w.base
  OBVIOUS
<1>7. MayBase(u, x)
  BY <1>1, <1>3, <1>6, ContentTyped DEF MayBase
<1>8. w # None => MayBase(u, y)
  BY <1>3, <1>4, <1>6, <1>7, BasesOf
<1>9. MayBase(u, x)' /\ (w # None => MayBase(u, y)')
  BY <1>0, <1>1, <1>5, <1>7, <1>8, RestKept, MayBaseKept
<1>. QED BY <1>0, <1>1, <1>2, <1>3, <1>4, <1>5, <1>6, <1>9, OwnChange

\* What is written over the files of a client.
LEMMA OverwriteFacts ==
  ASSUME IInv, NEW u \in Clients, NEW content \in [Paths -> Blobs \cup {None}], Overwrite(u, content)
  PROVE  \E f \in [Paths -> Blobs \cup {None}] : files' = [files EXCEPT ![u] = f]
<1> DEFINE f == [p \in Paths |-> IF content[p] = None THEN files[u][p] ELSE content[p]]
<1>1. files[u] \in [Paths -> Blobs \cup {None}]
  BY UserFacts DEF UserTyped
<1>2. f \in [Paths -> Blobs \cup {None}]
  BY <1>1
<1>3. files' = [files EXCEPT ![u] = f]
  BY DEF Overwrite
<1>. QED BY <1>2, <1>3

\* A checkout takes what it has written as its base.
LEMMA CheckoutGood ==
  ASSUME IInv, NEW u \in Clients, NEW c \in Changesets \cup {None}, NEW force, Checkout(u, c, force)
  PROVE  StepGood
<1>0. PICK b, s, w, n : /\ b = profile[u] /\ s = EmptyStage(profile[u], c)
                        /\ w = [branch |-> profile[u], base |-> c, assets |-> Content(c)]
                        /\ n = seen[u] \cup ({c} \ {None})
  OBVIOUS
<1>1. /\ request[u] = None /\ UNCHANGED <<handlerVars, sessionVars>> /\ c \in Fetchable(u)
      /\ Overwrite(u, Content(c))
      /\ stage' = [stage EXCEPT ![u] = s] /\ edits' = [edits EXCEPT ![u] = edits[u] + 1]
      /\ workspace' = [workspace EXCEPT ![u] = w] /\ seen' = [seen EXCEPT ![u] = n]
      /\ load' = load /\ session' = session /\ profile' = profile
  BY <1>0 DEF Checkout, May, Change
<1>2. c \in Known \cup {None} /\ Content(c) \in [Paths -> Blobs \cup {None}]
  BY <1>1, ContentTyped
<1>3. /\ b \in Branches /\ seen[u] \in SUBSET Changesets
      /\ profile' = [profile EXCEPT ![u] = b] /\ seen'[u] = n
  BY <1>0, <1>1, UserFacts DEF UserTyped
<1>4. /\ s \in StageType /\ s.base = c
      /\ w \in WorkspaceType /\ w.base = c
      /\ n \in SUBSET Changesets /\ seen[u] \subseteq n
  <2>1. NoDelta \in Manager!Delta
    BY DEF NoDelta, Manager!Delta
  <2>. QED BY <2>1, <1>0, <1>2, <1>3 DEF StageType, WorkspaceType, EmptyStage
<1>5. PICK f \in [Paths -> Blobs \cup {None}] : files' = [files EXCEPT ![u] = f]
  BY <1>1, <1>2, OverwriteFacts
<1>6. PICK x, y : x = s.base /\ y = w.base
  OBVIOUS
<1>7. MayBase(u, x)' /\ MayBase(u, y)'
  BY <1>0, <1>1, <1>2, <1>3, <1>4, <1>6, RestKept DEF MayBase, IsOwn
<1>. QED BY <1>1, <1>3, <1>4, <1>5, <1>6, <1>7, OwnChange

\* A checkout that stops has written files alone.
LEMMA CheckoutStopsGood ==
  ASSUME IInv, NEW u \in Clients, NEW c \in Changesets \cup {None}, CheckoutStops(u, c)
  PROVE  StepGood
<1>0. PICK b, s, w, n : b = profile[u] /\ s = stage[u] /\ w = workspace[u] /\ n = seen[u]
  OBVIOUS
<1>1. /\ request[u] = None /\ UNCHANGED <<handlerVars, sessionVars>> /\ c \in Fetchable(u)
      /\ edits' = [edits EXCEPT ![u] = edits[u] + 1]
      /\ load' = load /\ session' = session
      /\ stage' = stage /\ profile' = profile /\ workspace' = workspace /\ seen' = seen
  BY DEF CheckoutStops, May, Change
<1>2. PICK written \in SUBSET Paths :
        Overwrite(u, [p \in Paths |-> IF p \in written THEN BlobAt(c, p) ELSE None])
  BY DEF CheckoutStops
<1>3. [p \in Paths |-> IF p \in written THEN BlobAt(c, p) ELSE None] \in [Paths -> Blobs \cup {None}]
  BY <1>1, ContentTyped
<1>4. PICK f \in [Paths -> Blobs \cup {None}] : files' = [files EXCEPT ![u] = f]
  BY <1>2, <1>3, OverwriteFacts
<1>5. /\ b \in Branches /\ s \in StageType /\ w \in WorkspaceType \cup {None} /\ n \in SUBSET Changesets
      /\ profile' = [profile EXCEPT ![u] = b] /\ stage' = [stage EXCEPT ![u] = s]
      /\ workspace' = [workspace EXCEPT ![u] = w] /\ seen' = [seen EXCEPT ![u] = n]
      /\ seen'[u] = n /\ seen[u] \subseteq n
  BY <1>0, <1>1, UserFacts DEF UserTyped
<1>6. PICK x, y : x = s.base /\ y = w.base
  OBVIOUS
<1>7. MayBase(u, x) /\ (w # None => MayBase(u, y))
  BY <1>0, <1>6, BasesOf
<1>8. MayBase(u, x)' /\ (w # None => MayBase(u, y)')
  BY <1>1, <1>5, <1>7, RestKept, MayBaseKept
<1>. QED BY <1>1, <1>4, <1>5, <1>6, <1>8, OwnChange

\* A switch drops what is staged, and its base.
LEMMA SwitchBranchGood ==
  ASSUME IInv, NEW u \in Clients, NEW b \in Branches, NEW force, SwitchBranch(u, b, force)
  PROVE  StepGood
<1>0. PICK f, s, w, n : /\ f = files[u] /\ s = EmptyStage(b, None)
                        /\ w = workspace[u] /\ n = seen[u]
  OBVIOUS
<1>1. /\ request[u] = None /\ UNCHANGED <<handlerVars, sessionVars>>
      /\ stage' = [stage EXCEPT ![u] = s] /\ edits' = [edits EXCEPT ![u] = edits[u] + 1]
      /\ profile' = [profile EXCEPT ![u] = b]
      /\ load' = load /\ session' = session
      /\ files' = files /\ workspace' = workspace /\ seen' = seen
  BY <1>0 DEF SwitchBranch, May, Change
<1>2. /\ f \in [Paths -> Blobs \cup {None}]
      /\ w \in WorkspaceType \cup {None} /\ n \in SUBSET Changesets
      /\ files' = [files EXCEPT ![u] = f]
      /\ workspace' = [workspace EXCEPT ![u] = w] /\ seen' = [seen EXCEPT ![u] = n]
      /\ seen'[u] = n /\ seen[u] \subseteq n
  BY <1>0, <1>1, UserFacts DEF UserTyped
<1>3. s \in StageType /\ s.base = None
  <2>1. NoDelta \in Manager!Delta
    BY DEF NoDelta, Manager!Delta
  <2>. QED BY <2>1, <1>0 DEF StageType, EmptyStage
<1>4. PICK x, y : x = s.base /\ y = w.base
  OBVIOUS
<1>5. MayBase(u, x) /\ (w # None => MayBase(u, y))
  BY <1>0, <1>3, <1>4, BasesOf
<1>6. MayBase(u, x)' /\ (w # None => MayBase(u, y)')
  BY <1>1, <1>2, <1>5, RestKept, MayBaseKept
<1>. QED BY <1>1, <1>2, <1>3, <1>4, <1>6, OwnChange

-----------------------------------------------------------------------------
(* Requests: commands and calls that send them, and the handlers. *)

\* The handlers change, and neither clients nor sessions.
LEMMA HandlersAlone ==
  ASSUME IInv, HandlersGood, Known' = Known, UNCHANGED <<clientVars, sessionVars>>,
         \A u \in Clients : SetIsStaged(u)'
  PROVE  StepGood
<1>1. UNCHANGED clientVars /\ UNCHANGED sessionVars
  OBVIOUS
<1>2. SessionsInv' /\ MadeGrows /\ madeSessions' = madeSessions
  BY <1>1, SessionsUnchanged DEF IInv, sessionVars
<1>3. SessionBases'
  BY <1>2 DEF IInv, ClientsInv, SessionBases
<1>4. ClientsInv'
  BY <1>1, <1>2, <1>3, ClientsUnchanged DEF HandlersGood
<1>. QED BY <1>2, <1>4 DEF StepGood, IInv, HandlersGood

\* No request carries a set that it did not carry.
LEMMA StagedKept ==
  ASSUME IInv, UNCHANGED clientVars,
         \A w \in Clients : IsPending(w)' /\ request'[w].set # None =>
           /\ IsPending(w) /\ request[w].set = request'[w].set
           /\ request[w].kind = request'[w].kind \/ request[w].kind = "rollback"
           /\ request[w].base = request'[w].base \/ request[w].kind = "rollback"
           /\ request[w].branch = request'[w].branch
  PROVE  \A w \in Clients : SetIsStaged(w)'
BY DEF IInv, ClientsInv, SetIsStaged, clientVars

\* A message is sent: its set, if it has one, is staged.
LEMMA SendGood ==
  ASSUME IInv, NEW u \in Clients, NEW message \in Message, Send(u, message), message.at = "sent",
         message.base \in Known \cup {None, Root},
         message.kind # "rollback" => message.target = None,
         message.set # None =>
           /\ message.kind = "submit" /\ message.set = <<u, edits[u]>>
           /\ message.base = stage[u].base /\ stage[u].base # None
           /\ message.branch = profile[u] /\ stage[u].delta # NoDelta,
         UNCHANGED <<clientVars, versionVars, lock, author, held, sessionVars>>
  PROVE  StepGood
<1>1. /\ UNCHANGED <<versionVars, lock, author, held>> /\ UNCHANGED clientVars
      /\ UNCHANGED <<clientVars, sessionVars>> /\ UNCHANGED <<versionVars, author>>
  OBVIOUS
<1>2. HandlersGood /\ Known' = Known
  BY <1>1, SendKeeps, VersionsUnchanged DEF IInv
<1>3. request'[u] = message /\ \A w \in Clients \ {u} : request'[w] = request[w]
  BY DEF Send, IInv, HandlersInv, HandlerTypeOK
<1>4. ASSUME NEW w \in Clients PROVE SetIsStaged(w)'
  <2>1. CASE w = u
    BY <2>1, <1>1, <1>3 DEF SetIsStaged, IsPending, clientVars
  <2>2. CASE w # u
    BY <2>2, <1>1, <1>3 DEF IInv, ClientsInv, SetIsStaged, IsPending, clientVars
  <2>. QED BY <2>1, <2>2
<1>. QED BY <1>1, <1>2, <1>4, HandlersAlone

\* The parts of a message.
LEMMA MessageTyped ==
  ASSUME NEW kind \in {"submit", "call"}, NEW branch \in Branches,
         NEW base \in Changesets \cup {None, Root}, NEW status \in {"visible", "draft", None},
         NEW delta \in Manager!Delta, NEW checkpoint \in CheckpointIds \cup {None},
         NEW set \in (Clients \X Nat) \cup {None}
  PROVE  Submission(kind, branch, base, status, delta, checkpoint, set) \in Message
BY DEF Submission, Message

\* A request names one of two visibilities, or none.
LEMMA StatusTyped == Statuses \subseteq {"visible", "draft", None}
BY DEF Statuses

\* The bases that are read from a branch.
LEMMA HeadTyped ==
  ASSUME IInv
  PROVE  /\ \A b : HeadOf(b) \in Known \cup {None}
         /\ NewestBase \in Known \cup {None, Root}
         /\ \A u \in Clients : ResolvedBase(u) \in Known \cup {None, Root}
         /\ Known \subseteq Changesets
<1>1. \A b : HeadOf(b) \in Known \cup {None}
  BY VersionFacts DEF HeadOf, IInv
<1>2. \A u \in Clients : stage[u].base \in Known \cup {None}
  BY UserFacts DEF BasesFit
<1>. QED BY <1>1, <1>2, VersionFacts DEF NewestBase, ResolvedBase, IInv

\* The checkpoints that are made, and their sessions.
LEMMA CheckpointTyped ==
  ASSUME IInv, NEW k \in 1..Len(madeCheckpoints)
  PROVE  /\ k \in CheckpointIds
         /\ AssetsOf(k) \in [Paths -> Blobs \cup {None}]
<1>1. madeCheckpoints[k] \in MadeCheckpoint
  BY SessionTypes DEF IInv
<1>2. Len(madeCheckpoints) \in Nat /\ Len(madeCheckpoints) <= MaxCheckpoints /\ MaxCheckpoints \in Nat
  BY SessionTypes, SessionsAreCounted DEF IInv, SessionsInv
<1>. QED BY <1>1, <1>2 DEF MadeCheckpoint, AssetsOf, CheckpointIds

\* What is submitted is what is staged, on the base it is staged on.
LEMMA SubmitGood ==
  ASSUME IInv, NEW u \in Clients, NEW status \in Statuses,
         NEW checkpoint \in {None} \cup 1..Len(madeCheckpoints), Submit(u, status, checkpoint)
  PROVE  StepGood
<1>0. PICK message :
        message = Submission("submit", profile[u], ResolvedBase(u), status, stage[u].delta, checkpoint,
                             StagedSet(u))
  OBVIOUS
<1>1. /\ Send(u, message) /\ stage[u].delta # NoDelta
      /\ UNCHANGED <<clientVars, versionVars, lock, author, held, sessionVars>>
  BY <1>0 DEF Submit
<1>2. profile[u] \in Branches /\ stage[u].delta \in Manager!Delta /\ edits[u] \in Nat
  BY UserFacts DEF UserTyped, StageType
<1>3. checkpoint \in CheckpointIds \cup {None}
  BY CheckpointTyped
<1>4. StagedSet(u) \in (Clients \X Nat) \cup {None}
  BY <1>2 DEF StagedSet
<1>5. ResolvedBase(u) \in Known \cup {None, Root} /\ ResolvedBase(u) \in Changesets \cup {None, Root}
  BY HeadTyped
<1>6. message \in Message
  BY <1>0, <1>2, <1>3, <1>4, <1>5, StatusTyped, MessageTyped
<1>7. /\ message.at = "sent" /\ message.target = None /\ message.kind = "submit"
      /\ message.base = ResolvedBase(u) /\ message.branch = profile[u] /\ message.set = StagedSet(u)
  BY <1>0 DEF Submission
<1>8. message.set # None => /\ message.set = <<u, edits[u]>>
                            /\ message.base = stage[u].base /\ stage[u].base # None
  BY <1>7 DEF StagedSet, ResolvedBase
<1>. QED BY <1>1, <1>5, <1>6, <1>7, <1>8, SendGood

\* A rollback carries no set.
LEMMA RollbackGood ==
  ASSUME IInv, NEW u \in Clients, NEW target \in Changesets, Rollback(u, target)
  PROVE  StepGood
<1>0. PICK message : message = RollbackTo(profile[u], target)
  OBVIOUS
<1>1. /\ Send(u, message)
      /\ UNCHANGED <<clientVars, versionVars, lock, author, held, sessionVars>>
  BY <1>0 DEF Rollback
<1>2. profile[u] \in Branches /\ NoDelta \in Manager!Delta
  BY UserFacts DEF UserTyped, NoDelta, Manager!Delta
<1>3. message \in Message /\ message.at = "sent" /\ message.kind = "rollback"
      /\ message.base = None /\ message.set = None
  BY <1>0, <1>2 DEF RollbackTo, Message
<1>. QED BY <1>1, <1>3, SendGood

\* A call of the handler names the head as its base.
LEMMA CallGood ==
  ASSUME IInv, NEW u \in Clients, NEW status \in Statuses, NEW p \in Paths, NEW b \in load.blobs,
         Call(u, status, p, b)
  PROVE  StepGood
<1>0. PICK message : message = Submission("call", Main, NewestBase, status, Only(p, b), None, None)
  OBVIOUS
<1>1. /\ Send(u, message)
      /\ UNCHANGED <<clientVars, versionVars, lock, author, held, sessionVars>>
  BY <1>0 DEF Call
<1>2. b \in Blobs \cup {None}
  BY WorkloadsAreKnown DEF IInv, ClientsInv, ClientTypes
<1>3. Only(p, b) \in Manager!Delta
  BY <1>2 DEF Only, NoDelta, Written, Manager!Delta, Manager!Entry
<1>4. NewestBase \in Known \cup {None, Root} /\ NewestBase \in Changesets \cup {None, Root}
  BY HeadTyped
<1>5. message \in Message
  BY <1>0, <1>3, <1>4, StatusTyped, MessageTyped, MainIsABranch
<1>6. /\ message.at = "sent" /\ message.target = None /\ message.base = NewestBase /\ message.set = None
  BY <1>0 DEF Submission
<1>. QED BY <1>1, <1>4, <1>5, <1>6, SendGood


\* A checkpoint is of a session that was made, on its base.
LEMMA CheckpointBase ==
  ASSUME IInv, NEW k \in 1..Len(madeCheckpoints)
  PROVE  /\ madeCheckpoints[k].session \in 1..Len(madeSessions)
         /\ BaseOf(k) \in Known \cup {None} /\ BranchOf(k) \in Branches
<1>1. madeCheckpoints[k].session \in 1..Len(madeSessions)
  BY DEF IInv, SessionsInv
<1>2. SessionBases
  BY DEF IInv, ClientsInv
<1>. QED BY <1>1, <1>2, SessionTypes DEF BaseOf, BranchOf, IInv, SessionBases, MadeSession

\* A call with a checkpoint names the base of the checkpoint.
LEMMA CallWithCheckpointGood ==
  ASSUME IInv, NEW u \in Clients, NEW status \in Statuses, NEW k \in 1..Len(madeCheckpoints),
         CallWithCheckpoint(u, status, k)
  PROVE  StepGood
<1>0. PICK message : message = Submission("call", Main, BaseOf(k), status, NoDelta, k, None)
  OBVIOUS
<1>1. /\ Send(u, message)
      /\ UNCHANGED <<clientVars, versionVars, lock, author, held, sessionVars>>
  BY <1>0 DEF CallWithCheckpoint
<1>2. NoDelta \in Manager!Delta
  BY DEF NoDelta, Manager!Delta
<1>3. BaseOf(k) \in Known \cup {None} /\ BaseOf(k) \in Changesets \cup {None, Root}
  BY CheckpointBase, HeadTyped
<1>4. message \in Message
  BY <1>0, <1>2, <1>3, CheckpointTyped, StatusTyped, MessageTyped, MainIsABranch
<1>5. /\ message.at = "sent" /\ message.target = None /\ message.base = BaseOf(k) /\ message.set = None
  BY <1>0 DEF Submission
<1>. QED BY <1>1, <1>3, <1>4, <1>5, SendGood

\* A client whose answer is there has no request that is pending, then or after.
LEMMA AnswerLostGood ==
  ASSUME IInv, NEW u \in Clients, AnswerLost(u)
  PROVE  StepGood
<1>1. /\ EndRequest(u) /\ UNCHANGED <<clientVars, sessionVars>> /\ UNCHANGED clientVars
      /\ UNCHANGED <<versionVars, lock, author, held>> /\ UNCHANGED <<versionVars, author>>
  BY DEF AnswerLost
<1>2. HandlersGood /\ Known' = Known
  BY <1>1, EndKeeps, VersionsUnchanged DEF IInv
<1>3. request'[u] = None /\ \A w \in Clients \ {u} : request'[w] = request[w]
  BY <1>1 DEF EndRequest, IInv, HandlersInv, HandlerTypeOK
<1>4. \A w \in Clients : SetIsStaged(w)'
  BY <1>1, <1>3, StagedKept DEF IsPending
<1>. QED BY <1>1, <1>2, <1>4, HandlersAlone

\* A request that is refused changes nothing else.
LEMMA RefuseGood ==
  ASSUME IInv, NEW u \in Clients, Refuse(u), UNCHANGED <<clientVars, sessionVars>>
  PROVE  StepGood
<1>1. /\ EndRequest(u) /\ UNCHANGED clientVars
      /\ UNCHANGED <<versionVars, lock, author, held>> /\ UNCHANGED <<versionVars, author>>
  BY DEF Refuse
<1>2. HandlersGood /\ Known' = Known
  BY <1>1, EndKeeps, VersionsUnchanged DEF IInv
<1>3. request'[u] = None /\ \A w \in Clients \ {u} : request'[w] = request[w]
  BY <1>1 DEF EndRequest, IInv, HandlersInv, HandlerTypeOK
<1>4. \A w \in Clients : SetIsStaged(w)'
  BY <1>1, <1>3, StagedKept DEF IsPending
<1>. QED BY <1>2, <1>4, HandlersAlone

\* A submission that is checked carries the set it was sent with.
LEMMA CheckSubmissionGood ==
  ASSUME IInv, NEW u \in Clients, CheckSubmission(u), UNCHANGED <<clientVars, sessionVars>>
  PROVE  StepGood
<1>0. PICK message, delta, status : /\ message = request[u] /\ delta = DeltaOf(message)
                                    /\ status = StatusOf(message)
  OBVIOUS
<1>1. /\ UNCHANGED clientVars /\ UNCHANGED <<versionVars, author>>
      /\ IsAt(u, "sent")
      /\ request' = [request EXCEPT ![u] = Checked(message, message.base, status, delta)]
  BY <1>0 DEF CheckSubmission
<1>2. HandlersGood /\ Known' = Known
  BY <1>1, CheckSubmissionKeeps, VersionsUnchanged DEF IInv
<1>3. /\ request'[u] = Checked(message, message.base, status, delta)
      /\ \A w \in Clients \ {u} : request'[w] = request[w]
  BY <1>1 DEF IInv, HandlersInv, HandlerTypeOK
<1>4. /\ request'[u].set = request[u].set /\ request'[u].kind = request[u].kind
      /\ request'[u].base = request[u].base /\ request'[u].branch = request[u].branch
      /\ IsPending(u)
  BY <1>0, <1>1, <1>3 DEF Checked, IsPending, IsAt
<1>5. \A w \in Clients : SetIsStaged(w)'
  BY <1>1, <1>3, <1>4, StagedKept DEF IsPending
<1>. QED BY <1>2, <1>5, HandlersAlone

\* A rollback that is checked still carries no set.
LEMMA CheckRollbackGood ==
  ASSUME IInv, NEW u \in Clients, CheckRollback(u), UNCHANGED <<clientVars, sessionVars>>
  PROVE  StepGood
<1>0. PICK message, head, plan :
        /\ message = request[u] /\ head = branches[message.branch].head
        /\ plan = Manager!RollbackDelta(snapshots[head], snapshots[message.target])
  OBVIOUS
<1>1. /\ UNCHANGED clientVars /\ UNCHANGED <<versionVars, author>>
      /\ IsAt(u, "sent") /\ message.kind = "rollback"
      /\ request' = [request EXCEPT ![u] = Checked(message, head, "visible", plan)]
  BY <1>0 DEF CheckRollback
<1>2. HandlersGood /\ Known' = Known
  BY <1>1, CheckRollbackKeeps, VersionsUnchanged DEF IInv
<1>3. /\ request'[u] = Checked(message, head, "visible", plan)
      /\ \A w \in Clients \ {u} : request'[w] = request[w]
  BY <1>1 DEF IInv, HandlersInv, HandlerTypeOK
<1>4. /\ request'[u].set = request[u].set /\ request[u].kind = "rollback"
      /\ request'[u].branch = request[u].branch
      /\ IsPending(u)
  BY <1>0, <1>1, <1>3 DEF Checked, IsPending, IsAt
<1>5. \A w \in Clients : SetIsStaged(w)'
  BY <1>1, <1>3, <1>4, StagedKept DEF IsPending
<1>. QED BY <1>2, <1>5, HandlersAlone

\* A request takes effect.
LEMMA TakeEffectGood ==
  ASSUME IInv, NEW u \in Clients, TakeEffect(u), UNCHANGED <<clientVars, sessionVars>>
  PROVE  StepGood
<1>1. UNCHANGED sessionVars
  OBVIOUS
<1>2. SessionsInv' /\ ClientsInv'
  BY <1>1, SessionsUnchanged, TakeEffectOfClients DEF IInv
<1>3. HandlersGood
  BY TakeEffectKeeps DEF IInv
<1>. QED BY <1>2, <1>3 DEF StepGood, IInv, HandlersGood

\* Others take and free locks, approve, promote, and make branches.
LEMMA OthersGood ==
  ASSUME IInv, Others, UNCHANGED <<clientVars, sessionVars>>
  PROVE  StepGood
<1>1. UNCHANGED clientVars
  OBVIOUS
<1>2. HandlersGood /\ Known' = Known /\ request' = request
  <2>1. CASE \E p \in Paths : FreePath(p) \/ \E u \in load.holders : LockPath(u, p)
    <3>1. load.holders \subseteq Clients
      BY WorkloadsAreKnown DEF IInv, ClientsInv, ClientTypes
    <3>2. PICK p \in Paths : FreePath(p) \/ \E u \in load.holders : LockPath(u, p)
      BY <2>1
    <3>3. HandlersGood
      BY <3>1, <3>2, LocksKeep DEF IInv
    <3>4. request' = request /\ changesets' = changesets
      BY <3>2 DEF FreePath, LockPath, versionVars
    <3>. QED BY <3>3, <3>4 DEF Known
  <2>2. CASE \E c \in Changesets : "gate" \in load.ops /\ ApproveOrPromote(c)
    <3>1. PICK c \in Known : /\ Manager!Approve(c) \/ Manager!Promote(c)
                             /\ UNCHANGED <<lock, request, author, held>>
      BY <2>2 DEF ApproveOrPromote
    <3>2. HandlersGood
      BY <3>1, ApproveKeeps, PromoteKeeps DEF IInv
    <3>3. \E status : changesets' = [changesets EXCEPT ![c].status = status]
      BY <3>1, SameOperations DEF V!Approve, V!Promote
    <3>. QED BY <3>1, <3>2, <3>3 DEF Known
  <2>3. CASE \E name \in Branches, from \in Known \cup {None} :
               "switch" \in load.ops /\ CreateBranch(name, from)
    <3>1. PICK name \in Branches, from \in Known \cup {None} : CreateBranch(name, from)
      BY <2>3
    <3>2. HandlersGood
      BY <3>1, CreateBranchKeeps, HeadTyped DEF IInv
    <3>3. request' = request /\ changesets' = changesets
      BY <3>1, SameOperations DEF CreateBranch, V!CreateBranch
    <3>. QED BY <3>2, <3>3 DEF Known
  <2>. QED BY <2>1, <2>2, <2>3 DEF Others
<1>3. \A w \in Clients : SetIsStaged(w)'
  BY <1>1, <1>2, StagedKept DEF IsPending
<1>. QED BY <1>2, <1>3, HandlersAlone

\* What is restored is on the base of the session of the client.
LEMMA RestoredBase ==
  ASSUME IInv, NEW u \in Clients, NEW k \in 1..Len(madeCheckpoints),
         madeCheckpoints[k].session = session[u]
  PROVE  MayBase(u, BaseOf(k))
<1>1. session[u] \in 1..Len(madeSessions) /\ Len(madeSessions) \in Nat
  BY CheckpointBase, SessionTypes DEF IInv
<1>2. session[u] # None
  BY <1>1, NoneIsNoNumber
<1>. QED BY <1>2, BasesOf DEF BaseOf

\* A restored checkpoint is on the base of its session, which is the client's own.
LEMMA RestoreGood ==
  ASSUME IInv, NEW u \in Clients, NEW k \in 1..Len(madeCheckpoints), Restore(u, k)
  PROVE  StepGood
<1>0. PICK b, s, w, n : /\ b = profile[u] /\ s = EmptyStage(BranchOf(k), BaseOf(k))
                        /\ w = [branch |-> BranchOf(k), base |-> BaseOf(k), assets |-> AssetsOf(k)]
                        /\ n = seen[u]
  OBVIOUS
<1>1. /\ request[u] = None /\ UNCHANGED <<handlerVars, sessionVars>>
      /\ madeCheckpoints[k].session = session[u]
      /\ Overwrite(u, AssetsOf(k))
      /\ stage' = [stage EXCEPT ![u] = s] /\ edits' = [edits EXCEPT ![u] = edits[u] + 1]
      /\ workspace' = [workspace EXCEPT ![u] = w]
      /\ load' = load /\ session' = session /\ profile' = profile /\ seen' = seen
  BY <1>0 DEF Restore, Materialize, May, Change
<1>2. /\ AssetsOf(k) \in [Paths -> Blobs \cup {None}]
      /\ BaseOf(k) \in Changesets \cup {None} /\ BranchOf(k) \in Branches
  BY CheckpointTyped, CheckpointBase, HeadTyped
<1>3. /\ b \in Branches /\ n \in SUBSET Changesets /\ seen[u] \subseteq n
      /\ profile' = [profile EXCEPT ![u] = b] /\ seen' = [seen EXCEPT ![u] = n] /\ seen'[u] = n
  BY <1>0, <1>1, UserFacts DEF UserTyped
<1>4. s \in StageType /\ s.base = BaseOf(k) /\ w \in WorkspaceType /\ w.base = BaseOf(k)
  <2>1. NoDelta \in Manager!Delta
    BY DEF NoDelta, Manager!Delta
  <2>. QED BY <2>1, <1>0, <1>2 DEF StageType, WorkspaceType, EmptyStage
<1>5. PICK f \in [Paths -> Blobs \cup {None}] : files' = [files EXCEPT ![u] = f]
  BY <1>1, <1>2, OverwriteFacts
<1>6. PICK x, y : x = s.base /\ y = w.base
  OBVIOUS
<1>7. MayBase(u, x) /\ MayBase(u, y)
  BY <1>1, <1>4, <1>6, RestoredBase
<1>8. MayBase(u, x)' /\ MayBase(u, y)'
  BY <1>1, <1>3, <1>7, RestKept, MayBaseKept
<1>. QED BY <1>1, <1>3, <1>4, <1>5, <1>6, <1>8, OwnChange

\* So is a branch that is made of a checkpoint.
LEMMA BranchCheckpointGood ==
  ASSUME IInv, NEW u \in Clients, NEW k \in 1..Len(madeCheckpoints), NEW name \in Branches,
         BranchCheckpoint(u, k, name)
  PROVE  StepGood
<1>0. PICK s, w, x : /\ x = BaseOf(k) /\ s = EmptyStage(name, BaseOf(k))
                     /\ w = [branch |-> BranchOf(k), base |-> BaseOf(k), assets |-> AssetsOf(k)]
  OBVIOUS
<1>1. /\ request[u] = None /\ UNCHANGED sessionVars
      /\ madeCheckpoints[k].session = session[u]
      /\ CreateBranch(name, BaseOf(k)) /\ Overwrite(u, AssetsOf(k))
      /\ stage' = [stage EXCEPT ![u] = s] /\ edits' = [edits EXCEPT ![u] = edits[u] + 1]
      /\ workspace' = [workspace EXCEPT ![u] = w] /\ profile' = [profile EXCEPT ![u] = name]
      /\ load' = load /\ session' = session /\ seen' = seen
  BY <1>0 DEF BranchCheckpoint, Materialize, May, Change
<1>2. /\ AssetsOf(k) \in [Paths -> Blobs \cup {None}]
      /\ BaseOf(k) \in Changesets \cup {None} /\ BranchOf(k) \in Branches
  BY CheckpointTyped, CheckpointBase, HeadTyped
<1>3. HandlersGood /\ Known' = Known /\ request' = request
  <2>1. request' = request /\ changesets' = changesets
    BY <1>1, SameOperations DEF CreateBranch, V!CreateBranch
  <2>2. HandlersGood
    BY <1>1, <1>2, CreateBranchKeeps DEF IInv
  <2>. QED BY <2>1, <2>2 DEF Known
<1>4. s \in StageType /\ s.base = x /\ s.delta = NoDelta /\ w \in WorkspaceType /\ w.base = x
  <2>1. NoDelta \in Manager!Delta
    BY DEF NoDelta, Manager!Delta
  <2>. QED BY <2>1, <1>0, <1>2 DEF StageType, WorkspaceType, EmptyStage
<1>5. PICK f \in [Paths -> Blobs \cup {None}] : files' = [files EXCEPT ![u] = f]
  BY <1>1, <1>2, OverwriteFacts
<1>6. /\ files'[u] = f /\ profile'[u] = name /\ stage'[u] = s /\ workspace'[u] = w
      /\ session'[u] = session[u] /\ seen'[u] = seen[u] /\ edits'[u] = edits[u] + 1
  BY <1>1, <1>5, UserFacts
<1>7. OnlyChanges(u)
  BY <1>1, <1>3, <1>5, <1>6, UserFacts DEF OnlyChanges
<1>8. UserTyped(u)'
  BY <1>4, <1>6, UserFacts DEF UserTyped, StageType, WorkspaceType, Manager!Delta, Manager!Entry
<1>9. SessionsInv' /\ MadeGrows /\ madeSessions' = madeSessions /\ Len(madeSessions') \in Nat
  BY <1>1, SessionsUnchanged, SessionTypes DEF IInv, sessionVars
<1>10. MayBase(u, x)'
  <2>1. MayBase(u, x)
    BY <1>0, <1>1, RestoredBase
  <2>. QED BY <2>1, <1>1, <1>3, MayBaseKept DEF HandlersGood
<1>11. BasesFit(u)'
  BY <1>1, <1>3, <1>4, <1>6, <1>9, <1>10, BasesFrom DEF HandlersGood
<1>12. SessionBases'
  BY <1>3, <1>9 DEF IInv, ClientsInv, SessionBases
<1>13. EditStep(u)
  BY <1>6 DEF EditStep
<1>14. SetIsStaged(u)'
  BY <1>1, <1>3 DEF SetIsStaged, IsPending
<1>15. ClientsInv'
  BY <1>3, <1>6, <1>7, <1>8, <1>9, <1>11, <1>12, <1>13, <1>14, UserStep DEF HandlersGood
<1>. QED BY <1>3, <1>9, <1>15 DEF StepGood, IInv, HandlersGood

\* The stage is emptied, on the base that the client has just made.
LEMMA SubmittedGood ==
  ASSUME IInv, NEW u \in Clients, Submitted(u)
  PROVE  StepGood
<1>0. PICK s, x, y : s = EmptyStage(profile[u], request[u].made) /\ x = request[u].made
                     /\ y = workspace[u].base
  OBVIOUS
<1>1. /\ IsAt(u, "answer") /\ EndRequest(u)
      /\ UNCHANGED sessionVars /\ UNCHANGED <<versionVars, lock, author, held>>
      /\ UNCHANGED <<versionVars, author>>
      /\ stage' = [stage EXCEPT ![u] = s]
      /\ load' = load /\ files' = files /\ profile' = profile /\ workspace' = workspace
      /\ session' = session /\ edits' = edits /\ seen' = seen
  BY <1>0 DEF Submitted
<1>2. HandlersGood /\ Known' = Known
  BY <1>1, EndKeeps, VersionsUnchanged DEF IInv
<1>3. x \in Known /\ author[x].client = u /\ Known \subseteq Changesets
  <2>1. RequestFits(u)
    BY DEF IInv, HandlersInv
  <2>. QED BY <2>1, <1>0, <1>1, HeadTyped DEF RequestFits
<1>4. s \in StageType /\ s.base = x /\ s.delta = NoDelta
  <2>1. NoDelta \in Manager!Delta /\ profile[u] \in Branches
    BY UserFacts DEF NoDelta, Manager!Delta, UserTyped
  <2>. QED BY <2>1, <1>0, <1>3 DEF StageType, EmptyStage
<1>5. /\ files'[u] = files[u] /\ profile'[u] = profile[u] /\ stage'[u] = s
      /\ workspace'[u] = workspace[u] /\ session'[u] = session[u] /\ seen'[u] = seen[u]
      /\ edits'[u] = edits[u]
      /\ request'[u] = None /\ \A w \in Clients \ {u} : request'[w] = request[w]
  BY <1>1, UserFacts DEF EndRequest
<1>6. OnlyChanges(u)
  BY <1>1, <1>5, UserFacts DEF OnlyChanges
<1>7. UserTyped(u)'
  BY <1>4, <1>5, UserFacts DEF UserTyped, StageType, WorkspaceType, Manager!Delta, Manager!Entry
<1>8. SessionsInv' /\ MadeGrows /\ madeSessions' = madeSessions /\ Len(madeSessions') \in Nat
  BY <1>1, SessionsUnchanged, SessionTypes DEF IInv, sessionVars
<1>9. MayBase(u, x)' /\ (workspace[u] # None => MayBase(u, y)')
  <2>1. MayBase(u, x) /\ (workspace[u] # None => MayBase(u, y))
    BY <1>0, <1>3, BasesOf DEF MayBase, IsOwn
  <2>. QED BY <2>1, <1>1, <1>2, <1>5, MayBaseKept DEF HandlersGood
<1>10. BasesFit(u)'
  BY <1>0, <1>1, <1>2, <1>4, <1>5, <1>8, <1>9, BasesFrom DEF HandlersGood
<1>11. SessionBases'
  BY <1>2, <1>8 DEF IInv, ClientsInv, SessionBases
<1>12. EditStep(u)
  BY <1>4, <1>5 DEF EditStep
<1>13. SetIsStaged(u)'
  BY <1>5 DEF SetIsStaged, IsPending
<1>14. ClientsInv'
  BY <1>2, <1>5, <1>6, <1>7, <1>8, <1>10, <1>11, <1>12, <1>13, UserStep DEF HandlersGood
<1>. QED BY <1>2, <1>8, <1>14 DEF StepGood, IInv, HandlersGood

-----------------------------------------------------------------------------
(* Commands and handlers of sessions, and the restart. *)

\* The sessions change, and neither clients nor handlers.
LEMMA SessionsAlone ==
  ASSUME IInv, SessionsInv', MadeGrows, SessionBases', UNCHANGED <<clientVars, handlerVars>>
  PROVE  StepGood
<1>1. UNCHANGED clientVars /\ UNCHANGED handlerVars
  OBVIOUS
<1>2. HandlersGood /\ Known' = Known /\ request' = request
  BY <1>1, HandlersUnchanged DEF IInv, handlerVars
<1>3. \A w \in Clients : SetIsStaged(w)'
  BY <1>1, <1>2, StagedKept DEF IsPending
<1>4. ClientsInv'
  BY <1>1, <1>2, <1>3, ClientsUnchanged DEF HandlersGood
<1>. QED BY <1>2, <1>4 DEF StepGood, IInv, HandlersGood

\* The bases of the sessions, with those of one more.
LEMMA MoreBases ==
  ASSUME IInv, Known' = Known, NEW base \in Known \cup {None}, MadeGrows,
         Len(madeSessions') \in Nat, Len(madeSessions') = NextSession,
         madeSessions'[NextSession].base = base
  PROVE  SessionBases'
<1>1. SessionBases /\ Len(madeSessions) \in Nat
  BY SessionTypes DEF IInv, ClientsInv
<1>2. SUFFICES ASSUME NEW s \in 1..Len(madeSessions') PROVE madeSessions'[s].base \in Known \cup {None}
  BY DEF SessionBases
<1>3. CASE s \in 1..Len(madeSessions)
  BY <1>1, <1>3 DEF SessionBases, MadeGrows
<1>4. CASE s \notin 1..Len(madeSessions)
  <2>1. s = NextSession
    BY <1>1, <1>2, <1>4 DEF NextSession
  <2>. QED BY <2>1
<1>. QED BY <1>3, <1>4

\* A session is begun on a base of the client.
LEMMA BeginSessionGood ==
  ASSUME IInv, NEW u \in Clients, BeginSession(u)
  PROVE  StepGood
<1>0. PICK branch, base, id, x, y :
        /\ branch = profile[u]
        /\ base = IF workspace[u] # None /\ workspace[u].base # None
                  THEN workspace[u].base ELSE stage[u].base
        /\ id = NextSession /\ x = stage[u].base /\ y = workspace[u].base
  OBVIOUS
<1>1. /\ request[u] = None /\ UNCHANGED handlerVars
      /\ CreateSession(branch, base)
      /\ session' = [session EXCEPT ![u] = id]
      /\ load' = load /\ files' = files /\ profile' = profile /\ stage' = stage
      /\ workspace' = workspace /\ edits' = edits /\ seen' = seen
  BY <1>0 DEF BeginSession, May
<1>2. HandlersGood /\ Known' = Known /\ request' = request
  BY <1>1, HandlersUnchanged DEF IInv, handlerVars
<1>3. branch \in Branches /\ MayBase(u, base)
  BY <1>0, UserFacts, BasesOf DEF UserTyped
<1>4. base \in Known \cup {None} /\ base \in Changesets \cup {None}
  BY <1>3, HeadTyped DEF MayBase
<1>5. /\ SessionsInv' /\ MadeGrows /\ id \in SessionIds /\ Len(madeSessions') = id
      /\ madeSessions'[id] = [branch |-> branch, base |-> base]
  BY <1>0, <1>1, <1>3, <1>4, CreateSessionKeeps DEF IInv
<1>6. Len(madeSessions') \in Nat /\ id \in 1..Len(madeSessions') /\ madeSessions'[id].base = base
  BY <1>5 DEF SessionIds
<1>7. SessionBases'
  BY <1>0, <1>2, <1>4, <1>5, <1>6, MoreBases
<1>8. /\ files'[u] = files[u] /\ profile'[u] = profile[u] /\ stage'[u] = stage[u]
      /\ workspace'[u] = workspace[u] /\ session'[u] = id /\ seen'[u] = seen[u]
      /\ edits'[u] = edits[u]
  BY <1>1, UserFacts
<1>9. OnlyChanges(u)
  BY <1>1, <1>2, <1>8, UserFacts DEF OnlyChanges
<1>10. UserTyped(u)'
  BY <1>5, <1>8, UserFacts DEF UserTyped, StageType, WorkspaceType, Manager!Delta, Manager!Entry
<1>11. MayBase(u, x)' /\ MayBase(u, base)' /\ (workspace[u] # None => MayBase(u, y)')
  <2>1. MayBase(u, x) /\ (workspace[u] # None => MayBase(u, y))
    BY <1>0, BasesOf
  <2>. QED BY <2>1, <1>1, <1>2, <1>3, <1>8, MayBaseKept DEF HandlersGood
<1>12. BasesFit(u)'
  <2>1. session'[u] # None => session'[u] \in 1..Len(madeSessions') /\ madeSessions'[session'[u]].base = base
    BY <1>6, <1>8
  <2>. QED BY <2>1, <1>0, <1>8, <1>11 DEF BasesFit, MayBase
<1>13. EditStep(u)
  BY <1>1 DEF EditStep
<1>14. SetIsStaged(u)'
  BY <1>1, <1>2 DEF SetIsStaged, IsPending
<1>15. ClientsInv'
  BY <1>2, <1>5, <1>7, <1>8, <1>9, <1>10, <1>12, <1>13, <1>14, UserStep DEF HandlersGood
<1>. QED BY <1>2, <1>5, <1>15 DEF StepGood, IInv, HandlersGood

\* A checkpoint is made in a session.
LEMMA CheckpointMade ==
  ASSUME IInv, NEW s, NEW assets \in [Paths -> Blobs \cup {None}], CreateCheckpoint(s, assets),
         UNCHANGED <<clientVars, handlerVars>>
  PROVE  StepGood
<1>1. SessionsInv' /\ MadeGrows
  BY CreateCheckpointKeeps DEF IInv
<1>2. madeSessions' = madeSessions /\ changesets' = changesets
  BY DEF CreateCheckpoint, handlerVars, versionVars
<1>3. SessionBases'
  BY <1>2 DEF IInv, ClientsInv, SessionBases, Known
<1>. QED BY <1>1, <1>3, SessionsAlone

\* What a client saves are blobs of its files or of its stage.
LEMMA SaveGood ==
  ASSUME IInv, NEW u \in Clients, Save(u)
  PROVE  StepGood
<1>1. /\ UNCHANGED <<clientVars, handlerVars>>
      /\ CreateCheckpoint(session[u], CheckpointAssets(u))
  BY DEF Save
<1>2. CheckpointAssets(u) \in [Paths -> Blobs \cup {None}]
  <2>1. files[u] \in [Paths -> Blobs \cup {None}] /\ stage[u].delta \in Manager!Delta
    BY UserFacts DEF UserTyped, StageType
  <2>. QED BY <2>1 DEF CheckpointAssets, Manager!Delta, Manager!Entry
<1>. QED BY <1>1, <1>2, CheckpointMade

\* Sessions and checkpoints of others, and the rows that are inserted.
LEMMA SessioningGood ==
  ASSUME IInv, Sessioning, UNCHANGED <<clientVars, handlerVars>>
  PROVE  StepGood
<1>1. Known' = Known
  BY DEF handlerVars, versionVars, Known
<1>2. CASE CreateSession(Main, None)
  <2>1. /\ SessionsInv' /\ MadeGrows /\ NextSession \in SessionIds /\ Len(madeSessions') = NextSession
        /\ madeSessions'[NextSession] = [branch |-> Main, base |-> None]
    BY <1>2, MainIsABranch, CreateSessionKeeps DEF IInv
  <2>2. Len(madeSessions') \in Nat /\ madeSessions'[NextSession].base = None
    BY <2>1 DEF SessionIds
  <2>3. SessionBases'
    BY <1>1, <2>1, <2>2, MoreBases
  <2>. QED BY <2>1, <2>3, SessionsAlone
<1>3. CASE \E s \in sessions : CreateCheckpoint(s, NoFiles)
  <2>1. NoFiles \in [Paths -> Blobs \cup {None}]
    BY DEF NoFiles
  <2>. QED BY <1>3, <2>1, CheckpointMade
<1>4. CASE \/ \E s \in SessionIds : InsertSession(s)
           \/ \E k \in CheckpointIds : InsertCheckpoint(k)
           \/ FailInsertion
  <2>1. SessionsInv' /\ MadeGrows
    BY <1>4, InsertSessionKeeps, InsertCheckpointKeeps, FailInsertionKeeps DEF IInv
  <2>2. madeSessions' = madeSessions
    BY <1>4 DEF InsertSession, InsertCheckpoint, FailInsertion
  <2>3. SessionBases'
    BY <1>1, <2>2 DEF IInv, ClientsInv, SessionBases
  <2>. QED BY <2>1, <2>3, SessionsAlone
<1>. QED BY <1>2, <1>3, <1>4 DEF Sessioning

\* The server stops and starts: no request is left.
LEMMA RestartGood ==
  ASSUME IInv, Restart
  PROVE  StepGood
<1>1. RestartHandlers /\ RestartSessions /\ UNCHANGED clientVars
  BY DEF Restart
<1>2. HandlersGood
  BY <1>1, RestartHandlersKeeps DEF IInv
<1>3. SessionsInv' /\ MadeGrows
  BY <1>1, RestartSessionsKeeps DEF IInv
<1>4. madeSessions' = madeSessions /\ changesets' = changesets
  BY <1>1 DEF RestartHandlers, RestartSessions, versionVars
<1>5. SessionBases' /\ Known' = Known
  BY <1>4 DEF IInv, ClientsInv, SessionBases, Known
<1>6. \A w \in Clients : request'[w] = None
  BY <1>1 DEF RestartHandlers
<1>7. \A w \in Clients : SetIsStaged(w)'
  BY <1>6 DEF SetIsStaged, IsPending
<1>8. ClientsInv'
  BY <1>1, <1>2, <1>3, <1>5, <1>7, ClientsUnchanged DEF HandlersGood
<1>. QED BY <1>2, <1>3, <1>8 DEF StepGood, IInv, HandlersGood

-----------------------------------------------------------------------------
(* The whole. *)

\* Nobody has done anything yet.
LEMMA InitGood == Init => IInv
<1>. SUFFICES ASSUME Init PROVE IInv
  OBVIOUS
<1>1. SessionsInv /\ HandlersInv
  BY SessionsInvInit, HandlersInvInit DEF Init
<1>2. Known = {} /\ Len(madeSessions) = 0
  BY DEF Init, HandlerInit, SessionsInit, Known
<1>3. ClientTypes
  <2>1. NoDelta \in Manager!Delta /\ NoFiles \in [Paths -> Blobs \cup {None}]
    BY DEF NoDelta, NoFiles, Manager!Delta
  <2>. QED BY <2>1, MainIsABranch DEF Init, ClientTypes, StageType, EmptyStage
<1>4. \A u \in Clients : BasesFit(u)
  BY DEF Init, BasesFit, IsOwn, EmptyStage
<1>5. \A u \in Clients : SetIsStaged(u)
  BY DEF Init, HandlerInit, SetIsStaged, IsPending
<1>6. ClientsInv
  BY <1>2, <1>3, <1>4, <1>5
     DEF ClientsInv, SessionBases, SetIsOfAuthor, StagedOnBase, SetHasOneParent
<1>. QED BY <1>1, <1>6 DEF IInv

\* Every command, and every call of the handlers.
LEMMA CommandGood ==
  ASSUME IInv, NEW u \in Clients, Command(u)
  PROVE  StepGood
<1>1. CASE \E p \in Paths :
             \/ \E b \in load.blobs : EditFile(u, p, b)
             \/ AddFile(u, p) \/ RemoveAsset(u, p)
  BY <1>1, EditFileGood, AddFileGood, RemoveAssetGood
<1>2. CASE ClearStage(u)
  BY <1>2, ClearStageGood
<1>3. CASE \E c \in Changesets \cup {None} :
             Sync(u, c) \/ (\E force \in BOOLEAN : Checkout(u, c, force)) \/ CheckoutStops(u, c)
  BY <1>3, SyncGood, CheckoutGood, CheckoutStopsGood
<1>4. CASE \E b \in Branches, force \in BOOLEAN : SwitchBranch(u, b, force)
  BY <1>4, SwitchBranchGood
<1>5. CASE \E status \in Statuses :
             \E checkpoint \in {None} \cup 1..Len(madeCheckpoints) : Submit(u, status, checkpoint)
  BY <1>5, SubmitGood
<1>6. CASE Submitted(u) \/ AnswerLost(u)
  BY <1>6, SubmittedGood, AnswerLostGood
<1>7. CASE \E target \in Changesets : Rollback(u, target)
  BY <1>7, RollbackGood
<1>8. CASE \E status \in Statuses :
             \/ \E p \in Paths, b \in load.blobs : Call(u, status, p, b)
             \/ \E k \in 1..Len(madeCheckpoints) : CallWithCheckpoint(u, status, k)
  BY <1>8, CallGood, CallWithCheckpointGood
<1>9. CASE BeginSession(u) \/ Save(u)
  BY <1>9, BeginSessionGood, SaveGood
<1>10. CASE \E k \in 1..Len(madeCheckpoints) :
              Restore(u, k) \/ (\E name \in Branches : BranchCheckpoint(u, k, name))
  BY <1>10, RestoreGood, BranchCheckpointGood
<1>. QED BY <1>1, <1>2, <1>3, <1>4, <1>5, <1>6, <1>7, <1>8, <1>9, <1>10 DEF Command

\* Every step.
LEMMA NextGood ==
  ASSUME IInv, [Next]_vars
  PROVE  StepGood
<1>1. CASE \E u \in Clients : Command(u)
  BY <1>1, CommandGood
<1>2. CASE \E u \in Clients :
             /\ CheckSubmission(u) \/ CheckRollback(u) \/ TakeEffect(u) \/ Refuse(u)
             /\ UNCHANGED <<clientVars, sessionVars>>
  BY <1>2, CheckSubmissionGood, CheckRollbackGood, TakeEffectGood, RefuseGood
<1>3. CASE Others /\ UNCHANGED <<clientVars, sessionVars>>
  BY <1>3, OthersGood
<1>4. CASE Sessioning /\ UNCHANGED <<clientVars, handlerVars>>
  BY <1>4, SessioningGood
<1>5. CASE Restart
  BY <1>5, RestartGood
<1>6. CASE UNCHANGED vars
  <2>1. UNCHANGED sessionVars /\ UNCHANGED <<clientVars, handlerVars>>
    BY <1>6 DEF vars
  <2>2. SessionsInv' /\ MadeGrows /\ madeSessions' = madeSessions
    BY <2>1, SessionsUnchanged DEF IInv, sessionVars
  <2>3. Known' = Known
    BY <2>1 DEF handlerVars, versionVars, Known
  <2>4. SessionBases'
    BY <2>2, <2>3 DEF IInv, ClientsInv, SessionBases
  <2>. QED BY <2>1, <2>2, <2>4, SessionsAlone
<1>. QED BY <1>1, <1>2, <1>3, <1>4, <1>5, <1>6 DEF Next

\* The inductive invariant, and what every step does.
THEOREM Invariance == Spec => []IInv
<1>1. IInv /\ [Next]_vars => IInv'
  BY NextGood DEF StepGood
<1>. QED BY <1>1, InitGood, PTL DEF Spec

-----------------------------------------------------------------------------
(* The properties. *)

\* A chain of parents that starts where there is no parent does not repeat.
LEMMA LineageIsSimple ==
  ASSUME NEW s, NEW c, V!IsLineage(changesets, s, c), None \notin Known
  PROVE  \A i, j \in 1..Len(s) : s[i] = s[j] => i = j
<1>1. /\ s \in Seq(Known) /\ Len(s) \in Nat
      /\ changesets[s[1]].parent = None
      /\ \A i \in 1..(Len(s) - 1) : changesets[s[i + 1]].parent = s[i]
  BY DEF V!IsLineage, Known
<1> DEFINE R == {i \in 1..Len(s) : \E j \in 1..Len(s) : i < j /\ s[i] = s[j]}
<1>2. SUFFICES R = {}
  BY <1>1
<1>3. SUFFICES ASSUME R # {} PROVE FALSE
  OBVIOUS
<1>4. R \subseteq Nat
  BY <1>1
<1>. HIDE DEF R
<1>5. PICK i \in R : \A k \in R : i <= k
  BY <1>3, <1>4, LeastNumber
<1>. USE DEF R
<1>6. PICK j \in 1..Len(s) : i < j /\ s[i] = s[j]
  BY <1>5
<1>7. i \in 1..Len(s) /\ i \in Nat /\ j \in Nat
  BY <1>1, <1>5
<1>8. changesets[s[j]].parent = s[j - 1] /\ s[j - 1] \in Known /\ j - 1 \in 1..Len(s)
  <2>1. j - 1 \in 1..(Len(s) - 1) /\ (j - 1) + 1 = j /\ j - 1 \in 1..Len(s)
    BY <1>1, <1>6, <1>7
  <2>2. s[j - 1] \in Known
    BY <2>1, <1>1
  <2>3. changesets[s[(j - 1) + 1]].parent = s[j - 1]
    BY <2>1, <1>1
  <2>. QED BY <2>1, <2>2, <2>3
<1>9. CASE i = 1
  BY <1>1, <1>6, <1>8, <1>9
<1>10. CASE i # 1
  <2>1. i - 1 \in 1..(Len(s) - 1) /\ (i - 1) + 1 = i /\ i - 1 \in 1..Len(s) /\ i - 1 < j - 1
    BY <1>1, <1>6, <1>7, <1>10
  <2>2. changesets[s[(i - 1) + 1]].parent = s[i - 1]
    BY <2>1, <1>1
  <2>3. s[i - 1] = s[j - 1]
    BY <2>1, <2>2, <1>6, <1>8
  <2>4. i - 1 \in R
    BY <2>1, <2>3, <1>8
  <2>. QED BY <2>1, <2>4, <1>5, <1>7
<1>. QED BY <1>9, <1>10

\* Two visible changesets of a branch have not the same parent.
LEMMA OneVisibleChild ==
  ASSUME HandlersInv, NEW c \in Known, NEW d \in Known,
         changesets[c].status = "visible", changesets[d].status = "visible",
         changesets[c].branch = changesets[d].branch,
         changesets[c].parent = changesets[d].parent, changesets[c].parent # None
  PROVE  c = d
<1>1. PICK s : s = branches[changesets[c].branch].history
  OBVIOUS
<1>2. V!VisibleIffInOwnHistory /\ V!HistoryIsLineage /\ V!OnKnownBranch /\ V!TypeOK
  BY DEF HandlersInv, V!IInv
<1>3. /\ c \in V!Elements(s) /\ d \in V!Elements(s)
      /\ changesets[c].branch \in DOMAIN branches
  BY <1>1, <1>2, SameManager DEF V!VisibleIffInOwnHistory, V!OnKnownBranch
<1>4. PICK i \in 1..Len(s), j \in 1..Len(s) : s[i] = c /\ s[j] = d
  BY <1>3 DEF V!Elements
<1>5. PICK head : V!IsLineage(changesets, s, head)
  <2>1. s # << >>
    BY <1>4
  <2>. QED BY <2>1, <1>1, <1>2, <1>3 DEF V!HistoryIsLineage
<1>6. /\ s \in Seq(Known) /\ Len(s) \in Nat /\ changesets[s[1]].parent = None
      /\ \A k \in 1..(Len(s) - 1) : changesets[s[k + 1]].parent = s[k]
  BY <1>5 DEF V!IsLineage, Known
<1>7. i # 1 /\ j # 1
  BY <1>4, <1>6
<1>8. /\ i - 1 \in 1..(Len(s) - 1) /\ (i - 1) + 1 = i /\ i - 1 \in 1..Len(s)
      /\ j - 1 \in 1..(Len(s) - 1) /\ (j - 1) + 1 = j /\ j - 1 \in 1..Len(s)
  BY <1>6, <1>7
<1>9. changesets[s[(i - 1) + 1]].parent = s[i - 1] /\ changesets[s[(j - 1) + 1]].parent = s[j - 1]
  BY <1>6, <1>8
<1>10. s[i - 1] = s[j - 1]
  BY <1>4, <1>8, <1>9
<1>11. i - 1 = j - 1
  BY <1>5, <1>8, <1>10, VersionFacts, LineageIsSimple
<1>. QED BY <1>4, <1>8, <1>11

\* Changesets of one set have one parent and one branch, so one of them is visible.
LEMMA SetsAreSubmittedOnce == IInv => SubmitOnce
<1>. SUFFICES ASSUME IInv, NEW c \in Known, NEW d \in Known,
                     changesets[c].status = "visible", changesets[d].status = "visible",
                     author[c].set # None, author[c].set = author[d].set
              PROVE  c = d
  BY DEF SubmitOnce
<1>1. /\ changesets[c].parent = changesets[d].parent /\ changesets[c].branch = changesets[d].branch
      /\ changesets[c].parent \in Known
  BY DEF IInv, ClientsInv, SetHasOneParent, SetIsOfAuthor
<1>2. changesets[c].parent # None
  BY <1>1, VersionFacts DEF IInv
<1>. QED BY <1>1, <1>2, OneVisibleChild DEF IInv

\* Types: what is kept by the server and by every client has its shape, and the
\* bases that a client works on are changesets that are known.
THEOREM TypeCorrect == Spec => []TypeOK
<1>1. IInv => TypeOK
  <2>. SUFFICES ASSUME IInv PROVE TypeOK
    OBVIOUS
  <2>1. HandlerTypeOK /\ SessionTypeOK /\ ClientTypes
    BY DEF IInv, HandlersInv, SessionsInv, ClientsInv
  <2>2. ASSUME NEW u \in Clients
        PROVE  /\ stage[u].base \in Known \cup {None}
               /\ workspace[u] # None => /\ workspace[u].base \in Known \cup {None}
                                         /\ workspace[u].assets \in [Paths -> Blobs \cup {None}]
    <3>1. BasesFit(u) /\ UserTyped(u)
      BY UserFacts
    <3>. QED BY <3>1 DEF BasesFit, UserTyped, WorkspaceType
  <2>. QED BY <2>1, <2>2 DEF TypeOK, ClientTypes
<1>. QED BY Invariance, <1>1, PTL

\* Whatever insertions of rows fail, and in whatever order they are made, a restart
\* leaves every session the first of its checkpoints (api/session.rs).
THEOREM RestartsKeepPrefixes == Spec => []RestartKeepsPrefix
<1>1. IInv => RestartKeepsPrefix
  BY SessionsArePrefixes DEF IInv
<1>. QED BY Invariance, <1>1, PTL

\* A set that was staged on a base is visible at most once, however often it is
\* submitted (cmd/submit.rs): its base is the parent of all that is made of it, and a
\* branch has one visible changeset on a parent.
THEOREM StagedSetsAreSubmittedOnce == Spec => []SubmitOnce
BY Invariance, SetsAreSubmittedOnce, PTL

\* A client that does not sync submits a staged set on what it has checked out or
\* made (cmd/checkout.rs, cmd/submit.rs).
THEOREM OwnWorkIsExtended == Spec => []NothingUnseenIsOverwritten
<1>1. IInv => NothingUnseenIsOverwritten
  <2>. SUFFICES ASSUME IInv, NEW c \in Known, "sync" \notin load.ops,
                       changesets[c].parent # None, author[c].set # None
                PROVE  \/ changesets[c].parent \in seen[author[c].client]
                       \/ author[changesets[c].parent].client = author[c].client
    BY DEF NothingUnseenIsOverwritten
  <2>. QED BY DEF IInv, ClientsInv, SetIsOfAuthor, IsOwn
<1>. QED BY Invariance, <1>1, PTL

\* As long as a lock is not freed, what its holder made under it is changed by the
\* holder alone, whoever read the locks before or promotes what was made before
\* (api/versioning.rs).
THEOREM LocksProtectContent == Spec => HolderKeepsItsContent
<1>1. IInv /\ [Next]_vars => [HolderStep]_vars
  BY NextGood DEF StepGood
<1>. QED BY Invariance, <1>1, PTL DEF Spec, HolderKeepsItsContent, HolderStep

\* Handlers that check first and act after an await, as clients and others interleave
\* them, keep what the version manager promises: histories are chains of parents, and
\* hold what is visible (core/versioning.rs).
THEOREM HistoriesAreLineages == Spec => [](Manager!HistoryIsLineage /\ Manager!VisibleIffInOwnHistory)
<1>1. IInv => Manager!HistoryIsLineage /\ Manager!VisibleIffInOwnHistory
  <2>. SUFFICES ASSUME IInv PROVE Manager!HistoryIsLineage /\ Manager!VisibleIffInOwnHistory
    OBVIOUS
  <2>1. V!HistoryIsLineage /\ V!VisibleIffInOwnHistory
    BY DEF IInv, HandlersInv, V!IInv
  <2>2. Manager!HistoryIsLineage
    BY <2>1 DEF Manager!HistoryIsLineage, V!HistoryIsLineage, Manager!IsLineage, V!IsLineage
  <2>3. Manager!VisibleIffInOwnHistory
    BY <2>1 DEF Manager!VisibleIffInOwnHistory, V!VisibleIffInOwnHistory, Manager!Elements,
                V!Elements, Manager!Known, V!Known
  <2>. QED BY <2>2, <2>3
<1>. QED BY Invariance, <1>1, PTL

-----------------------------------------------------------------------------
(* What users see: the timeline. *)

\* The target of a rollback that passed its checks is in the history of its branch,
\* however long its blobs are awaited.
RollbacksNameTheirLine ==
  \A u \in Clients :
    IsAt(u, "checked") /\ request[u].kind = "rollback" =>
      /\ request[u].branch \in DOMAIN branches
      /\ request[u].target \in V!Elements(branches[request[u].branch].history)

\* What a step does to the repository.
VersionStep ==
  \/ UNCHANGED versionVars
  \/ \E name \in Branches, from \in Changesets \cup {None} : V!CreateBranch(name, from)
  \/ \E c \in Changesets : V!Approve(c) \/ V!Promote(c)
  \/ \E u \in Clients : TakeEffect(u)

\* A rollback passes its checks, or passed them before.
ChecksStep ==
  \A w \in Clients :
    IsAt(w, "checked")' /\ request'[w].kind = "rollback" =>
      request'[w] = request[w] \/ CheckRollback(w)

\* No rollback passes its checks, and the repository does not change.
Aside == UNCHANGED versionVars /\ \A w \in Clients : IsAt(w, "checked")' => request'[w] = request[w]

LEMMA CommandIsAside ==
  ASSUME IInv, NEW u \in Clients, Command(u)
  PROVE  Aside \/ (request' = request /\ \E name \in Branches, k \in 1..Len(madeCheckpoints) :
                                           CreateBranch(name, BaseOf(k)))
<1>1. request \in [Clients -> Message \cup [made : Changesets, at : {"answer"}] \cup {None}]
  BY DEF IInv, HandlersInv, HandlerTypeOK
<1>2. ASSUME UNCHANGED handlerVars PROVE Aside
  BY <1>2 DEF Aside, handlerVars, IsAt
<1>3. ASSUME NEW message, Send(u, message), message.at = "sent", UNCHANGED versionVars PROVE Aside
  <2>1. request'[u] = message /\ \A w \in Clients \ {u} : request'[w] = request[w]
    BY <1>1, <1>3 DEF Send
  <2>. QED BY <2>1, <1>3 DEF Aside, IsAt
<1>4. ASSUME EndRequest(u), UNCHANGED versionVars PROVE Aside
  <2>1. request'[u] = None /\ \A w \in Clients \ {u} : request'[w] = request[w]
    BY <1>1, <1>4 DEF EndRequest
  <2>. QED BY <2>1, <1>4 DEF Aside, IsAt
<1>5. CASE \/ \E p \in Paths :
                \/ \E b \in load.blobs : EditFile(u, p, b)
                \/ AddFile(u, p) \/ RemoveAsset(u, p)
           \/ ClearStage(u)
           \/ \E c \in Changesets \cup {None} :
                Sync(u, c) \/ (\E force \in BOOLEAN : Checkout(u, c, force)) \/ CheckoutStops(u, c)
           \/ \E b \in Branches, force \in BOOLEAN : SwitchBranch(u, b, force)
           \/ BeginSession(u) \/ Save(u)
           \/ \E k \in 1..Len(madeCheckpoints) : Restore(u, k)
  <2>1. UNCHANGED handlerVars
    BY <1>5 DEF EditFile, AddFile, RemoveAsset, StageAsset, ClearStage, Sync, Checkout, CheckoutStops,
                SwitchBranch, BeginSession, Save, Restore
  <2>. QED BY <2>1, <1>2
<1>6. CASE \/ \E status \in Statuses :
                \E checkpoint \in {None} \cup 1..Len(madeCheckpoints) : Submit(u, status, checkpoint)
           \/ \E target \in Changesets : Rollback(u, target)
           \/ \E status \in Statuses :
                \/ \E p \in Paths, b \in load.blobs : Call(u, status, p, b)
                \/ \E k \in 1..Len(madeCheckpoints) : CallWithCheckpoint(u, status, k)
  <2>1. PICK message : Send(u, message) /\ message.at = "sent" /\ UNCHANGED versionVars
    BY <1>6 DEF Submit, Rollback, Call, CallWithCheckpoint, Submission, RollbackTo
  <2>. QED BY <2>1, <1>3
<1>7. CASE Submitted(u) \/ AnswerLost(u)
  BY <1>7, <1>4 DEF Submitted, AnswerLost
<1>8. CASE \E k \in 1..Len(madeCheckpoints), name \in Branches : BranchCheckpoint(u, k, name)
  BY <1>8 DEF BranchCheckpoint, CreateBranch
<1>. QED BY <1>5, <1>6, <1>7, <1>8 DEF Command

\* The repository changes in the version manager's operations only.
LEMMA StepOfVersions ==
  ASSUME IInv, [Next]_vars
  PROVE  VersionStep /\ ChecksStep
<1>1. request \in [Clients -> Message \cup [made : Changesets, at : {"answer"}] \cup {None}]
  BY DEF IInv, HandlersInv, HandlerTypeOK
<1>2. ASSUME Aside PROVE VersionStep /\ ChecksStep
  BY <1>2 DEF Aside, VersionStep, ChecksStep
<1>3. ASSUME request' = request PROVE ChecksStep
  BY <1>3 DEF ChecksStep
<1>4. ASSUME UNCHANGED handlerVars PROVE Aside
  BY <1>4 DEF Aside, handlerVars, IsAt
<1>5. ASSUME NEW name \in Branches, NEW from \in Changesets \cup {None}, CreateBranch(name, from)
      PROVE  VersionStep /\ request' = request
  <2>1. V!CreateBranch(name, from) /\ request' = request
    BY <1>5, SameOperations DEF CreateBranch
  <2>. QED BY <2>1 DEF VersionStep
<1>6. CASE \E u \in Clients : Command(u)
  <2>1. PICK u \in Clients : Command(u)
    BY <1>6
  <2>2. CASE request' = request /\ \E name \in Branches, k \in 1..Len(madeCheckpoints) :
                                     CreateBranch(name, BaseOf(k))
    <3>1. PICK name \in Branches, k \in 1..Len(madeCheckpoints) : CreateBranch(name, BaseOf(k))
      BY <2>2
    <3>2. BaseOf(k) \in Changesets \cup {None}
      BY CheckpointTyped, HeadTyped, CheckpointBase
    <3>. QED BY <2>2, <3>1, <3>2, <1>3, <1>5
  <2>. QED BY <2>1, <2>2, <1>2, CommandIsAside
<1>7. ASSUME NEW u \in Clients, CheckSubmission(u) PROVE VersionStep /\ ChecksStep
  <2>1. /\ UNCHANGED versionVars
        /\ request'[u].kind = request[u].kind /\ request[u].kind # "rollback"
        /\ \A w \in Clients \ {u} : request'[w] = request[w]
    BY <1>1, <1>7 DEF CheckSubmission, Checked
  <2>. QED BY <2>1 DEF VersionStep, ChecksStep
<1>8. ASSUME NEW u \in Clients, CheckRollback(u) PROVE VersionStep /\ ChecksStep
  <2>1. UNCHANGED versionVars /\ \A w \in Clients \ {u} : request'[w] = request[w]
    BY <1>1, <1>8 DEF CheckRollback
  <2>. QED BY <2>1, <1>8 DEF VersionStep, ChecksStep
<1>9. ASSUME NEW u \in Clients, TakeEffect(u) PROVE VersionStep /\ ChecksStep
  <2>1. /\ request'[u] = None \/ request'[u].at = "answer"
        /\ \A w \in Clients \ {u} : request'[w] = request[w]
    BY <1>1, <1>9 DEF TakeEffect, Answer
  <2>. QED BY <2>1, <1>9 DEF VersionStep, ChecksStep, IsAt
<1>10. ASSUME NEW u \in Clients, Refuse(u) PROVE Aside
  <2>1. /\ UNCHANGED versionVars /\ request'[u] = None
        /\ \A w \in Clients \ {u} : request'[w] = request[w]
    BY <1>1, <1>10 DEF Refuse, EndRequest
  <2>. QED BY <2>1 DEF Aside, IsAt
<1>11. CASE Others
  <2>1. CASE \E p \in Paths : FreePath(p) \/ \E u \in load.holders : LockPath(u, p)
    <3>1. UNCHANGED versionVars /\ request' = request
      BY <2>1 DEF FreePath, LockPath
    <3>. QED BY <3>1, <1>3 DEF VersionStep
  <2>2. CASE \E c \in Changesets : "gate" \in load.ops /\ ApproveOrPromote(c)
    <3>1. PICK c \in Changesets : /\ Manager!Approve(c) \/ Manager!Promote(c)
                                  /\ request' = request
      BY <2>2 DEF ApproveOrPromote
    <3>2. V!Approve(c) \/ V!Promote(c)
      BY <3>1, SameOperations
    <3>. QED BY <3>1, <3>2, <1>3 DEF VersionStep
  <2>3. CASE \E name \in Branches, from \in Known \cup {None} :
               "switch" \in load.ops /\ CreateBranch(name, from)
    <3>1. PICK name \in Branches, from \in Known \cup {None} : CreateBranch(name, from)
      BY <2>3
    <3>2. from \in Changesets \cup {None}
      BY HeadTyped
    <3>. QED BY <3>1, <3>2, <1>3, <1>5
  <2>. QED BY <1>11, <2>1, <2>2, <2>3 DEF Others
<1>12. CASE Restart
  <2>1. UNCHANGED versionVars /\ \A w \in Clients : request'[w] = None
    BY <1>12 DEF Restart, RestartHandlers
  <2>. QED BY <2>1, <1>2 DEF Aside, IsAt
<1>13. CASE UNCHANGED handlerVars
  BY <1>13, <1>2, <1>4
<1>. QED BY <1>2, <1>6, <1>7, <1>8, <1>9, <1>10, <1>11, <1>12, <1>13 DEF Next, vars

\* Each of them is one that is proved of the version manager.
LEMMA VersionGood ==
  ASSUME IInv, VersionStep
  PROVE  V!Good
<1>1. HandlersInv /\ V!IInv
  BY DEF IInv, HandlersInv
<1>2. CASE UNCHANGED versionVars
  <2>1. UNCHANGED V!vars
    BY <1>2 DEF versionVars, V!vars
  <2>. QED BY <2>1, <1>1, V!NextGood, ManagerAssumptions
<1>3. ASSUME NEW name \in Branches, NEW from \in Changesets \cup {None}, V!CreateBranch(name, from)
      PROVE  V!Good
  BY <1>1, <1>3, V!CreateBranchGood, ManagerAssumptions
<1>4. ASSUME NEW c \in Changesets, V!Approve(c) PROVE V!Good
  BY <1>1, <1>4, V!ApproveGood, ManagerAssumptions
<1>5. ASSUME NEW c \in Changesets, V!Promote(c) PROVE V!Good
  BY <1>1, <1>5, V!PromoteGood, ManagerAssumptions
<1>6. ASSUME NEW u \in Clients, TakeEffect(u) PROVE V!Good
  <2>1. PICK m, h, c : TakesEffect(u, m, h, c)
    BY <1>1, <1>6, TakeEffectFacts
  <2>. QED BY <2>1 DEF TakesEffect
<1>. QED BY <1>2, <1>3, <1>4, <1>5, <1>6 DEF VersionStep

\* Histories only grow while a rollback waits.
LEMMA RollbacksNameTheirLineStep ==
  ASSUME IInv, RollbacksNameTheirLine, VersionStep, ChecksStep
  PROVE  RollbacksNameTheirLine'
<1>1. V!GrowStep /\ V!IInv /\ V!IInv'
  BY VersionGood DEF V!Good, IInv, HandlersInv
<1>2. ASSUME NEW b \in DOMAIN branches
      PROVE  /\ b \in DOMAIN branches'
             /\ V!Elements(branches[b].history) \subseteq V!Elements(branches'[b].history)
  <2>1. /\ b \in DOMAIN branches'
        /\ Len(branches[b].history) <= Len(branches'[b].history)
        /\ SubSeq(branches'[b].history, 1, Len(branches[b].history)) = branches[b].history
    BY <1>1 DEF V!GrowStep
  <2>2. branches[b].history \in Seq(Changesets) /\ branches'[b].history \in Seq(Changesets)
    BY <2>1, <1>1 DEF V!IInv, V!TypeOK, V!BranchState
  <2>. QED BY <2>1, <2>2, V!ElementsOfLonger, ManagerAssumptions
<1>3. SUFFICES ASSUME NEW u \in Clients, IsAt(u, "checked")', request'[u].kind = "rollback"
               PROVE  /\ request'[u].branch \in DOMAIN branches'
                      /\ request'[u].target \in V!Elements(branches'[request'[u].branch].history)
  BY DEF RollbacksNameTheirLine, V!Elements
<1>4. PICK b, target : b = request'[u].branch /\ target = request'[u].target
  OBVIOUS
<1>5. b \in DOMAIN branches /\ target \in V!Elements(branches[b].history)
  <2>1. CASE request'[u] = request[u]
    <3>1. IsAt(u, "checked")
      BY <2>1, <1>3 DEF IsAt
    <3>. QED BY <3>1, <2>1, <1>3, <1>4 DEF RollbacksNameTheirLine
  <2>2. CASE CheckRollback(u)
    <3>1. Manager!RollbackTarget(request[u].branch, request[u].target)
      BY <2>2 DEF CheckRollback
    <3>2. b = request[u].branch /\ target = request[u].target
      BY <2>2, <1>4 DEF CheckRollback, Checked, IInv, HandlersInv, HandlerTypeOK
    <3>. QED BY <3>1, <3>2 DEF Manager!RollbackTarget, Manager!Elements, V!Elements
  <2>. QED BY <2>1, <2>2, <1>3 DEF ChecksStep
<1>. QED BY <1>2, <1>4, <1>5

\* What the timeline needs of the version manager.
LEMMA ShownFacts == IInv => V!ShownInv
BY DEF IInv, HandlersInv, RepoMade, V!ShownInv, V!PlansNameTheirLine, V!DefaultIsABranch

\* A submission or a rollback that takes effect is one extension: its base is still
\* the end, and the target of a rollback is still on the line.
LEMMA TakeEffectIsShown ==
  ASSUME IInv, V!IInv', RollbacksNameTheirLine, NEW u \in Clients, TakeEffect(u)
  PROVE  V!ShownStep
<1>1. HandlersInv /\ V!TypeOK /\ V!ShownInv
  BY ShownFacts DEF IInv, HandlersInv, V!IInv
<1>2. PICK m, c : m = request[u] /\ c = NextChangeset
  OBVIOUS
<1>3. /\ IsAt(u, "checked") /\ V!Submittable(m.branch, m.base)
      /\ V!Store(c, m.branch, m.base, m.status, m.delta, m.target)
  BY <1>2, SameStore DEF TakeEffect
<1>4. /\ m \in Message /\ m.status \in {"visible", "draft"}
      /\ m.kind # "rollback" => m.target = None
      /\ m.kind = "rollback" => m.status = "visible" /\ m.target \in Known
  <2>1. IsPending(u)
    BY <1>3 DEF IsPending, IsAt
  <2>2. RequestFits(u)
    BY <1>1 DEF HandlersInv
  <2>. QED BY <1>2, <1>3, <2>1, <2>2 DEF RequestFits
<1>5. m.delta \in V!Delta /\ m.target \in Changesets \cup {None}
  BY <1>4, SameManager DEF Message
<1>6. m.status = "draft" => m.target = None
  BY <1>4
<1>7. m.target # None =>
        /\ m.target \in V!Known
        /\ m.target \in V!Elements(V!EnsuredBranches[m.branch].history)
        /\ \A a \in Paths : V!BlobOf(snapshots'[c][a]) = V!BlobOf(snapshots[m.target][a])
  <2>1. SUFFICES ASSUME m.target # None
                 PROVE  /\ m.target \in Known
                        /\ m.target \in V!Elements(branches[m.branch].history)
                        /\ \A a \in Paths : V!BlobOf(snapshots'[c][a]) = V!BlobOf(snapshots[m.target][a])
    BY <1>1, VersionFacts, SameManager
  <2>2. m.target \in Known /\ m.target \in V!Elements(branches[m.branch].history)
    BY <2>1, <1>2, <1>3, <1>4 DEF RollbacksNameTheirLine
  <2>3. changesets'[c].restores = m.target /\ c \in V!Known'
    BY <1>3 DEF V!Store, V!Put, V!NewRecord, V!Known
  <2>4. \A d \in Known : snapshots'[d] = snapshots[d]
    <3>1. PICK n, h, d : TakesEffect(u, n, h, d)
      BY <1>1, TakeEffectFacts
    <3>. QED BY <3>1 DEF TakesEffect
  <2>5. V!RollbackRestoresContent'
    BY DEF V!IInv
  <2>6. PICK t : t = m.target
    OBVIOUS
  <2>7. \A a \in Paths : V!BlobOf(snapshots'[c][a]) = V!BlobOf(snapshots'[t][a])
    BY <2>1, <2>3, <2>5, <2>6 DEF V!RollbackRestoresContent
  <2>8. snapshots'[t] = snapshots[t]
    BY <2>2, <2>4, <2>6
  <2>. QED BY <2>2, <2>6, <2>7, <2>8
<1>8. PICK name, base, status, delta, restores :
        /\ name = m.branch /\ base = m.base /\ status = m.status
        /\ delta = m.delta /\ restores = m.target
  OBVIOUS
<1>9. /\ status \in {"draft", "visible"} /\ delta \in V!Delta
      /\ restores \in Changesets \cup {None}
      /\ status = "draft" => restores = None
  BY <1>4, <1>5, <1>6, <1>8
<1>10. V!Submittable(name, base) /\ V!Store(c, name, base, status, delta, restores)
  BY <1>3, <1>8
<1>11. restores # None =>
         /\ restores \in V!Known
         /\ restores \in V!Elements(V!EnsuredBranches[name].history)
         /\ \A a \in Paths : V!BlobOf(snapshots'[c][a]) = V!BlobOf(snapshots[restores][a])
  BY <1>7, <1>8
<1>. QED BY <1>1, <1>9, <1>10, <1>11, V!StoreIsShown, ManagerAssumptions

LEMMA VersionIsShown ==
  ASSUME IInv, V!IInv', RollbacksNameTheirLine, VersionStep
  PROVE  V!ShownStep
<1>1. V!ShownInv
  BY ShownFacts
<1>2. CASE UNCHANGED versionVars
  <2>1. branches' = branches /\ changesets' = changesets /\ snapshots' = snapshots
    BY <1>2 DEF versionVars
  <2>. QED BY <1>1, <2>1, V!OpenIsShown, ManagerAssumptions
<1>3. ASSUME NEW name \in Branches, NEW from \in Changesets \cup {None}, V!CreateBranch(name, from)
      PROVE  V!ShownStep
  BY <1>1, <1>3, V!CreateBranchIsShown, ManagerAssumptions
<1>4. ASSUME NEW c \in Changesets, V!Approve(c) PROVE V!ShownStep
  BY <1>1, <1>4, V!ApproveIsShown, ManagerAssumptions
<1>5. ASSUME NEW c \in Changesets, V!Promote(c) PROVE V!ShownStep
  BY <1>1, <1>5, V!PromoteIsShown, ManagerAssumptions
<1>6. ASSUME NEW u \in Clients, TakeEffect(u) PROVE V!ShownStep
  BY <1>6, TakeEffectIsShown
<1>. QED BY <1>2, <1>3, <1>4, <1>5, <1>6 DEF VersionStep

\* Users see a repository that was created.
LEMMA HandlerInitIsShown == HandlerInit => V!Shown!Init
<1>. SUFFICES ASSUME HandlerInit PROVE V!Shown!Init
  OBVIOUS
<1>1. /\ branches = [b \in {Main} |-> Manager!NewBranch] /\ changesets = [c \in {} |-> None]
  BY DEF HandlerInit
<1>2. V!Line = [x \in {Main} |-> << >>]
  BY <1>1 DEF V!Line, V!LinesOf, Manager!NewBranch
<1>3. V!Known = {}
  BY <1>1 DEF V!Known
<1>4. V!Made = [c \in {} |-> None] /\ V!Approved = {}
  BY <1>3 DEF V!Made, V!Approved
<1>. QED BY <1>2, <1>4, MainIsABranch DEF V!Shown!Init, V!Shown!FirstLines

\* What users see of the repository, by what the handlers call and by what is proved
\* of it.
LEMMA SameTimeline ==
  /\ V!Shown!Init <=> Manager!Shown!Init
  /\ V!Shown!Next <=> Manager!Shown!Next
  /\ UNCHANGED <<V!Line, V!Made, V!Approved>>
       => UNCHANGED <<Manager!Line, Manager!Made, Manager!Approved>>
<1>1. (V!Shown!Init <=> Manager!Shown!Init) /\ (V!Shown!Next <=> Manager!Shown!Next)
  BY DEF Manager!Shown!Init, V!Shown!Init, Manager!Shown!Next, V!Shown!Next,
         Manager!Shown!Lines, V!Shown!Lines, Manager!Shown!FirstLines, V!Shown!FirstLines,
         Manager!Shown!Open, V!Shown!Open, Manager!Shown!Begin, V!Shown!Begin,
         Manager!Shown!IsLine, V!Shown!IsLine, Manager!Shown!Make, V!Shown!Make,
         Manager!Shown!Draft, V!Shown!Draft, Manager!Shown!Submit, V!Shown!Submit,
         Manager!Shown!Approve, V!Shown!Approve, Manager!Shown!Publish, V!Shown!Publish,
         Manager!Shown!Members, V!Shown!Members, Manager!Shown!End, V!Shown!End,
         Manager!Shown!Extended, V!Shown!Extended, Manager!Line, V!Line, Manager!LinesOf,
         V!LinesOf, Manager!Made, V!Made, Manager!Approved, V!Approved, Manager!Seen, V!Seen,
         Manager!Known, V!Known, Manager!SnapshotOf, V!SnapshotOf, Manager!NoAssets, V!NoAssets,
         Manager!BlobOf, V!BlobOf
<1>2. UNCHANGED <<V!Line, V!Made, V!Approved>>
        => UNCHANGED <<Manager!Line, Manager!Made, Manager!Approved>>
  BY DEF Manager!Line, V!Line, Manager!LinesOf, V!LinesOf, Manager!Made, V!Made,
         Manager!Approved, V!Approved, Manager!Seen, V!Seen, Manager!Known, V!Known,
         Manager!SnapshotOf, V!SnapshotOf, Manager!NoAssets, V!NoAssets, Manager!BlobOf,
         V!BlobOf
<1>. QED BY <1>1, <1>2

\* The handlers, which check first and act after an await, implement the timeline of
\* the repository they share (api/versioning.rs): whatever clients, restarts and lost
\* answers do in between, every operation is one extension of one line, by a changeset
\* whose author saw its end, and a rollback restores a changeset of that line.
THEOREM HandlersKeepTheTimeline == Spec => Manager!OneTimeline
<1>1. Init => IInv /\ RollbacksNameTheirLine /\ Manager!Shown!Init
  BY InitGood, HandlerInitIsShown, SameTimeline DEF Init, HandlerInit, RollbacksNameTheirLine, IsAt
<1>2. IInv /\ RollbacksNameTheirLine /\ [Next]_vars =>
        /\ IInv' /\ RollbacksNameTheirLine'
        /\ [Manager!Shown!Next]_<<Manager!Line, Manager!Made, Manager!Approved>>
  <2>. SUFFICES ASSUME IInv, RollbacksNameTheirLine, [Next]_vars
                PROVE  /\ IInv' /\ RollbacksNameTheirLine'
                       /\ [Manager!Shown!Next]_<<Manager!Line, Manager!Made, Manager!Approved>>
    OBVIOUS
  <2>1. IInv' /\ V!IInv'
    BY NextGood DEF StepGood, IInv, HandlersInv
  <2>2. VersionStep /\ ChecksStep
    BY StepOfVersions
  <2>3. RollbacksNameTheirLine' /\ V!ShownStep
    BY <2>1, <2>2, RollbacksNameTheirLineStep, VersionIsShown
  <2>. QED BY <2>1, <2>3, SameTimeline DEF V!ShownStep
<1>. QED BY <1>1, <1>2, PTL DEF Spec, Manager!OneTimeline, Manager!Shown!Spec
==============================================================================
