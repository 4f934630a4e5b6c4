--------------------------- MODULE LockManagerProofs ---------------------------
(***************************************************************************)
(* Proofs about LockManager, for every number of owners, requests and      *)
(* times.                                                                  *)
(*                                                                         *)
(* HolderHasRow is proved for requests that come one at a time, and even  *)
(* so it is not inductive: between its statement and its answer a request  *)
(* knows a lock its owner was not told of yet.  AnswersAreCurrent says     *)
(* that what it will tell its owner, or has read for it, is the row as     *)
(* long as the lease runs; WithinTerm, of any requests, that nobody was    *)
(* told of more than a term, so that a row that has ended ends all leases  *)
(* before it; CacheFollows, that a lone request finds the cache as the row *)
(* is. For requests at the same time, section 6 of the README names what   *)
(* happens.                                                                *)
(***************************************************************************)
EXTENDS LockManager, FiniteSetTheorems, TLAPS

\* One request at a time means what it says.
Alone == load.atOnce = 1 => \A r, q \in UnderWay : r = q

\* Nobody was promised more than a term from now, and a request writes its own lock.
WithinTerm ==
  /\ db # NoLock => db.until <= now + Term
  /\ \A o \in Owners : told[o] <= now + Term
  /\ \A r \in UnderWay :
       /\ req[r].began <= now
       /\ req[r].lock.until <= now + Term
       /\ req[r].seen # NoLock => req[r].seen.until <= now + Term
       /\ req[r].at \in {"acquire", "extend"} => req[r].lock.owner = req[r].owner

\* With one request at a time, the cache is the row but for the request's own step.
CacheFollows ==
  load.atOnce = 1 =>
    /\ UnderWay = {} => cache = db
    /\ \A r \in UnderWay :
         /\ req[r].at \in {"acquire", "extend", "delete", "force"} => cache = db
         /\ req[r].at = "acquire" => req[r].seen = db
         /\ req[r].at = "extend" => db # NoLock /\ db.owner = req[r].owner
         /\ req[r].at = "delete" => \A o \in Owners : told[o] <= now
         /\ req[r].at = "put" => req[r].lock = db
         /\ req[r].at = "drop" => db = NoLock

\* What a request will answer, and what it saw, is the row while the lease runs.
AnswersAreCurrent ==
  \A r \in UnderWay :
    /\ req[r].at \in {"acquire", "extend"} /\ told[req[r].owner] > now =>
         told[req[r].owner] <= req[r].lock.until
    /\ /\ req[r].at = "acquire" /\ req[r].seen # NoLock
       /\ req[r].seen.owner = req[r].owner /\ req[r].seen.until > now
       => db = req[r].seen
    /\ req[r].at = "put" /\ req[r].lock.owner = req[r].owner /\ req[r].lock.until > now =>
         db = req[r].lock

\* The inductive invariant.
IInv ==
  /\ TypeOK
  /\ Alone
  /\ WithinTerm
  /\ CacheFollows
  /\ load.atOnce = 1 => HolderHasRow /\ AnswersAreCurrent
-----------------------------------------------------------------------------
(* What a step does to the requests. *)

\* The steps a request awaits.
Steps == {"acquire", "extend", "delete", "force", "put", "drop"}

\* A request that arrives is one more, at its first step.
LEMMA BeginFacts ==
  ASSUME TypeOK, NEW r \in Requests, NEW o \in Owners, NEW op, NEW at \in Steps,
         Begin(r, op, o, at)
  PROVE  /\ req' \in [Requests -> Request \cup {Idle}]
         /\ req'[r] = [owner |-> o, at |-> at, lock |-> [owner |-> o, until |-> now + Term],
                       seen |-> db, began |-> now]
         /\ req'[r] # Idle
         /\ \A q \in Requests \ {r} : req'[q] = req[q]
         /\ r \notin UnderWay
         /\ UnderWay' = UnderWay \cup {r}
         /\ op \in load.ops
         /\ load.atOnce = 1 => UnderWay = {}
         /\ load.waits => \A q \in UnderWay : req[q].owner # o
<1> DEFINE new == [owner |-> o, at |-> at, lock |-> Fresh(o), seen |-> db, began |-> now]
<1>1. Fresh(o) \in Lock /\ Fresh(o) = [owner |-> o, until |-> now + Term]
  BY TermIsPositive DEF Fresh, Lock, TypeOK
<1>2. new \in Request
  BY <1>1 DEF Request, TypeOK, Steps
<1>3. new # Idle
  BY <1>2, IdleIsNoRequest
<1>. HIDE DEF new
<1>4. req' = [req EXCEPT ![r] = new] /\ req[r] = Idle
  BY DEF Begin, new
<1>5. /\ req' \in [Requests -> Request \cup {Idle}]
      /\ req'[r] = new
      /\ \A q \in Requests \ {r} : req'[q] = req[q]
  BY <1>2, <1>4 DEF TypeOK
<1>6. r \notin UnderWay /\ UnderWay' = UnderWay \cup {r}
  BY <1>3, <1>4, <1>5 DEF UnderWay
<1>7. ASSUME load.atOnce = 1 PROVE UnderWay = {}
  <2>1. IsFiniteSet(UnderWay)
    BY RequestsAreFinite, FS_Subset DEF UnderWay
  <2>2. Cardinality(UnderWay) \in Nat /\ Cardinality(UnderWay) < 1
    BY <1>7, <2>1, FS_CardinalityType DEF Begin
  <2>. QED BY <2>1, <2>2, FS_EmptySet
<1>. QED BY <1>1, <1>3, <1>5, <1>6, <1>7 DEF Begin, new

\* A request that goes on keeps its owner and knows the lock it goes on with.
LEMMA ContinueFacts ==
  ASSUME TypeOK, NEW r \in UnderWay, NEW at \in Steps, NEW lock \in Lock,
         Continue(r, at, lock)
  PROVE  /\ req' \in [Requests -> Request \cup {Idle}]
         /\ req'[r] = [owner |-> req[r].owner, at |-> at, lock |-> lock, seen |-> NoLock,
                       began |-> 0]
         /\ \A q \in Requests \ {r} : req'[q] = req[q]
         /\ UnderWay' = UnderWay
<1>1. req[r] \in Request /\ r \in Requests /\ req[r] # Idle
  BY DEF TypeOK, UnderWay
<1> DEFINE new == [owner |-> req[r].owner, at |-> at, lock |-> lock, seen |-> NoLock, began |-> 0]
<1>2. new \in Request
  BY <1>1 DEF Request, Steps
<1>3. req' = [req EXCEPT ![r] = new]
  BY DEF Continue
<1>4. new # Idle
  BY <1>2, IdleIsNoRequest
<1>. HIDE DEF new
<1>5. /\ req' \in [Requests -> Request \cup {Idle}]
      /\ req'[r] = new
      /\ \A q \in Requests \ {r} : req'[q] = req[q]
  BY <1>1, <1>2, <1>3 DEF TypeOK
<1>6. UnderWay' = UnderWay
  BY <1>1, <1>4, <1>5 DEF UnderWay
<1>. QED BY <1>5, <1>6 DEF new

\* A request that ends is gone, and the others stay.
LEMMA FinishFacts ==
  ASSUME TypeOK, NEW r \in UnderWay, Finish(r)
  PROVE  /\ req' \in [Requests -> Request \cup {Idle}]
         /\ \A q \in Requests \ {r} : req'[q] = req[q]
         /\ UnderWay' = UnderWay \ {r}
BY DEF Finish, TypeOK, UnderWay

\* Types that the other lemmas read off TypeOK.
LEMMA Types ==
  ASSUME TypeOK
  PROVE  /\ now \in Nat /\ Term \in Nat /\ Term > 0
         /\ told \in [Owners -> Nat]
         /\ db # NoLock => db \in Lock /\ db.owner \in Owners /\ db.until \in Nat
         /\ cache # NoLock => cache \in Lock /\ cache.owner \in Owners /\ cache.until \in Nat
         /\ \A r \in UnderWay :
              /\ r \in Requests /\ req[r] # Idle /\ req[r] \in Request
              /\ req[r].owner \in Owners /\ req[r].at \in Steps /\ req[r].began \in Nat
              /\ req[r].lock \in Lock /\ req[r].lock.owner \in Owners /\ req[r].lock.until \in Nat
              /\ req[r].lock # NoLock
              /\ req[r].seen # NoLock =>
                   req[r].seen \in Lock /\ req[r].seen.owner \in Owners /\ req[r].seen.until \in Nat
<1>1. \A l \in Lock : l.owner \in Owners /\ l.until \in Nat /\ l # NoLock
  BY MarkersAreFresh DEF Lock
<1>2. \A x \in Request :
        /\ x.owner \in Owners /\ x.at \in Steps /\ x.began \in Nat
        /\ x.lock \in Lock /\ x.seen \in Lock \cup {NoLock}
  BY DEF Request, Steps
<1>3. \A r \in UnderWay : r \in Requests /\ req[r] # Idle /\ req[r] \in Request
  BY DEF TypeOK, UnderWay
<1>. QED BY <1>1, <1>2, <1>3, TermIsPositive DEF TypeOK

-----------------------------------------------------------------------------
(* Every step keeps the invariant. *)

\* The arrivals: they change the requests only.
LEMMA BeginAcquireKeeps ==
  ASSUME IInv, NEW r \in Requests, NEW o \in Owners, BeginAcquire(r, o)
  PROVE  IInv'
<1>1. TypeOK
  BY DEF IInv
<1>2. UNCHANGED <<load, now, db, cache, told>>
  BY DEF BeginAcquire
<1>3. Begin(r, "acquire", o, "acquire")
  BY DEF BeginAcquire
<1>4. /\ req' \in [Requests -> Request \cup {Idle}]
      /\ req'[r] = [owner |-> o, at |-> "acquire", lock |-> [owner |-> o, until |-> now + Term],
                    seen |-> db, began |-> now]
      /\ \A q \in Requests \ {r} : req'[q] = req[q]
      /\ r \notin UnderWay
      /\ UnderWay' = UnderWay \cup {r}
      /\ load.atOnce = 1 => UnderWay = {}
      /\ load.waits => \A q \in UnderWay : req[q].owner # o
  BY <1>1, <1>3, BeginFacts DEF Steps
<1>5. TypeOK'
  BY <1>1, <1>2, <1>4 DEF TypeOK
<1>6. Alone'
  BY <1>1, <1>2, <1>4, Types DEF IInv, Alone
<1>7. WithinTerm'
  BY <1>1, <1>2, <1>4, Types DEF IInv, WithinTerm
<1>8. CacheFollows'
  BY <1>1, <1>2, <1>4, Types DEF IInv, CacheFollows
<1>9. load.atOnce = 1 => HolderHasRow' /\ AnswersAreCurrent'
  BY <1>1, <1>2, <1>4, Types DEF IInv, HolderHasRow, AnswersAreCurrent, WithinTerm
<1>. QED BY <1>2, <1>5, <1>6, <1>7, <1>8, <1>9 DEF IInv

\* A renewal finds its owner in the cache.
LEMMA BeginRenewKeeps ==
  ASSUME IInv, NEW r \in Requests, NEW o \in Owners, BeginRenew(r, o)
  PROVE  IInv'
<1> DEFINE at == IF Expired(cache, now) THEN "delete" ELSE "extend"
<1>1. TypeOK
  BY DEF IInv
<1>2. UNCHANGED <<load, now, db, cache, told>> /\ cache # NoLock /\ cache.owner = o
  BY DEF BeginRenew, CachedFor
<1>3. Begin(r, "renew", o, at) /\ at \in Steps
  BY DEF BeginRenew, Steps
<1>4. /\ req' \in [Requests -> Request \cup {Idle}]
      /\ req'[r] = [owner |-> o, at |-> at, lock |-> [owner |-> o, until |-> now + Term],
                    seen |-> db, began |-> now]
      /\ \A q \in Requests \ {r} : req'[q] = req[q]
      /\ r \notin UnderWay
      /\ UnderWay' = UnderWay \cup {r}
      /\ "renew" \in load.ops
      /\ load.atOnce = 1 => UnderWay = {}
      /\ load.waits => \A q \in UnderWay : req[q].owner # o
  BY <1>1, <1>3, BeginFacts
<1>6. load.atOnce = 1 => UnderWay = {} /\ cache = db
  BY <1>4 DEF IInv, CacheFollows
<1>7. TypeOK'
  BY <1>1, <1>2, <1>4 DEF TypeOK
<1>8. Alone'
  BY <1>1, <1>2, <1>4, Types DEF IInv, Alone
<1>9. WithinTerm'
  BY <1>1, <1>2, <1>4, Types DEF IInv, WithinTerm
<1>10. CacheFollows'
  <2>1. ASSUME load.atOnce = 1, Expired(cache, now), NEW p \in Owners PROVE told[p] <= now
    BY <2>1, <1>1, <1>2, <1>4, Types DEF Expired, HolderHasRow, IInv, CacheFollows
  <2>. QED BY <2>1, <1>1, <1>2, <1>4, Types DEF IInv, CacheFollows
<1>11. load.atOnce = 1 => HolderHasRow' /\ AnswersAreCurrent'
  BY <1>1, <1>2, <1>4, <1>6, Types DEF IInv, HolderHasRow, AnswersAreCurrent, WithinTerm
<1>. QED BY <1>2, <1>7, <1>8, <1>9, <1>10, <1>11 DEF IInv

\* A release finds its owner in the cache and gives the lease up.
LEMMA BeginUnlockKeeps ==
  ASSUME IInv, NEW r \in Requests, NEW o \in Owners, BeginUnlock(r, o)
  PROVE  IInv'
<1>1. TypeOK
  BY DEF IInv
<1>2. UNCHANGED <<load, now, db, cache>> /\ cache # NoLock /\ cache.owner = o
      /\ told' = [told EXCEPT ![o] = 0]
  BY DEF BeginUnlock, CachedFor
<1>3. Begin(r, "unlock", o, "delete")
  BY DEF BeginUnlock
<1>4. /\ req' \in [Requests -> Request \cup {Idle}]
      /\ req'[r] = [owner |-> o, at |-> "delete", lock |-> [owner |-> o, until |-> now + Term],
                    seen |-> db, began |-> now]
      /\ \A q \in Requests \ {r} : req'[q] = req[q]
      /\ r \notin UnderWay
      /\ UnderWay' = UnderWay \cup {r}
      /\ "unlock" \in load.ops
      /\ load.atOnce = 1 => UnderWay = {}
      /\ load.waits => \A q \in UnderWay : req[q].owner # o
  BY <1>1, <1>3, BeginFacts DEF Steps
<1>6. load.atOnce = 1 => UnderWay = {} /\ cache = db
  BY <1>4 DEF IInv, CacheFollows
<1>7. TypeOK'
  BY <1>1, <1>2, <1>4 DEF TypeOK
<1>8. Alone'
  BY <1>1, <1>2, <1>4, Types DEF IInv, Alone
<1>9. WithinTerm'
  BY <1>1, <1>2, <1>4, Types DEF IInv, WithinTerm
<1>10. CacheFollows'
  <2>1. ASSUME load.atOnce = 1, NEW p \in Owners PROVE told'[p] <= now
    BY <2>1, <1>1, <1>2, <1>4, Types DEF HolderHasRow, IInv, CacheFollows
  <2>. QED BY <2>1, <1>1, <1>2, <1>4, Types DEF IInv, CacheFollows
<1>11. load.atOnce = 1 => HolderHasRow' /\ AnswersAreCurrent'
  BY <1>1, <1>2, <1>4, <1>6, Types DEF IInv, HolderHasRow, AnswersAreCurrent, WithinTerm
<1>. QED BY <1>2, <1>7, <1>8, <1>9, <1>10, <1>11 DEF IInv

\* A forced release asks nobody, and the leases are over.
LEMMA BeginForceKeeps ==
  ASSUME IInv, NEW r \in Requests, NEW o \in Owners, BeginForce(r, o)
  PROVE  IInv'
<1>1. TypeOK
  BY DEF IInv
<1>2. UNCHANGED <<load, now, db, cache, told>>
  BY DEF BeginForce
<1>3. Begin(r, "force", o, "force")
  BY DEF BeginForce
<1>4. /\ req' \in [Requests -> Request \cup {Idle}]
      /\ req'[r] = [owner |-> o, at |-> "force", lock |-> [owner |-> o, until |-> now + Term],
                    seen |-> db, began |-> now]
      /\ \A q \in Requests \ {r} : req'[q] = req[q]
      /\ r \notin UnderWay
      /\ UnderWay' = UnderWay \cup {r}
      /\ "force" \in load.ops
      /\ load.atOnce = 1 => UnderWay = {}
      /\ load.waits => \A q \in UnderWay : req[q].owner # o
  BY <1>1, <1>3, BeginFacts DEF Steps
<1>6. TypeOK'
  BY <1>1, <1>2, <1>4 DEF TypeOK
<1>7. Alone'
  BY <1>1, <1>2, <1>4, Types DEF IInv, Alone
<1>8. WithinTerm'
  BY <1>1, <1>2, <1>4, Types DEF IInv, WithinTerm
<1>9. CacheFollows'
  BY <1>1, <1>2, <1>4, Types DEF IInv, CacheFollows
<1>10. load.atOnce = 1 => HolderHasRow' /\ AnswersAreCurrent'
  BY <1>1, <1>2, <1>4, Types DEF IInv, HolderHasRow, AnswersAreCurrent, WithinTerm
<1>. QED BY <1>2, <1>6, <1>7, <1>8, <1>9, <1>10 DEF IInv

\* The upsert takes a row that is free, over, or the owner's own.
LEMMA AcquireRowKeeps ==
  ASSUME IInv, NEW r \in Requests, AcquireRow(r)
  PROVE  IInv'
<1>1. TypeOK
  BY DEF IInv
<1>2. UNCHANGED <<load, now, cache, told>> /\ db' = req[r].lock
      /\ r \in UnderWay /\ req[r].at = "acquire" /\ Obtains(r)
  BY DEF AcquireRow, At, UnderWay
<1>3. /\ req' \in [Requests -> Request \cup {Idle}]
      /\ req'[r] = [owner |-> req[r].owner, at |-> "put", lock |-> req[r].lock,
                    seen |-> NoLock, began |-> 0]
      /\ \A q \in Requests \ {r} : req'[q] = req[q]
      /\ UnderWay' = UnderWay
  BY <1>1, <1>2, ContinueFacts, Types DEF AcquireRow, Steps
<1>4. TypeOK'
  BY <1>1, <1>2, <1>3, Types DEF TypeOK
<1>5. Alone'
  BY <1>1, <1>2, <1>3, Types DEF IInv, Alone
<1>6. WithinTerm'
  BY <1>1, <1>2, <1>3, Types DEF IInv, WithinTerm
<1>7. CacheFollows'
  BY <1>1, <1>2, <1>3, Types DEF IInv, CacheFollows, Alone
<1>8. ASSUME load.atOnce = 1 PROVE HolderHasRow' /\ AnswersAreCurrent'
  <2>1. \A q \in UnderWay : q # r => req[q].owner # req[r].owner
    BY <1>1, <1>2, <1>8, Types DEF IInv, Alone
  <2>2. \A o \in Owners : told[o] > now => o = req[r].owner /\ told[o] <= req[r].lock.until
    BY <1>1, <1>2, <1>8, Types
    DEF Obtains, Expired, IInv, HolderHasRow, AnswersAreCurrent, WithinTerm
  <2>3. HolderHasRow'
    BY <1>1, <1>2, <1>3, <2>2, Types DEF IInv, HolderHasRow, WithinTerm
  <2>4. \A q \in UnderWay : q # r /\ db # NoLock /\ db.owner = req[q].owner => db.until <= now
    BY <1>1, <1>2, <2>1, Types DEF Obtains, Expired, IInv, WithinTerm
  <2>5. AnswersAreCurrent'
    BY <1>1, <1>2, <1>3, <1>8, <2>1, <2>4, Types DEF IInv, AnswersAreCurrent, WithinTerm
  <2>. QED BY <2>3, <2>5
<1>. QED BY <1>2, <1>4, <1>5, <1>6, <1>7, <1>8 DEF IInv

\* The upsert finds another owner's row, and answers what it saw.
LEMMA FindRowKeeps ==
  ASSUME IInv, NEW r \in Requests, FindRow(r)
  PROVE  IInv'
<1>1. TypeOK
  BY DEF IInv
<1>2. UNCHANGED <<load, now, db, cache, told>>
      /\ r \in UnderWay /\ req[r].at = "acquire" /\ ~Obtains(r)
  BY DEF FindRow, At, UnderWay
<1>3. CASE req[r].seen = NoLock
  <2>1. Finish(r)
    BY <1>3 DEF FindRow
  <2>2. /\ req' \in [Requests -> Request \cup {Idle}]
        /\ \A q \in Requests \ {r} : req'[q] = req[q]
        /\ UnderWay' = UnderWay \ {r}
    BY <1>1, <1>2, <2>1, FinishFacts
  <2>3. TypeOK'
    BY <1>1, <1>2, <2>2 DEF TypeOK
  <2>4. Alone'
    BY <1>1, <1>2, <2>2, Types DEF IInv, Alone
  <2>5. WithinTerm'
    BY <1>1, <1>2, <2>2, Types DEF IInv, WithinTerm
  <2>6. CacheFollows'
    BY <1>1, <1>2, <2>2, Types DEF IInv, CacheFollows
  <2>7. load.atOnce = 1 => HolderHasRow' /\ AnswersAreCurrent'
    BY <1>1, <1>2, <2>2, Types DEF IInv, HolderHasRow, AnswersAreCurrent
  <2>. QED BY <1>2, <2>3, <2>4, <2>5, <2>6, <2>7 DEF IInv
<1>4. CASE req[r].seen # NoLock
  <2>1. /\ req' \in [Requests -> Request \cup {Idle}]
        /\ req'[r] = [owner |-> req[r].owner, at |-> "put", lock |-> req[r].seen,
                      seen |-> NoLock, began |-> 0]
        /\ \A q \in Requests \ {r} : req'[q] = req[q]
        /\ UnderWay' = UnderWay
    BY <1>1, <1>2, <1>4, ContinueFacts, Types DEF FindRow, Steps
  <2>2. TypeOK'
    BY <1>1, <1>2, <2>1 DEF TypeOK
  <2>3. Alone'
    BY <1>1, <1>2, <2>1, Types DEF IInv, Alone
  <2>4. WithinTerm'
    BY <1>1, <1>2, <1>4, <2>1, Types DEF IInv, WithinTerm
  <2>5. CacheFollows'
    BY <1>1, <1>2, <1>4, <2>1, Types DEF IInv, CacheFollows, Alone
  <2>6. load.atOnce = 1 => HolderHasRow'
    BY <1>1, <1>2, <2>1, Types DEF IInv, HolderHasRow
  <2>7. load.atOnce = 1 => AnswersAreCurrent'
    BY <1>1, <1>2, <1>4, <2>1, Types DEF IInv, AnswersAreCurrent, Obtains
  <2>. QED BY <1>2, <2>2, <2>3, <2>4, <2>5, <2>6, <2>7 DEF IInv
<1>. QED BY <1>3, <1>4

\* A renewal writes its row by the path alone.
LEMMA ExtendRowKeeps ==
  ASSUME IInv, NEW r \in Requests, ExtendRow(r)
  PROVE  IInv'
<1>1. TypeOK
  BY DEF IInv
<1>2. UNCHANGED <<load, now, cache, told>> /\ db' = req[r].lock
      /\ r \in UnderWay /\ req[r].at = "extend"
  BY DEF ExtendRow, At, UnderWay
<1>3. /\ req' \in [Requests -> Request \cup {Idle}]
      /\ req'[r] = [owner |-> req[r].owner, at |-> "put", lock |-> req[r].lock,
                    seen |-> NoLock, began |-> 0]
      /\ \A q \in Requests \ {r} : req'[q] = req[q]
      /\ UnderWay' = UnderWay
  BY <1>1, <1>2, ContinueFacts, Types DEF ExtendRow, Steps
<1>4. load.atOnce = 1 => UnderWay = {r}
  BY <1>2 DEF IInv, Alone
<1>5. TypeOK'
  BY <1>1, <1>2, <1>3, Types DEF TypeOK
<1>6. Alone'
  BY <1>1, <1>2, <1>3, Types DEF IInv, Alone
<1>7. WithinTerm'
  BY <1>1, <1>2, <1>3, Types DEF IInv, WithinTerm
<1>8. CacheFollows'
  BY <1>1, <1>2, <1>3, Types DEF IInv, CacheFollows, Alone
<1>9. ASSUME load.atOnce = 1 PROVE HolderHasRow' /\ AnswersAreCurrent'
  <2>1. \A o \in Owners : told[o] > now => o = req[r].owner /\ told[o] <= req[r].lock.until
    BY <1>1, <1>2, <1>4, <1>9, Types
    DEF IInv, HolderHasRow, AnswersAreCurrent, CacheFollows
  <2>2. HolderHasRow'
    BY <1>1, <1>2, <1>3, <2>1, Types DEF IInv, HolderHasRow, WithinTerm
  <2>3. AnswersAreCurrent'
    BY <1>1, <1>2, <1>3, <1>4, <1>9, Types DEF AnswersAreCurrent
  <2>. QED BY <2>2, <2>3
<1>. QED BY <1>2, <1>5, <1>6, <1>7, <1>8, <1>9 DEF IInv

\* A release deletes the row by the path alone.
LEMMA DeleteRowKeeps ==
  ASSUME IInv, NEW r \in Requests, DeleteRow(r)
  PROVE  IInv'
<1>1. TypeOK
  BY DEF IInv
<1>2. UNCHANGED <<load, now, cache, told>> /\ db' = NoLock
      /\ r \in UnderWay /\ req[r].at = "delete"
  BY DEF DeleteRow, At, UnderWay
<1>3. /\ req' \in [Requests -> Request \cup {Idle}]
      /\ req'[r] = [owner |-> req[r].owner, at |-> "drop", lock |-> req[r].lock,
                    seen |-> NoLock, began |-> 0]
      /\ \A q \in Requests \ {r} : req'[q] = req[q]
      /\ UnderWay' = UnderWay
  BY <1>1, <1>2, ContinueFacts, Types DEF DeleteRow, Steps
<1>4. load.atOnce = 1 => UnderWay = {r}
  BY <1>2 DEF IInv, Alone
<1>5. TypeOK'
  BY <1>1, <1>2, <1>3, Types DEF TypeOK
<1>6. Alone'
  BY <1>1, <1>2, <1>3, Types DEF IInv, Alone
<1>7. WithinTerm'
  BY <1>1, <1>2, <1>3, Types DEF IInv, WithinTerm
<1>8. CacheFollows'
  BY <1>1, <1>2, <1>3, Types DEF IInv, CacheFollows, Alone
<1>9. ASSUME load.atOnce = 1 PROVE HolderHasRow' /\ AnswersAreCurrent'
  BY <1>1, <1>2, <1>3, <1>4, <1>9, Types DEF IInv, HolderHasRow, AnswersAreCurrent, CacheFollows
<1>. QED BY <1>2, <1>5, <1>6, <1>7, <1>8, <1>9 DEF IInv

\* A forced release deletes it as well.
LEMMA ForceDeleteRowKeeps ==
  ASSUME IInv, NEW r \in Requests, ForceDeleteRow(r)
  PROVE  IInv'
<1>1. TypeOK
  BY DEF IInv
<1>2. UNCHANGED <<load, now, cache>> /\ db' = NoLock /\ told' = [o \in Owners |-> 0]
      /\ r \in UnderWay /\ req[r].at = "force"
  BY DEF ForceDeleteRow, At, UnderWay
<1>3. /\ req' \in [Requests -> Request \cup {Idle}]
      /\ req'[r] = [owner |-> req[r].owner, at |-> "drop", lock |-> req[r].lock,
                    seen |-> NoLock, began |-> 0]
      /\ \A q \in Requests \ {r} : req'[q] = req[q]
      /\ UnderWay' = UnderWay
  BY <1>1, <1>2, ContinueFacts, Types DEF ForceDeleteRow, Steps
<1>4. load.atOnce = 1 => UnderWay = {r}
  BY <1>2 DEF IInv, Alone
<1>5. TypeOK'
  BY <1>1, <1>2, <1>3, Types DEF TypeOK
<1>6. Alone'
  BY <1>1, <1>2, <1>3, Types DEF IInv, Alone
<1>7. WithinTerm'
  BY <1>1, <1>2, <1>3, Types DEF IInv, WithinTerm
<1>8. CacheFollows'
  BY <1>1, <1>2, <1>3, Types DEF IInv, CacheFollows, Alone
<1>9. ASSUME load.atOnce = 1 PROVE HolderHasRow' /\ AnswersAreCurrent'
  BY <1>1, <1>2, <1>3, <1>4, <1>9, Types DEF IInv, HolderHasRow, AnswersAreCurrent
<1>. QED BY <1>2, <1>5, <1>6, <1>7, <1>8, <1>9 DEF IInv

\* A statement that fails changes nothing.
LEMMA FailRowKeeps ==
  ASSUME IInv, NEW r \in Requests, FailRow(r)
  PROVE  IInv'
<1>1. TypeOK
  BY DEF IInv
<1>2. UNCHANGED <<load, now, db, cache, told>>
      /\ r \in UnderWay /\ req[r].at \in {"acquire", "extend", "delete", "force"}
  BY DEF FailRow, At, UnderWay
<1>3. /\ req' \in [Requests -> Request \cup {Idle}]
      /\ \A q \in Requests \ {r} : req'[q] = req[q]
      /\ UnderWay' = UnderWay \ {r}
  BY <1>1, <1>2, FinishFacts DEF FailRow
<1>4. TypeOK'
  BY <1>1, <1>2, <1>3 DEF TypeOK
<1>5. Alone'
  BY <1>1, <1>2, <1>3, Types DEF IInv, Alone
<1>6. WithinTerm'
  BY <1>1, <1>2, <1>3, Types DEF IInv, WithinTerm
<1>7. CacheFollows'
  BY <1>1, <1>2, <1>3, Types DEF IInv, CacheFollows
<1>8. load.atOnce = 1 => HolderHasRow' /\ AnswersAreCurrent'
  BY <1>1, <1>2, <1>3, Types DEF IInv, HolderHasRow, AnswersAreCurrent
<1>. QED BY <1>2, <1>4, <1>5, <1>6, <1>7, <1>8 DEF IInv

\* The cache gets the lock, and its owner the answer.
LEMMA PutCacheKeeps ==
  ASSUME IInv, NEW r \in Requests, PutCache(r)
  PROVE  IInv'
<1>1. TypeOK
  BY DEF IInv
<1>2. UNCHANGED <<load, now, db>> /\ cache' = req[r].lock
      /\ r \in UnderWay /\ req[r].at = "put"
      /\ told' = IF req[r].lock.owner = req[r].owner
                 THEN [told EXCEPT ![req[r].owner] = req[r].lock.until] ELSE told
  BY DEF PutCache, At, UnderWay
<1>3. /\ req' \in [Requests -> Request \cup {Idle}]
      /\ \A q \in Requests \ {r} : req'[q] = req[q]
      /\ UnderWay' = UnderWay \ {r}
  BY <1>1, <1>2, FinishFacts DEF PutCache
<1>4. TypeOK'
  BY <1>1, <1>2, <1>3, Types DEF TypeOK
<1>5. Alone'
  BY <1>1, <1>2, <1>3, Types DEF IInv, Alone
<1>6. WithinTerm'
  BY <1>1, <1>2, <1>3, Types DEF IInv, WithinTerm
<1>7. CacheFollows'
  BY <1>1, <1>2, <1>3, Types DEF IInv, CacheFollows, Alone
<1>8. ASSUME load.atOnce = 1 PROVE HolderHasRow' /\ AnswersAreCurrent'
  <2>1. \A q \in UnderWay : q # r => req[q].owner # req[r].owner
    BY <1>1, <1>2, <1>8, Types DEF IInv, Alone
  <2>2. HolderHasRow'
    BY <1>1, <1>2, <1>3, <1>8, Types DEF IInv, HolderHasRow, AnswersAreCurrent
  <2>3. AnswersAreCurrent'
    BY <1>1, <1>2, <1>3, <1>8, <2>1, Types DEF IInv, AnswersAreCurrent
  <2>. QED BY <2>2, <2>3
<1>. QED BY <1>2, <1>4, <1>5, <1>6, <1>7, <1>8 DEF IInv

\* The cache forgets the lock.
LEMMA DropCacheKeeps ==
  ASSUME IInv, NEW r \in Requests, DropCache(r)
  PROVE  IInv'
<1>1. TypeOK
  BY DEF IInv
<1>2. UNCHANGED <<load, now, db, told>> /\ cache' = NoLock
      /\ r \in UnderWay /\ req[r].at = "drop"
  BY DEF DropCache, At, UnderWay
<1>3. /\ req' \in [Requests -> Request \cup {Idle}]
      /\ \A q \in Requests \ {r} : req'[q] = req[q]
      /\ UnderWay' = UnderWay \ {r}
  BY <1>1, <1>2, FinishFacts DEF DropCache
<1>4. TypeOK'
  BY <1>1, <1>2, <1>3, Types DEF TypeOK
<1>5. Alone'
  BY <1>1, <1>2, <1>3, Types DEF IInv, Alone
<1>6. WithinTerm'
  BY <1>1, <1>2, <1>3, Types DEF IInv, WithinTerm
<1>7. CacheFollows'
  BY <1>1, <1>2, <1>3, Types DEF IInv, CacheFollows, Alone
<1>8. load.atOnce = 1 => HolderHasRow' /\ AnswersAreCurrent'
  BY <1>1, <1>2, <1>3, Types DEF IInv, HolderHasRow, AnswersAreCurrent
<1>. QED BY <1>2, <1>4, <1>5, <1>6, <1>7, <1>8 DEF IInv

\* A restart loads the cache from the row.
LEMMA RestartKeeps == ASSUME IInv, Restart PROVE IInv'
<1>1. UnderWay' = {}
  BY DEF Restart, UnderWay
<1>2. UNCHANGED <<load, now, db, told>> /\ cache' = db
      /\ req' \in [Requests -> Request \cup {Idle}]
  BY DEF Restart
<1>. QED BY <1>1, <1>2
     DEF IInv, TypeOK, Alone, WithinTerm, CacheFollows,
         HolderHasRow, AnswersAreCurrent

\* Time passes, and what has ended is nobody's.
LEMMA TickKeeps == ASSUME IInv, Tick PROVE IInv'
<1>1. TypeOK /\ TypeOK'
  BY DEF IInv, Tick, TypeOK
<1>2. UNCHANGED <<load, db, cache, req, told>> /\ now' = now + 1 /\ UnderWay' = UnderWay
  BY DEF Tick, UnderWay
<1>3. Alone'
  BY <1>2 DEF IInv, Alone
<1>4. WithinTerm'
  BY <1>1, <1>2, Types DEF IInv, WithinTerm
<1>5. CacheFollows'
  BY <1>1, <1>2, Types DEF IInv, CacheFollows
<1>6. load.atOnce = 1 => HolderHasRow' /\ AnswersAreCurrent'
  BY <1>1, <1>2, Types DEF IInv, HolderHasRow, AnswersAreCurrent
<1>. QED BY <1>1, <1>2, <1>3, <1>4, <1>5, <1>6 DEF IInv

\* The invariant holds at first.
LEMMA InitIInv == Init => IInv
<1> SUFFICES ASSUME Init PROVE IInv
  OBVIOUS
<1>1. UnderWay = {}
  BY DEF Init, UnderWay
<1>. QED BY <1>1, TermIsPositive
     DEF Init, IInv, TypeOK, Alone, WithinTerm, CacheFollows,
         HolderHasRow, AnswersAreCurrent

\* Every step keeps it.
LEMMA NextIInv == IInv /\ [Next]_vars => IInv'
<1> SUFFICES ASSUME IInv, [Next]_vars PROVE IInv'
  OBVIOUS
<1>1. ASSUME NEW r \in Requests, NEW o \in Owners,
             BeginAcquire(r, o) \/ BeginRenew(r, o) \/ BeginUnlock(r, o) \/ BeginForce(r, o)
      PROVE  IInv'
  BY <1>1, BeginAcquireKeeps, BeginRenewKeeps, BeginUnlockKeeps, BeginForceKeeps
<1>2. ASSUME NEW r \in Requests,
             \/ AcquireRow(r) \/ FindRow(r) \/ ExtendRow(r) \/ DeleteRow(r)
             \/ ForceDeleteRow(r) \/ FailRow(r) \/ PutCache(r) \/ DropCache(r)
      PROVE  IInv'
  BY <1>2, AcquireRowKeeps, FindRowKeeps, ExtendRowKeeps, DeleteRowKeeps,
     ForceDeleteRowKeeps, FailRowKeeps, PutCacheKeeps, DropCacheKeeps
<1>3. CASE UNCHANGED vars
  BY <1>3 DEF vars, IInv, TypeOK, Alone, WithinTerm, CacheFollows, HolderHasRow, AnswersAreCurrent, UnderWay
<1>. QED BY <1>1, <1>2, <1>3, RestartKeeps, TickKeeps DEF Next

\* It holds of every reachable state.
LEMMA Invariance == Spec => []IInv
BY InitIInv, NextIInv, PTL DEF Spec

-----------------------------------------------------------------------------
(* The theorems. *)

\* Every variable has its type (core/lock.rs).
THEOREM TypeCorrect == Spec => []TypeOK
<1>1. IInv => TypeOK
  BY DEF IInv
<1>. QED BY <1>1, Invariance, PTL

\* Requests that come one at a time leave the cache and the row equal, whatever
\* they are, and also when they fail half-way (core/lock.rs).
THEOREM CacheIsTheRow == Spec => []CacheIsRow
<1>1. IInv => CacheIsRow
  BY DEF IInv, CacheFollows, CacheIsRow
<1>. QED BY <1>1, Invariance, PTL

\* Then a handler that asks the cache keeps everybody but the holder out
\* (core/lock.rs, get_lock).
THEOREM HoldersAreProtected == Spec => []HolderIsProtected
<1>1. IInv => HolderIsProtected
  <2> SUFFICES ASSUME IInv, load.atOnce = 1, UnderWay = {}, NEW o \in Owners, told[o] > now
               PROVE  CachedFor(o) /\ ~Expired(cache, now)
    BY DEF HolderIsProtected, CacheProtects
  <2>1. cache = db /\ TypeOK
    BY DEF IInv, CacheFollows
  <2>2. db # NoLock /\ db.owner = o /\ db.until >= told[o]
    BY <2>1 DEF IInv, HolderHasRow
  <2>. QED BY <2>1, <2>2, Types DEF CachedFor, Expired
<1>. QED BY <1>1, Invariance, PTL
================================================================================
