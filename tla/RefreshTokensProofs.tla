-------------------------- MODULE RefreshTokensProofs --------------------------
(***************************************************************************)
(* Proofs about ApiKeys and RefreshTokens, for every number of keys,       *)
(* handlers, tokens and requests, and any times.                           *)
(*                                                                         *)
(* Keys. A key that was given up stays refused because nothing brings it   *)
(* back: what a handler is about to store was never handed out             *)
(* (MakingIsExclusive), so it is not one that is gone. A key that was      *)
(* handed out is kept because its row is revoked only with the             *)
(* acknowledgement (HandedAreStored). Two acts of one signed request lie   *)
(* apart because the nonce of the first is kept from the check on, and a   *)
(* claim follows its check within the delay (NonceIsKept).                 *)
(*                                                                         *)
(* Tokens. Requests about one token or family interleave freely. A token   *)
(* about to be inserted is nobody's (NewAreUnissued, NewAreUnshared), so   *)
(* an insertion revives nothing, and marks only take life: a token of a    *)
(* family that was ended stays dead. The refinement of TokenFamily follows *)
(* step by step: a use begins when the token is found live, and ends with  *)
(* the mark, which brings one token that no client had.                    *)
(***************************************************************************)
EXTENDS RefreshTokens, FiniteSetTheorems, TLAPS

(* Keys. *)

\* Handlers that await a statement.
Working == {h \in Handlers : handler[h] # None}

\* Handlers that revoke a key, at whichever step.
Revoking == {h \in Working : handler[h].at # "upsert"}

\* Handlers that store a new key.
Making == {h \in Working : handler[h].at = "upsert"}

\* A key that was handed out has a row, and one that is not revoked unless that
\* was acknowledged.
HandedAreStored ==
  /\ Master \in handed
  /\ \A k \in handed : table[k] # None /\ (k \in gone \/ ~table[k].revoked)

\* A key that is being made has not been handed out, and is made by one handler.
MakingIsExclusive ==
  \A h \in Making :
    /\ handler[h].key \notin handed
    /\ memory[handler[h].key] # None
    /\ ~handler[h].entry.revoked
    /\ \A g \in Making : handler[g].key = handler[h].key => g = h

\* The key that is being revoked was handed out, and the memory was changed first.
RevokedAreHanded ==
  \A h \in Revoking :
    /\ handler[h].key \in handed
    /\ handler[h].at = "revoke" =>
         memory[handler[h].key] = None \/ memory[handler[h].key].revoked

\* A key whose revocation was acknowledged is revoked wherever it is.
GoneAreRevoked ==
  \A k \in gone \ {Master} :
    /\ memory[k] = None \/ memory[k].revoked
    /\ table[k].revoked

\* Handlers between the check of the time and the nonce.
Claiming == {h \in Working : handler[h].at \in {"purge", "claim"}}

\* They began at most the delay ago.
ClaimsAreTimely == \A h \in Claiming : now <= handler[h].began + Delay

\* After the request acted, its nonce is there for as long as it is kept, and when
\* it is gone it is time for the next act.
NonceIsKept ==
  \A i \in DOMAIN acted :
    /\ acted[i] <= now
    /\ \/ acted[i] + KeptFor <= nonce + Delay
       \/ acted[i] + KeptFor <= now + Delay

\* What is invariant of the keys.
KeysInv ==
  /\ KeysTypeOK
  /\ HandedAreStored /\ MakingIsExclusive /\ RevokedAreHanded /\ GoneAreRevoked
  /\ ClaimsAreTimely /\ NonceIsKept /\ ActsAreApart

(* Tokens. *)

\* Requests about tokens that are under way.
Asking == {s \in Sessions : session[s] # None}

\* The token has a row.
Issued(t) == row[t] # None

\* A family is named by a token that has a row.
FamiliesAreIssued == \A t \in Tokens : Issued(t) => Issued(row[t].family)

\* A token that is about to be inserted has no row.
NewAreUnissued == \A s \in Asking : session[s].at = "insert" => ~Issued(session[s].new)

\* Until its request is over a new token is that request's alone.
NewAreUnshared ==
  \A s \in Asking : session[s].at \in {"insert", "mark"} =>
    \A q \in Asking : session[q].new = session[s].new => q = s

\* What a client presents has a row.
PresentedAreIssued ==
  \A s \in Asking : ~(session[s].at = "insert" /\ IsExchange(s)) => Issued(session[s].token)

\* Only a rotation marks; its successor is in the family, and not handed out yet.
SuccessorsAreNew ==
  \A s \in Asking : session[s].at = "mark" =>
    /\ ~IsExchange(s)
    /\ Issued(session[s].new) /\ session[s].new \notin held
    /\ row[session[s].new].family = row[session[s].token].family

\* Clients present what they were given.
OnlyHeldAreFound == \A s \in Asking : session[s].at = "find" => session[s].token \in held

\* What is invariant of the tokens.
TokensInv ==
  /\ TypeOK
  /\ FamiliesAreIssued /\ NewAreUnissued /\ NewAreUnshared /\ PresentedAreIssued
  /\ SuccessorsAreNew /\ OnlyHeldAreFound
  /\ ReplayEndsTokens

\* The inductive invariant.
IInv == KeysInv /\ TokensInv
-----------------------------------------------------------------------------
(* What a step does to the administrators' requests. *)

\* The steps a handler of a key awaits.
KeySteps == {"upsert", "purge", "claim", "forget", "revoke"}

\* The parts of the state of the keys have their types.
LEMMA KeyTypes ==
  ASSUME KeysTypeOK
  PROVE  /\ now \in Nat /\ nonce \in Nat
         /\ Skew \in Nat /\ Delay \in Nat /\ KeptFor \in Nat /\ MaxTime \in Nat
         /\ load.stamp \in Nat /\ load.atOnce \in Nat /\ load.guarded \in BOOLEAN
         /\ \A h \in Working :
              /\ h \in Handlers /\ handler[h] \in Handler /\ handler[h] # None
              /\ handler[h].from \in Keys /\ handler[h].key \in Keys
              /\ handler[h].entry \in ApiKey /\ handler[h].entry # None
              /\ handler[h].began \in 0..MaxTime /\ handler[h].began \in Nat
              /\ handler[h].at \in KeySteps
<1>1. Skew \in Nat /\ Delay \in Nat /\ KeptFor \in Nat /\ MaxTime \in Nat
  BY TimesAreNatural DEF KeptFor
<1>2. now \in Nat /\ nonce \in Nat
  BY <1>1 DEF KeysTypeOK
<1>3. load.stamp \in Nat /\ load.atOnce \in Nat /\ load.guarded \in BOOLEAN
  BY WorkloadsAreKnown DEF KeysTypeOK
<1>4. ASSUME NEW h \in Working
      PROVE  /\ h \in Handlers /\ handler[h] \in Handler /\ handler[h] # None
             /\ handler[h].from \in Keys /\ handler[h].key \in Keys
             /\ handler[h].entry \in ApiKey /\ handler[h].entry # None
             /\ handler[h].began \in 0..MaxTime /\ handler[h].began \in Nat
             /\ handler[h].at \in KeySteps
  <2>1. h \in Handlers /\ handler[h] \in Handler /\ handler[h] # None
    BY DEF Working, KeysTypeOK
  <2>2. /\ handler[h].from \in Keys /\ handler[h].key \in Keys
        /\ handler[h].entry \in ApiKey /\ handler[h].began \in 0..MaxTime
        /\ handler[h].at \in KeySteps
    BY <2>1 DEF Handler, KeySteps
  <2>3. handler[h].entry # None
    BY <2>2, NoneIsNoHandler
  <2>. QED BY <1>1, <2>1, <2>2, <2>3
<1>. QED BY <1>1, <1>2, <1>3, <1>4

\* The followed request acted at times.
LEMMA ActTypes ==
  ASSUME KeysTypeOK, NEW i \in DOMAIN acted
  PROVE  acted[i] \in Nat
<1>1. acted \in Seq(0..MaxTime) /\ MaxTime \in Nat
  BY TimesAreNatural DEF KeysTypeOK
<1>2. acted[i] \in 0..MaxTime
  BY <1>1
<1>. QED BY <1>1, <1>2

\* A step of Start takes up one more request.
LEMMA StartFacts ==
  ASSUME KeysTypeOK, NEW h \in Handlers, NEW from \in Keys, NEW k \in Keys, NEW entry \in ApiKey,
         NEW step \in KeySteps, Start(h, from, k, entry, step)
  PROVE  /\ handler' \in [Handlers -> Handler \cup {None}]
         /\ handler'[h].from = from /\ handler'[h].key = k /\ handler'[h].entry = entry
         /\ handler'[h].began = now /\ handler'[h].at = step
         /\ \A g \in Handlers \ {h} : handler'[g] = handler[g]
         /\ h \notin Working /\ Working' = Working \cup {h}
<1> DEFINE new == [from |-> from, key |-> k, entry |-> entry, began |-> now, at |-> step]
<1>1. new \in Handler
  BY DEF Handler, KeySteps, KeysTypeOK
<1>2. new # None
  BY <1>1, NoneIsNoHandler
<1>. HIDE DEF new
<1>3. handler' = [handler EXCEPT ![h] = new] /\ handler[h] = None
  BY DEF Start, new
<1>4. /\ handler' \in [Handlers -> Handler \cup {None}]
      /\ handler'[h] = new
      /\ \A g \in Handlers \ {h} : handler'[g] = handler[g]
  BY <1>1, <1>3 DEF KeysTypeOK
<1>5. h \notin Working /\ Working' = Working \cup {h}
  BY <1>2, <1>3, <1>4 DEF Working
<1>. QED BY <1>4, <1>5 DEF new

\* A step of Go moves one request on.
LEMMA GoFacts ==
  ASSUME KeysTypeOK, NEW h \in Working, NEW step \in KeySteps, Go(h, step)
  PROVE  /\ handler' \in [Handlers -> Handler \cup {None}]
         /\ handler'[h].from = handler[h].from /\ handler'[h].key = handler[h].key
         /\ handler'[h].entry = handler[h].entry /\ handler'[h].began = handler[h].began
         /\ handler'[h].at = step
         /\ \A g \in Handlers \ {h} : handler'[g] = handler[g]
         /\ Working' = Working
<1>1. h \in Handlers /\ handler[h] \in Handler /\ handler[h] # None
  BY KeyTypes
<1> DEFINE new == [from |-> handler[h].from, key |-> handler[h].key, entry |-> handler[h].entry,
                   began |-> handler[h].began, at |-> step]
<1>2. [handler[h] EXCEPT !.at = step] = new
  BY <1>1 DEF Handler
<1>3. new \in Handler /\ new # None
  BY <1>1, NoneIsNoHandler DEF Handler, KeySteps
<1>4. handler' = [handler EXCEPT ![h] = new]
  BY <1>2 DEF Go
<1>. HIDE DEF new
<1>5. /\ handler' \in [Handlers -> Handler \cup {None}]
      /\ handler'[h] = new
      /\ \A g \in Handlers \ {h} : handler'[g] = handler[g]
  BY <1>1, <1>3, <1>4 DEF KeysTypeOK
<1>6. Working' = Working
  BY <1>1, <1>3, <1>5 DEF Working
<1>. QED BY <1>5, <1>6 DEF new

\* A step of Done ends one request.
LEMMA DoneFacts ==
  ASSUME KeysTypeOK, NEW h \in Working, Done(h)
  PROVE  /\ handler' \in [Handlers -> Handler \cup {None}]
         /\ \A g \in Handlers \ {h} : handler'[g] = handler[g]
         /\ Working' = Working \ {h}
BY DEF Done, KeysTypeOK, Working
-----------------------------------------------------------------------------
(* Each step of a handler keeps the invariant of the keys. *)

\* A key is made in memory.
LEMMA GenerateKeyKeeps ==
  ASSUME KeysInv, NEW h \in Handlers, NEW from \in Keys, NEW k \in Keys, NEW admin \in BOOLEAN,
         NEW until \in Lifetimes \cup {Forever}, GenerateKey(h, from, k, admin, until)
  PROVE  KeysInv'
<1> DEFINE entry == [admin |-> admin, until |-> until, revoked |-> FALSE]
<1>1. KeysTypeOK
  BY DEF KeysInv
<1>2. entry \in ApiKey /\ entry # None
  <2>1. entry \in ApiKey
    BY DEF ApiKey
  <2>. QED BY <2>1, NoneIsNoHandler
<1>3. /\ UNCHANGED <<load, now, table, nonce, handed, gone, acted>>
      /\ memory' = [memory EXCEPT ![k] = entry]
      /\ memory[k] = None /\ table[k] = None
      /\ Start(h, from, k, entry, "upsert")
  BY DEF GenerateKey, Unknown
<1>. HIDE DEF entry
<1>4. /\ handler' \in [Handlers -> Handler \cup {None}]
      /\ handler'[h].key = k /\ handler'[h].at = "upsert" /\ ~handler'[h].entry.revoked
      /\ \A g \in Handlers \ {h} : handler'[g] = handler[g]
      /\ h \notin Working /\ Working' = Working \cup {h}
  <2>1. "upsert" \in KeySteps
    BY DEF KeySteps
  <2>2. ~entry.revoked
    BY DEF entry
  <2>. QED BY <1>1, <1>2, <1>3, <2>1, <2>2, StartFacts
<1>5. /\ memory' \in [Keys -> ApiKey \cup {None}]
      /\ memory'[k] # None
      /\ \A j \in Keys \ {k} : memory'[j] = memory[j]
  BY <1>1, <1>2, <1>3 DEF KeysTypeOK
<1>6. k \notin handed /\ gone \subseteq handed /\ handed \subseteq Keys
  BY <1>1, <1>3 DEF KeysInv, HandedAreStored, KeysTypeOK
<1>7. Revoking' = Revoking /\ Making' = Making \cup {h} /\ h \notin Making
  <2>1. \A g \in Working : g \in Handlers \ {h}
    BY <1>1, <1>4, KeyTypes
  <2>. QED BY <1>4, <2>1 DEF Revoking, Making
<1>8. \A g \in Working : g \in Handlers \ {h} /\ handler'[g] = handler[g] /\ handler[g].key \in Keys
                         /\ handler[g].from \in Keys
  BY <1>1, <1>4, KeyTypes
<1>9. KeysTypeOK'
  BY <1>1, <1>3, <1>4, <1>5 DEF KeysTypeOK
<1>10. HandedAreStored'
  BY <1>3 DEF KeysInv, HandedAreStored
<1>11. MakingIsExclusive'
  <2>1. \A g \in Making : handler[g].key \notin handed /\ memory[handler[g].key] # None
                          /\ handler[g].key # k /\ g \in Working /\ ~handler[g].entry.revoked
    BY <1>3 DEF KeysInv, MakingIsExclusive, Making
  <2>2. \A g, i \in Making : handler[g].key = handler[i].key => i = g
    BY DEF KeysInv, MakingIsExclusive
  <2>. QED BY <1>3, <1>4, <1>5, <1>6, <1>7, <1>8, <2>1, <2>2 DEF MakingIsExclusive
<1>12. RevokedAreHanded'
  <2>1. \A g \in Revoking : g \in Working
    BY DEF Revoking
  <2>. QED BY <1>3, <1>5, <1>6, <1>7, <1>8, <2>1 DEF KeysInv, RevokedAreHanded
<1>13. GoneAreRevoked'
  BY <1>3, <1>5, <1>6 DEF KeysInv, GoneAreRevoked
<1>15. ClaimsAreTimely'
  <2>1. Claiming' = Claiming /\ \A g \in Claiming : g \in Working
    BY <1>4, <1>8 DEF Claiming
  <2>. QED BY <1>3, <1>8, <2>1 DEF KeysInv, ClaimsAreTimely
<1>16. NonceIsKept' /\ ActsAreApart'
  BY <1>3 DEF KeysInv, NonceIsKept, ActsAreApart
<1>. QED BY <1>9, <1>10, <1>11, <1>12, <1>13, <1>15, <1>16 DEF KeysInv

\* A key is stored, and handed out.
LEMMA StoreKeyKeeps ==
  ASSUME KeysInv, NEW h \in Handlers, StoreKey(h)
  PROVE  KeysInv'
<1> DEFINE k == handler[h].key
           entry == handler[h].entry
<1>1. KeysTypeOK
  BY DEF KeysInv
<1>2. h \in Working /\ h \in Making
  BY DEF StoreKey, At, Working, Making
<1>3. k \in Keys /\ entry \in ApiKey /\ entry # None /\ ~entry.revoked
  BY <1>1, <1>2, KeyTypes DEF KeysInv, MakingIsExclusive
<1>4. /\ UNCHANGED <<load, now, memory, nonce, gone, acted>>
      /\ table' = [table EXCEPT ![k] = entry]
      /\ handed' = handed \cup {k}
      /\ Done(h)
  BY DEF StoreKey
<1>. HIDE DEF entry, k
<1>5. /\ handler' \in [Handlers -> Handler \cup {None}]
      /\ \A g \in Handlers \ {h} : handler'[g] = handler[g]
      /\ Working' = Working \ {h}
  BY <1>1, <1>2, <1>4, DoneFacts
<1>6. /\ table' \in [Keys -> ApiKey \cup {None}]
      /\ table'[k] # None /\ ~table'[k].revoked
      /\ \A j \in Keys \ {k} : table'[j] = table[j]
  BY <1>1, <1>3, <1>4 DEF KeysTypeOK
<1>7. k \notin handed /\ gone \subseteq handed /\ handed \subseteq Keys
  BY <1>1, <1>2 DEF KeysInv, MakingIsExclusive, KeysTypeOK, k
<1>8. \A g \in Working' : g \in Handlers \ {h} /\ g \in Working /\ handler'[g] = handler[g]
                          /\ handler[g].key \in Keys /\ handler[g].from \in Keys
  BY <1>1, <1>5, KeyTypes
<1>9. Revoking' = Revoking /\ Making' = Making \ {h} /\ Claiming' = Claiming
  BY <1>2, <1>5, <1>8 DEF Revoking, Making, Claiming
<1>10. KeysTypeOK'
  BY <1>1, <1>3, <1>4, <1>5, <1>6 DEF KeysTypeOK
<1>11. HandedAreStored'
  BY <1>4, <1>6, <1>7 DEF KeysInv, HandedAreStored
<1>12. MakingIsExclusive'
  <2>1. \A g \in Making' : g \in Working' /\ handler[g].key # k
    BY <1>2, <1>9 DEF KeysInv, MakingIsExclusive, Making, k
  <2>. QED BY <1>4, <1>8, <1>9, <2>1 DEF KeysInv, MakingIsExclusive
<1>13. RevokedAreHanded'
  <2>1. \A g \in Revoking : g \in Working'
    BY <1>9 DEF Revoking
  <2>. QED BY <1>4, <1>7, <1>8, <1>9, <2>1 DEF KeysInv, RevokedAreHanded
<1>14. GoneAreRevoked'
  BY <1>4, <1>6, <1>7 DEF KeysInv, GoneAreRevoked
<1>16. ClaimsAreTimely'
  <2>1. \A g \in Claiming : g \in Working'
    BY <1>9 DEF Claiming
  <2>. QED BY <1>4, <1>8, <1>9, <2>1 DEF KeysInv, ClaimsAreTimely
<1>17. NonceIsKept' /\ ActsAreApart'
  BY <1>4 DEF KeysInv, NonceIsKept, ActsAreApart
<1>. QED
  BY <1>10, <1>11, <1>12, <1>13, <1>14, <1>16, <1>17 DEF KeysInv

\* A revocation passes its checks.
LEMMA BeginRevokeKeyKeeps ==
  ASSUME KeysInv, NEW h \in Handlers, NEW from \in Keys, NEW k \in Keys, BeginRevokeKey(h, from, k)
  PROVE  KeysInv'
<1> DEFINE step == IF load.guarded THEN "purge" ELSE "forget"
<1>1. KeysTypeOK
  BY DEF KeysInv
<1>2. MasterKey \in ApiKey /\ step \in KeySteps /\ step # "upsert"
  BY DEF MasterKey, ApiKey, KeySteps
<1>3. /\ UNCHANGED <<load, now, memory, table, nonce, handed, gone, acted>>
      /\ Start(h, from, k, MasterKey, step)
      /\ k \in handed
  BY DEF BeginRevokeKey, Revocable
<1>4. /\ handler' \in [Handlers -> Handler \cup {None}]
      /\ handler'[h].from = from /\ handler'[h].key = k /\ handler'[h].at = step
      /\ handler'[h].began = now
      /\ \A g \in Handlers \ {h} : handler'[g] = handler[g]
      /\ h \notin Working /\ Working' = Working \cup {h}
  BY <1>1, <1>2, <1>3, StartFacts
<1>5. \A g \in Working : g \in Handlers \ {h} /\ handler'[g] = handler[g]
  BY <1>1, <1>4, KeyTypes
<1>6. Revoking' = Revoking \cup {h} /\ Making' = Making
  BY <1>4, <1>5 DEF Revoking, Making
<1>7. KeysTypeOK'
  BY <1>1, <1>3, <1>4 DEF KeysTypeOK
<1>8. HandedAreStored' /\ GoneAreRevoked' /\ NonceIsKept' /\ ActsAreApart'
  BY <1>3 DEF KeysInv, HandedAreStored, GoneAreRevoked, NonceIsKept, ActsAreApart
<1>9. MakingIsExclusive'
  <2>1. \A g \in Making : g \in Working
    BY DEF Making
  <2>. QED BY <1>3, <1>5, <1>6, <2>1 DEF KeysInv, MakingIsExclusive
<1>10. RevokedAreHanded'
  <2>1. \A g \in Revoking : g \in Working
    BY DEF Revoking
  <2>. QED BY <1>3, <1>4, <1>5, <1>6, <2>1 DEF KeysInv, RevokedAreHanded
<1>12. ClaimsAreTimely'
  <2>1. \A g \in Claiming' : g = h \/ (g \in Claiming /\ g \in Working)
    BY <1>4, <1>5 DEF Claiming
  <2>2. now <= now + Delay
    BY <1>1, KeyTypes
  <2>. QED BY <1>3, <1>4, <1>5, <2>1, <2>2 DEF KeysInv, ClaimsAreTimely
<1>. QED BY <1>7, <1>8, <1>9, <1>10, <1>12 DEF KeysInv

\* A request that ends changes nothing else.
LEMMA EndKeeps ==
  ASSUME KeysInv, NEW h \in Working, Done(h),
         UNCHANGED <<load, now, memory, table, nonce, handed, gone, acted>>
  PROVE  KeysInv'
<1>1. KeysTypeOK
  BY DEF KeysInv
<1>2. /\ handler' \in [Handlers -> Handler \cup {None}]
      /\ \A g \in Handlers \ {h} : handler'[g] = handler[g]
      /\ Working' = Working \ {h}
  BY <1>1, DoneFacts
<1>3. \A g \in Working' : g \in Working /\ handler'[g] = handler[g]
  BY <1>1, <1>2, KeyTypes
<1>4. /\ \A g \in Revoking' : g \in Revoking /\ g \in Working'
      /\ \A g \in Making' : g \in Making /\ g \in Working'
      /\ \A g \in Claiming' : g \in Claiming /\ g \in Working'
  BY <1>3 DEF Revoking, Making, Claiming
<1>5. KeysTypeOK'
  BY <1>1, <1>2 DEF KeysTypeOK
<1>6. HandedAreStored' /\ GoneAreRevoked' /\ NonceIsKept' /\ ActsAreApart'
  BY DEF KeysInv, HandedAreStored, GoneAreRevoked, NonceIsKept, ActsAreApart
<1>7. MakingIsExclusive'
  BY <1>3, <1>4 DEF KeysInv, MakingIsExclusive
<1>8. RevokedAreHanded'
  BY <1>3, <1>4 DEF KeysInv, RevokedAreHanded
<1>10. ClaimsAreTimely'
  BY <1>3, <1>4 DEF KeysInv, ClaimsAreTimely
<1>. QED BY <1>5, <1>6, <1>7, <1>8, <1>10 DEF KeysInv

\* Nonces that are over are deleted: that of the request when its time is up.
LEMMA PurgeNoncesKeeps ==
  ASSUME KeysInv, NEW h \in Handlers, PurgeNonces(h)
  PROVE  KeysInv'
<1>1. KeysTypeOK
  BY DEF KeysInv
<1>2. h \in Working /\ h \in Revoking /\ h \in Claiming
  BY DEF PurgeNonces, At, Working, Revoking, Claiming
<1>3. /\ UNCHANGED <<load, now, memory, table, handed, gone, acted>>
      /\ nonce' \in {nonce, IF nonce <= now THEN 0 ELSE nonce}
      /\ Go(h, "claim") /\ "claim" \in KeySteps
  BY DEF PurgeNonces, KeySteps
<1>4. /\ handler' \in [Handlers -> Handler \cup {None}]
      /\ handler'[h].from = handler[h].from /\ handler'[h].key = handler[h].key
      /\ handler'[h].began = handler[h].began /\ handler'[h].at = "claim"
      /\ \A g \in Handlers \ {h} : handler'[g] = handler[g]
      /\ Working' = Working
  BY <1>1, <1>2, <1>3, GoFacts
<1>5. \A g \in Working : g \in Handlers
  BY <1>1, KeyTypes
<1>6. Revoking' = Revoking /\ Making' = Making /\ Claiming' = Claiming
  BY <1>2, <1>4, <1>5 DEF Revoking, Making, Claiming
<1>7. KeysTypeOK'
  BY <1>1, <1>3, <1>4, KeyTypes DEF KeysTypeOK
<1>8. HandedAreStored' /\ GoneAreRevoked'
  BY <1>3 DEF KeysInv, HandedAreStored, GoneAreRevoked
<1>9. MakingIsExclusive'
  <2>1. \A g \in Making : g \in Handlers \ {h}
    BY <1>2, <1>5 DEF Making, Revoking
  <2>. QED BY <1>3, <1>4, <1>6, <2>1 DEF KeysInv, MakingIsExclusive
<1>10. RevokedAreHanded'
  <2>1. \A g \in Revoking : g \in Handlers
    BY <1>5 DEF Revoking
  <2>. QED BY <1>3, <1>4, <1>6, <2>1 DEF KeysInv, RevokedAreHanded
<1>12. ClaimsAreTimely'
  <2>1. \A g \in Claiming : handler'[g].began = handler[g].began
    BY <1>4, <1>5 DEF Claiming
  <2>. QED BY <1>3, <1>6, <2>1 DEF KeysInv, ClaimsAreTimely
<1>13. NonceIsKept'
  <2>. SUFFICES ASSUME NEW i \in DOMAIN acted
       PROVE  acted[i] + KeptFor <= nonce' + Delay \/ acted[i] + KeptFor <= now + Delay
    BY <1>3 DEF KeysInv, NonceIsKept
  <2>1. acted[i] \in Nat
    BY <1>1, ActTypes
  <2>2. acted[i] + KeptFor <= nonce + Delay \/ acted[i] + KeptFor <= now + Delay
    BY DEF KeysInv, NonceIsKept
  <2>. QED BY <1>1, <1>3, <2>1, <2>2, KeyTypes
<1>14. ActsAreApart'
  BY <1>3 DEF KeysInv, ActsAreApart
<1>. QED BY <1>7, <1>8, <1>9, <1>10, <1>12, <1>13, <1>14 DEF KeysInv

\* The nonce is claimed: what acted before did so KeptFor ago, less the delay.
LEMMA ClaimNonceKeeps ==
  ASSUME KeysInv, NEW h \in Handlers, ClaimNonce(h)
  PROVE  KeysInv'
<1>1. KeysTypeOK
  BY DEF KeysInv
<1>2. h \in Working /\ h \in Revoking /\ h \in Claiming
  BY DEF ClaimNonce, At, Working, Revoking, Claiming
<1>3. /\ UNCHANGED <<load, now, memory, table, handed, gone>>
      /\ nonce = 0 /\ nonce' = handler[h].began + KeptFor /\ acted' = Append(acted, now)
      /\ Go(h, "forget") /\ "forget" \in KeySteps
  BY DEF ClaimNonce, KeySteps
<1>4. /\ handler' \in [Handlers -> Handler \cup {None}]
      /\ handler'[h].from = handler[h].from /\ handler'[h].key = handler[h].key
      /\ handler'[h].began = handler[h].began /\ handler'[h].at = "forget"
      /\ \A g \in Handlers \ {h} : handler'[g] = handler[g]
      /\ Working' = Working
  BY <1>1, <1>2, <1>3, GoFacts
<1>5. \A g \in Working : g \in Handlers
  BY <1>1, KeyTypes
<1>6. Revoking' = Revoking /\ Making' = Making /\ Claiming' = Claiming \ {h}
  BY <1>2, <1>4, <1>5 DEF Revoking, Making, Claiming
<1>7. handler[h].began \in 0..MaxTime
  BY <1>1, <1>2, KeyTypes
<1>8. KeysTypeOK'
  <2>1. nonce' \in 0..(MaxTime + KeptFor)
    BY <1>1, <1>3, <1>7, KeyTypes
  <2>2. acted' \in Seq(0..MaxTime)
    BY <1>1, <1>3 DEF KeysTypeOK
  <2>. QED BY <1>1, <1>3, <1>4, <2>1, <2>2 DEF KeysTypeOK
<1>9. HandedAreStored' /\ GoneAreRevoked'
  BY <1>3 DEF KeysInv, HandedAreStored, GoneAreRevoked
<1>10. MakingIsExclusive'
  <2>1. \A g \in Making : g \in Handlers \ {h}
    BY <1>2, <1>5 DEF Making, Revoking
  <2>. QED BY <1>3, <1>4, <1>6, <2>1 DEF KeysInv, MakingIsExclusive
<1>11. RevokedAreHanded'
  <2>1. \A g \in Revoking : g \in Handlers
    BY <1>5 DEF Revoking
  <2>. QED BY <1>3, <1>4, <1>6, <2>1 DEF KeysInv, RevokedAreHanded
<1>13. ClaimsAreTimely'
  <2>1. \A g \in Claiming' : g \in Claiming /\ handler'[g] = handler[g]
    BY <1>4, <1>5, <1>6 DEF Claiming
  <2>. QED BY <1>3, <2>1 DEF KeysInv, ClaimsAreTimely
<1>14. /\ DOMAIN acted' = DOMAIN acted \cup {Len(acted) + 1}
       /\ DOMAIN acted \subseteq Nat /\ Len(acted) \in Nat
       /\ \A i \in DOMAIN acted : acted'[i] = acted[i] /\ i < Len(acted) + 1 /\ acted[i] \in Nat
       /\ acted'[Len(acted) + 1] = now
  <2>1. acted \in Seq(0..MaxTime) /\ now \in 0..MaxTime
    BY <1>1 DEF KeysTypeOK
  <2>2. Len(acted) \in Nat /\ DOMAIN acted = 1..Len(acted)
    BY <2>1
  <2>3. /\ DOMAIN acted' = 1..(Len(acted) + 1)
        /\ acted'[Len(acted) + 1] = now
        /\ \A i \in 1..Len(acted) : acted'[i] = acted[i]
    BY <1>3, <2>1, <2>2
  <2>. QED BY <1>1, <2>2, <2>3, ActTypes
<1>15. ASSUME NEW i \in DOMAIN acted PROVE acted[i] <= now /\ acted[i] + KeptFor <= now + Delay
  <2>1. /\ acted[i] <= now
        /\ \/ acted[i] + KeptFor <= 0 + Delay
           \/ acted[i] + KeptFor <= now + Delay
    BY <1>3 DEF KeysInv, NonceIsKept
  <2>. QED BY <1>1, <1>14, <2>1, KeyTypes
<1>16. NonceIsKept'
  <2>1. now <= handler[h].began + Delay
    BY <1>2 DEF KeysInv, ClaimsAreTimely
  <2>2. PICK began \in Nat : began = handler[h].began
    BY <1>1, <1>2, KeyTypes
  <2>3. now \in Nat /\ Delay \in Nat /\ KeptFor \in Nat /\ nonce' = began + KeptFor /\ now <= began + Delay
    BY <1>1, <1>3, <2>1, <2>2, KeyTypes
  <2>4. now <= now /\ now + KeptFor <= nonce' + Delay
    BY <2>3
  <2>. QED BY <1>3, <1>14, <1>15, <2>4 DEF NonceIsKept
<1>17. ActsAreApart'
  <2>. SUFFICES ASSUME NEW i \in DOMAIN acted', NEW j \in DOMAIN acted', i < j
       PROVE  acted'[j] + Delay >= acted'[i] + KeptFor
    BY DEF ActsAreApart
  <2>1. i \in DOMAIN acted
    BY <1>14
  <2>2. CASE j \in DOMAIN acted
    BY <1>14, <2>1, <2>2 DEF KeysInv, ActsAreApart
  <2>3. CASE j = Len(acted) + 1
    <3>1. acted'[j] = now /\ acted'[i] = acted[i] /\ acted[i] \in Nat
      BY <1>14, <2>1, <2>3
    <3>2. acted[i] + KeptFor <= now + Delay
      BY <1>15, <2>1
    <3>. QED BY <1>1, <3>1, <3>2, KeyTypes
  <2>. QED BY <1>14, <2>2, <2>3
<1>. QED BY <1>8, <1>9, <1>10, <1>11, <1>13, <1>16, <1>17 DEF KeysInv

\* A key's entry with its mark of revocation is an entry.
LEMMA RevokedIsAnEntry ==
  ASSUME NEW entry \in ApiKey
  PROVE  LET revoked == [entry EXCEPT !.revoked = TRUE] IN
         revoked \in ApiKey /\ revoked # None /\ revoked.revoked
<1>1. [entry EXCEPT !.revoked = TRUE] \in ApiKey /\ [entry EXCEPT !.revoked = TRUE].revoked
  BY DEF ApiKey
<1>. QED BY <1>1, NoneIsNoHandler

\* The memory forgets the key.
LEMMA ForgetKeyKeeps ==
  ASSUME KeysInv, NEW h \in Handlers, ForgetKey(h)
  PROVE  KeysInv'
<1> DEFINE k == handler[h].key
<1>1. KeysTypeOK
  BY DEF KeysInv
<1>2. h \in Working /\ h \in Revoking
  BY DEF ForgetKey, At, Working, Revoking
<1>3. k \in Keys /\ k \in handed
  BY <1>1, <1>2, KeyTypes DEF KeysInv, RevokedAreHanded
<1>4. /\ UNCHANGED <<load, now, table, nonce, handed, gone, acted>>
      /\ memory' = IF memory[k] = None THEN memory ELSE [memory EXCEPT ![k].revoked = TRUE]
      /\ Go(h, "revoke") /\ "revoke" \in KeySteps
  BY DEF ForgetKey, KeySteps
<1>. HIDE DEF k
<1>5. /\ handler' \in [Handlers -> Handler \cup {None}]
      /\ handler'[h].from = handler[h].from /\ handler'[h].key = handler[h].key
      /\ handler'[h].began = handler[h].began /\ handler'[h].at = "revoke"
      /\ \A g \in Handlers \ {h} : handler'[g] = handler[g]
      /\ Working' = Working
  BY <1>1, <1>2, <1>4, GoFacts
<1>6. \A g \in Working : g \in Handlers
  BY <1>1, KeyTypes
<1>7. Revoking' = Revoking /\ Making' = Making
  BY <1>2, <1>5, <1>6 DEF Revoking, Making
<1>8. /\ memory' \in [Keys -> ApiKey \cup {None}]
      /\ memory[k] = None => memory'[k] = None
      /\ memory[k] # None => memory'[k] # None /\ memory'[k].revoked
      /\ \A j \in Keys \ {k} : memory'[j] = memory[j]
  <2>1. CASE memory[k] = None
    BY <1>1, <1>4, <2>1 DEF KeysTypeOK
  <2>2. CASE memory[k] # None
    <3>1. memory[k] \in ApiKey
      BY <1>1, <1>3, <2>2 DEF KeysTypeOK
    <3> DEFINE entry == [memory[k] EXCEPT !.revoked = TRUE]
    <3>2. entry \in ApiKey /\ entry # None /\ entry.revoked
      BY <3>1, RevokedIsAnEntry
    <3>3. memory' = [memory EXCEPT ![k] = entry]
      BY <1>4, <2>2
    <3>. HIDE DEF entry
    <3>. QED BY <1>1, <1>3, <2>2, <3>2, <3>3 DEF KeysTypeOK
  <2>. QED BY <2>1, <2>2
<1>9. \A j \in Keys : memory[j] = None \/ memory[j].revoked => memory'[j] = None \/ memory'[j].revoked
  BY <1>8
<1>10. KeysTypeOK'
  BY <1>1, <1>4, <1>5, <1>8 DEF KeysTypeOK
<1>11. HandedAreStored' /\ NonceIsKept' /\ ActsAreApart'
  BY <1>4 DEF KeysInv, HandedAreStored, NonceIsKept, ActsAreApart
<1>12. GoneAreRevoked'
  <2>1. gone \subseteq Keys
    BY <1>1 DEF KeysTypeOK
  <2>. QED BY <1>4, <1>9, <2>1 DEF KeysInv, GoneAreRevoked
<1>13. MakingIsExclusive'
  <2>1. \A g \in Making : g \in Handlers \ {h} /\ handler[g].key \in Keys \ {k}
    BY <1>1, <1>2, <1>3, <1>6, KeyTypes DEF Making, Revoking, KeysInv, MakingIsExclusive
  <2>. QED BY <1>4, <1>5, <1>7, <1>8, <2>1 DEF KeysInv, MakingIsExclusive
<1>14. RevokedAreHanded'
  <2>1. \A g \in Revoking : g \in Handlers /\ handler[g].key \in Keys
    BY <1>1, <1>6, KeyTypes DEF Revoking
  <2>2. memory'[k] = None \/ memory'[k].revoked
    BY <1>8
  <2>. QED BY <1>4, <1>5, <1>7, <1>9, <2>1, <2>2 DEF KeysInv, RevokedAreHanded, k
<1>16. ClaimsAreTimely'
  <2>1. \A g \in Claiming' : g \in Claiming /\ handler'[g] = handler[g]
    BY <1>5, <1>6 DEF Claiming
  <2>. QED BY <1>4, <2>1 DEF KeysInv, ClaimsAreTimely
<1>. QED BY <1>10, <1>11, <1>12, <1>13, <1>14, <1>16 DEF KeysInv

\* The row is revoked and the client told.
LEMMA RevokeKeyKeeps ==
  ASSUME KeysInv, NEW h \in Handlers, RevokeKey(h)
  PROVE  KeysInv'
<1> DEFINE k == handler[h].key
<1>1. KeysTypeOK
  BY DEF KeysInv
<1>2. h \in Working /\ h \in Revoking
  BY DEF RevokeKey, At, Working, Revoking
<1>3. /\ k \in Keys /\ k \in handed
      /\ memory[k] = None \/ memory[k].revoked
      /\ table[k] # None
  BY <1>1, <1>2, KeyTypes DEF KeysInv, RevokedAreHanded, HandedAreStored, RevokeKey, At
<1>4. /\ UNCHANGED <<load, now, memory, nonce, handed, acted>>
      /\ table' = [table EXCEPT ![k].revoked = TRUE]
      /\ gone' = gone \cup {k}
      /\ Done(h)
  BY <1>3 DEF RevokeKey
<1>. HIDE DEF k
<1>5. /\ handler' \in [Handlers -> Handler \cup {None}]
      /\ \A g \in Handlers \ {h} : handler'[g] = handler[g]
      /\ Working' = Working \ {h}
  BY <1>1, <1>2, <1>4, DoneFacts
<1>6. \A g \in Working' : g \in Handlers \ {h} /\ g \in Working /\ handler'[g] = handler[g]
  BY <1>1, <1>5, KeyTypes
<1>7. /\ Making' = Making
      /\ \A g \in Revoking' : g \in Revoking /\ g \in Working'
      /\ \A g \in Claiming' : g \in Claiming /\ g \in Working'
  BY <1>2, <1>5, <1>6 DEF Revoking, Making, Claiming
<1>8. /\ table' \in [Keys -> ApiKey \cup {None}]
      /\ table'[k] # None /\ table'[k].revoked
      /\ \A j \in Keys \ {k} : table'[j] = table[j]
  <2>1. table[k] \in ApiKey
    BY <1>1, <1>3 DEF KeysTypeOK
  <2> DEFINE entry == [table[k] EXCEPT !.revoked = TRUE]
  <2>2. entry \in ApiKey /\ entry # None /\ entry.revoked
    BY <2>1, RevokedIsAnEntry
  <2>3. table' = [table EXCEPT ![k] = entry]
    BY <1>4
  <2>. HIDE DEF entry
  <2>. QED BY <1>1, <1>3, <2>2, <2>3 DEF KeysTypeOK
<1>9. handed \subseteq Keys /\ gone \subseteq handed
  BY <1>1 DEF KeysTypeOK
<1>10. KeysTypeOK'
  BY <1>1, <1>3, <1>4, <1>5, <1>8 DEF KeysTypeOK
<1>11. HandedAreStored'
  BY <1>4, <1>8, <1>9 DEF KeysInv, HandedAreStored
<1>12. NonceIsKept' /\ ActsAreApart'
  BY <1>4 DEF KeysInv, NonceIsKept, ActsAreApart
<1>13. GoneAreRevoked'
  BY <1>3, <1>4, <1>8, <1>9 DEF KeysInv, GoneAreRevoked
<1>14. MakingIsExclusive'
  <2>1. \A g \in Making : g \in Working'
    BY <1>7 DEF Making
  <2>. QED BY <1>4, <1>6, <1>7, <2>1 DEF KeysInv, MakingIsExclusive
<1>15. RevokedAreHanded'
  BY <1>4, <1>6, <1>7 DEF KeysInv, RevokedAreHanded
<1>17. ClaimsAreTimely'
  BY <1>4, <1>6, <1>7 DEF KeysInv, ClaimsAreTimely
<1>. QED BY <1>10, <1>11, <1>12, <1>13, <1>14, <1>15, <1>17 DEF KeysInv

\* A restart loses the map and renews the master key.
LEMMA RestartKeysKeeps ==
  ASSUME KeysInv, RestartKeys
  PROVE  KeysInv'
<1>1. KeysTypeOK
  BY DEF KeysInv
<1>2. /\ UNCHANGED <<load, now, nonce, handed, gone, acted>>
      /\ memory' = [k \in Keys |-> IF k = Master THEN MasterKey ELSE None]
      /\ table' = [table EXCEPT ![Master] = MasterKey]
      /\ handler' = [h \in Handlers |-> None]
  BY DEF RestartKeys, FreshMemory, WithMaster
<1>3. MasterKey \in ApiKey /\ MasterKey # None /\ MasterKey.admin /\ ~MasterKey.revoked
  <2>1. MasterKey \in ApiKey /\ MasterKey.admin /\ ~MasterKey.revoked
    BY DEF MasterKey, ApiKey
  <2>. QED BY <2>1, NoneIsNoHandler
<1>4. Working' = {} /\ Revoking' = {} /\ Making' = {} /\ Claiming' = {}
  BY <1>2 DEF Working, Revoking, Making, Claiming
<1>5. /\ table' \in [Keys -> ApiKey \cup {None}]
      /\ table'[Master] = MasterKey
      /\ \A k \in Keys \ {Master} : table'[k] = table[k]
  BY <1>1, <1>2, <1>3, MasterIsAKey DEF KeysTypeOK
<1>6. handed \subseteq Keys /\ gone \subseteq handed /\ Master \in handed
  BY <1>1 DEF KeysTypeOK, KeysInv, HandedAreStored
<1>7. KeysTypeOK'
  BY <1>1, <1>2, <1>3, <1>5 DEF KeysTypeOK
<1>8. HandedAreStored'
  BY <1>2, <1>3, <1>5, <1>6 DEF KeysInv, HandedAreStored
<1>9. GoneAreRevoked'
  BY <1>2, <1>5, <1>6 DEF KeysInv, GoneAreRevoked
<1>10. MakingIsExclusive' /\ RevokedAreHanded' /\ ClaimsAreTimely'
  BY <1>4 DEF MakingIsExclusive, RevokedAreHanded, ClaimsAreTimely
<1>12. NonceIsKept' /\ ActsAreApart'
  BY <1>2 DEF KeysInv, NonceIsKept, ActsAreApart
<1>. QED BY <1>7, <1>8, <1>9, <1>10, <1>12 DEF KeysInv

\* Time passes for keys and nonces.
LEMMA TickKeysKeeps ==
  ASSUME KeysInv, TickKeys
  PROVE  KeysInv'
<1>1. KeysTypeOK
  BY DEF KeysInv
<1>2. UNCHANGED <<load, memory, table, nonce, handler, handed, gone, acted>>
  BY DEF TickKeys
<1>3. now' = now + 1 /\ now < MaxTime
  BY DEF TickKeys
<1>4. Working' = Working /\ Revoking' = Revoking /\ Making' = Making /\ Claiming' = Claiming
  BY <1>2 DEF Working, Revoking, Making, Claiming
<1>5. KeysTypeOK'
  <2>1. now' \in 0..MaxTime
    BY <1>1, <1>3, KeyTypes
  <2>. QED BY <1>1, <1>2, <2>1 DEF KeysTypeOK
<1>6. HandedAreStored' /\ GoneAreRevoked' /\ ActsAreApart'
  BY <1>2 DEF KeysInv, HandedAreStored, GoneAreRevoked, ActsAreApart
<1>8. NonceIsKept'
  <2>. SUFFICES ASSUME NEW i \in DOMAIN acted
       PROVE  /\ acted[i] <= now + 1
              /\ \/ acted[i] + KeptFor <= nonce + Delay
                 \/ acted[i] + KeptFor <= (now + 1) + Delay
    BY <1>2, <1>3 DEF NonceIsKept
  <2>1. acted[i] \in Nat
    BY <1>1, ActTypes
  <2>2. /\ acted[i] <= now
        /\ acted[i] + KeptFor <= nonce + Delay \/ acted[i] + KeptFor <= now + Delay
    BY DEF KeysInv, NonceIsKept
  <2>. QED BY <1>1, <2>1, <2>2, KeyTypes
<1>7. MakingIsExclusive' /\ RevokedAreHanded'
  BY <1>2, <1>4 DEF KeysInv, MakingIsExclusive, RevokedAreHanded
<1>9. ClaimsAreTimely'
  <2>1. ASSUME NEW h \in Claiming PROVE now' <= handler[h].began + Delay
    <3>1. h \in Handlers /\ handler[h].began \in Nat
      BY <1>1, KeyTypes DEF Claiming
    <3>2. now < handler[h].began + Delay
      BY <3>1 DEF TickKeys, At, Claiming, Working
    <3>. QED BY <1>1, <1>3, <3>1, <3>2, KeyTypes
  <2>. QED BY <1>2, <1>4, <2>1 DEF KeysInv, ClaimsAreTimely
<1>. QED BY <1>5, <1>6, <1>7, <1>8, <1>9 DEF KeysInv

\* Every step of the requests about keys keeps the invariant.
LEMMA KeyRequestKeeps == KeysInv /\ KeyRequest => KeysInv'
<1>. SUFFICES ASSUME KeysInv, KeyRequest PROVE KeysInv'
  OBVIOUS
<1>1. PICK h \in Handlers :
        \/ \E from, k \in Keys :
             \/ BeginRevokeKey(h, from, k)
             \/ \E admin \in BOOLEAN, until \in Lifetimes \cup {Forever} :
                  GenerateKey(h, from, k, admin, until)
        \/ StoreKey(h)
        \/ PurgeNonces(h) \/ ClaimNonce(h) \/ RefuseReplay(h)
        \/ ForgetKey(h) \/ RevokeKey(h)
        \/ FailKeyStatement(h)
  BY DEF KeyRequest
<1>2. ASSUME RefuseReplay(h) \/ FailKeyStatement(h) PROVE KeysInv'
  <2>1. h \in Working /\ Done(h)
        /\ UNCHANGED <<load, now, memory, table, nonce, handed, gone, acted>>
    BY <1>2 DEF RefuseReplay, FailKeyStatement, At, Working
  <2>. QED BY <2>1, EndKeeps
<1>. QED
  BY <1>1, <1>2, GenerateKeyKeeps, StoreKeyKeeps, BeginRevokeKeyKeeps, PurgeNoncesKeeps,
     ClaimNonceKeeps, ForgetKeyKeeps, RevokeKeyKeeps

-----------------------------------------------------------------------------
(* What a step does to the token requests. *)

\* The steps a request about a token awaits.
TokenSteps == {"find", "insert", "mark", "end", "endFamily"}

\* The parts of the state of the tokens have their types.
LEMMA TokenTypes ==
  ASSUME TypeOK
  PROVE  /\ \A t \in Tokens : Issued(t) =>
              /\ row[t] \in Row /\ row[t].family \in Tokens
              /\ row[t].revoked \in BOOLEAN /\ row[t].replaced \in BOOLEAN
         /\ \A s \in Asking :
              /\ s \in Sessions /\ session[s] \in Session /\ session[s] # None
              /\ session[s].token \in Tokens /\ session[s].new \in Tokens
              /\ session[s].at \in TokenSteps
              /\ Family(s) \in Tokens
         /\ \A t \in held : t \in Tokens /\ Issued(t)
<1>1. ASSUME NEW t \in Tokens, Issued(t)
      PROVE  /\ row[t] \in Row /\ row[t].family \in Tokens
             /\ row[t].revoked \in BOOLEAN /\ row[t].replaced \in BOOLEAN
  BY <1>1 DEF TypeOK, Issued, Row
<1>2. ASSUME NEW s \in Asking
      PROVE  /\ s \in Sessions /\ session[s] \in Session /\ session[s] # None
             /\ session[s].token \in Tokens /\ session[s].new \in Tokens
             /\ session[s].at \in TokenSteps
  BY DEF TypeOK, Asking, Session, TokenSteps
<1>3. \A s \in Asking : Family(s) \in Tokens
  BY <1>1, <1>2 DEF Family, Issued
<1>. QED BY <1>1, <1>2, <1>3 DEF TypeOK, Issued

\* A request as it begins or goes on.
LEMMA RequestFacts ==
  ASSUME NEW token \in Tokens, NEW new \in Tokens, NEW step \in TokenSteps
  PROVE  LET request == [token |-> token, new |-> new, at |-> step] IN
         /\ request \in Session /\ request # None
         /\ request.token = token /\ request.new = new /\ request.at = step
<1>1. [token |-> token, new |-> new, at |-> step] \in Session
  BY DEF Session, TokenSteps
<1>. QED BY <1>1, NoneIsNoSession

\* A step that takes up a request, or takes it on.
LEMMA PutFacts ==
  ASSUME TypeOK, NEW s \in Sessions, NEW request \in Session,
         session' = [session EXCEPT ![s] = request]
  PROVE  /\ session' \in [Sessions -> Session \cup {None}]
         /\ session'[s] = request
         /\ \A q \in Sessions \ {s} : session'[q] = session[q]
         /\ Asking' = Asking \cup {s}
<1>1. request # None
  BY NoneIsNoSession
<1>2. /\ session' \in [Sessions -> Session \cup {None}]
      /\ session'[s] = request
      /\ \A q \in Sessions \ {s} : session'[q] = session[q]
  BY DEF TypeOK
<1>. QED BY <1>1, <1>2 DEF Asking

\* A step of Proceed takes a request on.
LEMMA ProceedFacts ==
  ASSUME TypeOK, NEW s \in Asking, NEW step \in TokenSteps, Proceed(s, step)
  PROVE  /\ session' \in [Sessions -> Session \cup {None}]
         /\ session'[s].token = session[s].token /\ session'[s].new = session[s].new
         /\ session'[s].at = step
         /\ \A q \in Sessions \ {s} : session'[q] = session[q]
         /\ Asking' = Asking
<1>1. s \in Sessions /\ session[s] \in Session /\ session[s].token \in Tokens /\ session[s].new \in Tokens
  BY TokenTypes
<1> DEFINE request == [token |-> session[s].token, new |-> session[s].new, at |-> step]
<1>2. [session[s] EXCEPT !.at = step] = request
  BY <1>1 DEF Session
<1>3. session' = [session EXCEPT ![s] = request]
  BY <1>2 DEF Proceed
<1>4. /\ request \in Session
      /\ request.token = session[s].token /\ request.new = session[s].new /\ request.at = step
  BY <1>1, RequestFacts
<1>. HIDE DEF request
<1>5. /\ session' \in [Sessions -> Session \cup {None}]
      /\ session'[s] = request
      /\ \A q \in Sessions \ {s} : session'[q] = session[q]
      /\ Asking' = Asking \cup {s}
  BY <1>1, <1>3, <1>4, PutFacts
<1>. QED BY <1>4, <1>5

\* A step of Close ends a request.
LEMMA CloseFacts ==
  ASSUME TypeOK, NEW s \in Asking, Close(s)
  PROVE  /\ session' \in [Sessions -> Session \cup {None}]
         /\ \A q \in Sessions \ {s} : session'[q] = session[q]
         /\ Asking' = Asking \ {s}
BY DEF Close, TypeOK, Asking

\* A row with one of its marks set is a row of the same family that is not live.
LEMMA MarkedIsARow ==
  ASSUME NEW r \in Row
  PROVE  /\ LET marked == [r EXCEPT !.replaced = TRUE] IN
              /\ marked \in Row /\ marked # None /\ marked.family = r.family
              /\ marked.replaced /\ marked.revoked = r.revoked
         /\ LET marked == [r EXCEPT !.revoked = TRUE] IN
              /\ marked \in Row /\ marked # None /\ marked.family = r.family
              /\ marked.revoked
<1>1. /\ [r EXCEPT !.replaced = TRUE] \in Row
      /\ [r EXCEPT !.replaced = TRUE].family = r.family
      /\ [r EXCEPT !.replaced = TRUE].replaced
      /\ [r EXCEPT !.replaced = TRUE].revoked = r.revoked
  BY DEF Row
<1>2. /\ [r EXCEPT !.revoked = TRUE] \in Row
      /\ [r EXCEPT !.revoked = TRUE].family = r.family
      /\ [r EXCEPT !.revoked = TRUE].revoked
  BY DEF Row
<1>. QED BY <1>1, <1>2, NoneIsNoSession
-----------------------------------------------------------------------------
(* Each step of a token request keeps the invariant of the tokens. *)

\* What follows for a step that changes no row and hands out no token.
LEMMA RowsStay ==
  ASSUME TokensInv, KeysTypeOK', UNCHANGED <<row, held, ended>>,
         session' \in [Sessions -> Session \cup {None}]
  PROVE  TypeOK' /\ FamiliesAreIssued' /\ ReplayEndsTokens'
BY DEF TokensInv, TypeOK, FamiliesAreIssued, ReplayEndsTokens, Issued, Live

\* A request that ends changes nothing else; neither does a restart.
LEMMA EndingsKeep ==
  ASSUME TokensInv, KeysTypeOK', UNCHANGED <<row, held, ended>>,
         session' \in [Sessions -> Session \cup {None}],
         \A s \in Asking' : s \in Asking /\ session'[s] = session[s]
  PROVE  TokensInv'
<1>1. TypeOK' /\ FamiliesAreIssued' /\ ReplayEndsTokens'
  BY RowsStay
<1>2. NewAreUnissued' /\ NewAreUnshared' /\ PresentedAreIssued' /\ SuccessorsAreNew' /\ OnlyHeldAreFound'
  BY DEF TokensInv, NewAreUnissued, NewAreUnshared, PresentedAreIssued, SuccessorsAreNew,
         OnlyHeldAreFound, IsExchange, Issued
<1>. QED BY <1>1, <1>2 DEF TokensInv

\* A request that comes to its insert has a token that nobody issued.
LEMMA ReserveKeeps ==
  ASSUME TokensInv, KeysTypeOK', UNCHANGED <<row, held, ended>>,
         NEW s \in Sessions, NEW token \in Tokens, NEW t \in Tokens, Unissued(t),
         session' = [session EXCEPT ![s] = [token |-> token, new |-> t, at |-> "insert"]],
         token = t \/ Issued(token)
  PROVE  TokensInv'
<1> DEFINE request == [token |-> token, new |-> t, at |-> "insert"]
<1>1. TypeOK
  BY DEF TokensInv
<1>2. /\ request \in Session
      /\ request.token = token /\ request.new = t /\ request.at = "insert"
  BY RequestFacts DEF TokenSteps
<1>3. session' = [session EXCEPT ![s] = request]
  OBVIOUS
<1>. HIDE DEF request
<1>4. /\ session' \in [Sessions -> Session \cup {None}]
      /\ session'[s] = request
      /\ \A q \in Sessions \ {s} : session'[q] = session[q]
      /\ Asking' = Asking \cup {s}
  BY <1>1, <1>2, <1>3, PutFacts
<1>5. ~Issued(t) /\ \A q \in Asking : q \in Sessions /\ session[q].new # t
  BY <1>1, TokenTypes DEF Unissued, Issued
<1>6. TypeOK' /\ FamiliesAreIssued' /\ ReplayEndsTokens'
  BY <1>4, RowsStay
<1>7. NewAreUnissued' /\ NewAreUnshared'
  BY <1>2, <1>4, <1>5 DEF TokensInv, NewAreUnissued, NewAreUnshared, Issued
<1>8. PresentedAreIssued' /\ OnlyHeldAreFound'
  BY <1>2, <1>4, <1>5 DEF TokensInv, PresentedAreIssued, OnlyHeldAreFound, IsExchange, Issued
<1>9. SuccessorsAreNew'
  BY <1>2, <1>4, <1>5 DEF TokensInv, SuccessorsAreNew, IsExchange, Issued
<1>. QED BY <1>6, <1>7, <1>8, <1>9 DEF TokensInv

\* A client presents a token it holds, to get the next one or to revoke it.
LEMMA PresentKeeps ==
  ASSUME TokensInv, KeysTypeOK', NEW s \in Sessions, NEW t \in Tokens,
         BeginRefresh(s, t) \/ BeginRevokeToken(s, t)
  PROVE  TokensInv'
<1>1. TypeOK
  BY DEF TokensInv
<1>2. PICK step \in {"find", "end"} :
        session' = [session EXCEPT ![s] = [token |-> t, new |-> t, at |-> step]]
  BY DEF BeginRefresh, BeginRevokeToken
<1> DEFINE request == [token |-> t, new |-> t, at |-> step]
<1>3. /\ request \in Session
      /\ request.token = t /\ request.new = t /\ request.at = step
  BY RequestFacts DEF TokenSteps
<1>4. /\ UNCHANGED <<row, held, ended>>
      /\ session' = [session EXCEPT ![s] = request]
      /\ session[s] = None /\ t \in held
  BY <1>2 DEF BeginRefresh, BeginRevokeToken
<1>. HIDE DEF request
<1>5. /\ session' \in [Sessions -> Session \cup {None}]
      /\ session'[s] = request
      /\ \A q \in Sessions \ {s} : session'[q] = session[q]
      /\ Asking' = Asking \cup {s}
  BY <1>1, <1>3, <1>4, PutFacts
<1>6. Issued(t) /\ \A q \in Asking : q \in Sessions \ {s} /\ session'[q] = session[q]
  BY <1>1, <1>4, <1>5, TokenTypes DEF Asking
<1>7. \A q \in Asking : session[q].at \in {"insert", "mark"} => session[q].new # t
  BY <1>4, <1>6 DEF TokensInv, NewAreUnissued, SuccessorsAreNew
<1>8. TypeOK' /\ FamiliesAreIssued' /\ ReplayEndsTokens'
  BY <1>4, <1>5, RowsStay
<1>9. NewAreUnissued' /\ NewAreUnshared'
  BY <1>3, <1>4, <1>5, <1>6, <1>7 DEF TokensInv, NewAreUnissued, NewAreUnshared, Issued
<1>10. PresentedAreIssued' /\ OnlyHeldAreFound'
  BY <1>3, <1>4, <1>5, <1>6 DEF TokensInv, PresentedAreIssued, OnlyHeldAreFound, IsExchange, Issued
<1>11. SuccessorsAreNew'
  BY <1>3, <1>4, <1>5, <1>6 DEF TokensInv, SuccessorsAreNew, IsExchange, Issued
<1>. QED BY <1>8, <1>9, <1>10, <1>11 DEF TokensInv

\* The token a request found is over, by its time or because it was replaced.
LEMMA FoundOverKeeps ==
  ASSUME TokensInv, KeysTypeOK', NEW s \in Asking, NEW step \in {"end", "endFamily"},
         session[s].at = "find", Proceed(s, step),
         UNCHANGED <<row, held, ended>>
  PROVE  TokensInv'
<1>1. TypeOK
  BY DEF TokensInv
<1>2. /\ session' \in [Sessions -> Session \cup {None}]
      /\ session'[s].token = session[s].token /\ session'[s].new = session[s].new
      /\ session'[s].at = step
      /\ \A q \in Sessions \ {s} : session'[q] = session[q]
      /\ Asking' = Asking
  BY <1>1, ProceedFacts DEF TokenSteps
<1>3. \A q \in Asking : /\ q \in Sessions
                        /\ session'[q].token = session[q].token /\ session'[q].new = session[q].new
  BY <1>1, <1>2, TokenTypes
<1>4. Issued(session[s].token)
  BY DEF TokensInv, PresentedAreIssued
<1>5. TypeOK' /\ FamiliesAreIssued' /\ ReplayEndsTokens'
  BY <1>2, RowsStay
<1>6. NewAreUnissued' /\ NewAreUnshared'
  BY <1>2, <1>3 DEF TokensInv, NewAreUnissued, NewAreUnshared, Issued
<1>7. PresentedAreIssued' /\ SuccessorsAreNew' /\ OnlyHeldAreFound'
  BY <1>2, <1>3, <1>4 DEF TokensInv, PresentedAreIssued, SuccessorsAreNew, OnlyHeldAreFound,
         IsExchange, Issued
<1>. QED BY <1>5, <1>6, <1>7 DEF TokensInv

\* A token is looked up, and its request goes on by what was found.
LEMMA FindTokenKeeps ==
  ASSUME TokensInv, KeysTypeOK', NEW s \in Sessions, FindToken(s)
  PROVE  TokensInv'
<1> DEFINE found == row[session[s].token]
<1>1. TypeOK
  BY DEF TokensInv
<1>2. s \in Asking /\ session[s].at = "find" /\ UNCHANGED <<row, held, ended>>
  BY DEF FindToken, Stands, Asking
<1>3. Issued(session[s].token) /\ session[s].token \in Tokens
  BY <1>1, <1>2, TokenTypes DEF TokensInv, PresentedAreIssued
<1>4. CASE Verdict(found) = "refused"
  <2>1. Close(s)
    BY <1>4 DEF FindToken
  <2>2. /\ session' \in [Sessions -> Session \cup {None}]
        /\ \A q \in Asking' : q \in Asking /\ session'[q] = session[q]
    BY <1>1, <1>2, <2>1, CloseFacts, TokenTypes
  <2>. QED BY <1>2, <2>2, EndingsKeep
<1>5. CASE Verdict(found) = "insert"
  <2>1. PICK t \in Tokens :
          /\ Unissued(t)
          /\ session' = [session EXCEPT ![s] = [token |-> @.token, new |-> t, at |-> "insert"]]
    BY <1>5 DEF FindToken
  <2>2. session' = [session EXCEPT ![s] = [token |-> session[s].token, new |-> t, at |-> "insert"]]
    BY <2>1
  <2>. QED BY <1>2, <1>3, <2>1, <2>2, ReserveKeeps
<1>6. CASE Verdict(found) \notin {"refused", "insert"}
  <2>1. Proceed(s, Verdict(found)) /\ Verdict(found) \in {"end", "endFamily"}
    BY <1>6 DEF FindToken, Verdict
  <2>. QED BY <1>2, <2>1, FoundOverKeeps
<1>. QED BY <1>4, <1>5, <1>6

\* A token that is inserted is one that no client and no other request has.
LEMMA InsertFacts ==
  ASSUME TokensInv, NEW s \in Asking, session[s].at = "insert", Insert(s),
         NEW t, t = session[s].new
  PROVE  /\ t \in Tokens /\ ~Issued(t) /\ t \notin held
         /\ row' \in [Tokens -> Row \cup {None}]
         /\ row'[t] # None /\ row'[t].family = Family(s) /\ Live(t)'
         /\ \A u \in Tokens \ {t} : row'[u] = row[u]
         /\ \A q \in Asking \ {s} : session[q].new # t /\ session[q].token # t
<1> DEFINE r == [family |-> Family(s), until |-> now + Ttl, replaced |-> FALSE, revoked |-> FALSE]
<1>1. TypeOK
  BY DEF TokensInv
<1>2. t \in Tokens /\ ~Issued(t) /\ t \notin held /\ Family(s) \in Tokens
  BY <1>1, TokenTypes DEF TokensInv, NewAreUnissued
<1>3. r \in Row /\ r # None /\ r.family = Family(s) /\ ~r.replaced /\ ~r.revoked
  <2>1. now \in Nat
    BY <1>1, KeyTypes DEF TypeOK
  <2>2. r \in Row
    BY <1>2, <2>1, TtlIsPositive DEF Row
  <2>. QED BY <2>2, NoneIsNoSession
<1>4. row' = [row EXCEPT ![t] = r]
  BY DEF Insert
<1>. HIDE DEF r
<1>5. /\ row' \in [Tokens -> Row \cup {None}]
      /\ row'[t] = r
      /\ \A u \in Tokens \ {t} : row'[u] = row[u]
  BY <1>1, <1>2, <1>3, <1>4 DEF TypeOK
<1>6. \A q \in Asking \ {s} : session[q].new # t
  BY DEF TokensInv, NewAreUnshared
<1>7. \A q \in Asking \ {s} : session[q].token # t
  BY <1>2, <1>6 DEF TokensInv, PresentedAreIssued, IsExchange
<1>. QED BY <1>2, <1>3, <1>5, <1>6, <1>7 DEF Live

\* An insertion of a token keeps what does not depend on how its request goes on.
LEMMA InsertKeeps ==
  ASSUME TokensInv, KeysTypeOK', NEW s \in Asking, session[s].at = "insert", Insert(s),
         IsExchange(s) \/ Issued(session[s].token),
         session' \in [Sessions -> Session \cup {None}],
         held' \in {held, held \cup {session[s].new}}, ended' = ended
  PROVE  TypeOK' /\ FamiliesAreIssued' /\ ReplayEndsTokens'
<1> DEFINE t == session[s].new
<1>1. TypeOK
  BY DEF TokensInv
<1>2. /\ t \in Tokens /\ ~Issued(t)
      /\ row' \in [Tokens -> Row \cup {None}]
      /\ row'[t] # None /\ row'[t].family = Family(s)
      /\ \A u \in Tokens \ {t} : row'[u] = row[u]
  BY InsertFacts
<1>3. Family(s) = t \/ (Family(s) \in Tokens /\ Issued(Family(s)))
  <2>1. CASE IsExchange(s)
    BY <1>2, <2>1 DEF Family, Issued, IsExchange
  <2>2. CASE Issued(session[s].token)
    BY <1>1, <2>2, TokenTypes DEF Family, Issued, TokensInv, FamiliesAreIssued
  <2>. QED BY <2>1, <2>2
<1>4. \A u \in held \cup ended : u \in Tokens \ {t} /\ Issued(u)
  BY <1>1, <1>2 DEF TypeOK, Issued
<1>. HIDE DEF t
<1>5. TypeOK'
  BY <1>1, <1>2, <1>4 DEF TypeOK, Issued, t
<1>6. FamiliesAreIssued'
  BY <1>1, <1>2, <1>3, TokenTypes DEF TokensInv, FamiliesAreIssued, Issued
<1>7. ReplayEndsTokens'
  BY <1>2, <1>4 DEF TokensInv, ReplayEndsTokens, Live
<1>. QED BY <1>5, <1>6, <1>7

\* The first token of a family is inserted, and given to its client or not.
LEMMA InsertFirstTokenKeeps ==
  ASSUME TokensInv, KeysTypeOK', NEW s \in Sessions, InsertFirstToken(s)
  PROVE  TokensInv'
<1> DEFINE t == session[s].new
<1>1. TypeOK
  BY DEF TokensInv
<1>2. /\ s \in Asking /\ session[s].at = "insert" /\ IsExchange(s) /\ Insert(s)
      /\ held' \in {held, held \cup {t}} /\ ended' = ended
      /\ Close(s)
  BY DEF InsertFirstToken, Stands, Asking
<1>3. /\ t \in Tokens /\ ~Issued(t) /\ row'[t] # None
      /\ \A u \in Tokens \ {t} : row'[u] = row[u]
      /\ \A q \in Asking \ {s} : session[q].new # t /\ session[q].token # t
  BY <1>2, InsertFacts
<1>. HIDE DEF t
<1>4. /\ session' \in [Sessions -> Session \cup {None}]
      /\ \A q \in Asking' : /\ q \in Asking \ {s} /\ session'[q] = session[q]
                            /\ session[q].token \in Tokens \ {t} /\ session[q].new \in Tokens \ {t}
  BY <1>1, <1>2, <1>3, CloseFacts, TokenTypes
<1>5. TypeOK' /\ FamiliesAreIssued' /\ ReplayEndsTokens'
  BY <1>2, <1>4, InsertKeeps DEF t
<1>6. NewAreUnissued' /\ NewAreUnshared'
  BY <1>3, <1>4 DEF TokensInv, NewAreUnissued, NewAreUnshared, Issued
<1>7. PresentedAreIssued' /\ OnlyHeldAreFound'
  BY <1>2, <1>3, <1>4 DEF TokensInv, PresentedAreIssued, OnlyHeldAreFound, IsExchange, Issued
<1>8. SuccessorsAreNew'
  BY <1>2, <1>3, <1>4 DEF TokensInv, SuccessorsAreNew, IsExchange, Issued
<1>. QED BY <1>5, <1>6, <1>7, <1>8 DEF TokensInv

\* The successor of a token is inserted.
LEMMA InsertNextTokenKeeps ==
  ASSUME TokensInv, KeysTypeOK', NEW s \in Sessions, InsertNextToken(s)
  PROVE  TokensInv'
<1> DEFINE t == session[s].new
<1>1. TypeOK
  BY DEF TokensInv
<1>2. /\ s \in Asking /\ session[s].at = "insert" /\ ~IsExchange(s) /\ Insert(s)
      /\ held' = held /\ ended' = ended
      /\ Proceed(s, "mark")
  BY DEF InsertNextToken, Stands, Asking
<1>3. /\ t \in Tokens /\ ~Issued(t) /\ t \notin held
      /\ row'[t] # None /\ row'[t].family = Family(s)
      /\ \A u \in Tokens \ {t} : row'[u] = row[u]
      /\ \A q \in Asking \ {s} : session[q].new # t /\ session[q].token # t
  BY <1>2, InsertFacts
<1>4. /\ session[s].token \in Tokens \ {t} /\ Issued(session[s].token)
      /\ row[session[s].token].family = Family(s)
  BY <1>1, <1>2, TokenTypes DEF TokensInv, PresentedAreIssued, IsExchange, Family, Issued
<1>5. /\ session' \in [Sessions -> Session \cup {None}]
      /\ session'[s].token = session[s].token /\ session'[s].new = t
      /\ session'[s].at = "mark"
      /\ \A q \in Sessions \ {s} : session'[q] = session[q]
      /\ Asking' = Asking
  BY <1>1, <1>2, ProceedFacts DEF TokenSteps
<1>6. TypeOK' /\ FamiliesAreIssued' /\ ReplayEndsTokens'
  BY <1>2, <1>4, <1>5, InsertKeeps
<1>. HIDE DEF t
<1>7. \A q \in Asking \ {s} : /\ q \in Sessions \ {s} /\ session'[q] = session[q]
                              /\ session[q].token \in Tokens \ {t} /\ session[q].new \in Tokens \ {t}
  BY <1>1, <1>3, <1>5, TokenTypes
<1>8. NewAreUnissued'
  BY <1>3, <1>5, <1>7 DEF TokensInv, NewAreUnissued, Issued
<1>9. NewAreUnshared'
  BY <1>5, <1>7 DEF TokensInv, NewAreUnshared
<1>10. PresentedAreIssued' /\ OnlyHeldAreFound'
  BY <1>2, <1>3, <1>4, <1>5, <1>7 DEF TokensInv, PresentedAreIssued, OnlyHeldAreFound, IsExchange, Issued
<1>11. SuccessorsAreNew'
  BY <1>2, <1>3, <1>4, <1>5, <1>7 DEF TokensInv, SuccessorsAreNew, IsExchange, Issued
<1>. QED BY <1>6, <1>8, <1>9, <1>10, <1>11 DEF TokensInv

\* Marks on rows, with which a request ends.
LEMMA MarkingKeeps ==
  ASSUME TokensInv, KeysTypeOK', NEW s \in Asking, Close(s),
         row' \in [Tokens -> Row \cup {None}],
         \A t \in Tokens : Issued(t) => row'[t] # None /\ row'[t].family = row[t].family,
         \A t \in Tokens : Live(t)' => Live(t),
         \A t \in Tokens : ~Issued(t) => row'[t] = None,
         held' \in {held, held \cup {session[s].new}},
         held' # held => session[s].at = "mark",
         \A t \in ended' : t \in Tokens /\ Issued(t) /\ ~Live(t)'
  PROVE  TokensInv'
<1>1. TypeOK
  BY DEF TokensInv
<1>2. /\ session' \in [Sessions -> Session \cup {None}]
      /\ \A q \in Asking' : /\ q \in Asking \ {s} /\ session'[q] = session[q]
                            /\ session[q].token \in Tokens /\ session[q].new \in Tokens
  BY <1>1, CloseFacts, TokenTypes
<1>3. /\ session[s].new \in Tokens
      /\ held' # held => Issued(session[s].new)
  BY <1>1, TokenTypes DEF TokensInv, SuccessorsAreNew
<1>4. \A t \in Tokens : Issued(t)' <=> Issued(t)
  BY DEF Issued
<1>5. TypeOK'
  BY <1>1, <1>2, <1>3, <1>4 DEF TypeOK, Issued
<1>6. FamiliesAreIssued'
  <2>1. \A t \in Tokens : Issued(t) => row[t].family \in Tokens
    BY <1>1, TokenTypes
  <2>. QED BY <1>4, <2>1 DEF TokensInv, FamiliesAreIssued, Issued
<1>7. ReplayEndsTokens'
  BY DEF ReplayEndsTokens
<1>8. NewAreUnissued' /\ NewAreUnshared'
  BY <1>2, <1>4 DEF TokensInv, NewAreUnissued, NewAreUnshared
<1>9. PresentedAreIssued' /\ OnlyHeldAreFound'
  BY <1>2, <1>4 DEF TokensInv, PresentedAreIssued, OnlyHeldAreFound, IsExchange
<1>10. SuccessorsAreNew'
  <2>. SUFFICES ASSUME NEW q \in Asking', session'[q].at = "mark"
       PROVE  (/\ ~IsExchange(q)
               /\ Issued(session[q].new) /\ session[q].new \notin held
               /\ row[session[q].new].family = row[session[q].token].family)'
    BY DEF SuccessorsAreNew
  <2>1. /\ ~IsExchange(q)
        /\ Issued(session[q].new) /\ session[q].new \notin held
        /\ row[session[q].new].family = row[session[q].token].family
    BY <1>2 DEF TokensInv, SuccessorsAreNew
  <2>2. session[q].new # session[s].new
    BY <1>2 DEF TokensInv, NewAreUnshared
  <2>3. Issued(session[q].token)
    BY <1>2 DEF TokensInv, PresentedAreIssued
  <2>. QED BY <1>2, <1>4, <2>1, <2>2, <2>3 DEF IsExchange
<1>. QED BY <1>5, <1>6, <1>7, <1>8, <1>9, <1>10 DEF TokensInv

\* A mark on the row of the token that a request is about.
LEMMA MarkFacts ==
  ASSUME TokensInv, NEW s \in Asking, ~(session[s].at = "insert" /\ IsExchange(s)),
         NEW t, t = session[s].token,
         NEW marked \in Row, marked.family = row[t].family, marked.replaced \/ marked.revoked,
         row' = [row EXCEPT ![t] = marked]
  PROVE  /\ t \in Tokens /\ Issued(t) /\ row[t].family = Family(s) /\ ~Live(t)'
         /\ row' \in [Tokens -> Row \cup {None}]
         /\ \A u \in Tokens \ {t} : row'[u] = row[u]
         /\ \A u \in Tokens : /\ Issued(u) => row'[u] # None /\ row'[u].family = row[u].family
                              /\ ~Issued(u) => row'[u] = None
                              /\ Live(u)' => Live(u)
<1>1. TypeOK /\ marked # None
  BY NoneIsNoSession DEF TokensInv
<1>2. t \in Tokens /\ Issued(t) /\ row[t].family = Family(s)
  BY <1>1, TokenTypes DEF TokensInv, PresentedAreIssued, Family, Issued
<1>3. /\ row' \in [Tokens -> Row \cup {None}]
      /\ row'[t] = marked
      /\ \A u \in Tokens \ {t} : row'[u] = row[u]
  BY <1>1, <1>2 DEF TypeOK
<1>4. ~Live(t)'
  BY <1>3 DEF Live
<1>5. \A u \in Tokens : /\ Issued(u) => row'[u] # None /\ row'[u].family = row[u].family
                        /\ ~Issued(u) => row'[u] = None
                        /\ Live(u)' => Live(u)
  BY <1>1, <1>2, <1>3, <1>4 DEF Issued, Live
<1>. QED BY <1>2, <1>3, <1>4, <1>5

\* The predecessor is marked, and the client is given the successor, or not.
LEMMA MarkReplacedKeeps ==
  ASSUME TokensInv, KeysTypeOK', NEW s \in Sessions, MarkReplaced(s)
  PROVE  TokensInv'
<1> DEFINE t == session[s].token
           marked == [row[t] EXCEPT !.replaced = TRUE]
<1>1. TypeOK
  BY DEF TokensInv
<1>2. /\ s \in Asking /\ session[s].at = "mark"
      /\ row' = [row EXCEPT ![t] = marked]
      /\ held' \in {held, held \cup {session[s].new}} /\ ended' = ended
      /\ Close(s)
  BY DEF MarkReplaced, Stands, Asking
<1>3. t \in Tokens /\ Issued(t)
  BY <1>1, <1>2, TokenTypes DEF TokensInv, PresentedAreIssued
<1>4. marked \in Row /\ marked.family = row[t].family /\ marked.replaced
  BY <1>1, <1>3, TokenTypes, MarkedIsARow
<1>. HIDE DEF marked
<1>5. /\ row' \in [Tokens -> Row \cup {None}]
      /\ \A u \in Tokens : /\ Issued(u) => row'[u] # None /\ row'[u].family = row[u].family
                           /\ ~Issued(u) => row'[u] = None
                           /\ Live(u)' => Live(u)
  BY <1>2, <1>4, MarkFacts
<1>6. \A u \in ended' : u \in Tokens /\ Issued(u) /\ ~Live(u)'
  BY <1>1, <1>2, <1>5 DEF TypeOK, Issued, TokensInv, ReplayEndsTokens
<1>. QED BY <1>2, <1>5, <1>6, MarkingKeeps

\* One token is revoked.
LEMMA RevokeTokenKeeps ==
  ASSUME TokensInv, KeysTypeOK', NEW s \in Sessions, RevokeToken(s)
  PROVE  TokensInv'
<1> DEFINE t == session[s].token
           marked == [row[t] EXCEPT !.revoked = TRUE]
<1>1. TypeOK
  BY DEF TokensInv
<1>2. /\ s \in Asking /\ session[s].at = "end"
      /\ row' = [row EXCEPT ![t] = marked]
      /\ held' = held /\ ended' = ended
      /\ Close(s)
  BY DEF RevokeToken, Stands, Asking
<1>3. t \in Tokens /\ Issued(t)
  BY <1>1, <1>2, TokenTypes DEF TokensInv, PresentedAreIssued
<1>4. marked \in Row /\ marked.family = row[t].family /\ marked.revoked
  BY <1>1, <1>3, TokenTypes, MarkedIsARow
<1>. HIDE DEF marked
<1>5. /\ row' \in [Tokens -> Row \cup {None}]
      /\ \A u \in Tokens : /\ Issued(u) => row'[u] # None /\ row'[u].family = row[u].family
                           /\ ~Issued(u) => row'[u] = None
                           /\ Live(u)' => Live(u)
  BY <1>2, <1>4, MarkFacts
<1>6. \A u \in ended' : u \in Tokens /\ Issued(u) /\ ~Live(u)'
  BY <1>1, <1>2, <1>5 DEF TypeOK, Issued, TokensInv, ReplayEndsTokens
<1>. QED BY <1>2, <1>5, <1>6, MarkingKeeps

\* What the revocation of a family does to the rows.
LEMMA RevokeFamilyFacts ==
  ASSUME TokensInv, NEW s \in Sessions, RevokeFamily(s), NEW t \in Tokens
  PROVE  /\ row'[t] \in Row \cup {None}
         /\ Issued(t) => row'[t] # None /\ row'[t].family = row[t].family
         /\ ~Issued(t) => row'[t] = None
         /\ t \notin FamilyOf(s) => row'[t] = row[t]
         /\ t \in FamilyOf(s) => Issued(t) /\ row[t].family = Family(s) /\ ~Live(t)'
<1>1. TypeOK
  BY DEF TokensInv
<1>2. row'[t] = IF t \in FamilyOf(s) THEN [row[t] EXCEPT !.revoked = TRUE] ELSE row[t]
  BY DEF RevokeFamily
<1>3. CASE t \in FamilyOf(s)
  <2> DEFINE marked == [row[t] EXCEPT !.revoked = TRUE]
  <2>1. Issued(t) /\ row[t].family = Family(s) /\ row'[t] = marked
    BY <1>2, <1>3 DEF FamilyOf, Issued
  <2>2. marked \in Row /\ marked # None /\ marked.family = row[t].family /\ marked.revoked
    BY <1>1, <2>1, TokenTypes, MarkedIsARow
  <2>. HIDE DEF marked
  <2>. QED BY <1>3, <2>1, <2>2 DEF Live
<1>4. CASE t \notin FamilyOf(s)
  BY <1>1, <1>2, <1>4 DEF TypeOK, Issued
<1>. QED BY <1>3, <1>4

\* All of a family are revoked.
LEMMA RevokeFamilyKeeps ==
  ASSUME TokensInv, KeysTypeOK', NEW s \in Sessions, RevokeFamily(s)
  PROVE  TokensInv'
<1>1. TypeOK
  BY DEF TokensInv
<1>2. /\ s \in Asking /\ session[s].at = "endFamily"
      /\ held' = held /\ ended' = ended \cup FamilyOf(s)
      /\ Close(s)
  BY DEF RevokeFamily, Stands, Asking
<1>3. \A t \in Tokens : /\ Issued(t) => row'[t] # None /\ row'[t].family = row[t].family
                        /\ ~Issued(t) => row'[t] = None
                        /\ Live(t)' => Live(t)
                        /\ t \in FamilyOf(s) => Issued(t) /\ ~Live(t)'
  BY RevokeFamilyFacts DEF Live
<1>4. row' \in [Tokens -> Row \cup {None}]
  <2>1. row' = [t \in Tokens |-> row'[t]]
    BY DEF RevokeFamily
  <2>. QED BY <2>1, RevokeFamilyFacts
<1>5. \A t \in ended' : t \in Tokens /\ Issued(t) /\ ~Live(t)'
  BY <1>1, <1>2, <1>3 DEF TypeOK, Issued, TokensInv, ReplayEndsTokens, FamilyOf
<1>. QED BY <1>2, <1>3, <1>4, <1>5, MarkingKeeps
-----------------------------------------------------------------------------
(* The invariant. *)

\* The invariant holds at first.
LEMMA IInvInit == Init => IInv
<1>. SUFFICES ASSUME Init PROVE IInv
  OBVIOUS
<1>1. /\ load \in Workloads /\ now = 0 /\ nonce = 0 /\ acted = << >>
      /\ memory = [k \in Keys |-> IF k = Master THEN MasterKey ELSE None]
      /\ table = [[k \in Keys |-> None] EXCEPT ![Master] = MasterKey]
      /\ handler = [h \in Handlers |-> None] /\ handed = {Master} /\ gone = {}
      /\ row = [t \in Tokens |-> None] /\ session = [s \in Sessions |-> None]
      /\ held = {} /\ ended = {}
  BY DEF Init, KeysInit, FreshMemory, WithMaster
<1>2. MasterKey \in ApiKey /\ MasterKey # None /\ ~MasterKey.revoked
  <2>1. MasterKey \in ApiKey /\ ~MasterKey.revoked
    BY DEF MasterKey, ApiKey
  <2>. QED BY <2>1, NoneIsNoHandler
<1>3. Working = {} /\ Revoking = {} /\ Making = {} /\ Claiming = {} /\ Asking = {}
  BY <1>1 DEF Working, Revoking, Making, Claiming, Asking
<1>4. table[Master] = MasterKey
  BY <1>1, MasterIsAKey
<1>5. KeysTypeOK
  <2>1. MaxTime \in Nat /\ KeptFor \in Nat
    BY TimesAreNatural DEF KeptFor
  <2>2. /\ memory \in [Keys -> ApiKey \cup {None}]
        /\ table \in [Keys -> ApiKey \cup {None}]
    BY <1>1, <1>2, MasterIsAKey
  <2>3. handed \subseteq Keys /\ gone \subseteq handed
    BY <1>1, MasterIsAKey
  <2>. QED BY <1>1, <2>1, <2>2, <2>3 DEF KeysTypeOK
<1>6. KeysInv
  <2>1. HandedAreStored
    BY <1>1, <1>2, <1>4 DEF HandedAreStored
  <2>2. MakingIsExclusive /\ RevokedAreHanded /\ GoneAreRevoked /\ ClaimsAreTimely
    BY <1>1, <1>3 DEF MakingIsExclusive, RevokedAreHanded, GoneAreRevoked, ClaimsAreTimely
  <2>3. NonceIsKept /\ ActsAreApart
    BY <1>1 DEF NonceIsKept, ActsAreApart
  <2>. QED BY <1>5, <2>1, <2>2, <2>3 DEF KeysInv
<1>7. TokensInv
  <2>1. TypeOK
    BY <1>1, <1>5 DEF TypeOK
  <2>2. FamiliesAreIssued /\ ReplayEndsTokens
    BY <1>1 DEF FamiliesAreIssued, ReplayEndsTokens, Issued
  <2>3. /\ NewAreUnissued /\ NewAreUnshared /\ PresentedAreIssued
        /\ SuccessorsAreNew /\ OnlyHeldAreFound
    BY <1>3 DEF NewAreUnissued, NewAreUnshared, PresentedAreIssued, SuccessorsAreNew, OnlyHeldAreFound
  <2>. QED BY <2>1, <2>2, <2>3 DEF TokensInv
<1>. QED BY <1>6, <1>7 DEF IInv

\* The invariant of the keys is about their variables only.
LEMMA KeysStay == KeysInv /\ UNCHANGED keyVars => KeysInv'
<1>. SUFFICES ASSUME KeysInv, UNCHANGED keyVars PROVE KeysInv'
  OBVIOUS
<1>1. UNCHANGED <<load, now, memory, table, nonce, handler, handed, gone, acted>>
  BY DEF keyVars
<1>2. Working' = Working /\ Revoking' = Revoking /\ Making' = Making /\ Claiming' = Claiming
  BY <1>1 DEF Working, Revoking, Making, Claiming
<1>3. KeysTypeOK' /\ HandedAreStored' /\ GoneAreRevoked' /\ NonceIsKept' /\ ActsAreApart'
  BY <1>1 DEF KeysInv, KeysTypeOK, HandedAreStored, GoneAreRevoked, NonceIsKept, ActsAreApart
<1>4. MakingIsExclusive' /\ RevokedAreHanded' /\ ClaimsAreTimely'
  BY <1>1, <1>2 DEF KeysInv, MakingIsExclusive, RevokedAreHanded, ClaimsAreTimely
<1>. QED BY <1>3, <1>4 DEF KeysInv

\* Steps about keys leave the tokens as they are.
LEMMA TokensStay == TokensInv /\ UNCHANGED tokenVars /\ KeysTypeOK' => TokensInv'
<1>. SUFFICES ASSUME TokensInv, UNCHANGED tokenVars, KeysTypeOK' PROVE TokensInv'
  OBVIOUS
<1>1. UNCHANGED <<row, session, held, ended>>
  BY DEF tokenVars
<1>2. session' \in [Sessions -> Session \cup {None}] /\ Asking' = Asking
  BY <1>1 DEF TokensInv, TypeOK, Asking
<1>. QED BY <1>1, <1>2, EndingsKeep

\* Every step of the requests about tokens keeps the invariant.
LEMMA TokenRequestKeeps == IInv /\ TokenRequest => IInv'
<1>. SUFFICES ASSUME IInv, TokenRequest PROVE IInv'
  OBVIOUS
<1>1. PICK s \in Sessions :
        \/ \E t \in Tokens :
             \/ \E k \in Keys : BeginExchange(s, k, t)
             \/ BeginRefresh(s, t)
             \/ BeginRevokeToken(s, t)
        \/ FindToken(s) \/ InsertFirstToken(s) \/ InsertNextToken(s) \/ MarkReplaced(s)
        \/ RevokeToken(s) \/ RevokeFamily(s)
        \/ FailTokenStatement(s)
  BY DEF TokenRequest
<1>2. UNCHANGED keyVars
  BY <1>1 DEF BeginExchange, BeginRefresh, BeginRevokeToken, FindToken, InsertFirstToken,
         InsertNextToken, MarkReplaced, RevokeToken, RevokeFamily, FailTokenStatement
<1>3. KeysInv' /\ KeysTypeOK'
  BY <1>2, KeysStay DEF IInv, KeysInv
<1>4. ASSUME NEW t \in Tokens, NEW k \in Keys, BeginExchange(s, k, t) PROVE TokensInv'
  BY <1>3, <1>4, ReserveKeeps DEF BeginExchange, IInv
<1>5. ASSUME FailTokenStatement(s) PROVE TokensInv'
  <2>1. s \in Asking /\ Close(s) /\ UNCHANGED <<row, held, ended>>
    BY <1>5 DEF FailTokenStatement, Asking
  <2>2. /\ session' \in [Sessions -> Session \cup {None}]
        /\ \A q \in Asking' : q \in Asking /\ session'[q] = session[q]
    BY <2>1, CloseFacts, TokenTypes DEF IInv, TokensInv
  <2>. QED BY <1>3, <2>1, <2>2, EndingsKeep DEF IInv
<1>6. TokensInv'
  BY <1>1, <1>3, <1>4, <1>5, PresentKeeps, FindTokenKeeps, InsertFirstTokenKeeps,
     InsertNextTokenKeeps, MarkReplacedKeeps, RevokeTokenKeeps, RevokeFamilyKeeps DEF IInv
<1>. QED BY <1>3, <1>6 DEF IInv

\* Every step keeps it.
LEMMA IInvNext == IInv /\ [Next]_vars => IInv'
<1>. SUFFICES ASSUME IInv, [Next]_vars PROVE IInv'
  OBVIOUS
<1>1. CASE KeyRequest /\ UNCHANGED tokenVars
  BY <1>1, KeyRequestKeeps, TokensStay DEF IInv, KeysInv
<1>2. CASE TickKeys /\ UNCHANGED tokenVars
  BY <1>2, TickKeysKeeps, TokensStay DEF IInv, KeysInv
<1>3. CASE TokenRequest
  BY <1>3, TokenRequestKeeps
<1>4. CASE Restart
  <2>1. KeysInv' /\ KeysTypeOK'
    BY <1>4, RestartKeysKeeps DEF IInv, KeysInv, Restart
  <2>2. /\ UNCHANGED <<row, held, ended>>
        /\ session' \in [Sessions -> Session \cup {None}]
        /\ Asking' = {}
    BY <1>4 DEF Restart, Asking
  <2>. QED BY <2>1, <2>2, EndingsKeep DEF IInv
<1>5. CASE UNCHANGED vars
  BY <1>5, KeysStay, TokensStay DEF IInv, KeysInv, vars
<1>. QED BY <1>1, <1>2, <1>3, <1>4, <1>5 DEF Next

\* It holds of every reachable state.
LEMMA Invariance == Spec => []IInv
BY IInvInit, IInvNext, PTL DEF Spec
-----------------------------------------------------------------------------
(* What follows. *)

\* The state of keys, handlers, tokens and token requests is always of its type
\* (core/auth.rs, core/auth/repo.rs).
THEOREM TypeCorrect == Spec => []TypeOK
<1>1. IInv => TypeOK
  BY DEF IInv, TokensInv
<1>. QED BY <1>1, Invariance, PTL

\* No key but the configured one is accepted after its revocation was acknowledged,
\* whatever requests interleave with it, and across restarts (revoke_key_persistent and
\* validate_key_any in core/auth.rs).
THEOREM RevocationsLast == Spec => []RevocationLasts
<1>1. IInv => RevocationLasts
  BY DEF IInv, KeysInv, GoneAreRevoked, RevocationLasts, Accepted, Valid
<1>. QED BY <1>1, Invariance, PTL

\* A key that a client was given is accepted until it lapses or until its revocation is
\* acknowledged, through revocations that fail half-way and restarts (validate_key_any in
\* core/auth.rs).
THEOREM HandedKeysStay == Spec => []HandedKeysAreKept
<1>1. IInv => HandedKeysAreKept
  <2>. SUFFICES ASSUME IInv, NEW k \in handed \ gone
       PROVE  Accepted(k) \/ (table[k] # None /\ table[k].until <= now)
    BY DEF HandedKeysAreKept
  <2>1. table[k] # None /\ ~table[k].revoked
    BY DEF IInv, KeysInv, HandedAreStored
  <2>2. table[k].until \in Nat /\ now \in Nat
    <3>1. table[k] \in ApiKey /\ Lifetimes \cup {Forever} \subseteq Nat
      BY <2>1, TimesAreNatural DEF IInv, KeysInv, KeysTypeOK, Forever
    <3>. QED BY <3>1, KeyTypes DEF IInv, KeysInv, ApiKey
  <2>3. CASE now < table[k].until
    BY <2>1, <2>3 DEF Accepted, Valid
  <2>4. CASE table[k].until <= now
    BY <2>1, <2>4
  <2>. QED BY <2>2, <2>3, <2>4
<1>. QED BY <1>1, Invariance, PTL

\* Two times at which one signed request acts, however often it is sent, are as far apart
\* as its nonce is kept, less the delay between a handler's check and its claim, whatever
\* the configured window is (verify in core/high_risk.rs).
THEOREM ActsStayApart == Spec => []ActsAreApart
<1>1. IInv => ActsAreApart
  BY DEF IInv, KeysInv
<1>. QED BY <1>1, Invariance, PTL

\* No token that was in the table when a replay in its family was detected is live again,
\* also when it was being rotated (refresh_tokens and revoke_refresh_family in core/auth.rs).
THEOREM ReplaysEndTokens == Spec => []ReplayEndsTokens
<1>1. IInv => ReplayEndsTokens
  BY DEF IInv, TokensInv
<1>. QED BY <1>1, Invariance, PTL
-----------------------------------------------------------------------------
(* The refinement of TokenFamily. *)

\* The state of TokenFamily: the live tokens of each family that clients hold, and the
\* rotations that found their token live.
LiveOf == [family \in Tokens |-> {t \in held : Live(t) /\ row[t].family = family}]
UsesOf == [s \in Sessions |-> UsedBy(s)]

\* A request rotates its token.
Rotating(s) == session[s] # None /\ session[s].at \in {"insert", "mark"} /\ ~IsExchange(s)

\* Issued tokens keep their family, and so do the uses of them.
LEMMA UsesStay ==
  ASSUME TypeOK, TokensInv, NEW q \in Sessions, session'[q] = session[q],
         \A t \in Tokens : Issued(t) => row'[t] # None /\ row'[t].family = row[t].family
  PROVE  UsedBy(q)' = UsedBy(q)
<1>1. CASE Rotating(q)
  <2>1. q \in Asking /\ session[q].token \in Tokens /\ Issued(session[q].token)
    BY <1>1, TokenTypes DEF Rotating, Asking, TokensInv, PresentedAreIssued
  <2>2. Family(q)' = Family(q)
    BY <2>1 DEF Family, Issued
  <2>. QED BY <2>2 DEF UsedBy, IsExchange
<1>2. CASE ~Rotating(q)
  BY <1>2 DEF UsedBy, Rotating, IsExchange
<1>. QED BY <1>1, <1>2

\* The live tokens of one family change, those of the others stay.
LEMMA LiveOfMoves ==
  ASSUME NEW f \in Tokens, NEW S,
         \A family \in Tokens : LiveOf'[family] = IF family = f THEN S ELSE LiveOf[family]
  PROVE  LiveOf' = [LiveOf EXCEPT ![f] = S]
<1>1. LiveOf = [family \in Tokens |-> LiveOf[family]]
  BY DEF LiveOf
<1>2. LiveOf' = [family \in Tokens |-> LiveOf'[family]]
  BY DEF LiveOf
<1>. QED BY <1>1, <1>2

\* One use begins or ends, the others stay.
LEMMA UsesOfMoves ==
  ASSUME NEW s \in Sessions, \A q \in Sessions \ {s} : UsedBy(q)' = UsedBy(q)
  PROVE  UsesOf' = [UsesOf EXCEPT ![s] = UsedBy(s)']
BY DEF UsesOf

\* A step that leaves the rows of the tokens that clients hold alone changes no family.
LEMMA LiveOfStays ==
  ASSUME held' = held, \A t \in held : row'[t] = row[t]
  PROVE  LiveOf' = LiveOf
BY DEF LiveOf, Live

\* A use of a token is not None.
LEMMA UsesAreNotNone ==
  ASSUME TypeOK, NEW s \in Sessions, Rotating(s)
  PROVE  /\ UsedBy(s) = [family |-> Family(s), token |-> session[s].token]
         /\ UsedBy(s) # None
<1>1. s \in Asking
  BY DEF Rotating, Asking
<1>2. Family(s) \in Tokens /\ session[s].token \in Tokens
  BY <1>1, TokenTypes
<1>3. UsedBy(s) = [family |-> Family(s), token |-> session[s].token]
  BY DEF UsedBy, Rotating
<1>. QED BY <1>2, <1>3, NoneIsNoSession DEF Taken

\* Steps that change no row: a request begins, goes on or ends, and only the one that
\* found a live token begins a use.
LEMMA StartIsStutter ==
  ASSUME IInv, NEW s \in Sessions,
         \/ \E t \in Tokens :
              \/ \E k \in Keys : BeginExchange(s, k, t)
              \/ BeginRefresh(s, t)
              \/ BeginRevokeToken(s, t)
         \/ FindToken(s) /\ Verdict(row[session[s].token]) # "insert"
  PROVE  UNCHANGED <<LiveOf, held, UsesOf>>
<1>1. TypeOK /\ TokensInv
  BY DEF IInv, TokensInv
<1>2. UNCHANGED <<row, held>>
  BY DEF BeginExchange, BeginRefresh, BeginRevokeToken, FindToken
<1>3. /\ \A q \in Sessions \ {s} : session'[q] = session[q]
      /\ ~Rotating(s) /\ ~Rotating(s)'
  <2>1. CASE \E t \in Tokens :
               \/ \E k \in Keys : BeginExchange(s, k, t)
               \/ BeginRefresh(s, t)
               \/ BeginRevokeToken(s, t)
    <3>1. PICK t \in Tokens, step \in TokenSteps :
            /\ session[s] = None
            /\ session' = [session EXCEPT ![s] = [token |-> t, new |-> t, at |-> step]]
      BY <2>1 DEF BeginExchange, BeginRefresh, BeginRevokeToken, TokenSteps
    <3>2. session'[s].token = session'[s].new /\ \A q \in Sessions \ {s} : session'[q] = session[q]
      BY <1>1, <3>1 DEF TypeOK
    <3>. QED BY <3>1, <3>2 DEF Rotating, IsExchange
  <2>2. CASE FindToken(s) /\ Verdict(row[session[s].token]) # "insert"
    <3>1. s \in Asking /\ session[s].at = "find"
      BY <2>2 DEF FindToken, Stands, Asking
    <3>2. CASE Close(s)
      BY <1>1, <3>1, <3>2, CloseFacts DEF Rotating, Asking
    <3>3. CASE Proceed(s, "end") \/ Proceed(s, "endFamily")
      BY <1>1, <3>1, <3>3, ProceedFacts DEF Rotating, TokenSteps
    <3>4. Close(s) \/ Proceed(s, "end") \/ Proceed(s, "endFamily")
      BY <2>2 DEF FindToken, Verdict
    <3>. QED BY <3>1, <3>2, <3>3, <3>4 DEF Rotating
  <2>. QED BY <2>1, <2>2
<1>4. UsedBy(s) = None /\ UsedBy(s)' = None
  BY <1>3 DEF UsedBy, Rotating, IsExchange
<1>5. \A q \in Sessions \ {s} : UsedBy(q)' = UsedBy(q)
  BY <1>1, <1>2, <1>3, UsesStay DEF Issued
<1>. QED BY <1>2, <1>4, <1>5, LiveOfStays DEF UsesOf

\* A token that is found live is put to use.
LEMMA FindIsUse ==
  ASSUME IInv, NEW s \in Sessions, FindToken(s), Verdict(row[session[s].token]) = "insert"
  PROVE  Promise!Next
<1>1. TypeOK /\ TokensInv
  BY DEF IInv, TokensInv
<1>2. PICK t \in Tokens, f \in Tokens :
        /\ t = session[s].token /\ f = Family(s) /\ s \in Asking /\ session[s].at = "find"
        /\ t \in held /\ Live(t) /\ row[t].family = f
  <2>1. s \in Asking /\ session[s].at = "find"
    BY DEF FindToken, Stands, Asking
  <2>2. /\ session[s].token \in Tokens /\ Family(s) \in Tokens
        /\ session[s].token \in held /\ Issued(session[s].token)
    BY <1>1, <2>1, TokenTypes DEF TokensInv, OnlyHeldAreFound, PresentedAreIssued
  <2>3. ~row[session[s].token].revoked /\ ~row[session[s].token].replaced
    BY DEF Verdict
  <2>. QED BY <2>1, <2>2, <2>3 DEF Live, Family, Issued
<1>3. PICK new \in Tokens :
        /\ Unissued(new)
        /\ session' = [session EXCEPT ![s] = [token |-> t, new |-> new, at |-> "insert"]]
        /\ UNCHANGED <<row, held>>
  BY <1>2 DEF FindToken
<1>4. new # t
  BY <1>2, <1>3 DEF Unissued, Live
<1>5. /\ session'[s] = [token |-> t, new |-> new, at |-> "insert"]
      /\ \A q \in Sessions \ {s} : session'[q] = session[q]
  BY <1>1, <1>3 DEF TypeOK
<1>6. UsedBy(s) = None
  BY <1>2 DEF UsedBy
<1>7. UsedBy(s)' = [family |-> f, token |-> t]
  <2>1. [token |-> t, new |-> new, at |-> "insert"] # None
    <3>1. [token |-> t, new |-> new, at |-> "insert"] \in Session
      BY DEF Session
    <3>. QED BY <3>1, NoneIsNoSession
  <2>2. Family(s)' = f
    BY <1>2, <1>3, <1>5 DEF Family, Live
  <2>. QED BY <1>4, <1>5, <2>1, <2>2 DEF UsedBy, IsExchange
<1>8. UsesOf' = [UsesOf EXCEPT ![s] = [family |-> f, token |-> t]]
  <2>1. \A q \in Sessions \ {s} : UsedBy(q)' = UsedBy(q)
    BY <1>1, <1>3, <1>5, UsesStay DEF Issued
  <2>. QED BY <1>7, <2>1, UsesOfMoves
<1>9. LiveOf' = LiveOf /\ t \in LiveOf[f]
  BY <1>2, <1>3, LiveOfStays DEF LiveOf
<1>10. Promise!Use(s, f, t)
  BY <1>3, <1>6, <1>8, <1>9 DEF Promise!Use, LiveOf, UsesOf
<1>. QED BY <1>10 DEF Promise!Next

\* The first token of a family begins it, when its client gets it.
LEMMA FirstIsBegin ==
  ASSUME IInv, NEW s \in Sessions, InsertFirstToken(s)
  PROVE  Promise!Next \/ UNCHANGED <<LiveOf, held, UsesOf>>
<1>1. TypeOK /\ TokensInv
  BY DEF IInv, TokensInv
<1>2. PICK t \in Tokens : /\ s \in Asking /\ session[s].at = "insert" /\ IsExchange(s)
                         /\ t = session[s].new /\ ~Issued(t) /\ Family(s) = t
                         /\ Insert(s) /\ Close(s) /\ held' \in {held, held \cup {t}}
  <2>1. s \in Asking /\ session[s].at = "insert" /\ IsExchange(s)
    BY DEF InsertFirstToken, Stands, Asking
  <2>2. session[s].new \in Tokens /\ ~Issued(session[s].new)
    BY <1>1, <2>1, TokenTypes DEF TokensInv, NewAreUnissued
  <2>. QED BY <2>1, <2>2 DEF InsertFirstToken, IsExchange, Family, Issued
<1>3. /\ t \notin held /\ row'[t].family = t /\ Live(t)'
      /\ \A u \in Tokens \ {t} : row'[u] = row[u]
  BY <1>1, <1>2, InsertFacts
<1>4. \A u \in held : u \in Tokens \ {t} /\ Issued(u) /\ row[u].family # t
  BY <1>1, <1>2, TokenTypes DEF TokensInv, FamiliesAreIssued
<1>5. UsesOf' = UsesOf
  <2>1. \A q \in Sessions \ {s} : session'[q] = session[q]
    BY <1>1, <1>2, CloseFacts
  <2>2. UsedBy(s) = None /\ UsedBy(s)' = None
    BY <1>1, <1>2 DEF UsedBy, Close, TypeOK
  <2>3. \A u \in Tokens : Issued(u) => row'[u] # None /\ row'[u].family = row[u].family
    BY <1>2, <1>3 DEF Issued
  <2>4. \A q \in Sessions \ {s} : UsedBy(q)' = UsedBy(q)
    BY <1>1, <2>1, <2>3, UsesStay
  <2>. QED BY <2>2, <2>4 DEF UsesOf
<1>6. CASE held' = held
  BY <1>3, <1>4, <1>5, <1>6, LiveOfStays
<1>7. CASE held' = held \cup {t}
  <2>1. LiveOf[t] = {}
    BY <1>4 DEF LiveOf
  <2>2. ASSUME NEW family \in Tokens
        PROVE  LiveOf'[family] = IF family = t THEN {t} ELSE LiveOf[family]
    <3>1. \A u \in held : Live(u)' = Live(u) /\ row'[u].family = row[u].family
      BY <1>3, <1>4 DEF Live
    <3>2. LiveOf'[family] = {u \in held' : Live(u)' /\ row'[u].family = family}
      BY DEF LiveOf
    <3>3. LiveOf[family] = {u \in held : Live(u) /\ row[u].family = family}
      BY DEF LiveOf
    <3>. QED BY <1>3, <1>4, <1>7, <3>1, <3>2, <3>3
  <2>3. LiveOf' = [LiveOf EXCEPT ![t] = {t}]
    BY <1>2, <2>2, LiveOfMoves
  <2>4. Promise!Begin(t)
    BY <1>3, <1>5, <1>7, <2>1, <2>3 DEF Promise!Begin, LiveOf, UsesOf
  <2>. QED BY <1>2, <2>4 DEF Promise!Next
<1>. QED BY <1>2, <1>6, <1>7

\* The successor that is inserted is in no client's hands yet: its use goes on.
LEMMA NextIsStutter ==
  ASSUME IInv, NEW s \in Sessions, InsertNextToken(s)
  PROVE  UNCHANGED <<LiveOf, held, UsesOf>>
<1>1. TypeOK /\ TokensInv
  BY DEF IInv, TokensInv
<1>2. PICK t \in Tokens : /\ s \in Asking /\ session[s].at = "insert" /\ ~IsExchange(s)
                         /\ t = session[s].new /\ Insert(s) /\ Proceed(s, "mark")
                         /\ held' = held
  <2>1. s \in Asking /\ session[s].at = "insert" /\ ~IsExchange(s)
    BY DEF InsertNextToken, Stands, Asking
  <2>. QED BY <1>1, <2>1, TokenTypes DEF InsertNextToken
<1>3. /\ ~Issued(t) /\ t \notin held
      /\ \A u \in Tokens \ {t} : row'[u] = row[u]
  BY <1>1, <1>2, InsertFacts
<1>4. session[s].token \in Tokens \ {t}
  BY <1>1, <1>2, TokenTypes DEF IsExchange
<1>5. /\ session'[s].token = session[s].token /\ session'[s].new = session[s].new
      /\ session'[s].at = "mark" /\ s \in Asking'
      /\ \A q \in Sessions \ {s} : session'[q] = session[q]
  BY <1>1, <1>2, ProceedFacts DEF TokenSteps
<1>6. LiveOf' = LiveOf
  <2>1. \A u \in held : u \in Tokens \ {t}
    BY <1>1, <1>3, TokenTypes
  <2>. QED BY <1>2, <1>3, <2>1, LiveOfStays
<1>7. UsedBy(s)' = UsedBy(s)
  <2>1. Family(s)' = Family(s)
    BY <1>3, <1>4, <1>5 DEF Family
  <2>. QED BY <1>2, <1>5, <2>1 DEF UsedBy, IsExchange, Asking
<1>8. \A q \in Sessions \ {s} : UsedBy(q)' = UsedBy(q)
  <2>1. \A u \in Tokens : Issued(u) => row'[u] # None /\ row'[u].family = row[u].family
    BY <1>3 DEF Issued
  <2>. QED BY <1>1, <1>5, <2>1, UsesStay
<1>. QED BY <1>2, <1>6, <1>7, <1>8 DEF UsesOf

\* A mark rotates: the use is over, its token dies, and the successor is given, or lost.
LEMMA MarkIsRotate ==
  ASSUME IInv, NEW s \in Sessions, MarkReplaced(s)
  PROVE  Promise!Next
<1>1. TypeOK /\ TokensInv
  BY DEF IInv, TokensInv
<1>2. PICK t, new, f \in Tokens :
        /\ s \in Asking /\ session[s].at = "mark"
        /\ t = session[s].token /\ new = session[s].new /\ f = Family(s)
        /\ Issued(t) /\ row[t].family = f
        /\ Issued(new) /\ row[new].family = f /\ new \notin held /\ new # t
        /\ Close(s) /\ held' \in {held, held \cup {new}}
  <2>1. s \in Asking /\ session[s].at = "mark"
    BY DEF MarkReplaced, Stands, Asking
  <2>2. session[s].token \in Tokens /\ session[s].new \in Tokens /\ Family(s) \in Tokens
    BY <1>1, <2>1, TokenTypes
  <2>3. /\ Issued(session[s].token) /\ Issued(session[s].new) /\ session[s].new \notin held
        /\ session[s].new # session[s].token
        /\ row[session[s].new].family = row[session[s].token].family
    BY <2>1 DEF TokensInv, IInv, SuccessorsAreNew, PresentedAreIssued, IsExchange
  <2>. QED BY <2>1, <2>2, <2>3 DEF MarkReplaced, Issued, Family
<1> DEFINE marked == [row[t] EXCEPT !.replaced = TRUE]
<1>3. row' = [row EXCEPT ![t] = marked]
  BY <1>2 DEF MarkReplaced
<1>4. marked \in Row /\ marked.family = row[t].family /\ marked.replaced
  BY <1>1, <1>2, TokenTypes, MarkedIsARow
<1>. HIDE DEF marked
<1>5. /\ ~Live(t)'
      /\ \A u \in Tokens \ {t} : row'[u] = row[u]
      /\ \A u \in Tokens : Issued(u) => row'[u] # None /\ row'[u].family = row[u].family
  BY <1>1, <1>2, <1>3, <1>4, MarkFacts
<1>6. /\ UsesOf[s] = [family |-> f, token |-> t] /\ UsesOf[s] # None
      /\ UsesOf' = [UsesOf EXCEPT ![s] = None]
  <2>1. Rotating(s)
    BY <1>2 DEF Rotating, IsExchange, Asking
  <2>2. UsesOf[s] = [family |-> f, token |-> t] /\ UsesOf[s] # None
    BY <1>1, <1>2, <2>1, UsesAreNotNone DEF UsesOf
  <2>3. UsedBy(s)' = None /\ \A q \in Sessions \ {s} : session'[q] = session[q]
    BY <1>1, <1>2 DEF UsedBy, Close, TypeOK
  <2>4. \A q \in Sessions \ {s} : UsedBy(q)' = UsedBy(q)
    BY <1>1, <1>5, <2>3, UsesStay
  <2>. QED BY <2>2, <2>3, <2>4, UsesOfMoves
<1>7. \A u \in held : u \in Tokens
  BY <1>1, TokenTypes
<1> DEFINE rest == LiveOf[f] \ {t}
           given == IF Live(new) THEN held' \cap {new} ELSE {}
<1>8. ASSUME NEW family \in Tokens
      PROVE  LiveOf'[family] = IF family = f THEN rest \cup given ELSE LiveOf[family]
  <2>1. \A u \in held \ {t} : Live(u)' = Live(u) /\ row'[u].family = row[u].family
    BY <1>5, <1>7 DEF Live
  <2>2. Live(new)' = Live(new) /\ row'[new].family = f
    BY <1>2, <1>5 DEF Live
  <2>3. LiveOf'[family] = {u \in held' : Live(u)' /\ row'[u].family = family}
    BY DEF LiveOf
  <2>4. LiveOf[family] = {u \in held : Live(u) /\ row[u].family = family}
    BY DEF LiveOf
  <2>. QED BY <1>2, <1>5, <2>1, <2>2, <2>3, <2>4
<1>9. LiveOf' = [LiveOf EXCEPT ![f] = rest \cup given]
  <2>. HIDE DEF rest, given
  <2>. QED BY <1>2, <1>8, LiveOfMoves
<1>10. CASE held' = held
  <2>1. rest \cup given = rest
    BY <1>2, <1>10
  <2>2. LiveOf' = [LiveOf EXCEPT ![f] = LiveOf[f] \ {t}]
    BY <1>9, <2>1
  <2>3. UsesOf[s].family = f /\ UsesOf[s].token = t
    BY <1>6
  <2>4. LiveOf' = [LiveOf EXCEPT ![UsesOf[s].family] = LiveOf[UsesOf[s].family] \ {UsesOf[s].token}]
    BY <2>2, <2>3
  <2>5. Promise!Lose(s)
    BY <1>6, <1>10, <2>4 DEF Promise!Lose, LiveOf, UsesOf
  <2>. QED BY <2>5 DEF Promise!Next
<1>11. CASE held' = held \cup {new}
  <2>1. rest \cup given \in {rest, rest \cup {new}}
    BY <1>11
  <2>2. UsesOf[s].family = f /\ UsesOf[s].token = t
    BY <1>6
  <2>3. Promise!Rotate(s, new)
    BY <1>2, <1>6, <1>9, <1>11, <2>1, <2>2 DEF Promise!Rotate, LiveOf, UsesOf
  <2>. QED BY <1>2, <2>3 DEF Promise!Next
<1>. QED BY <1>2, <1>10, <1>11

\* A revocation, of one token or of a family's, ends what it revokes.
LEMMA RevocationIsEnd ==
  ASSUME IInv, NEW s \in Sessions, RevokeToken(s) \/ RevokeFamily(s)
  PROVE  Promise!Next
<1>1. TypeOK /\ TokensInv
  BY DEF IInv, TokensInv
<1>2. /\ s \in Asking /\ session[s].at \in {"end", "endFamily"}
      /\ held' = held /\ Close(s)
  BY DEF RevokeToken, RevokeFamily, Stands, Asking
<1>3. PICK t, f \in Tokens : /\ t = session[s].token /\ f = Family(s)
                            /\ Issued(t) /\ row[t].family = f
  <2>1. session[s].token \in Tokens /\ Family(s) \in Tokens /\ Issued(session[s].token)
    BY <1>1, <1>2, TokenTypes DEF TokensInv, PresentedAreIssued
  <2>. QED BY <2>1 DEF Family, Issued
<1>4. PICK S \in SUBSET Tokens :
        /\ \A u \in S : Issued(u) /\ row[u].family = f /\ ~Live(u)'
        /\ \A u \in Tokens \ S : row'[u] = row[u]
        /\ \A u \in Tokens : Issued(u) => row'[u] # None /\ row'[u].family = row[u].family
  <2>1. CASE RevokeToken(s)
    <3> DEFINE marked == [row[t] EXCEPT !.revoked = TRUE]
    <3>1. row' = [row EXCEPT ![t] = marked]
      BY <1>3, <2>1 DEF RevokeToken
    <3>2. marked \in Row /\ marked.family = row[t].family /\ marked.revoked
      BY <1>1, <1>3, TokenTypes, MarkedIsARow
    <3>. HIDE DEF marked
    <3>3. /\ ~Live(t)'
          /\ \A u \in Tokens \ {t} : row'[u] = row[u]
          /\ \A u \in Tokens : Issued(u) => row'[u] # None /\ row'[u].family = row[u].family
      BY <1>1, <1>2, <1>3, <3>1, <3>2, MarkFacts
    <3>4. \A u \in {t} : Issued(u) /\ row[u].family = f /\ ~Live(u)'
      BY <1>3, <3>3
    <3>5. {t} \in SUBSET Tokens
      OBVIOUS
    <3>. QED BY <3>3, <3>4, <3>5
  <2>2. CASE RevokeFamily(s)
    <3>1. FamilyOf(s) \in SUBSET Tokens
      BY DEF FamilyOf
    <3>2. \A u \in Tokens : /\ u \in FamilyOf(s) => Issued(u) /\ row[u].family = f /\ ~Live(u)'
                            /\ u \notin FamilyOf(s) => row'[u] = row[u]
                            /\ Issued(u) => row'[u] # None /\ row'[u].family = row[u].family
      BY <1>1, <1>3, <2>2, RevokeFamilyFacts
    <3>. QED BY <3>1, <3>2
  <2>. QED BY <2>1, <2>2
<1>5. ASSUME NEW family \in Tokens
      PROVE  LiveOf'[family] = IF family = f THEN LiveOf[f] \ S ELSE LiveOf[family]
  <2>1. \A u \in held : u \in Tokens
    BY <1>1, TokenTypes
  <2>2. \A u \in held \ S : Live(u)' = Live(u) /\ row'[u].family = row[u].family
    BY <1>4, <2>1 DEF Live
  <2>3. LiveOf'[family] = {u \in held : Live(u)' /\ row'[u].family = family}
    BY <1>2 DEF LiveOf
  <2>4. /\ LiveOf[family] = {u \in held : Live(u) /\ row[u].family = family}
        /\ LiveOf[f] = {u \in held : Live(u) /\ row[u].family = f}
    BY DEF LiveOf
  <2>. QED BY <1>4, <2>2, <2>3, <2>4
<1>6. LiveOf' = [LiveOf EXCEPT ![f] = LiveOf[f] \ S]
  BY <1>5, LiveOfMoves
<1>7. UsesOf' = UsesOf
  <2>1. UsedBy(s) = None /\ UsedBy(s)' = None /\ \A q \in Sessions \ {s} : session'[q] = session[q]
    BY <1>1, <1>2 DEF UsedBy, Close, TypeOK
  <2>2. \A q \in Sessions \ {s} : UsedBy(q)' = UsedBy(q)
    BY <1>1, <1>4, <2>1, UsesStay
  <2>. QED BY <2>1, <2>2 DEF UsesOf
<1>8. Promise!End(f, S)
  BY <1>2, <1>6, <1>7 DEF Promise!End, LiveOf, UsesOf
<1>. QED BY <1>4, <1>8 DEF Promise!Next

\* Requests that end unfinished, one or all, abandon their uses.
LEMMA FailureIsAbandon ==
  ASSUME IInv, UNCHANGED <<row, held>>, NEW S \in SUBSET Sessions,
         session' = [s \in Sessions |-> IF s \in S THEN None ELSE session[s]]
  PROVE  Promise!Next
<1>1. TypeOK /\ TokensInv
  BY DEF IInv, TokensInv
<1>2. LiveOf' = LiveOf
  BY LiveOfStays
<1>3. \A s \in Sessions : UsedBy(s)' = IF s \in S THEN None ELSE UsedBy(s)
  <2>1. \A s \in S : UsedBy(s)' = None
    BY DEF UsedBy
  <2>2. \A s \in Sessions \ S : UsedBy(s)' = UsedBy(s)
    BY <1>1, UsesStay DEF Issued
  <2>. QED BY <2>1, <2>2
<1>4. Promise!Abandon(S)
  BY <1>2, <1>3 DEF Promise!Abandon, LiveOf, UsesOf
<1>. QED BY <1>4 DEF Promise!Next

\* Every step is one of TokenFamily, or none.
LEMMA StepIsPromised == IInv /\ [Next]_vars => [Promise!Next]_<<LiveOf, held, UsesOf>>
<1>. SUFFICES ASSUME IInv, [Next]_vars
     PROVE  Promise!Next \/ UNCHANGED <<LiveOf, held, UsesOf>>
  OBVIOUS
<1>1. TypeOK
  BY DEF IInv, TokensInv
<1>2. ASSUME UNCHANGED <<row, session, held>> PROVE UNCHANGED <<LiveOf, held, UsesOf>>
  <2>1. \A s \in Sessions : UsedBy(s)' = UsedBy(s)
    BY <1>2 DEF UsedBy, IsExchange, Family
  <2>. QED BY <1>2, <2>1, LiveOfStays DEF UsesOf
<1>3. CASE TokenRequest
  <2>1. PICK s \in Sessions :
          \/ \E t \in Tokens :
               \/ \E k \in Keys : BeginExchange(s, k, t)
               \/ BeginRefresh(s, t)
               \/ BeginRevokeToken(s, t)
          \/ FindToken(s) \/ InsertFirstToken(s) \/ InsertNextToken(s) \/ MarkReplaced(s)
          \/ RevokeToken(s) \/ RevokeFamily(s)
          \/ FailTokenStatement(s)
    BY <1>3 DEF TokenRequest
  <2>2. CASE FailTokenStatement(s)
    <3>1. session' = [q \in Sessions |-> IF q \in {s} THEN None ELSE session[q]]
          /\ UNCHANGED <<row, held>>
      BY <1>1, <2>2 DEF FailTokenStatement, Close, TypeOK
    <3>. QED BY <3>1, FailureIsAbandon
  <2>. QED BY <2>1, <2>2, StartIsStutter, FindIsUse, FirstIsBegin, NextIsStutter, MarkIsRotate,
              RevocationIsEnd
<1>4. CASE (KeyRequest \/ TickKeys) /\ UNCHANGED tokenVars
  BY <1>2, <1>4 DEF tokenVars
<1>5. CASE Restart
  <2>1. session' = [q \in Sessions |-> IF q \in Sessions THEN None ELSE session[q]]
        /\ UNCHANGED <<row, held>>
    BY <1>5 DEF Restart
  <2>. QED BY <2>1, FailureIsAbandon
<1>6. CASE UNCHANGED vars
  BY <1>2, <1>6 DEF vars, tokenVars
<1>. QED BY <1>3, <1>4, <1>5, <1>6 DEF Next

\* Refresh tokens as core/auth.rs rotates and revokes them, in single statements that may
\* fail, whose answers may get lost and between which any other request may come, implement
\* TokenFamily: only live tokens are put to use, a use brings one token at most and takes
\* the old one, and what was ended does not live again without a use under way.
THEOREM TokensKeepTheirPromise == Spec => TokensAreRotated
<1>1. Init => Promise!Init
  <2>. SUFFICES ASSUME Init PROVE Promise!Init
    OBVIOUS
  <2>1. held = {} /\ session = [s \in Sessions |-> None]
    BY DEF Init
  <2>2. LiveOf = [family \in Tokens |-> {}] /\ UsesOf = [s \in Sessions |-> None]
    BY <2>1 DEF LiveOf, UsesOf, UsedBy
  <2>. QED BY <2>1, <2>2 DEF Promise!Init, LiveOf, UsesOf
<1>2. IInv /\ [Next]_vars => [Promise!Next]_<<LiveOf, held, UsesOf>>
  BY StepIsPromised
<1>. QED BY <1>1, <1>2, Invariance, PTL DEF Spec, TokensAreRotated, Promise!Spec, LiveOf, UsesOf
==============================================================================
