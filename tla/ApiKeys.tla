------------------------------- MODULE ApiKeys -------------------------------
(***************************************************************************)
(* API keys (core/auth.rs, core/auth/repo.rs), the administrator's         *)
(* handlers that make and revoke them (api/auth.rs), and the guard that    *)
(* refuses a signed request whose nonce is known (core/high_risk.rs).      *)
(*                                                                         *)
(* A key is in a map in memory and in a table, and is accepted when either *)
(* of the two has it as valid.  A handler awaits the database between its  *)
(* steps; handlers interleave there, a statement may fail without effect,  *)
(* and the server may start again at any point.                            *)
(*                                                                         *)
(* One signed request is followed, which its client may send again and     *)
(* again; other signed requests have other nonces and do not meet it.      *)
(*                                                                         *)
(* Time is `now`, up to MaxTime; a handler is between the timestamp check  *)
(* and the insertion of the nonce for at most Delay.                       *)
(***************************************************************************)
EXTENDS Naturals, Sequences, FiniteSets

CONSTANTS
  Keys,
  Master,        \* the master key of the configuration
  Lifetimes,     \* until when a generated key may be valid
  Handlers,      \* the requests the server can work on at the same time
  Workloads,     \* what clients may do
  Skew,          \* HIGH_RISK_SIG_SKEW_SECS
  KeptAtLeast,   \* the 30 seconds a nonce is kept at least
  Delay,
  MaxTime,       \* bound on the clock
  None

ASSUME MasterIsAKey == Master \in Keys
ASSUME TimesAreNatural ==
  /\ {Skew, KeptAtLeast, Delay, MaxTime} \subseteq Nat
  /\ Lifetimes \subseteq Nat
ASSUME NoneIsFresh == None \notin Keys \cup Handlers
ASSUME HandlersAreFinite == IsFiniteSet(Handlers)
ASSUME WorkloadsAreKnown == \A load \in Workloads :
  /\ {load.atOnce, load.keys, load.stamp} \subseteq Nat
  /\ load.guarded \in BOOLEAN /\ load.tokens \in BOOLEAN

VARIABLES
  load,      \* the workload: [atOnce, keys, guarded, stamp, tokens]
  now,
  memory,    \* key -> its entry in AuthManager.keys, or None
  table,     \* key -> its row of api_keys, or None
  nonce,     \* until when the row of the followed request's nonce is kept, or 0
  handler,   \* handler -> where it stands, or None
  handed,    \* ghost: the keys that clients were given
  gone,      \* ghost: the keys whose revocation was acknowledged
  acted      \* ghost: the times when the followed request passed the guard

keyVars == <<load, now, memory, table, nonce, handler, handed, gone, acted>>

Forever == MaxTime + 1   \* expires_at: None

ApiKey == [admin : BOOLEAN, until : Lifetimes \cup {Forever}, revoked : BOOLEAN]

MasterKey == [admin |-> TRUE, until |-> Forever, revoked |-> FALSE]

\* from: the caller's key.  key: what is made or revoked.  at: the next step.
Handler == [from : Keys, key : Keys, entry : ApiKey, began : 0..MaxTime,
            at : {"upsert", "purge", "claim", "forget", "revoke"}]

ASSUME NoneIsNoHandler == None \notin ApiKey \cup Handler

Valid(entry) == entry # None /\ ~entry.revoked /\ now < entry.until

\* Mutation: memory decides about every key that it has.
AcceptedByMemory(k) == IF memory[k] # None THEN Valid(memory[k]) ELSE Valid(table[k])

\* validate_key_any: memory decides when it says yes, and the table otherwise.
Accepted(k) == Valid(memory[k]) \/ Valid(table[k])

IsAdmin(k) == IF Valid(memory[k]) THEN memory[k].admin ELSE Valid(table[k]) /\ table[k].admin

\* with_dev_key, and upsert_api_key of with_dev_key_and_db.
FreshMemory == [k \in Keys |-> IF k = Master THEN MasterKey ELSE None]
WithMaster(rows) == [rows EXCEPT ![Master] = MasterKey]

KeysInit ==
  /\ load \in Workloads
  /\ now = 0
  /\ memory = FreshMemory
  /\ table = WithMaster([k \in Keys |-> None])
  /\ nonce = 0
  /\ handler = [h \in Handlers |-> None]
  /\ handed = {Master}
  /\ gone = {}
  /\ acted = << >>

-----------------------------------------------------------------------------

At(h, step) == handler[h] # None /\ handler[h].at = step
Go(h, step) == handler' = [handler EXCEPT ![h].at = step]
Done(h) == handler' = [handler EXCEPT ![h] = None]

Start(h, from, k, entry, step) ==
  /\ handler[h] = None
  /\ Cardinality({g \in Handlers : handler[g] # None}) < load.atOnce
  /\ handler' = [handler EXCEPT ![h] =
       [from |-> from, key |-> k, entry |-> entry, began |-> now, at |-> step]]

\* require_admin_api_key
MayAdminister(from) == from \in handed /\ IsAdmin(from)

Unknown(k) == memory[k] = None /\ table[k] = None

\* The workload bounds how many keys there are at a time.
OneMoreKey == Cardinality({k \in Keys : ~Unknown(k)}) < load.keys

\* generate_key: into memory, and then into the table.
GenerateKey(h, from, k, admin, until) ==
  LET entry == [admin |-> admin, until |-> until, revoked |-> FALSE] IN
  /\ MayAdminister(from)
  /\ Unknown(k)
  /\ OneMoreKey
  /\ memory' = [memory EXCEPT ![k] = entry]
  /\ Start(h, from, k, entry, "upsert")
  /\ UNCHANGED <<load, now, table, nonce, handed, gone, acted>>

StoreKey(h) ==
  /\ At(h, "upsert")
  /\ table' = [table EXCEPT ![handler[h].key] = handler[h].entry]
  /\ handed' = handed \cup {handler[h].key}
  /\ Done(h)
  /\ UNCHANGED <<load, now, memory, nonce, gone, acted>>

Revocable(from, k) == MayAdminister(from) /\ k \in handed /\ k # from

InWindow == now <= load.stamp + Skew /\ load.stamp <= now + Skew

\* The handler of a revocation up to its first await: without a guard it goes on
\* with revoke_key_persistent, with one a request out of its window is refused.
BeginRevokeKey(h, from, k) ==
  /\ Revocable(from, k)
  /\ load.guarded => InWindow
  /\ Start(h, from, k, MasterKey, IF load.guarded THEN "purge" ELSE "forget")
  /\ UNCHANGED <<load, now, memory, table, nonce, handed, gone, acted>>

\* HighRiskGuard::verify: rows that are over are deleted, and a failure of that is
\* ignored.
PurgeNonces(h) ==
  /\ At(h, "purge")
  /\ nonce' \in {nonce, IF nonce <= now THEN 0 ELSE nonce}
  /\ Go(h, "claim")
  /\ UNCHANGED <<load, now, memory, table, handed, gone, acted>>

KeptFor == IF Skew > KeptAtLeast THEN Skew ELSE KeptAtLeast

\* Mutation: a nonce is kept from the time that the request is stamped with.
ClaimFromStamp(h) ==
  /\ At(h, "claim")
  /\ nonce = 0
  /\ nonce' = load.stamp + KeptFor
  /\ acted' = Append(acted, now)
  /\ Go(h, "forget")
  /\ UNCHANGED <<load, now, memory, table, handed, gone>>

\* INSERT .. ON CONFLICT DO NOTHING; the second to come is refused.
ClaimNonce(h) ==
  /\ At(h, "claim")
  /\ nonce = 0
  /\ nonce' = handler[h].began + KeptFor
  /\ acted' = Append(acted, now)
  /\ Go(h, "forget")
  /\ UNCHANGED <<load, now, memory, table, handed, gone>>

RefuseReplay(h) ==
  /\ At(h, "claim")
  /\ nonce # 0
  /\ Done(h)
  /\ UNCHANGED <<load, now, memory, table, nonce, handed, gone, acted>>

\* revoke_key: the map in memory, if the key is there.
ForgetKey(h) ==
  LET k == handler[h].key IN
  /\ At(h, "forget")
  /\ memory' = IF memory[k] = None THEN memory ELSE [memory EXCEPT ![k].revoked = TRUE]
  /\ Go(h, "revoke")
  /\ UNCHANGED <<load, now, table, nonce, handed, gone, acted>>

\* Mutation: a key found in memory is not looked up in the table.
RevokeKeyUnlessInMemory(h) ==
  LET k == handler[h].key IN
  /\ At(h, "revoke")
  /\ table' = IF memory[k] # None THEN table ELSE [table EXCEPT ![k].revoked = TRUE]
  /\ gone' = gone \cup {k}
  /\ Done(h)
  /\ UNCHANGED <<load, now, memory, nonce, handed, acted>>

\* revoke_api_key, and the answer.
RevokeKey(h) ==
  LET k == handler[h].key IN
  /\ At(h, "revoke")
  /\ table' = IF table[k] = None THEN table ELSE [table EXCEPT ![k].revoked = TRUE]
  /\ gone' = gone \cup {k}
  /\ Done(h)
  /\ UNCHANGED <<load, now, memory, nonce, handed, acted>>

\* A statement fails and the client gets an error; what memory holds stays.
FailKeyStatement(h) ==
  /\ \E step \in {"upsert", "claim", "revoke"} : At(h, step)
  /\ Done(h)
  /\ UNCHANGED <<load, now, memory, table, nonce, handed, gone, acted>>

\* The server starts again; a master key that was revoked is valid once more.
RestartKeys ==
  /\ memory' = FreshMemory
  /\ table' = WithMaster(table)
  /\ handler' = [h \in Handlers |-> None]
  /\ UNCHANGED <<load, now, nonce, handed, gone, acted>>

TickKeys ==
  /\ now < MaxTime
  /\ \A h \in Handlers : At(h, "purge") \/ At(h, "claim") => now < handler[h].began + Delay
  /\ now' = now + 1
  /\ UNCHANGED <<load, memory, table, nonce, handler, handed, gone, acted>>

KeyRequest ==
  \E h \in Handlers :
    \/ \E from, k \in Keys :
         \/ BeginRevokeKey(h, from, k)
         \/ \E admin \in BOOLEAN, until \in Lifetimes \cup {Forever} :
              GenerateKey(h, from, k, admin, until)
    \/ StoreKey(h)
    \/ PurgeNonces(h) \/ ClaimNonce(h) \/ RefuseReplay(h)
    \/ ForgetKey(h) \/ RevokeKey(h)
    \/ FailKeyStatement(h)

-----------------------------------------------------------------------------
(* Properties. *)

KeysTypeOK ==
  /\ load \in Workloads
  /\ now \in 0..MaxTime
  /\ memory \in [Keys -> ApiKey \cup {None}]
  /\ table \in [Keys -> ApiKey \cup {None}]
  /\ nonce \in 0..(MaxTime + KeptFor)
  /\ handler \in [Handlers -> Handler \cup {None}]
  /\ handed \subseteq Keys
  /\ gone \subseteq handed
  /\ acted \in Seq(0..MaxTime)

\* A key whose revocation was acknowledged is never accepted again, whatever
\* requests run at the same time and also after a restart (core/auth.rs, memory
\* or table accepts).  The master key is the exception: every start renews it.
RevocationLasts == \A k \in gone \ {Master} : ~Accepted(k)

\* A key that a client was given is accepted until it lapses or its revocation is
\* acknowledged: a revocation that failed half-way and a restart take it from
\* nobody (core/auth.rs, memory or table accepts).
HandedKeysAreKept ==
  \A k \in handed \ gone : Accepted(k) \/ (table[k] # None /\ table[k].until <= now)

\* A signed request that is sent again, however often and concurrently, is refused
\* for as long as its nonce is kept: two times at which it acts lie KeptFor apart,
\* less the Delay between a handler's check and its claim (core/high_risk.rs,
\* "nonce replay detected").  That is no promise that it acts once: it may act
\* again when the nonce is gone and its timestamp is still in the window.
ActsAreApart ==
  \A i, j \in DOMAIN acted : i < j => acted[j] + Delay >= acted[i] + KeptFor
==============================================================================
