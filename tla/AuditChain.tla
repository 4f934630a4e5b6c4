----------------------------- MODULE AuditChain -----------------------------
(***************************************************************************)
(* The hash chain of audit entries (core/audit_chain.rs), the checkpoints  *)
(* that name its head and its size (core/checkpoint.rs) and the witnesses  *)
(* that attest a checkpoint (core/witness.rs, api/trust.rs).               *)
(*                                                                         *)
(* An append is a transaction under an advisory lock: take the lock, read  *)
(* the last entry, insert and commit.  A checkpoint is made of statements  *)
(* without a transaction.  Any of them may fail, and the server may stop.  *)
(*                                                                         *)
(* An entry's hash is named by its sequence number, which is as fresh; a   *)
(* transaction that fails after its insert leaves a gap in the numbers.    *)
(*                                                                         *)
(* Reading the last entry is an error when there is none, so that no       *)
(* append begins a chain; a seeded chain is one whose first entry an       *)
(* operator has put into the table.                                        *)
(***************************************************************************)
EXTENDS Naturals, Sequences, FiniteSets, Functions

CONSTANTS
  Writers,      \* the requests that append at the same time
  Settings,     \* what WITNESS_CONFIG_JSON may say: [witnesses, quorum], where
                \*   witnesses is the list of their identifiers
  MaxSeq,       \* bound on the sequence numbers
  MaxStarts,    \* bound on the restarts
  None

ASSUME BoundsAreNatural == MaxSeq \in Nat \ {0} /\ MaxStarts \in Nat
ASSUME WritersAreFinite == IsFiniteSet(Writers)
ASSUME SettingsNameWitnesses ==
  \A setting \in Settings :
    /\ setting.witnesses \in Seq(Range(setting.witnesses)) \ {<< >>}
    /\ setting.quorum \in Nat

VARIABLES
  chain,      \* the committed entries in the order of their numbers
  lastSeq,    \* the sequence of the table
  holder,     \* who has the advisory lock, or None
  writer,     \* writer -> where its append stands, or None
  draft,      \* the checkpoint that is being made, or None
  checkpoint, \* the row of the checkpoint, or None
  setting,    \* the configuration of the witnesses
  receipts,   \* the witnesses with a receipt for the checkpoint
  starts      \* ghost: how often the server started again

witnessVars == <<checkpoint, setting, receipts>>
chainVars == <<chain, lastSeq, holder, writer, draft, starts, witnessVars>>

Genesis == 0

Entry == [seq : 1..MaxSeq, prev : 0..MaxSeq]
Writer == [at : {"lock", "read", "insert"}, prev : 0..MaxSeq]
Checkpoint == [head : 1..MaxSeq, size : 0..MaxSeq]

ASSUME NoneIsNothingElse == None \notin Writers \cup Writer \cup Checkpoint

LastEntry == chain[Len(chain)]

\* Mutation: the quorum is what the configuration says, whoever is configured.
UnclampedQuorum(s) == s.quorum

\* WitnessService::from_env: at least one and at most the length of the list, in
\* which an identifier may come twice.
QuorumOf(s) ==
  LET count == Len(s.witnesses)
  IN IF s.quorum < 1 THEN 1 ELSE IF s.quorum > count THEN count ELSE s.quorum

\* The identifiers that may be configured.
Configurable == UNION {Range(s.witnesses) : s \in Settings}

ChainInit(seeded, settings) ==
  /\ chain = IF seeded THEN <<[seq |-> 1, prev |-> Genesis]>> ELSE <<>>
  /\ lastSeq = IF seeded THEN 1 ELSE 0
  /\ holder = None
  /\ writer = [w \in Writers |-> None]
  /\ draft = None
  /\ checkpoint = None
  /\ setting \in settings
  /\ receipts = {}
  /\ starts = 0

-----------------------------------------------------------------------------
(* AuditChain::append *)

At(w, step) == writer[w] # None /\ writer[w].at = step

\* Called by handlers at the end of their work.
StartAppend(w) ==
  /\ writer[w] = None
  /\ lastSeq + Cardinality({v \in Writers : writer[v] # None}) < MaxSeq
  /\ writer' = [writer EXCEPT ![w] = [at |-> "lock", prev |-> Genesis]]
  /\ UNCHANGED <<chain, lastSeq, holder, draft, starts, witnessVars>>

\* Mutation: the lock is not taken.
PassLock(w) ==
  /\ At(w, "lock")
  /\ writer' = [writer EXCEPT ![w].at = "read"]
  /\ UNCHANGED <<chain, lastSeq, holder, draft, starts, witnessVars>>

\* pg_advisory_xact_lock
TakeLock(w) ==
  /\ At(w, "lock")
  /\ holder = None
  /\ holder' = w
  /\ writer' = [writer EXCEPT ![w].at = "read"]
  /\ UNCHANGED <<chain, lastSeq, draft, starts, witnessVars>>

ReadLast(w) ==
  /\ At(w, "read")
  /\ chain # <<>>
  /\ writer' = [writer EXCEPT ![w] = [at |-> "insert", prev |-> LastEntry.seq]]
  /\ UNCHANGED <<chain, lastSeq, holder, draft, starts, witnessVars>>

EndTransaction(w) ==
  /\ writer' = [writer EXCEPT ![w] = None]
  /\ holder' = IF holder = w THEN None ELSE holder

\* fetch_one finds no row, which is an error; GENESIS is never used.
RefuseFirst(w) ==
  /\ At(w, "read")
  /\ chain = <<>>
  /\ EndTransaction(w)
  /\ UNCHANGED <<chain, lastSeq, draft, starts, witnessVars>>

InsertEntry(w) ==
  /\ At(w, "insert")
  /\ lastSeq' = lastSeq + 1
  /\ chain' = Append(chain, [seq |-> lastSeq + 1, prev |-> writer[w].prev])
  /\ EndTransaction(w)
  /\ UNCHANGED <<draft, starts, witnessVars>>

\* Mutation: a lock of the connection and not of the transaction.
KeepLock(w) ==
  /\ writer[w] # None
  /\ writer' = [writer EXCEPT ![w] = None]
  /\ UNCHANGED <<chain, lastSeq, holder, draft, starts, witnessVars>>

\* The transaction fails: the lock goes with it, a number taken is not given back.
Abort(w) ==
  /\ writer[w] # None
  /\ lastSeq' \in {lastSeq, IF At(w, "insert") THEN lastSeq + 1 ELSE lastSeq}
  /\ EndTransaction(w)
  /\ UNCHANGED <<chain, draft, starts, witnessVars>>

AppendStep(w) ==
  TakeLock(w) \/ ReadLast(w) \/ RefuseFirst(w) \/ InsertEntry(w) \/ Abort(w)

\* verify_chain: every entry names the one before it, and the first GENESIS.
ChainIsLinked ==
  \A i \in 1..Len(chain) : chain[i].prev = IF i = 1 THEN Genesis ELSE chain[i - 1].seq

-----------------------------------------------------------------------------
(* CheckpointService::generate_checkpoint.  One checkpoint is followed; the   *)
(* counts of other tables that go into its state root are left out.           *)

\* Mutation: the checkpoint of an empty chain names GENESIS.
ReadHeadOrGenesis ==
  /\ draft = None
  /\ checkpoint = None
  /\ draft' = [head |-> IF chain = <<>> THEN Genesis ELSE LastEntry.seq, size |-> 0]
  /\ UNCHANGED <<chain, lastSeq, holder, writer, starts, witnessVars>>

\* An empty chain is an error here too.
ReadHead ==
  /\ draft = None
  /\ checkpoint = None
  /\ chain # <<>>
  /\ draft' = [head |-> LastEntry.seq, size |-> 0]
  /\ UNCHANGED <<chain, lastSeq, holder, writer, starts, witnessVars>>

\* Mutation: the size is taken from the numbers.
SizeBySequence ==
  /\ draft # None
  /\ checkpoint' = [draft EXCEPT !.size = lastSeq]
  /\ draft' = None
  /\ UNCHANGED <<chain, lastSeq, holder, writer, setting, receipts, starts>>

\* COUNT(*), and the row with both.
StoreCheckpoint ==
  /\ draft # None
  /\ checkpoint' = [draft EXCEPT !.size = Len(chain)]
  /\ draft' = None
  /\ UNCHANGED <<chain, lastSeq, holder, writer, setting, receipts, starts>>

FailCheckpoint ==
  /\ draft # None
  /\ draft' = None
  /\ UNCHANGED <<chain, lastSeq, holder, writer, starts, witnessVars>>

-----------------------------------------------------------------------------
(* WitnessService *)

\* There is one receipt of an identifier: who attests again replaces its own.
Attest(witness) ==
  /\ checkpoint # None
  /\ witness \in Range(setting.witnesses)
  /\ receipts' = receipts \cup {witness}
  /\ UNCHANGED <<chain, lastSeq, holder, writer, draft, checkpoint, setting, starts>>

\* The server stops and starts again, with another configuration maybe.
RestartChain(settings) ==
  /\ starts < MaxStarts
  /\ starts' = starts + 1
  /\ writer' = [w \in Writers |-> None]
  /\ holder' = None
  /\ draft' = None
  /\ setting' \in settings
  /\ UNCHANGED <<chain, lastSeq, checkpoint, receipts>>

TrustStep ==
  \/ ReadHead \/ StoreCheckpoint \/ FailCheckpoint
  \/ \E witness \in Range(setting.witnesses) : Attest(witness)

\* The lock is granted in the order of the requests for it; handlers and the
\* database get on with their work, and witnesses attest in the end.
ChainFairness ==
  /\ \A w \in Writers :
       /\ WF_chainVars(ReadLast(w) \/ RefuseFirst(w) \/ InsertEntry(w))
       /\ SF_chainVars(TakeLock(w))
  /\ \A witness \in Configurable : WF_chainVars(Attest(witness))

-----------------------------------------------------------------------------
(* Properties. *)

ChainTypeOK ==
  /\ chain \in Seq(Entry)
  /\ lastSeq \in 0..MaxSeq
  /\ holder \in Writers \cup {None}
  /\ writer \in [Writers -> Writer \cup {None}]
  /\ draft \in Checkpoint \cup {None}
  /\ checkpoint \in Checkpoint \cup {None}
  /\ setting \in Settings
  /\ receipts \subseteq Configurable
  /\ starts \in 0..MaxStarts

\* verify_chain never finds a chain broken that only the server wrote, with any
\* appends at the same time, failures and gaps (core/audit_chain.rs).
ChainVerifies == ChainIsLinked

\* Where the head of the checkpoint is in the chain.
HeadAt(i) == i \in DOMAIN chain /\ chain[i].seq = checkpoint.head

\* A checkpoint counts its head and everything before it: its size is never less
\* than the position of its head and never more than there are entries, whatever
\* is appended or fails while it is made (core/checkpoint.rs, the head is read
\* before the entries are counted).
CheckpointCoversItsHead ==
  checkpoint # None =>
    /\ \E i \in 1..checkpoint.size : HeadAt(i)
    /\ checkpoint.size <= Len(chain)

\* A checkpoint is the state of the log at one moment: as many entries as lie up to
\* its head (docs/server/README.md, "proof of the system state").  It does not hold:
\* what is appended between the two statements is counted and not named.
CheckpointIsAState == checkpoint # None => HeadAt(checkpoint.size)

QuorumMet == Cardinality(receipts) >= QuorumOf(setting)

\* No identifier is configured twice.
Distinct(s) == IsInjective(s.witnesses)

\* A checkpoint reaches the quorum in the end, also a quorum larger than the list,
\* when the configuration no longer changes, names every witness once, and its
\* witnesses attest (core/witness.rs).
QuorumIsReached == checkpoint # None ~> QuorumMet \/ ~Distinct(setting)

\* An append always ends, also when others fail while they hold the lock.
AppendsEnd == \A w \in Writers : writer[w] # None ~> writer[w] = None

\* The first entry of a chain follows GENESIS (core/audit_chain.rs, unwrap_or_else
\* and verify_chain): an append to an empty chain is not refused for that.
ChainCanBegin == [][~ \E w \in Writers : RefuseFirst(w)]_chainVars
==============================================================================
