------------------------------- MODULE Upload -------------------------------
(***************************************************************************)
(* Uploading a file: the client that sends it as it is or in chunks        *)
(* (crates/cli/src/utils.rs), and the handlers that store it, record its   *)
(* chunks, keep a manifest of them and compose the file from the manifest  *)
(* (api/storage.rs, api/blobs.rs, api/manifests.rs) over the store.        *)
(*                                                                         *)
(* A file is the sequence of its chunks.  The client asks which chunks are *)
(* missing, uploads these one by one, creates the manifest and has the     *)
(* file composed; it stops at the first error and may begin again.  Of a   *)
(* chunk with a hole, compose sees that it has the right size.  With a     *)
(* database, chunks and manifests are recorded in tables, and without one  *)
(* the store is all there is.                                              *)
(***************************************************************************)
EXTENDS Storage

CONSTANTS
  Workloads,    \* what clients do: [file, direct, database, failing], where failing
                \*   bounds the failed requests and restarts
  Holed         \* chunk -> what is read of its object while that has a hole

ASSUME FailuresAreCounted == \A load \in Workloads : load.failing \in Nat
ASSUME ContentsAreSequences == Contents \subseteq Seq(STRING)
ASSUME FilesHaveChunks == \A load \in Workloads : \A r \in Requests :
  /\ load.file[r] \in Contents \ {<< >>}
  /\ \A i \in 1..Len(load.file[r]) :
       /\ <<load.file[r][i]>> \in Contents
       /\ Holed[load.file[r][i]] \in STRING
  /\ <<"manifest">> \o load.file[r] \in Contents

\* What compose may read of a file, whichever of its chunks have holes.
ASSUME ReadingsAreContents == \A load \in Workloads : \A r \in Requests :
  LET file == load.file[r] IN
  \A holes \in SUBSET (1..Len(file)) :
    [i \in 1..Len(file) |-> IF i \in holes THEN Holed[file[i]] ELSE file[i]] \in Contents

VARIABLES
  load,
  chunkRows,     \* the table `chunks`
  manifestRows,  \* the table `manifests`
  client,        \* request -> its client's upload: where it is, what the server said
                 \*   is missing, the next chunk, and what compose has read; or None
  answer,        \* ghost: request -> the name its client was last given, or None
  failures       \* ghost

uploadVars == <<load, chunkRows, manifestRows, client, answer, failures>>
vars == <<storageVars, uploadVars>>

FileOf(r) == load.file[r]
Chunk(r, i) == <<FileOf(r)[i]>>
ChunksOf(r) == {Chunk(r, i) : i \in 1..Len(FileOf(r))}
ManifestOf(r) == <<"manifest">> \o FileOf(r)

Client == [at : {"chunk", "manifest", "compose", "blob"}, missing : SUBSET Contents,
           next : Nat, got : Seq(STRING)]

ASSUME NoneIsNoClient == None \notin Client

Init ==
  /\ StorageInit
  /\ load \in Workloads
  /\ chunkRows = {}
  /\ manifestRows = {}
  /\ client = [r \in Requests |-> None]
  /\ answer = [r \in Requests |-> None]
  /\ failures = 0

-----------------------------------------------------------------------------

IsAt(r, step) == client[r] # None /\ client[r].at = step
Stored(r, content) == Stores(r, "stored") /\ store[r].content = content
Consume(r) ==
  /\ store' = [store EXCEPT ![r] = None]
  /\ UNCHANGED <<written, temp, object, shared>>

Recorded(chunk) == IF load.database THEN chunk \in chunkRows ELSE Exists(chunk)

\* upload_file and the client's upload_blob_direct.
BeginDirect(r) ==
  /\ load.direct[r]
  /\ answer[r] = None
  /\ BeginStore(r, FileOf(r))
  /\ UNCHANGED uploadVars

AnswerDirect(r) ==
  /\ load.direct[r]
  /\ Stored(r, FileOf(r))
  /\ answer' = [answer EXCEPT ![r] = FileOf(r)]
  /\ Consume(r)
  /\ UNCHANGED <<load, chunkRows, manifestRows, client, failures>>

\* missing_chunks
AskMissing(r) ==
  /\ ~load.direct[r]
  /\ client[r] = None
  /\ answer[r] = None
  /\ client' = [client EXCEPT ![r] =
       [at |-> "chunk", missing |-> {x \in ChunksOf(r) : ~Recorded(x)}, next |-> 1, got |-> << >>]]
  /\ UNCHANGED <<storageVars, load, chunkRows, manifestRows, answer, failures>>

Proceed(r, at, next, got) ==
  client' = [client EXCEPT ![r] =
    [at |-> at, missing |-> client[r].missing, next |-> next, got |-> got]]

NextChunk(r) == Proceed(r, client[r].at, client[r].next + 1, client[r].got)

SkipChunk(r) ==
  /\ IsAt(r, "chunk")
  /\ client[r].next <= Len(FileOf(r))
  /\ Chunk(r, client[r].next) \notin client[r].missing
  /\ NextChunk(r)
  /\ UNCHANGED <<storageVars, load, chunkRows, manifestRows, answer, failures>>

UploadChunk(r) ==
  /\ IsAt(r, "chunk")
  /\ client[r].next <= Len(FileOf(r))
  /\ Chunk(r, client[r].next) \in client[r].missing
  /\ BeginStore(r, Chunk(r, client[r].next))
  /\ UNCHANGED uploadVars

\* Mutation: a chunk is recorded by the request that wrote it.
RecordChunkIfWritten(r) ==
  /\ IsAt(r, "chunk")
  /\ Stores(r, "stored")
  /\ chunkRows' = IF load.database /\ store[r].file # None
                  THEN chunkRows \cup {store[r].content} ELSE chunkRows
  /\ Consume(r)
  /\ NextChunk(r)
  /\ UNCHANGED <<load, manifestRows, answer, failures>>

\* The end of upload_chunk, also when the chunk was there already.
RecordChunk(r) ==
  /\ IsAt(r, "chunk")
  /\ Stores(r, "stored")
  /\ chunkRows' = IF load.database THEN chunkRows \cup {store[r].content} ELSE chunkRows
  /\ Consume(r)
  /\ NextChunk(r)
  /\ UNCHANGED <<load, manifestRows, answer, failures>>

\* create_manifest; a client that uploaded all it was asked for passes the check.
CreateManifest(r) ==
  /\ IsAt(r, "chunk")
  /\ client[r].next > Len(FileOf(r))
  /\ \A x \in ChunksOf(r) : Recorded(x)
  /\ BeginStore(r, ManifestOf(r))
  /\ Proceed(r, "manifest", client[r].next, client[r].got)
  /\ UNCHANGED <<load, chunkRows, manifestRows, answer, failures>>

RecordManifest(r) ==
  /\ IsAt(r, "manifest")
  /\ Stores(r, "stored")
  /\ manifestRows' = IF load.database THEN manifestRows \cup {store[r].content} ELSE manifestRows
  /\ Consume(r)
  /\ Proceed(r, "compose", 1, client[r].got)
  /\ UNCHANGED <<load, chunkRows, answer, failures>>

\* load_manifest: the table, and else the store.
ManifestFound(r) == ManifestOf(r) \in manifestRows \/ IsWhole(ManifestOf(r))

\* What is read of the object of a chunk that has its size.
ReadOf(r, i) == IF IsWhole(Chunk(r, i)) THEN Chunk(r, i) ELSE <<Holed[FileOf(r)[i]]>>

\* Mutation: the size of a chunk is not compared with the manifest.
ReadAnyChunk(r) ==
  LET i == client[r].next IN
  /\ IsAt(r, "compose")
  /\ i = 1 => ManifestFound(r)
  /\ i <= Len(FileOf(r))
  /\ Exists(Chunk(r, i))
  /\ Proceed(r, "compose", i + 1,
             IF IsLong(Chunk(r, i)) THEN client[r].got \o ReadOf(r, i) ELSE client[r].got)
  /\ UNCHANGED <<storageVars, load, chunkRows, manifestRows, answer, failures>>

\* Mutation: the chunks of a manifest are gone through without going on.
ReadSameChunk(r) ==
  LET i == client[r].next IN
  /\ IsAt(r, "compose")
  /\ i = 1 => ManifestFound(r)
  /\ i <= Len(FileOf(r))
  /\ IsLong(Chunk(r, i))
  /\ Proceed(r, "compose", i, client[r].got \o ReadOf(r, i))
  /\ UNCHANGED <<storageVars, load, chunkRows, manifestRows, answer, failures>>

\* compose_blob, one chunk after the other; a short one has the wrong size.
ReadChunk(r) ==
  LET i == client[r].next IN
  /\ IsAt(r, "compose")
  /\ i = 1 => ManifestFound(r)
  /\ i <= Len(FileOf(r))
  /\ IsLong(Chunk(r, i))
  /\ Proceed(r, "compose", i + 1, client[r].got \o ReadOf(r, i))
  /\ UNCHANGED <<storageVars, load, chunkRows, manifestRows, answer, failures>>

Compose(r) ==
  /\ IsAt(r, "compose")
  /\ client[r].next > Len(FileOf(r))
  /\ BeginStore(r, client[r].got)
  /\ Proceed(r, "blob", client[r].next, client[r].got)
  /\ UNCHANGED <<load, chunkRows, manifestRows, answer, failures>>

AnswerCompose(r) ==
  /\ IsAt(r, "blob")
  /\ Stores(r, "stored")
  /\ answer' = [answer EXCEPT ![r] = store[r].content]
  /\ Consume(r)
  /\ client' = [client EXCEPT ![r] = None]
  /\ UNCHANGED <<load, chunkRows, manifestRows, failures>>

\* What compose has to read is short at this moment: an error.
RefuseCompose(r) ==
  /\ IsAt(r, "compose")
  /\ \/ client[r].next = 1 /\ ~ManifestFound(r)
     \/ client[r].next <= Len(FileOf(r)) /\ ~IsLong(Chunk(r, client[r].next))
  /\ client' = [client EXCEPT ![r] = None]
  /\ UNCHANGED <<storageVars, load, chunkRows, manifestRows, answer, failures>>

\* A request fails at the disk or the database; a client begins again, or not.
FailRequest(r) ==
  /\ failures < load.failing
  /\ failures' = failures + 1
  /\ store[r] # None
  /\ CutOff({r})
  /\ client' = [client EXCEPT ![r] = None]
  /\ UNCHANGED <<load, chunkRows, manifestRows, answer>>

Restart ==
  /\ failures < load.failing
  /\ failures' = failures + 1
  /\ CutOff(Requests)
  /\ client' = [r \in Requests |-> None]
  /\ UNCHANGED <<load, chunkRows, manifestRows, answer>>

Next ==
  \/ \E r \in Requests :
       \/ BeginDirect(r) \/ AnswerDirect(r)
       \/ AskMissing(r) \/ SkipChunk(r) \/ UploadChunk(r) \/ RecordChunk(r)
       \/ CreateManifest(r) \/ RecordManifest(r)
       \/ ReadChunk(r) \/ Compose(r) \/ AnswerCompose(r) \/ RefuseCompose(r)
       \/ FailRequest(r)
       \/ StoreStep(r) /\ UNCHANGED uploadVars
  \/ Restart

Spec == Init /\ [][Next]_vars

-----------------------------------------------------------------------------
(* Properties. *)

TypeOK ==
  /\ StorageTypeOK
  /\ load \in Workloads
  /\ chunkRows \subseteq Contents
  /\ manifestRows \subseteq Contents
  /\ client \in [Requests -> Client \cup {None}]
  /\ \A r \in Requests : client[r] # None =>
       /\ client[r].missing \subseteq ChunksOf(r)
       /\ client[r].next \in 1..(Len(FileOf(r)) + 1)
       /\ Len(client[r].got) < client[r].next
  /\ answer \in [Requests -> Contents \cup {None}]
  /\ failures \in 0..load.failing

\* An object that one request after the other stored is whole, whatever fails;
\* and one that several stored at the same time is, as soon as none of them works on
\* it, although they empty, rename and remove each other's temporary file, unless
\* some request failed (core/storage.rs, "treat as idempotent success").
ObjectsBecomeWhole ==
  \A x \in Contents : Exists(x) =>
    IsWhole(x) \/ (x \in shared /\ (Writers(x) # {} \/ failures > 0))

\* What a client is told is stored, as long as its file, and differs from it only in
\* chunks that several requests stored at the same time: not in any other chunk,
\* whatever was cut off before, and never in its size (api/manifests.rs).
UploadsAreFaithful ==
  \A r \in Requests : answer[r] # None =>
    /\ Exists(answer[r])
    /\ Len(answer[r]) = Len(FileOf(r))
    /\ \A i \in 1..Len(FileOf(r)) :
         \/ answer[r][i] = FileOf(r)[i]
         \/ answer[r][i] = Holed[FileOf(r)[i]] /\ Chunk(r, i) \in shared

\* What a client is told is the name of its file (the test in tests.rs, "compose
\* should produce the canonical blob hash").  It does not hold: of a chunk with a hole
\* only the size is compared.
ComposedIsTheFile == \A r \in Requests : answer[r] # None => answer[r] = FileOf(r)

\* A client that uploaded what it was told is missing is not refused for missing
\* chunks, whatever others uploaded or failed to record in between: neither when
\* the manifest is created nor when the file is composed (api/blobs.rs).
ProtocolSuffices ==
  \A r \in Requests : client[r] # None =>
    \A i \in 1..Len(FileOf(r)) :
      (client[r].at # "chunk" \/ i < client[r].next) =>
        Recorded(Chunk(r, i)) /\ Exists(Chunk(r, i))
==============================================================================
