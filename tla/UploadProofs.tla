---------------------------- MODULE UploadProofs ----------------------------
(***************************************************************************)
(* Proofs about Storage and Upload, for every number of requests, contents *)
(* and files on disk, and of parts that a content is written in.           *)
(*                                                                         *)
(* ObjectsBecomeWhole has two cases.  A content that requests stored one   *)
(* after the other has a writer that is alone: what it wrote is in the     *)
(* temporary file still (LoneWriterFillsTheTemp), and once the object is   *)
(* there, it is whole and nobody writes (UnsharedAreWhole).  Of a content  *)
(* that several write, every file is whole or has somebody who emptied it  *)
(* last and will write all that it lacks, by the file and not by the name, *)
(* as others may rename it away meanwhile (FilesAreCovered); that ends     *)
(* with the first failure.  In both cases no writer may write to the file  *)
(* of another content (FilesAreOfOneContent).                              *)
(*                                                                         *)
(* For the uploads, StoreFits says that what a request stores is what its  *)
(* client is at, and ClientFits that all behind the client is there and    *)
(* what compose has read is the file up to this point, but for holes in    *)
(* what several wrote.  These speak of objects that exist and contents     *)
(* that are shared, which only ever become more (OnlyGrows).               *)
(***************************************************************************)
EXTENDS Upload, SequenceTheorems, TLAPS

\* A file has the names, and the handles, of one content only.
Belongs(f, x) ==
  \/ temp[x] = f
  \/ object[x] = f
  \/ \E r \in Requests : store[r] # None /\ store[r].content = x /\ store[r].file = f

\* So no writer fills the file of another content.
FilesAreOfOneContent ==
  \A f \in Files : \A x, y \in Contents : Belongs(f, x) /\ Belongs(f, y) => x = y

\* A file is renamed from temp/ to objects/, and not at both.
TempIsNotObject == \A x \in Contents : temp[x] # None => temp[x] # object[x]

\* Who writes has a file, and a part to write.
WritersHaveWork ==
  \A r \in Requests :
    /\ Stores(r, "write") \/ Stores(r, "rename") => store[r].file \in Files
    /\ Stores(r, "write") => store[r].wrote < Parts

\* Contents with several writers are known to be.
WritersAreShared ==
  \A x \in Contents : \A q, r \in Writers(x) : q # r => x \in shared

\* Who writes a content alone writes to the file that has its name, and all it wrote
\* is in it.
LoneWriterFillsTheTemp ==
  \A r \in Requests :
    (Stores(r, "write") \/ Stores(r, "rename")) /\ store[r].content \notin shared =>
      /\ temp[store[r].content] = store[r].file
      /\ 1..store[r].wrote \subseteq written[store[r].file]
      /\ store[r].at = "rename" => store[r].wrote = Parts

\* An object whose content nobody wrote at the same time is whole, and nobody writes it.
UnsharedAreWhole ==
  \A x \in Contents : Exists(x) /\ x \notin shared => IsWhole(x) /\ Writers(x) = {}

\* Somebody writes this content to this file, and will write all that it lacks.
WillBeWhole(f, x) ==
  \E r \in Requests :
    /\ Stores(r, "write") /\ store[r].content = x /\ store[r].file = f
    /\ 1..store[r].wrote \subseteq written[f]

Covered(f, x) == written[f] = 1..Parts \/ WillBeWhole(f, x)

\* Every file that has a name is whole or will be.
FilesAreCovered ==
  \A x \in Contents :
    /\ temp[x] # None => Covered(temp[x], x)
    /\ object[x] # None => Covered(object[x], x)

\* Who is told that its content is stored finds it.
StoredExists == \A r \in Requests : Stores(r, "stored") => Exists(store[r].content)

\* What is invariant of the store.
StorageInv ==
  /\ StorageTypeOK
  /\ FilesAreOfOneContent
  /\ TempIsNotObject
  /\ WritersHaveWork
  /\ WritersAreShared
  /\ LoneWriterFillsTheTemp
  /\ UnsharedAreWhole
  /\ StoredExists

\* What a step of the store that does not fail keeps.
StorageKept == StorageInv' /\ (FilesAreCovered => FilesAreCovered')

\* What was read of a file is that file up to some chunk, but for holes in chunks
\* that several requests stored at the same time.
AsRead(r, got) ==
  \A i \in 1..Len(got) :
    \/ got[i] = FileOf(r)[i]
    \/ got[i] = Holed[FileOf(r)[i]] /\ Chunk(r, i) \in shared

\* What a request stores is what its client is at.
StoreFits(r) ==
  store[r] # None =>
    IF load.direct[r] THEN store[r].content = FileOf(r)
    ELSE /\ client[r] # None
         /\ \/ /\ client[r].at = "chunk"
               /\ client[r].next <= Len(FileOf(r))
               /\ store[r].content = Chunk(r, client[r].next)
               /\ store[r].content \in client[r].missing
            \/ client[r].at = "manifest" /\ store[r].content = ManifestOf(r)
            \/ client[r].at = "blob" /\ store[r].content = client[r].got

\* Where a client's upload stands: what is not missing is recorded, all that is
\* behind it is there, and what compose has read is of the file up to this point.
ClientFits(r) ==
  client[r] # None =>
    /\ ~load.direct[r]
    /\ client[r].missing \subseteq ChunksOf(r)
    /\ client[r].next \in 1..(Len(FileOf(r)) + 1)
    /\ client[r].at \in {"chunk", "manifest"} => client[r].got = << >>
    /\ client[r].at \in {"compose", "blob"} =>
         Len(client[r].got) = client[r].next - 1 /\ AsRead(r, client[r].got)
    /\ client[r].at = "blob" => client[r].next = Len(FileOf(r)) + 1
    /\ \A i \in 1..Len(FileOf(r)) : Chunk(r, i) \notin client[r].missing => Recorded(Chunk(r, i))
    /\ \A i \in 1..Len(FileOf(r)) :
         (client[r].at # "chunk" \/ i < client[r].next) =>
           Recorded(Chunk(r, i)) /\ Exists(Chunk(r, i))

\* The name a client was given is of something stored that was read of its file.
AnswerFits(r) ==
  answer[r] # None =>
    Exists(answer[r]) /\ Len(answer[r]) = Len(FileOf(r)) /\ AsRead(r, answer[r])

\* A recorded chunk exists.
RowsExist == \A x \in chunkRows : Exists(x)

\* The types of the uploads' variables.
UploadType ==
  /\ load \in Workloads
  /\ chunkRows \subseteq Contents
  /\ manifestRows \subseteq Contents
  /\ client \in [Requests -> Client \cup {None}]
  /\ answer \in [Requests -> Contents \cup {None}]
  /\ failures \in 0..load.failing

\* What is invariant of the uploads.
UploadInv ==
  /\ UploadType
  /\ RowsExist
  /\ \A r \in Requests : StoreFits(r) /\ ClientFits(r) /\ AnswerFits(r)

\* The inductive invariant.
IInv == StorageInv /\ UploadInv /\ (failures = 0 => FilesAreCovered)

-----------------------------------------------------------------------------
(* The store. *)

\* What a request that gets on with its store changes.
LEMMA StoreWithFacts ==
  ASSUME StorageTypeOK, NEW r \in Requests, store[r] # None,
         NEW file \in Files \cup {None}, NEW wrote \in 0..Parts,
         NEW step \in {"create", "write", "rename", "clean", "stored"},
         StoreWith(r, file, wrote, step)
  PROVE  /\ store' \in [Requests -> Store \cup {None}]
         /\ store'[r] # None /\ store'[r].content = store[r].content
         /\ store'[r].file = file /\ store'[r].wrote = wrote /\ store'[r].at = step
         /\ \A q \in Requests \ {r} : store'[q] = store[q]
         /\ store[r] \in Store
<1>1. store[r] \in Store
  BY DEF StorageTypeOK
<1>2. PICK e : e = [content |-> store[r].content, file |-> file, wrote |-> wrote, at |-> step]
  OBVIOUS
<1>3. e \in Store /\ e # None
  BY <1>1, <1>2, NoneIsNoValue DEF Store
<1>4. store' = [store EXCEPT ![r] = e]
  BY <1>2 DEF StoreWith
<1>. QED BY <1>1, <1>2, <1>3, <1>4 DEF StorageTypeOK

\* A file that nobody uses.
LEMMA NewFileFacts ==
  ASSUME StorageTypeOK, NEW file \in NewFiles
  PROVE  file \in Files /\ \A x \in Contents : ~Belongs(file, x)
<1>1. file \in Unused
  BY DEF NewFiles
<1>. QED BY <1>1 DEF Unused, Belongs

\* A content that nobody else stores has one writer, and no object yet.
LEMMA WriterFacts ==
  ASSUME StorageInv, NEW r \in Requests, store[r] # None, store[r].at # "stored"
  PROVE  /\ store[r] \in Store /\ store[r].content \in Contents
         /\ r \in Writers(store[r].content)
         /\ store[r].content \notin shared =>
              ~Exists(store[r].content) /\ Writers(store[r].content) = {r}
<1>1. store[r] \in Store /\ store[r].content \in Contents
  BY DEF StorageInv, StorageTypeOK, Store
<1>2. r \in Writers(store[r].content)
  BY DEF Writers
<1>. QED BY <1>1, <1>2 DEF StorageInv, UnsharedAreWhole, WritersAreShared

\* What keeps the files covered: no name changes, and who covers one goes on.
LEMMA CoverKept ==
  ASSUME UNCHANGED <<temp, object>>,
         \A f, x : Covered(f, x) => Covered(f, x)'
  PROVE  FilesAreCovered => FilesAreCovered'
<1> SUFFICES ASSUME FilesAreCovered PROVE FilesAreCovered'
  OBVIOUS
<1>1. ASSUME NEW x \in Contents, NEW f, f = temp[x] \/ f = object[x], f # None
      PROVE  Covered(f, x)'
  BY <1>1 DEF FilesAreCovered
<1>. QED BY <1>1 DEF FilesAreCovered, Covered, WillBeWhole

\* A request begins: as a writer, or at once at the end.
LEMMA BeginStoreKeeps ==
  ASSUME StorageInv, NEW r \in Requests, NEW c \in Contents, BeginStore(r, c)
  PROVE  StorageKept
<1>0. StorageTypeOK /\ UNCHANGED <<written, temp, object>> /\ store[r] = None
  BY DEF StorageInv, BeginStore
<1>1. PICK at \in {"create", "stored"} : at = IF Exists(c) THEN "stored" ELSE "create"
  OBVIOUS
<1>2. PICK e : e = [content |-> c, file |-> None, wrote |-> 0, at |-> at]
  OBVIOUS
<1>3. e \in Store /\ e # None
  BY <1>2, NoneIsNoValue, ContentsAreWritten DEF Store
<1>4. store' = [store EXCEPT ![r] = e]
  BY <1>1, <1>2 DEF BeginStore
<1>5. /\ store'[r] = e /\ \A q \in Requests \ {r} : store'[q] = store[q]
      /\ store' \in [Requests -> Store \cup {None}]
  BY <1>0, <1>3, <1>4 DEF StorageTypeOK
<1>6. StorageTypeOK'
  BY <1>0, <1>5 DEF StorageTypeOK, BeginStore
<1>7. FilesAreOfOneContent'
  <2>1. \A f \in Files : \A x \in Contents : Belongs(f, x)' => Belongs(f, x)
    BY <1>0, <1>2, <1>5, NoneIsNoValue DEF Belongs
  <2>. QED BY <2>1 DEF StorageInv, FilesAreOfOneContent
<1>8. TempIsNotObject'
  BY <1>0 DEF StorageInv, TempIsNotObject
<1>9. \A q \in Requests : /\ (Stores(q, "write") \/ Stores(q, "rename"))' => q # r
                          /\ Stores(q, "write")' <=> Stores(q, "write")
                          /\ Stores(q, "rename")' <=> Stores(q, "rename")
  BY <1>0, <1>2, <1>5 DEF Stores
<1>10. WritersHaveWork'
  BY <1>5, <1>9 DEF StorageInv, WritersHaveWork
<1>11. \A x \in Contents : Writers(x)' = IF x = c /\ ~Exists(c) THEN Writers(x) \cup {r} ELSE Writers(x)
  BY <1>0, <1>1, <1>2, <1>3, <1>5 DEF Writers
<1>12. shared \subseteq shared' /\ (~Exists(c) /\ Writers(c) # {} => c \in shared')
  BY DEF BeginStore
<1>13. WritersAreShared'
  BY <1>11, <1>12 DEF StorageInv, WritersAreShared
<1>14. LoneWriterFillsTheTemp'
  BY <1>0, <1>5, <1>9, <1>12 DEF StorageInv, LoneWriterFillsTheTemp
<1>15. UnsharedAreWhole'
  <2>1. \A x \in Contents : Exists(x)' = Exists(x) /\ IsWhole(x)' = IsWhole(x)
    BY <1>0 DEF Exists, IsWhole
  <2>. QED BY <2>1, <1>11, <1>12 DEF StorageInv, UnsharedAreWhole
<1>16. StoredExists'
  BY <1>0, <1>1, <1>2, <1>5 DEF StorageInv, StoredExists, Stores, Exists
<1>17. \A f, x : Covered(f, x) => Covered(f, x)'
  BY <1>0, <1>5, <1>9 DEF Covered, WillBeWhole
<1>. QED BY <1>0, <1>6, <1>7, <1>8, <1>10, <1>13, <1>14, <1>15, <1>16, <1>17, CoverKept
         DEF StorageInv, StorageKept

\* The temporary file is created, or the one of that name is emptied.
LEMMA CreateTempKeeps ==
  ASSUME StorageInv, NEW r \in Requests, CreateTemp(r)
  PROVE  StorageKept
<1>0. StorageTypeOK /\ Stores(r, "create") /\ UNCHANGED <<object, shared>> /\ store[r] # None
  BY DEF StorageInv, CreateTemp, Stores
<1>1. PICK c \in Contents : c = store[r].content
  BY <1>0 DEF StorageTypeOK, Store
<1>2. PICK file \in IF temp[c] # None THEN {temp[c]} ELSE NewFiles :
        /\ temp' = [temp EXCEPT ![c] = file] /\ written' = [written EXCEPT ![file] = {}]
        /\ StoreWith(r, file, 0, "write")
  BY <1>1 DEF CreateTemp
<1>3. /\ file \in Files /\ file # None
      /\ object[c] # file
      /\ \A x \in Contents \ {c} : ~Belongs(file, x)
  <2>1. CASE temp[c] # None
    <3>1. file = temp[c] /\ file \in Files /\ Belongs(file, c)
      BY <2>1, <1>0, <1>2 DEF StorageTypeOK, Belongs
    <3>. QED BY <2>1, <3>1, NoneIsNoValue DEF StorageInv, TempIsNotObject, FilesAreOfOneContent
  <2>2. CASE temp[c] = None
    <3>1. file \in Files /\ \A x \in Contents : ~Belongs(file, x)
      BY <2>2, <1>0, <1>2, NewFileFacts
    <3>. QED BY <3>1, NoneIsNoValue DEF Belongs
  <2>. QED BY <2>1, <2>2
<1>4. /\ store' \in [Requests -> Store \cup {None}]
      /\ store'[r] # None /\ store'[r].content = c
      /\ store'[r].file = file /\ store'[r].wrote = 0 /\ store'[r].at = "write"
      /\ \A q \in Requests \ {r} : store'[q] = store[q]
  <2>1. 0 \in 0..Parts
    BY ContentsAreWritten
  <2>. QED BY <2>1, <1>0, <1>1, <1>2, <1>3, StoreWithFacts
<1>5. temp' \in [Contents -> Files \cup {None}] /\ temp'[c] = file
      /\ \A x \in Contents \ {c} : temp'[x] = temp[x]
  BY <1>0, <1>2, <1>3 DEF StorageTypeOK
<1>6. written' \in [Files -> SUBSET (1..Parts)] /\ written'[file] = {}
      /\ \A f : f # file => written'[f] = written[f]
  BY <1>0, <1>2, <1>3 DEF StorageTypeOK
<1>7. StorageTypeOK'
  BY <1>0, <1>4, <1>5, <1>6 DEF StorageTypeOK
<1>8. FilesAreOfOneContent'
  <2>1. \A f \in Files : \A x \in Contents : Belongs(f, x)' => Belongs(f, x) \/ (f = file /\ x = c)
    BY <1>0, <1>4, <1>5 DEF Belongs
  <2>. QED BY <2>1, <1>3 DEF StorageInv, FilesAreOfOneContent
<1>9. TempIsNotObject'
  BY <1>0, <1>3, <1>5 DEF StorageInv, TempIsNotObject
<1>10. WritersHaveWork'
  BY <1>3, <1>4, ContentsAreWritten DEF StorageInv, WritersHaveWork, Stores
<1>11. \A x \in Contents : Writers(x)' = Writers(x)
  BY <1>0, <1>1, <1>4 DEF Writers, Stores
<1>12. WritersAreShared'
  BY <1>0, <1>11 DEF StorageInv, WritersAreShared
<1>13. c \notin shared => ~Exists(c) /\ Writers(c) = {r}
  BY <1>0, <1>1, WriterFacts DEF Stores
<1>14. LoneWriterFillsTheTemp'
  <2>1. ASSUME NEW q \in Requests, store'[q] # None, store'[q].at \in {"write", "rename"},
               store'[q].content \notin shared
        PROVE  /\ temp'[store'[q].content] = store'[q].file
               /\ 1..store'[q].wrote \subseteq written'[store'[q].file]
               /\ store'[q].at = "rename" => store'[q].wrote = Parts
    <3>1. CASE q = r
      BY <3>1, <1>4, <1>5
    <3>2. CASE q # r
      <4>1. PICK x \in Contents : x = store[q].content /\ store'[q] = store[q] /\ x \notin shared
        BY <2>1, <3>2, <1>0, <1>4 DEF StorageTypeOK, Store
      <4>2. q \in Writers(x) /\ (Stores(q, "write") \/ Stores(q, "rename"))
        BY <2>1, <4>1 DEF Writers, Stores
      <4>3. x # c
        BY <4>1, <4>2, <3>2, <1>13
      <4>4. /\ temp[x] = store[q].file /\ 1..store[q].wrote \subseteq written[store[q].file]
            /\ store[q].at = "rename" => store[q].wrote = Parts
        BY <4>1, <4>2 DEF StorageInv, LoneWriterFillsTheTemp
      <4>5. store[q].file # file
        BY <4>3, <4>4, <1>3 DEF Belongs
      <4>. QED BY <4>1, <4>3, <4>4, <4>5, <1>5, <1>6
    <3>. QED BY <3>1, <3>2
  <2>. QED BY <2>1, <1>0 DEF LoneWriterFillsTheTemp, Stores
<1>15. UnsharedAreWhole'
  <2>1. ASSUME NEW x \in Contents, Exists(x), x \notin shared
        PROVE  written'[object[x]] = 1..Parts /\ Writers(x) = {}
    <3>1. IsWhole(x) /\ Writers(x) = {} /\ x # c
      BY <2>1, <1>13 DEF StorageInv, UnsharedAreWhole
    <3>2. object[x] # file
      BY <3>1, <1>3 DEF Belongs
    <3>. QED BY <3>1, <3>2, <1>6 DEF IsWhole
  <2>. QED BY <2>1, <1>0, <1>11 DEF UnsharedAreWhole, IsWhole, Exists
<1>16. StoredExists'
  BY <1>0, <1>4 DEF StorageInv, StoredExists, Stores, Exists
<1>17. ASSUME FilesAreCovered PROVE FilesAreCovered'
  <2>1. Covered(file, c)'
    <3>1. 1..store'[r].wrote = {}
      BY <1>4
    <3>. QED BY <3>1, <1>4 DEF Covered, WillBeWhole, Stores
  <2>2. \A f, x : Covered(f, x) /\ f # file => Covered(f, x)'
    BY <1>0, <1>4, <1>6 DEF Covered, WillBeWhole, Stores
  <2>3. ASSUME NEW x \in Contents, NEW f, f # None, f = temp'[x] \/ f = object[x]
        PROVE  Covered(f, x)'
    <3>1. CASE f = file
      <4>1. x = c
        BY <2>3, <3>1, <1>3, <1>5 DEF Belongs
      <4>. QED BY <2>1, <3>1, <4>1
    <3>2. CASE f # file
      <4>1. f = temp[x] \/ f = object[x]
        BY <2>3, <3>2, <1>5
      <4>. QED BY <2>3, <4>1, <3>2, <2>2, <1>17 DEF FilesAreCovered
    <3>. QED BY <3>1, <3>2
  <2>. QED BY <2>3, <1>0 DEF FilesAreCovered, Covered, WillBeWhole
<1>. QED BY <1>7, <1>8, <1>9, <1>10, <1>12, <1>14, <1>15, <1>16, <1>17 DEF StorageInv, StorageKept

\* The next part is written to the file, whatever name it has by now.
LEMMA WritePartKeeps ==
  ASSUME StorageInv, NEW r \in Requests, WritePart(r)
  PROVE  StorageKept
<1>0. StorageTypeOK /\ Stores(r, "write") /\ UNCHANGED <<temp, object, shared>> /\ store[r] # None
  BY DEF StorageInv, WritePart, Stores
<1>1. PICK c \in Contents, file \in Files, old \in Nat :
        c = store[r].content /\ file = store[r].file /\ old = store[r].wrote /\ old < Parts
  BY <1>0, ContentsAreWritten DEF StorageInv, StorageTypeOK, Store, WritersHaveWork
<1>2. PICK part, step :
        /\ part = old + 1 /\ step = IF part = Parts THEN "rename" ELSE "write"
        /\ written' = [written EXCEPT ![file] = written[file] \cup {part}]
        /\ StoreWith(r, file, part, step)
  BY <1>1 DEF WritePart
<1>3. part \in 1..Parts /\ part \in 0..Parts /\ step \in {"write", "rename"}
  BY <1>1, <1>2, ContentsAreWritten
<1>4. /\ store' \in [Requests -> Store \cup {None}]
      /\ store'[r] # None /\ store'[r].content = c
      /\ store'[r].file = file /\ store'[r].wrote = part /\ store'[r].at = step
      /\ \A q \in Requests \ {r} : store'[q] = store[q]
  BY <1>0, <1>1, <1>2, <1>3, StoreWithFacts
<1>5. /\ written' \in [Files -> SUBSET (1..Parts)] /\ written'[file] = written[file] \cup {part}
      /\ \A f \in Files : written[f] \subseteq written'[f] /\ written'[f] \subseteq 1..Parts
      /\ \A f : f # file => written'[f] = written[f]
  BY <1>0, <1>1, <1>2, <1>3 DEF StorageTypeOK
<1>6. 1..old \subseteq written[file] => 1..part \subseteq written'[file]
  BY <1>1, <1>2, <1>5
<1>7. StorageTypeOK'
  BY <1>0, <1>4, <1>5 DEF StorageTypeOK
<1>8. FilesAreOfOneContent'
  <2>1. \A f \in Files : \A x \in Contents : Belongs(f, x)' => Belongs(f, x)
    BY <1>0, <1>1, <1>4 DEF Belongs
  <2>. QED BY <2>1 DEF StorageInv, FilesAreOfOneContent
<1>9. TempIsNotObject'
  BY <1>0 DEF StorageInv, TempIsNotObject
<1>10. WritersHaveWork'
  <2>1. step = "write" => part < Parts
    BY <1>2, <1>3, ContentsAreWritten
  <2>. QED BY <2>1, <1>1, <1>4 DEF StorageInv, WritersHaveWork, Stores
<1>11. \A x \in Contents : Writers(x)' = Writers(x)
  BY <1>0, <1>1, <1>3, <1>4 DEF Writers, Stores
<1>12. WritersAreShared'
  BY <1>0, <1>11 DEF StorageInv, WritersAreShared
<1>13. LoneWriterFillsTheTemp'
  <2>1. ASSUME NEW q \in Requests, store'[q] # None, store'[q].at \in {"write", "rename"},
               store'[q].content \notin shared
        PROVE  /\ temp'[store'[q].content] = store'[q].file
               /\ 1..store'[q].wrote \subseteq written'[store'[q].file]
               /\ store'[q].at = "rename" => store'[q].wrote = Parts
    <3>1. CASE q = r
      <4>1. temp[c] = file /\ 1..old \subseteq written[file]
        BY <2>1, <3>1, <1>0, <1>1, <1>4 DEF StorageInv, LoneWriterFillsTheTemp
      <4>. QED BY <3>1, <4>1, <1>0, <1>2, <1>4, <1>6
    <3>2. CASE q # r
      <4>1. store'[q] = store[q] /\ (Stores(q, "write") \/ Stores(q, "rename"))
        BY <2>1, <3>2, <1>4 DEF Stores
      <4>2. store[q].file \in Files
        BY <4>1 DEF StorageInv, WritersHaveWork
      <4>3. /\ temp[store[q].content] = store[q].file
            /\ 1..store[q].wrote \subseteq written[store[q].file]
            /\ store[q].at = "rename" => store[q].wrote = Parts
        BY <2>1, <4>1 DEF StorageInv, LoneWriterFillsTheTemp
      <4>4. written[store[q].file] \subseteq written'[store[q].file]
        BY <4>2, <1>5
      <4>. QED BY <4>1, <4>3, <4>4, <1>0
    <3>. QED BY <3>1, <3>2
  <2>. QED BY <2>1, <1>0 DEF LoneWriterFillsTheTemp, Stores
<1>14. UnsharedAreWhole'
  <2>1. ASSUME NEW x \in Contents, Exists(x), x \notin shared
        PROVE  written'[object[x]] = 1..Parts /\ Writers(x) = {}
    <3>1. IsWhole(x) /\ Writers(x) = {} /\ object[x] \in Files
      BY <2>1, <1>0 DEF StorageInv, UnsharedAreWhole, StorageTypeOK, Exists
    <3>2. written[object[x]] = 1..Parts
      BY <3>1 DEF IsWhole
    <3>. QED BY <3>1, <3>2, <1>5
  <2>. QED BY <2>1, <1>0, <1>11 DEF UnsharedAreWhole, IsWhole, Exists
<1>15. StoredExists'
  BY <1>0, <1>3, <1>4 DEF StorageInv, StoredExists, Stores, Exists
<1>16. ASSUME NEW f, NEW x, Covered(f, x)
       PROVE  Covered(f, x)'
  <2>1. CASE f # file
    <3>1. written'[f] = written[f]
      BY <2>1, <1>5
    <3>. QED BY <2>1, <3>1, <1>1, <1>4, <1>16 DEF Covered, WillBeWhole, Stores
  <2>2. CASE f = file /\ written[f] = 1..Parts
    BY <2>2, <1>5 DEF Covered
  <2>3. CASE f = file /\ WillBeWhole(f, x)
    <3>1. PICK q \in Requests : Stores(q, "write") /\ store[q].content = x /\ store[q].file = f
                                /\ 1..store[q].wrote \subseteq written[f]
      BY <2>3 DEF WillBeWhole
    <3>2. CASE q # r
      <4>1. Stores(q, "write")' /\ store'[q] = store[q]
        BY <3>1, <3>2, <1>4 DEF Stores
      <4>2. 1..store[q].wrote \subseteq written'[f]
        BY <2>3, <3>1, <1>5
      <4>. QED BY <3>1, <4>1, <4>2 DEF Covered, WillBeWhole
    <3>3. CASE q = r
      <4>1. x = c /\ 1..part \subseteq written'[file]
        BY <2>3, <3>1, <3>3, <1>1, <1>6
      <4>2. CASE part = Parts
        BY <2>3, <4>1, <4>2, <1>5 DEF Covered
      <4>3. CASE part # Parts
        <5>1. Stores(r, "write")'
          BY <4>3, <1>2, <1>4 DEF Stores
        <5>. QED BY <2>3, <4>1, <5>1, <1>4 DEF Covered, WillBeWhole
      <4>. QED BY <4>2, <4>3
    <3>. QED BY <3>2, <3>3
  <2>. QED BY <2>1, <2>2, <2>3, <1>16 DEF Covered
<1>. QED BY <1>0, <1>7, <1>8, <1>9, <1>10, <1>12, <1>13, <1>14, <1>15, <1>16, CoverKept
         DEF StorageInv, StorageKept

\* What a writer that moves the temporary file, or removes it, leaves as it was.
LEMMA MovedFacts ==
  ASSUME StorageInv, NEW r \in Requests, store[r] # None, store[r].at \in {"rename", "clean"},
         NEW c \in Contents, c = store[r].content,
         NEW step \in {"clean", "stored"},
         StoreWith(r, store[r].file, store[r].wrote, step), UNCHANGED <<written, shared>>,
         temp' \in [Contents -> Files \cup {None}], temp'[c] = None,
         \A x \in Contents \ {c} : temp'[x] = temp[x],
         object' \in [Contents -> Files \cup {None}], object'[c] \in {object[c], temp[c]},
         \A x \in Contents \ {c} : object'[x] = object[x]
  PROVE  /\ StorageTypeOK'
         /\ FilesAreOfOneContent' /\ TempIsNotObject' /\ WritersHaveWork' /\ WritersAreShared'
         /\ LoneWriterFillsTheTemp'
         /\ FilesAreCovered => FilesAreCovered'
         /\ store'[r].at = step /\ store'[r].content = c
         /\ \A q \in Requests \ {r} : store'[q] = store[q]
         /\ \A x \in Contents \ {c} : Writers(x)' = Writers(x)
         /\ Writers(c)' = IF step = "stored" THEN Writers(c) \ {r} ELSE Writers(c)
<1>0. StorageTypeOK /\ store[r] \in Store
  BY DEF StorageInv, StorageTypeOK
<1>1. store[r].file \in Files \cup {None} /\ store[r].wrote \in 0..Parts
  BY <1>0 DEF Store
<1>2. /\ store' \in [Requests -> Store \cup {None}]
      /\ store'[r] # None /\ store'[r].content = c
      /\ store'[r].file = store[r].file /\ store'[r].at = step
      /\ \A q \in Requests \ {r} : store'[q] = store[q]
  BY <1>0, <1>1, StoreWithFacts
<1>3. StorageTypeOK'
  BY <1>0, <1>2 DEF StorageTypeOK
<1>4. FilesAreOfOneContent'
  <2>1. \A f \in Files : \A x \in Contents : Belongs(f, x)' => Belongs(f, x)
    BY <1>0, <1>2, NoneIsNoValue DEF Belongs
  <2>. QED BY <2>1 DEF StorageInv, FilesAreOfOneContent
<1>5. TempIsNotObject'
  BY DEF StorageInv, TempIsNotObject
<1>6. /\ \A q \in Requests : Stores(q, "write")' <=> Stores(q, "write")
      /\ \A q \in Requests : Stores(q, "rename")' => Stores(q, "rename")
      /\ \A q \in Requests : Stores(q, "write")' \/ Stores(q, "rename")' => q # r
  BY <1>2 DEF Stores
<1>7. WritersHaveWork'
  BY <1>2, <1>6 DEF StorageInv, WritersHaveWork
<1>8. /\ \A x \in Contents \ {c} : Writers(x)' = Writers(x)
      /\ Writers(c)' = IF step = "stored" THEN Writers(c) \ {r} ELSE Writers(c)
  BY <1>2 DEF Writers
<1>9. WritersAreShared'
  BY <1>8 DEF StorageInv, WritersAreShared
<1>10. LoneWriterFillsTheTemp'
  <2>1. ASSUME NEW q \in Requests, (Stores(q, "write") \/ Stores(q, "rename"))',
               store'[q].content \notin shared
        PROVE  /\ temp'[store'[q].content] = store'[q].file
               /\ 1..store'[q].wrote \subseteq written[store'[q].file]
               /\ store'[q].at = "rename" => store'[q].wrote = Parts
    <3>1. q # r /\ store'[q] = store[q] /\ (Stores(q, "write") \/ Stores(q, "rename"))
      BY <2>1, <1>2, <1>6
    <3>2. PICK x \in Contents : x = store[q].content /\ q \in Writers(x)
      BY <3>1, <1>0 DEF Stores, StorageTypeOK, Store, Writers
    <3>3. x # c
      BY <2>1, <3>1, <3>2, WriterFacts
    <3>4. /\ temp[x] = store[q].file /\ 1..store[q].wrote \subseteq written[store[q].file]
          /\ store[q].at = "rename" => store[q].wrote = Parts
      BY <2>1, <3>1, <3>2 DEF StorageInv, LoneWriterFillsTheTemp
    <3>. QED BY <3>1, <3>2, <3>3, <3>4
  <2>. QED BY <2>1 DEF LoneWriterFillsTheTemp
<1>11. ASSUME FilesAreCovered PROVE FilesAreCovered'
  <2>1. \A f, x : Covered(f, x) => Covered(f, x)'
    BY <1>2, <1>6 DEF Covered, WillBeWhole
  <2>2. ASSUME NEW x \in Contents, NEW f, f # None, f = temp'[x] \/ f = object'[x]
        PROVE  Covered(f, x)'
    <3>1. f = temp[x] \/ f = object[x]
      BY <2>2
    <3>. QED BY <2>1, <2>2, <3>1, <1>11 DEF FilesAreCovered
  <2>. QED BY <2>2 DEF FilesAreCovered, Covered, WillBeWhole
<1>. QED BY <1>2, <1>3, <1>4, <1>5, <1>7, <1>8, <1>9, <1>10, <1>11

\* Whatever file has the name is moved; that of a lone writer is whole.
LEMMA RenameKeeps ==
  ASSUME StorageInv, NEW r \in Requests, Rename(r)
  PROVE  StorageKept
<1>0. StorageTypeOK /\ store[r] # None /\ store[r].at = "rename" /\ UNCHANGED <<written, shared>>
  BY DEF StorageInv, Rename, Stores
<1>1. PICK c \in Contents : c = store[r].content
  BY <1>0 DEF StorageTypeOK, Store
<1>2. c \notin shared => /\ ~Exists(c) /\ Writers(c) = {r}
                         /\ temp[c] \in Files /\ written[temp[c]] = 1..Parts
  <2>1. ASSUME c \notin shared
        PROVE  temp[c] = store[r].file /\ 1..Parts \subseteq written[temp[c]] /\ temp[c] \in Files
    BY <2>1, <1>0, <1>1 DEF StorageInv, LoneWriterFillsTheTemp, WritersHaveWork, Stores
  <2>. QED BY <2>1, <1>0, <1>1, WriterFacts DEF StorageTypeOK
<1>3. CASE temp[c] = None
  <2>1. StoreWith(r, store[r].file, store[r].wrote, "clean") /\ temp' = temp /\ object' = object
    BY <1>1, <1>3 DEF Rename, StoreAt
  <2>2. /\ StorageTypeOK'
        /\ FilesAreOfOneContent' /\ TempIsNotObject' /\ WritersHaveWork' /\ WritersAreShared'
        /\ LoneWriterFillsTheTemp'
        /\ FilesAreCovered => FilesAreCovered'
        /\ store'[r].at = "clean"
        /\ \A q \in Requests \ {r} : store'[q] = store[q]
        /\ \A x \in Contents : Writers(x)' = Writers(x)
    BY <1>0, <1>1, <1>3, <2>1, MovedFacts DEF StorageTypeOK
  <2>3. UnsharedAreWhole'
    <3>1. \A x \in Contents : Exists(x)' = Exists(x) /\ IsWhole(x)' = IsWhole(x)
      BY <1>0, <2>1 DEF Exists, IsWhole
    <3>. QED BY <3>1, <1>0, <2>2 DEF StorageInv, UnsharedAreWhole
  <2>4. StoredExists'
    BY <2>1, <2>2 DEF StorageInv, StoredExists, Stores, Exists
  <2>. QED BY <2>2, <2>3, <2>4 DEF StorageInv, StorageKept
<1>4. CASE temp[c] # None
  <2>1. /\ StoreWith(r, store[r].file, store[r].wrote, "stored")
        /\ temp' = [temp EXCEPT ![c] = None] /\ object' = [object EXCEPT ![c] = temp[c]]
    BY <1>1, <1>4 DEF Rename, StoreAt
  <2>2. /\ temp' \in [Contents -> Files \cup {None}] /\ temp'[c] = None
        /\ \A x \in Contents \ {c} : temp'[x] = temp[x]
        /\ object' \in [Contents -> Files \cup {None}] /\ object'[c] = temp[c]
        /\ \A x \in Contents \ {c} : object'[x] = object[x]
    BY <1>0, <1>4, <2>1 DEF StorageTypeOK
  <2>3. /\ StorageTypeOK'
        /\ FilesAreOfOneContent' /\ TempIsNotObject' /\ WritersHaveWork' /\ WritersAreShared'
        /\ LoneWriterFillsTheTemp'
        /\ FilesAreCovered => FilesAreCovered'
        /\ store'[r].at = "stored" /\ store'[r].content = c
        /\ \A q \in Requests \ {r} : store'[q] = store[q]
        /\ \A x \in Contents \ {c} : Writers(x)' = Writers(x)
        /\ Writers(c)' = Writers(c) \ {r}
    BY <1>0, <1>1, <2>1, <2>2, MovedFacts
  <2>4. UnsharedAreWhole'
    <3>1. ASSUME NEW x \in Contents, object'[x] # None, x \notin shared
          PROVE  written[object'[x]] = 1..Parts /\ Writers(x)' = {}
      <4>1. CASE x = c
        BY <3>1, <4>1, <1>2, <2>2, <2>3
      <4>2. CASE x # c
        BY <3>1, <4>2, <2>2, <2>3 DEF StorageInv, UnsharedAreWhole, IsWhole, Exists
      <4>. QED BY <4>1, <4>2
    <3>. QED BY <3>1, <1>0 DEF UnsharedAreWhole, IsWhole, Exists
  <2>5. StoredExists'
    <3>1. ASSUME NEW q \in Requests, Stores(q, "stored")'
          PROVE  object'[store'[q].content] # None
      <4>1. CASE q = r
        BY <4>1, <1>4, <2>2, <2>3
      <4>2. CASE q # r
        <5>1. store'[q] = store[q] /\ store[q].content \in Contents /\ Stores(q, "stored")
          BY <3>1, <4>2, <2>3, <1>0 DEF Stores, StorageTypeOK, Store
        <5>. QED BY <5>1, <1>4, <2>2 DEF StorageInv, StoredExists, Exists
      <4>. QED BY <4>1, <4>2
    <3>. QED BY <3>1 DEF StoredExists, Exists
  <2>. QED BY <2>3, <2>4, <2>5 DEF StorageInv, StorageKept
<1>. QED BY <1>3, <1>4

\* The object exists, and the file in temp/ is removed: others wrote at the same time.
LEMMA CleanTempKeeps ==
  ASSUME StorageInv, NEW r \in Requests, CleanTemp(r)
  PROVE  StorageKept
<1>0. StorageTypeOK /\ store[r] # None /\ store[r].at = "clean" /\ UNCHANGED <<written, shared, object>>
  BY DEF StorageInv, CleanTemp, Stores
<1>1. PICK c \in Contents : c = store[r].content
  BY <1>0 DEF StorageTypeOK, Store
<1>2. /\ StoreWith(r, store[r].file, store[r].wrote, "stored") /\ Exists(c)
      /\ temp' = [temp EXCEPT ![c] = None]
  BY <1>1 DEF CleanTemp, StoreAt
<1>3. /\ temp' \in [Contents -> Files \cup {None}] /\ temp'[c] = None
      /\ \A x \in Contents \ {c} : temp'[x] = temp[x]
      /\ object' \in [Contents -> Files \cup {None}]
  BY <1>0, <1>2 DEF StorageTypeOK
<1>4. /\ StorageTypeOK'
      /\ FilesAreOfOneContent' /\ TempIsNotObject' /\ WritersHaveWork' /\ WritersAreShared'
      /\ LoneWriterFillsTheTemp'
      /\ FilesAreCovered => FilesAreCovered'
      /\ store'[r].at = "stored" /\ store'[r].content = c
      /\ \A q \in Requests \ {r} : store'[q] = store[q]
      /\ \A x \in Contents \ {c} : Writers(x)' = Writers(x)
  BY <1>0, <1>1, <1>2, <1>3, MovedFacts
<1>5. c \in shared
  BY <1>0, <1>1, <1>2, WriterFacts
<1>6. UnsharedAreWhole'
  <2>1. \A x \in Contents : Exists(x)' = Exists(x) /\ IsWhole(x)' = IsWhole(x)
    BY <1>0 DEF Exists, IsWhole
  <2>. QED BY <2>1, <1>0, <1>4, <1>5 DEF StorageInv, UnsharedAreWhole
<1>7. StoredExists'
  BY <1>0, <1>2, <1>4 DEF StorageInv, StoredExists, Stores, Exists
<1>. QED BY <1>4, <1>6, <1>7 DEF StorageInv, StorageKept

\* Requests that end before their content is stored leave short files behind, and of a
\* content that only they wrote no object.
LEMMA CutOffKeeps ==
  ASSUME StorageInv, NEW requests \in SUBSET Requests, CutOff(requests)
  PROVE  StorageInv'
<1>0. StorageTypeOK /\ UNCHANGED <<written, temp, object, shared>>
  BY DEF StorageInv, CutOff
<1>1. /\ store' \in [Requests -> Store \cup {None}]
      /\ \A q \in Requests : store'[q] = IF q \in requests THEN None ELSE store[q]
  BY <1>0 DEF CutOff, StorageTypeOK
<1>2. StorageTypeOK'
  BY <1>0, <1>1 DEF StorageTypeOK
<1>3. FilesAreOfOneContent'
  <2>1. \A f \in Files : \A x \in Contents : Belongs(f, x)' => Belongs(f, x)
    BY <1>0, <1>1 DEF Belongs
  <2>. QED BY <2>1 DEF StorageInv, FilesAreOfOneContent
<1>4. TempIsNotObject'
  BY <1>0 DEF StorageInv, TempIsNotObject
<1>5. \A q \in Requests : store'[q] # None => store'[q] = store[q]
  BY <1>1
<1>6. WritersHaveWork'
  BY <1>5 DEF StorageInv, WritersHaveWork, Stores
<1>7. StoredExists'
  BY <1>0, <1>5 DEF StorageInv, StoredExists, Stores, Exists
<1>8. LoneWriterFillsTheTemp'
  BY <1>0, <1>5 DEF StorageInv, LoneWriterFillsTheTemp, Stores
<1>9. \A x \in Contents : Writers(x)' \subseteq Writers(x)
  BY <1>5 DEF Writers
<1>10. WritersAreShared'
  BY <1>0, <1>9 DEF StorageInv, WritersAreShared
<1>11. UnsharedAreWhole'
  <2>1. \A x \in Contents : Exists(x)' = Exists(x) /\ IsWhole(x)' = IsWhole(x)
    BY <1>0 DEF Exists, IsWhole
  <2>. QED BY <2>1, <1>0, <1>9 DEF StorageInv, UnsharedAreWhole
<1>. QED BY <1>2, <1>3, <1>4, <1>6, <1>7, <1>8, <1>10, <1>11 DEF StorageInv

\* A handler that resumes after its content is stored.
LEMMA ConsumeKeeps ==
  ASSUME StorageInv, NEW r \in Requests, Stores(r, "stored"), Consume(r)
  PROVE  StorageKept
<1>0. StorageTypeOK /\ UNCHANGED <<written, temp, object, shared>>
  BY DEF StorageInv, Consume
<1>1. CutOff({r})
  BY <1>0 DEF Consume, CutOff, StorageTypeOK
<1>2. /\ store'[r] = None /\ \A q \in Requests \ {r} : store'[q] = store[q]
  BY <1>0 DEF Consume, StorageTypeOK
<1>3. \A f, x : Covered(f, x) => Covered(f, x)'
  BY <1>0, <1>2 DEF Covered, WillBeWhole, Stores
<1>. QED BY <1>0, <1>1, <1>3, CutOffKeeps, CoverKept DEF StorageKept

\* What requests do with the store, seen from the handlers that call it.
LEMMA BeginStoreFacts ==
  ASSUME StorageTypeOK, NEW r \in Requests, NEW c \in Contents, BeginStore(r, c)
  PROVE  /\ store[r] = None /\ store'[r] # None /\ store'[r].content = c
         /\ \A q \in Requests \ {r} : store'[q] = store[q]
         /\ \A x \in Contents : Exists(x)' = Exists(x)
         /\ object' = object /\ shared \subseteq shared'
<1>1. PICK at \in {"create", "stored"} : at = IF Exists(c) THEN "stored" ELSE "create"
  OBVIOUS
<1>2. PICK e : e = [content |-> c, file |-> None, wrote |-> 0, at |-> at]
  OBVIOUS
<1>3. e \in Store /\ e # None /\ e.content = c
  BY <1>2, NoneIsNoValue, ContentsAreWritten DEF Store
<1>4. store' = [store EXCEPT ![r] = e] /\ store[r] = None /\ object' = object /\ shared \subseteq shared'
  BY <1>1, <1>2 DEF BeginStore
<1>. QED BY <1>3, <1>4 DEF StorageTypeOK, Exists

\* A step of the store keeps what it is about, and no object disappears.
LEMMA StoreStepFacts ==
  ASSUME StorageInv, NEW r \in Requests, StoreStep(r)
  PROVE  /\ store[r] # None /\ store'[r] # None /\ store'[r].content = store[r].content
         /\ \A q \in Requests \ {r} : store'[q] = store[q]
         /\ \A x \in Contents : Exists(x) => Exists(x)'
         /\ shared' = shared
<1>0. /\ StorageTypeOK /\ store[r] # None /\ store[r] \in Store
      /\ shared' = shared
  BY DEF StorageInv, StorageTypeOK, StoreStep, CreateTemp, WritePart, Rename, CleanTemp, Stores
<1>1. PICK file \in Files \cup {None}, wrote \in 0..Parts,
           step \in {"create", "write", "rename", "clean", "stored"} :
        StoreWith(r, file, wrote, step)
  <2>1. CASE CreateTemp(r)
    <3>1. PICK file \in IF temp[store[r].content] # None THEN {temp[store[r].content]} ELSE NewFiles :
            StoreWith(r, file, 0, "write")
      BY <2>1 DEF CreateTemp
    <3>2. file \in Files \cup {None}
      BY <1>0, <3>1, NewFileFacts DEF StorageTypeOK, Store
    <3>. QED BY <3>1, <3>2, ContentsAreWritten
  <2>2. CASE WritePart(r)
    <3>1. store[r].file \in Files /\ store[r].wrote \in 0..Parts /\ store[r].wrote < Parts
      BY <2>2, <1>0 DEF WritePart, StorageInv, WritersHaveWork, Store
    <3>2. PICK part : part = store[r].wrote + 1
      OBVIOUS
    <3>3. part \in 0..Parts
      BY <3>1, <3>2, ContentsAreWritten
    <3>. QED BY <2>2, <3>1, <3>2, <3>3 DEF WritePart
  <2>3. CASE Rename(r) \/ CleanTemp(r)
    <3>1. store[r].file \in Files \cup {None} /\ store[r].wrote \in 0..Parts
      BY <1>0 DEF Store
    <3>. QED BY <2>3, <3>1 DEF Rename, CleanTemp, StoreAt
  <2>. QED BY <2>1, <2>2, <2>3 DEF StoreStep
<1>2. store'[r] # None /\ store'[r].content = store[r].content
      /\ \A q \in Requests \ {r} : store'[q] = store[q]
  BY <1>0, <1>1, StoreWithFacts
<1>3. ASSUME NEW x \in Contents, Exists(x) PROVE Exists(x)'
  <2>1. CASE object' = object
    BY <1>3, <2>1 DEF Exists
  <2>2. CASE Rename(r) /\ object' # object
    <3>1. object' = [object EXCEPT ![store[r].content] = temp[store[r].content]]
          /\ temp[store[r].content] # None
      BY <2>2 DEF Rename
    <3>. QED BY <1>0, <1>3, <3>1 DEF Exists, StorageTypeOK
  <2>. QED BY <2>1, <2>2 DEF StoreStep, CreateTemp, WritePart, CleanTemp
<1>. QED BY <1>0, <1>2, <1>3

\* Every step of the store keeps its invariant.
LEMMA StoreStepKeeps ==
  ASSUME StorageInv, NEW r \in Requests, StoreStep(r)
  PROVE  StorageKept
BY CreateTempKeeps, WritePartKeeps, RenameKeeps, CleanTempKeeps DEF StoreStep

-----------------------------------------------------------------------------
(* The handlers and their clients. *)

\* A file, its chunks and its manifest are contents.
LEMMA FileFacts ==
  ASSUME load \in Workloads, NEW r \in Requests
  PROVE  /\ FileOf(r) \in Contents /\ FileOf(r) \in Seq(STRING)
         /\ Len(FileOf(r)) \in Nat \ {0}
         /\ ManifestOf(r) \in Contents
         /\ \A i \in 1..Len(FileOf(r)) : Chunk(r, i) \in Contents
         /\ ChunksOf(r) \subseteq Contents
<1>1. FileOf(r) \in Contents \ {<< >>} /\ ManifestOf(r) \in Contents
      /\ \A i \in 1..Len(FileOf(r)) : Chunk(r, i) \in Contents
  BY FilesHaveChunks DEF FileOf, ManifestOf, Chunk
<1>2. FileOf(r) \in Seq(STRING)
  BY <1>1, ContentsAreSequences
<1>3. Len(FileOf(r)) \in Nat \ {0}
  BY <1>1, <1>2
<1>. QED BY <1>1, <1>2, <1>3 DEF ChunksOf

\* A client that gets on with its upload.
LEMMA ProceedFacts ==
  ASSUME UploadType, NEW r \in Requests, client[r] # None,
         NEW at \in {"chunk", "manifest", "compose", "blob"}, NEW next \in Nat,
         NEW got \in Seq(STRING), Proceed(r, at, next, got)
  PROVE  /\ client' \in [Requests -> Client \cup {None}]
         /\ client'[r] # None
         /\ client'[r].at = at /\ client'[r].missing = client[r].missing
         /\ client'[r].next = next /\ client'[r].got = got
         /\ \A q \in Requests \ {r} : client'[q] = client[q]
<1>1. PICK e : e = [at |-> at, missing |-> client[r].missing, next |-> next, got |-> got]
  OBVIOUS
<1>2. e \in Client /\ e # None
  BY <1>1, NoneIsNoClient DEF UploadType, Client
<1>3. client' = [client EXCEPT ![r] = e]
  BY <1>1 DEF Proceed
<1>. QED BY <1>1, <1>2, <1>3 DEF UploadType

\* What is there, what is recorded and what is shared stays so.
OnlyGrows ==
  /\ load' = load
  /\ shared \subseteq shared'
  /\ chunkRows \subseteq chunkRows'
  /\ \A x \in Contents : Exists(x) => Exists(x)'

\* What is recorded stays recorded.
LEMMA RecordedGrows ==
  ASSUME OnlyGrows, NEW x \in Contents, Recorded(x)
  PROVE  Recorded(x)'
BY DEF OnlyGrows, Recorded

\* What was read of a file stays so.
LEMMA AsReadGrows ==
  ASSUME OnlyGrows, NEW r, NEW got, AsRead(r, got)
  PROVE  AsRead(r, got)'
BY DEF OnlyGrows, AsRead, FileOf, Chunk

\* An answer that is kept stays right.
LEMMA AnswerKept ==
  ASSUME UploadInv, OnlyGrows, NEW r \in Requests, answer'[r] = answer[r]
  PROVE  AnswerFits(r)'
<1> SUFFICES ASSUME answer[r] # None PROVE AnswerFits(r)'
  BY DEF AnswerFits
<1>1. PICK x \in Contents : x = answer[r] /\ x = answer'[r]
  BY DEF UploadInv, UploadType
<1>2. Exists(x) /\ Len(x) = Len(FileOf(r)) /\ AsRead(r, x)
  BY <1>1 DEF UploadInv, AnswerFits
<1>3. Exists(x)' /\ Len(x) = Len(FileOf(r))' /\ AsRead(r, x)'
  BY <1>2, AsReadGrows DEF OnlyGrows, FileOf
<1>. QED BY <1>1, <1>3 DEF AnswerFits, AsRead, Exists

\* A request whose client does not move is not disturbed by the others.
LEMMA RequestKept ==
  ASSUME load \in Workloads, OnlyGrows, NEW q \in Requests, client'[q] = client[q],
         store'[q] = None \/ (store[q] # None /\ store'[q].content = store[q].content),
         StoreFits(q), ClientFits(q)
  PROVE  StoreFits(q)' /\ ClientFits(q)'
<1>0. load' = load /\ FileOf(q)' = FileOf(q) /\ ManifestOf(q)' = ManifestOf(q) /\ ChunksOf(q)' = ChunksOf(q)
      /\ \A i : Chunk(q, i)' = Chunk(q, i)
  BY DEF OnlyGrows, FileOf, ManifestOf, ChunksOf, Chunk
<1>1. StoreFits(q)'
  <2>1. PICK e : e = client[q]
    OBVIOUS
  <2>. QED BY <2>1, <1>0 DEF StoreFits, Chunk, FileOf
<1>2. ClientFits(q)'
  <2>1. \A i \in 1..Len(FileOf(q)) : Chunk(q, i) \in Contents
    BY FileFacts
  <2>2. \A i \in 1..Len(FileOf(q)) :
          /\ Recorded(Chunk(q, i)) => Recorded(Chunk(q, i))'
          /\ Exists(Chunk(q, i)) => Exists(Chunk(q, i))'
    <3>1. \A x \in Contents : (Recorded(x) => Recorded(x)') /\ (Exists(x) => Exists(x)')
      BY RecordedGrows DEF OnlyGrows
    <3>2. ASSUME NEW i \in 1..Len(FileOf(q)), NEW x, x = Chunk(q, i)
          PROVE  /\ Recorded(x) => Recorded(x)'
                 /\ Exists(x) => Exists(x)'
      BY <2>1, <3>1, <3>2
    <3>. QED BY <3>2, <1>0 DEF Recorded, Exists
  <2>3. CASE client[q] = None
    BY <2>3 DEF ClientFits
  <2>4. CASE client[q] # None
    <3>1. PICK got : got = client[q].got
      OBVIOUS
    <3>2. AsRead(q, got) => AsRead(q, got)'
      BY AsReadGrows
    <3>3. AsRead(q, client[q].got) => AsRead(q, client[q].got)'
      BY <3>1, <3>2 DEF AsRead
    <3>. QED BY <2>2, <2>4, <3>3, <1>0 DEF ClientFits
  <2>. QED BY <2>3, <2>4
<1>. QED BY <1>1, <1>2

\* A step about one request keeps the invariant if it does for that request.
LEMMA OneRequestKeeps ==
  ASSUME UploadInv, NEW r \in Requests, OnlyGrows, UploadType', RowsExist',
         \A q \in Requests \ {r} :
           /\ client'[q] = client[q] /\ answer'[q] = answer[q]
           /\ store'[q] = None \/ (store[q] # None /\ store'[q].content = store[q].content),
         StoreFits(r)' /\ ClientFits(r)' /\ AnswerFits(r)'
  PROVE  UploadInv'
<1>1. ASSUME NEW q \in Requests PROVE StoreFits(q)' /\ ClientFits(q)' /\ AnswerFits(q)'
  <2>1. CASE q # r
    BY <2>1, RequestKept, AnswerKept DEF UploadInv, UploadType
  <2>. QED BY <2>1
<1>. QED BY <1>1 DEF UploadInv

\* A handler resumes after its store.
LEMMA ConsumeFacts ==
  ASSUME StorageInv, NEW r \in Requests, Stores(r, "stored"), Consume(r)
  PROVE  /\ store'[r] = None /\ (\A q \in Requests \ {r} : store'[q] = store[q])
         /\ \A x \in Contents : Exists(x)' = Exists(x)
         /\ store[r] # None /\ store[r].content \in Contents /\ Exists(store[r].content)
         /\ UNCHANGED <<object, shared>>
<1>1. store[r] # None /\ store[r] \in Store /\ Exists(store[r].content)
  BY DEF StorageInv, StorageTypeOK, StoredExists, Stores
<1>2. store' = [store EXCEPT ![r] = None] /\ UNCHANGED <<object, shared>>
  BY DEF Consume
<1>. QED BY <1>1, <1>2 DEF StorageInv, StorageTypeOK, Store, Exists

\* A file sent as it is.
LEMMA DirectKeeps ==
  ASSUME StorageInv, UploadInv, NEW r \in Requests, BeginDirect(r) \/ AnswerDirect(r)
  PROVE  StorageKept /\ UploadInv'
<1>0. StorageTypeOK /\ UploadType /\ load \in Workloads /\ load.direct[r] /\ client[r] = None
      /\ FileOf(r) \in Contents /\ load' = load /\ FileOf(r)' = FileOf(r)
  BY FileFacts DEF StorageInv, UploadInv, UploadType, BeginDirect, AnswerDirect, uploadVars, FileOf,
     ClientFits
<1>1. CASE BeginDirect(r)
  <2>1. BeginStore(r, FileOf(r)) /\ UNCHANGED <<load, chunkRows, manifestRows, client, answer, failures>>
    BY <1>1 DEF BeginDirect, uploadVars
  <2>2. /\ store[r] = None /\ store'[r] # None /\ store'[r].content = FileOf(r)
        /\ \A q \in Requests \ {r} : store'[q] = store[q]
        /\ (\A x \in Contents : Exists(x)' = Exists(x)) /\ shared \subseteq shared'
    BY <2>1, <1>0, BeginStoreFacts
  <2>3. UploadType' /\ RowsExist' /\ OnlyGrows
    BY <2>1, <2>2, <1>0 DEF UploadInv, UploadType, RowsExist, OnlyGrows
  <2>4. StoreFits(r)' /\ ClientFits(r)'
    BY <2>1, <2>2, <1>0 DEF StoreFits, ClientFits
  <2>5. AnswerFits(r)'
    BY <2>1, <2>3, AnswerKept
  <2>6. UploadInv'
    BY <2>1, <2>2, <2>3, <2>4, <2>5, OneRequestKeeps
  <2>. QED BY <2>1, <2>6, <1>0, BeginStoreKeeps
<1>2. CASE AnswerDirect(r)
  <2>1. /\ Consume(r) /\ Stores(r, "stored") /\ store[r].content = FileOf(r)
        /\ answer' = [answer EXCEPT ![r] = FileOf(r)]
        /\ UNCHANGED <<load, chunkRows, manifestRows, client, failures>>
    BY <1>2 DEF AnswerDirect, Stored
  <2>2. /\ store'[r] = None /\ (\A q \in Requests \ {r} : store'[q] = store[q])
        /\ (\A x \in Contents : Exists(x)' = Exists(x)) /\ Exists(FileOf(r)) /\ shared' = shared
    BY <2>1, ConsumeFacts
  <2>3. UploadType' /\ RowsExist' /\ OnlyGrows
    BY <2>1, <2>2, <1>0 DEF UploadInv, UploadType, RowsExist, OnlyGrows
  <2>4. StoreFits(r)' /\ ClientFits(r)'
    BY <2>1, <2>2, <1>0 DEF StoreFits, ClientFits
  <2>5. answer'[r] = FileOf(r) /\ \A q \in Requests \ {r} : answer'[q] = answer[q]
    BY <2>1, <1>0 DEF UploadType
  <2>6. AnswerFits(r)'
    <3>1. PICK x : x = FileOf(r) /\ x = answer'[r] /\ x = FileOf(r)' /\ x \in Contents
      BY <2>5, <1>0
    <3>2. Exists(x)' /\ Len(x) = Len(FileOf(r))'
      BY <3>1, <2>2 DEF Exists
    <3>. QED BY <3>1, <3>2 DEF AnswerFits, AsRead, Exists
  <2>7. UploadInv'
    BY <2>1, <2>2, <2>3, <2>4, <2>5, <2>6, OneRequestKeeps
  <2>. QED BY <2>1, <2>7, ConsumeKeeps
<1>. QED BY <1>1, <1>2

\* A handler that does not touch the store.
LEMMA StorageUnchanged ==
  ASSUME StorageInv, UNCHANGED storageVars
  PROVE  StorageKept /\ store' = store /\ shared' = shared /\ \A x \in Contents : Exists(x)' = Exists(x)
<1>1. UNCHANGED <<written, temp, object, store, shared>>
  BY DEF storageVars
<1>2. StorageInv'
  BY <1>1 DEF StorageInv, StorageTypeOK, FilesAreOfOneContent, Belongs, TempIsNotObject,
     WritersHaveWork, WritersAreShared, Writers, LoneWriterFillsTheTemp, UnsharedAreWhole, StoredExists,
     Stores, Exists, IsWhole
<1>3. FilesAreCovered => FilesAreCovered'
  BY <1>1 DEF FilesAreCovered, Covered, WillBeWhole, Stores
<1>. QED BY <1>1, <1>2, <1>3 DEF StorageKept, Exists

\* The server says which chunks are missing.
LEMMA AskMissingKeeps ==
  ASSUME StorageInv, UploadInv, NEW r \in Requests, AskMissing(r)
  PROVE  StorageKept /\ UploadInv'
<1>0. UploadType /\ load \in Workloads /\ ~load.direct[r] /\ client[r] = None /\ UNCHANGED storageVars
      /\ UNCHANGED <<load, chunkRows, manifestRows, answer, failures>>
      /\ FileOf(r)' = FileOf(r) /\ (\A i : Chunk(r, i)' = Chunk(r, i)) /\ ChunksOf(r)' = ChunksOf(r)
  BY DEF UploadInv, UploadType, AskMissing, FileOf, Chunk, ChunksOf
<1>1. PICK missing : missing = {x \in ChunksOf(r) : ~Recorded(x)}
  OBVIOUS
<1>2. missing \subseteq ChunksOf(r) /\ missing \subseteq Contents
      /\ \A i \in 1..Len(FileOf(r)) : Chunk(r, i) \notin missing => Recorded(Chunk(r, i))
  BY <1>0, <1>1, FileFacts DEF ChunksOf
<1>3. PICK e : e = [at |-> "chunk", missing |-> missing, next |-> 1, got |-> << >>]
  OBVIOUS
<1>4. e \in Client
  <2>1. << >> \in Seq(STRING)
    OBVIOUS
  <2>. QED BY <2>1, <1>2, <1>3 DEF Client
<1>5. client' = [client EXCEPT ![r] = e]
  BY <1>1, <1>3 DEF AskMissing
<1>6. client' \in [Requests -> Client \cup {None}] /\ client'[r] = e
      /\ \A q \in Requests \ {r} : client'[q] = client[q]
  BY <1>0, <1>4, <1>5 DEF UploadType
<1>7. /\ store' = store /\ shared' = shared /\ (\A x \in Contents : Exists(x)' = Exists(x)) /\ StorageKept
      /\ (\A x : Recorded(x)' = Recorded(x))
  BY <1>0, StorageUnchanged DEF Recorded, Exists, storageVars
<1>8. UploadType' /\ RowsExist' /\ OnlyGrows
  BY <1>0, <1>6, <1>7 DEF UploadInv, UploadType, RowsExist, OnlyGrows
<1>9. store[r] = None
  BY <1>0 DEF UploadInv, StoreFits
<1>10. StoreFits(r)'
  BY <1>7, <1>9 DEF StoreFits
<1>11. ClientFits(r)'
  <2>1. Len(FileOf(r)) \in Nat \ {0}
    BY <1>0, FileFacts
  <2>2. client'[r].at = "chunk" /\ client'[r].missing = missing /\ client'[r].next = 1 /\ client'[r].got = << >>
    BY <1>3, <1>6
  <2>3. \A i \in 1..Len(FileOf(r)) : Chunk(r, i) \notin missing => Recorded(Chunk(r, i))'
    BY <1>0, <1>2, <1>7 DEF Recorded, Exists
  <2>. QED BY <2>1, <2>2, <2>3, <1>0, <1>2 DEF ClientFits
<1>13. AnswerFits(r)'
  BY <1>0, <1>8, AnswerKept
<1>. QED BY <1>0, <1>6, <1>7, <1>8, <1>10, <1>11, <1>13, OneRequestKeeps

\* What has to hold of the place a client proceeds to.
LEMMA ClientMoves ==
  ASSUME UploadInv, OnlyGrows, NEW r \in Requests, client[r] # None,
         NEW at \in {"chunk", "manifest", "compose", "blob"},
         NEW next \in 1..(Len(FileOf(r)) + 1), NEW got \in Seq(STRING),
         Proceed(r, at, next, got),
         at \in {"chunk", "manifest"} => got = << >>,
         at \in {"compose", "blob"} =>
           Len(got) = next - 1 /\ AsRead(r, got)',
         at = "blob" => next = Len(FileOf(r)) + 1,
         \A i \in 1..Len(FileOf(r)) :
           (at # "chunk" \/ i < next) => Recorded(Chunk(r, i))' /\ Exists(Chunk(r, i))'
  PROVE  /\ ClientFits(r)'
         /\ client' \in [Requests -> Client \cup {None}]
         /\ client'[r] # None
         /\ client'[r].at = at /\ client'[r].missing = client[r].missing
         /\ client'[r].next = next /\ client'[r].got = got
         /\ \A q \in Requests \ {r} : client'[q] = client[q]
<1>0. load \in Workloads /\ load' = load /\ FileOf(r)' = FileOf(r) /\ ChunksOf(r)' = ChunksOf(r)
      /\ (\A i : Chunk(r, i)' = Chunk(r, i)) /\ UploadType /\ next \in Nat /\ Len(FileOf(r)) \in Nat
      /\ \A i \in 1..Len(FileOf(r)) : Chunk(r, i) \in Contents
  BY FileFacts DEF OnlyGrows, FileOf, ChunksOf, Chunk, UploadInv, UploadType
<1>1. /\ client' \in [Requests -> Client \cup {None}]
      /\ client'[r] # None
      /\ client'[r].at = at /\ client'[r].missing = client[r].missing
      /\ client'[r].next = next /\ client'[r].got = got
      /\ \A q \in Requests \ {r} : client'[q] = client[q]
  BY <1>0, ProceedFacts
<1>2. ~load.direct[r] /\ client[r].missing \subseteq ChunksOf(r)
      /\ \A i \in 1..Len(FileOf(r)) : Chunk(r, i) \notin client[r].missing => Recorded(Chunk(r, i))
  BY DEF UploadInv, ClientFits
<1>3. \A i \in 1..Len(FileOf(r)) : Chunk(r, i) \notin client[r].missing => Recorded(Chunk(r, i))'
  <2>1. ASSUME NEW i \in 1..Len(FileOf(r)), NEW x, x = Chunk(r, i), x \notin client[r].missing
        PROVE  Recorded(x)'
    BY <2>1, <1>0, <1>2, RecordedGrows
  <2>. QED BY <2>1, <1>0 DEF Recorded, Exists
<1>4. at \in {"compose", "blob"} => AsRead(r, client[r].got)'
  BY <1>1 DEF AsRead
<1>5. ClientFits(r)'
  BY <1>0, <1>1, <1>2, <1>3, <1>4 DEF ClientFits
<1>. QED BY <1>1, <1>5

\* The next chunk: what lies before it is recorded and stored.
LEMMA ClientMovesToChunk ==
  ASSUME UploadInv, OnlyGrows, NEW r \in Requests, client[r] # None,
         NEW next \in 1..(Len(FileOf(r)) + 1),
         Proceed(r, "chunk", next, << >>),
         \A i \in 1..Len(FileOf(r)) : i < next => Recorded(Chunk(r, i))' /\ Exists(Chunk(r, i))'
  PROVE  /\ ClientFits(r)'
         /\ client' \in [Requests -> Client \cup {None}]
         /\ client'[r].at = "chunk"
         /\ \A q \in Requests \ {r} : client'[q] = client[q]
<1>1. << >> \in Seq(STRING)
  OBVIOUS
<1>. QED BY <1>1, ClientMoves

\* The steps after the chunks: every chunk is recorded and stored.
LEMMA ClientMovesOn ==
  ASSUME UploadInv, OnlyGrows, NEW r \in Requests, client[r] # None,
         NEW at \in {"manifest", "compose", "blob"},
         NEW next \in 1..(Len(FileOf(r)) + 1), NEW got \in Seq(STRING),
         Proceed(r, at, next, got),
         at = "manifest" => got = << >>,
         at \in {"compose", "blob"} =>
           Len(got) = next - 1 /\ AsRead(r, got)',
         at = "blob" => next = Len(FileOf(r)) + 1,
         \A i \in 1..Len(FileOf(r)) : Recorded(Chunk(r, i))' /\ Exists(Chunk(r, i))'
  PROVE  /\ ClientFits(r)'
         /\ client' \in [Requests -> Client \cup {None}]
         /\ client'[r] # None /\ client'[r].at = at /\ client'[r].got = got
         /\ \A q \in Requests \ {r} : client'[q] = client[q]
<1>1. /\ at \in {"chunk", "manifest", "compose", "blob"}
      /\ at \in {"chunk", "manifest"} => got = << >>
  OBVIOUS
<1>2. \A i \in 1..Len(FileOf(r)) :
        (at # "chunk" \/ i < next) => Recorded(Chunk(r, i))' /\ Exists(Chunk(r, i))'
  OBVIOUS
<1>3. /\ ClientFits(r)'
      /\ client' \in [Requests -> Client \cup {None}]
      /\ client'[r] # None
      /\ client'[r].at = at /\ client'[r].got = got
  BY <1>1, <1>2, ClientMoves
<1>4. \A q \in Requests \ {r} : client'[q] = client[q]
  BY <1>1, <1>2, ClientMoves
<1>. QED BY <1>3, <1>4

\* What a client is known to have: its place, what is behind it, and its types.
LEMMA ClientFacts ==
  ASSUME UploadInv, NEW r \in Requests, client[r] # None
  PROVE  /\ client[r] \in Client /\ client[r].got \in Seq(STRING) /\ client[r].next \in Nat
         /\ client[r].next \in 1..(Len(FileOf(r)) + 1)
         /\ load \in Workloads /\ ~load.direct[r]
         /\ FileOf(r) \in Contents /\ FileOf(r) \in Seq(STRING) /\ Len(FileOf(r)) \in Nat \ {0}
         /\ \A i \in 1..Len(FileOf(r)) : Chunk(r, i) \in Contents
BY FileFacts DEF UploadInv, UploadType, ClientFits, Client

\* A chunk that is not missing is skipped.
LEMMA SkipChunkKeeps ==
  ASSUME StorageInv, UploadInv, NEW r \in Requests, SkipChunk(r)
  PROVE  StorageKept /\ UploadInv'
<1>0. /\ client[r] # None /\ client[r].at = "chunk" /\ client[r].next <= Len(FileOf(r))
      /\ Chunk(r, client[r].next) \notin client[r].missing
      /\ Proceed(r, "chunk", client[r].next + 1, client[r].got)
      /\ UNCHANGED <<load, chunkRows, manifestRows, answer, failures>>
  BY DEF SkipChunk, IsAt, NextChunk
<1>1. StorageKept /\ store' = store /\ shared' = shared /\ \A x \in Contents : Exists(x)' = Exists(x)
  BY StorageUnchanged DEF SkipChunk
<1>2. OnlyGrows
  BY <1>0, <1>1 DEF OnlyGrows
<1>3. PICK n, got : n = client[r].next /\ got = client[r].got
  OBVIOUS
<1>4. n \in 1..Len(FileOf(r)) /\ n + 1 \in 1..(Len(FileOf(r)) + 1) /\ got = << >> /\ got \in Seq(STRING)
      /\ Recorded(Chunk(r, n))
  BY <1>0, <1>3, ClientFacts DEF UploadInv, ClientFits
<1>5. \A i \in 1..Len(FileOf(r)) : i < n + 1 => Recorded(Chunk(r, i)) /\ Exists(Chunk(r, i))
  <2>1. \A x \in Contents : Recorded(x) => Exists(x)
    BY DEF UploadInv, RowsExist, Recorded
  <2>2. \A i \in 1..Len(FileOf(r)) : Chunk(r, i) \in Contents
    BY <1>0, ClientFacts
  <2>3. \A i \in 1..Len(FileOf(r)) : i < n => Recorded(Chunk(r, i))
    BY <1>0, <1>3 DEF UploadInv, ClientFits
  <2>4. \A i \in 1..Len(FileOf(r)) : i < n + 1 => i < n \/ i = n
    BY <1>4, <1>0, ClientFacts
  <2>. QED BY <2>1, <2>2, <2>3, <2>4, <1>4
<1>6. \A i \in 1..Len(FileOf(r)) : i < n + 1 => Recorded(Chunk(r, i))' /\ Exists(Chunk(r, i))'
  <2>1. object' = object
    BY DEF SkipChunk, storageVars
  <2>. QED BY <2>1, <1>0, <1>5 DEF Recorded, Exists, Chunk, FileOf
<1>7. /\ ClientFits(r)' /\ client' \in [Requests -> Client \cup {None}]
      /\ client'[r].at = "chunk" /\ \A q \in Requests \ {r} : client'[q] = client[q]
  <2>1. Proceed(r, "chunk", n + 1, << >>) /\ client[r] # None
    BY <1>0, <1>3, <1>4
  <2>. QED BY <2>1, <1>2, <1>4, <1>6, ClientMovesToChunk
<1>8. store[r] = None
  BY <1>0, ClientFacts DEF UploadInv, StoreFits
<1>9. StoreFits(r)'
  BY <1>1, <1>8 DEF StoreFits
<1>10. UploadType' /\ RowsExist'
  BY <1>0, <1>1, <1>7 DEF UploadInv, UploadType, RowsExist
<1>11. AnswerFits(r)'
  BY <1>0, <1>2, AnswerKept
<1>. QED BY <1>0, <1>1, <1>2, <1>7, <1>9, <1>10, <1>11, OneRequestKeeps

\* A chunk that is missing begins to be stored.
LEMMA UploadChunkKeeps ==
  ASSUME StorageInv, UploadInv, NEW r \in Requests, UploadChunk(r)
  PROVE  StorageKept /\ UploadInv'
<1>0. /\ client[r] # None /\ client[r].at = "chunk" /\ client[r].next <= Len(FileOf(r))
      /\ Chunk(r, client[r].next) \in client[r].missing
      /\ BeginStore(r, Chunk(r, client[r].next))
      /\ UNCHANGED <<load, chunkRows, manifestRows, client, answer, failures>>
  BY DEF UploadChunk, IsAt, uploadVars
<1>1. PICK c \in Contents : c = Chunk(r, client[r].next)
  BY <1>0, ClientFacts
<1>2. /\ store'[r] # None /\ store'[r].content = c /\ StorageKept
      /\ \A q \in Requests \ {r} : store'[q] = store[q]
      /\ (\A x \in Contents : Exists(x)' = Exists(x)) /\ shared \subseteq shared'
  BY <1>0, <1>1, BeginStoreFacts, BeginStoreKeeps DEF StorageInv
<1>3. OnlyGrows /\ UploadType' /\ RowsExist'
  BY <1>0, <1>2 DEF OnlyGrows, UploadInv, UploadType, RowsExist
<1>4. StoreFits(r)'
  <2>1. FileOf(r)' = FileOf(r) /\ Chunk(r, client[r].next)' = c /\ ~load'.direct[r]
    BY <1>0, <1>1, ClientFacts DEF FileOf, Chunk
  <2>. QED BY <2>1, <1>0, <1>1, <1>2 DEF StoreFits
<1>5. ClientFits(r)'
  <2>1. object' = object
    BY <1>0 DEF BeginStore
  <2>2. ClientFits(r) /\ UNCHANGED <<load, chunkRows, client, object>>
    BY <2>1, <1>0 DEF UploadInv
  <2>. QED BY <2>2, <1>0 DEF ClientFits, FileOf, ChunksOf, Chunk, Recorded, Exists
<1>6. AnswerFits(r)'
  BY <1>0, <1>3, AnswerKept
<1>. QED BY <1>0, <1>2, <1>3, <1>4, <1>5, <1>6, OneRequestKeeps

\* A chunk that is stored is recorded, whoever wrote it.
LEMMA RecordChunkKeeps ==
  ASSUME StorageInv, UploadInv, NEW r \in Requests, RecordChunk(r)
  PROVE  StorageKept /\ UploadInv'
<1>0. /\ client[r] # None /\ client[r].at = "chunk" /\ Stores(r, "stored") /\ Consume(r)
      /\ Proceed(r, "chunk", client[r].next + 1, client[r].got)
      /\ chunkRows' = IF load.database THEN chunkRows \cup {store[r].content} ELSE chunkRows
      /\ UNCHANGED <<load, manifestRows, answer, failures, object, shared>>
  BY DEF RecordChunk, IsAt, NextChunk, Consume
<1>1. PICK n, got, c : n = client[r].next /\ got = client[r].got /\ c = store[r].content
  OBVIOUS
<1>2. /\ store'[r] = None /\ (\A q \in Requests \ {r} : store'[q] = store[q]) /\ StorageKept
      /\ (\A x \in Contents : Exists(x)' = Exists(x))
      /\ store[r] # None /\ c \in Contents /\ Exists(c)
  BY <1>0, <1>1, ConsumeFacts, ConsumeKeeps
<1>3. OnlyGrows
  BY <1>0, <1>2 DEF OnlyGrows
<1>4. n \in 1..Len(FileOf(r)) /\ n + 1 \in 1..(Len(FileOf(r)) + 1) /\ got = << >> /\ got \in Seq(STRING)
      /\ c = Chunk(r, n)
  BY <1>0, <1>1, <1>2, ClientFacts DEF UploadInv, ClientFits, StoreFits
<1>5. \A i \in 1..Len(FileOf(r)) : i < n + 1 => Recorded(Chunk(r, i))' /\ Exists(Chunk(r, i))'
  <2>1. UNCHANGED <<load, object>> /\ chunkRows \subseteq chunkRows' /\ (load.database => c \in chunkRows')
    BY <1>0, <1>1
  <2>2. \A i \in 1..Len(FileOf(r)) : i < n => Recorded(Chunk(r, i)) /\ Exists(Chunk(r, i))
    BY <1>0, <1>1 DEF UploadInv, ClientFits
  <2>3. \A i \in 1..Len(FileOf(r)) : i < n + 1 => i < n \/ Chunk(r, i) = c
    BY <1>4, <1>0, ClientFacts
  <2>. QED BY <2>1, <2>2, <2>3, <1>2 DEF Recorded, Exists, Chunk, FileOf
<1>6. /\ ClientFits(r)' /\ client' \in [Requests -> Client \cup {None}]
      /\ \A q \in Requests \ {r} : client'[q] = client[q]
  <2>1. Proceed(r, "chunk", n + 1, << >>) /\ client[r] # None
    BY <1>0, <1>1, <1>4
  <2>. QED BY <2>1, <1>3, <1>4, <1>5, ClientMovesToChunk
<1>7. StoreFits(r)'
  BY <1>2 DEF StoreFits
<1>8. UploadType' /\ RowsExist'
  <2>1. chunkRows' \subseteq chunkRows \cup {c}
    BY <1>0, <1>1
  <2>. QED BY <2>1, <1>0, <1>2, <1>6 DEF UploadInv, UploadType, RowsExist, Exists
<1>9. AnswerFits(r)'
  BY <1>0, <1>3, AnswerKept
<1>. QED BY <1>0, <1>2, <1>3, <1>6, <1>7, <1>8, <1>9, OneRequestKeeps

\* The manifest begins to be stored when every chunk is recorded.
LEMMA CreateManifestKeeps ==
  ASSUME StorageInv, UploadInv, NEW r \in Requests, CreateManifest(r)
  PROVE  StorageKept /\ UploadInv'
<1>0. /\ client[r] # None /\ client[r].at = "chunk" /\ client[r].next > Len(FileOf(r))
      /\ BeginStore(r, ManifestOf(r))
      /\ Proceed(r, "manifest", client[r].next, client[r].got)
      /\ UNCHANGED <<load, chunkRows, manifestRows, answer, failures, object>>
  BY DEF CreateManifest, IsAt, BeginStore
<1>1. PICK n, got : n = client[r].next /\ got = client[r].got
  OBVIOUS
<1>2. /\ store'[r] # None /\ store'[r].content = ManifestOf(r) /\ StorageKept
      /\ \A q \in Requests \ {r} : store'[q] = store[q]
      /\ (\A x \in Contents : Exists(x)' = Exists(x)) /\ shared \subseteq shared'
  <2>1. ManifestOf(r) \in Contents
    BY <1>0, ClientFacts, FileFacts
  <2>. QED BY <2>1, <1>0, BeginStoreFacts, BeginStoreKeeps DEF StorageInv
<1>3. OnlyGrows
  BY <1>0, <1>2 DEF OnlyGrows
<1>4. n = Len(FileOf(r)) + 1 /\ n \in 1..(Len(FileOf(r)) + 1) /\ got = << >> /\ got \in Seq(STRING)
  BY <1>0, <1>1, ClientFacts DEF UploadInv, ClientFits
<1>5. \A i \in 1..Len(FileOf(r)) : Recorded(Chunk(r, i))' /\ Exists(Chunk(r, i))'
  <2>1. \A i \in 1..Len(FileOf(r)) : i < n
    BY <1>4, <1>0, ClientFacts
  <2>2. \A i \in 1..Len(FileOf(r)) : Recorded(Chunk(r, i)) /\ Exists(Chunk(r, i))
    BY <2>1, <1>0, <1>1 DEF UploadInv, ClientFits
  <2>. QED BY <2>2, <1>0 DEF Recorded, Exists, Chunk, FileOf
<1>6. /\ ClientFits(r)' /\ client' \in [Requests -> Client \cup {None}]
      /\ client'[r].at = "manifest" /\ client'[r] # None
      /\ \A q \in Requests \ {r} : client'[q] = client[q]
  <2>1. Proceed(r, "manifest", n, got) /\ client[r] # None
    BY <1>0, <1>1
  <2>. QED BY <2>1, <1>3, <1>4, <1>5, ClientMovesOn
<1>7. StoreFits(r)'
  <2>1. ManifestOf(r)' = ManifestOf(r) /\ ~load'.direct[r]
    BY <1>0, ClientFacts DEF ManifestOf, FileOf
  <2>. QED BY <2>1, <1>2, <1>6 DEF StoreFits
<1>8. UploadType' /\ RowsExist'
  BY <1>0, <1>2, <1>6 DEF UploadInv, UploadType, RowsExist, Exists
<1>9. AnswerFits(r)'
  BY <1>0, <1>3, AnswerKept
<1>. QED BY <1>0, <1>2, <1>3, <1>6, <1>7, <1>8, <1>9, OneRequestKeeps

\* The manifest is stored, and the client has the file composed.
LEMMA RecordManifestKeeps ==
  ASSUME StorageInv, UploadInv, NEW r \in Requests, RecordManifest(r)
  PROVE  StorageKept /\ UploadInv'
<1>0. /\ client[r] # None /\ client[r].at = "manifest" /\ Stores(r, "stored") /\ Consume(r)
      /\ Proceed(r, "compose", 1, client[r].got)
      /\ manifestRows' \subseteq manifestRows \cup {store[r].content}
      /\ UNCHANGED <<load, chunkRows, answer, failures, object, shared>>
  BY DEF RecordManifest, IsAt, Consume
<1>1. PICK got : got = client[r].got
  OBVIOUS
<1>2. /\ store'[r] = None /\ (\A q \in Requests \ {r} : store'[q] = store[q]) /\ StorageKept
      /\ (\A x \in Contents : Exists(x)' = Exists(x)) /\ store[r].content \in Contents
  BY <1>0, <1>1, ConsumeFacts, ConsumeKeeps
<1>3. OnlyGrows
  BY <1>0, <1>2 DEF OnlyGrows
<1>4. got = << >> /\ got \in Seq(STRING) /\ 1 \in 1..(Len(FileOf(r)) + 1) /\ Len(got) = 0
  BY <1>0, <1>1, ClientFacts DEF UploadInv, ClientFits
<1>5. \A i \in 1..Len(FileOf(r)) : Recorded(Chunk(r, i))' /\ Exists(Chunk(r, i))'
  <2>1. \A i \in 1..Len(FileOf(r)) : Recorded(Chunk(r, i)) /\ Exists(Chunk(r, i))
    BY <1>0 DEF UploadInv, ClientFits
  <2>. QED BY <2>1, <1>0 DEF Recorded, Exists, Chunk, FileOf
<1>6. /\ ClientFits(r)' /\ client' \in [Requests -> Client \cup {None}]
      /\ \A q \in Requests \ {r} : client'[q] = client[q]
  <2>1. PICK none \in Seq(STRING) : none = client[r].got /\ none = << >>
    BY <1>1, <1>4
  <2>2. Len(none) = 1 - 1 /\ AsRead(r, none)'
    BY <2>1 DEF AsRead
  <2>3. Proceed(r, "compose", 1, none)
    BY <2>1, <1>0
  <2>4. client[r] # None /\ 1 \in 1..(Len(FileOf(r)) + 1)
    BY <1>0, <1>4
  <2>. QED BY <2>1, <2>2, <2>3, <2>4, <1>3, <1>5, ClientMovesOn
<1>7. StoreFits(r)'
  BY <1>2 DEF StoreFits
<1>8. UploadType' /\ RowsExist'
  BY <1>0, <1>2, <1>6 DEF UploadInv, UploadType, RowsExist, Exists
<1>9. AnswerFits(r)'
  BY <1>0, <1>3, AnswerKept
<1>. QED BY <1>0, <1>2, <1>3, <1>6, <1>7, <1>8, <1>9, OneRequestKeeps

\* A sequence with one more element.
LEMMA AppendFacts ==
  ASSUME NEW S, NEW old \in Seq(S), NEW a \in S
  PROVE  /\ old \o <<a>> \in Seq(S) /\ Len(old \o <<a>>) = Len(old) + 1
         /\ (old \o <<a>>)[Len(old) + 1] = a
         /\ \A i \in 1..Len(old) : (old \o <<a>>)[i] = old[i]
<1>1. PICK new : new = Append(old, a)
  OBVIOUS
<1>2. new = old \o <<a>>
  BY <1>1, AppendIsConcat
<1>3. /\ new \in Seq(S) /\ Len(new) = Len(old) + 1
      /\ new[Len(old) + 1] = a /\ \A i \in 1..Len(old) : new[i] = old[i]
  BY <1>1
<1>. QED BY <1>2, <1>3

\* Compose reads the next chunk: as it is, or with a hole if several stored it.
LEMMA ReadOfFacts ==
  ASSUME StorageInv, load \in Workloads, NEW r \in Requests, NEW n \in 1..Len(FileOf(r)),
         IsLong(Chunk(r, n))
  PROVE  \E a \in STRING :
           /\ ReadOf(r, n) = <<a>>
           /\ a = FileOf(r)[n] \/ (a = Holed[FileOf(r)[n]] /\ Chunk(r, n) \in shared)
<1>1. CASE IsWhole(Chunk(r, n))
  <2>1. PICK file \in Seq(STRING) : file = FileOf(r)
    BY FileFacts
  <2>2. FileOf(r)[n] \in STRING
    BY <2>1, ElementOfSeq
  <2>. QED BY <2>2, <1>1 DEF ReadOf, Chunk
<1>2. CASE ~IsWhole(Chunk(r, n))
  <2>1. PICK x \in Contents : x = Chunk(r, n)
    BY FileFacts
  <2>2. x \in shared
    BY <2>1, <1>2 DEF IsLong, StorageInv, UnsharedAreWhole
  <2>3. Holed[FileOf(r)[n]] \in STRING
    BY FilesHaveChunks DEF FileOf
  <2>. QED BY <2>1, <2>2, <2>3, <1>2 DEF ReadOf
<1>. QED BY <1>1, <1>2

\* What compose has read grows by what it reads.
LEMMA ReadChunkKeeps ==
  ASSUME StorageInv, UploadInv, NEW r \in Requests, ReadChunk(r)
  PROVE  StorageKept /\ UploadInv'
<1>0. /\ client[r] # None /\ client[r].at = "compose" /\ client[r].next <= Len(FileOf(r))
      /\ IsLong(Chunk(r, client[r].next))
      /\ Proceed(r, "compose", client[r].next + 1, client[r].got \o ReadOf(r, client[r].next))
      /\ UNCHANGED <<load, chunkRows, manifestRows, answer, failures, object>>
  BY DEF ReadChunk, IsAt, storageVars
<1>1. StorageKept /\ store' = store /\ shared' = shared /\ \A x \in Contents : Exists(x)' = Exists(x)
  BY StorageUnchanged DEF ReadChunk
<1>2. OnlyGrows
  BY <1>0, <1>1 DEF OnlyGrows
<1>3. PICK n, old, got : n = client[r].next /\ old = client[r].got /\ got = old \o ReadOf(r, n)
  OBVIOUS
<1>4. /\ n \in 1..Len(FileOf(r)) /\ n + 1 \in 1..(Len(FileOf(r)) + 1) /\ old \in Seq(STRING)
      /\ Len(old) = n - 1 /\ AsRead(r, old)
  <2>1. n <= Len(FileOf(r)) /\ n \in 1..(Len(FileOf(r)) + 1) /\ Len(FileOf(r)) \in Nat
        /\ old \in Seq(STRING)
    BY <1>0, <1>3, ClientFacts
  <2>2. ClientFits(r)
    BY DEF UploadInv
  <2>3. Len(old) = n - 1 /\ AsRead(r, old)
    BY <2>2, <1>0, <1>3 DEF ClientFits
  <2>. QED BY <2>1, <2>3
<1>5. got \in Seq(STRING) /\ Len(got) = (n + 1) - 1 /\ AsRead(r, got)'
  <2>1. PICK a \in STRING :
          /\ ReadOf(r, n) = <<a>>
          /\ a = FileOf(r)[n] \/ (a = Holed[FileOf(r)[n]] /\ Chunk(r, n) \in shared)
    BY <1>0, <1>3, <1>4, ReadOfFacts DEF UploadInv, UploadType
  <2>2. got = old \o <<a>>
    BY <1>3, <2>1
  <2>3. got \in Seq(STRING) /\ Len(got) = Len(old) + 1 /\ got[Len(old) + 1] = a
        /\ \A i \in 1..Len(old) : got[i] = old[i]
    <3>1. PICK S : S = STRING
      OBVIOUS
    <3>2. old \in Seq(S) /\ a \in S
      BY <2>1, <1>4, <3>1
    <3>3. /\ old \o <<a>> \in Seq(S) /\ Len(old \o <<a>>) = Len(old) + 1
          /\ (old \o <<a>>)[Len(old) + 1] = a
          /\ \A i \in 1..Len(old) : (old \o <<a>>)[i] = old[i]
      BY <3>2, AppendFacts
    <3>. QED BY <2>2, <3>1, <3>3
  <2>4. \A i \in 1..Len(got) : i \in 1..Len(old) \/ i = n
    BY <2>3, <1>4
  <2>5. AsRead(r, got)
    <3>1. ASSUME NEW i \in 1..Len(old)
          PROVE  got[i] = FileOf(r)[i] \/ (got[i] = Holed[FileOf(r)[i]] /\ Chunk(r, i) \in shared)
      BY <2>3, <1>4 DEF AsRead
    <3>2. got[n] = a
      BY <2>3, <1>4
    <3>. QED BY <2>1, <2>4, <3>1, <3>2 DEF AsRead
  <2>. QED BY <2>3, <2>5, <1>2, <1>4, AsReadGrows
<1>6. \A i \in 1..Len(FileOf(r)) : Recorded(Chunk(r, i))' /\ Exists(Chunk(r, i))'
  <2>1. \A i \in 1..Len(FileOf(r)) : Recorded(Chunk(r, i)) /\ Exists(Chunk(r, i))
    BY <1>0 DEF UploadInv, ClientFits
  <2>. QED BY <2>1, <1>0 DEF Recorded, Exists, Chunk, FileOf
<1>7. /\ ClientFits(r)' /\ client' \in [Requests -> Client \cup {None}]
      /\ \A q \in Requests \ {r} : client'[q] = client[q]
  <2>1. Proceed(r, "compose", n + 1, got) /\ client[r] # None /\ n + 1 \in 1..(Len(FileOf(r)) + 1)
    BY <1>0, <1>3, <1>4
  <2>. QED BY <2>1, <1>2, <1>5, <1>6, ClientMovesOn
<1>8. StoreFits(r)'
  <2>1. store[r] = None
    BY <1>0, ClientFacts DEF UploadInv, StoreFits
  <2>. QED BY <2>1, <1>1 DEF StoreFits
<1>9. UploadType' /\ RowsExist'
  BY <1>0, <1>7 DEF UploadInv, UploadType, RowsExist, Exists
<1>10. AnswerFits(r)'
  BY <1>0, <1>2, AnswerKept
<1>. QED BY <1>0, <1>1, <1>2, <1>7, <1>8, <1>9, <1>10, OneRequestKeeps

\* What compose may have read of a file is a content.
LEMMA ReadingIsContent ==
  ASSUME load \in Workloads, NEW r \in Requests, NEW got \in Seq(STRING),
         Len(got) = Len(FileOf(r)), AsRead(r, got)
  PROVE  got \in Contents
<1>1. PICK file \in Seq(STRING) : file = FileOf(r) /\ file = load.file[r]
  BY FileFacts DEF FileOf
<1>2. PICK holes \in SUBSET (1..Len(file)) : holes = {i \in 1..Len(file) : got[i] # file[i]}
  OBVIOUS
<1>3. PICK reading : reading = [i \in 1..Len(file) |-> IF i \in holes THEN Holed[file[i]] ELSE file[i]]
  OBVIOUS
<1>4. reading \in Contents
  <2>1. \A h \in SUBSET (1..Len(file)) :
          [i \in 1..Len(file) |-> IF i \in h THEN Holed[file[i]] ELSE file[i]] \in Contents
    BY <1>1, ReadingsAreContents
  <2>. QED BY <2>1, <1>3
<1>5. \A i \in 1..Len(file) : got[i] = reading[i]
  BY <1>1, <1>2, <1>3 DEF AsRead
<1>6. reading = [i \in 1..Len(file) |-> reading[i]] /\ got = [i \in 1..Len(file) |-> got[i]]
  BY <1>1, <1>3
<1>7. got = reading
  BY <1>5, <1>6
<1>. QED BY <1>4, <1>7

\* What was composed is as long as the file, and begins to be stored.
LEMMA ComposeKeeps ==
  ASSUME StorageInv, UploadInv, NEW r \in Requests, Compose(r)
  PROVE  StorageKept /\ UploadInv'
<1>0. /\ client[r] # None /\ client[r].at = "compose" /\ client[r].next > Len(FileOf(r))
      /\ BeginStore(r, client[r].got)
      /\ Proceed(r, "blob", client[r].next, client[r].got)
      /\ UNCHANGED <<load, chunkRows, manifestRows, answer, failures, object>>
  BY DEF Compose, IsAt, BeginStore
<1>1. PICK n, got : n = client[r].next /\ got = client[r].got
  OBVIOUS
<1>2. n = Len(FileOf(r)) + 1 /\ n \in 1..(Len(FileOf(r)) + 1) /\ got \in Seq(STRING)
      /\ Len(got) = n - 1 /\ Len(got) = Len(FileOf(r)) /\ AsRead(r, got)
  <2>1. /\ n > Len(FileOf(r)) /\ n \in 1..(Len(FileOf(r)) + 1) /\ Len(FileOf(r)) \in Nat
        /\ got \in Seq(STRING)
    BY <1>0, <1>1, ClientFacts
  <2>2. ClientFits(r)
    BY DEF UploadInv
  <2>3. Len(got) = n - 1 /\ AsRead(r, got)
    BY <2>2, <1>0, <1>1 DEF ClientFits
  <2>4. n = Len(FileOf(r)) + 1
    BY <2>1
  <2>. QED BY <2>1, <2>3, <2>4
<1>3. got \in Contents
  BY <1>2, ReadingIsContent DEF UploadInv, UploadType
<1>4. /\ store'[r] # None /\ store'[r].content = got /\ StorageKept
      /\ \A q \in Requests \ {r} : store'[q] = store[q]
      /\ (\A x \in Contents : Exists(x)' = Exists(x)) /\ shared \subseteq shared'
  BY <1>0, <1>1, <1>3, BeginStoreFacts, BeginStoreKeeps DEF StorageInv
<1>5. OnlyGrows
  BY <1>0, <1>4 DEF OnlyGrows
<1>6. \A i \in 1..Len(FileOf(r)) : Recorded(Chunk(r, i))' /\ Exists(Chunk(r, i))'
  <2>1. \A i \in 1..Len(FileOf(r)) : Recorded(Chunk(r, i)) /\ Exists(Chunk(r, i))
    BY <1>0 DEF UploadInv, ClientFits
  <2>. QED BY <2>1, <1>0 DEF Recorded, Exists, Chunk, FileOf
<1>7. /\ ClientFits(r)' /\ client' \in [Requests -> Client \cup {None}]
      /\ client'[r].at = "blob" /\ client'[r] # None /\ client'[r].got = got
      /\ \A q \in Requests \ {r} : client'[q] = client[q]
  <2>1. Proceed(r, "blob", n, got) /\ client[r] # None /\ AsRead(r, got)'
    BY <1>0, <1>1, <1>2, <1>5, AsReadGrows
  <2>. QED BY <2>1, <1>2, <1>5, <1>6, ClientMovesOn
<1>8. StoreFits(r)'
  <2>1. ~load'.direct[r]
    BY <1>0, ClientFacts
  <2>. QED BY <2>1, <1>4, <1>7 DEF StoreFits
<1>9. UploadType' /\ RowsExist'
  BY <1>0, <1>7 DEF UploadInv, UploadType, RowsExist, Exists
<1>10. AnswerFits(r)'
  BY <1>0, <1>5, AnswerKept
<1>. QED BY <1>0, <1>4, <1>5, <1>7, <1>8, <1>9, <1>10, OneRequestKeeps

\* The composed file is stored, and its name is the answer.
LEMMA AnswerComposeKeeps ==
  ASSUME StorageInv, UploadInv, NEW r \in Requests, AnswerCompose(r)
  PROVE  StorageKept /\ UploadInv'
<1>0. /\ client[r] # None /\ client[r].at = "blob" /\ Stores(r, "stored") /\ Consume(r)
      /\ answer' = [answer EXCEPT ![r] = store[r].content]
      /\ client' = [client EXCEPT ![r] = None]
      /\ UNCHANGED <<load, chunkRows, manifestRows, failures, object, shared>>
  BY DEF AnswerCompose, IsAt, Consume
<1>1. PICK c : c = store[r].content
  OBVIOUS
<1>2. /\ store'[r] = None /\ (\A q \in Requests \ {r} : store'[q] = store[q]) /\ StorageKept
      /\ (\A x \in Contents : Exists(x)' = Exists(x)) /\ c \in Contents /\ Exists(c)
      /\ store[r] # None
  BY <1>0, <1>1, ConsumeFacts, ConsumeKeeps
<1>3. Len(c) = Len(FileOf(r)) /\ AsRead(r, c)
  <2>1. c = client[r].got /\ client[r].next = Len(FileOf(r)) + 1 /\ Len(FileOf(r)) \in Nat
    BY <1>0, <1>1, <1>2, ClientFacts DEF UploadInv, StoreFits, ClientFits
  <2>2. Len(client[r].got) = client[r].next - 1 /\ AsRead(r, client[r].got)
    BY <1>0 DEF UploadInv, ClientFits
  <2>. QED BY <2>1, <2>2
<1>4. OnlyGrows
  BY <1>0, <1>2 DEF OnlyGrows
<1>5. /\ client' \in [Requests -> Client \cup {None}] /\ client'[r] = None
      /\ \A q \in Requests \ {r} : client'[q] = client[q]
      /\ answer' \in [Requests -> Contents \cup {None}] /\ answer'[r] = c
      /\ \A q \in Requests \ {r} : answer'[q] = answer[q]
  BY <1>0, <1>1, <1>2 DEF UploadInv, UploadType
<1>6. StoreFits(r)' /\ ClientFits(r)'
  BY <1>2, <1>5 DEF StoreFits, ClientFits
<1>7. UploadType' /\ RowsExist'
  BY <1>0, <1>5 DEF UploadInv, UploadType, RowsExist, Exists
<1>8. AnswerFits(r)'
  <2>1. Exists(c)' /\ Len(c) = Len(FileOf(r))' /\ AsRead(r, c)'
    BY <1>0, <1>2, <1>3, <1>4, AsReadGrows DEF FileOf
  <2>. QED BY <2>1, <1>5 DEF AnswerFits, AsRead, Exists
<1>. QED BY <1>2, <1>4, <1>5, <1>6, <1>7, <1>8, OneRequestKeeps

\* A refusal ends the client's upload and leaves the rest.
LEMMA RefuseComposeKeeps ==
  ASSUME StorageInv, UploadInv, NEW r \in Requests, RefuseCompose(r)
  PROVE  StorageKept /\ UploadInv'
<1>0. /\ client[r] # None /\ client[r].at = "compose"
      /\ client' = [client EXCEPT ![r] = None]
      /\ UNCHANGED <<load, chunkRows, manifestRows, answer, failures, object>>
  BY DEF RefuseCompose, IsAt, storageVars
<1>1. StorageKept /\ store' = store /\ shared' = shared /\ \A x \in Contents : Exists(x)' = Exists(x)
  BY StorageUnchanged DEF RefuseCompose
<1>2. store[r] = None
  BY <1>0, ClientFacts DEF UploadInv, StoreFits
<1>3. /\ client' \in [Requests -> Client \cup {None}] /\ client'[r] = None
      /\ \A q \in Requests \ {r} : client'[q] = client[q]
  BY <1>0 DEF UploadInv, UploadType
<1>4. StoreFits(r)' /\ ClientFits(r)'
  BY <1>1, <1>2, <1>3 DEF StoreFits, ClientFits
<1>5. UploadType' /\ RowsExist' /\ OnlyGrows
  BY <1>0, <1>1, <1>3 DEF UploadInv, UploadType, RowsExist, Exists, OnlyGrows
<1>6. AnswerFits(r)'
  BY <1>0, <1>5, AnswerKept
<1>. QED BY <1>0, <1>1, <1>3, <1>4, <1>5, <1>6, OneRequestKeeps

\* A request fails, or the server restarts: what is stored and recorded stays.
LEMMA FailuresKeep ==
  ASSUME StorageInv, UploadInv, NEW requests \in SUBSET Requests,
         CutOff(requests), failures < load.failing, failures' = failures + 1,
         client' = [r \in Requests |-> IF r \in requests THEN None ELSE client[r]],
         UNCHANGED <<load, chunkRows, manifestRows, answer>>
  PROVE  IInv'
<1>1. StorageInv'
  BY CutOffKeeps
<1>2. /\ UNCHANGED <<object, shared>> /\ \A x \in Contents : Exists(x)' = Exists(x)
      /\ \A q \in Requests : store'[q] = IF q \in requests THEN None ELSE store[q]
      /\ \A q \in Requests : client'[q] = IF q \in requests THEN None ELSE client[q]
      /\ client' \in [Requests -> Client \cup {None}]
  BY DEF CutOff, Exists, UploadInv, UploadType
<1>3. load.failing \in Nat /\ failures \in 0..load.failing
  BY FailuresAreCounted DEF UploadInv, UploadType
<1>4. UploadType' /\ RowsExist' /\ OnlyGrows
  BY <1>2, <1>3 DEF UploadInv, UploadType, RowsExist, Exists, OnlyGrows
<1>5. ASSUME NEW q \in Requests PROVE StoreFits(q)' /\ ClientFits(q)' /\ AnswerFits(q)'
  <2>1. CASE q \in requests
    BY <2>1, <1>2, <1>4, AnswerKept DEF StoreFits, ClientFits
  <2>2. CASE q \notin requests
    BY <2>2, <1>2, <1>4, RequestKept, AnswerKept DEF UploadInv, UploadType
  <2>. QED BY <2>1, <2>2
<1>6. failures' # 0
  BY <1>3
<1>. QED BY <1>1, <1>4, <1>5, <1>6 DEF IInv, UploadInv

-----------------------------------------------------------------------------
(* The theorems. *)

\* An empty store and empty tables.
LEMMA IInvInit == Init => IInv
<1> SUFFICES ASSUME Init PROVE IInv
  OBVIOUS
<1>1. StorageInv /\ FilesAreCovered
  BY NoneIsNoValue DEF Init, StorageInit, StorageInv, StorageTypeOK, FilesAreOfOneContent, Belongs,
     TempIsNotObject, WritersHaveWork, WritersAreShared, Writers, LoneWriterFillsTheTemp,
     UnsharedAreWhole, FilesAreCovered, StoredExists, Stores, Exists
<1>2. UploadType /\ RowsExist
  BY FailuresAreCounted DEF Init, UploadType, RowsExist
<1>3. \A r \in Requests : StoreFits(r) /\ ClientFits(r) /\ AnswerFits(r)
  BY DEF Init, StorageInit, StoreFits, ClientFits, AnswerFits
<1>. QED BY <1>1, <1>2, <1>3 DEF IInv, UploadInv

\* No other step fails a request.
LEMMA KeepsWithoutFailure ==
  ASSUME IInv, StorageKept, UploadInv', failures' = failures
  PROVE  IInv'
BY DEF IInv, StorageKept

\* Every step keeps the invariant.
LEMMA IInvNext == IInv /\ [Next]_vars => IInv'
<1> SUFFICES ASSUME IInv, [Next]_vars PROVE IInv'
  OBVIOUS
<1>0. StorageInv /\ UploadInv
  BY DEF IInv
<1>1. CASE UNCHANGED vars
  <2>1. UNCHANGED storageVars /\ failures' = failures
    BY <1>1 DEF vars, uploadVars
  <2>2. /\ UNCHANGED <<load, chunkRows, manifestRows, client, answer, failures>>
        /\ store' = store /\ shared' = shared /\ (\A x \in Contents : Exists(x)' = Exists(x))
        /\ StorageKept
    BY <1>0, <1>1, <2>1, StorageUnchanged DEF vars, uploadVars
  <2>3. OnlyGrows /\ UploadType' /\ RowsExist'
    BY <1>0, <2>2 DEF OnlyGrows, UploadInv, UploadType, RowsExist
  <2>4. \A r \in Requests : StoreFits(r)' /\ ClientFits(r)' /\ AnswerFits(r)'
    BY <1>0, <2>2, <2>3, RequestKept, AnswerKept DEF UploadInv, UploadType
  <2>5. UploadInv'
    BY <2>3, <2>4 DEF UploadInv
  <2>. QED BY <2>2, <2>5, KeepsWithoutFailure
<1>2. ASSUME NEW r \in Requests, FailRequest(r)
      PROVE  IInv'
  <2>1. client' = [q \in Requests |-> IF q \in {r} THEN None ELSE client[q]]
    BY <1>0, <1>2 DEF FailRequest, UploadInv, UploadType
  <2>. QED BY <1>0, <1>2, <2>1, FailuresKeep DEF FailRequest
<1>3. CASE Restart
  <2>1. client' = [q \in Requests |-> IF q \in Requests THEN None ELSE client[q]]
    BY <1>3 DEF Restart
  <2>. QED BY <1>0, <1>3, <2>1, FailuresKeep DEF Restart
<1>4. ASSUME NEW r \in Requests, StoreStep(r), UNCHANGED uploadVars
      PROVE  IInv'
  <2>1. /\ store[r] # None /\ store'[r].content = store[r].content
        /\ \A q \in Requests \ {r} : store'[q] = store[q]
        /\ \A x \in Contents : Exists(x) => Exists(x)'
        /\ UNCHANGED <<load, chunkRows, manifestRows, client, answer, failures, shared>>
    BY <1>0, <1>4, StoreStepFacts DEF uploadVars
  <2>2. OnlyGrows /\ UploadType' /\ RowsExist'
    BY <1>0, <2>1 DEF OnlyGrows, UploadInv, UploadType, RowsExist
  <2>3. StoreFits(r)' /\ ClientFits(r)' /\ AnswerFits(r)'
    BY <1>0, <2>1, <2>2, RequestKept, AnswerKept DEF UploadInv, UploadType
  <2>4. UploadInv'
    BY <1>0, <2>1, <2>2, <2>3, OneRequestKeeps
  <2>. QED BY <1>0, <1>4, <2>1, <2>4, StoreStepKeeps, KeepsWithoutFailure
<1>5. ASSUME NEW r \in Requests,
             \/ BeginDirect(r) \/ AnswerDirect(r) \/ AskMissing(r) \/ SkipChunk(r) \/ UploadChunk(r)
             \/ RecordChunk(r) \/ CreateManifest(r) \/ RecordManifest(r) \/ ReadChunk(r) \/ Compose(r)
             \/ AnswerCompose(r) \/ RefuseCompose(r)
      PROVE  IInv'
  <2>1. StorageKept /\ UploadInv'
    BY <1>0, <1>5, DirectKeeps, AskMissingKeeps, SkipChunkKeeps, UploadChunkKeeps, RecordChunkKeeps,
       CreateManifestKeeps, RecordManifestKeeps, ReadChunkKeeps, ComposeKeeps, AnswerComposeKeeps,
       RefuseComposeKeeps
  <2>2. failures' = failures
    BY <1>5 DEF BeginDirect, AnswerDirect, AskMissing, SkipChunk, UploadChunk, RecordChunk,
       CreateManifest, RecordManifest, ReadChunk, Compose, AnswerCompose, RefuseCompose, uploadVars
  <2>. QED BY <2>1, <2>2, KeepsWithoutFailure
<1>. QED BY <1>1, <1>2, <1>3, <1>4, <1>5 DEF Next

\* The invariant of the store and of the uploads over it.
THEOREM Invariance == Spec => []IInv
BY IInvInit, IInvNext, PTL DEF Spec

\* Every variable of the store and of the uploads keeps its type.
THEOREM TypeCorrect == Spec => []TypeOK
<1>1. ASSUME IInv PROVE TypeOK
  <2>1. StorageTypeOK /\ UploadType /\ \A r \in Requests : ClientFits(r)
    BY <1>1 DEF IInv, StorageInv, UploadInv
  <2>2. ASSUME NEW r \in Requests, client[r] # None
        PROVE  Len(client[r].got) < client[r].next
    <3>1. client[r].next \in Nat \ {0} /\ client[r].got \in Seq(STRING)
          /\ client[r].at \in {"chunk", "manifest", "compose", "blob"}
      BY <1>1, <2>2, ClientFacts DEF IInv, Client
    <3>2. CASE client[r].at \in {"chunk", "manifest"}
      BY <2>1, <2>2, <3>1, <3>2 DEF ClientFits
    <3>3. CASE client[r].at \in {"compose", "blob"}
      BY <2>1, <2>2, <3>1, <3>3 DEF ClientFits
    <3>. QED BY <3>1, <3>2, <3>3
  <2>. QED BY <2>1, <2>2 DEF TypeOK, UploadType, ClientFits
<1>. QED BY <1>1, Invariance, PTL

\* core/storage.rs: an object is whole, whatever failed and restarted, as long as no
\* two requests stored it at the same time; one that several stored is whole when the
\* last of them is done, whoever emptied, renamed or removed the temporary file of
\* whom, as long as no request has failed.
THEOREM ObjectsComeWhole == Spec => []ObjectsBecomeWhole
<1>1. ASSUME IInv PROVE ObjectsBecomeWhole
  <2> SUFFICES ASSUME NEW x \in Contents, Exists(x), ~IsWhole(x)
               PROVE  x \in shared /\ (Writers(x) # {} \/ failures > 0)
    BY DEF ObjectsBecomeWhole
  <2>1. x \in shared
    BY <1>1 DEF IInv, StorageInv, UnsharedAreWhole
  <2>2. CASE failures = 0
    <3>1. WillBeWhole(object[x], x)
      BY <1>1, <2>2 DEF IInv, FilesAreCovered, Covered, Exists, IsWhole
    <3>2. Writers(x) # {}
      BY <3>1 DEF WillBeWhole, Writers, Stores
    <3>. QED BY <2>1, <3>2
  <2>3. CASE failures # 0
    <3>1. failures \in Nat
      BY <1>1, FailuresAreCounted DEF IInv, UploadInv, UploadType
    <3>. QED BY <2>1, <2>3, <3>1
  <2>. QED BY <2>2, <2>3
<1>. QED BY <1>1, Invariance, PTL

\* What a client is told is stored has the length of its file, and the content too but
\* for holes in chunks that several requests stored at the same time.
THEOREM UploadsStayFaithful == Spec => []UploadsAreFaithful
<1>1. ASSUME IInv PROVE UploadsAreFaithful
  <2> SUFFICES ASSUME NEW r \in Requests, answer[r] # None
               PROVE  /\ Exists(answer[r]) /\ Len(answer[r]) = Len(FileOf(r))
                      /\ \A i \in 1..Len(FileOf(r)) :
                           \/ answer[r][i] = FileOf(r)[i]
                           \/ answer[r][i] = Holed[FileOf(r)[i]] /\ Chunk(r, i) \in shared
    BY DEF UploadsAreFaithful
  <2>. QED BY <1>1 DEF IInv, UploadInv, AnswerFits, AsRead
<1>. QED BY <1>1, Invariance, PTL

\* A client that uploaded what it was told is missing finds every chunk recorded
\* and there when it creates the manifest and has the file composed.
THEOREM TheProtocolSuffices == Spec => []ProtocolSuffices
<1>1. IInv => ProtocolSuffices
  BY DEF IInv, UploadInv, ClientFits, ProtocolSuffices
<1>. QED BY <1>1, Invariance, PTL

==============================================================================
