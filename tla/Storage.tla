------------------------------- MODULE Storage -------------------------------
(***************************************************************************)
(* The content addressed store (core/storage.rs).  An object is named by   *)
(* its content; storing one writes a file in temp/ that has the object's   *)
(* name too, and renames it.  Requests that store the same content at the  *)
(* same time therefore write to one file, or to a file that was renamed    *)
(* under their hands: a file is opened by name and written to by handle.   *)
(*                                                                         *)
(* A content is written in parts, each at its place in the file and by a   *)
(* task of its own.  Creating a file empties one that is there, under the  *)
(* hands of who writes to it: its next part leaves a hole before it, and   *)
(* the file has its full length as soon as the last part is there.  A      *)
(* write may fail, and the server may stop; left out are the loss of what  *)
(* was written but not synced, and the part that a request which is given  *)
(* up was about to write.                                                  *)
(***************************************************************************)
EXTENDS Naturals, Sequences

CONSTANTS
  Requests,   \* the requests the server can work on at the same time
  Contents,
  Files,      \* files on the disk
  Parts,      \* how many writes a content takes
  None

ASSUME ContentsAreWritten == Parts \in Nat \ {0}

VARIABLES
  written,  \* file -> the parts that are in it
  temp,     \* content -> the file of that name in temp/, or None
  object,   \* content -> the file of that name in objects/, or None
  store,    \* request -> what it stores and how far it is, or None
  shared    \* ghost: contents that two requests stored at the same time

storageVars == <<written, temp, object, store, shared>>

Store == [content : Contents, file : Files \cup {None}, wrote : 0..Parts,
          at : {"create", "write", "rename", "clean", "stored"}]

ASSUME NoneIsNoValue == None \notin Files /\ None \notin Contents /\ None \notin Store

Exists(content) == object[content] # None
IsWhole(content) == Exists(content) /\ written[object[content]] = 1..Parts

\* An object has the size of its content: all of it may be there, or not.
IsLong(content) == Exists(content) /\ Parts \in written[object[content]]

StorageInit ==
  /\ written = [f \in Files |-> {}]
  /\ temp = [x \in Contents |-> None]
  /\ object = [x \in Contents |-> None]
  /\ store = [r \in Requests |-> None]
  /\ shared = {}

-----------------------------------------------------------------------------

Stores(r, step) == store[r] # None /\ store[r].at = step

\* The requests that are writing a content.
Writers(content) ==
  {r \in Requests : store[r] # None /\ store[r].content = content /\ store[r].at # "stored"}

StoreWith(r, file, wrote, step) ==
  store' = [store EXCEPT ![r] =
    [content |-> store[r].content, file |-> file, wrote |-> wrote, at |-> step]]
StoreAt(r, step) == StoreWith(r, store[r].file, store[r].wrote, step)

\* The first check of store: what exists is not written again.
BeginStore(r, content) ==
  /\ store[r] = None
  /\ store' = [store EXCEPT ![r] =
       [ content |-> content, file |-> None, wrote |-> 0,
         at |-> IF Exists(content) THEN "stored" ELSE "create" ]]
  /\ shared' = IF ~Exists(content) /\ Writers(content) # {} THEN shared \cup {content} ELSE shared
  /\ UNCHANGED <<written, temp, object>>

Unused == Files \ ({temp[x] : x \in Contents} \cup {object[x] : x \in Contents}
                   \cup {store[r].file : r \in {q \in Requests : store[q] # None}})

\* Files are alike: of those that are not in use, any one.
NewFiles == {f \in Unused : f = CHOOSE g \in Unused : TRUE}

\* Mutation: a temporary file that is there is taken for that of a writer at work.
TrustTemp(r) ==
  LET x == store[r].content IN
  /\ Stores(r, "create")
  /\ IF temp[x] # None
     THEN StoreAt(r, "rename") /\ UNCHANGED <<temp, written>>
     ELSE \E file \in NewFiles :
       /\ temp' = [temp EXCEPT ![x] = file]
       /\ written' = [written EXCEPT ![file] = {}]
       /\ StoreWith(r, file, 0, "write")
  /\ UNCHANGED <<object, shared>>

\* File::create: a new file, or the one that is there, emptied.
CreateTemp(r) ==
  LET x == store[r].content IN
  /\ Stores(r, "create")
  /\ \E file \in IF temp[x] # None THEN {temp[x]} ELSE NewFiles :
       /\ temp' = [temp EXCEPT ![x] = file]
       /\ written' = [written EXCEPT ![file] = {}]
       /\ StoreWith(r, file, 0, "write")
  /\ UNCHANGED <<object, shared>>

\* write_all, and sync_all after the last part.
WritePart(r) ==
  LET part == store[r].wrote + 1 IN
  /\ Stores(r, "write")
  /\ written' = [written EXCEPT ![store[r].file] = written[store[r].file] \cup {part}]
  /\ StoreWith(r, store[r].file, part, IF part = Parts THEN "rename" ELSE "write")
  /\ UNCHANGED <<temp, object, shared>>

\* Whatever file has the name by now is moved, over an object that is there; if
\* there is none, another request has moved it.
Rename(r) ==
  LET x == store[r].content IN
  /\ Stores(r, "rename")
  /\ IF temp[x] = None THEN StoreAt(r, "clean") /\ UNCHANGED <<temp, object>>
     ELSE /\ object' = [object EXCEPT ![x] = temp[x]]
          /\ temp' = [temp EXCEPT ![x] = None]
          /\ StoreAt(r, "stored")
  /\ UNCHANGED <<written, shared>>

\* The object exists: the file in temp/ is removed, if somebody created one since.
CleanTemp(r) ==
  /\ Stores(r, "clean")
  /\ Exists(store[r].content)
  /\ temp' = [temp EXCEPT ![store[r].content] = None]
  /\ StoreAt(r, "stored")
  /\ UNCHANGED <<written, object, shared>>

StoreStep(r) == CreateTemp(r) \/ WritePart(r) \/ Rename(r) \/ CleanTemp(r)

\* What requests leave behind that end before their content is stored.
CutOff(requests) ==
  /\ store' = [r \in Requests |-> IF r \in requests THEN None ELSE store[r]]
  /\ UNCHANGED <<written, temp, object, shared>>

-----------------------------------------------------------------------------
(* Properties. *)

StorageTypeOK ==
  /\ written \in [Files -> SUBSET (1..Parts)]
  /\ temp \in [Contents -> Files \cup {None}]
  /\ object \in [Contents -> Files \cup {None}]
  /\ store \in [Requests -> Store \cup {None}]
  /\ shared \subseteq Contents

\* What nobody is writing is there in full, once it is there (core/storage.rs,
\* "Write file atomically").  It does not hold when one of several writers fails.
ObjectsAreWhole == \A x \in Contents : Exists(x) /\ Writers(x) = {} => IsWhole(x)
==============================================================================
