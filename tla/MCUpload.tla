------------------------------- MODULE MCUpload -------------------------------
(* Model checking of Upload and Storage: files of at most two chunks, sent as  *)
(* they are and in chunks.                                                     *)
EXTENDS Upload, TLC

CONSTANTS r1, r2, r3

Short == <<"a">>
Twice == <<"a", "a">>
Both == <<"a", "b">>

HoledChunks == [a |-> "a with a hole", b |-> "b with a hole"]

\* What can be composed of a file.
Readings(file) == [1..Len(file) -> {"a", "b", HoledChunks["a"], HoledChunks["b"]}]

UploadContents ==
  UNION {Readings(f) : f \in {Short, Both}}
    \cup {<< >>} \cup {<<"manifest">> \o f : f \in {Short, Twice, Both}}

Work(f1, f2, f3, direct, database, failing) ==
  [ file     |-> (r1 :> f1 @@ r2 :> f2 @@ r3 :> f3),
    direct   |-> [r \in Requests |-> r \in direct],
    database |-> database,
    failing  |-> failing ]

\* Three writers of one object; two clients whose files share a chunk, beside one
\* that sends this chunk as a file; with and without a database, and failing or not.
UploadWorkloads ==
  { Work(Short, Short, Short, Requests, FALSE, failing) : failing \in {0, 2} }
    \cup { Work(Both, Twice, Short, {r3}, TRUE, 0), Work(Twice, Twice, Short, {r3}, FALSE, 0) }
    \cup { Work(Twice, Short, Short, {r2, r3}, database, 1) : database \in BOOLEAN }
==============================================================================
