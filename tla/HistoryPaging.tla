---------------------------- MODULE HistoryPaging ----------------------------
(***************************************************************************)
(* Readers that page through a branch's history (VersionManager::history), *)
(* newest first, while the branch grows.  A page is cut under the read     *)
(* lock, so one page is one step; the cursor a reader holds between two    *)
(* pages is an offset from the newest end, and that end moves.             *)
(***************************************************************************)
EXTENDS Versioning

CONSTANTS
  Readers,    \* clients paging through a history
  Limits,     \* values of the `limit` parameter, 0 among them
  MaxPage     \* the 200 of limit.clamp(1, 200)

ASSUME MaxPageIsPositive == MaxPage \in Nat \ {0}
ASSUME LimitsAreNumbers == Limits \subseteq Nat

VARIABLES
  reading     \* reader -> its listing, or None before its first

rvars == <<vars, reading>>

-----------------------------------------------------------------------------

Newest(history, i) == history[Len(history) + 1 - i]

\* Mutation: a limit of 0 is taken at its word.
ClampAbove(limit) == IF limit > MaxPage THEN MaxPage ELSE limit

Clamp(limit) == IF limit < 1 THEN 1 ELSE IF limit > MaxPage THEN MaxPage ELSE limit

\* iter().rev().skip(cursor).take(limit): positions count from the newest.
Page(history, cursor, limit) ==
  {i \in 1..Len(history) : cursor < i /\ i <= cursor + Clamp(limit)}

\* limit: what the reader asks for, page after page; due: what the branch held
\* when the listing began; got: what came so far; more: whether the last page had
\* a next_cursor.
RInit ==
  /\ Init
  /\ reading = [r \in Readers |-> None]

Unfinished(r) == reading[r] # None /\ reading[r].more

Begin(r, name, limit) ==
  /\ ~Unfinished(r)
  /\ name \in DOMAIN branches
  /\ reading' = [reading EXCEPT ![r] =
       [ branch |-> name, limit |-> limit, cursor |-> 0, got |-> {}, more |-> TRUE,
         due |-> Elements(branches[name].history) ]]
  /\ UNCHANGED vars

\* Mutation: the cursor moves on by the limit as it was asked for.
NextCursorByLimit(cursor, limit, page) == cursor + limit

NextCursor(cursor, limit, page) == cursor + Cardinality(page)

ReadPage(r) ==
  /\ Unfinished(r)
  /\ LET history  == branches[reading[r].branch].history
         page     == Page(history, reading[r].cursor, reading[r].limit)
         consumed == NextCursor(reading[r].cursor, reading[r].limit, page)
     IN  reading' = [reading EXCEPT ![r] =
           [ branch |-> @.branch, limit |-> @.limit, cursor |-> consumed,
             got |-> @.got \cup {Newest(history, i) : i \in page},
             more |-> consumed < Len(history), due |-> @.due ]]
  /\ UNCHANGED vars

RNext ==
  \/ Next /\ UNCHANGED reading
  \/ \E r \in Readers :
       \/ \E name \in Branches, limit \in Limits : Begin(r, name, limit)
       \/ ReadPage(r)

RSpec == RInit /\ [][RNext]_rvars

\* A reader goes on asking for the next page.
FairRSpec ==
  RSpec /\ \A r \in Readers : WF_rvars(ReadPage(r))

-----------------------------------------------------------------------------
(* Properties. *)

\* A listing read to its end holds every changeset the branch had when the
\* listing began: submissions and promotions between two pages shift the offset
\* towards what was read already, so they repeat entries and never skip one.
NothingIsSkipped ==
  \A r \in Readers :
    reading[r] # None /\ ~reading[r].more => reading[r].due \subseteq reading[r].got

\* Every listing ends, whatever the limit: a page is never empty while there is
\* more to read, because limit 0 is raised to 1.
ListingsEnd == \A r \in Readers : Unfinished(r) ~> ~Unfinished(r)
==============================================================================
