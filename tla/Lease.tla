-------------------------------- MODULE Lease --------------------------------
(***************************************************************************)
(* What a file lock promises its users: an owner who was told that it      *)
(* holds the lock until some time is the only one who was told so, until   *)
(* that time or until the lock is given up.                                *)
(***************************************************************************)
EXTENDS Naturals

CONSTANTS Owners, Term   \* who may hold the lock, and for how long at most

VARIABLES now, told      \* the time, and until when each owner holds the lock

Init ==
  /\ now = 0
  /\ told = [o \in Owners |-> 0]

Grant(o, until) ==
  /\ until <= now + Term
  /\ \A other \in Owners \ {o} : told[other] <= now
  /\ told' = [told EXCEPT ![o] = until]
  /\ UNCHANGED now

\* An answer that comes after the end of its own lease grants nothing.
GrantLate(o, until) ==
  /\ until <= now
  /\ told' = [told EXCEPT ![o] = until]
  /\ UNCHANGED now

GiveUp(owners) ==
  /\ told' = [o \in Owners |-> IF o \in owners THEN 0 ELSE told[o]]
  /\ UNCHANGED now

Tick ==
  /\ now' = now + 1
  /\ UNCHANGED told

Next ==
  \/ \E o \in Owners, until \in 0..(now + Term) : Grant(o, until) \/ GrantLate(o, until)
  \/ \E owners \in SUBSET Owners : GiveUp(owners)
  \/ Tick

Spec == Init /\ [][Next]_<<now, told>>
==============================================================================
