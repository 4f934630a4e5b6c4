----------------------------- MODULE TokenFamily -----------------------------
(***************************************************************************)
(* What refresh tokens promise when any number of requests may use a token *)
(* at the same time: only a live token is put to use; each use yields one  *)
(* new token at most and takes the presented one out of use; and a family  *)
(* without a live token and without a use under way has come to its end.   *)
(* So a family has two live tokens in clients' hands only after two uses   *)
(* of one token were under way at once.                                    *)
(***************************************************************************)
CONSTANTS Tokens, Uses, None

VARIABLES
  live,   \* family -> the live tokens in clients' hands; its first token names it
  held,   \* the tokens that clients were given
  using   \* use -> the token that it takes and its family, or None

Init ==
  /\ live = [family \in Tokens |-> {}]
  /\ held = {}
  /\ using = [u \in Uses |-> None]

Begin(t) ==
  /\ t \notin held
  /\ live[t] = {}
  /\ live' = [live EXCEPT ![t] = {t}]
  /\ held' = held \cup {t}
  /\ UNCHANGED using

Use(u, family, t) ==
  /\ using[u] = None
  /\ t \in live[family]
  /\ using' = [using EXCEPT ![u] = [family |-> family, token |-> t]]
  /\ UNCHANGED <<live, held>>

\* The new token comes without being live when the family was ended meanwhile.
Rotate(u, t) ==
  /\ using[u] # None
  /\ t \notin held
  /\ LET rest == live[using[u].family] \ {using[u].token} IN
       \E tokens \in {rest, rest \cup {t}} : live' = [live EXCEPT ![using[u].family] = tokens]
  /\ held' = held \cup {t}
  /\ using' = [using EXCEPT ![u] = None]

\* The answer that brings the next token is lost.
Lose(u) ==
  /\ using[u] # None
  /\ live' = [live EXCEPT ![using[u].family] = @ \ {using[u].token}]
  /\ using' = [using EXCEPT ![u] = None]
  /\ UNCHANGED held

Abandon(uses) ==
  /\ using' = [u \in Uses |-> IF u \in uses THEN None ELSE using[u]]
  /\ UNCHANGED <<live, held>>

\* Tokens are revoked.
End(family, tokens) ==
  /\ live' = [live EXCEPT ![family] = @ \ tokens]
  /\ UNCHANGED <<held, using>>

Next ==
  \/ \E t \in Tokens : Begin(t)
  \/ \E u \in Uses, family, t \in Tokens : Use(u, family, t)
  \/ \E u \in Uses : Lose(u) \/ \E t \in Tokens : Rotate(u, t)
  \/ \E uses \in SUBSET Uses : Abandon(uses)
  \/ \E family \in Tokens, tokens \in SUBSET Tokens : End(family, tokens)

Spec == Init /\ [][Next]_<<live, held, using>>
==============================================================================
