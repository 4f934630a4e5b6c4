---------------------------- MODULE RefreshTokens ----------------------------
(***************************************************************************)
(* Refresh tokens (core/auth.rs, core/auth/repo.rs, api/auth.rs) over the  *)
(* API keys they are exchanged for.  A token is used once: it is read, a   *)
(* new token of its family is inserted and the old one marked as replaced, *)
(* in three statements.  Using a replaced token again is taken for a       *)
(* replay and revokes the whole family.  Nothing keeps requests about one  *)
(* token or one family apart: they interleave between the statements.      *)
(*                                                                         *)
(* A token stands for itself and for its hash, and a family for its first  *)
(* token.  The claims of a token, its parent and the access token that     *)
(* comes with it are read by nothing here.                                 *)
(***************************************************************************)
EXTENDS ApiKeys

CONSTANTS
  Tokens,
  Sessions,   \* the token requests the server can work on at the same time
  Ttl         \* refresh_token_ttl_secs

ASSUME TtlIsPositive == Ttl \in Nat \ {0}
ASSUME NoneIsNoToken == None \notin Tokens \cup Sessions

VARIABLES
  row,      \* token -> its row of refresh_tokens, or None
  session,  \* token request -> where it stands, or None
  held,     \* ghost: the tokens that clients were given
  ended     \* ghost: the tokens that were revoked for a replay in their family

tokenVars == <<row, session, held, ended>>
vars == <<keyVars, tokenVars>>

Row == [family : Tokens, until : Nat, replaced : BOOLEAN, revoked : BOOLEAN]

\* token: the one presented; new: the one that is issued.  Both are the same when
\* a key is exchanged.
Session == [token : Tokens, new : Tokens, at : {"find", "insert", "mark", "end", "endFamily"}]

\* What a rotation takes.
Taken == [family : Tokens, token : Tokens]

ASSUME NoneIsNoSession == None \notin Row \cup Session \cup Taken

Init ==
  /\ KeysInit
  /\ row = [t \in Tokens |-> None]
  /\ session = [s \in Sessions |-> None]
  /\ held = {}
  /\ ended = {}

-----------------------------------------------------------------------------

Stands(s, step) == session[s] # None /\ session[s].at = step
Proceed(s, step) == session' = [session EXCEPT ![s].at = step]
Close(s) == session' = [session EXCEPT ![s] = None]

Family(s) == IF row[session[s].token] = None THEN session[s].token ELSE row[session[s].token].family

\* A token nobody issued yet: tokens are random.
Unissued(t) ==
  /\ row[t] = None
  /\ \A s \in Sessions : session[s] # None => session[s].new # t

\* Mutation: the client is answered before the token is in the table.
AnswerBeforeInsert(s, k, t) ==
  /\ load.tokens
  /\ session[s] = None
  /\ k \in handed
  /\ Accepted(k)
  /\ Unissued(t)
  /\ session' = [session EXCEPT ![s] = [token |-> t, new |-> t, at |-> "insert"]]
  /\ held' = held \cup {t}
  /\ UNCHANGED <<keyVars, row, ended>>

\* exchange_key_for_tokens up to its insert.
BeginExchange(s, k, t) ==
  /\ load.tokens
  /\ session[s] = None
  /\ k \in handed
  /\ Accepted(k)
  /\ Unissued(t)
  /\ session' = [session EXCEPT ![s] = [token |-> t, new |-> t, at |-> "insert"]]
  /\ UNCHANGED <<keyVars, row, held, ended>>

\* refresh_tokens up to its first statement.
BeginRefresh(s, t) ==
  /\ session[s] = None
  /\ t \in held
  /\ session' = [session EXCEPT ![s] = [token |-> t, new |-> t, at |-> "find"]]
  /\ UNCHANGED <<keyVars, row, held, ended>>

BeginRevokeToken(s, t) ==
  /\ session[s] = None
  /\ t \in held
  /\ session' = [session EXCEPT ![s] = [token |-> t, new |-> t, at |-> "end"]]
  /\ UNCHANGED <<keyVars, row, held, ended>>

\* What refresh_tokens does with the row it found.
Verdict(found) ==
  CASE found.revoked                                            -> "refused"
    [] ~found.revoked /\ found.replaced                         -> "endFamily"
    [] ~found.revoked /\ ~found.replaced /\ found.until <= now  -> "end"
    [] OTHER                                                    -> "insert"

FindToken(s) ==
  LET verdict == Verdict(row[session[s].token]) IN
  /\ Stands(s, "find")
  /\ CASE verdict = "refused" -> Close(s)
       [] verdict = "insert"  ->
            \E t \in Tokens :
              /\ Unissued(t)
              /\ session' = [session EXCEPT ![s] = [token |-> @.token, new |-> t, at |-> "insert"]]
       [] OTHER               -> Proceed(s, verdict)
  /\ UNCHANGED <<keyVars, row, held, ended>>

Insert(s) ==
  row' = [row EXCEPT ![session[s].new] =
            [family |-> Family(s), until |-> now + Ttl, replaced |-> FALSE, revoked |-> FALSE]]

IsExchange(s) == session[s].token = session[s].new

\* insert_refresh_token of an exchange; the answer may get lost.
InsertFirstToken(s) ==
  /\ Stands(s, "insert")
  /\ IsExchange(s)
  /\ Insert(s)
  /\ held' \in {held, held \cup {session[s].new}}
  /\ Close(s)
  /\ UNCHANGED <<keyVars, ended>>

\* insert_refresh_token of a rotation.
InsertNextToken(s) ==
  /\ Stands(s, "insert")
  /\ ~IsExchange(s)
  /\ Insert(s)
  /\ Proceed(s, "mark")
  /\ UNCHANGED <<keyVars, held, ended>>

\* Mutation: the old token is not marked.
AnswerUnmarked(s) ==
  /\ Stands(s, "mark")
  /\ held' = held \cup {session[s].new}
  /\ Close(s)
  /\ UNCHANGED <<keyVars, row, ended>>

\* mark_refresh_replaced, whatever the row says by now; the answer may get lost.
MarkReplaced(s) ==
  /\ Stands(s, "mark")
  /\ row' = [row EXCEPT ![session[s].token].replaced = TRUE]
  /\ held' \in {held, held \cup {session[s].new}}
  /\ Close(s)
  /\ UNCHANGED <<keyVars, ended>>

\* revoke_refresh_token
RevokeToken(s) ==
  /\ Stands(s, "end")
  /\ row' = [row EXCEPT ![session[s].token].revoked = TRUE]
  /\ Close(s)
  /\ UNCHANGED <<keyVars, held, ended>>

\* The tokens of the family that are in the table.
FamilyOf(s) == {t \in Tokens : row[t] # None /\ row[t].family = Family(s)}

\* Mutation: only the token that was presented is revoked.
RevokePresented(s) ==
  /\ Stands(s, "endFamily")
  /\ row' = [row EXCEPT ![session[s].token].revoked = TRUE]
  /\ ended' = ended \cup FamilyOf(s)
  /\ Close(s)
  /\ UNCHANGED <<keyVars, held>>

\* revoke_refresh_family
RevokeFamily(s) ==
  /\ Stands(s, "endFamily")
  /\ row' = [t \in Tokens |->
               IF t \in FamilyOf(s) THEN [row[t] EXCEPT !.revoked = TRUE] ELSE row[t]]
  /\ ended' = ended \cup FamilyOf(s)
  /\ Close(s)
  /\ UNCHANGED <<keyVars, held>>

\* A statement fails without effect: an error, or an answer that claims the
\* revocation of a family that did not happen.
FailTokenStatement(s) ==
  /\ session[s] # None
  /\ Close(s)
  /\ UNCHANGED <<keyVars, row, held, ended>>

Restart ==
  /\ RestartKeys
  /\ session' = [s \in Sessions |-> None]
  /\ UNCHANGED <<row, held, ended>>

TokenRequest ==
  \E s \in Sessions :
    \/ \E t \in Tokens :
         \/ \E k \in Keys : BeginExchange(s, k, t)
         \/ BeginRefresh(s, t)
         \/ BeginRevokeToken(s, t)
    \/ FindToken(s) \/ InsertFirstToken(s) \/ InsertNextToken(s) \/ MarkReplaced(s)
    \/ RevokeToken(s) \/ RevokeFamily(s)
    \/ FailTokenStatement(s)

Next ==
  \/ KeyRequest /\ UNCHANGED tokenVars
  \/ TickKeys /\ UNCHANGED tokenVars
  \/ TokenRequest
  \/ Restart

Spec == Init /\ [][Next]_vars

-----------------------------------------------------------------------------
(* Properties. *)

TypeOK ==
  /\ KeysTypeOK
  /\ row \in [Tokens -> Row \cup {None}]
  /\ session \in [Sessions -> Session \cup {None}]
  /\ held \subseteq {t \in Tokens : row[t] # None}
  /\ ended \subseteq {t \in Tokens : row[t] # None}

Live(t) == row[t] # None /\ ~row[t].revoked /\ ~row[t].replaced

\* The token that a rotation of s takes, once it found that token live.
UsedBy(s) ==
  IF session[s] # None /\ session[s].at \in {"insert", "mark"} /\ ~IsExchange(s)
  THEN [family |-> Family(s), token |-> session[s].token] ELSE None

\* Only a live token is put to use, each use brings one token at most and takes
\* the old one, and a family that came to its end stays there: through any
\* requests about one token at the same time, failures between the three
\* statements, lost answers and restarts (core/auth.rs, refresh_tokens).
Promise == INSTANCE TokenFamily WITH
  Uses  <- Sessions,
  live  <- [family \in Tokens |-> {t \in held : Live(t) /\ row[t].family = family}],
  using <- [s \in Sessions |-> UsedBy(s)]
TokensAreRotated == Promise!Spec

\* The tokens of a family that are in the table when a replay in it is detected are
\* dead from then on, in a client's hands or not, whatever rotations were under
\* way with them (core/auth.rs, revoke_refresh_family).
ReplayEndsTokens == \A t \in ended : ~Live(t)

\* What the answer to a replay says, "family revoked": no token of the family is
\* live any more (core/auth.rs).  It does not hold: a rotation under way inserts its
\* token after that.
ReplayEndsFamily == \A t, u \in Tokens : Live(t) /\ u \in ended => row[t].family # row[u].family
==============================================================================
