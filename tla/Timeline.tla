------------------------------ MODULE Timeline ------------------------------
(***************************************************************************)
(* What a repository promises its users: every branch is one line of       *)
(* changesets that is only ever extended, at its end, by one changeset at  *)
(* a time, and only by a changeset whose author had seen that end.  What   *)
(* was made never changes; it becomes part of its branch at once or after  *)
(* an approval.  A restoration is a new changeset, with the content of an  *)
(* earlier one of the same branch.                                         *)
(***************************************************************************)
EXTENDS Naturals, Sequences

CONSTANTS Branches, Changesets, Contents, None

VARIABLES
  line,     \* branch -> its changesets, oldest first
  made,     \* changeset -> its branch, the end its author saw, its content
  approved  \* the changesets that may join their branch

Members(s) == {s[i] : i \in 1..Len(s)}
End(s) == IF s = << >> THEN None ELSE s[Len(s)]
Extended(lines, b, c) == [lines EXCEPT ![b] = Append(@, c)]

\* The lines of a repository that was created, with one empty branch.
FirstLines == {[x \in {b} |-> << >>] : b \in Branches}

Init ==
  /\ line \in {[b \in {} |-> << >>]} \cup FirstLines
  /\ made = [c \in {} |-> None]
  /\ approved = {}

\* The lines an operation finds: the first one creates the repository.
Lines == {line} \cup IF DOMAIN line = {} THEN FirstLines ELSE {}

Open ==
  /\ line' \in Lines
  /\ UNCHANGED <<made, approved>>

\* Every changeset of the line was made by an author who saw the one before it.
IsLine(s) ==
  \/ s = << >>
  \/ /\ s \in Seq(DOMAIN made)
     /\ made[s[1]].after = None
     /\ \A i \in 1..(Len(s) - 1) : made[s[i + 1]].after = s[i]

\* A branch may begin in the middle of another one, or with changesets that are
\* part of none.
Begin(lines, b) ==
  /\ b \in Branches \ DOMAIN lines
  /\ b \in DOMAIN line' /\ IsLine(line'[b])
  /\ line' = [x \in DOMAIN lines \cup {b} |-> IF x = b THEN line'[b] ELSE lines[x]]
  /\ UNCHANGED <<made, approved>>

Make(lines, b, c, content, restores) ==
  /\ c \notin DOMAIN made
  /\ restores # None =>
       restores \in Members(lines[b]) /\ content = made[restores].content
  /\ made' = [x \in DOMAIN made \cup {c} |->
                IF x = c THEN [ branch |-> b, after |-> End(lines[b]),
                                content |-> content, restores |-> restores ]
                ELSE made[x]]
  /\ UNCHANGED approved

Draft(lines, b, c, content) ==
  /\ Make(lines, b, c, content, None)
  /\ line' = lines

Submit(lines, b, c, content, restores) ==
  /\ Make(lines, b, c, content, restores)
  /\ line' = Extended(lines, b, c)

Approve(c) ==
  /\ c \notin approved
  /\ c \notin Members(line[made[c].branch])
  /\ approved' = approved \cup {c}
  /\ UNCHANGED <<line, made>>

Publish(c) ==
  /\ c \in approved
  /\ made[c].after = End(line[made[c].branch])
  /\ line' = Extended(line, made[c].branch, c)
  /\ approved' = approved \ {c}
  /\ UNCHANGED made

Next ==
  \/ Open
  \/ \E lines \in Lines :
       \/ \E b \in Branches : Begin(lines, b)
       \/ \E b \in DOMAIN lines, c \in Changesets, content \in Contents :
            \/ Draft(lines, b, c, content)
            \/ \E restores \in Changesets \cup {None} : Submit(lines, b, c, content, restores)
  \/ \E c \in DOMAIN made : Approve(c) \/ Publish(c)

Spec == Init /\ [][Next]_<<line, made, approved>>
=============================================================================
