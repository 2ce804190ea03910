---------------------------- MODULE FileContents ----------------------------
(***************************************************************************)
(* File contents and what edit does to them, as far as the coordinator's   *)
(* properties tell contents apart.  A content is a row of tokens; an edit  *)
(* names one token as its anchor (oldText) and one as its replacement.     *)
(* The revision of a content (an FNV-1a hash of its bytes) is identified   *)
(* with the content: two contents are equal exactly when their revisions   *)
(* are, which leaves hash collisions out.                                  *)
(***************************************************************************)
EXTENDS Naturals, Sequences, FiniteSets

CONSTANTS
    Tokens,         \* the tokens a file is made of
    ContentLength,  \* the number of tokens of a file
    Absent,         \* the "content" of a path where no file exists
    Empty           \* the revision of zero bytes, recorded when a file is created

ASSUME ContentsAssumption ==
    /\ ContentLength \in Nat
    /\ Absent \notin [1 .. ContentLength -> Tokens]

Contents == [1 .. ContentLength -> Tokens]
Disk == Contents \cup {Absent}
ReplaceEdit == [oldText : Tokens, newText : Tokens]

Positions(c, e) == {i \in 1 .. ContentLength : c[i] = e.oldText}

\* The loop of edit_in_scope over the anchors, then its overlap test.  The first
\* anchor that does not occur exactly once decides which error it is.
EditOutcome(c, edits) ==
    LET bad == {k \in DOMAIN edits : Cardinality(Positions(c, edits[k])) # 1}
        overlap == \E j, k \in DOMAIN edits :
                      j # k /\ Positions(c, edits[j]) = Positions(c, edits[k])
    IN  IF bad = {} THEN IF overlap THEN "invalid" ELSE "ok"
        ELSE LET first == CHOOSE k \in bad : \A j \in bad : k <= j
             IN  IF Positions(c, edits[first]) = {} THEN "conflict" ELSE "invalid"

\* All replacements, each at the place its anchor has in the content as read.
ApplyEdits(c, edits) ==
    [i \in 1 .. ContentLength |->
        IF \E k \in DOMAIN edits : i \in Positions(c, edits[k])
        THEN edits[CHOOSE k \in DOMAIN edits : i \in Positions(c, edits[k])].newText
        ELSE c[i]]

=============================================================================
