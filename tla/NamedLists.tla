----------------------------- MODULE NamedLists -----------------------------
(***************************************************************************)
(* Lists of records that have a name: the preserved handles of a           *)
(* connection, the savepoints of a transaction.                            *)
(***************************************************************************)
EXTENDS Naturals, Sequences

(* What is left of s when the elements with the name n are taken out.      *)
WithoutName(s, n) ==
  LET upto[k \in 0..Len(s)] ==
        IF k = 0 THEN <<>>
        ELSE IF s[k].name = n THEN upto[k - 1] ELSE Append(upto[k - 1], s[k])
  IN  upto[Len(s)]
=============================================================================
