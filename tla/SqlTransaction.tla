--------------------------- MODULE SqlTransaction ---------------------------
(***************************************************************************)
(* What the transactions of a connection promise to its user: a statement  *)
(* that fails leaves no row change behind, ROLLBACK TO undoes the changes  *)
(* made since the savepoint or fails and undoes nothing, COMMIT makes the  *)
(* changes that are left durable, all of them and no others, and outside   *)
(* of a multi-statement transaction every statement is its own COMMIT.     *)
(* Nothing is said about how storage keeps track of statements: that is    *)
(* the business of StmtTx, which is shown to implement this specification. *)
(***************************************************************************)
EXTENDS NamedLists

CONSTANTS
  Changes,          (* the row changes a statement can make                *)
  SvNames           (* the savepoints a user can set                       *)

VARIABLES
  durable,          (* changes that nothing can undo any more              *)
  pending,          (* the changes of the transaction, in order            *)
  multi,            (* is this a multi-statement transaction?              *)
  protected,        (* is commitment control in use?                       *)
  running,          (* is a statement being executed?                      *)
  stmtMark,         (* changes pending when that statement began           *)
  savepoints,       (* user savepoints, oldest first: [name, mark]         *)
  answer            (* what the user was told last                         *)

vars == <<durable, pending, multi, protected, running, stmtMark, savepoints, answer>>

Answers == {"none", "done", "undone", "failed"}

Set(s) == {s[i] : i \in DOMAIN s}
Upto(s, n) == SubSeq(s, 1, n)

Init ==
  /\ durable = {} /\ pending = <<>>
  /\ multi \in BOOLEAN /\ protected = TRUE
  /\ running = FALSE /\ stmtMark = 0 /\ savepoints = <<>> /\ answer = "none"

StartStatement ==
  /\ ~running /\ running' = TRUE
  /\ stmtMark' = Len(pending)
  /\ UNCHANGED <<durable, pending, multi, protected, savepoints, answer>>

ChangeRow ==
  \E c \in Changes \ (durable \cup Set(pending)) :
    /\ running
    /\ IF protected
       THEN pending' = Append(pending, c) /\ UNCHANGED durable
       ELSE durable' = durable \cup {c} /\ UNCHANGED pending
    /\ UNCHANGED <<multi, protected, running, stmtMark, savepoints, answer>>

EndStatement ==
  /\ running /\ running' = FALSE
  /\ answer' \in {"done", "undone"}
  /\ LET kept == IF answer' = "done" THEN pending ELSE Upto(pending, stmtMark)
     IN  IF multi
       THEN pending' = kept /\ UNCHANGED durable
       ELSE pending' = <<>> /\ durable' = durable \cup Set(kept)
  /\ stmtMark' = 0
  /\ UNCHANGED <<multi, protected, savepoints>>

(* COMMIT, ROLLBACK and whatever implies them; what follows may or may not *)
(* be a multi-statement transaction.                                       *)
EndTransaction ==
  /\ ~running
  /\ answer' \in {"done", "undone"}
  /\ durable' = IF answer' = "done" THEN durable \cup Set(pending) ELSE durable
  /\ pending' = <<>> /\ savepoints' = <<>>
  /\ multi' \in BOOLEAN /\ protected' \in {protected, TRUE}
  /\ UNCHANGED <<running, stmtMark>>

SetSavepoint ==
  \E n \in SvNames :
    /\ ~running
    /\ LET others == WithoutName(savepoints, n)
       IN  savepoints' \in {others, Append(others, [name |-> n, mark |-> Len(pending)])}
    /\ UNCHANGED <<durable, pending, multi, protected, running, stmtMark, answer>>

RollbackToSavepoint ==
  \E i \in DOMAIN savepoints :
    /\ ~running
    /\ answer' \in {"undone", "failed"}
    /\ pending' = IF answer' = "undone" THEN Upto(pending, savepoints[i].mark) ELSE pending
    /\ savepoints' = Upto(savepoints, i)
    /\ UNCHANGED <<durable, multi, protected, running, stmtMark>>

ReleaseSavepoint ==
  \E i \in DOMAIN savepoints :
    /\ ~running
    /\ savepoints' = Upto(savepoints, i - 1)
    /\ UNCHANGED <<durable, pending, multi, protected, running, stmtMark, answer>>

(* SET autocommit = 0; a transaction that has begun goes on.               *)
Prolong ==
  /\ ~running /\ multi' = TRUE
  /\ UNCHANGED <<durable, pending, protected, running, stmtMark, savepoints, answer>>

(* Commitment control is switched on and off between transactions.         *)
Protect ==
  /\ ~running /\ pending = <<>>
  /\ protected' \in BOOLEAN
  /\ UNCHANGED <<durable, pending, multi, running, stmtMark, savepoints, answer>>

Next == \/ StartStatement \/ ChangeRow \/ EndStatement \/ EndTransaction
        \/ SetSavepoint \/ RollbackToSavepoint \/ ReleaseSavepoint
        \/ Prolong \/ Protect

Spec == Init /\ [][Next]_vars
=============================================================================
