------------------------------ MODULE RowValues ------------------------------
(***************************************************************************)
(* What becomes of the values of a row on their way to DB2 and back: text  *)
(* in a column of its own (CharColumn), and everything else in rows, keys  *)
(* and ranges (KeyAccess).  convertMySQLtoDB2 and convertDB2toMySQL treat  *)
(* one field at a time and keep nothing, so that the two never meet: one   *)
(* of them moves in a behaviour here, the choice is made at the start.     *)
(***************************************************************************)
EXTENDS MCCharColumn, MCKeyAccess

VARIABLE kind (* the one that moves *)

AnyCall == LET d == CHOOSE e \in Descriptors : TRUE IN CHOOSE c \in Calls(d) : TRUE

RInit ==
  /\ kind \in {"text", "other"}
  /\ kind = "other" => column = None /\ pc = "converting" /\ call = AnyCall
  /\ CInit /\ KInit

RNext ==
  \/ kind = "text" /\ CNext /\ UNCHANGED <<kvars, kind>>
  \/ kind = "other" /\ KNext /\ UNCHANGED <<vars, cvars, kind>>

RSpec == RInit /\ [][RNext]_<<vars, cvars, kvars, kind>>
=============================================================================
