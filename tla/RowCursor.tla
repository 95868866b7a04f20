------------------------------ MODULE RowCursor ------------------------------
(***************************************************************************)
(* What the read buffer of db2i_ioBuffers.h promises to the handler: after *)
(* a read request the rows of the requested range come back one by one, in *)
(* order, each exactly once; the end of the data is reported only when     *)
(* every row has been handed over; and a failed read stays failed until    *)
(* the next request.  Nothing is said about blocks, buffers, pipes or      *)
(* asynchronous reads: those are the business of AsyncRead, which is shown *)
(* to implement this specification.                                        *)
(***************************************************************************)
EXTENDS Naturals

CONSTANT NRows      (* largest number of rows a request can range over     *)

VARIABLES
  range,            (* number of rows in the range of the current request  *)
  returned,         (* number of rows handed over since that request       *)
  outcome           (* what the last fetch answered                        *)

vars == <<range, returned, outcome>>

Outcomes == {"none", "row", "end", "error"}

Init == range = 0 /\ returned = 0 /\ outcome = "none"

(* A new read request positions the cursor before the first row of a range. *)
Open == /\ range' \in 0..NRows
        /\ returned' = 0
        /\ outcome' = "none"

(* The next row is handed over. *)
FetchRow == /\ outcome \in {"none", "row"}
            /\ returned < range
            /\ returned' = returned + 1
            /\ outcome' = "row"
            /\ UNCHANGED range

(* The end of the data is reported, and only there. *)
FetchEnd == /\ outcome # "error"
            /\ returned = range
            /\ outcome' = "end"
            /\ UNCHANGED <<range, returned>>

(* A failed fetch may be reported anywhere. *)
FetchError == /\ outcome' = "error"
              /\ UNCHANGED <<range, returned>>

Next == Open \/ FetchRow \/ FetchEnd \/ FetchError

Spec == Init /\ [][Next]_vars
=============================================================================
