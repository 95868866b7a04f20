------------------------------- MODULE LobRead -------------------------------
(***************************************************************************)
(* Reading a row with a LOB.  Its length is known to DB2 only, and the     *)
(* buffers for it are made as long as any LOB of that column has turned    *)
(* out to be so far, or as long as usual.  A LOB that is longer runs into  *)
(* a protected page: DB2 says how long it is, the buffer is made longer    *)
(* and the row is read once more.                                          *)
(*                                                                         *)
(* The greatest length so far belongs to the table's share.  Every handler *)
(* compares and stores it, and reads it to allocate, without a lock: these *)
(* are steps of their own here.  The row may be changed between two reads, *)
(* for at the lower isolation levels no lock keeps it.                     *)
(* External: DB2, the row's changes and the statements that read it.       *)
(*                                                                         *)
(* A definition named Name_Variant is Name with a plausible mistake in it. *)
(***************************************************************************)
EXTENDS Integers

CONSTANTS
  Readers,           (* connections that read the table                    *)
  FieldLength,       (* the longest value of the column, in bytes          *)
  FullAllocate,      (* MAX_FULL_ALLOCATE_BLOB_LENGTH                      *)
  DefaultAllocation, (* lob_alloc_size                                     *)
  Unit               (* bytes for each unit of a LOB's length: 2 in a      *)
                     (* DBCLOB, otherwise 1                                *)

ASSUME LobAssumption ==
  /\ FieldLength \in Nat \ {0} /\ FullAllocate \in Nat /\ DefaultAllocation \in Nat \ {0}
  /\ Unit \in {1, 2}

VARIABLES
  length,     (* units of the LOB in the row                               *)
  actualSize, (* blobFieldActualSizes of the share                         *)
  buffer,     (* buffer[c]: bytes of c's buffer, 0 if it has none          *)
  read,       (* read[c]: where c's read is, and the size it asks for      *)
  disturbed   (* disturbed[c]: the row has grown since c's read ran over   *)
              (* its buffer, or a lesser size was stored over c's          *)

lvars == <<length, actualSize, buffer, read, disturbed>>

Lengths == {n \in 0..FieldLength : Unit * n <= FieldLength}
Places == {"none", "prepared", "overflow", "compare", "store", "allocate", "again", "row", "refused"}
Retrying == {"overflow", "compare", "store", "allocate", "again"}
Reading(c, from, to) == read[c].at = from /\ read' = [read EXCEPT ![c].at = to]
Greater(a, b) == IF a < b THEN b ELSE a
Lesser(a, b) == IF a < b THEN a ELSE b

(* The length of a buffer; shorter ones than the column's are protected.   *)
getSizeToAllocate_Usual ==
  IF FieldLength <= FullAllocate THEN FieldLength ELSE Lesser(DefaultAllocation, FieldLength)
getSizeToAllocate ==
  IF FieldLength <= FullAllocate THEN FieldLength
  ELSE Greater(Lesser(DefaultAllocation, FieldLength), actualSize)
Overflows(c) == Unit * length > buffer[c]

-----------------------------------------------------------------------------
LInit ==
  /\ length \in Lengths /\ actualSize = 0
  /\ buffer = [c \in Readers |-> 0]
  /\ read = [c \in Readers |-> [at |-> "none", size |-> 0]]
  /\ disturbed = [c \in Readers |-> FALSE]

(* prepareReadBufferForLobs, before a statement's first read: the buffer   *)
(* is made.                                                                *)
prepareReadBufferForLobs(c) ==
  /\ Reading(c, "none", "prepared")
  /\ buffer' = [buffer EXCEPT ![c] = getSizeToAllocate]
  /\ disturbed' = [disturbed EXCEPT ![c] = FALSE]
  /\ UNCHANGED <<length, actualSize>>

(* The first read of a row: if it runs over, DB2 says how long the LOB is. *)
readFromBuffer(c) ==
  /\ read[c].at = "prepared"
  /\ read' = [read EXCEPT ![c] = IF Overflows(c) THEN [at |-> "overflow", size |-> length]
                                 ELSE [at |-> "row", size |-> 0]]
  /\ UNCHANGED <<length, actualSize, buffer, disturbed>>

(* adjustLobBuffersForRead and reallocBuffer: what DB2 asks for is         *)
(* compared with the buffer, then with the share's size.                   *)
reallocBuffer(c) ==
  /\ Reading(c, "overflow", IF read[c].size <= buffer[c] THEN "again" ELSE "compare")
  /\ UNCHANGED <<length, actualSize, buffer, disturbed>>
compareActualSize(c) ==
  /\ Reading(c, "compare", IF actualSize < read[c].size THEN "store" ELSE "allocate")
  /\ UNCHANGED <<length, actualSize, buffer, disturbed>>
storeActualSize(c) ==
  /\ Reading(c, "store", "allocate")
  /\ actualSize' = read[c].size
  /\ disturbed' = [d \in Readers |->
       disturbed[d] \/ (read[d].at = "allocate" /\ read[c].size < read[d].size)]
  /\ UNCHANGED <<length, buffer>>
allocateAgain(c) ==
  /\ Reading(c, "allocate", "again")
  /\ buffer' = [buffer EXCEPT ![c] = getSizeToAllocate]
  /\ UNCHANGED <<length, actualSize, disturbed>>

(* handleLOBReadOverflow reads the same row, once.                         *)
handleLOBReadOverflow(c) ==
  /\ Reading(c, "again", IF Overflows(c) THEN "refused" ELSE "row")
  /\ UNCHANGED <<length, actualSize, buffer, disturbed>>

(* The next row of the statement, or its end, where the buffers are freed. *)
nextRow(c) ==
  /\ Reading(c, "row", "prepared")
  /\ disturbed' = [disturbed EXCEPT ![c] = FALSE]
  /\ UNCHANGED <<length, actualSize, buffer>>
cleanupBuffers(c) ==
  /\ read[c].at \in {"row", "refused"}
  /\ read' = [read EXCEPT ![c].at = "none"]
  /\ buffer' = [buffer EXCEPT ![c] = 0]
  /\ UNCHANGED <<length, actualSize, disturbed>>

(* The row gets a value of another length.                                 *)
ChangeLob(n) ==
  /\ length' = n
  /\ disturbed' = [c \in Readers |->
       disturbed[c] \/ (read[c].at \in Retrying /\ read[c].size < n)]
  /\ UNCHANGED <<actualSize, buffer, read>>

LNext ==
  \/ \E c \in Readers :
       \/ prepareReadBufferForLobs(c) \/ readFromBuffer(c) \/ reallocBuffer(c)
       \/ compareActualSize(c) \/ storeActualSize(c) \/ allocateAgain(c)
       \/ handleLOBReadOverflow(c) \/ nextRow(c) \/ cleanupBuffers(c)
  \/ \E n \in Lengths : ChangeLob(n)

LSpec == LInit /\ [][LNext]_lvars

-----------------------------------------------------------------------------
LTypeOK ==
  /\ length \in Lengths /\ actualSize \in Lengths
  /\ buffer \in [Readers -> Nat]
  /\ read \in [Readers -> [at : Places, size : Lengths]]
  /\ disturbed \in [Readers -> BOOLEAN]

(* A row is given to MySQL however long its LOB is, whatever other         *)
(* connections read meanwhile: a read is refused only if the row has grown *)
(* after DB2 said how long it is, or another connection has stored a       *)
(* lesser size between this one's own and its use                          *)
(* (handleLOBReadOverflow, reallocBuffer, updateBlobFieldActualSize).      *)
LobDelivered == \A c \in Readers : read[c].at = "refused" => disturbed[c]
=============================================================================
