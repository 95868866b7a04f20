------------------------------ MODULE BulkInsert ------------------------------
(***************************************************************************)
(* Inserting rows: ha_ibmdb2i collects the rows of a statement in a write  *)
(* buffer (IOWriteBuffer) and has DB2 store a block of them at a time.  A  *)
(* row is acknowledged when it is in the buffer.  DB2 generates the values *)
(* of the identity column; when the binary log needs them at once, the     *)
(* engine locks the table for other writers and predicts them.  When a     *)
(* generated value already exists it restarts the column after the largest *)
(* one and writes the block again.                                         *)
(*                                                                         *)
(* The table has one unique key, the identity column, and a row is its     *)
(* value there: 0 for one that DB2 is to generate.  DB2, other connections *)
(* and MySQL's statement are external.  Statements run under commitment    *)
(* control.  REPLACE and ON DUPLICATE KEY UPDATE are left out.             *)
(*                                                                         *)
(* A definition named Name_Variant is Name with a plausible mistake in it; *)
(* no specification uses it.                                               *)
(***************************************************************************)
EXTENDS Naturals, Sequences, Functions

CONSTANTS
  MaxId,            (* largest value of the identity column's type         *)
  MaxRows,          (* bound: rows a statement inserts                     *)
  Capacities,       (* rows the buffer holds for a multi-row insert        *)
  BinLogModes,      (* values OPTION_BIN_LOG can take, by statement        *)
  ExplicitIds,      (* values rows may come with                           *)
  FlushedSizes,     (* buffer sizes at which it asks for FLUSH_CACHE       *)
  RequestsMayFail,  (* can requests fail other than by a duplicate?        *)
  RetryResumes      (* does QMYSE go on where a block failed (not known)?  *)

ASSUME MaxIdAssumption == MaxId \in Nat \ {0}
ASSUME ExplicitIdsAssumption == ExplicitIds \subseteq 1 .. MaxId
ASSUME CapacitiesAssumption == Capacities \subseteq Nat \ {0}
ASSUME SwitchesAssumption ==
         BinLogModes \cup {RequestsMayFail, RetryResumes} \subseteq BOOLEAN

VARIABLES
  outstanding_start_bulk_insert, last_start_bulk_insert_rc,
  returnDupKeysImmediately,
  rows, rowCapacity,             (* the write buffer                       *)
  activeHandle,                  (* is the data file in use?               *)
  activeReferences,
  autoIncLockAcquired, got_auto_inc_values, next_identity_value,
  default_identity_value,        (* is the last row's value generated?     *)
  pc,                            (* where flushWrite is, "idle" outside    *)
  caller,                        (* who called it                          *)
  released,                      (* does write_row release the handle?     *)
  image,                         (* the value in MySQL's copy of the row   *)
  generatedIdValue,              (* flushWrite's, 0: none was generated    *)
  written,                       (* rows of the block stored before it failed *)
  table,                         (* DB2: the values stored (external)      *)
  nextId,                        (* DB2: the next value to generate        *)
  startId,                       (* db2i_table's db2StartId                *)
  locked,                        (* DB2: is the table locked for us?       *)
  stage,                         (* MySQL's statement (external)           *)
  ignores,                       (* is it INSERT IGNORE?                   *)
  failed,                        (* has the statement failed?              *)
  images,                        (* history: what MySQL was told of each row *)
  mine                           (* history: values stored for this statement *)

bulkVars == <<outstanding_start_bulk_insert, last_start_bulk_insert_rc>>
bufferVars == <<rows, rowCapacity>>
handleVars == <<activeHandle, activeReferences>>
lockVars == <<autoIncLockAcquired, locked>>
idVars == <<got_auto_inc_values, next_identity_value, default_identity_value>>
flushVars == <<pc, caller, released, image, generatedIdValue, written>>
tableVars == <<table, nextId, startId, mine>>
statementVars == <<stage, ignores, failed, images, returnDupKeysImmediately>>
vars == <<bulkVars, bufferVars, handleVars, lockVars, idVars, flushVars, tableVars,
          statementVars>>

Outcomes == IF RequestsMayFail THEN BOOLEAN ELSE {TRUE}
Bit(b) == IF b THEN 1 ELSE 0
Largest(S) == CHOOSE n \in S : \A m \in S : m <= n

-----------------------------------------------------------------------------
(* DB2 (external).  QMY_WRITE_ROWS stores the rows of a block up to the    *)
(* first that fails; a value once generated is not generated again.        *)

StoreRow(w, row) ==
  IF w.rc # "OK" THEN w
  ELSE IF row = 0 /\ w.next > MaxId THEN [w EXCEPT !.rc = "other"]
  ELSE LET id == IF row = 0 THEN w.next ELSE row
           drawn == IF row = 0 THEN [w EXCEPT !.next = @ + 1, !.generated = id] ELSE w
       IN  IF id \in w.stored
           THEN [drawn EXCEPT !.rc = "dup"]
           ELSE [drawn EXCEPT !.stored = @ \cup {id}, !.ids = Append(@, id)]

WriteRows(block) ==
  LET after[k \in 0..Len(block)] ==
        IF k = 0
        THEN [stored |-> table, next |-> nextId, ids |-> <<>>, generated |-> 0, rc |-> "OK"]
        ELSE StoreRow(after[k - 1], block[k])
  IN  after[Len(block)]

OtherWrites(id) ==
  /\ ~locked /\ id \notin table
  /\ \/ id \in ExplicitIds /\ UNCHANGED nextId
     \/ id = nextId /\ nextId' = nextId + 1
  /\ table' = table \cup {id}
  /\ UNCHANGED <<startId, mine, bulkVars, bufferVars, handleVars, lockVars, idVars,
                 flushVars, statementVars>>

-----------------------------------------------------------------------------
Init ==
  /\ outstanding_start_bulk_insert = FALSE /\ last_start_bulk_insert_rc = FALSE
  /\ returnDupKeysImmediately = FALSE
  /\ rows = <<>> /\ rowCapacity = 0
  /\ activeHandle = FALSE /\ activeReferences = 0
  /\ autoIncLockAcquired = FALSE /\ got_auto_inc_values = FALSE
  /\ next_identity_value = 0 /\ default_identity_value = FALSE
  /\ pc = "idle" /\ caller = "none" /\ released = FALSE /\ image = 0
  /\ generatedIdValue = 0 /\ written = 0
  /\ table = {} /\ nextId = 1 /\ startId = 1 /\ locked = FALSE /\ mine = <<>>
  /\ stage = "none" /\ ignores = FALSE /\ failed = FALSE /\ images = <<>>

(* MySQL begins the statement; INSERT IGNORE sets HA_EXTRA_IGNORE_DUP_KEY. *)
extra_IgnoreDupKey(ignore) ==
  /\ stage = "none" /\ stage' = "begun"
  /\ ignores' = ignore
  /\ returnDupKeysImmediately' = (ignore \/ returnDupKeysImmediately)
  /\ failed' = FALSE /\ images' = <<>> /\ mine' = <<>>
  /\ UNCHANGED <<bulkVars, bufferVars, handleVars, lockVars, idVars, flushVars, table,
                 nextId, startId>>

(* many: are several rows expected, and no blobs?                          *)
bulkInsertStarted(granted, opened, ready) ==
  /\ outstanding_start_bulk_insert' = ready
  /\ last_start_bulk_insert_rc' = ~ready
  /\ autoIncLockAcquired' = (granted /\ ready)
  /\ locked' = (granted /\ ready)
  /\ got_auto_inc_values' = (got_auto_inc_values /\ ~granted)
  /\ activeHandle' = opened
  /\ activeReferences' = activeReferences + Bit(opened)
  /\ rows' = <<>>

start_bulk_insert(many, capacity) ==
  /\ stage = "begun" /\ stage' = "insert"
  /\ \E logged \in BinLogModes, opened \in Outcomes, prepared \in Outcomes :
     \E granted \in IF many /\ logged THEN BOOLEAN ELSE {FALSE} :
       LET blocks == many /\ (logged => granted)
           ready == opened /\ prepared
       IN  /\ bulkInsertStarted(granted, opened, ready)
           /\ rowCapacity' = IF ready THEN (IF blocks THEN capacity ELSE 1) ELSE rowCapacity
  /\ UNCHANGED <<next_identity_value, default_identity_value, flushVars, tableVars,
                 ignores, failed, images, returnDupKeysImmediately>>

-----------------------------------------------------------------------------
(* write_row.  The value of a generated row is predicted once the first    *)
(* value of the block is known.                                            *)

predicts_Unlocked(row) == row = 0 /\ got_auto_inc_values
predicts(row) == autoIncLockAcquired /\ row = 0 /\ got_auto_inc_values

endOfBuffer_Above(n, capacity) == n > capacity
endOfBuffer(n, capacity) == n = capacity

write_row_Refused ==
  /\ failed' = TRUE /\ stage' = "insert"
  /\ UNCHANGED <<bulkVars, bufferVars, handleVars, lockVars, idVars, flushVars, tableVars,
                 ignores, images, returnDupKeysImmediately>>

write_row(row) ==
  /\ stage \in {"begun", "insert"} /\ pc = "idle" /\ ~failed
  /\ Len(images) < MaxRows
  /\ \/ /\ last_start_bulk_insert_rc \/ (~activeHandle /\ RequestsMayFail)
        /\ write_row_Refused                 (* no handle, or no buffer    *)
     \/ /\ ~last_start_bulk_insert_rc
        /\ LET before == IF outstanding_start_bulk_insert THEN rows ELSE <<>>
               capacity == IF outstanding_start_bulk_insert THEN rowCapacity ELSE 1
           IN  \/ /\ RequestsMayFail         (* prepareRowForWrite fails   *)
                  /\ failed' = TRUE
                  /\ rows' = before
                  /\ UNCHANGED <<handleVars, next_identity_value, flushVars, images>>
               \/ LET n == Len(before) + 1
                      exhausted == predicts(row) /\ next_identity_value - 1 = MaxId
                      told == IF predicts(row) THEN next_identity_value ELSE row
                  IN  /\ rows' = Append(before, row)
                      /\ next_identity_value' =
                           next_identity_value + Bit(predicts(row) /\ ~exhausted)
                      /\ IF \/ ~exhausted /\ endOfBuffer(n, capacity)
                            \/ autoIncLockAcquired /\ ~got_auto_inc_values
                            \/ returnDupKeysImmediately
                         THEN /\ pc' = "flush" /\ caller' = "write_row" /\ image' = told
                              /\ released' = ~activeHandle
                              /\ activeHandle' = TRUE
                              /\ activeReferences' = activeReferences + Bit(~activeHandle)
                              /\ generatedIdValue' = 0 /\ written' = 0
                              /\ UNCHANGED <<images, failed>>
                         ELSE /\ images' = IF exhausted THEN images ELSE Append(images, told)
                              /\ failed' = exhausted
                              /\ UNCHANGED <<handleVars, flushVars>>
           /\ rowCapacity' = capacity
        /\ default_identity_value' = (row = 0)
        /\ stage' = "insert"
        /\ UNCHANGED <<bulkVars, lockVars, got_auto_inc_values, tableVars,
                       ignores, returnDupKeysImmediately>>

-----------------------------------------------------------------------------
(* The end of a bulk insert: MySQL's reset after the statement has been    *)
(* committed or rolled back, or HA_EXTRA_FLUSH_CACHE in its course.  Both  *)
(* drop what finishBulkInsert returns.                                     *)

unlock_Forgotten == autoIncLockAcquired' = FALSE /\ UNCHANGED locked
unlock == autoIncLockAcquired' = FALSE /\ locked' = FALSE

(* What is left to do once the last block is written.                      *)
bulkInsertFinished(by) ==
  /\ IF outstanding_start_bulk_insert
     THEN unlock /\ rowCapacity' = 0
     ELSE UNCHANGED <<lockVars, rowCapacity>>
  /\ outstanding_start_bulk_insert' = FALSE
  /\ last_start_bulk_insert_rc' = FALSE
  /\ rows' = <<>>
  /\ activeHandle' = FALSE
  /\ activeReferences' = activeReferences - Bit(activeHandle)
  /\ stage' = IF by = "reset" THEN "none" ELSE stage
  /\ returnDupKeysImmediately' = (by # "reset" /\ returnDupKeysImmediately)
  /\ UNCHANGED <<ignores, failed, images>>

finishBulkInsert(by) ==
  IF outstanding_start_bulk_insert /\ rows # <<>> /\ activeHandle
  THEN /\ pc' = "flush" /\ caller' = by /\ released' = FALSE /\ image' = 0
       /\ generatedIdValue' = 0 /\ written' = 0
       /\ UNCHANGED <<bulkVars, bufferVars, handleVars, lockVars, idVars, tableVars,
                      statementVars>>
  ELSE /\ bulkInsertFinished(by)
       /\ UNCHANGED <<idVars, flushVars, tableVars>>

extra_FlushCache ==
  /\ rowCapacity \in FlushedSizes /\ stage = "insert" /\ pc = "idle" /\ outstanding_start_bulk_insert
  /\ finishBulkInsert("extra")

reset == stage = "ended" /\ pc = "idle" /\ finishBulkInsert("reset")

(* The statement ends; MariaDB's end_bulk_insert does nothing, and a       *)
(* failed statement is rolled back.                                        *)
EndStatement(succeeds) ==
  /\ stage \in {"begun", "insert"} /\ pc = "idle"
  /\ stage' = "ended"
  /\ failed' = (failed \/ ~succeeds)
  /\ IF failed' THEN table' = table \ Range(mine) /\ mine' = <<>>
     ELSE UNCHANGED <<table, mine>>
  /\ UNCHANGED <<nextId, startId, bulkVars, bufferVars, handleVars, lockVars, idVars,
                 flushVars, ignores, images, returnDupKeysImmediately>>

-----------------------------------------------------------------------------
(* flushWrite: one QMY_WRITE_ROWS, and perhaps alterStartWith and a second *)
(* one.                                                                    *)

firstInBlock == ~autoIncLockAcquired \/ ~got_auto_inc_values

(* The end of flushWrite: rc is its return code, generated the value that  *)
(* DB2 says it has generated (0 for none).                                 *)
resetAfterWrite_Forgotten == rows
resetAfterWrite == <<>>

predictionAfter_Same(generated) == generated
predictionAfter(generated) == generated + 1

flushed(rc, generated) ==
  LET known == rc \in {"OK", "dup"} /\ default_identity_value /\ generated # 0 /\ firstInBlock
      told == IF known THEN generated ELSE image
  IN  /\ got_auto_inc_values' = (got_auto_inc_values \/ (known /\ autoIncLockAcquired))
      /\ next_identity_value' = IF known /\ autoIncLockAcquired
                                THEN predictionAfter(generated) ELSE next_identity_value
      /\ pc' = "idle"
      /\ IF caller = "write_row"
         THEN /\ rows' = resetAfterWrite
              /\ images' = IF rc = "OK" THEN Append(images, told) ELSE images
              /\ failed' = (rc # "OK" /\ ~(rc = "dup" /\ ignores))
              /\ activeHandle' = (activeHandle /\ ~released)
              /\ activeReferences' = activeReferences - Bit(released)
              /\ UNCHANGED <<bulkVars, rowCapacity, lockVars, stage, ignores,
                             returnDupKeysImmediately>>
         ELSE bulkInsertFinished(caller)
      /\ UNCHANGED <<default_identity_value, caller, released, image, generatedIdValue,
                     written>>

mayRetry == pc = "flush" /\ default_identity_value /\ firstInBlock

flushWrite ==
  /\ pc \in {"flush", "retry"}
  /\ \E w \in {WriteRows(SubSeq(rows, (IF RetryResumes THEN written ELSE 0) + 1, Len(rows)))}
              \cup (IF RequestsMayFail
                    THEN {[stored |-> table, next |-> nextId, ids |-> <<>>, generated |-> 0,
                           rc |-> "other"]}
                    ELSE {}) :
       /\ table' = w.stored /\ nextId' = w.next /\ mine' = mine \o w.ids
       /\ \E generated \in IF w.rc = "dup" THEN {0, w.generated} ELSE {w.generated} :
            IF w.rc = "dup" /\ mayRetry
            THEN /\ pc' = "alter"
                 /\ generatedIdValue' = generated /\ written' = Len(w.ids)
                 /\ UNCHANGED <<bulkVars, bufferVars, handleVars, lockVars, idVars, caller,
                                released, image, statementVars>>
            ELSE flushed(w.rc, IF generated = 0 THEN generatedIdValue ELSE generated)
  /\ UNCHANGED startId

(* getNextIdVal looks for the largest value and reset_auto_increment goes  *)
(* on behind it, while the table is locked; the lock may be refused.       *)
nextIdVal == LET next == Largest(table) + 1 IN IF next > startId THEN next ELSE startId

alterStartWith ==
  /\ pc = "alter"
  /\ \/ /\ nextIdVal <= MaxId
        /\ nextId' = nextIdVal /\ startId' = nextIdVal
        /\ pc' = "retry"
        /\ UNCHANGED <<table, mine, bulkVars, bufferVars, handleVars, lockVars, idVars,
                       caller, released, image, generatedIdValue, written, statementVars>>
     \/ /\ nextIdVal > MaxId \/ ~locked \/ RequestsMayFail
        /\ flushed("dup", generatedIdValue)
        /\ UNCHANGED tableVars

-----------------------------------------------------------------------------
Next ==
  \/ \E ignore \in BOOLEAN : extra_IgnoreDupKey(ignore)
  \/ \E many \in BOOLEAN, capacity \in Capacities : start_bulk_insert(many, capacity)
  \/ \E row \in {0} \cup ExplicitIds : write_row(row)
  \/ flushWrite \/ alterStartWith
  \/ extra_FlushCache \/ reset
  \/ \E succeeds \in BOOLEAN : EndStatement(succeeds)
  \/ \E id \in 1 .. MaxId : OtherWrites(id)

Spec == Init /\ [][Next]_vars

-----------------------------------------------------------------------------
(* Properties.                                                             *)

(* The binary log is given the values that DB2 stores: while the table is  *)
(* locked the values predicted for a block, or taken from DB2 for its      *)
(* first row, are the ones DB2 generates, whatever other connections have  *)
(* inserted before and whatever mixture of rows the block holds.           *)
PredictionExact ==
  pc = "idle" /\ stage = "insert" /\ ~failed =>
    \A i \in DOMAIN mine : images[i] # 0 => images[i] = mine[i]

(* As long as a statement goes well every row that was acknowledged is     *)
(* either stored, once, or still in the buffer when the statement ends.    *)
AcceptedAccounted ==
  pc = "idle" /\ stage \in {"insert", "ended"} /\ ~failed =>
    Len(images) = Len(mine) + Len(rows)

(* The assertion in ha_ibmdb2i's destructor, and its counterpart for the   *)
(* lock: once MySQL has reset the handler no file instance is in use and   *)
(* no lock is kept from other connections, whatever has failed.            *)
NothingHeld ==
  stage = "none" => activeReferences = 0 /\ ~activeHandle /\ ~locked

(* A statement that succeeded has stored every row it was acknowledged.    *)
SuccessStored == stage = "none" /\ ~failed => Len(mine) = Len(images)

(* While blocks hold one row, a statement that ends well has stored every  *)
(* row it was acknowledged, one that fails has stored none, and the buffer *)
(* holds no row that reset could store after MySQL has ended it.           *)
SingleRowsSettled ==
  pc = "idle" /\ stage = "ended" /\ rowCapacity = 1 =>
    /\ WriteRows(rows).ids = <<>>
    /\ IF failed THEN mine = <<>> ELSE Len(mine) = Len(images)
=============================================================================
