------------------------------ MODULE HandleUse ------------------------------
(***************************************************************************)
(* How one handler instance uses the file instances it has allocated: one  *)
(* for the table (data) and one for each index.  At any time at most one   *)
(* of them is active; scans, positioned reads, inserts, updates and        *)
(* deletes make one active and release it, with the row locks it holds.    *)
(* The buffers are laid out for the file that is read or written, blocks   *)
(* of rows are read ahead, and the row that an update or a delete names is *)
(* a number kept from an earlier read, maybe through another instance.     *)
(*                                                                         *)
(* A row is known by its relative record number, a DB2 cursor by its       *)
(* position in the order of its file.  Reads are synchronous here          *)
(* (AsyncRead has the others), a statement deletes rows that it does not   *)
(* read again, and an insert outside a bulk insert is sent at once         *)
(* (BulkInsert has the blocks).                                            *)
(* External: MySQL, which calls the handler as the SQL layer does (index_  *)
(* and rnd_ scans that keep their direction, updates of the row read last, *)
(* even after the scan's end, rnd_pos of a duplicate without rnd_init, no  *)
(* index_end after an index_init that failed) and DB2's instances, cursors *)
(* and locks.                                                              *)
(*                                                                         *)
(* A definition named Name_Variant is Name with a plausible mistake in it; *)
(* no specification uses it.                                               *)
(***************************************************************************)
EXTENDS Integers, Sequences, FiniteSets

CONSTANTS
  Indexes,         (* bound: the indexes of the table                      *)
  NRows,           (* bound: rows of the table                             *)
  KeyOrder,        (* per index, the rows in the order of its key          *)
  RowsToBlock,     (* bound: rows asked for when a block is read           *)
  RequestsMayFail, (* can DB2 refuse a request?                            *)
  LockMayFail,     (* can it refuse the instance LOCK TABLES needs?        *)
  UnlockedBy       (* commands under which MySQL ends LOCK TABLES          *)

Data == "data"
None == "none"
Handles == Indexes \cup {Data}
Rows == 1..NRows
NoRow == 0

ASSUME HandleAssumption ==
  /\ Data \notin Indexes /\ None \notin Indexes
  /\ NRows \in Nat /\ RowsToBlock \in Nat \ {0}
  /\ \A i \in Indexes : KeyOrder[i] \in [Rows -> Rows]
  /\ RequestsMayFail \in BOOLEAN /\ LockMayFail \in BOOLEAN
  /\ UnlockedBy \subseteq {"unlock_tables", "begin"}

VARIABLES
  h,        (* members of the handler: open (instances allocated), active  *)
            (* (activeHandle), refs (activeReferences), index              *)
            (* (active_index), assoc (rrnAssocHandle), release             *)
            (* (releaseRowNeeded), rrn (currentRRN), rndOk                 *)
            (* (last_rnd_init_rc is 0), intent (accessIntent), readFor and *)
            (* writeFor (the files the two buffers are laid out for)       *)
  buf,      (* the read buffer: rows, cursor, and whether rc is not 0      *)
  at,       (* DB2: position of the cursor of the active instance          *)
  held,     (* DB2: the instances that hold row locks                      *)
  objLock,  (* DB2: locks on the table, lockObj's types                    *)
  my,       (* MySQL: stage of the statement, its command, whether it runs *)
            (* without a transaction, the scan that is open, the row in    *)
            (* its record buffer, a position it keeps, the row DB2 named   *)
            (* as duplicate, whether a call has failed                     *)
  lockedBy, (* MySQL: intent of LOCK TABLES, None if the table is not so   *)
            (* locked                                                      *)
  asked     (* what the last call asked of DB2: the instance, the layout   *)
            (* of the buffer that went with it, the row it named           *)

vars == <<h, buf, at, held, objLock, my, lockedBy, asked>>

Empty == [rows |-> <<>>, cursor |-> 0, ended |-> FALSE]
NoScan == [on |-> None, dir |-> 0, pos |-> 0, ended |-> FALSE]
NoKept == [pos |-> NoRow, row |-> NoRow]
Idle == [stage |-> "idle", command |-> None, unsafe |-> FALSE, scan |-> NoScan, row |-> NoRow,
         kept |-> NoKept, dup |-> NoRow, failed |-> FALSE]

Order(f, p) == IF f = Data THEN p ELSE KeyOrder[f][p]

-----------------------------------------------------------------------------
(* The handler's helpers, as functions of its members.                     *)

Wrap == 65536
bumpInUseCounter(s, k) == [s EXCEPT !.refs = (@ + k) % Wrap]

useFile(s, f) ==
  bumpInUseCounter([s EXCEPT !.open = @ \cup {f}, !.active = f], 1)

(* useFileByHandle finds the file of the instance that assoc names.        *)
useFileByHandle(s) ==
  bumpInUseCounter([s EXCEPT !.active = s.assoc,
                             !.index = IF s.assoc = Data THEN @ ELSE s.assoc], 1)

(* releaseDataFile and releaseIndexFile, and releaseActiveHandle which     *)
(* chooses between them.                                                   *)
releaseActiveHandle(s) ==
  bumpInUseCounter([s EXCEPT !.active = None, !.release = FALSE], -1)

(* releaseAnyLockedRows, on the instance that is active.                   *)
releaseAnyLockedRows_Never(s) == held
releaseAnyLockedRows(s) == IF s.release THEN held \ {s.active} ELSE held

releasedIfActive(s) == IF s.active = None THEN s ELSE releaseActiveHandle(s)

prepReadBuffer(s, f) == [s EXCEPT !.readFor = f]
prepWriteBuffer_Once(s, f) == [s EXCEPT !.writeFor = IF @ = None THEN f ELSE @]
prepWriteBuffer(s, f) == [s EXCEPT !.writeFor = f]
writeIfUpdatable(s, f) == IF s.intent = "update" THEN prepWriteBuffer(s, f) ELSE s

Asks(f, layout, row) == {[on |-> f, layout |-> layout, row |-> row]}

-----------------------------------------------------------------------------
(* Locks of statements and tables.                                         *)

(* external_lock locks the table in DB2 for LOCK TABLES, and for the       *)
(* statements that change rows without a transaction.                      *)
LocksTable_Lock(command, intent, unsafe) ==
  \/ command = "lock_tables"
  \/ command = "update" /\ intent = "update" /\ unsafe
LocksTable(command, intent, unsafe) ==
  \/ command \in {"lock_tables", "unlock_tables"}
  \/ command = "update" /\ intent = "update" /\ unsafe

instanceForLock(s) == [s EXCEPT !.open = @ \cup {Data}]

external_lock(command, intent, unsafe) ==
  /\ my.stage = "idle" /\ lockedBy = None
  /\ command # "lock_tables" => my' = [my EXCEPT !.stage = "open", !.command = command,
                                                 !.unsafe = unsafe]
  /\ command = "lock_tables" => UNCHANGED my
  /\ lockedBy' = IF command = "lock_tables" THEN intent ELSE None
  /\ IF LocksTable(command, intent, unsafe)
     THEN \/ /\ h' = instanceForLock([h EXCEPT !.intent = intent])
             /\ objLock' = objLock \cup {intent} /\ asked' = Asks(Data, Data, NoRow)
          \/ /\ LockMayFail /\ Data \notin h.open
             /\ h' = [h EXCEPT !.intent = intent]
             /\ objLock' = objLock /\ asked' = Asks(None, None, NoRow)
     ELSE /\ h' = [h EXCEPT !.intent = intent]
          /\ asked' = {} /\ UNCHANGED objLock
  /\ UNCHANGED <<buf, at, held>>

(* F_UNLCK leaves accessIntent as it was, and unlocks accordingly.         *)
external_unlock(command, unsafe) ==
  /\ IF LocksTable(command, h.intent, unsafe)
     THEN /\ h' = instanceForLock(h)
          /\ objLock' = objLock \ {h.intent} /\ asked' = Asks(Data, Data, NoRow)
     ELSE asked' = {} /\ UNCHANGED <<h, objLock>>
  /\ UNCHANGED <<buf, at, held>>

(* MySQL's calls: a statement takes the lock and gives it back, or runs    *)
(* under LOCK TABLES, where start_stmt changes nothing that counts here.   *)
lockStatement ==
  \E command \in {"select", "insert", "update"}, i \in {"read", "update"}, u \in BOOLEAN :
    external_lock(command, i, u)
lockTables == \E i \in {"read", "update"} : external_lock("lock_tables", i, FALSE)
start_stmt ==
  /\ my.stage = "idle" /\ lockedBy # None
  /\ my' = [my EXCEPT !.stage = "open"]
  /\ asked' = {} /\ UNCHANGED <<h, buf, at, held, objLock, lockedBy>>
unlockStatement ==
  /\ my.stage = "open" /\ lockedBy = None /\ my.scan = NoScan
  /\ external_unlock(my.command, my.unsafe)
  /\ my' = [Idle EXCEPT !.stage = "unlocked"] /\ UNCHANGED lockedBy
unlockTables ==
  /\ my.stage = "idle" /\ lockedBy # None
  /\ \E command \in UnlockedBy : external_unlock(command, FALSE)
  /\ lockedBy' = None /\ UNCHANGED my

(* reset ends every statement.                                             *)
reset ==
  /\ my.scan = NoScan
  /\ my.stage = IF lockedBy = None THEN "unlocked" ELSE "open"
  /\ h' = [releasedIfActive(h) EXCEPT !.rndOk = TRUE]
  /\ held' = releaseAnyLockedRows(h)
  /\ my' = Idle /\ asked' = {} /\ UNCHANGED <<buf, at, objLock, lockedBy>>

-----------------------------------------------------------------------------
(* Reading.                                                                *)

Calls == my.stage = "open" /\ ~my.failed
Fails == RequestsMayFail /\ my' = [my EXCEPT !.failed = TRUE]

(* DB2 reads n rows of f from position p on in the direction d.            *)
Reach(p, n, d) == {k \in 0..(n - 1) : p + k * d \in Rows}
Block(f, p, n, d) ==
  [rows |-> [k \in 1..Cardinality(Reach(p, n, d)) |-> Order(f, p + (k - 1) * d)],
   cursor |-> 0, ended |-> Cardinality(Reach(p, n, d)) < n]

(* A read leaves a row locked unless it reached the end.                   *)
reads(s, b, p, d) ==
  /\ at' = IF b.rows = <<>> THEN p ELSE p + (Len(b.rows) - 1) * d
  /\ held' = IF b.ended THEN held \ {s.active} ELSE held \cup {s.active}

(* newReadRequest asks for one row, loadNewRows for a block.               *)
newReadRequest(f, p, d) == Block(f, p, 1, d)
loadNewRows_Again(f, p, d) == Block(f, p - d, RowsToBlock, d)
loadNewRows(f, p, d) == Block(f, p, RowsToBlock, d)

(* The row readNextRow delivers from a block, and what MySQL makes of it.  *)
nextRow_Late(b) == b.rows[IF b.cursor + 2 > Len(b.rows) THEN b.cursor + 1 ELSE b.cursor + 2]
nextRow(b) == b.rows[b.cursor + 1]
Delivers(s, b, scan) ==
  IF b.cursor < Len(b.rows)
  THEN /\ h' = [s EXCEPT !.rrn = nextRow(b), !.assoc = s.active]
       /\ buf' = [b EXCEPT !.cursor = @ + 1]
       /\ my' = [my EXCEPT !.row = b.rows[b.cursor + 1],
                           !.scan = [scan EXCEPT !.pos = @ + scan.dir]]
  ELSE /\ h' = s /\ buf' = b
       /\ my' = [my EXCEPT !.row = NoRow, !.scan = [scan EXCEPT !.ended = TRUE]]

(* doInitialRead, and the row it finds.                                    *)
doInitialRead(s, p, d) ==
  LET b == newReadRequest(s.active, p, d)
  IN /\ reads(s, b, p, d) /\ asked' = Asks(s.active, s.readFor, NoRow)
     /\ Delivers([s EXCEPT !.release = ~b.ended], b,
                 [my.scan EXCEPT !.dir = d, !.pos = p - d, !.ended = FALSE])

readFromBuffer(d) ==
  IF buf.cursor < Len(buf.rows) \/ buf.ended
  THEN Delivers(h, buf, my.scan) /\ asked' = {} /\ UNCHANGED <<at, held>>
  ELSE LET p == at + d
           b == loadNewRows(h.active, p, d)
       IN /\ reads(h, b, p, d) /\ asked' = Asks(h.active, h.readFor, NoRow)
          /\ Delivers([h EXCEPT !.release = ~b.ended], b, my.scan)

index_init(i) ==
  /\ Calls /\ my.scan = NoScan
  /\ LET r == [releasedIfActive(h) EXCEPT !.index = i, !.assoc = None]
         u == useFile(r, i)
     IN /\ held' = releaseAnyLockedRows(h)
        /\ \/ /\ h' = writeIfUpdatable(u, i) /\ asked' = Asks(i, i, NoRow)
              /\ my' = [my EXCEPT !.scan.on = i, !.row = NoRow, !.dup = NoRow]
           \/ /\ i \notin h.open /\ Fails /\ h' = r /\ asked' = {}
           \/ /\ h.intent = "update" /\ Fails
              /\ h' = releaseActiveHandle(u) /\ asked' = Asks(i, i, NoRow)
  /\ UNCHANGED <<buf, at, objLock, lockedBy>>

(* index_read of a key that DB2 finds at p, or beyond all rows; of the     *)
(* rows of a prefix it reads the last one and goes backwards.              *)
index_read(p, d) ==
  /\ Calls /\ my.scan.on \in Indexes
  /\ \/ doInitialRead(prepReadBuffer(h, h.index), p, d)
     \/ Fails /\ UNCHANGED <<h, buf, at, held>> /\ asked' = Asks(h.active, h.active, NoRow)
  /\ UNCHANGED <<objLock, lockedBy>>
index_first == index_read(1, 1)
index_last == index_read(NRows, -1)

index_next ==
  /\ Calls /\ my.scan.on \in Indexes /\ my.scan.dir = 1 /\ ~my.scan.ended
  /\ readFromBuffer(1) /\ UNCHANGED <<objLock, lockedBy>>
index_prev ==
  /\ Calls /\ my.scan.on \in Indexes /\ my.scan.dir = -1 /\ ~my.scan.ended
  /\ readFromBuffer(-1) /\ UNCHANGED <<objLock, lockedBy>>

(* MySQL ends a scan, failed or not.  endRead leaves the block as it is,   *)
(* but nothing reads it any more: a scan begins with a request.            *)
endRead == buf' = Empty /\ at' = 0
index_end ==
  /\ my.stage = "open" /\ my.scan.on \in Indexes
  /\ h' = [releaseActiveHandle(h) EXCEPT !.index = None]
  /\ held' = releaseAnyLockedRows(h)
  /\ my' = [my EXCEPT !.scan = NoScan] /\ asked' = {}
  /\ endRead /\ UNCHANGED <<objLock, lockedBy>>

(* rnd_init answers 0 even when it has failed; rnd_next and rnd_pos then   *)
(* return what it has kept in last_rnd_init_rc.  A scan finds its first    *)
(* row at once, the rows that rnd_pos is called for come one by one.       *)
rnd_init_Data(r) == IF r.active = Data THEN r ELSE useFile(r, Data)
rnd_init(scan) ==
  /\ Calls /\ my.scan = NoScan /\ h.active \in {None, Data}
  /\ LET r == [h EXCEPT !.assoc = None]
         u == rnd_init_Data(r)
         s == writeIfUpdatable(prepReadBuffer(u, Data), Data)
         b == newReadRequest(Data, 1, 1)
         open == [NoScan EXCEPT !.on = Data, !.dir = IF scan THEN 1 ELSE 0]
     IN \/ /\ asked' = Asks(Data, Data, NoRow)
           /\ my' = [my EXCEPT !.scan = open, !.row = NoRow, !.dup = NoRow]
           /\ IF scan
              THEN /\ reads(s, b, 1, 1) /\ buf' = b
                   /\ h' = [s EXCEPT !.release = ~b.ended]
              ELSE h' = s /\ buf' = Empty /\ UNCHANGED <<at, held>>
        \/ /\ RequestsMayFail /\ Data \notin h.open
           /\ h' = [r EXCEPT !.rndOk = FALSE] /\ asked' = {}
           /\ my' = [my EXCEPT !.scan = open, !.row = NoRow, !.dup = NoRow] /\ UNCHANGED <<buf, at, held>>
        \/ /\ RequestsMayFail
           /\ h' = [releaseActiveHandle(u) EXCEPT !.rndOk = FALSE]
           /\ held' = releaseAnyLockedRows(u) /\ asked' = Asks(Data, Data, NoRow)
           /\ my' = [my EXCEPT !.scan = open, !.row = NoRow, !.dup = NoRow] /\ UNCHANGED <<buf, at>>
  /\ UNCHANGED <<objLock, lockedBy>>

rnd_next ==
  /\ Calls /\ my.scan.on = Data /\ my.scan.dir = 1 /\ ~my.scan.ended
  /\ IF h.rndOk
     THEN readFromBuffer(1)
     ELSE my' = [my EXCEPT !.failed = TRUE] /\ asked' = {} /\ UNCHANGED <<h, buf, at, held>>
  /\ UNCHANGED <<objLock, lockedBy>>

rnd_end_Releases_Always(s) == TRUE
rnd_end_Releases(s) == s.rndOk
rnd_end ==
  /\ my.stage = "open" /\ my.scan.on = Data
  /\ IF rnd_end_Releases(h)
     THEN h' = releaseActiveHandle(h) /\ held' = releaseAnyLockedRows(h)
     ELSE h' = [h EXCEPT !.rndOk = TRUE] /\ UNCHANGED held
  /\ my' = [my EXCEPT !.scan = NoScan] /\ asked' = {}
  /\ endRead /\ UNCHANGED <<objLock, lockedBy>>

(* position keeps the number of the row read last.                         *)
positionOf(s) == s.rrn
position ==
  /\ Calls /\ my.scan.on # None /\ my.row # NoRow
  /\ my' = [my EXCEPT !.kept = [pos |-> positionOf(h), row |-> my.row]]
  /\ asked' = {} /\ UNCHANGED <<h, buf, at, held, objLock, lockedBy>>

(* rnd_pos: in a scan for positions, or of the duplicate that a write has  *)
(* just met, which it reads through the instance that met it.              *)
switched(s) ==
  IF s.assoc # None /\ s.active # s.assoc THEN useFileByHandle(releasedIfActive(s)) ELSE s
rnd_pos(pos, row) ==
  IF ~h.rndOk
  THEN my' = [my EXCEPT !.failed = TRUE] /\ asked' = {} /\ UNCHANGED <<h, buf, at, held>>
  ELSE LET r == [h EXCEPT !.rrn = pos]
           u == switched(r)
           f == IF u.active = None THEN Data ELSE u.active
           s == writeIfUpdatable(prepReadBuffer(u, f), f)
           kept == IF r.active = u.active THEN held ELSE releaseAnyLockedRows(r)
       IN \/ /\ h' = [s EXCEPT !.assoc = s.active, !.release = TRUE]
             /\ held' = kept \cup {s.active}
             /\ my' = [my EXCEPT !.row = row] /\ buf' = Empty
             /\ asked' = Asks(s.active, s.readFor, s.rrn)
             /\ UNCHANGED at
          \/ /\ Fails /\ h' = s /\ held' = kept /\ buf' = Empty /\ UNCHANGED at
             /\ asked' = Asks(s.active, s.readFor, NoRow)
          \/ /\ Fails /\ h' = [releasedIfActive(r) EXCEPT !.rrn = pos]
             /\ r.active # u.active
             /\ held' = kept /\ asked' = Asks(r.assoc, r.assoc, NoRow)
             /\ UNCHANGED <<buf, at>>

rnd_pos_Kept == /\ Calls /\ my.scan.on = Data /\ my.scan.dir = 0 /\ my.kept # NoKept
                /\ rnd_pos(my.kept.pos, my.kept.row) /\ UNCHANGED <<objLock, lockedBy>>
rnd_pos_Dup == /\ Calls /\ my.scan = NoScan /\ my.dup # NoRow
               /\ rnd_pos(my.dup, my.dup) /\ UNCHANGED <<objLock, lockedBy>>

-----------------------------------------------------------------------------
(* Changing rows.                                                          *)

(* What was made active for one call only is released after it.            *)
released(s, taken) == IF taken THEN releaseActiveHandle(s) ELSE s
rowsLeft(s, taken) == IF taken THEN releaseAnyLockedRows(s) ELSE held

write_row ==
  /\ Calls /\ h.intent = "update" /\ my.command = "insert" /\ my.scan = NoScan
  /\ LET taken == h.active = None
         u == IF taken THEN useFile(h, Data) ELSE h
         s == prepWriteBuffer(u, u.active)
     IN \/ /\ h' = released(s, taken) /\ my' = [my EXCEPT !.row = NoRow, !.dup = NoRow]
           /\ held' = rowsLeft(s, taken) /\ asked' = Asks(s.active, s.writeFor, NoRow)
        \/ /\ h' = released([s EXCEPT !.assoc = s.active], taken)
           /\ \E r \in Rows : my' = [my EXCEPT !.row = NoRow, !.dup = r]
           /\ held' = rowsLeft(s, taken) /\ asked' = Asks(s.active, s.writeFor, NoRow)
        \/ /\ taken /\ Data \notin h.open /\ Fails /\ asked' = {} /\ UNCHANGED <<h, held>>
        \/ /\ Fails /\ h' = released(u, taken) /\ held' = rowsLeft(u, taken)
           /\ asked' = Asks(u.active, u.active, NoRow)
  /\ UNCHANGED <<buf, at, objLock, lockedBy>>

update_row ==
  /\ Calls /\ h.intent = "update" /\ my.row # NoRow
  /\ LET taken == h.active = None
         s == IF taken THEN useFileByHandle(h) ELSE h
     IN \/ /\ \/ h' = released(s, taken)
              \/ h' = released([s EXCEPT !.assoc = s.active], taken)
           /\ held' = rowsLeft(s, taken) /\ asked' = Asks(s.active, s.writeFor, s.rrn)
           /\ UNCHANGED my
        \/ taken /\ Fails /\ asked' = Asks(h.assoc, h.assoc, NoRow) /\ UNCHANGED <<h, held>>
  /\ UNCHANGED <<buf, at, objLock, lockedBy>>

delete_row ==
  /\ Calls /\ h.intent = "update" /\ my.row # NoRow
  /\ LET taken == h.active = None
         s == IF taken THEN useFileByHandle(h) ELSE h
     IN \/ /\ h' = released(s, taken) /\ UNCHANGED my
           /\ held' = rowsLeft(s, taken) /\ asked' = Asks(s.active, s.active, s.rrn)
        \/ taken /\ Fails /\ asked' = Asks(h.assoc, h.assoc, NoRow) /\ UNCHANGED <<h, held>>
  /\ UNCHANGED <<buf, at, objLock, lockedBy>>

-----------------------------------------------------------------------------
Members ==
  [open |-> {}, active |-> None, refs |-> 0, index |-> None, assoc |-> None,
   release |-> FALSE, rrn |-> NoRow, rndOk |-> TRUE, intent |-> "update",
   readFor |-> None, writeFor |-> None]

Init ==
  /\ h = Members /\ buf = Empty /\ at = 0 /\ held = {}
  /\ objLock = {} /\ my = Idle /\ lockedBy = None /\ asked = {}

Next ==
  \/ lockStatement \/ start_stmt \/ unlockStatement \/ reset
  \/ lockTables \/ unlockTables
  \/ \E i \in Indexes : index_init(i)
  \/ \E p \in 1..(NRows + 1) : index_read(p, 1)
  \/ \E p \in 0..NRows : index_read(p, -1)
  \/ index_first \/ index_last \/ index_next \/ index_prev \/ index_end
  \/ \E scan \in BOOLEAN : rnd_init(scan)
  \/ rnd_next \/ rnd_end \/ position \/ rnd_pos_Kept \/ rnd_pos_Dup
  \/ write_row \/ update_row \/ delete_row

Spec == Init /\ [][Next]_vars

-----------------------------------------------------------------------------
(* Properties.                                                             *)

(* DB2 reads "in use" off activeReferences (through curConnection): it     *)
(* counts one exactly while an instance is active, however scans fail,     *)
(* end, or are interrupted by positioned reads (bumpInUseCounter).         *)
InUseExact == h.refs = IF h.active = None THEN 0 ELSE 1

(* Every request goes to an instance that is allocated, and the buffer     *)
(* that goes with it is laid out for the file of that instance, whichever  *)
(* read or write laid it out (prepReadBuffer, prepWriteBuffer).            *)
RequestsFit == \A q \in asked : q.on \in h.open /\ q.layout = q.on

(* The rows DB2 keeps locked are those of the active instance, the handler *)
(* knows that it must release them, and none is left when the statement    *)
(* has been reset (releaseAnyLockedRows).                                  *)
RowLocksAccounted ==
  /\ held # {} => held = {h.active} /\ h.release
  /\ my.stage = "idle" => held = {} /\ h.active = None

(* The table is locked in DB2 during LOCK TABLES and during an update      *)
(* without transaction, with the lock that unlocking gives back, and not   *)
(* afterwards (external_lock).                                             *)
ObjLockMatched ==
  objLock = CASE lockedBy # None -> {lockedBy}
              [] my.stage = "open" /\ LocksTable(my.command, h.intent, my.unsafe) -> {h.intent}
              [] OTHER -> {}

(* An update, a delete or a positioned read names the row that MySQL has   *)
(* in its record buffer: after blocks were read ahead, after the scan has  *)
(* ended, and for positions kept from another scan (currentRRN).           *)
RightRow == \A q \in asked : q.row # NoRow => q.row = my.row

(* A scan hands over the rows in the order of its file, none left out or   *)
(* repeated where one block ends and the next begins, and ends only when   *)
(* there is none left (readFromBuffer, newReadRequest, loadNewRows).       *)
RowsInOrder ==
  my.scan.on # None /\ my.scan.dir # 0 /\ h.rndOk =>
    /\ my.scan.ended => my.scan.pos + my.scan.dir \notin Rows
    /\ my.row # NoRow /\ ~my.scan.ended => my.row = Order(my.scan.on, my.scan.pos)

=============================================================================
