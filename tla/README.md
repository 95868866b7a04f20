# Verification of the DB2 for i storage engine

This directory models the MariaDB storage engine in `src/` (plug-in `ibmdb2i`)
in TLA+. TLC checks the models on small instances, TLAPS proves theorems about
them for every value of their constants. `PROJECT.json` lists the runs, the
source lines every definition stands for, the hazards and the findings.

## The system

MySQL's SQL layer calls a *handler* (`ha_ibmdb2i`) for every open table of a
connection. The handler turns the calls into requests of the QMYSE interface of
DB2 for i, which it sends through the connection's *bridge* (`db2i_ileBridge`).
A request is either answered at once or, for an asynchronous read, served by a
job of the database while the engine's thread goes on. Tables are files with
*file instances* (opened objects, identified by handles); rows travel in row
buffers whose header holds two counts, the rows asked for and the rows used.

    SQL layer --calls--> ha_ibmdb2i --reads, writes--> IORowBuffer <--stores-- server job
                            |    |                                    |
                            |    +--definition, statistics--> share   | pipe: one message per row
                            |                                         |
                            +--requests--> db2i_ileBridge --QMY_*--> QMYSE, DB2 for i

| part | source | state | operations | interacts with | hard about it, and what makes it correct |
|---|---|---|---|---|---|
| read buffer | `db2i_ioBuffers.*` | row counts, rows, cursor, pipe, pipe state, return code | allocBuf, newReadRequest, readNextRow, pollNextRow, drainPipe, loadNewRows, interruptRead, endRead | server job (shared buffer, pipe), handler | two processes on one buffer, blocking reads, end-of-block messages; rows once each and in order, no read goes on in a buffer given to another |
| statement transactions | `ha_ibmdb2i.cc`, `db2i_ileBridge.*` | `stmtTxActive`, MySQL's registrations, DB2's savepoints | external_lock, start_stmt, doCommit, doRollback, savepoint entry points, close_connection | SQL layer, DB2's commitment definition | long sequences of calls, failing requests; a failed statement leaves nothing behind, COMMIT keeps all, ROLLBACK nothing |
| write buffer, bulk insert | `ha_ibmdb2i.cc`, `db2i_ioBuffers.*` | rows not yet written, identity values, the identity lock, the insert handle | start_bulk_insert, write_row, flushWrite, finishBulkInsert, reset, extra | DB2's table, other connections, MySQL's statement | rows are acknowledged before they are stored; accepted rows are stored or an error is reported, generated values are the ones the statement was told |
| auto-increment | `ha_ibmdb2i.cc` | next value, lock on the table | getNextIdVal, alterStartWith, reset_auto_increment | DB2's identity column, other connections | two connections draw from one counter |
| file instances and handles | `ha_ibmdb2i.*`, `db2i_file.*` | data handle, index handles, active handle and its reference count | info, useDataFile, useIndexFile, releaseActiveHandle, quiesceAllFileHandles | bridge | error paths; every use is released once |
| index and table reads | `ha_ibmdb2i.cc` | active read buffer, current row, relative record numbers | index_*, rnd_*, update_row, delete_row | read buffer, file instances | order of calls, buffered rows when the direction turns |
| table share, preserved handles | `ha_ibmdb2i.*`, `db2i_ileBridge.*` | open tables with use counts, handles locked over a close | get_share, free_share, open, close | all connections | reference counting under locks, failures half-way |
| table statistics | `ha_ibmdb2i.*` | cached counts per share with a flag for each | info, records, invalidateCachedStats | all connections | asked, cached and marked by all connections without a lock; no count that an operation has left behind |
| statement stream, safe strings | `db2i_sqlStatementStream.*`, `db2i_safeString.*` | blocks of statements, bounded strings | addStatement, strcat, strncat | bridge | boundaries |
| LOB collection | `db2i_blobCollection.*`, `db2i_file.h` | a buffer per LOB field, the greatest size per table | getBufferPtr, reallocation after an overflow | reads, all connections | a size shared without a lock, a row that changes between two reads; a row is delivered however long it is |
| conversion descriptors | `db2i_charsetSupport.*` | cache of open descriptors | getConversion | all connections | look-up and insertion without one lock |
| sort sequences | `db2i_collationSupport.*` | sort sequence of a table or an index | updateAssociatedSortSequence | create, add_index | partial updates |
| records in range | `db2i_rir.cc` | bounds of a range | records_in_range | statistics, conversion | boundary keys, NULLs |
| constraints | `db2i_constraints.cc` | constraint list of a table | get_foreign_key_list, referenced_by_foreign_key, ... | bridge | retry with a larger buffer |
| table creation and DDL | `ha_ibmdb2i.cc`, `db2i_file.cc` | none beyond the request | create, rename_table, delete_table, add_index | bridge | several requests, one of them failing |
| field conversion | `db2i_conversion.cc`, `db2i_misc.*` | none | convertFieldChars, convertMySQLtoDB2, convertDB2toMySQL | handler | digits and lengths |
| bridge and spaces | `db2i_ileBridge.*`, `db2i_validatedPointer.h` | parameter space, errors, locked handles | doIt, registerPtr, one method per request | QMYSE | several connections register memory |
| error texts | `db2i_errors.*` | none | getErrTxt, reportSystemAPIError | | wording |
| character conversions | `db2i_myconv.*`, `db2i_iconv.h` | conversion tables, pointers and counts of a loop | dmap_open, myconv_dmap | conversion | twenty loops that differ in small things; malformed text, ends of buffers, substitutions |
| globals | `db2i_global.*` | heap, constants | allocation | | |
| QMYSE structures | `special/include/qmyse.h` | | | | layout of requests |

What is hard to test in this code is listed, line by line, under `hazards` in
`PROJECT.json`.

## The plan

Modules are written in the order of what a failure would cost: rows read wrong,
rows lost, transactions wrong, tables mistaken for one another, text converted
wrong; then the rest.

| # | modules | of | state |
|---|---|---|---|
| 1 | `AsyncRead`, `RowCursor` | read buffer | done, proved |
| 2 | `StmtTx`, `SqlTransaction` | statement transactions | done, proved with the refinement |
| 3 | `BulkInsert` | write buffer, auto-increment | done, proved |
| 4 | `TableShare`, `NamedLists` | shares, preserved handles, definition files, DDL | done, proved |
| 5 | `ConversionCache` | conversion descriptors | done, proved |
| 6 | `Dmap`, `Encodings`, `Characters`, `CharColumn` | the twenty loops of `myconv_dmap`, each against the encoding's own definition; text columns | done, proved |
| 7 | `HandleUse` | the file instances of a handler around scans, positioned reads and changes | done, proved |
| 8 | `FieldConversion`, `KeyAccess` | numeric edges of values other than text; reads by key and the bounds of a range against the rows MySQL means; with `CharColumn`, the values of a row (`RowValues`) | done, proved |
| 9 | `LobRead`, `TableStats`, `SharedTable` | what else a share keeps for all connections: sizes of LOBs, statistics; with `TableShare` and `IndexNames`, all that connections share of a table | done, proved |
| 10 | `IndexNames` | names and sort sequences of indexes through create, rename and drop | done, proved |
| 11 | `ForeignKeys` | reading constraints back, with a second request | done |

`AsyncRead` implements `RowCursor` and `StmtTx` implements `SqlTransaction`: the
abstract modules say what a caller sees, without buffers, jobs or savepoints.
Left to prove: the conversion cache with lookups that fail.

## The modules

Every definition that stands for code has its lines in `PROJECT.json` (`map`).
A definition `Name_Variant` is `Name` with a plausible mistake in it. No
specification uses it; `PROJECT.json` (`mutants`) says which property fails when
it takes the place of `Name`.

### AsyncRead and RowCursor: the read buffer

| TLA+ | code |
|---|---|
| `allocBuf`, `newReadRequest`, `endRead`, `releaseAnyLockedRows` | the methods of those names; the caller's order `endRead`, `allocBuf` is `EndReadFirst` |
| `readNextRow`, `rowAvailable`, `pollNextRow`, `drainPipe`, `loadNewRows`, `pollMessages`, `finishPoll` | `readNextRow` split where it reads the used row count or waits in `read(2)` |
| `interruptRead`, `checkReturnCode`, `translateErrorCode` | the calls inside them |
| `ServerStoresRow`, `ServerPosts`, `ServerEnds`, `ServerDies`, `StrayStoresRow` | the server job (external), which stores a row, advances the count, then posts |

`RowCursor` has a cursor, a request and its end: `FetchRow`, `FetchEnd`,
`FetchError`. The refinement mapping `Cursor` maps a row returned by
`readNextRow` to `FetchRow`.

* `asyncread`: four rows, up to three per block, batches of two, a pipe of two:
  the block ends before, with and after the range, the batch ends within a block
  and the pipe fills. Synchronous and asynchronous. `ReloadFindsServerQuiet`,
  `NoStrayRead`, `CountsAreBacked`, `CursorSpec`.
* `asyncread_live`: `ReadReturns`, a call of `readNextRow` returns. Fairness: the
  engine's thread takes steps that need no signal, the server job serves while
  it lives. Both are threads of a preemptive system, and neither is asked to be
  fair about signals. A read that a failed `read(2)` has left running may
  disturb the count of the next block; such behaviours (`CountDisturbed`) are
  excluded, because a call may then wait for ever.

Proved (`AsyncReadProofs`), for all sizes, with `EndReadFirst` and without
`PipeReadMayFail`: the type invariant, which is not checked apart from that,
`NoStrayRead`, `ReloadFindsServerQuiet`, `CountsAreBacked`, and that every step is a step of `RowCursor` or a stutter.
The inductive invariant `IInv` is needed because none of these is inductive:
that a reload finds the job quiet follows only from where every row of the block
is (stored, counted, posted, fetched, consumed) and from what the phase of the
engine and the job's own state allow.

Seen, without a run of its own:
* with `PipeReadMayFail` in `AsyncRead.cfg`, `NoStrayRead` fails: a `read(2)` that fails puts
  `errno` in `rc`, and `interruptRead` interrupts nothing when `rc` is set
  (`db2i_ioBuffers.cc:523`, `db2i_ioBuffers.h:242`);
* with `ServerMayDie` in `AsyncReadLive.cfg`, `ReadReturns` fails: the job ends,
  `read(2)` answers 0, `pollNextRow` leaves `rc` 0 without a row
  (`db2i_ioBuffers.cc:167`) and the loop of `readNextRow` (491) polls for ever,
  although `db2i_ioBuffers.h:214` promises "Null if no more rows are available or
  an error occurred";
* with `EndReadFirst = FALSE`, `NoStrayRead` fails as well: `prepReadBuffer` may lay out a
  buffer whose read runs (`ha_ibmdb2i.cc:2799`, `db2i_ioBuffers.h:192`);
* a synchronous read that ends with the data is taken for one whose row is still
  locked: its return code has been translated when it is compared
  (`db2i_ioBuffers.cc:87-89`).

### StmtTx and SqlTransaction: statement transactions

| TLA+ | code |
|---|---|
| `external_lock`, `start_stmt`, `doCommit`, `doRollback`, `beginStmtTx`, `commitStmtTx`, `rollbackStmtTx`, `close_connection` | the functions of those names |
| `SetSavepoint`, `RollbackToSavepoint`, `ReleaseSavepoint`, `genSavepointName` | the savepoint entry points |
| `StartStatement`, `ChangeRow`, `EndStatement`, `EndTransaction`, `LockTables`, ... | MySQL's calls in the order of its SQL layer (external) |

`SqlTransaction` keeps a transaction as a sequence of changes and savepoints
with the statement's mark; DB2's commitment definition in `StmtTx` is mapped to
it by dropping the engine's own savepoints.

* `stmttx`: three changes, two savepoint names, two set at a time: a statement
  before, between and after savepoints that hide each other. `TransactionSpec`
  (the refinement), `PendingIsRegistered`.
* `stmttx_locked`: with LOCK TABLES and `transaction_unsafe` set at any time.
  `ActiveMeansMarked`, `FailedStatementUndone`, `EndedStmtTxHasBegun`.

Proved (`StmtTxProofs`), for any changes and savepoint names:
* the types, always. The marks of DB2's savepoints rise within the log (`Sound`),
  or rolling back would lengthen it;
* `EndedStmtTxHasBegun`, if SET reads no table, from `BegunInv`: what the statement's
  registration says of autocommit and of `stmtTxActive`. Also when setting the
  savepoint fails;
* `PendingIsRegistered`, without LOCK TABLES and with `transaction_unsafe` left alone
  inside transactions, from `RegisteredInv`. Also when setting the savepoint fails;
* `ActiveMeansMarked` and `FailedStatementUndone`, if SET reads no table and savepoints
  are set when asked for, from `StmtInv`: the predefined savepoint is set once, where
  the statement began, and no savepoint of the user's is behind it;
* the refinement `TransactionSpec`, under all four conditions, from `SqlInv`: the savepoints
  DB2 has are, but for the engine's own, the ones `SqlTransaction` has, name by
  name and mark by mark. MySQL's list of savepoints, DB2's and the log change in three
  ways under the same calls, and only the marks tie them together.
Each condition is one of the constants below that make a property fail.

Seen: with `SetReadsTables` in `StmtTx.cfg`, `EndedStmtTxHasBegun` fails:
`SET autocommit = (SELECT ...)` from a DB2 table changes autocommit between
`external_lock` and `doCommit` (`ha_ibmdb2i.cc:2664`), which ends a statement
transaction that never began, against the assertion at `db2i_ileBridge.cc:1421`.
With `SetSavepointMayFail`, `ActiveMeansMarked` fails
(`ha_ibmdb2i.cc:1978` drops the answer, `db2i_ileBridge.h:396`). With
`LocksTables`, `PendingIsRegistered` fails: from the second transaction under
LOCK TABLES on, COMMIT and ROLLBACK do not reach the engine. `genSavepointName`
reads behind its buffer (`ha_ibmdb2i.cc:459`); the names stay distinct.

### BulkInsert: write buffer and generated values

| TLA+ | code |
|---|---|
| `start_bulk_insert`, `write_row`, `flushWrite`, `finishBulkInsert`, `reset`, `extra_*` | the methods of those names |
| `nextIdVal`, `alterStartWith`, `predicts`, `predictionAfter` | `getNextIdVal`, `alterStartWith` and the bookkeeping around them |
| `StoreRow`, `WriteRows`, `OtherWrites` | DB2's table and other connections (external) |
| `EndStatement` | MySQL commits or rolls back, then resets the handler |

* `bulkinsert`: three rows, blocks of one and of two, values up to 4, explicit
  values 1 and 3, any request may fail: a block fills exactly, a duplicate occurs
  in each place, the identity column reaches its end, a statement fails between
  two requests. `PredictionExact`, `AcceptedAccounted`, `NothingHeld`, and
  `SingleRowsSettled`, which says what becomes of a statement's rows when each is
  written at once. `FlushedSizes` are the sizes of blocks whose last block MySQL
  has `extra` write before the statement ends.
* `bulkinsert_lost` (violation): blocks of two; the last block is written after
  the statement has succeeded and its duplicate key is dropped.

Proved (`BulkInsertProofs`): `NothingHeld` from `HeldInv`, which says where the
handle and the lock come from at each point of a statement, whatever fails. For
`RetryResumes` and blocks of one row where FLUSH_CACHE is met, as in the run:
`PredictionExact`, `AcceptedAccounted` and `SingleRowsSettled`, for any rows, values and
sizes of a block. The invariant (`InsertInv`) ties the rows stored, the rows held
and what the statement was told of each together, between calls (`Aligned`) and
within a write (`Flushing`), where the last row is not acknowledged yet and a first
part of the block may be stored: the predicted value is the table's next one plus
the number of rows in the buffer that ask for one. What a block stores
(`WriteRowsDoes`) is shown by induction over its rows.

Assumed of QMYSE: a block written again after a duplicate goes on behind the
rows already stored (`RetryResumes`); with `FALSE`, `PredictionExact` fails, and
which of the two holds cannot be told from this repository. Seen, with blocks of
two: the rows of a failed statement are written by `reset`
(`ha_ibmdb2i.cc:3353`), with autocommit the last block is written after the
commit, and with `2` in `FlushedSizes` `AcceptedAccounted` fails, since `extra`
drops the error of the block it writes.

### HandleUse: the file instances of a handler

| TLA+ | code |
|---|---|
| `useFile`, `useFileByHandle`, `releaseActiveHandle`, `bumpInUseCounter`, `releaseAnyLockedRows` | `useDataFile` and `useIndexFile`, and the helpers of those names |
| `index_*`, `rnd_*`, `position`, `write_row`, `update_row`, `delete_row`, `reset`, `external_lock` | the methods of those names |
| `doInitialRead`, `readFromBuffer`, `newReadRequest`, `loadNewRows`, `nextRow` | `doInitialRead` and the synchronous read buffer |
| `reads`, `Block`, `at`, `held`, `objLock` | DB2's cursors, row locks and locks on the table (external) |

`h` holds the members of `ha_ibmdb2i` that the calls share; `asked` remembers what
the last call asked of DB2: which instance, with a buffer laid out for which
file, for which row.

* `handleuse`: three rows, a key in their order and one in another, blocks of
  two, every request may fail, statements alone and under LOCK TABLES. A scan
  meets the end of the rows with and after the end of a block, positioned reads
  fall between scans of other files. `InUseExact`, `RequestsFit`,
  `RowLocksAccounted`, `ObjLockMatched`, `RightRow`, `RowsInOrder`.

Proved (`HandleUseProofs`), for every number of rows and indexes, order of keys and
size of a block: `InUseExact`, `RowLocksAccounted`, `RightRow`, `RowsInOrder`, always;
`RequestsFit`, if the instance for a lock can be had; `ObjLockMatched`, if in
addition UNLOCK TABLES alone ends LOCK TABLES. The invariant adds which scan goes
with which active instance, that the instance a row number belongs to is
allocated, and that a lock on a row implies the mark to release it. For `RightRow`
(`RowKnown`): after a call that has answered with a row, the number kept is that
row's. For `RowsInOrder` (`Walking`): the rows of the block still unread are the next
ones of the file, and DB2's cursor stands as many places ahead of MySQL's as there
are.

Seen: with `LockMayFail`, `RequestsFit` fails: `external_lock` calls `lockObj` with
handle 0 (`ha_ibmdb2i.cc:2011-2018`). With `"begin"` in `UnlockedBy`,
`ObjLockMatched` fails: START TRANSACTION ends LOCK TABLES with a command that
`external_lock` does not know, and DB2's lock stays. `index_end` always releases,
because it clears what `index_init` returned first (2651); MySQL does not call it
after a failure.

### TableShare: shares, preserved handles, definition files

| TLA+ | code |
|---|---|
| `open`, `close`, `use` | `ha_ibmdb2i::open`, `close`, `useDataFile` |
| `get_share_Found`, `free_share`, `preserveShare` | `get_share`, `free_share` |
| `PreservedAs`, `Found`, `removed`, `pair`, `preservedAfterClose` | the bridge's list of preserved handles |
| `doFileIDsMatch`, `fidWritten`, `deleteAssocFiles`, `renameAssocFiles` | the `.FID` file |
| `create*`, `delete_table*`, `rename_table*` | DDL, in the steps between which a crash may fall |
| `endTransaction`, `close_connection`, `crash` | ends of transactions, connections and the server |

* `sharedtable` (of `SharedTable`, see below): two connections, two handlers, two
  names, three files in all and one crash: a name is used by three files one after
  the other, and a handle preserved by one connection meets the other connection's
  DDL. `UseCountExact`, `HandlesAccounted`, `RightFile`, `FidMatches`. The run does
  not check for deadlock: files are bounded, so that in the end nothing may be left
  to do.

Assumed of DB2: a file is dropped only when all its instances are preserved ones
of the dropping connection; the end of a connection gives its instances back;
`QMY_ERR_PEND_LOCKS` is answered if and only if a transaction has changed rows
through that instance.

Proved (`SharedTableProofs`), for finitely many connections and handlers, and any names,
files and crashes:
* `FidMatches` from `FidInv`, which adds that there is no `.FID` file without a table that
  DDL or a crash explains, that a file's identity is unique to it, and what a DDL
  statement in progress has done;
* `UseCountExact`, if no connection ends with handles preserved (`EndsPreserving`): the count
  is the number of open handlers of the name plus that of the preserved handles of
  the name in all lists (`Counted`). `NamedLists` says what the list does,
  the lemmas from `PrependCount` to `WithoutNameCount` how its changes change the count;
* `HandlesAccounted`, if moreover rows are changed through data files only, so that a
  refused close is always of the instance `close` preserves (`LocksOnData`);
* `RightFile`, if moreover DB2 renames no file that others have instances of, from
  `ShareInv`: all instances and preserved handles of a name are of the file its
  share describes, which is the file of the name but while the one connection that
  has instances of it drops it.

Seen: with `ChangeKinds = {"data", "index"}`, `HandlesAccounted` fails: `close`
drops the return code of `deallocateFile` for index handles
(`ha_ibmdb2i.cc:755`), although `db2i_ileBridge.h:296-299` says that a file with
locks "remains allocated but must be deallocated later". With
`EndsPreserving`, `UseCountExact` and then `RightFile` fail
(`db2i_ileBridge.cc:103`): nobody gives back the share of a handle preserved by
a connection that has ended. With `RenamesUnderHandles`, `RightFile` fails
(`ha_ibmdb2i.cc:2239`). A handle preserved by an idle connection keeps DB2 from
dropping the table for the others.

### LobRead, TableStats, SharedTable: the rest of the share

| TLA+ | code |
|---|---|
| `prepareReadBufferForLobs`, `readFromBuffer`, `handleLOBReadOverflow`, `cleanupBuffers`, `getSizeToAllocate` | the methods of those names |
| `reallocBuffer`, `compareActualSize`, `storeActualSize`, `allocateAgain` | `adjustLobBuffersForRead`, `reallocBuffer` and `updateBlobFieldActualSize`, split where they touch the shared size |
| `info`, `records`, `retrieveTableInfo` | the methods of those names, up to the request and from its answer |
| `cacheValue`, `setFlag`, `isInited`, `invalidateCachedStats` | `CStats`, a flag being read in one step and written in another |
| `flushWrite`, `delete_row`, `delete_all_rows` | the operations that invalidate, after the rows have changed |
| `ChangeLob`, `ChangeRows`, `commit`, `rollback`, `OtherProgram` | DB2's rows, transactions and other programs (external) |

`SharedTable` composes `TableShare`, `LobRead`, `TableStats` and `IndexNames`. They
share no variable: one of them (`part`) moves in a behaviour of the run, and
`PartsTheorem` says that each behaves as it does alone.

* `sharedtable`: besides the handles, two readers of a column of up to three bytes
  with one byte allocated at first: a LOB grows from below to above what is
  allocated, twice, and two readers are in `reallocBuffer` with different lengths.
  Two connections ask for statistics of up to two rows, the least number that
  `info` takes from the cache: a request overtakes another one, a change falls
  between each two steps of a call. `LobDelivered`, `CountCurrent`. Rows, and
  connections of the latter two, are symmetrical: no definition tells them apart.

Proved (`SharedTableProofs`), for any connections, rows and sizes: `LobDelivered`
where a unit of a LOB's length is a byte, from what a reader that nothing has
disturbed knows at each step of its allocation; `CountCurrent`, from what a call
that no change has overtaken has in hand or has stored. Both also when calls
interleave at each access to the share.

The properties have exemptions, which are what the code does not provide for:
* `disturbed`: the row has grown between the two reads, or another reader's lesser
  size was stored between this one's store and its allocation. Both end in an
  error. `db2i_file.h:148` says of the second "If a race condition causes the
  lesser of two values to be stored, that's OK"; it is not, because
  `getSizeToAllocate` reads the size back (`db2i_blobCollection.cc:110`);
* `missed`: a rollback (which invalidates nothing), a change by another program,
  or one that overlaps the call that caches. Until the next answer of DB2, `info`
  gives the wrong count.

Seen: with `Unit = 2`, `LobDelivered` fails: the length of a DBCLOB counts
characters of two bytes, as `convertDB2toMySQL` knows, and `adjustLobBuffersForRead`
(`ha_ibmdb2i.cc:3062`) allocates as many bytes. `isInited` is true if any of its
flags is set (`ha_ibmdb2i.h:100`), so that after `records`, which caches the count
only, `info` answers with values for deleted rows, mean length and I/O that were
never cached. With `HA_STATUS_CONST`, `info` takes the count from the cache, asks
DB2 for the rest and caches the old count again, with its I/O estimate multiplied
once more by `IO_SIZE` (1511).

Left out: failing requests around LOBs, several LOB columns, the rounding of the
protected page; the time of the last change and the values cached beside the count.

### IndexNames: indexes, their names and sort sequences

An index of MySQL is a file of its own in DB2, whose name the engine makes from
those of the key and the table whenever it needs it.

| TLA+ | code |
|---|---|
| `createTable`, `dropTable`, `renameTable` | `create`, `delete_table`, `rename_table`, each with the statements it sends at once |
| `appendQualifiedIndexFileName`, `indexFile`, `openedFile` | the method of that name, and the constructor of `db2i_file` that opens an index |
| `indexQuery`, `matches`, `bytesToRetain`, `renamed` | the query for the indexes of the old name, and their new names |
| `updateAssociatedSortSequence`, `buildIndexFieldList`, `tableSort` | the sort sequence of an index or a table, column by column |
| `Taken`, `Acceptable` | DB2's names in a library (external) |

* `sharedtable`: five tables, among them `t`, `x___t` and `_t`, whose names end in
  each other or match each other as patterns, one in another library and a
  temporary one; seven definitions, with a key `i___x` that makes the index name
  `i___x___t` for table `t` as key `i` does for `x___t`, with two sort sequences
  in one key and with a character set that has none. Names are kept to 8
  characters and refused from 13 on, so that each length is met from both sides.
  What is wrong with a rename is wrong with two tables and one pattern; no call
  depends on more than the indexes of one library. `IndexesServe`.

Proved (`SharedTableProofs`), for any tables, definitions and lengths: `IndexesServe`.
Assumed of the constants are the forms of paths and definitions, that a table's
primary key is not among its other keys, and that no sort sequence is called like
the marks for none and for a refused one. The invariant (`NamesInv`) asks an index in
DB2 for each key, on that table and under the name the key is opened by. A rename
keeps it because a name that was not cut and ends in delimiter and old table name
begins with the key's name (`FoundByName`); the sort sequence of a key is followed
column by column, by induction (`FieldListSteps`, `FieldListSorted`).

`IndexesServe` leaves out keys whose name and delimiter are longer than what is
preserved (`KeptWithDelimiter`): a rename cuts the delimiter off with the rest
(`ha_ibmdb2i.cc:2186-2214`), and the index is not found again under the new
name. In DB2 that takes a key's name of more than 107 bytes.

Seen: for `typeNone`, which only renames use, `appendQualifiedIndexFileName`
compares the length of the table's name with a pointer it has not set
(`db2i_file.cc:475-499`), so that any rename may be refused; the model lets every
call be refused. `buildDB2ConstraintString` takes the name of the parent table for
that of its library as well (`db2i_constraints.cc:107-109`, 173-175).

Left out: the text of statements, default values, fulltext and hash keys, and
`add_index` and `prepare_drop_index`, which the server the plug-in is built for
does not call.

### ForeignKeys: reading constraints back

| TLA+ | code |
|---|---|
| `get_foreign_key`, `answerCall` | the beginning and the end of `get_foreign_key_list` (a list) and `get_foreign_key_create_info` (a text) |
| `constraints`, `constraintsAgain` | their two requests, through `db2i_ileBridge::constraints` |
| `firstOf` | the loop that puts the text together until it is full |
| `AddConstraint`, `DropConstraint` | programs that change DB2's constraints in between (external) |

* `foreignkeys_space` (violation): three constraints of which two do not fit the
  first space. `db2i_constraints.cc:314` and 486 say of the second space
  "Get length of space that's needed". `db2i_ileBridge::constraints` hands that
  length on only if the first request was answered (`db2i_ileBridge.cc:831`), so
  that the second one is made with whatever the variable held: it may be refused
  again (`SecondSpaceSuffices`), and a table with many constraints is said to have
  no foreign keys.

Left out: `referenced_by_foreign_key`, a query that keeps nothing, and
`free_foreign_key_create_info`.

### ConversionCache: conversion descriptors

| TLA+ | code |
|---|---|
| `Hit`, `Miss`, `Refuse`, `FillBlock`, `LockHash`, `InsertConversion` | `getConversion` |
| `ScanRecords`, `ClaimRecord` | `myconv_open` |
| `StopsAt`, `FindFrom`, `FindTo`, `PutPage` | `myconvGetES`, for source and target |
| `FillScheme`, `FailScheme` | `getEncodingScheme` |
| `BuildTables`, `HasTables`, `SourceScheme` | `dmap_open`: which tables are built for which schemes |

A descriptor is the number of its record. `conv` says what a record's tables
convert. dmap_open asks for the schemes over and over; the model asks once for
each code page.

* `conversioncache`: two threads, three character sets (one without a code page,
  one without tables), both directions, five records, three entries, one opener
  at a time, lookups that may fail: records run out, the same conversion fails
  more than once, a lookup that failed is met again. `GivenConverts`,
  `HashIsMap`, `RefusedWhenFull`.
* `conversioncache_race` (violation): two openers at a time.

Proved (`ConversionCacheProofs`): the three properties for any numbers, if
openings do not overlap (`OneOpener`, which nothing in the code guarantees) and
lookups do not fail. The invariant adds that the list of schemes is right but
for the one entry being filled, that a record nobody took has no tables, and
what the only opener has found so far.

Not modelled: `my_hash_search` running into records that another thread is
moving may do worse than miss.

### Dmap, Encodings, Characters, CharColumn: text

`myconv_dmap` has a loop for each pair of kinds of encoding. A step of `Dmap` is
a turn of a loop: `Turn` says what it does with the rest of the text, `Iterate`
moves the pointer, the count and what has been written.

| TLA+ | code |
|---|---|
| `DMAP_S2S` ... `DMAP_82E`, `DMAP_U2U` | the branches of those names |
| `From8`, `PairOf8`, `Four8`, `NoSequence` | the part "82U" that four loops repeat |
| `To8`, `PutUtf8`, `PutPlain8`, `PairTo8` | the part "U28" that five loops repeat, with and without its test for surrogates |
| `ToS`, `ToD`, `ToE` | the ends of the loops to single-byte, double-byte and EUC pages |
| `S2S`, `D12U`, ... `U2M3` (constants) | the tables of `dmap_open`; `TheS2S` and the others of `MCCharColumn` fill them as it does |
| `StoreRow`, `FetchRow`, `Failed`, `RoomInRow` | `convertMySQLtoDB2`, `convertDB2toMySQL` for text, with `convertFieldChars` |

`Encodings` defines UTF-16 and UTF-8 as the Unicode standard does, and `Characters`
what the loops of `Dmap` are compared with: which bytes are a character of a code page
or of Unicode (`IsCharacter`), what it becomes (`Form`) and when a substitution is to
be counted (`Substituted`, `ByChance`), or which bytes are malformed (`NoCharacter`)
and which of those iconv lets through (`Tolerated`). A text is a sequence of *items*,
each the bytes of a character, the bytes it becomes and what may be counted for it;
the last one may be malformed. `MCCharColumn` makes the items of the run from small
code pages by itself, and TLC then finds that they are items in the sense of
`Characters` (`TextsAssumption`), so that the two definitions check each other.

* `rowvalues` (of `RowValues`): five small code pages (two single-byte, one double-byte, two EUC
  with both single shifts) and the three Unicode encodings; all loops, every text
  of up to two characters and every malformed end, in rooms from 0 to 8 bytes;
  columns of six character sets, CHAR and VARCHAR, of up to two characters. A turn
  depends only on four bytes, so that two characters suffice for a loop to go
  wrong and for the next character to show it. `ReadsInside`,
  `OverrunBounded`, `ConvertedSoFar`, `RefusesExactly`, `SubstitutionCounted`,
  `InColumn`, `RoundTrip`. A conversion ends, so that deadlock is not checked. The
  run checks the values of other types as well (see below), in behaviours of their
  own: `convertMySQLtoDB2` and `convertDB2toMySQL` treat one field at a time and
  keep nothing.

Seen: with `StoresPairs`, columns hold supplementary characters, and `RoundTrip`
fails: a column of utf16 or utf8mb4 has one 16-bit unit a character
(`db2i_conversion.cc:588`, 1165), so that a value within its length may come back
cut, without an error or a warning.

Proved (`CharColumnProofs`), for every text, room, code page and table: `ReadsInside`
and `OverrunBounded`. Each loop is shown to take no more than is left and to
write at most four bytes a turn; a lonely byte of a 16-bit text, for which there
need be no room, is never converted. Only with both facts are the properties
inductive.

Proved as well, for every descriptor, all its tables and texts of any length:
`ConvertedSoFar`, `RefusesExactly` and `SubstitutionCounted`. They are assumed
(`TextsAssumption`) to be texts in the sense of `Characters`, with a malformed
sequence at most at the end, and of the tables only `TablesFit`: entries have two
bytes, and 0xFFFD and the lead surrogates, which a page never has for characters, are
none of the page's own. The heart are two theorems on one turn of a loop with any bytes
behind: by `OkTurn` it takes just the bytes of the character in front, writes its form
and counts as it should, by `BadTurn` it stops at what is no character (`LenientTurn`
says what becomes of what iconv lets through). They go loop by loop: tables need a
case for each of their lengths, and Unicode the arithmetic of the bits that UTF-8
spreads over bytes and UTF-16 over surrogates. Then a text is unfolded (`TextAt`): the
bytes behind the first n characters begin with those of the next. The invariant `KInv`
says that a conversion is between two characters, has written the forms of those in
front and counted their substitutions, or has passed a malformed end; without the
count of bytes left, which `KInv` fixes, none of the properties is inductive.

Proved for every column and value, without `StoresPairs`: `InColumn`
(`ColumnsStayInside`) and `RoundTrip` (`ColumnsRoundTrip`). What a column is taken to
be is `IsColumn`, which TLC evaluates for the columns of the run
(`ColumnsAssumption`): the two descriptors of its character set, a value of at most
its length, and character by character, what the tables hold (`ComesBack`): each takes
at most `mbmaxlen` bytes and one byte or one 16-bit unit in the row, and has its way
back, unless a substitution is counted in one of the directions. What the theorems
add is all that is said of values: that padding, lengths, room and loops neither lose
nor add a character, whatever the length. `SentItems` are the characters that are sent,
a CHAR's padding being characters as well; the row has room for a whole number of
them, `KeptCount`, all that a VARCHAR has and as many as a CHAR is long (`Room`). The
inductive invariant `RInv` says for each of the two conversions that it is behind the
first n characters and has written their forms (`StoringAt`, `FetchingAt`), and of a
row that is fetched, that it holds all the characters it keeps, that these come back
(`AllComeBack`) and that, without a warning, no substitution was counted for sure; for
UCS-2 and UTF-16, that bytes were copied (`Copying`). What carries it over from
storing to fetching is that a conversion without an error stops only behind the
characters that are kept (`StoreLeave`). `InColumn` follows from their number;
`RoundTrip` needs besides that spaces which are not kept are those that MySQL trims
(`SentNormal`). A code point that the page does not define stops the loop whatever
follows it (`UndefinedStops`), so that such a value is refused and never kept.

Excluded from the properties, as the definitions say, because the code is known
to do otherwise:
* T2S moves its pointer six bytes behind a surrogate pair and its count by two
  (`db2i_myconv.cc:2970`), and goes on in bytes that are not the text's
  (`ReadsInside`, `ByItems`);
* U2D and T2D compare the byte behind the one they have written, and twice the
  unit, with the substitution characters (3544); D28 compares the converted unit
  with the source's; the EUC loops the byte behind, for single bytes of the
  second table; and the tables of S2U and S28 have no source substitution
  character, because `dmap_open` looks for it in a table of another kind (346):
  substitutions may be counted, or not, by chance (`Item`'s `subs`);
* 82S and 82U take 0xF8 to 0xFC for 0xF0 to 0xF4, U+D800 to U+DFFF in three bytes
  are let through, and U2S, U2D, U2E and U28 take surrogates for characters
  (`Lenient`);
* the last character may run over the end of the room by up to three bytes; in a
  column of utf8mb4 a supplementary character does so (`InColumn` fails with
  `StoresPairs`).

Left out: columns that are stored without conversion (binary, UCS-2, UTF-8), and
the loops from Unicode to EUC for units below 0x80 that the page does not have:
they would index in front of their tables.

### FieldConversion, KeyAccess: numbers and dates, keys and ranges

`FieldConversion` holds operators only: what DB2 gets for a value and what MySQL
stores when it comes back. `KeyAccess` puts one row in a table with an index on
its columns, and asks for it.

| TLA+ | code |
|---|---|
| `Supported`, `db2Width`, `db2Precision`, `truncationAmount`, `bytesToCopy` | `getFieldTypeMapping` |
| `pack`, `unpack`, `shownDigits` | `bcdAssign`, `bcdGet` and the loops around them |
| `toInteger`, `reversedWide`, `signByte`, `fromInteger` | the integer branches and the macros of `db2i_global.h` |
| `toDate`, `fromDate`, `toYear`, `fromYear`, `bitsOfRow`, `bitsOfKey`, `fromBits` | the branches of those types |
| `prepareRowForWrite`, `mungeDB2row`, `index_read`, `records_in_range` | the methods of those names |
| `LoBound`, `HiBound`, `samePart`, `reuseLiteral`, `boundPart` | the loop of `records_in_range` over the parts of a key |
| `myOrder`, `db2Order`, `db2Finds`, `isMeant`, `IsRange` | how MySQL and DB2 order values and read by key; the ranges MySQL asks for (external) |

* `rowvalues`: a column of each type with its least, greatest and turning values
  (decimals of odd and even precision, with and without places that DB2 has no
  room for; `MaxDecPrecision` is 5), and keys of two parts, with and without NULL.
  A value's conversion depends on that value only and a bound on one part, its
  flags and the parts before it, so that one row and two parts suffice.
  `ValueSurvives`, `ReadFinds` (the row is found if and only if the flag means
  it), `RangeMeant` (the bounds let in all rows of the range, and no
  others but NULLs and those at its ends).

Proved (`RowValuesProofs`), for every table of columns that `IsField` and `IsValue`
describe, of any number and with any values: `ValueSurvives`, `RangeMeant`, and, with
`PrefixReads` off, `ReadFinds`. The invariant is short (`AccessInv`: DB2's row is what was made of
MySQL's); the work is in what the conversions compute. `EveryValueSurvives` shows for
each kind of type that one conversion undoes the other: the nibbles of a packed decimal,
counted from its end, are the number's digits for odd and even precisions, with and
without places cut off; the bytes in front of a widened integer are its sign, so that
the store finds that it fits. `OrderKept` shows for each kind that the order of what is
sent is the order of the values: signed integers because a byte is turned round on both
sides, zero dates because their substitute is before every other date.
For `RangeMeant`, `BoundsBuilt` follows the loop of `records_in_range` part by part:
each bound is the one its limits call for, and the literal it points at, its own or the
one it shares, is its part's still when later parts have added theirs. `InsideIs` says
what a range is: the row has the parts the limits have in common (were it ahead of one
limit at one of them, it would be behind the other), and the last parts decide.
`CommonPart` and `LastPart` then read the same out of the bounds, for each combination of
flags, NULLs and missing parts, with DB2's order for MySQL's. That the low bound is
`IsNull` only if the row has to be NULL needs that a range that would start with NULL
and end with a value is refused (`failed`).

Not covered by `IsField` and `IsValue`: BIT(64), of which the engine copies nine bytes
out of a number of eight; dates of the years 0 and 1, far below the range MySQL supports,
which DB2 does not have or which stand for the zero date; decimals that are a negative
zero, which MySQL does not store. A FLOAT's or a DOUBLE's two zeros are taken for different values,
by MySQL and by DB2 alike.

Excluded from the properties, as `Shifted` and `TooFar` say, because the code is
known to do otherwise on a host that is big-endian, as IBM i is:
* `db2i_beint32_from_ptr2leuint16` and `db2i_beint64_from_ptr2leuint32`
  (`db2i_global.h:85`, 111) widen the bytes of an unsigned SMALLINT or INTEGER
  first and turn them round then: DB2 holds the value times 2^16 or 2^32, which
  comes back as the type's greatest value. Only 0 and the greatest value survive;
  the example of the repository's README, 65535, is one of these;
* a key of BIT(8n) is copied with n + 1 bytes (`db2i_conversion.cc:1013`), one
  byte from behind the key, while the row's bytes are moved to the right: the
  read finds nothing.

Seen: with `PrefixReads`, `ReadFinds` fails: the loop of `index_read` uses `||`
(`ha_ibmdb2i.cc:1053`) and goes on behind a key that is shorter than the index,
though `index_flags` (3465) does not ask for whole keys. `index_read` drops the
return code of the conversion (1071). For `a >= 1 AND b > 3` the low bound of `a`
excludes 1, if the limits differ in `a`; behind the end of a shorter limit the
comparison of parts (`db2i_rir.cc:263`) reads what is there. BIGINT UNSIGNED with
a display width above 22 is packed from a buffer that was not filled
(`db2i_conversion.cc:848`). The date 0001-01-01 comes back as the zero date, and
the zero date's substitute is written with its terminating byte, into the field
behind (`db2i_conversion.cc:829`).

Left out: fractions of seconds, which are stored and not fetched; TIME as a
duration; zoned decimals, which only a discovered table has; the least and
greatest characters of partial text keys.

## What the proofs rest on

Each proof states its conditions where the theorem is: a constant that lets the
environment do what the code does not provide for has to be off, and the text of its
module says which property fails when it is on. All other values of the constants are
covered, with the assumptions their modules name, which TLC evaluates in every run.

A safety property is proved from an inductive invariant. Lists, blocks and texts have any length: where a fact is
about all elements of one, it is proved by induction over a number
(`InductionUpTo` and `MinNat`, stated where they are needed, from the numbers being well-founded), as the
library's theorems for induction take an operator as their parameter.

## Only model-checked

Liveness (`ReadReturns`): none of the provers handles ENABLED. All other properties of
passing runs are stated by a theorem, too. What tables contain stays an assumption,
which TLC checks for small pages.

## Not modelled

The components without modules are listed with their reasons in `PROJECT.json`:
statement streams and bounded strings, which one call fills and sends, the
bridge's parameter blocks, the texts of errors, and constants. What a bridge's
method does with its answer is modelled with its caller. A `SafeString` that is
one character short drops a single character without a sign
(`db2i_safeString.cc:57`); of its two users, one has room enough and the other goes
on with more text, which does leave the sign.
Throughout, the texts of SQL statements and messages, tracing and the layout of
QMYSE's parameter blocks are left out.
