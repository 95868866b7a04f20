------------------------------- MODULE StmtTx -------------------------------
(***************************************************************************)
(* The transactions of one connection.  MySQL registers the engine for the *)
(* current statement and for the current transaction when the engine asks  *)
(* for it (trans_register_ha, in external_lock and start_stmt), and ends   *)
(* both through doCommit and doRollback.  DB2 knows transactions and       *)
(* savepoints but no statements: the bridge makes a statement transaction  *)
(* of a savepoint with a predefined name and remembers in stmtTxActive     *)
(* that it has set it.                                                     *)
(*                                                                         *)
(* MySQL and DB2 are external: MySQL's lists of engines, its savepoints,   *)
(* and the order in which it calls the engine are modelled from what the   *)
(* engine's functions are called for; db2 is the commitment definition.    *)
(* A row change is a member of Changes; what it does to the row is left    *)
(* out.  A definition named Name_Variant is Name with a plausible mistake  *)
(* in it; no specification uses it.                                        *)
(***************************************************************************)
EXTENDS NamedLists

CONSTANTS
  Changes,              (* bound: the row changes that can be made         *)
  SvNames,              (* bound: the savepoints a user can set            *)
  MaxSavepoints,        (* bound: savepoints set at a time                 *)
  LocksTables,          (* does the user use LOCK TABLES?                  *)
  UnsafeInTransaction,  (* is transaction_unsafe set inside transactions?  *)
  SetReadsTables,       (* does SET autocommit read a table (a subquery)?  *)
  SetSavepointMayFail   (* can DB2 fail to set a savepoint?                *)

ASSUME UsageAssumption == /\ LocksTables \in BOOLEAN
                          /\ UnsafeInTransaction \in BOOLEAN
                          /\ SetReadsTables \in BOOLEAN
                          /\ SetSavepointMayFail \in BOOLEAN

VARIABLES
  db2,              (* log, savepoints and durable changes (external)      *)
  stmtTxActive,     (* bridge: inside a statement transaction?             *)
  notAutocommit,    (* OPTION_NOT_AUTOCOMMIT                               *)
  begun,            (* OPTION_BEGIN                                        *)
  transaction_unsafe, (* the engine's session variable                     *)
  stmtReg,          (* is the engine in MySQL's list for the statement?    *)
  allReg,           (* ... and in its list for the transaction?            *)
  tablesLocked,     (* LOCK TABLES is in force                             *)
  statement,        (* the statement being executed, "none" between them   *)
  svs,              (* MySQL's savepoints; had: engine was in the list     *)
  stmtMark,         (* history: length of the log when the statement began *)
  answer            (* history: what the user was told last                *)

sessionVars == <<notAutocommit, begun, transaction_unsafe, tablesLocked>>
regVars == <<stmtReg, allReg>>
vars == <<db2, stmtTxActive, sessionVars, regVars, statement, svs, stmtMark, answer>>

Set(s) == {s[i] : i \in DOMAIN s}
Upto(s, n) == SubSeq(s, 1, n)

(* Names of DB2 savepoints.  genSavepointName makes one of the address of  *)
(* MySQL's savepoint, which stands for its name in the model.              *)
SAVEPOINT_NAME == <<"MSPOINTER">>
genSavepointName(sv) == <<"MYSP", sv>>

-----------------------------------------------------------------------------
(* DB2 (external): what a commitment definition does.  RELEASE and         *)
(* ROLLBACK TO drop the savepoints set later; ROLLBACK TO keeps its own.   *)

Position(d, n) == CHOOSE i \in DOMAIN d.savepoints : d.savepoints[i].name = n
IsSet(d, n) == \E i \in DOMAIN d.savepoints : d.savepoints[i].name = n

Db2SetSavepoint(d, n) ==
  [d EXCEPT !.savepoints = Append(WithoutName(@, n),
                                  [name |-> n, mark |-> Len(d.log)])]

Db2ReleaseSavepoint(d, n) ==
  IF IsSet(d, n) THEN [d EXCEPT !.savepoints = Upto(@, Position(d, n) - 1)] ELSE d

Db2RollbackToSavepoint(d, n) ==
  IF IsSet(d, n)
  THEN [d EXCEPT !.log = Upto(@, d.savepoints[Position(d, n)].mark),
                 !.savepoints = Upto(@, Position(d, n))]
  ELSE d

Db2Commit(d) == [log |-> <<>>, savepoints |-> <<>>, durable |-> d.durable \cup Set(d.log)]
Db2Rollback(d) == [d EXCEPT !.log = <<>>, !.savepoints = <<>>]

-----------------------------------------------------------------------------
(* The engine.                                                             *)

autoCommitIsOn == ~notAutocommit /\ ~begun

(* May QMY_PROCESS_SAVEPOINT fail?                                         *)
SavepointAnswers == IF SetSavepointMayFail THEN BOOLEAN ELSE {TRUE}

(* beginStmtTx; its callers do not look at what it returns.                *)
beginStmtTx_Always == stmtTxActive' = TRUE /\ db2' = Db2SetSavepoint(db2, SAVEPOINT_NAME)
beginStmtTx ==
  IF stmtTxActive
  THEN UNCHANGED <<stmtTxActive, db2>>
  ELSE /\ stmtTxActive' = TRUE
       /\ \E isSet \in SavepointAnswers :
            db2' = IF isSet THEN Db2SetSavepoint(db2, SAVEPOINT_NAME) ELSE db2

commitStmtTx_Forgotten ==
  db2' = Db2ReleaseSavepoint(db2, SAVEPOINT_NAME) /\ UNCHANGED stmtTxActive
commitStmtTx ==
  stmtTxActive' = FALSE /\ db2' = Db2ReleaseSavepoint(db2, SAVEPOINT_NAME)

rollbackStmtTx_Released ==
  stmtTxActive' = FALSE /\ db2' = Db2ReleaseSavepoint(db2, SAVEPOINT_NAME)
rollbackStmtTx ==
  stmtTxActive' = FALSE /\ db2' = Db2RollbackToSavepoint(db2, SAVEPOINT_NAME)

doCommit(all) ==
  IF transaction_unsafe THEN UNCHANGED <<stmtTxActive, db2>>
  ELSE IF all \/ autoCommitIsOn
  THEN db2' = Db2Commit(db2) /\ UNCHANGED stmtTxActive
  ELSE commitStmtTx

doRollback_Statement(all) ==
  IF transaction_unsafe THEN UNCHANGED <<stmtTxActive, db2>>
  ELSE IF all THEN db2' = Db2Rollback(db2) /\ UNCHANGED stmtTxActive
  ELSE rollbackStmtTx
doRollback(all) ==
  IF transaction_unsafe THEN UNCHANGED <<stmtTxActive, db2>>
  ELSE IF all \/ autoCommitIsOn
  THEN db2' = Db2Rollback(db2) /\ UNCHANGED stmtTxActive
  ELSE rollbackStmtTx

(* external_lock, as far as transactions are concerned.                    *)
external_lock_StatementOnly(command) ==
  IF transaction_unsafe THEN UNCHANGED <<regVars, stmtTxActive, db2>>
  ELSE /\ stmtReg' = TRUE /\ UNCHANGED allReg
       /\ IF autoCommitIsOn THEN UNCHANGED <<stmtTxActive, db2>> ELSE beginStmtTx
external_lock_Create(command) ==
  IF transaction_unsafe THEN UNCHANGED <<regVars, stmtTxActive, db2>>
  ELSE IF autoCommitIsOn
  THEN stmtReg' = TRUE /\ UNCHANGED <<allReg, stmtTxActive, db2>>
  ELSE /\ allReg' = TRUE
       /\ stmtReg' = TRUE
       /\ IF command = "create" THEN UNCHANGED <<stmtTxActive, db2>> ELSE beginStmtTx
external_lock(command) ==
  IF transaction_unsafe THEN UNCHANGED <<regVars, stmtTxActive, db2>>
  ELSE IF autoCommitIsOn
  THEN stmtReg' = TRUE /\ UNCHANGED <<allReg, stmtTxActive, db2>>
  ELSE /\ allReg' = TRUE
       /\ IF command = "create"
          THEN UNCHANGED <<stmtReg, stmtTxActive, db2>>
          ELSE stmtReg' = TRUE /\ beginStmtTx

(* Under LOCK TABLES the tables are locked already and start_stmt is       *)
(* called instead.                                                         *)
start_stmt ==
  IF transaction_unsafe THEN UNCHANGED <<regVars, stmtTxActive, db2>>
  ELSE /\ stmtReg' = TRUE /\ UNCHANGED allReg
       /\ IF autoCommitIsOn THEN UNCHANGED <<stmtTxActive, db2>> ELSE beginStmtTx

-----------------------------------------------------------------------------
Init ==
  /\ db2 = [log |-> <<>>, savepoints |-> <<>>, durable |-> {}]
  /\ stmtTxActive = FALSE
  /\ notAutocommit \in BOOLEAN /\ begun = FALSE /\ transaction_unsafe = FALSE
  /\ tablesLocked = FALSE
  /\ stmtReg = FALSE /\ allReg = FALSE
  /\ statement = "none" /\ svs = <<>>
  /\ stmtMark = 0 /\ answer = "none"

(* Statements: "dml", "create" (CREATE TEMPORARY TABLE ... SELECT, which   *)
(* reads), "set" (SET autocommit with a subquery), "lock" (LOCK TABLES).   *)
Commands == {"dml", "create"} \cup (IF SetReadsTables THEN {"set"} ELSE {})

StartStatement(command) ==
  /\ statement = "none" /\ statement' = command
  /\ IF tablesLocked THEN start_stmt ELSE external_lock(command)
  /\ stmtMark' = Len(db2.log)
  /\ UNCHANGED <<sessionVars, svs, answer>>

(* write_row, update_row, delete_row: without commitment control (QMY_NONE) *)
(* a change is durable at once.                                             *)
ChangeRow(c) ==
  /\ statement = "dml"
  /\ c \notin db2.durable \cup Set(db2.log)
  /\ db2' = IF transaction_unsafe
            THEN [db2 EXCEPT !.durable = @ \cup {c}]
            ELSE [db2 EXCEPT !.log = Append(@, c)]
  /\ UNCHANGED <<stmtTxActive, sessionVars, regVars, statement, svs, stmtMark, answer>>

EndStatement(succeeds) ==
  /\ statement # "none" /\ statement' = "none"
  /\ statement = "lock" => succeeds
  /\ answer' = IF succeeds THEN "done" ELSE "undone"
  /\ IF ~stmtReg THEN UNCHANGED <<stmtTxActive, db2>>
     ELSE IF succeeds THEN doCommit(FALSE) ELSE doRollback(FALSE)
  /\ stmtReg' = FALSE
  /\ stmtMark' = 0
  /\ UNCHANGED <<sessionVars, allReg, svs>>

(* COMMIT and ROLLBACK reach the engine only if it is in the list.         *)
EndTransaction(commits) ==
  /\ statement = "none"
  /\ answer' = IF commits THEN "done" ELSE "undone"
  /\ IF ~allReg THEN UNCHANGED <<stmtTxActive, db2>>
     ELSE IF commits THEN doCommit(TRUE) ELSE doRollback(TRUE)
  /\ allReg' = FALSE /\ svs' = <<>>
  /\ begun' \in IF tablesLocked THEN {FALSE} ELSE BOOLEAN    (* START TRANSACTION *)
  /\ UNCHANGED <<notAutocommit, transaction_unsafe, tablesLocked, stmtReg, statement, stmtMark>>

(* SET autocommit = 0 outside of a statement, and in one.                  *)
DisableAutocommit ==
  /\ statement \in {"none", "set"} /\ ~notAutocommit
  /\ notAutocommit' = TRUE
  /\ UNCHANGED <<db2, stmtTxActive, begun, transaction_unsafe, tablesLocked, regVars,
                 statement, svs, stmtMark, answer>>

(* SET autocommit = 1 commits first.                                       *)
EnableAutocommit ==
  /\ statement = "none" /\ notAutocommit
  /\ notAutocommit' = FALSE /\ begun' = FALSE
  /\ answer' = "done"
  /\ IF allReg THEN doCommit(TRUE) ELSE UNCHANGED <<stmtTxActive, db2>>
  /\ allReg' = FALSE /\ svs' = <<>>
  /\ UNCHANGED <<transaction_unsafe, tablesLocked, stmtReg, statement, stmtMark>>

SetTransactionUnsafe ==
  /\ statement = "none"
  /\ UnsafeInTransaction \/ (~allReg /\ db2.log = <<>>)
  /\ transaction_unsafe' = ~transaction_unsafe
  /\ UNCHANGED <<db2, stmtTxActive, notAutocommit, begun, tablesLocked, regVars,
                 statement, svs, stmtMark, answer>>

(* LOCK TABLES (after its implicit COMMIT; it does not fail in the model)  *)
(* and UNLOCK TABLES.                                                      *)
LockTables ==
  /\ LocksTables /\ statement = "none" /\ ~tablesLocked
  /\ ~allReg /\ ~begun
  /\ statement' = "lock" /\ tablesLocked' = TRUE
  /\ external_lock("lock")
  /\ stmtMark' = Len(db2.log)
  /\ UNCHANGED <<notAutocommit, begun, transaction_unsafe, svs, answer>>

UnlockTables ==
  /\ statement = "none" /\ tablesLocked
  /\ tablesLocked' = FALSE
  /\ answer' = "done"
  /\ IF allReg THEN doCommit(TRUE) ELSE UNCHANGED <<stmtTxActive, db2>>
  /\ allReg' = FALSE /\ svs' = <<>>
  /\ UNCHANGED <<notAutocommit, begun, transaction_unsafe, stmtReg, statement, stmtMark>>

-----------------------------------------------------------------------------
(* Savepoints of the user.  MySQL calls the engines that were in the       *)
(* transaction when the savepoint was set.                                 *)

ibmdb2i_savepoint_set(d, sv) ==
  IF transaction_unsafe THEN d ELSE Db2SetSavepoint(d, genSavepointName(sv))
ibmdb2i_savepoint_rollback(d, sv) ==
  IF transaction_unsafe THEN d ELSE Db2RollbackToSavepoint(d, genSavepointName(sv))
ibmdb2i_savepoint_release(d, sv) ==
  IF transaction_unsafe THEN d ELSE Db2ReleaseSavepoint(d, genSavepointName(sv))

(* A savepoint of the same name is released first.                         *)
SetSavepoint(n) ==
  LET old == {i \in DOMAIN svs : svs[i].name = n}
      released == IF \E i \in old : svs[i].had
                  THEN ibmdb2i_savepoint_release(db2, n) ELSE db2
      others == WithoutName(svs, n)
      added == Append(others, [name |-> n, mark |-> Len(db2.log), had |-> allReg])
  IN  /\ statement = "none" /\ ~autoCommitIsOn
      /\ Len(others) < MaxSavepoints
      /\ \E isSet \in IF allReg /\ ~transaction_unsafe THEN SavepointAnswers ELSE {TRUE} :
            /\ svs' = IF isSet THEN added ELSE others
            /\ db2' = IF allReg /\ isSet THEN ibmdb2i_savepoint_set(released, n) ELSE released
      /\ UNCHANGED <<stmtTxActive, sessionVars, regVars, statement, stmtMark, answer>>

(* An engine that came later is rolled back altogether, and leaves.        *)
RollbackToSavepoint(i) ==
  /\ statement = "none"
  /\ i \in DOMAIN svs
  /\ IF svs[i].had
     THEN /\ db2' = ibmdb2i_savepoint_rollback(db2, svs[i].name)
          /\ answer' = IF transaction_unsafe \/ IsSet(db2, genSavepointName(svs[i].name))
                       THEN "undone" ELSE "failed"
          /\ UNCHANGED stmtTxActive
     ELSE /\ IF allReg THEN doRollback(TRUE) ELSE UNCHANGED <<stmtTxActive, db2>>
          /\ answer' = "undone"
  /\ allReg' = svs[i].had
  /\ svs' = Upto(svs, i)
  /\ UNCHANGED <<sessionVars, stmtReg, statement, stmtMark>>

ReleaseSavepoint(i) ==
  /\ statement = "none"
  /\ i \in DOMAIN svs
  /\ db2' = IF svs[i].had THEN ibmdb2i_savepoint_release(db2, svs[i].name) ELSE db2
  /\ svs' = Upto(svs, i - 1)
  /\ UNCHANGED <<stmtTxActive, sessionVars, regVars, statement, stmtMark, answer>>

(* The connection ends (close_connection) and its thread serves another    *)
(* one: MySQL rolls back, DB2 drops what is left, and the bridge is made   *)
(* anew.                                                                   *)
close_connection ==
  /\ statement = "none"
  /\ db2' = Db2Rollback(db2) /\ stmtTxActive' = FALSE
  /\ notAutocommit' \in BOOLEAN /\ begun' = FALSE /\ transaction_unsafe' = FALSE
  /\ tablesLocked' = FALSE /\ allReg' = FALSE /\ svs' = <<>>
  /\ answer' = "undone"
  /\ UNCHANGED <<stmtReg, statement, stmtMark>>

-----------------------------------------------------------------------------
Next ==
  \/ \E command \in Commands : StartStatement(command)
  \/ \E c \in Changes : ChangeRow(c)
  \/ \E succeeds \in BOOLEAN : EndStatement(succeeds)
  \/ \E commits \in BOOLEAN : EndTransaction(commits)
  \/ DisableAutocommit \/ EnableAutocommit \/ SetTransactionUnsafe
  \/ LockTables \/ UnlockTables
  \/ \E n \in SvNames : SetSavepoint(n)
  \/ \E i \in 1 .. MaxSavepoints : RollbackToSavepoint(i) \/ ReleaseSavepoint(i)
  \/ close_connection

Spec == Init /\ [][Next]_vars

-----------------------------------------------------------------------------
(* Properties.                                                             *)

Marks == [name : {genSavepointName(n) : n \in SvNames} \cup {SAVEPOINT_NAME}, mark : Nat]

TypeOK ==
  /\ db2.log \in Seq(Changes) /\ db2.savepoints \in Seq(Marks)
  /\ db2.durable \subseteq Changes
  /\ stmtTxActive \in BOOLEAN /\ stmtReg \in BOOLEAN /\ allReg \in BOOLEAN
  /\ notAutocommit \in BOOLEAN /\ begun \in BOOLEAN
  /\ transaction_unsafe \in BOOLEAN /\ tablesLocked \in BOOLEAN
  /\ statement \in {"none", "dml", "create", "set", "lock"}
  /\ svs \in Seq([name : SvNames, mark : Nat, had : BOOLEAN])
  /\ stmtMark \in Nat /\ answer \in {"none", "done", "undone", "failed"}

(* The bridge keeps stmtTxActive to know that it is inside a statement     *)
(* transaction: DB2 then has the predefined savepoint, set where the       *)
(* statement began, so that rolling it back is rolling the statement back. *)
ActiveMeansMarked ==
  stmtTxActive =>
    /\ IsSet(db2, SAVEPOINT_NAME)
    /\ db2.savepoints[Position(db2, SAVEPOINT_NAME)].mark = stmtMark

(* DBUG_ASSERT(stmtTxActive) in commitStmtTx and rollbackStmtTx: when      *)
(* MySQL ends a statement inside a transaction, the statement transaction  *)
(* it ends has begun.                                                      *)
EndedStmtTxHasBegun ==
  [][statement # "none" /\ statement' = "none" /\ stmtReg
     /\ ~autoCommitIsOn /\ ~transaction_unsafe => stmtTxActive]_vars

(* In a multi-statement transaction a statement that fails takes back its  *)
(* own changes and no others, whatever was set, released and rolled back   *)
(* before: rollbackStmtTx finds the savepoint where the statement began.   *)
FailedStatementUndone ==
  [][statement # "none" /\ statement' = "none" /\ answer' = "undone" /\ ~autoCommitIsOn =>
       db2'.log = Upto(db2.log, stmtMark)]_vars

(* COMMIT and ROLLBACK reach the engine whenever DB2 has changes to commit *)
(* or to roll back: external_lock has registered it for the transaction.   *)
PendingIsRegistered ==
  db2.log # <<>> => allReg \/ (autoCommitIsOn /\ stmtReg)

(* The connection as a whole keeps what SQL promises of transactions.      *)
Sql == INSTANCE SqlTransaction WITH
         durable <- db2.durable, pending <- db2.log,
         multi <- ~autoCommitIsOn, protected <- ~transaction_unsafe,
         running <- statement # "none",
         savepoints <- [i \in DOMAIN svs |-> [name |-> svs[i].name, mark |-> svs[i].mark]]
TransactionSpec == Sql!Spec
=============================================================================
