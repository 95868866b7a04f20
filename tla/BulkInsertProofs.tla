--------------------------- MODULE BulkInsertProofs ---------------------------
(***************************************************************************)
(* Proofs that a bulk insert gives back what it has taken, for every       *)
(* number of rows and every buffer, whatever requests fail; and, where a   *)
(* second write of a block goes on behind the rows that are stored and     *)
(* FLUSH_CACHE meets one row at most, that every row acknowledged is       *)
(* stored or in the buffer and that the binary log is given the values     *)
(* DB2 stores.                                                             *)
(***************************************************************************)
EXTENDS BulkInsert, SequenceTheorems, FiniteSetTheorems, FiniteSets, WellFoundedInduction, TLAPS

(* Every set of numbers has a least one.                                   *)
LEMMA MinNat ==
  ASSUME NEW T \in SUBSET Nat, T # {}
  PROVE  \E x \in T : \A y \in T : x <= y
<1> DEFINE R == OpToRel(<, Nat)
<1>1. IsWellFoundedOn(R, Nat) BY NatLessThanWellFounded
<1> HIDE DEF R
<1>2. PICK x \in T : \A y \in T : ~ (<<y, x>> \in R) BY <1>1, WFMin
<1>3. \A y \in T : ~ (y < x) BY <1>2 DEF R, OpToRel
<1>4. QED BY <1>3

(* Induction up to m, over the set of the numbers with a property.         *)
LEMMA InductionUpTo ==
  ASSUME NEW m \in Nat, NEW P, 0 \in P, \A k \in 0..m - 1 : k \in P => k + 1 \in P
  PROVE  \A k \in 0..m : k \in P
<1> SUFFICES ASSUME {k \in 0..m : k \notin P} # {} PROVE FALSE OBVIOUS
<1> DEFINE T == {k \in 0..m : k \notin P}
<1>1. PICK x \in T : \A y \in T : x <= y
  <2>1. T \in SUBSET Nat /\ T # {} OBVIOUS
  <2> HIDE DEF T
  <2>2. QED BY <2>1, MinNat
<1>2. x \in 1..m /\ x - 1 \in 0..m - 1 /\ (x - 1) + 1 = x OBVIOUS
<1>3. x - 1 \in P BY <1>1, <1>2
<1>4. QED BY <1>2, <1>3

(* The engine's picture of the lock is DB2's, and a use is counted once.   *)
Agreement ==
  /\ locked = autoIncLockAcquired
  /\ activeReferences = Bit(activeHandle)
  /\ autoIncLockAcquired => outstanding_start_bulk_insert
  /\ outstanding_start_bulk_insert => activeHandle

(* Where flushWrite can be called, and that it keeps the handle it uses.   *)
Calls ==
  /\ stage \in {"none", "begun"} => pc = "idle" /\ ~activeHandle
  /\ pc # "idle" => /\ activeHandle
                    /\ caller = "reset" => stage = "ended"
                    /\ caller = "write_row" => stage = "insert"
                    /\ caller # "write_row" => outstanding_start_bulk_insert
                    /\ released => caller = "write_row" /\ ~outstanding_start_bulk_insert

Booleans ==
  /\ outstanding_start_bulk_insert \in BOOLEAN /\ activeHandle \in BOOLEAN
  /\ autoIncLockAcquired \in BOOLEAN /\ locked \in BOOLEAN /\ released \in BOOLEAN

HeldInv == Booleans /\ Agreement /\ Calls

USE DEF Booleans, Agreement, Calls, HeldInv, Bit

(* The rest of finishBulkInsert leaves nothing behind. *)
LEMMA FinishedStep ==
  ASSUME NEW by, HeldInv, bulkInsertFinished(by), stage # "begun", pc' = "idle",
         UNCHANGED <<caller, released>>
  PROVE HeldInv'
<1>1. /\ ~outstanding_start_bulk_insert' /\ ~activeHandle'
      /\ outstanding_start_bulk_insert' \in BOOLEAN /\ activeHandle' \in BOOLEAN
      /\ stage' \in {"none", stage}
  BY DEF bulkInsertFinished
<1>2. autoIncLockAcquired' = FALSE /\ locked' = FALSE
  <2>1. CASE outstanding_start_bulk_insert
    BY <2>1, Zenon DEF bulkInsertFinished, unlock
  <2>2. CASE ~outstanding_start_bulk_insert
    <3>1. autoIncLockAcquired' = autoIncLockAcquired /\ locked' = locked
      BY <2>2, Zenon DEF bulkInsertFinished, lockVars
    <3>2. QED BY <2>2, <3>1
  <2>3. QED BY <2>1, <2>2
<1>3. activeReferences' = 0
  BY DEF bulkInsertFinished
<1>4. QED BY <1>1, <1>2, <1>3

LEMMA FinishStep ==
  ASSUME NEW by \in {"reset", "extra"}, HeldInv, finishBulkInsert(by), pc = "idle",
         stage = IF by = "reset" THEN "ended" ELSE "insert"
  PROVE HeldInv'
<1>1. CASE outstanding_start_bulk_insert /\ rows # <<>> /\ activeHandle
  BY <1>1 DEF finishBulkInsert, bulkVars, handleVars, lockVars, statementVars
<1>2. CASE ~(outstanding_start_bulk_insert /\ rows # <<>> /\ activeHandle)
  <2>1. bulkInsertFinished(by) /\ pc' = "idle" /\ UNCHANGED <<caller, released>>
    BY <1>2 DEF finishBulkInsert, flushVars
  <2>2. QED BY <2>1, FinishedStep
<1>3. QED BY <1>1, <1>2

LEMMA FlushedStep ==
  ASSUME NEW rc, NEW generated, HeldInv, pc # "idle", flushed(rc, generated)
  PROVE HeldInv'
<1>1. pc' = "idle" /\ UNCHANGED <<caller, released>>
  BY DEF flushed
<1>2. CASE caller = "write_row"
  <2>1. /\ activeHandle' = (activeHandle /\ ~released)
        /\ activeReferences' = activeReferences - Bit(released)
        /\ UNCHANGED <<bulkVars, lockVars, stage>>
    BY <1>2 DEF flushed
  <2>2. /\ activeHandle' \in BOOLEAN /\ activeReferences' = Bit(activeHandle')
        /\ outstanding_start_bulk_insert => activeHandle'
    <3>1. CASE released
      <4>1. activeHandle /\ ~outstanding_start_bulk_insert /\ activeReferences = 1
        BY <3>1
      <4>2. activeHandle' = FALSE
        BY <2>1, <3>1, Zenon
      <4>3. activeReferences' = 0
        BY <2>1, <3>1, <4>1
      <4>4. QED BY <4>1, <4>2, <4>3
    <3>2. CASE ~released
      <4>1. activeHandle' = activeHandle
        BY <2>1, <3>2
      <4>2. activeReferences' = activeReferences
        BY <2>1, <3>2
      <4>3. QED BY <4>1, <4>2
    <3>3. QED BY <3>1, <3>2
  <2>3. QED BY <1>1, <1>2, <2>1, <2>2 DEF bulkVars, lockVars
<1>3. CASE caller # "write_row"
  <2>1. bulkInsertFinished(caller)
    BY <1>3 DEF flushed
  <2>2. QED BY <1>1, <2>1, FinishedStep
<1>4. QED BY <1>2, <1>3

LEMMA StartStep ==
  ASSUME NEW many, NEW capacity, HeldInv, start_bulk_insert(many, capacity)
  PROVE HeldInv'
<1>1. PICK granted \in BOOLEAN, opened \in BOOLEAN, prepared \in BOOLEAN :
        bulkInsertStarted(granted, opened, opened /\ prepared)
  BY Zenon DEF start_bulk_insert, Outcomes
<1>2. stage = "begun" /\ stage' = "insert" /\ UNCHANGED <<pc, caller, released>>
  BY DEF start_bulk_insert, flushVars
<1>3. activeReferences = 0 /\ pc = "idle"
  BY <1>2
<1>4. activeReferences' = Bit(activeHandle') /\ activeHandle' \in BOOLEAN
  BY <1>1, <1>3 DEF bulkInsertStarted
<1>5. QED BY <1>1, <1>2, <1>3, <1>4 DEF bulkInsertStarted

LEMMA WriteRowStep ==
  ASSUME NEW row, HeldInv, write_row(row)
  PROVE HeldInv'
<1>1. pc = "idle" /\ stage \in {"begun", "insert"} /\ stage' = "insert"
      /\ UNCHANGED <<bulkVars, lockVars>>
  BY DEF write_row, write_row_Refused
<1>2. \/ UNCHANGED <<handleVars, flushVars>>
      \/ /\ pc' = "flush" /\ caller' = "write_row" /\ released' = ~activeHandle
         /\ activeHandle' = TRUE
         /\ activeReferences' = activeReferences + Bit(~activeHandle)
  BY DEF write_row, write_row_Refused
<1>3. CASE UNCHANGED <<handleVars, flushVars>>
  BY <1>1, <1>3 DEF bulkVars, lockVars, handleVars, flushVars
<1>4. CASE /\ pc' = "flush" /\ caller' = "write_row" /\ released' = ~activeHandle
           /\ activeHandle' = TRUE
           /\ activeReferences' = activeReferences + Bit(~activeHandle)
  <2>1. activeReferences' = 1
    <3>1. CASE activeHandle
      BY <1>4, <3>1
    <3>2. CASE ~activeHandle
      BY <1>4, <3>2
    <3>3. QED BY <3>1, <3>2
  <2>2. released' \in BOOLEAN /\ (released' => ~outstanding_start_bulk_insert)
    BY <1>4
  <2>3. UNCHANGED <<outstanding_start_bulk_insert, autoIncLockAcquired, locked>>
    BY <1>1 DEF bulkVars, lockVars
  <2>4. QED BY <1>1, <1>4, <2>1, <2>2, <2>3
<1>5. QED BY <1>2, <1>3, <1>4

LEMMA FlushWriteStep == ASSUME HeldInv, flushWrite PROVE HeldInv'
<1>1. pc # "idle"
  BY DEF flushWrite
<1>2. \/ /\ pc' = "alter"
         /\ UNCHANGED <<bulkVars, handleVars, lockVars, caller, released, statementVars>>
      \/ \E rc, generated : flushed(rc, generated)
  BY DEF flushWrite
<1>3. CASE \E rc, generated : flushed(rc, generated)
  <2>1. PICK rc, generated : flushed(rc, generated)
    BY <1>3
  <2>2. QED BY <1>1, <2>1, FlushedStep
<1>4. CASE /\ pc' = "alter"
           /\ UNCHANGED <<bulkVars, handleVars, lockVars, caller, released, statementVars>>
  BY <1>1, <1>4 DEF bulkVars, handleVars, lockVars, statementVars
<1>5. QED BY <1>2, <1>3, <1>4

LEMMA AlterStep == ASSUME HeldInv, alterStartWith PROVE HeldInv'
<1>1. pc # "idle"
  BY DEF alterStartWith
<1>2. \/ /\ pc' = "retry"
         /\ UNCHANGED <<bulkVars, handleVars, lockVars, caller, released, statementVars>>
      \/ flushed("dup", generatedIdValue)
  BY DEF alterStartWith
<1>3. CASE flushed("dup", generatedIdValue)
  BY <1>1, <1>3, FlushedStep
<1>4. CASE /\ pc' = "retry"
           /\ UNCHANGED <<bulkVars, handleVars, lockVars, caller, released, statementVars>>
  BY <1>1, <1>4 DEF bulkVars, handleVars, lockVars, statementVars
<1>5. QED BY <1>2, <1>3, <1>4

LEMMA HeldInvStep == ASSUME HeldInv, [Next]_vars PROVE HeldInv'
<1>1. ASSUME NEW ignore, extra_IgnoreDupKey(ignore) PROVE HeldInv'
  BY <1>1 DEF extra_IgnoreDupKey, bulkVars, handleVars, lockVars, flushVars
<1>2. ASSUME NEW succeeds, EndStatement(succeeds) PROVE HeldInv'
  BY <1>2 DEF EndStatement, bulkVars, handleVars, lockVars, flushVars
<1>3. ASSUME NEW id, OtherWrites(id) PROVE HeldInv'
  BY <1>3 DEF OtherWrites, bulkVars, handleVars, lockVars, flushVars, statementVars
<1>4. CASE extra_FlushCache
  BY <1>4, FinishStep DEF extra_FlushCache
<1>5. CASE reset
  BY <1>5, FinishStep DEF reset
<1>6. CASE UNCHANGED vars
  BY <1>6 DEF vars, bulkVars, handleVars, lockVars, flushVars, statementVars
<1>7. QED
  BY <1>1, <1>2, <1>3, <1>4, <1>5, <1>6, StartStep, WriteRowStep, FlushWriteStep, AlterStep
     DEF Next

(* Once MySQL has reset the handler, no file instance is in use and the    *)
(* table is not locked: whatever start_bulk_insert, write_row, flushWrite  *)
(* and finishBulkInsert have met with on the way.                          *)
THEOREM NothingIsHeld == Spec => []NothingHeld
<1>1. Init => HeldInv
  BY DEF Init
<1>2. HeldInv /\ [Next]_vars => HeldInv'
  BY HeldInvStep
<1>3. HeldInv => NothingHeld
  BY DEF NothingHeld
<1>4. QED BY <1>1, <1>2, <1>3, PTL DEF Spec

HIDE DEF Booleans, Agreement, Calls, HeldInv, Bit

-----------------------------------------------------------------------------
Values == 0..MaxId
(* The rows among the first k of s that DB2 is to give a value.            *)
Zeros(s, k) == Cardinality({i \in 1..k : s[i] = 0})

LEMMA ZerosNone == ASSUME NEW s PROVE Zeros(s, 0) = 0
<1>1. {i \in 1..0 : s[i] = 0} = {} OBVIOUS
<1>2. QED BY <1>1, FS_EmptySet DEF Zeros

LEMMA ZerosNat == ASSUME NEW s, NEW k \in Nat PROVE Zeros(s, k) \in Nat
<1>1. IsFiniteSet(1..k) BY FS_Interval
<1>2. IsFiniteSet({i \in 1..k : s[i] = 0}) BY <1>1, FS_Subset
<1>3. QED BY <1>2, FS_CardinalityType DEF Zeros

LEMMA ZerosNext ==
  ASSUME NEW s, NEW k \in Nat
  PROVE  Zeros(s, k + 1) = IF s[k + 1] = 0 THEN Zeros(s, k) + 1 ELSE Zeros(s, k)
<1> DEFINE Z(n) == {i \in 1..n : s[i] = 0}
<1>1. IsFiniteSet(1..k) BY FS_Interval
<1>2. IsFiniteSet(Z(k)) BY <1>1, FS_Subset
<1>3. 1..k + 1 = 1..k \cup {k + 1} OBVIOUS
<1>4. Z(k + 1) = IF s[k + 1] = 0 THEN Z(k) \cup {k + 1} ELSE Z(k) BY <1>3
<1>5. k + 1 \notin Z(k) OBVIOUS
<1> HIDE DEF Z
<1>6. Cardinality(Z(k) \cup {k + 1}) = Cardinality(Z(k)) + 1 BY <1>2, <1>5, FS_AddElement
<1>7. Zeros(s, k + 1) = Cardinality(Z(k + 1)) /\ Zeros(s, k) = Cardinality(Z(k)) BY DEF Zeros, Z
<1>8. QED BY <1>4, <1>6, <1>7

LEMMA ZerosSame ==
  ASSUME NEW s, NEW t, NEW k \in Nat, \A i \in 1..k : s[i] = t[i]
  PROVE  Zeros(s, k) = Zeros(t, k)
<1>1. {i \in 1..k : s[i] = 0} = {i \in 1..k : t[i] = 0} OBVIOUS
<1>2. QED BY <1>1 DEF Zeros

-----------------------------------------------------------------------------
(* QMY_WRITE_ROWS: what is stored, row by row.                             *)
Writes ==
  [stored : SUBSET (1..MaxId), next : Nat \ {0}, ids : Seq(Nat), generated : Nat,
   rc : {"OK", "dup", "other"}]

(* The value of a row.                                                     *)
Given(row, next) == IF row = 0 THEN next ELSE row
Drawn(v, w, row) ==
  IF row = 0 THEN v.next = w.next + 1 /\ v.generated = w.next
  ELSE v.next = w.next /\ v.generated = w.generated

LEMMA StoreRowDoes ==
  ASSUME NEW w \in Writes, w.rc = "OK", NEW row \in Values
  PROVE  /\ StoreRow(w, row) \in Writes
         /\ StoreRow(w, row).rc = "OK" =>
              /\ StoreRow(w, row).ids = Append(w.ids, Given(row, w.next))
              /\ Drawn(StoreRow(w, row), w, row)
         /\ StoreRow(w, row).rc # "OK" => StoreRow(w, row).ids = w.ids
         /\ StoreRow(w, row).rc = "dup" =>
              /\ Drawn(StoreRow(w, row), w, row)
              /\ StoreRow(w, row).stored # {}
         /\ StoreRow(w, row).rc = "other" =>
              /\ StoreRow(w, row).next = w.next /\ StoreRow(w, row).generated = w.generated
         /\ row = 0 /\ w.next > MaxId => StoreRow(w, row).rc = "other"
         /\ row = 0 /\ w.next <= MaxId /\ w.next \notin w.stored => StoreRow(w, row).rc = "OK"
<1> DEFINE v == StoreRow(w, row)
           id == Given(row, w.next)
           drawn == IF row = 0 THEN [w EXCEPT !.next = @ + 1, !.generated = id] ELSE w
<1>0. /\ w.stored \subseteq 1..MaxId /\ w.next \in Nat \ {0} /\ w.ids \in Seq(Nat)
      /\ w.generated \in Nat /\ MaxId \in Nat
  BY MaxIdAssumption DEF Writes
<1>1. CASE row = 0 /\ w.next > MaxId
  <2>1. v = [w EXCEPT !.rc = "other"] BY <1>1 DEF StoreRow
  <2>2. v \in Writes BY <2>1 DEF Writes
  <2>3. v.rc = "other" /\ v.ids = w.ids /\ v.next = w.next /\ v.generated = w.generated
    BY <2>1 DEF Writes
  <2> HIDE DEF v
  <2>4. QED BY <2>2, <2>3, <1>1, <1>0 DEF v
<1>2. CASE ~(row = 0 /\ w.next > MaxId)
  <2>1. id \in 1..MaxId BY <1>0, <1>2 DEF Given, Values
  <2>2. drawn \in Writes /\ drawn.stored = w.stored /\ drawn.ids = w.ids /\ Drawn(drawn, w, row)
    <3>1. CASE row = 0
      <4>1. drawn = [w EXCEPT !.next = w.next + 1, !.generated = w.next] BY <3>1 DEF Given
      <4>2. w.next + 1 \in Nat \ {0} /\ w.next \in Nat BY <1>0
      <4> HIDE DEF drawn
      <4>3. QED BY <3>1, <4>1, <4>2 DEF Writes, Drawn
    <3>2. CASE row # 0 BY <3>2 DEF Drawn
    <3>3. QED BY <3>1, <3>2
  <2>3. v = IF id \in w.stored THEN [drawn EXCEPT !.rc = "dup"]
            ELSE [drawn EXCEPT !.stored = @ \cup {id}, !.ids = Append(@, id)]
    BY <1>2 DEF StoreRow, Given
  <2>4. drawn.rc = "OK" OBVIOUS
  <2> HIDE DEF drawn, id
  <2>5. CASE id \in w.stored
    <3>1. v = [drawn EXCEPT !.rc = "dup"] BY <2>3, <2>5
    <3> HIDE DEF v
    <3>2. v \in Writes /\ v.rc = "dup" /\ v.ids = w.ids /\ v.stored # {} /\ Drawn(v, w, row)
      BY <2>2, <2>5, <3>1 DEF Writes, Drawn
    <3>3. ~(row = 0 /\ w.next <= MaxId /\ w.next \notin w.stored) BY <2>5 DEF id, Given
    <3>4. QED BY <1>2, <3>2, <3>3 DEF v
  <2>6. CASE id \notin w.stored
    <3>1. v = [drawn EXCEPT !.stored = w.stored \cup {id}, !.ids = Append(w.ids, id)]
      BY <2>2, <2>3, <2>6
    <3>2. Append(w.ids, id) \in Seq(Nat) BY <1>0, <2>1, AppendProperties
    <3>3. w.stored \cup {id} \in SUBSET (1..MaxId) BY <1>0, <2>1
    <3> HIDE DEF v
    <3>4. v \in Writes BY <2>2, <3>1, <3>2, <3>3 DEF Writes
    <3>5. v.rc = "OK" /\ v.ids = Append(w.ids, id) /\ Drawn(v, w, row)
      BY <2>2, <2>4, <3>1 DEF Writes, Drawn
    <3>6. QED BY <1>2, <3>4, <3>5 DEF v, id
  <2>7. QED BY <2>5, <2>6
<1>3. QED BY <1>1, <1>2

NothingYet == [stored |-> table, next |-> nextId, ids |-> <<>>, generated |-> 0, rc |-> "OK"]
After(block, u, k) == IF k = 0 THEN NothingYet ELSE StoreRow(u[k - 1], block[k])

LEMMA WriteRowsSteps ==
  ASSUME NEW S, NEW block \in Seq(S)
  PROVE  \E u : /\ WriteRows(block) = u[Len(block)]
                /\ \A k \in 0..Len(block) : u[k] = After(block, u, k)
<1> DEFINE P == {m \in Nat : \E u : u = [k \in 0..m |-> After(block, u, k)]}
<1>1. Len(block) \in Nat BY LenProperties
<1>2. 0 \in P
  <2>1. [k \in 0..0 |-> NothingYet] = [k \in 0..0 |-> After(block, [l \in 0..0 |-> NothingYet], k)]
    BY DEF After
  <2>2. QED BY <2>1
<1>3. ASSUME NEW m \in 0..Len(block) - 1, m \in P PROVE m + 1 \in P
  <2>1. PICK u : u = [k \in 0..m |-> After(block, u, k)] BY <1>3
  <2> DEFINE v == [k \in 0..m + 1 |-> IF k <= m THEN u[k] ELSE After(block, u, k)]
  <2>2. ASSUME NEW k \in 0..m + 1 PROVE v[k] = After(block, v, k)
    <3>1. k # 0 => k - 1 \in 0..m /\ v[k - 1] = u[k - 1] BY <1>1
    <3>2. After(block, v, k) = After(block, u, k) BY <3>1 DEF After
    <3>3. k <= m => u[k] = After(block, u, k) BY <2>1
    <3>4. QED BY <3>2, <3>3
  <2>3. v = [k \in 0..m + 1 |-> After(block, v, k)] BY <2>2
  <2> HIDE DEF v
  <2>4. QED BY <2>3, <1>1
<1>4. Len(block) \in P
  <2> HIDE DEF P
  <2>1. \A m \in 0..Len(block) - 1 : m \in P => m + 1 \in P BY <1>3
  <2>2. \A m \in 0..Len(block) : m \in P BY <1>1, <1>2, <2>1, InductionUpTo
  <2>3. QED BY <1>1, <2>2
<1> DEFINE u == CHOOSE u : u = [k \in 0..Len(block) |-> After(block, u, k)]
<1>5. u = [k \in 0..Len(block) |-> After(block, u, k)] BY <1>4
<1>6. WriteRows(block) = u[Len(block)] BY DEF WriteRows, After, NothingYet
<1> HIDE DEF u
<1>7. \A k \in 0..Len(block) : u[k] = After(block, u, k) BY <1>5
<1>8. QED BY <1>6, <1>7

(* The first k rows of a block have been written as w says.                *)
IdsGiven(w, block, next) ==
  \A j \in 1..Len(w.ids) : w.ids[j] = Given(block[j], next + Zeros(block, j - 1))
LastDrawn(w) == w.generated \in {0, w.next - 1}
WrittenUpTo(w, block, k, next) ==
  /\ w \in Writes /\ IdsGiven(w, block, next) /\ LastDrawn(w)
  /\ w.rc = "OK" => /\ Len(w.ids) = k /\ w.next = next + Zeros(block, k)
                    /\ (k > 0 /\ block[k] = 0) => w.generated = w.next - 1 /\ w.next > 1
  /\ w.rc # "OK" => Len(w.ids) < k
  /\ w.rc = "dup" => w.next = next + Zeros(block, Len(w.ids) + 1) /\ w.stored # {}

(* What a block becomes.                                                   *)
LEMMA WriteRowsDoes ==
  ASSUME NEW block \in Seq(Values), table \subseteq 1..MaxId, nextId \in Nat \ {0}
  PROVE  WrittenUpTo(WriteRows(block), block, Len(block), nextId)
<1>1. Len(block) \in Nat /\ \A k \in 1..Len(block) : block[k] \in Values
  BY LenProperties, ElementOfSeq
<1>2. PICK u : /\ WriteRows(block) = u[Len(block)]
               /\ \A k \in 0..Len(block) : u[k] = After(block, u, k)
  BY WriteRowsSteps
<1> DEFINE P == {m \in Nat : WrittenUpTo(u[m], block, m, nextId)}
<1>3. 0 \in P
  <2>1. u[0] = NothingYet BY <1>1, <1>2 DEF After
  <2>2. NothingYet \in Writes
    <3>1. <<>> \in Seq(Nat) BY EmptySeq
    <3>2. QED BY <3>1 DEF NothingYet, Writes
  <2>3. /\ NothingYet.ids = <<>> /\ NothingYet.rc = "OK" /\ NothingYet.generated = 0
        /\ NothingYet.next = nextId
    BY DEF NothingYet
  <2>4. Len(NothingYet.ids) = 0 BY <2>3, EmptySeq
  <2>5. nextId = nextId + Zeros(block, 0) BY ZerosNone
  <2>6. WrittenUpTo(NothingYet, block, 0, nextId)
    BY <2>2, <2>3, <2>4, <2>5 DEF WrittenUpTo, IdsGiven, LastDrawn
  <2>7. QED BY <2>1, <2>6
<1>4. ASSUME NEW m \in 0..Len(block) - 1, m \in P PROVE m + 1 \in P
  <2> DEFINE w == u[m]
             row == block[m + 1]
             v == StoreRow(w, row)
  <2>1. m \in Nat /\ m + 1 \in 1..Len(block) /\ m + 1 \in 0..Len(block) /\ (m + 1) - 1 = m
    BY <1>1
  <2>2. row \in Values /\ u[m + 1] = v
    <3>1. u[m + 1] = After(block, u, m + 1) BY <1>2, <2>1
    <3>2. QED BY <3>1, <2>1, <1>1 DEF After
  <2>3. WrittenUpTo(w, block, m, nextId) BY <1>4
  <2> HIDE DEF w, row
  <2>4. w \in Writes /\ IdsGiven(w, block, nextId) /\ LastDrawn(w) BY <2>3 DEF WrittenUpTo
  <2>5. w.ids \in Seq(Nat) /\ Len(w.ids) \in Nat /\ w.next \in Nat \ {0} /\ w.generated \in Nat
    <3>1. w.ids \in Seq(Nat) /\ w.next \in Nat \ {0} /\ w.generated \in Nat BY <2>4 DEF Writes
    <3>2. QED BY <3>1, LenProperties
  <2>6. Zeros(block, m) \in Nat
        /\ Zeros(block, m + 1) = IF row = 0 THEN Zeros(block, m) + 1 ELSE Zeros(block, m)
    BY <2>1, ZerosNat, ZerosNext DEF row
  <2>7. CASE w.rc # "OK"
    <3>1. v = w BY <2>7 DEF StoreRow
    <3>2. Len(w.ids) < m + 1 BY <2>1, <2>3, <2>5, <2>7 DEF WrittenUpTo
    <3>3. w.rc = "dup" => w.next = nextId + Zeros(block, Len(w.ids) + 1) /\ w.stored # {}
      BY <2>3, <2>7 DEF WrittenUpTo
    <3>4. WrittenUpTo(w, block, m + 1, nextId) BY <2>4, <2>7, <3>2, <3>3 DEF WrittenUpTo
    <3>5. QED BY <2>1, <2>2, <3>1, <3>4
  <2>8. CASE w.rc = "OK"
    <3>1. Len(w.ids) = m /\ w.next = nextId + Zeros(block, m)
      BY <2>3, <2>8 DEF WrittenUpTo
    <3>2. v \in Writes BY <2>2, <2>4, <2>8, StoreRowDoes
    <3>3. v.next \in Nat \ {0} /\ v.generated \in Nat BY <3>2 DEF Writes
    <3>4. CASE v.rc = "OK"
      <4>1. v.ids = Append(w.ids, Given(row, w.next)) /\ Drawn(v, w, row)
        BY <2>2, <2>4, <2>8, <3>4, StoreRowDoes
      <4>2. Given(row, w.next) \in Nat BY <2>2, <2>5, MaxIdAssumption DEF Given, Values
      <4> HIDE DEF v
      <4>3. /\ Len(v.ids) = m + 1 /\ v.ids[m + 1] = Given(row, w.next)
            /\ \A j \in 1..m : v.ids[j] = w.ids[j]
        BY <4>1, <4>2, <2>5, <3>1, AppendProperties
      <4>4. IdsGiven(v, block, nextId)
        <5>1. ASSUME NEW j \in 1..m + 1
              PROVE  v.ids[j] = Given(block[j], nextId + Zeros(block, j - 1))
          <6>1. CASE j \in 1..m
            <7>1. w.ids[j] = Given(block[j], nextId + Zeros(block, j - 1))
              BY <6>1, <2>4, <3>1 DEF IdsGiven
            <7>2. QED BY <6>1, <7>1, <4>3
          <6>2. CASE j = m + 1
            <7>1. j - 1 = m BY <6>2, <2>1
            <7>2. QED BY <6>2, <7>1, <3>1, <4>3 DEF row
          <6>3. QED BY <6>1, <6>2, <2>1
        <5>2. QED BY <4>3, <5>1 DEF IdsGiven
      <4>5. v.next = nextId + Zeros(block, m + 1)
        BY <2>6, <3>1, <4>1 DEF Drawn
      <4>6. row = 0 => v.generated = v.next - 1 /\ v.next > 1
        BY <2>5, <4>1 DEF Drawn
      <4>7. LastDrawn(v) BY <2>4, <4>1, <2>5, SMTT(60) DEF LastDrawn, Drawn
      <4>8. WrittenUpTo(v, block, m + 1, nextId)
        BY <3>2, <3>4, <4>3, <4>4, <4>5, <4>6, <4>7 DEF WrittenUpTo, row
      <4>9. QED BY <2>1, <2>2, <4>8
    <3>5. CASE v.rc # "OK"
      <4>1. v.ids = w.ids BY <2>2, <2>4, <2>8, <3>5, StoreRowDoes
      <4>2. v.rc = "dup" => Drawn(v, w, row) /\ v.stored # {}
        BY <2>2, <2>4, <2>8, <3>5, StoreRowDoes
      <4>3. v.rc = "other" => v.next = w.next /\ v.generated = w.generated
        BY <2>2, <2>4, <2>8, <3>5, StoreRowDoes
      <4>4. v.rc = "dup" \/ v.rc = "other" BY <3>2, <3>5 DEF Writes
      <4> HIDE DEF v
      <4>5. IdsGiven(v, block, nextId) BY <2>4, <4>1 DEF IdsGiven
      <4>6. LastDrawn(v) BY <2>4, <2>5, <4>2, <4>3, <4>4, SMTT(60) DEF LastDrawn, Drawn
      <4>7. v.rc = "dup" => v.next = nextId + Zeros(block, Len(v.ids) + 1)
        <5>1. Len(v.ids) + 1 = m + 1 BY <3>1, <4>1
        <5>2. QED BY <5>1, <2>6, <3>1, <4>2 DEF Drawn
      <4>8. Len(v.ids) < m + 1 BY <2>1, <3>1, <4>1
      <4>9. WrittenUpTo(v, block, m + 1, nextId)
        BY <3>2, <3>5, <4>2, <4>5, <4>6, <4>7, <4>8 DEF WrittenUpTo
      <4>10. QED BY <2>1, <2>2, <4>9
    <3>6. QED BY <3>4, <3>5
  <2>9. QED BY <2>7, <2>8
<1>5. Len(block) \in P
  <2> HIDE DEF P
  <2>1. \A m \in 0..Len(block) - 1 : m \in P => m + 1 \in P BY <1>4
  <2>2. \A m \in 0..Len(block) : m \in P BY <1>1, <1>3, <2>1, InductionUpTo
  <2>3. QED BY <1>1, <2>2
<1>6. QED BY <1>2, <1>5

(* A block of one row.                                                     *)
LEMMA WriteOne ==
  ASSUME NEW block \in Seq(Values), Len(block) = 1, table \subseteq 1..MaxId, nextId \in Nat \ {0}
  PROVE  /\ (block[1] = 0 /\ nextId > MaxId) => WriteRows(block).rc = "other"
         /\ (block[1] = 0 /\ nextId <= MaxId /\ nextId \notin table) => WriteRows(block).rc = "OK"
<1>1. block[1] \in Values BY ElementOfSeq
<1>2. PICK u : /\ WriteRows(block) = u[1]
               /\ \A k \in 0..1 : u[k] = After(block, u, k)
  BY WriteRowsSteps
<1>3. u[0] = NothingYet BY <1>2 DEF After
<1>4. u[1] = StoreRow(NothingYet, block[1])
  <2>1. u[1] = After(block, u, 1) BY <1>2
  <2>2. QED BY <1>3, <2>1 DEF After
<1>5. NothingYet \in Writes
  <2>1. <<>> \in Seq(Nat) BY EmptySeq
  <2>2. QED BY <2>1 DEF NothingYet, Writes
<1>6. NothingYet.rc = "OK" /\ NothingYet.next = nextId /\ NothingYet.stored = table
  BY DEF NothingYet
<1> HIDE DEF NothingYet
<1>7. QED BY <1>1, <1>2, <1>4, <1>5, <1>6, StoreRowDoes

LEMMA WriteNone == WriteRows(<<>>).ids = <<>>
<1>1. <<>> \in Seq(Values) /\ Len(<<>>) = 0 BY EmptySeq
<1>2. PICK u : /\ WriteRows(<<>>) = u[0] /\ \A k \in 0..0 : u[k] = After(<<>>, u, k)
  BY <1>1, WriteRowsSteps
<1>3. u[0] = NothingYet BY <1>2 DEF After
<1>4. QED BY <1>2, <1>3 DEF NothingYet

-----------------------------------------------------------------------------
(* What MySQL is told of the row j of rs: its value, or the one predicted. *)
ToldOf(rs, next, j) == IF rs[j] # 0 THEN rs[j] ELSE next + Zeros(rs, j - 1)
Predicting == autoIncLockAcquired /\ got_auto_inc_values
Told(j) == IF rows[j] # 0 \/ Predicting THEN ToldOf(rows, nextId, j) ELSE 0
Singly == returnDupKeysImmediately \/ (autoIncLockAcquired /\ ~got_auto_inc_values)

InsertTypes ==
  /\ rows \in Seq(Values) /\ images \in Seq(Nat) /\ mine \in Seq(Nat)
  /\ table \subseteq 1..MaxId /\ nextId \in Nat \ {0} /\ startId \in Nat \ {0}
  /\ next_identity_value \in Nat /\ image \in Nat /\ generatedIdValue \in Nat /\ written \in Nat
  /\ got_auto_inc_values \in BOOLEAN /\ default_identity_value \in BOOLEAN
  /\ failed \in BOOLEAN /\ ignores \in BOOLEAN /\ returnDupKeysImmediately \in BOOLEAN

(* The statement and where flushWrite is in it.                            *)
StageInv ==
  /\ stage \in {"none", "begun", "insert", "ended"}
  /\ pc \in {"idle", "flush", "alter", "retry"}
  /\ (stage # "none" /\ ignores) => returnDupKeysImmediately
  /\ stage = "begun" => images = <<>> /\ mine = <<>> /\ ~failed
  /\ pc # "idle" => caller \in {"write_row", "extra", "reset"} /\ (caller = "extra" => failed /\ stage = "insert")
  /\ pc = "alter" => table # {}

(* A row that DB2 has no value for any more is left where it is.           *)
Rejected == rows = <<0>> /\ nextId > MaxId /\ locked
BufferInv ==
  /\ ~outstanding_start_bulk_insert => rows = <<>>
  /\ (rowCapacity = 1 \/ Singly) /\ ~failed => rows = <<>>
  /\ rowCapacity = 1 /\ failed => rows = <<>> \/ Rejected
  /\ stage = "ended" /\ failed => mine = <<>>

(* Between calls: the rows stored come first, then those of the buffer.    *)
Matched == \A i \in 1..Len(mine) : images[i] \in {0, mine[i]}
Aligned ==
  /\ Len(images) = Len(mine) + Len(rows) /\ Matched
  /\ \A j \in 1..Len(rows) : images[Len(mine) + j] = Told(j)
  /\ Predicting => next_identity_value = nextId + Zeros(rows, Len(rows))

(* While write_row writes the block: the last row is not acknowledged yet, *)
(* and the first of them may be stored already.                            *)
Flushing ==
  /\ ~failed /\ Len(rows) >= 1 /\ written < Len(rows) /\ written <= Len(mine)
  /\ pc = "flush" => written = 0 /\ generatedIdValue = 0
  /\ Len(images) + 1 = (Len(mine) - written) + Len(rows) /\ Matched
  /\ \A j \in written + 1..Len(rows) - 1 : images[(Len(mine) - written) + j] = Told(j)
  /\ image = Told(Len(rows))
  /\ default_identity_value = (rows[Len(rows)] = 0)
  /\ Singly => Len(rows) = 1
  /\ pc \in {"alter", "retry"} => default_identity_value /\ firstInBlock
  /\ Predicting => next_identity_value = nextId + Zeros(rows, Len(rows)) \/ Rejected
  /\ pc = "alter" /\ locked => generatedIdValue \in {0, nextId - 1}
  /\ pc = "retry" /\ locked => nextId <= MaxId /\ nextId \notin table

InsertInv ==
  /\ HeldInv /\ InsertTypes /\ StageInv
  /\ pc = "idle" => BufferInv
  /\ pc = "idle" /\ ~failed /\ stage # "none" => Aligned
  /\ pc # "idle" /\ caller = "write_row" => Flushing

LEMMA RowAdded ==
  ASSUME NEW rs \in Seq(Values), NEW row \in Values, NEW next
  PROVE  /\ Append(rs, row) \in Seq(Values) /\ Len(Append(rs, row)) = Len(rs) + 1
         /\ Append(rs, row)[Len(rs) + 1] = row
         /\ \A j \in 1..Len(rs) : ToldOf(Append(rs, row), next, j) = ToldOf(rs, next, j)
         /\ ToldOf(Append(rs, row), next, Len(rs) + 1)
            = IF row # 0 THEN row ELSE next + Zeros(rs, Len(rs))
         /\ Zeros(Append(rs, row), Len(rs) + 1)
            = IF row = 0 THEN Zeros(rs, Len(rs)) + 1 ELSE Zeros(rs, Len(rs))
<1> DEFINE t == Append(rs, row)
<1>1. /\ t \in Seq(Values) /\ Len(t) = Len(rs) + 1 /\ t[Len(rs) + 1] = row
      /\ \A j \in 1..Len(rs) : t[j] = rs[j]
  BY AppendProperties
<1>2. Len(rs) \in Nat BY LenProperties
<1> HIDE DEF t
<1>3. \A j \in 0..Len(rs) : Zeros(t, j) = Zeros(rs, j)
  <2>1. ASSUME NEW j \in 0..Len(rs) PROVE Zeros(t, j) = Zeros(rs, j)
    <3>1. j \in Nat /\ \A i \in 1..j : t[i] = rs[i] BY <1>1, <1>2
    <3>2. QED BY <3>1, ZerosSame
  <2>2. QED BY <2>1
<1>4. ASSUME NEW j \in 1..Len(rs) PROVE ToldOf(t, next, j) = ToldOf(rs, next, j)
  <2>1. t[j] = rs[j] /\ Zeros(t, j - 1) = Zeros(rs, j - 1) BY <1>1, <1>2, <1>3
  <2>2. QED BY <2>1 DEF ToldOf
<1>5. Zeros(t, (Len(rs) + 1) - 1) = Zeros(rs, Len(rs)) BY <1>2, <1>3
<1>6. ToldOf(t, next, Len(rs) + 1)
      = IF row # 0 THEN row ELSE next + Zeros(rs, Len(rs))
  BY <1>1, <1>5 DEF ToldOf
<1>7. Zeros(t, Len(rs) + 1) = IF row = 0 THEN Zeros(rs, Len(rs)) + 1 ELSE Zeros(rs, Len(rs))
  <2>1. Zeros(t, Len(rs)) = Zeros(rs, Len(rs)) BY <1>2, <1>3
  <2>2. QED BY <1>1, <1>2, <2>1, ZerosNext
<1>8. QED BY <1>1, <1>4, <1>6, <1>7 DEF t

-----------------------------------------------------------------------------
(* What write_row does, by how it ends.                                    *)
capacityOf == IF outstanding_start_bulk_insert THEN rowCapacity ELSE 1
exhaustedBy(row) == predicts(row) /\ next_identity_value - 1 = MaxId
toldOf(row) == IF predicts(row) THEN next_identity_value ELSE row
WriteFrame ==
  /\ pc = "idle" /\ ~failed /\ stage \in {"begun", "insert"} /\ stage' = "insert"
  /\ UNCHANGED <<mine, table, nextId, startId, outstanding_start_bulk_insert,
                 autoIncLockAcquired, locked, got_auto_inc_values, ignores,
                 returnDupKeysImmediately>>
Skips ==
  /\ failed' = TRUE /\ rows' = rows /\ rowCapacity' \in {rowCapacity, capacityOf}
  /\ UNCHANGED <<next_identity_value, pc, image, generatedIdValue, written, images>>
  /\ default_identity_value' \in BOOLEAN
Takes(row) ==
  /\ rows' = Append(rows, row) /\ rowCapacity' = capacityOf
  /\ next_identity_value' = next_identity_value + Bit(predicts(row) /\ ~exhaustedBy(row))
  /\ default_identity_value' = (row = 0)
Flushes(row) == (~exhaustedBy(row) /\ Len(rows) + 1 = capacityOf) \/ Singly
ToFlush(row) ==
  /\ pc' = "flush" /\ caller' = "write_row" /\ image' = toldOf(row)
  /\ generatedIdValue' = 0 /\ written' = 0 /\ UNCHANGED <<images, failed>>
Keeps(row) ==
  /\ UNCHANGED <<pc, image, generatedIdValue, written>>
  /\ images' = (IF exhaustedBy(row) THEN images ELSE Append(images, toldOf(row)))
  /\ failed' = exhaustedBy(row)

LEMMA WriteRowCases ==
  ASSUME InsertInv, NEW row \in Values, write_row(row)
  PROVE  /\ WriteFrame
         /\ Skips \/ (Takes(row) /\ (Flushes(row) => ToFlush(row)) /\ (~Flushes(row) => Keeps(row)))
<1>1. pc = "idle" /\ ~failed /\ stage \in {"begun", "insert"} /\ stage' = "insert"
  BY DEF write_row, write_row_Refused
<1>2. UNCHANGED <<mine, table, nextId, startId, outstanding_start_bulk_insert,
                  autoIncLockAcquired, locked, got_auto_inc_values, ignores,
                  returnDupKeysImmediately>>
  BY DEF write_row, write_row_Refused, tableVars, bulkVars, lockVars, idVars
<1>3. (IF outstanding_start_bulk_insert THEN rows ELSE <<>>) = rows
  BY <1>1 DEF InsertInv, BufferInv
<1>4. Len(rows) \in Nat /\ Len(Append(rows, row)) = Len(rows) + 1
  BY LenProperties, AppendProperties DEF InsertInv, InsertTypes
<1>5. CASE write_row_Refused
  <2>1. /\ failed' = TRUE
        /\ UNCHANGED <<rows, rowCapacity, next_identity_value, default_identity_value, images>>
        /\ UNCHANGED <<pc, image, generatedIdValue, written>>
    BY <1>5 DEF write_row_Refused, bufferVars, idVars, flushVars
  <2>2. default_identity_value \in BOOLEAN BY DEF InsertInv, InsertTypes
  <2>3. QED BY <1>1, <1>2, <2>1, <2>2 DEF Skips, WriteFrame
<1>6. CASE ~write_row_Refused
  <2> DEFINE n == Len(rows) + 1
  <2>1. /\ rowCapacity' = capacityOf /\ default_identity_value' = (row = 0)
    BY <1>6 DEF write_row, capacityOf
  <2>2. \/ failed' = TRUE /\ rows' = rows /\ UNCHANGED <<next_identity_value, flushVars, images>>
        \/ /\ rows' = Append(rows, row)
           /\ next_identity_value' = next_identity_value + Bit(predicts(row) /\ ~exhaustedBy(row))
           /\ IF Flushes(row)
              THEN /\ pc' = "flush" /\ caller' = "write_row" /\ image' = toldOf(row)
                   /\ generatedIdValue' = 0 /\ written' = 0 /\ UNCHANGED <<images, failed>>
              ELSE /\ images' = (IF exhaustedBy(row) THEN images ELSE Append(images, toldOf(row)))
                   /\ failed' = exhaustedBy(row) /\ UNCHANGED flushVars
    BY <1>3, <1>6 DEF write_row, capacityOf, exhaustedBy, toldOf, Flushes, endOfBuffer, Singly
  <2>3. CASE failed' = TRUE /\ rows' = rows /\ UNCHANGED <<next_identity_value, flushVars, images>>
    BY <1>1, <1>2, <2>1, <2>3 DEF Skips, flushVars, WriteFrame
  <2>4. QED BY <1>1, <1>2, <2>1, <2>2, <2>3 DEF Takes, ToFlush, Keeps, WriteFrame, flushVars
<1>7. QED BY <1>1, <1>2, <1>5, <1>6 DEF WriteFrame

-----------------------------------------------------------------------------
LEMMA InsertWriteRow ==
  ASSUME InsertInv, NEW row \in Values, write_row(row), HeldInv'
  PROVE  InsertInv'
<1>1. WriteFrame BY WriteRowCases
<1>2. /\ pc = "idle" /\ ~failed /\ stage' = "insert"
      /\ UNCHANGED <<mine, table, nextId, startId, outstanding_start_bulk_insert,
                     autoIncLockAcquired, locked, got_auto_inc_values, ignores,
                     returnDupKeysImmediately>>
  BY <1>1 DEF WriteFrame
<1>3. InsertTypes /\ BufferInv /\ Aligned /\ HeldInv
  BY <1>1 DEF InsertInv, WriteFrame
<1>4. StageInv BY DEF InsertInv
<1>5. locked = autoIncLockAcquired /\ (autoIncLockAcquired => outstanding_start_bulk_insert)
  BY <1>3 DEF HeldInv, Agreement
<1>6. /\ rows \in Seq(Values) /\ Len(rows) \in Nat /\ images \in Seq(Nat) /\ Len(images) \in Nat
      /\ mine \in Seq(Nat) /\ Len(mine) \in Nat /\ next_identity_value \in Nat
      /\ nextId \in Nat \ {0} /\ row \in Nat
  BY <1>3, LenProperties DEF InsertTypes, Values
<1>7. (Predicting' <=> Predicting) /\ (Singly' <=> Singly)
  BY <1>2 DEF Predicting, Singly
<1>8. CASE Skips
  <2>1. /\ failed' = TRUE /\ rows' = rows /\ rowCapacity' \in {rowCapacity, capacityOf}
        /\ UNCHANGED <<next_identity_value, pc, image, generatedIdValue, written, images>>
        /\ default_identity_value' \in BOOLEAN
    BY <1>8 DEF Skips
  <2>2. InsertTypes' BY <1>2, <1>3, <2>1 DEF InsertTypes
  <2>3. StageInv' BY <1>2, <1>4, <2>1, <1>1 DEF StageInv, WriteFrame
  <2>4. rowCapacity' = 1 => rows = <<>>
    BY <1>2, <1>3, <2>1 DEF BufferInv, capacityOf
  <2>5. BufferInv' BY <1>2, <1>3, <2>1, <2>4 DEF BufferInv
  <2>6. QED BY <1>2, <2>1, <2>2, <2>3, <2>5 DEF InsertInv
<1>9. CASE Takes(row)
  <2>0. PICK n \in Nat : n = Len(rows) + 1 BY <1>6
  <2>1. /\ rows' = Append(rows, row) /\ rowCapacity' = capacityOf
        /\ next_identity_value' = next_identity_value + Bit(predicts(row) /\ ~exhaustedBy(row))
        /\ default_identity_value' = (row = 0)
    BY <1>9 DEF Takes
  <2>2. /\ rows' \in Seq(Values) /\ Len(rows') = n /\ rows'[n] = row
        /\ \A j \in 1..Len(rows) : /\ rows'[j] = rows[j]
                                   /\ ToldOf(rows', nextId, j) = ToldOf(rows, nextId, j)
        /\ ToldOf(rows', nextId, n) = IF row # 0 THEN row ELSE nextId + Zeros(rows, Len(rows))
        /\ Zeros(rows', n) = IF row = 0 THEN Zeros(rows, Len(rows)) + 1 ELSE Zeros(rows, Len(rows))
    <3> DEFINE t == Append(rows, row)
    <3>1. \A j \in 1..Len(rows) : t[j] = rows[j] BY <1>6, AppendProperties
    <3>2. /\ t \in Seq(Values) /\ Len(t) = Len(rows) + 1 /\ t[Len(rows) + 1] = row
          /\ \A j \in 1..Len(rows) : ToldOf(t, nextId, j) = ToldOf(rows, nextId, j)
          /\ ToldOf(t, nextId, Len(rows) + 1)
             = IF row # 0 THEN row ELSE nextId + Zeros(rows, Len(rows))
          /\ Zeros(t, Len(rows) + 1)
             = IF row = 0 THEN Zeros(rows, Len(rows)) + 1 ELSE Zeros(rows, Len(rows))
      BY <1>6, RowAdded, ZenonT(60)
    <3> HIDE DEF t
    <3>3. rows' = t BY <2>1 DEF t
    <3>4. QED BY <2>0, <3>1, <3>2, <3>3
  <2>3. /\ \A j \in 1..Len(rows) : Told(j)' = Told(j)
        /\ Told(n)' = IF row # 0 THEN row
                      ELSE IF Predicting THEN nextId + Zeros(rows, Len(rows)) ELSE 0
    <3>1. \A j : Told(j)' = IF rows'[j] # 0 \/ Predicting THEN ToldOf(rows', nextId, j) ELSE 0
      <4>1. nextId' = nextId BY <1>2
      <4>2. \A j : ToldOf(rows, nextId, j)' = ToldOf(rows', nextId, j) BY <4>1 DEF ToldOf
      <4>3. QED BY <1>7, <4>2 DEF Told
    <3>2. \A j \in 1..Len(rows) : Told(j)' = Told(j) BY <2>2, <3>1 DEF Told
    <3>3. QED BY <2>2, <3>1, <3>2
  <2>4. toldOf(row) = Told(n)'
    BY <1>3, <2>3 DEF toldOf, predicts, Predicting, Aligned
  <2>5. next_identity_value' \in Nat
        /\ (Predicting /\ ~exhaustedBy(row) => next_identity_value' = nextId + Zeros(rows', n))
    <3>1. CASE predicts(row) /\ ~exhaustedBy(row)
      <4>1. next_identity_value' = next_identity_value + 1 BY <2>1, <3>1 DEF Bit
      <4>2. row = 0 /\ Predicting BY <3>1 DEF predicts, Predicting
      <4>3. next_identity_value = nextId + Zeros(rows, Len(rows)) BY <4>2, <1>3 DEF Aligned
      <4>4. Zeros(rows, Len(rows)) \in Nat BY <1>6, ZerosNat
      <4>5. Zeros(rows', n) = Zeros(rows, Len(rows)) + 1 BY <2>2, <4>2
      <4>6. next_identity_value' \in Nat BY <1>6, <4>1
      <4>7. next_identity_value' = nextId + Zeros(rows', n) BY <1>6, <4>1, <4>3, <4>4, <4>5
      <4>8. QED BY <4>6, <4>7
    <3>2. CASE ~(predicts(row) /\ ~exhaustedBy(row))
      <4>1. next_identity_value' = next_identity_value BY <1>6, <2>1, <3>2 DEF Bit
      <4>2. ASSUME Predicting, ~exhaustedBy(row)
            PROVE  next_identity_value' = nextId + Zeros(rows', n)
        <5>1. row # 0 BY <3>2, <4>2 DEF predicts, Predicting
        <5>2. next_identity_value = nextId + Zeros(rows, Len(rows)) BY <4>2, <1>3 DEF Aligned
        <5>3. QED BY <2>2, <4>1, <5>1, <5>2
      <4>3. QED BY <1>6, <4>1, <4>2
    <3>3. QED BY <3>1, <3>2
  <2>6. toldOf(row) \in Nat BY <1>6 DEF toldOf
  <2>7. Singly => rows = <<>> BY <1>2, <1>3 DEF BufferInv
  <2>8. exhaustedBy(row) => /\ Predicting /\ row = 0 /\ locked
                            /\ (rows = <<>> => nextId > MaxId)
    <3>1. ASSUME exhaustedBy(row) PROVE Predicting /\ row = 0 /\ next_identity_value - 1 = MaxId
      BY <3>1 DEF exhaustedBy, predicts, Predicting
    <3>2. ASSUME Predicting PROVE next_identity_value = nextId + Zeros(rows, Len(rows)) /\ locked
      BY <1>3, <1>5, <3>2 DEF Aligned, Predicting
    <3>3. ASSUME rows = <<>> PROVE Zeros(rows, Len(rows)) = 0
      <4>1. Len(rows) = 0 BY <3>3, EmptySeq
      <4>2. QED BY <4>1, ZerosNone
    <3>4. MaxId \in Nat BY MaxIdAssumption
    <3>5. QED BY <1>6, <3>1, <3>2, <3>3, <3>4
  <2>9. rows = <<>> => n = 1 /\ rows' = <<row>>
    BY <2>0, <2>1, EmptySeq
  <2>10. rowCapacity' = 1 => rows = <<>>
    BY <1>2, <1>3, <2>1 DEF BufferInv, capacityOf
  <2>11. CASE Flushes(row) /\ ToFlush(row)
    <3>1. /\ pc' = "flush" /\ caller' = "write_row" /\ image' = toldOf(row)
          /\ generatedIdValue' = 0 /\ written' = 0 /\ UNCHANGED <<images, failed>>
      BY <2>11 DEF ToFlush
    <3>2. InsertTypes' BY <1>2, <1>3, <2>1, <2>2, <2>5, <2>6, <3>1 DEF InsertTypes
    <3>3. StageInv' BY <1>2, <1>4, <1>1, <3>1 DEF StageInv, WriteFrame
    <3>4. Flushing'
      <4>1. Len(rows') >= 1 /\ 0 < Len(rows') /\ 0 <= Len(mine) BY <1>6, <2>0, <2>2
      <4>2. Len(images') + 1 = (Len(mine') - written') + Len(rows') /\ Matched'
        <5>1. Len(images) = Len(mine) + Len(rows) /\ Matched BY <1>3 DEF Aligned
        <5>2. Matched' BY <1>2, <3>1, <5>1 DEF Matched
        <5>3. Len(images') = Len(images) /\ Len(mine') = Len(mine) BY <1>2, <3>1
        <5>4. QED BY <1>6, <2>0, <2>2, <3>1, <5>1, <5>2, <5>3
      <4>3. ASSUME NEW j \in written' + 1..Len(rows') - 1
            PROVE  images'[(Len(mine') - written') + j] = Told(j)'
        <5>1. j \in 1..Len(rows) BY <1>6, <2>0, <2>2, <3>1
        <5>2. images[Len(mine) + j] = Told(j) BY <5>1, <1>3 DEF Aligned
        <5>3. (Len(mine') - written') + j = Len(mine) + j BY <1>2, <1>6, <3>1, <5>1
        <5>4. images'[(Len(mine') - written') + j] = images[Len(mine) + j] BY <3>1, <5>3
        <5>5. QED BY <2>3, <5>1, <5>2, <5>4
      <4>4. (image = Told(Len(rows)))'
        <5>1. image' = Told(n)' BY <2>4, <3>1
        <5>2. Len(rows)' = n BY <2>2
        <5>3. QED BY <5>1, <5>2
      <4>5. default_identity_value' = (rows'[Len(rows')] = 0) BY <2>1, <2>2
      <4>6. Singly' => Len(rows') = 1 BY <1>7, <2>2, <2>7, <2>9
      <4>7. Predicting' => next_identity_value' = nextId' + Zeros(rows', Len(rows')) \/ Rejected'
        <5>1. CASE ~exhaustedBy(row) BY <1>2, <1>7, <2>2, <2>5, <5>1
        <5>2. CASE exhaustedBy(row)
          <6>1. Singly BY <2>11, <5>2 DEF Flushes
          <6>2. rows' = <<0>> /\ nextId > MaxId /\ locked BY <2>7, <2>8, <2>9, <5>2, <6>1
          <6>3. QED BY <1>2, <6>2 DEF Rejected
        <5>3. QED BY <5>1, <5>2
      <4>8. ~failed' BY <1>2, <3>1
      <4>9. QED
        BY <3>1, <4>1, <4>2, <4>3, <4>4, <4>5, <4>6, <4>7, <4>8, <1>2 DEF Flushing
    <3>5. QED BY <3>1, <3>2, <3>3, <3>4 DEF InsertInv
  <2>12. CASE ~Flushes(row) /\ Keeps(row)
    <3>1. /\ UNCHANGED <<pc, image, generatedIdValue, written>>
          /\ images' = (IF exhaustedBy(row) THEN images ELSE Append(images, toldOf(row)))
          /\ failed' = exhaustedBy(row)
      BY <2>12 DEF Keeps
    <3>2. ~Singly BY <2>12 DEF Flushes
    <3>3. images' \in Seq(Nat) /\ failed' \in BOOLEAN
      <4>1. failed' \in BOOLEAN BY <3>1 DEF exhaustedBy
      <4>2. Append(images, toldOf(row)) \in Seq(Nat) BY <1>6, <2>6, AppendProperties
      <4>3. QED BY <1>6, <3>1, <4>1, <4>2
    <3>4. InsertTypes' BY <1>2, <1>3, <2>1, <2>2, <2>5, <3>1, <3>3 DEF InsertTypes
    <3>5. StageInv' BY <1>2, <1>4, <1>1, <3>1 DEF StageInv, WriteFrame
    <3>6. outstanding_start_bulk_insert
      <4>1. ASSUME ~outstanding_start_bulk_insert PROVE FALSE
        <5>1. rows = <<>> /\ capacityOf = 1 BY <4>1, <1>2, <1>3 DEF BufferInv, capacityOf
        <5>2. ~exhaustedBy(row) BY <4>1, <1>5, <2>8
        <5>3. QED BY <2>9, <2>12, <5>1, <5>2 DEF Flushes
      <4>2. QED BY <4>1
    <3>7. rowCapacity' = 1 => exhaustedBy(row) /\ rows' = <<0>> /\ nextId > MaxId /\ locked
      <4>1. ASSUME rowCapacity' = 1 PROVE exhaustedBy(row) /\ rows = <<>>
        <5>1. capacityOf = 1 /\ n = 1 /\ rows = <<>> BY <2>1, <2>9, <2>10, <4>1
        <5>2. QED BY <2>12, <5>1 DEF Flushes
      <4>2. QED BY <2>8, <2>9, <4>1
    <3>8. BufferInv'
      <4>1. outstanding_start_bulk_insert' BY <1>2, <3>6
      <4>2. ~Singly' BY <1>7, <3>2
      <4>3. rowCapacity' = 1 => failed' /\ Rejected' BY <1>2, <3>1, <3>7 DEF Rejected
      <4>4. QED BY <1>2, <4>1, <4>2, <4>3 DEF BufferInv
    <3>9. ASSUME ~failed' PROVE Aligned'
      <4>1. ~exhaustedBy(row) /\ images' = Append(images, toldOf(row)) BY <3>1, <3>9
      <4>2. Len(images) = Len(mine) + Len(rows) /\ Matched BY <1>3 DEF Aligned
      <4>3. /\ Len(images') = Len(images) + 1 /\ images'[Len(images) + 1] = toldOf(row)
            /\ \A i \in 1..Len(images) : images'[i] = images[i]
        BY <1>6, <2>6, <4>1, AppendProperties
      <4>4. mine' = mine /\ Len(images') = Len(mine') + Len(rows') BY <1>2, <1>6, <2>0, <2>2, <4>2, <4>3
      <4>5. Matched'
        <5>1. 1..Len(mine) \subseteq 1..Len(images) BY <1>6, <4>2
        <5>2. QED BY <4>2, <4>3, <4>4, <5>1 DEF Matched
      <4>6. ASSUME NEW j \in 1..Len(rows') PROVE images'[Len(mine') + j] = Told(j)'
        <5>1. CASE j \in 1..Len(rows)
          <6>1. images[Len(mine) + j] = Told(j) BY <5>1, <1>3 DEF Aligned
          <6>2. Len(mine) + j \in 1..Len(images) BY <1>6, <4>2, <5>1
          <6>3. images'[Len(mine') + j] = images[Len(mine) + j] BY <4>3, <4>4, <6>2
          <6>4. QED BY <2>3, <5>1, <6>1, <6>3
        <5>2. CASE j = n
          <6>1. Len(mine) + n = Len(images) + 1 BY <1>6, <2>0, <4>2
          <6>2. images'[Len(mine') + j] = toldOf(row) BY <4>3, <4>4, <5>2, <6>1
          <6>3. QED BY <2>4, <5>2, <6>2
        <5>3. QED BY <1>6, <2>0, <2>2, <5>1, <5>2
      <4>7. Predicting' => next_identity_value' = nextId' + Zeros(rows', Len(rows'))
        BY <1>2, <1>7, <2>2, <2>5, <4>1
      <4>8. QED BY <4>4, <4>5, <4>6, <4>7 DEF Aligned
    <3>10. QED BY <1>2, <3>1, <3>4, <3>5, <3>8, <3>9 DEF InsertInv
  <2>13. QED BY <1>9, <2>11, <2>12, <1>8, WriteRowCases
<1>10. QED BY <1>8, <1>9, WriteRowCases

-----------------------------------------------------------------------------
Known(rc, g) == rc \in {"OK", "dup"} /\ default_identity_value /\ g # 0 /\ firstInBlock

LEMMA FlushedDoes ==
  ASSUME NEW rc, NEW g, flushed(rc, g)
  PROVE  /\ got_auto_inc_values' = (got_auto_inc_values \/ (Known(rc, g) /\ autoIncLockAcquired))
         /\ next_identity_value' = (IF Known(rc, g) /\ autoIncLockAcquired
                                    THEN g + 1 ELSE next_identity_value)
         /\ pc' = "idle" /\ rows' = <<>>
         /\ UNCHANGED <<default_identity_value, caller, image, generatedIdValue, written>>
         /\ caller = "write_row" =>
              /\ images' = (IF rc = "OK" THEN Append(images, IF Known(rc, g) THEN g ELSE image)
                            ELSE images)
              /\ failed' = (rc # "OK" /\ ~(rc = "dup" /\ ignores))
              /\ UNCHANGED <<outstanding_start_bulk_insert, rowCapacity, autoIncLockAcquired,
                             locked, stage, ignores, returnDupKeysImmediately>>
         /\ caller # "write_row" =>
              /\ UNCHANGED <<images, failed, ignores>>
              /\ returnDupKeysImmediately' = (caller # "reset" /\ returnDupKeysImmediately)
              /\ stage' = (IF caller = "reset" THEN "none" ELSE stage)
<1>1. CASE caller = "write_row"
  <2>1. /\ images' = (IF rc = "OK" THEN Append(images, IF Known(rc, g) THEN g ELSE image)
                      ELSE images)
        /\ failed' = (rc # "OK" /\ ~(rc = "dup" /\ ignores)) /\ rows' = <<>>
        /\ UNCHANGED <<bulkVars, rowCapacity, lockVars, stage, ignores, returnDupKeysImmediately>>
    BY <1>1 DEF flushed, Known, resetAfterWrite
  <2>2. QED BY <1>1, <2>1 DEF flushed, Known, bulkVars, lockVars, predictionAfter
<1>2. CASE caller # "write_row"
  <2>1. bulkInsertFinished(caller) BY <1>2 DEF flushed
  <2>2. QED BY <1>2, <2>1 DEF flushed, Known, bulkInsertFinished, predictionAfter
<1>3. QED BY <1>1, <1>2

(* The part of the types that flushed is concerned with.                   *)
LEMMA FlushedTypes ==
  ASSUME InsertTypes, NEW rc, NEW g \in Nat, flushed(rc, g)
  PROVE  /\ rows' \in Seq(Values) /\ images' \in Seq(Nat)
         /\ next_identity_value' \in Nat /\ image' \in Nat /\ generatedIdValue' \in Nat
         /\ written' \in Nat
         /\ got_auto_inc_values' \in BOOLEAN /\ default_identity_value' \in BOOLEAN
         /\ failed' \in BOOLEAN /\ ignores' \in BOOLEAN /\ returnDupKeysImmediately' \in BOOLEAN
<1>1. rows' = <<>> /\ rows' \in Seq(Values)
  <2>1. rows' = <<>> BY FlushedDoes
  <2>2. QED BY <2>1, EmptySeq
<1>2. /\ got_auto_inc_values' = (got_auto_inc_values \/ (Known(rc, g) /\ autoIncLockAcquired))
      /\ next_identity_value' = (IF Known(rc, g) /\ autoIncLockAcquired
                                 THEN g + 1 ELSE next_identity_value)
      /\ UNCHANGED <<default_identity_value, image, generatedIdValue, written>>
  BY FlushedDoes
<1>3. got_auto_inc_values' \in BOOLEAN BY <1>2
<1>4. next_identity_value' \in Nat BY <1>2 DEF InsertTypes
<1>5. CASE caller = "write_row"
  <2>1. /\ images' = (IF rc = "OK" THEN Append(images, IF Known(rc, g) THEN g ELSE image)
                      ELSE images)
        /\ failed' = (rc # "OK" /\ ~(rc = "dup" /\ ignores))
        /\ UNCHANGED <<ignores, returnDupKeysImmediately>>
    BY <1>5, FlushedDoes
  <2>2. Append(images, IF Known(rc, g) THEN g ELSE image) \in Seq(Nat)
    <3>1. (IF Known(rc, g) THEN g ELSE image) \in Nat /\ images \in Seq(Nat) BY DEF InsertTypes
    <3>2. QED BY <3>1, AppendProperties
  <2>3. images' \in Seq(Nat) BY <2>1, <2>2 DEF InsertTypes
  <2>4. failed' \in BOOLEAN BY <2>1
  <2>5. ignores' \in BOOLEAN /\ returnDupKeysImmediately' \in BOOLEAN BY <2>1 DEF InsertTypes
  <2>6. QED BY <1>1, <1>2, <1>3, <1>4, <2>3, <2>4, <2>5 DEF InsertTypes
<1>6. CASE caller # "write_row"
  <2>1. /\ UNCHANGED <<images, failed, ignores>>
        /\ returnDupKeysImmediately' = (caller # "reset" /\ returnDupKeysImmediately)
    BY <1>6, FlushedDoes
  <2>2. returnDupKeysImmediately' \in BOOLEAN BY <2>1
  <2>3. QED BY <1>1, <1>2, <1>3, <1>4, <2>1, <2>2 DEF InsertTypes
<1>7. QED BY <1>5, <1>6

(* finishBulkInsert makes no claim of a statement: it has failed, or MySQL *)
(* has ended it.                                                           *)
LEMMA FlushedByFinish ==
  ASSUME InsertInv, NEW rc, NEW g \in Nat, flushed(rc, g), pc # "idle", caller # "write_row",
         HeldInv', InsertTypes'
  PROVE  InsertInv'
<1>1. /\ pc' = "idle" /\ rows' = <<>> /\ UNCHANGED <<images, failed, ignores>>
      /\ returnDupKeysImmediately' = (caller # "reset" /\ returnDupKeysImmediately)
      /\ stage' = (IF caller = "reset" THEN "none" ELSE stage)
  BY FlushedDoes
<1>2. StageInv BY DEF InsertInv
<1>3. \/ caller = "reset" /\ stage' = "none"
      \/ caller = "extra" /\ failed /\ stage' = "insert"
  BY <1>1, <1>2 DEF StageInv
<1>4. StageInv' BY <1>1, <1>2, <1>3 DEF StageInv
<1>5. BufferInv' BY <1>1, <1>3 DEF BufferInv
<1>6. ~(~failed' /\ stage' # "none") BY <1>1, <1>3
<1>7. QED BY <1>1, <1>4, <1>5, <1>6 DEF InsertInv

-----------------------------------------------------------------------------
(* The block that flushWrite writes, and what becomes of it.               *)
NotWritten ==
  [stored |-> table, next |-> nextId, ids |-> <<>>, generated |-> 0, rc |-> "other"]
block == SubSeq(rows, written + 1, Len(rows))

LEMMA BlockIs ==
  ASSUME InsertTypes
  PROVE  /\ block \in Seq(Values)
         /\ written < Len(rows) => Len(block) = Len(rows) - written /\ Len(block) \in Nat
         /\ \A j \in 1..Len(rows) - written : block[j] = rows[written + j]
<1>1. rows \in Seq(Values) /\ Len(rows) \in Nat /\ written \in Nat
  BY LenProperties DEF InsertTypes
<1>2. \A i \in written + 1..Len(rows) : rows[i] \in Values BY <1>1, ElementOfSeq
<1>3. /\ block \in Seq(Values)
      /\ Len(block) = IF written + 1 <= Len(rows) THEN Len(rows) - (written + 1) + 1 ELSE 0
      /\ \A i \in 1..Len(rows) - (written + 1) + 1 : block[i] = rows[written + 1 + i - 1]
  <2>1. written + 1 \in Int /\ Len(rows) \in Int BY <1>1
  <2>2. QED BY <1>2, <2>1, SubSeqProperties DEF block
<1>4. Len(rows) - (written + 1) + 1 = Len(rows) - written
      /\ \A i \in 1..Len(rows) - written : written + 1 + i - 1 = written + i
  BY <1>1
<1>5. QED BY <1>1, <1>3, <1>4

LEMMA FlushWriteCases ==
  ASSUME InsertInv, flushWrite, RetryResumes = TRUE
  PROVE  \E w \in Writes, g \in Nat :
           /\ w = WriteRows(block) \/ w = NotWritten
           /\ g = w.generated \/ (w.rc = "dup" /\ g = 0)
           /\ table' = w.stored /\ nextId' = w.next /\ mine' = mine \o w.ids
           /\ startId' = startId /\ pc \in {"flush", "retry"}
           /\ \/ /\ w.rc = "dup" /\ mayRetry /\ pc' = "alter" /\ generatedIdValue' = g
                 /\ written' = Len(w.ids)
                 /\ UNCHANGED <<bulkVars, bufferVars, handleVars, lockVars, idVars, caller,
                                released, image, statementVars>>
              \/ /\ ~(w.rc = "dup" /\ mayRetry)
                 /\ flushed(w.rc, IF g = 0 THEN generatedIdValue ELSE g)
<1>1. InsertTypes BY DEF InsertInv
<1>2. SubSeq(rows, (IF RetryResumes THEN written ELSE 0) + 1, Len(rows)) = block BY DEF block
<1>3. PICK w : /\ w = WriteRows(block) \/ w = NotWritten
               /\ table' = w.stored /\ nextId' = w.next /\ mine' = mine \o w.ids
               /\ \E g \in IF w.rc = "dup" THEN {0, w.generated} ELSE {w.generated} :
                    IF w.rc = "dup" /\ mayRetry
                    THEN /\ pc' = "alter" /\ generatedIdValue' = g /\ written' = Len(w.ids)
                         /\ UNCHANGED <<bulkVars, bufferVars, handleVars, lockVars, idVars,
                                        caller, released, image, statementVars>>
                    ELSE flushed(w.rc, IF g = 0 THEN generatedIdValue ELSE g)
  BY <1>2 DEF flushWrite, NotWritten
<1>4. w \in Writes
  <2>1. table \subseteq 1..MaxId /\ nextId \in Nat \ {0} /\ block \in Seq(Values)
    BY <1>1, BlockIs DEF InsertTypes
  <2>2. NotWritten \in Writes
    <3>1. <<>> \in Seq(Nat) BY EmptySeq
    <3>2. QED BY <2>1, <3>1 DEF NotWritten, Writes
  <2>3. WriteRows(block) \in Writes BY <2>1, WriteRowsDoes DEF WrittenUpTo
  <2>4. QED BY <1>3, <2>2, <2>3
<1>5. w.generated \in Nat BY <1>4 DEF Writes
<1>6. startId' = startId /\ pc \in {"flush", "retry"} BY DEF flushWrite
<1>7. PICK g \in IF w.rc = "dup" THEN {0, w.generated} ELSE {w.generated} :
                    IF w.rc = "dup" /\ mayRetry
                    THEN /\ pc' = "alter" /\ generatedIdValue' = g /\ written' = Len(w.ids)
                         /\ UNCHANGED <<bulkVars, bufferVars, handleVars, lockVars, idVars,
                                        caller, released, image, statementVars>>
                    ELSE flushed(w.rc, IF g = 0 THEN generatedIdValue ELSE g)
  BY <1>3
<1>8. g \in Nat /\ (g = w.generated \/ (w.rc = "dup" /\ g = 0)) BY <1>5, <1>7
<1>9. CASE w.rc = "dup" /\ mayRetry BY <1>3, <1>4, <1>6, <1>7, <1>8, <1>9
<1>10. CASE ~(w.rc = "dup" /\ mayRetry) BY <1>3, <1>4, <1>6, <1>7, <1>8, <1>10
<1>11. QED BY <1>9, <1>10

(* What the block of write_row becomes, by the rows.                       *)
LEMMA BlockWritten ==
  ASSUME InsertInv, pc # "idle", caller = "write_row",
         NEW w \in Writes, w = WriteRows(block) \/ w = NotWritten
  PROVE  /\ Len(w.ids) \in Nat /\ w.ids \in Seq(Nat) /\ Len(w.ids) <= Len(rows) - written
         /\ (w.rc = "OK" <=> Len(w.ids) = Len(rows) - written)
         /\ \A j \in 1..Len(w.ids) :
              w.ids[j] = Given(rows[written + j], nextId + Zeros(block, j - 1))
         /\ w.generated \in {0, w.next - 1}
         /\ w.rc = "OK" => /\ w.next = nextId + Zeros(block, Len(block))
                           /\ rows[Len(rows)] = 0 => /\ w.generated = w.next - 1
                                                     /\ w.generated # 0
         /\ w.rc = "dup" => /\ w.next = nextId + Zeros(block, Len(w.ids) + 1)
                            /\ w.stored # {}
<1>1. InsertTypes /\ Flushing BY DEF InsertInv
<1>2. /\ Len(rows) \in Nat /\ written \in Nat /\ written < Len(rows)
      /\ table \subseteq 1..MaxId /\ nextId \in Nat \ {0}
  BY <1>1, LenProperties DEF InsertTypes, Flushing
<1>3. /\ block \in Seq(Values) /\ Len(block) = Len(rows) - written /\ Len(block) \in Nat
      /\ \A j \in 1..Len(block) : block[j] = rows[written + j]
  BY <1>1, <1>2, BlockIs
<1>4. WrittenUpTo(w, block, Len(block), nextId)
  <2>1. CASE w = WriteRows(block) BY <1>2, <1>3, <2>1, WriteRowsDoes
  <2>2. CASE w = NotWritten
    <3>1. w.ids = <<>> /\ w.generated = 0 /\ w.rc = "other" BY <2>2 DEF NotWritten
    <3>2. Len(w.ids) = 0 BY <3>1, EmptySeq
    <3>3. 0 < Len(block) BY <1>2, <1>3
    <3>4. QED BY <3>1, <3>2, <3>3 DEF WrittenUpTo, IdsGiven, LastDrawn
  <2>3. QED BY <2>1, <2>2
<1>5. w.ids \in Seq(Nat) /\ Len(w.ids) \in Nat /\ w.next \in Nat \ {0}
  <2>1. w.ids \in Seq(Nat) /\ w.next \in Nat \ {0} BY DEF Writes
  <2>2. QED BY <2>1, LenProperties
<1>6. Len(w.ids) <= Len(block) /\ (w.rc = "OK" <=> Len(w.ids) = Len(block))
  BY <1>3, <1>4, <1>5 DEF WrittenUpTo
<1>7. \A j \in 1..Len(w.ids) :
        w.ids[j] = Given(rows[written + j], nextId + Zeros(block, j - 1))
  <2>1. ASSUME NEW j \in 1..Len(w.ids)
        PROVE  w.ids[j] = Given(rows[written + j], nextId + Zeros(block, j - 1))
    <3>1. block[j] = rows[written + j] BY <1>3, <1>5, <1>6
    <3>2. w.ids[j] = Given(block[j], nextId + Zeros(block, j - 1)) BY <1>4 DEF WrittenUpTo, IdsGiven
    <3>3. QED BY <3>1, <3>2
  <2>2. QED BY <2>1
<1>8. w.generated \in {0, w.next - 1} BY <1>4 DEF WrittenUpTo, LastDrawn
<1>9. ASSUME w.rc = "OK"
      PROVE  /\ w.next = nextId + Zeros(block, Len(block))
             /\ rows[Len(rows)] = 0 => w.generated = w.next - 1 /\ w.generated # 0
  <2>1. w.next = nextId + Zeros(block, Len(block)) BY <1>4, <1>9 DEF WrittenUpTo
  <2>2. ASSUME rows[Len(rows)] = 0 PROVE w.generated = w.next - 1 /\ w.generated # 0
    <3>1. Len(block) > 0 /\ Len(block) \in 1..Len(block) /\ written + Len(block) = Len(rows)
      BY <1>2, <1>3
    <3>2. block[Len(block)] = 0 BY <1>3, <2>2, <3>1
    <3>3. w.generated = w.next - 1 /\ w.next > 1 BY <1>4, <1>9, <3>1, <3>2 DEF WrittenUpTo
    <3>4. QED BY <1>5, <3>3
  <2>3. QED BY <2>1, <2>2
<1>10. w.rc = "dup" => w.next = nextId + Zeros(block, Len(w.ids) + 1) /\ w.stored # {}
  BY <1>4 DEF WrittenUpTo
<1>11. QED BY <1>3, <1>5, <1>6, <1>7, <1>8, <1>9, <1>10

(* The types, whoever has called flushWrite.                               *)
LEMMA FlushWriteTypes ==
  ASSUME InsertInv, flushWrite, RetryResumes = TRUE
  PROVE  InsertTypes'
<1>1. InsertTypes BY DEF InsertInv
<1>2. PICK w \in Writes, g \in Nat :
           /\ table' = w.stored /\ nextId' = w.next /\ mine' = mine \o w.ids
           /\ startId' = startId
           /\ \/ /\ generatedIdValue' = g /\ written' = Len(w.ids)
                 /\ UNCHANGED <<bulkVars, bufferVars, handleVars, lockVars, idVars, caller,
                                released, image, statementVars>>
              \/ flushed(w.rc, IF g = 0 THEN generatedIdValue ELSE g)
  BY FlushWriteCases
<1>3. table' \subseteq 1..MaxId /\ nextId' \in Nat \ {0} /\ startId' \in Nat \ {0}
  BY <1>1, <1>2 DEF Writes, InsertTypes
<1>4. mine' \in Seq(Nat) /\ Len(w.ids) \in Nat
  <2>1. w.ids \in Seq(Nat) /\ mine \in Seq(Nat) BY <1>1 DEF Writes, InsertTypes
  <2>2. QED BY <1>2, <2>1, LenProperties, ConcatProperties
<1>5. CASE flushed(w.rc, IF g = 0 THEN generatedIdValue ELSE g)
  <2>1. (IF g = 0 THEN generatedIdValue ELSE g) \in Nat BY <1>1 DEF InsertTypes
  <2>2. QED BY <1>1, <1>3, <1>4, <1>5, <2>1, FlushedTypes DEF InsertTypes
<1>6. CASE /\ generatedIdValue' = g /\ written' = Len(w.ids)
           /\ UNCHANGED <<bulkVars, bufferVars, handleVars, lockVars, idVars, caller,
                          released, image, statementVars>>
  <2>1. UNCHANGED <<rows, images, next_identity_value, image, got_auto_inc_values,
                    default_identity_value, failed, ignores, returnDupKeysImmediately>>
    BY <1>6 DEF bufferVars, idVars, statementVars
  <2>2. QED BY <1>1, <1>3, <1>4, <1>6, <2>1 DEF InsertTypes
<1>7. QED BY <1>2, <1>5, <1>6

(* The values stored of a block are those that MySQL has been told, or 0.  *)
LEMMA StoredMatch ==
  ASSUME InsertInv, pc # "idle", caller = "write_row",
         NEW w \in Writes, w = WriteRows(block) \/ w = NotWritten,
         NEW j \in 1..Len(w.ids)
  PROVE  Told(written + j) \in {0, w.ids[j]}
<1>1. InsertTypes /\ Flushing BY DEF InsertInv
<1>2. /\ Len(rows) \in Nat /\ written \in Nat /\ written < Len(rows) /\ rows \in Seq(Values)
  BY <1>1, LenProperties DEF InsertTypes, Flushing
<1>3. /\ Len(w.ids) \in Nat /\ Len(w.ids) <= Len(rows) - written
      /\ w.ids[j] = Given(rows[written + j], nextId + Zeros(block, j - 1))
  BY BlockWritten
<1>4. CASE rows[written + j] # 0 BY <1>3, <1>4 DEF Told, ToldOf, Given
<1>5. CASE rows[written + j] = 0 /\ ~Predicting BY <1>5 DEF Told
<1>6. CASE rows[written + j] = 0 /\ Predicting
  <2>1. written = 0
    <3>1. pc = "flush" BY <1>1, <1>6 DEF Flushing, firstInBlock, Predicting, InsertInv, StageInv
    <3>2. QED BY <1>1, <3>1 DEF Flushing
  <2>2. written + j = j /\ j - 1 \in Nat BY <1>3, <2>1
  <2>3. \A i \in 1..j - 1 : block[i] = rows[i]
    <3>1. \A i \in 1..Len(rows) - written : block[i] = rows[written + i] BY <1>1, BlockIs
    <3>2. QED BY <1>2, <1>3, <2>1, <3>1
  <2>4. Zeros(block, j - 1) = Zeros(rows, j - 1) BY <2>2, <2>3, ZerosSame
  <2>5. QED BY <1>3, <1>6, <2>2, <2>4 DEF Told, ToldOf, Given
<1>7. QED BY <1>4, <1>5, <1>6

(* The whole of the buffer, when no row of it is stored yet.               *)
LEMMA WholeBlock ==
  ASSUME InsertTypes, written = 0, Len(rows) >= 1
  PROVE  Len(block) = Len(rows) /\ \A k \in 0..Len(rows) : Zeros(block, k) = Zeros(rows, k)
<1>1. Len(rows) \in Nat BY LenProperties DEF InsertTypes
<1>2. Len(block) = Len(rows) /\ \A i \in 1..Len(rows) : block[i] = rows[i]
  <2>1. /\ written < Len(rows) => Len(block) = Len(rows) - written
        /\ \A j \in 1..Len(rows) - written : block[j] = rows[written + j]
    BY BlockIs
  <2>2. QED BY <1>1, <2>1
<1>3. ASSUME NEW k \in 0..Len(rows) PROVE Zeros(block, k) = Zeros(rows, k)
  <2>1. k \in Nat /\ \A i \in 1..k : block[i] = rows[i] BY <1>1, <1>2
  <2>2. QED BY <2>1, ZerosSame
<1>4. QED BY <1>2, <1>3

(* The rows written before a block failed are stored for good.             *)
LEMMA MatchedMore ==
  ASSUME InsertInv, pc # "idle", caller = "write_row",
         NEW w \in Writes, w = WriteRows(block) \/ w = NotWritten,
         NEW mn, mn = mine \o w.ids
  PROVE  /\ mn \in Seq(Nat) /\ Len(mn) = Len(mine) + Len(w.ids)
         /\ \A i \in 1..Len(mn) : i <= Len(images) => images[i] \in {0, mn[i]}
<1>1. InsertTypes /\ Flushing BY DEF InsertInv
<1>2. /\ Len(rows) \in Nat /\ written \in Nat /\ written < Len(rows) /\ written <= Len(mine)
      /\ Len(mine) \in Nat /\ mine \in Seq(Nat) /\ Len(images) \in Nat
      /\ Len(images) + 1 = (Len(mine) - written) + Len(rows) /\ Matched
  BY <1>1, LenProperties DEF InsertTypes, Flushing
<1>3. w.ids \in Seq(Nat) /\ Len(w.ids) \in Nat /\ Len(w.ids) <= Len(rows) - written
  BY BlockWritten
<1>4. /\ mn \in Seq(Nat) /\ Len(mn) = Len(mine) + Len(w.ids)
      /\ \A i \in 1..Len(mine) + Len(w.ids) :
           mn[i] = IF i <= Len(mine) THEN mine[i] ELSE w.ids[i - Len(mine)]
  BY <1>2, <1>3, ConcatProperties
<1>5. ASSUME NEW i \in 1..Len(mn), i <= Len(images) PROVE images[i] \in {0, mn[i]}
  <2>1. CASE i <= Len(mine)
    <3>1. i \in 1..Len(mine) BY <1>2, <1>3, <1>4, <2>1
    <3>2. images[i] \in {0, mine[i]} BY <1>2, <3>1 DEF Matched
    <3>3. QED BY <1>4, <2>1, <3>2
  <2>2. CASE i > Len(mine)
    <3>1. PICK j \in 1..Len(w.ids) : i = Len(mine) + j
      <4>1. i - Len(mine) \in 1..Len(w.ids) /\ i = Len(mine) + (i - Len(mine))
        BY <1>2, <1>3, <1>4, <2>2
      <4>2. QED BY <4>1
    <3>2. mn[i] = w.ids[j]
      <4>1. i - Len(mine) = j BY <1>2, <3>1
      <4>2. QED BY <1>4, <2>2, <1>2, <4>1
    <3>3. written + j \in written + 1..Len(rows) - 1 /\ i = (Len(mine) - written) + (written + j)
      BY <1>2, <1>3, <1>5, <3>1
    <3>4. images[i] = Told(written + j) BY <1>1, <3>3 DEF Flushing
    <3>5. QED BY <3>2, <3>4, StoredMatch
  <2>3. QED BY <1>2, <1>4, <2>1, <2>2
<1>6. QED BY <1>4, <1>5

(* A row that DB2 will certainly refuse, or certainly take.                *)
LEMMA CertainOne ==
  ASSUME InsertInv, pc # "idle", caller = "write_row",
         NEW w \in Writes, w = WriteRows(block) \/ w = NotWritten
  PROVE  /\ Rejected => w.rc = "other"
         /\ (pc = "retry" /\ locked) => w.rc # "dup"
<1>1. InsertTypes /\ Flushing BY DEF InsertInv
<1>2. /\ Len(rows) \in Nat /\ written \in Nat /\ written < Len(rows)
      /\ table \subseteq 1..MaxId /\ nextId \in Nat \ {0}
  BY <1>1, LenProperties DEF InsertTypes, Flushing
<1>3. ASSUME Len(rows) = 1, rows[1] = 0
      PROVE  /\ nextId > MaxId => w.rc = "other"
             /\ (nextId <= MaxId /\ nextId \notin table) => w.rc # "dup"
  <2>1. written = 0 BY <1>2, <1>3
  <2>2. block \in Seq(Values) /\ Len(block) = 1 /\ block[1] = 0
    <3>1. /\ block \in Seq(Values) /\ Len(block) = Len(rows) - written
          /\ \A j \in 1..Len(rows) - written : block[j] = rows[written + j]
      BY <1>1, <1>2, BlockIs
    <3>2. QED BY <1>3, <2>1, <3>1
  <2>3. CASE w = NotWritten BY <2>3 DEF NotWritten
  <2>4. CASE w = WriteRows(block) BY <1>2, <2>2, <2>4, WriteOne
  <2>5. QED BY <2>3, <2>4
<1>4. ASSUME Rejected PROVE w.rc = "other"
  <2>1. Len(rows) = 1 /\ rows[1] = 0 /\ nextId > MaxId BY <1>4 DEF Rejected
  <2>2. QED BY <1>3, <2>1
<1>5. ASSUME pc = "retry", locked PROVE w.rc # "dup"
  <2>1. default_identity_value /\ firstInBlock /\ nextId <= MaxId /\ nextId \notin table
    BY <1>1, <1>5 DEF Flushing
  <2>2. autoIncLockAcquired = TRUE BY <1>5 DEF InsertInv, HeldInv, Agreement, Booleans
  <2>3. Singly BY <2>1, <2>2 DEF Singly, firstInBlock
  <2>4. Len(rows) = 1 /\ rows[1] = 0 BY <1>1, <2>1, <2>3 DEF Flushing
  <2>5. QED BY <1>3, <2>1, <2>4
<1>6. QED BY <1>4, <1>5

-----------------------------------------------------------------------------
(* An empty buffer.                                                        *)
LEMMA AlignedEmpty ==
  (/\ rows = <<>> /\ Len(mine) \in Nat /\ nextId \in Nat /\ Len(images) = Len(mine) /\ Matched
   /\ (Predicting => next_identity_value = nextId)) => Aligned
<1> SUFFICES ASSUME rows = <<>>, Len(mine) \in Nat, nextId \in Nat, Len(images) = Len(mine), Matched,
                    Predicting => next_identity_value = nextId
             PROVE  Aligned
  OBVIOUS
<1>1. Len(rows) = 0 BY EmptySeq
<1>2. Zeros(rows, Len(rows)) = 0 BY <1>1, ZerosNone
<1>3. QED BY <1>1, <1>2 DEF Aligned

LEMMA FlushedByWriteRow ==
  ASSUME InsertInv, NEW rc, NEW g, flushed(rc, g), pc # "idle", caller = "write_row",
         HeldInv', InsertTypes', ~failed' => Aligned'
  PROVE  InsertInv'
<1>1. /\ pc' = "idle" /\ rows' = <<>>
      /\ UNCHANGED <<stage, ignores, returnDupKeysImmediately>>
  BY FlushedDoes
<1>2. StageInv /\ stage = "insert" BY DEF InsertInv, HeldInv, Calls
<1>3. StageInv' BY <1>1, <1>2 DEF StageInv
<1>4. BufferInv' BY <1>1, <1>2 DEF BufferInv
<1>5. QED BY <1>1, <1>3, <1>4 DEF InsertInv

(* The statement goes on after a block: the values of its rows are known.  *)
LEMMA WrittenWell ==
  ASSUME InsertInv, pc \in {"flush", "retry"}, caller = "write_row", InsertTypes', HeldInv',
         NEW w \in Writes, w = WriteRows(block) \/ w = NotWritten, w.rc = "OK",
         NEW g, g = (IF w.generated = 0 THEN generatedIdValue ELSE w.generated),
         flushed("OK", g), mine' = mine \o w.ids, nextId' = w.next
  PROVE  Aligned'
<1>1. InsertTypes /\ Flushing /\ pc # "idle" BY DEF InsertInv
<1>2. /\ got_auto_inc_values' = (got_auto_inc_values \/ (Known("OK", g) /\ autoIncLockAcquired))
      /\ next_identity_value' = (IF Known("OK", g) /\ autoIncLockAcquired
                                 THEN g + 1 ELSE next_identity_value)
      /\ rows' = <<>> /\ autoIncLockAcquired' = autoIncLockAcquired
      /\ images' = Append(images, IF Known("OK", g) THEN g ELSE image)
  BY FlushedDoes
<1>3. /\ Len(rows) \in Nat /\ Len(rows) >= 1 /\ written \in Nat /\ written < Len(rows)
      /\ Len(mine) \in Nat /\ images \in Seq(Nat) /\ Len(images) \in Nat
      /\ Len(images) + 1 = (Len(mine) - written) + Len(rows)
      /\ nextId \in Nat \ {0} /\ w.next \in Nat \ {0}
  BY <1>1, LenProperties DEF InsertTypes, Flushing, Writes
<1>4. /\ Len(w.ids) = Len(rows) - written /\ w.generated \in {0, w.next - 1}
      /\ \A j \in 1..Len(w.ids) :
           w.ids[j] = Given(rows[written + j], nextId + Zeros(block, j - 1))
      /\ w.next = nextId + Zeros(block, Len(block))
      /\ rows[Len(rows)] = 0 => w.generated = w.next - 1 /\ w.generated # 0
  BY <1>1, BlockWritten
<1>5. PICK n \in Nat : n = Len(rows) - written
  <2>1. Len(rows) - written \in Nat BY <1>3
  <2>2. QED BY <2>1
<1>6. n \in 1..Len(w.ids) /\ written + n = Len(rows) /\ Len(w.ids) = n BY <1>3, <1>4, <1>5
<1>7. /\ Len(block) = n /\ \A j \in 1..n : block[j] = rows[written + j]
  BY <1>1, <1>3, <1>5, BlockIs
<1>8. Known("OK", g) => g = w.ids[n] /\ g + 1 = w.next
  <2>1. SUFFICES ASSUME Known("OK", g) PROVE g = w.ids[n] /\ g + 1 = w.next OBVIOUS
  <2>2. rows[Len(rows)] = 0 BY <1>1, <2>1 DEF Known, Flushing
  <2>3. g = w.next - 1 BY <1>4, <2>2
  <2>4. n - 1 \in Nat /\ (n - 1) + 1 = n BY <1>3, <1>5
  <2>5. Zeros(block, n) = Zeros(block, n - 1) + 1
    <3>1. block[n] = 0 BY <1>6, <1>7, <2>2
    <3>2. QED BY <2>4, <3>1, ZerosNext
  <2>6. Zeros(block, n - 1) \in Nat BY <2>4, ZerosNat
  <2>7. w.ids[n] = nextId + Zeros(block, n - 1) BY <1>4, <1>6, <2>2 DEF Given
  <2>8. w.next = nextId + Zeros(block, n) BY <1>4, <1>7
  <2>9. w.next - 1 = nextId + Zeros(block, n - 1) BY <1>3, <2>5, <2>6, <2>8
  <2>10. g = w.ids[n] BY <2>3, <2>7, <2>9
  <2>11. g + 1 = w.next BY <1>3, <2>3
  <2>12. QED BY <2>10, <2>11
<1>9. image \in {0, w.ids[n]}
  <2>1. Told(written + n) \in {0, w.ids[n]} BY <1>1, <1>6, StoredMatch
  <2>2. QED BY <1>1, <1>6, <2>1 DEF Flushing
<1>10. /\ Len(mine') = Len(mine) + n /\ Len(mine) + n = Len(images) + 1
       /\ \A i \in 1..Len(mine') : i <= Len(images) => images[i] \in {0, mine'[i]}
       /\ mine'[Len(mine) + n] = w.ids[n]
  <2>1. /\ Len(mine') = Len(mine) + n
        /\ \A i \in 1..Len(mine') : i <= Len(images) => images[i] \in {0, mine'[i]}
    BY <1>1, <1>6, MatchedMore
  <2>2. Len(mine) + n = Len(images) + 1 BY <1>3, <1>5
  <2>3. mine \in Seq(Nat) /\ w.ids \in Seq(Nat) BY <1>1 DEF InsertTypes, Writes
  <2>4. \A i \in 1..Len(mine) + Len(w.ids) :
          (mine \o w.ids)[i] = IF i <= Len(mine) THEN mine[i] ELSE w.ids[i - Len(mine)]
    BY <2>3, ConcatProperties
  <2>5. /\ Len(mine) + n \in 1..Len(mine) + Len(w.ids) /\ ~(Len(mine) + n <= Len(mine))
        /\ (Len(mine) + n) - Len(mine) = n
    BY <1>3, <1>6
  <2>6. mine'[Len(mine) + n] = w.ids[n] BY <2>4, <2>5
  <2>7. QED BY <2>1, <2>2, <2>6
<1>11. /\ Len(images') = Len(images) + 1 /\ images'[Len(images) + 1] \in {0, w.ids[n]}
       /\ \A i \in 1..Len(images) : images'[i] = images[i]
  <2> DEFINE told == IF Known("OK", g) THEN g ELSE image
  <2>1. told \in Nat
    <3>1. image \in Nat BY <1>1 DEF InsertTypes
    <3>2. g \in Nat
      <4>1. w.generated \in Nat /\ generatedIdValue \in Nat BY <1>1 DEF Writes, InsertTypes
      <4>2. QED BY <4>1
    <3>3. QED BY <3>1, <3>2
  <2>2. told \in {0, w.ids[n]} BY <1>8, <1>9
  <2>3. images' = Append(images, told) BY <1>2
  <2> HIDE DEF told
  <2>4. QED BY <1>3, <2>1, <2>2, <2>3, AppendProperties
<1>12. Matched'
  <2>1. ASSUME NEW i \in 1..Len(mine') PROVE images'[i] \in {0, mine'[i]}
    <3>1. CASE i = Len(images) + 1 BY <1>10, <1>11, <3>1
    <3>2. CASE i # Len(images) + 1
      <4>1. i \in 1..Len(images) BY <1>3, <1>10, <3>2
      <4>2. images'[i] = images[i] /\ i <= Len(images) BY <1>3, <1>11, <4>1
      <4>3. QED BY <1>10, <4>2
    <3>3. QED BY <3>1, <3>2
  <2>2. QED BY <2>1 DEF Matched
<1>13. Predicting' => next_identity_value' = nextId'
  <2>1. SUFFICES ASSUME Predicting' PROVE next_identity_value' = nextId' OBVIOUS
  <2>2. CASE Known("OK", g) /\ autoIncLockAcquired BY <1>2, <1>8, <2>2
  <2>3. CASE ~(Known("OK", g) /\ autoIncLockAcquired)
    <3>1. Predicting /\ next_identity_value' = next_identity_value
      BY <1>2, <2>1, <2>3 DEF Predicting
    <3>2. ~Rejected BY <1>1, CertainOne
    <3>3. next_identity_value = nextId + Zeros(rows, Len(rows)) BY <1>1, <3>1, <3>2 DEF Flushing
    <3>4. pc = "flush" BY <1>1, <3>1 DEF Flushing, firstInBlock, Predicting
    <3>5. written = 0 BY <1>1, <3>4 DEF Flushing
    <3>6. Len(block) = Len(rows) /\ Zeros(block, Len(rows)) = Zeros(rows, Len(rows))
      <4>1. Len(rows) \in 0..Len(rows) BY <1>3
      <4>2. QED BY <1>1, <1>3, <3>5, <4>1, WholeBlock
    <3>7. QED BY <1>4, <3>1, <3>3, <3>6
  <2>4. QED BY <2>2, <2>3
<1>14. Len(images') = Len(mine') /\ Len(mine') \in Nat /\ nextId' \in Nat
  BY <1>3, <1>5, <1>10, <1>11
<1>15. ((/\ rows = <<>> /\ Len(mine) \in Nat /\ nextId \in Nat /\ Len(images) = Len(mine) /\ Matched
        /\ (Predicting => next_identity_value = nextId)))'
  BY <1>2, <1>12, <1>13, <1>14
<1>16. QED BY <1>15, AlignedEmpty, PTL

(* A duplicate that INSERT IGNORE passes over: the block is of one row.    *)
LEMMA PassedOver ==
  ASSUME InsertInv, pc \in {"flush", "retry"}, caller = "write_row", InsertTypes', HeldInv',
         NEW w \in Writes, w = WriteRows(block) \/ w = NotWritten, w.rc = "dup", ~mayRetry,
         ignores, NEW g, flushed("dup", g), mine' = mine \o w.ids, nextId' = w.next
  PROVE  Aligned'
<1>1. InsertTypes /\ Flushing /\ pc # "idle" BY DEF InsertInv
<1>2. /\ got_auto_inc_values' = (got_auto_inc_values \/ (Known("dup", g) /\ autoIncLockAcquired))
      /\ next_identity_value' = (IF Known("dup", g) /\ autoIncLockAcquired
                                 THEN g + 1 ELSE next_identity_value)
      /\ rows' = <<>> /\ autoIncLockAcquired' = autoIncLockAcquired
      /\ images' = images
  BY FlushedDoes
<1>3. Singly
  <2>1. stage # "none" BY <1>1 DEF InsertInv, HeldInv, Calls
  <2>2. QED BY <2>1 DEF InsertInv, StageInv, Singly
<1>4. /\ Len(rows) = 1 /\ written = 0 /\ Len(mine) \in Nat /\ Len(images) \in Nat
      /\ Len(images) + 1 = (Len(mine) - written) + Len(rows)
      /\ nextId \in Nat \ {0} /\ w.next \in Nat \ {0}
  <2>1. nextId \in Nat \ {0} /\ w.next \in Nat \ {0} BY <1>1 DEF InsertTypes, Writes
  <2>2. Len(mine) \in Nat /\ Len(images) \in Nat BY <1>1, LenProperties DEF InsertTypes
  <2>3. /\ Len(rows) = 1 /\ written < Len(rows) /\ written \in Nat
        /\ Len(images) + 1 = (Len(mine) - written) + Len(rows)
    BY <1>1, <1>3 DEF InsertTypes, Flushing
  <2>4. written = 0 BY <2>3
  <2>5. QED BY <2>1, <2>2, <2>3, <2>4
<1>5. Len(w.ids) = 0 /\ w.next = nextId + Zeros(block, Len(w.ids) + 1)
  <2>1. PICK n \in Nat : n = Len(w.ids) /\ n <= 1 /\ n # 1
    <3>1. /\ Len(w.ids) \in Nat /\ Len(w.ids) <= Len(rows) - written
          /\ Len(w.ids) # Len(rows) - written
      BY <1>1, BlockWritten
    <3>2. Len(rows) - written = 1 BY <1>4
    <3>3. QED BY <3>1, <3>2
  <2>2. w.next = nextId + Zeros(block, Len(w.ids) + 1) BY <1>1, BlockWritten
  <2>3. Len(w.ids) = 0
    <3>1. \A m \in Nat : m <= 1 /\ m # 1 => m = 0 OBVIOUS
    <3>2. QED BY <2>1, <3>1, Zenon
  <2>4. QED BY <2>2, <2>3
<1>6. /\ Len(mine') = Len(mine) + Len(w.ids)
      /\ \A i \in 1..Len(mine') : i <= Len(images) => images[i] \in {0, mine'[i]}
  BY <1>1, MatchedMore
<1>7. Len(mine') = Len(mine) /\ Len(images) = Len(mine) BY <1>4, <1>5, <1>6
<1>8. Matched'
  <2>1. ASSUME NEW i \in 1..Len(mine') PROVE images'[i] \in {0, mine'[i]}
    <3>1. i <= Len(images) BY <1>4, <1>7
    <3>2. QED BY <1>2, <1>6, <3>1
  <2>2. QED BY <2>1 DEF Matched
<1>9. ~(Known("dup", g) /\ autoIncLockAcquired)
  <2>1. SUFFICES ASSUME Known("dup", g), autoIncLockAcquired PROVE FALSE OBVIOUS
  <2>2. pc = "retry" BY <2>1 DEF Known, mayRetry
  <2>3. locked BY <2>1 DEF InsertInv, HeldInv, Agreement
  <2>4. QED BY <1>1, <2>2, <2>3, CertainOne
<1>10. Predicting' => next_identity_value' = nextId'
  <2>1. SUFFICES ASSUME Predicting' PROVE next_identity_value' = nextId' OBVIOUS
  <2>2. Predicting /\ next_identity_value' = next_identity_value
    BY <1>2, <1>9, <2>1 DEF Predicting
  <2>3. ~Rejected BY <1>1, CertainOne
  <2>4. next_identity_value = nextId + Zeros(rows, 1) BY <1>1, <1>4, <2>2, <2>3 DEF Flushing
  <2>5. Zeros(block, 1) = Zeros(rows, 1)
    <3>1. 1 \in 0..Len(rows) /\ Len(rows) >= 1 BY <1>4
    <3>2. QED BY <1>1, <1>4, <3>1, WholeBlock
  <2>6. Len(w.ids) + 1 = 1 BY <1>5
  <2>7. QED BY <1>5, <2>2, <2>4, <2>5, <2>6
<1>11. ((/\ rows = <<>> /\ Len(mine) \in Nat /\ nextId \in Nat /\ Len(images) = Len(mine) /\ Matched
        /\ (Predicting => next_identity_value = nextId)))'
  BY <1>2, <1>4, <1>7, <1>8, <1>10
<1>12. QED BY <1>11, AlignedEmpty, PTL

(* A block of write_row that is to be written again from its failed row.   *)
LEMMA WrittenAgain ==
  ASSUME InsertInv, mayRetry, caller = "write_row",
         NEW w \in Writes, w = WriteRows(block) \/ w = NotWritten, w.rc = "dup",
         NEW g \in {0, w.generated}, pc' = "alter", generatedIdValue' = g, written' = Len(w.ids),
         mine' = mine \o w.ids, nextId' = w.next,
         UNCHANGED <<bulkVars, bufferVars, handleVars, lockVars, idVars, caller,
                     released, image, statementVars>>
  PROVE  Flushing'
<1>1. InsertTypes /\ Flushing /\ pc = "flush" /\ pc # "idle" /\ default_identity_value /\ firstInBlock
  BY DEF InsertInv, mayRetry
<1>2. UNCHANGED <<rows, images, autoIncLockAcquired, locked, got_auto_inc_values,
                  default_identity_value, failed, returnDupKeysImmediately, image>>
  BY DEF bufferVars, lockVars, idVars, statementVars
<1>3. /\ Len(rows) \in Nat /\ Len(rows) >= 1 /\ written = 0 /\ Len(mine) \in Nat
      /\ Len(images) \in Nat /\ Len(images) + 1 = (Len(mine) - written) + Len(rows)
  BY <1>1, LenProperties DEF InsertTypes, Flushing
<1>4. /\ Len(w.ids) \in Nat /\ Len(w.ids) <= Len(rows) - written /\ Len(w.ids) # Len(rows) - written
      /\ w.generated \in {0, w.next - 1}
  BY <1>1, BlockWritten
<1>5. /\ Len(mine') = Len(mine) + Len(w.ids)
      /\ \A i \in 1..Len(mine') : i <= Len(images) => images[i] \in {0, mine'[i]}
  BY <1>1, MatchedMore
<1>6. ~Predicting /\ ~Predicting' BY <1>1, <1>2 DEF firstInBlock, Predicting
<1>7. \A j : Told(j)' = Told(j)
  <2>1. \A j : Told(j) = IF rows[j] # 0 THEN rows[j] ELSE 0 BY <1>6 DEF Told, ToldOf
  <2>2. \A j : Told(j)' = IF rows'[j] # 0 THEN rows'[j] ELSE 0 BY <1>6 DEF Told, ToldOf
  <2>3. QED BY <1>2, <2>1, <2>2
<1>8. /\ written' < Len(rows') /\ written' <= Len(mine') /\ Len(rows') >= 1
      /\ Len(mine') - written' = Len(mine)
      /\ Len(images') + 1 = (Len(mine') - written') + Len(rows')
  <2>1. Len(rows') = Len(rows) /\ Len(images') = Len(images) BY <1>2
  <2>2. written' < Len(rows) /\ written' \in Nat BY <1>3, <1>4
  <2>3. Len(mine') = Len(mine) + written' BY <1>5
  <2>4. Len(mine') - written' = Len(mine) /\ written' <= Len(mine') BY <1>3, <2>2, <2>3
  <2>5. Len(images) + 1 = Len(mine) + Len(rows) BY <1>3
  <2>6. QED BY <1>3, <2>1, <2>2, <2>4, <2>5
<1>9. Matched'
  <2>1. ASSUME NEW i \in 1..Len(mine') PROVE images'[i] \in {0, mine'[i]}
    <3>1. Len(mine') <= Len(images) BY <1>3, <1>4, <1>5
    <3>2. i <= Len(images) BY <1>3, <1>4, <1>5, <3>1
    <3>3. QED BY <1>2, <1>5, <3>2
  <2>2. QED BY <2>1 DEF Matched
<1>10. ASSUME NEW j \in written' + 1..Len(rows') - 1
       PROVE  images'[(Len(mine') - written') + j] = Told(j)'
  <2>1. j \in written + 1..Len(rows) - 1 BY <1>2, <1>3, <1>4
  <2>2. images[(Len(mine) - written) + j] = Told(j) BY <1>1, <2>1 DEF Flushing
  <2>3. Len(mine') - written' = Len(mine) - written BY <1>3, <1>8
  <2>4. QED BY <1>2, <1>7, <2>2, <2>3
<1>11. (image = Told(Len(rows)))'
  <2>1. image = Told(Len(rows)) BY <1>1 DEF Flushing
  <2>2. Told(Len(rows))' = Told(Len(rows)) BY <1>2, <1>6 DEF Told, ToldOf
  <2>3. QED BY <1>2, <2>1, <2>2
<1>12. default_identity_value' = (rows'[Len(rows')] = 0) BY <1>1, <1>2 DEF Flushing
<1>13. Singly' => Len(rows') = 1 BY <1>1, <1>2 DEF Flushing, Singly
<1>14. default_identity_value' /\ firstInBlock' BY <1>1, <1>2 DEF firstInBlock
<1>15. generatedIdValue' \in {0, nextId' - 1} BY <1>4
<1>16. ~failed' BY <1>1, <1>2 DEF Flushing
<1>17. QED
  BY <1>6, <1>8, <1>9, <1>10, <1>11, <1>12, <1>13, <1>14, <1>15, <1>16 DEF Flushing

LEMMA InsertFlushWrite ==
  ASSUME InsertInv, flushWrite, RetryResumes = TRUE, HeldInv'
  PROVE  InsertInv'
<1>1. InsertTypes' BY FlushWriteTypes
<1>2. PICK w \in Writes, g \in Nat :
           /\ w = WriteRows(block) \/ w = NotWritten
           /\ g = w.generated \/ (w.rc = "dup" /\ g = 0)
           /\ table' = w.stored /\ nextId' = w.next /\ mine' = mine \o w.ids
           /\ pc \in {"flush", "retry"}
           /\ \/ /\ w.rc = "dup" /\ mayRetry /\ pc' = "alter" /\ generatedIdValue' = g
                 /\ written' = Len(w.ids)
                 /\ UNCHANGED <<bulkVars, bufferVars, handleVars, lockVars, idVars, caller,
                                released, image, statementVars>>
              \/ /\ ~(w.rc = "dup" /\ mayRetry)
                 /\ flushed(w.rc, IF g = 0 THEN generatedIdValue ELSE g)
  BY FlushWriteCases
<1>3. InsertTypes /\ pc # "idle" /\ StageInv BY <1>2 DEF InsertInv
<1>4. CASE /\ w.rc = "dup" /\ mayRetry /\ pc' = "alter" /\ generatedIdValue' = g
           /\ written' = Len(w.ids)
           /\ UNCHANGED <<bulkVars, bufferVars, handleVars, lockVars, idVars, caller,
                          released, image, statementVars>>
  <2>1. w.stored # {}
    <3>1. w = WriteRows(block) BY <1>2, <1>4 DEF NotWritten
    <3>2. table \subseteq 1..MaxId /\ nextId \in Nat \ {0} /\ block \in Seq(Values)
      BY <1>3, BlockIs DEF InsertTypes
    <3>3. WrittenUpTo(WriteRows(block), block, Len(block), nextId) BY <3>2, WriteRowsDoes
    <3>4. QED BY <1>4, <3>1, <3>3 DEF WrittenUpTo
  <2>2. UNCHANGED <<stage, ignores, returnDupKeysImmediately, images, failed, caller>>
    BY <1>4 DEF statementVars
  <2>3. stage # "begun" BY <1>3 DEF InsertInv, HeldInv, Calls
  <2>4. StageInv' BY <1>2, <1>3, <1>4, <2>1, <2>2, <2>3 DEF StageInv
  <2>5. caller = "write_row" => Flushing' BY <1>2, <1>4, WrittenAgain
  <2>6. QED BY <1>1, <1>4, <2>2, <2>4, <2>5 DEF InsertInv
<1>5. CASE /\ ~(w.rc = "dup" /\ mayRetry)
           /\ flushed(w.rc, IF g = 0 THEN generatedIdValue ELSE g)
  <2>1. PICK h \in Nat : h = (IF g = 0 THEN generatedIdValue ELSE g) BY <1>3 DEF InsertTypes
  <2>2. flushed(w.rc, h) BY <1>5, <2>1
  <2>3. CASE caller # "write_row" BY <1>1, <1>3, <2>2, <2>3, FlushedByFinish
  <2>4. CASE caller = "write_row"
    <3>1. ASSUME ~failed' PROVE Aligned'
      <4>1. w.rc = "OK" \/ (w.rc = "dup" /\ ignores)
        <5>1. failed' = (w.rc # "OK" /\ ~(w.rc = "dup" /\ ignores)) BY <2>2, <2>4, FlushedDoes
        <5>2. QED BY <3>1, <5>1
      <4>2. CASE w.rc = "OK"
        <5>1. h = (IF w.generated = 0 THEN generatedIdValue ELSE w.generated)
          BY <1>2, <2>1, <4>2
        <5>2. QED BY <1>1, <1>2, <2>2, <2>4, <4>2, <5>1, WrittenWell
      <4>3. CASE w.rc = "dup" /\ ignores
        <5>1. ~mayRetry BY <1>5, <4>3
        <5>2. QED BY <1>1, <1>2, <2>2, <2>4, <4>3, <5>1, PassedOver
      <4>4. QED BY <4>1, <4>2, <4>3
    <3>2. QED BY <1>1, <1>3, <2>2, <2>4, <3>1, FlushedByWriteRow
  <2>5. QED BY <2>3, <2>4
<1>6. QED BY <1>2, <1>4, <1>5

(* Behind the largest value stored there is no other.                      *)
LEMMA LargestIs ==
  ASSUME NEW S \in SUBSET (1..MaxId), S # {}
  PROVE  Largest(S) \in S /\ \A m \in S : m <= Largest(S)
<1>0. MaxId \in Nat BY MaxIdAssumption
<1> DEFINE T == {k \in Nat : MaxId - k \in S}
<1>1. PICK x \in S : TRUE OBVIOUS
<1>2. T \subseteq Nat /\ MaxId - x \in T
  <2>1. x \in 1..MaxId OBVIOUS
  <2>2. MaxId - x \in Nat /\ MaxId - (MaxId - x) = x BY <1>0, <2>1
  <2>3. QED BY <1>1, <2>2
<1>3. PICK k \in T : \A l \in T : k <= l BY <1>2, MinNat
<1>4. MaxId - k \in S OBVIOUS
<1>5. ASSUME NEW m \in S PROVE m <= MaxId - k
  <2>1. m \in 1..MaxId OBVIOUS
  <2>2. MaxId - m \in Nat /\ MaxId - (MaxId - m) = m BY <1>0, <2>1
  <2>3. MaxId - m \in T BY <2>2
  <2>4. k <= MaxId - m /\ k \in Nat BY <1>3, <2>3
  <2>5. QED BY <1>0, <2>1, <2>4
<1>6. QED BY <1>4, <1>5 DEF Largest

LEMMA NextIdValIs ==
  ASSUME InsertTypes, table # {}
  PROVE  nextIdVal \in Nat \ {0} /\ nextIdVal \notin table
<1>1. table \in SUBSET (1..MaxId) /\ startId \in Nat \ {0} /\ MaxId \in Nat
  BY MaxIdAssumption DEF InsertTypes
<1>2. PICK n \in 1..MaxId : n = Largest(table) /\ \A m \in table : m <= n
  BY <1>1, LargestIs
<1>3. n \in Nat \ {0} /\ \A m \in table : m \in Nat BY <1>1
<1>4. nextIdVal = (IF n + 1 > startId THEN n + 1 ELSE startId) BY <1>2 DEF nextIdVal
<1>5. nextIdVal \in Nat /\ nextIdVal >= n + 1 BY <1>1, <1>3, <1>4
<1>6. nextIdVal \notin table
  <2>1. SUFFICES ASSUME nextIdVal \in table PROVE FALSE OBVIOUS
  <2>2. nextIdVal <= n BY <1>2, <2>1
  <2>3. QED BY <1>3, <1>5, <2>2
<1>7. nextIdVal # 0 BY <1>3, <1>5
<1>8. QED BY <1>5, <1>6, <1>7

LEMMA InsertAlter ==
  ASSUME InsertInv, alterStartWith, HeldInv'
  PROVE  InsertInv'
<1>1. /\ InsertTypes /\ StageInv /\ pc = "alter" /\ table # {} /\ HeldInv
      /\ (caller = "write_row" => Flushing)
  <2>1. pc = "alter" BY DEF alterStartWith
  <2>2. QED BY <2>1 DEF InsertInv, StageInv
<1>2. PICK v \in Nat \ {0} : v = nextIdVal /\ v \notin table BY <1>1, NextIdValIs
<1>3. CASE /\ v <= MaxId /\ nextId' = v /\ startId' = v /\ pc' = "retry"
           /\ UNCHANGED <<table, mine, bulkVars, bufferVars, handleVars, lockVars, idVars,
                          caller, released, image, generatedIdValue, written, statementVars>>
  <2>1. UNCHANGED <<table, mine, rows, images, autoIncLockAcquired, locked, got_auto_inc_values,
                    next_identity_value, default_identity_value, failed, ignores, stage, caller,
                    returnDupKeysImmediately, image, generatedIdValue, written>>
    BY <1>3 DEF bufferVars, lockVars, idVars, statementVars
  <2>2. InsertTypes' BY <1>1, <1>2, <1>3, <2>1 DEF InsertTypes
  <2>3. StageInv' BY <1>1, <1>3, <2>1 DEF StageInv
  <2>4. ASSUME caller = "write_row" PROVE Flushing'
    <3>1. Flushing /\ firstInBlock BY <1>1, <2>4 DEF Flushing
    <3>2. ~Predicting /\ ~Predicting' BY <2>1, <3>1 DEF firstInBlock, Predicting
    <3>3. \A j : Told(j)' = Told(j)
      <4>1. \A j : Told(j) = IF rows[j] # 0 THEN rows[j] ELSE 0 BY <3>2 DEF Told, ToldOf
      <4>2. \A j : Told(j)' = IF rows'[j] # 0 THEN rows'[j] ELSE 0 BY <3>2 DEF Told, ToldOf
      <4>3. QED BY <2>1, <4>1, <4>2
    <3>4. \A j \in written' + 1..Len(rows') - 1 :
            images'[(Len(mine') - written') + j] = Told(j)'
      BY <2>1, <3>1, <3>3 DEF Flushing
    <3>5. (image = Told(Len(rows)))'
      <4>1. image = Told(Len(rows)) BY <3>1 DEF Flushing
      <4>2. Told(Len(rows))' = Told(Len(rows)) BY <2>1, <3>2 DEF Told, ToldOf
      <4>3. QED BY <2>1, <4>1, <4>2
    <3>6. Matched' BY <2>1, <3>1 DEF Flushing, Matched
    <3>7. /\ Len(rows') >= 1 /\ written' < Len(rows') /\ written' <= Len(mine') /\ ~failed'
          /\ Len(images') + 1 = (Len(mine') - written') + Len(rows')
          /\ default_identity_value' = (rows'[Len(rows')] = 0)
      BY <2>1, <3>1 DEF Flushing
    <3>8. default_identity_value' /\ firstInBlock' /\ (Singly' => Len(rows') = 1)
      BY <1>1, <2>1, <3>1 DEF Flushing, Singly, firstInBlock
    <3>9. nextId' <= MaxId /\ nextId' \notin table' BY <1>2, <1>3, <2>1
    <3>10. QED BY <1>3, <3>2, <3>4, <3>5, <3>6, <3>7, <3>8, <3>9 DEF Flushing
  <2>5. QED BY <1>3, <2>1, <2>2, <2>3, <2>4 DEF InsertInv
<1>4. CASE flushed("dup", generatedIdValue) /\ UNCHANGED tableVars
  <2>1. UNCHANGED <<table, nextId, startId, mine>> BY <1>4 DEF tableVars
  <2>2. PICK g \in Nat : g = generatedIdValue BY <1>1 DEF InsertTypes
  <2>3. flushed("dup", g) BY <1>4, <2>2
  <2>4. InsertTypes'
    <3>1. table' \subseteq 1..MaxId /\ nextId' \in Nat \ {0} /\ startId' \in Nat \ {0} /\ mine' \in Seq(Nat)
      BY <1>1, <2>1 DEF InsertTypes
    <3>2. QED BY <1>1, <2>3, <3>1, FlushedTypes DEF InsertTypes
  <2>5. CASE caller # "write_row" BY <1>1, <2>3, <2>4, <2>5, FlushedByFinish
  <2>6. CASE caller = "write_row"
    <3>1. ASSUME ~failed' PROVE Aligned'
      <4>1. ignores
        <5>1. failed' = ("dup" # "OK" /\ ~("dup" = "dup" /\ ignores)) BY <2>3, <2>6, FlushedDoes
        <5>2. QED BY <3>1, <5>1
      <4>2. Flushing /\ Singly /\ default_identity_value /\ firstInBlock
        <5>1. stage # "none" BY <1>1 DEF HeldInv, Calls
        <5>2. Singly BY <1>1, <4>1, <5>1 DEF StageInv, Singly
        <5>3. QED BY <1>1, <2>6, <5>2 DEF Flushing
      <4>3. /\ got_auto_inc_values'
                 = (got_auto_inc_values \/ (Known("dup", g) /\ autoIncLockAcquired))
            /\ next_identity_value' = (IF Known("dup", g) /\ autoIncLockAcquired
                                       THEN g + 1 ELSE next_identity_value)
            /\ rows' = <<>> /\ autoIncLockAcquired' = autoIncLockAcquired /\ images' = images
        BY <2>3, <2>6, FlushedDoes
      <4>4. /\ Len(mine) \in Nat /\ Len(images) \in Nat /\ Len(images) = Len(mine)
            /\ nextId \in Nat \ {0}
        <5>1. nextId \in Nat \ {0} /\ Len(mine) \in Nat /\ Len(images) \in Nat
          BY <1>1, LenProperties DEF InsertTypes
        <5>2. /\ Len(rows) = 1 /\ written < Len(rows) /\ written \in Nat
              /\ Len(images) + 1 = (Len(mine) - written) + Len(rows)
          BY <1>1, <4>2 DEF InsertTypes, Flushing
        <5>3. written = 0 BY <5>2
        <5>4. QED BY <5>1, <5>2, <5>3
      <4>5. Matched' BY <2>1, <4>2, <4>3 DEF Flushing, Matched
      <4>6. Predicting' => next_identity_value' = nextId'
        <5>1. SUFFICES ASSUME Predicting' PROVE next_identity_value' = nextId' OBVIOUS
        <5>2. Known("dup", g) /\ autoIncLockAcquired
          BY <4>2, <4>3, <5>1 DEF Predicting, firstInBlock
        <5>3. locked /\ g # 0 BY <1>1, <5>2 DEF HeldInv, Agreement, Known
        <5>4. g = nextId - 1 BY <1>1, <2>2, <4>2, <5>3 DEF Flushing
        <5>5. QED BY <2>1, <4>3, <4>4, <5>2, <5>4
      <4>7. ((/\ rows = <<>> /\ Len(mine) \in Nat /\ nextId \in Nat /\ Len(images) = Len(mine)
              /\ Matched /\ (Predicting => next_identity_value = nextId)))'
        BY <2>1, <4>3, <4>4, <4>5, <4>6
      <4>8. QED BY <4>7, AlignedEmpty, PTL
    <3>2. QED BY <1>1, <2>3, <2>4, <2>6, <3>1, FlushedByWriteRow
  <2>7. QED BY <2>5, <2>6
<1>5. QED BY <1>2, <1>3, <1>4 DEF alterStartWith

-----------------------------------------------------------------------------
LEMMA InsertInit == ASSUME Init PROVE InsertInv
<1>1. HeldInv BY DEF Init, HeldInv, Booleans, Agreement, Calls, Bit
<1>2. <<>> \in Seq(Values) /\ <<>> \in Seq(Nat) BY EmptySeq
<1>3. InsertTypes
  <2>1. rows \in Seq(Values) /\ images \in Seq(Nat) /\ mine \in Seq(Nat) BY <1>2 DEF Init
  <2>2. table \subseteq 1..MaxId /\ nextId \in Nat \ {0} /\ startId \in Nat \ {0} BY DEF Init
  <2>3. /\ next_identity_value \in Nat /\ image \in Nat /\ generatedIdValue \in Nat
        /\ written \in Nat
    BY DEF Init
  <2>4. /\ got_auto_inc_values \in BOOLEAN /\ default_identity_value \in BOOLEAN
        /\ failed \in BOOLEAN /\ ignores \in BOOLEAN /\ returnDupKeysImmediately \in BOOLEAN
    BY DEF Init
  <2>5. QED BY <2>1, <2>2, <2>3, <2>4 DEF InsertTypes
<1>4. StageInv /\ BufferInv /\ pc = "idle" /\ stage = "none"
  BY DEF Init, StageInv, BufferInv
<1>5. QED BY <1>1, <1>3, <1>4 DEF InsertInv

LEMMA InsertBegin ==
  ASSUME InsertInv, NEW ignore \in BOOLEAN, extra_IgnoreDupKey(ignore), HeldInv'
  PROVE  InsertInv'
<1>1. stage = "none" /\ pc = "idle" /\ HeldInv /\ InsertTypes /\ StageInv /\ BufferInv
  <2>1. stage = "none" BY DEF extra_IgnoreDupKey
  <2>2. QED BY <2>1 DEF InsertInv, HeldInv, Calls
<1>2. /\ stage' = "begun" /\ ignores' = ignore
      /\ returnDupKeysImmediately' = (ignore \/ returnDupKeysImmediately)
      /\ failed' = FALSE /\ images' = <<>> /\ mine' = <<>>
      /\ UNCHANGED <<outstanding_start_bulk_insert, rows, rowCapacity, autoIncLockAcquired, locked,
                     got_auto_inc_values, next_identity_value, default_identity_value, pc, caller,
                     image, generatedIdValue, written, table, nextId, startId>>
  BY DEF extra_IgnoreDupKey, bulkVars, bufferVars, lockVars, idVars, flushVars
<1>3. rows = <<>> /\ ~autoIncLockAcquired
  BY <1>1 DEF BufferInv, HeldInv, Calls, Agreement
<1>4. <<>> \in Seq(Nat) /\ Len(<<>>) = 0 BY EmptySeq
<1>5. InsertTypes' BY <1>1, <1>2, <1>4 DEF InsertTypes
<1>6. StageInv' BY <1>1, <1>2 DEF StageInv
<1>7. BufferInv' BY <1>2, <1>3 DEF BufferInv
<1>8. Aligned'
  <2>1. Matched' BY <1>2, <1>4 DEF Matched
  <2>2. ~Predicting' BY <1>2, <1>3 DEF Predicting
  <2>3. nextId' \in Nat BY <1>5 DEF InsertTypes
  <2>4. ((/\ rows = <<>> /\ Len(mine) \in Nat /\ nextId \in Nat /\ Len(images) = Len(mine)
          /\ Matched /\ (Predicting => next_identity_value = nextId)))'
    BY <1>2, <1>3, <1>4, <2>1, <2>2, <2>3
  <2>5. QED BY <2>4, AlignedEmpty, PTL
<1>9. QED BY <1>1, <1>2, <1>5, <1>6, <1>7, <1>8 DEF InsertInv

LEMMA InsertStart ==
  ASSUME InsertInv, NEW many, NEW capacity, start_bulk_insert(many, capacity), HeldInv'
  PROVE  InsertInv'
<1>1. /\ stage = "begun" /\ pc = "idle" /\ HeldInv /\ InsertTypes /\ StageInv
      /\ images = <<>> /\ mine = <<>> /\ ~failed
  <2>1. stage = "begun" BY DEF start_bulk_insert
  <2>2. QED BY <2>1 DEF InsertInv, HeldInv, Calls, StageInv
<1>2. PICK granted \in BOOLEAN, opened \in BOOLEAN, prepared \in BOOLEAN :
        bulkInsertStarted(granted, opened, opened /\ prepared)
  BY Zenon DEF start_bulk_insert, Outcomes
<1>3. /\ stage' = "insert"
      /\ UNCHANGED <<next_identity_value, default_identity_value, pc, caller, image,
                     generatedIdValue, written, table, nextId, startId, mine, ignores, failed,
                     images, returnDupKeysImmediately>>
  BY DEF start_bulk_insert, flushVars, tableVars
<1>4. /\ rows' = <<>> /\ got_auto_inc_values' = (got_auto_inc_values /\ ~granted)
      /\ autoIncLockAcquired' = (granted /\ opened /\ prepared)
  BY <1>2 DEF bulkInsertStarted
<1>5. <<>> \in Seq(Values) /\ Len(<<>>) = 0 BY EmptySeq
<1>6. InsertTypes' BY <1>1, <1>3, <1>4, <1>5 DEF InsertTypes
<1>7. StageInv' BY <1>1, <1>3 DEF StageInv
<1>8. BufferInv' BY <1>3, <1>4 DEF BufferInv
<1>9. Aligned'
  <2>1. Matched' BY <1>1, <1>3, <1>5 DEF Matched
  <2>2. ~Predicting' BY <1>4 DEF Predicting
  <2>3. nextId' \in Nat BY <1>6 DEF InsertTypes
  <2>4. ((/\ rows = <<>> /\ Len(mine) \in Nat /\ nextId \in Nat /\ Len(images) = Len(mine)
          /\ Matched /\ (Predicting => next_identity_value = nextId)))'
    BY <1>1, <1>3, <1>4, <1>5, <2>1, <2>2, <2>3
  <2>5. QED BY <2>4, AlignedEmpty, PTL
<1>10. QED BY <1>1, <1>3, <1>6, <1>7, <1>8, <1>9 DEF InsertInv

(* By HA_EXTRA_FLUSH_CACHE only when the buffer holds one row at most.     *)
LEMMA InsertFinish ==
  ASSUME InsertInv, NEW by \in {"reset", "extra"}, finishBulkInsert(by), pc = "idle",
         stage = IF by = "reset" THEN "ended" ELSE "insert",
         by = "extra" => rowCapacity = 1 /\ outstanding_start_bulk_insert, HeldInv'
  PROVE  InsertInv'
<1>1. InsertTypes /\ StageInv /\ BufferInv /\ HeldInv BY DEF InsertInv
<1>2. by = "extra" /\ ~failed => rows = <<>> BY <1>1 DEF BufferInv
<1>3. CASE outstanding_start_bulk_insert /\ rows # <<>> /\ activeHandle
  <2>1. /\ pc' = "flush" /\ caller' = by /\ image' = 0 /\ generatedIdValue' = 0 /\ written' = 0
        /\ UNCHANGED <<rows, images, mine, table, nextId, startId, next_identity_value,
                       got_auto_inc_values, default_identity_value, stage, failed, ignores,
                       returnDupKeysImmediately>>
    BY <1>3 DEF finishBulkInsert, bufferVars, idVars, tableVars, statementVars
  <2>2. InsertTypes' BY <1>1, <2>1 DEF InsertTypes
  <2>3. StageInv' BY <1>1, <1>2, <1>3, <2>1 DEF StageInv
  <2>4. QED BY <2>1, <2>2, <2>3 DEF InsertInv
<1>4. CASE ~(outstanding_start_bulk_insert /\ rows # <<>> /\ activeHandle)
  <2>1. bulkInsertFinished(by) /\ UNCHANGED <<idVars, flushVars, tableVars>>
    BY <1>4 DEF finishBulkInsert
  <2>2. /\ rows' = <<>> /\ stage' = (IF by = "reset" THEN "none" ELSE stage)
        /\ returnDupKeysImmediately' = (by # "reset" /\ returnDupKeysImmediately)
        /\ UNCHANGED <<ignores, failed, images>>
        /\ by = "extra" => autoIncLockAcquired' = FALSE
    BY <2>1 DEF bulkInsertFinished, unlock
  <2>3. UNCHANGED <<mine, table, nextId, startId, next_identity_value, got_auto_inc_values,
                    default_identity_value, pc, caller, image, generatedIdValue, written>>
    BY <2>1 DEF idVars, flushVars, tableVars
  <2>4. InsertTypes'
    <3>1. <<>> \in Seq(Values) BY EmptySeq
    <3>2. returnDupKeysImmediately' \in BOOLEAN BY <1>1, <2>2 DEF InsertTypes
    <3>3. QED BY <1>1, <2>2, <2>3, <3>1, <3>2 DEF InsertTypes
  <2>5. StageInv' BY <1>1, <2>2, <2>3 DEF StageInv
  <2>6. BufferInv' BY <2>2 DEF BufferInv
  <2>7. ASSUME ~failed', stage' # "none" PROVE Aligned'
    <3>1. by = "extra" /\ stage = "insert" /\ ~failed BY <2>2, <2>7
    <3>2. rows = <<>> /\ Aligned BY <1>2, <3>1 DEF InsertInv
    <3>3. Len(rows) = 0 /\ Len(mine) \in Nat BY <1>1, <3>2, EmptySeq, LenProperties DEF InsertTypes
    <3>4. Len(images) = Len(mine) /\ Matched BY <3>2, <3>3 DEF Aligned
    <3>5. Matched' BY <2>2, <2>3, <3>4 DEF Matched
    <3>6. ~Predicting' BY <2>2, <3>1 DEF Predicting
    <3>7. nextId' \in Nat BY <2>4 DEF InsertTypes
    <3>8. ((/\ rows = <<>> /\ Len(mine) \in Nat /\ nextId \in Nat /\ Len(images) = Len(mine)
            /\ Matched /\ (Predicting => next_identity_value = nextId)))'
      BY <2>2, <2>3, <3>3, <3>4, <3>5, <3>6, <3>7
    <3>9. QED BY <3>8, AlignedEmpty, PTL
  <2>8. QED BY <2>3, <2>4, <2>5, <2>6, <2>7 DEF InsertInv
<1>5. QED BY <1>3, <1>4

LEMMA InsertEnd ==
  ASSUME InsertInv, NEW succeeds \in BOOLEAN, EndStatement(succeeds), HeldInv'
  PROVE  InsertInv'
<1>1. stage \in {"begun", "insert"} /\ pc = "idle" /\ InsertTypes /\ StageInv /\ BufferInv
  <2>1. stage \in {"begun", "insert"} /\ pc = "idle" BY DEF EndStatement
  <2>2. QED BY <2>1 DEF InsertInv
<1>2. /\ stage' = "ended" /\ failed' = (failed \/ ~succeeds)
      /\ failed' => table' = table \ Range(mine) /\ mine' = <<>>
      /\ ~failed' => UNCHANGED <<table, mine>>
      /\ UNCHANGED <<outstanding_start_bulk_insert, rows, rowCapacity, autoIncLockAcquired, locked,
                     got_auto_inc_values, next_identity_value, default_identity_value, pc, caller,
                     image, generatedIdValue, written, nextId, startId, ignores, images,
                     returnDupKeysImmediately>>
  BY DEF EndStatement, bulkVars, bufferVars, lockVars, idVars, flushVars
<1>3. InsertTypes'
  <2>1. <<>> \in Seq(Nat) BY EmptySeq
  <2>2. failed' \in BOOLEAN BY <1>1, <1>2 DEF InsertTypes
  <2>3. table' \subseteq 1..MaxId /\ mine' \in Seq(Nat) BY <1>1, <1>2, <2>1 DEF InsertTypes
  <2>4. QED BY <1>1, <1>2, <2>2, <2>3 DEF InsertTypes
<1>4. StageInv' BY <1>1, <1>2 DEF StageInv
<1>5. BufferInv'
  <2>1. ~failed' => ~failed BY <1>2
  <2>2. QED BY <1>1, <1>2, <2>1 DEF BufferInv, Singly, Rejected
<1>6. ASSUME ~failed' PROVE Aligned'
  <2>1. ~failed /\ UNCHANGED <<table, mine>> BY <1>2, <1>6
  <2>2. Aligned BY <1>1, <2>1 DEF InsertInv
  <2>3. QED BY <1>2, <2>1, <2>2 DEF Aligned, Matched, Told, ToldOf, Predicting
<1>7. QED BY <1>1, <1>2, <1>3, <1>4, <1>5, <1>6 DEF InsertInv

(* Other connections do not write while the table is locked, and nothing   *)
(* is predicted while it is not.                                           *)
LEMMA InsertOthers ==
  ASSUME InsertInv, NEW id \in 1..MaxId, OtherWrites(id), HeldInv'
  PROVE  InsertInv'
<1>1. InsertTypes /\ StageInv /\ HeldInv BY DEF InsertInv
<1>2. ~locked /\ ~autoIncLockAcquired
  BY <1>1 DEF OtherWrites, HeldInv, Agreement
<1>3. /\ table' = table \cup {id} /\ nextId' \in {nextId, nextId + 1}
      /\ UNCHANGED <<outstanding_start_bulk_insert, rows, rowCapacity, autoIncLockAcquired, locked,
                     got_auto_inc_values, next_identity_value, default_identity_value, pc, caller,
                     image, generatedIdValue, written, startId, mine, stage, failed, ignores, images,
                     returnDupKeysImmediately>>
  BY DEF OtherWrites, bulkVars, bufferVars, lockVars, idVars, flushVars, statementVars
<1>4. InsertTypes' BY <1>1, <1>3 DEF InsertTypes
<1>5. StageInv' BY <1>1, <1>3 DEF StageInv
<1>6. ~Predicting /\ ~Predicting' BY <1>2, <1>3 DEF Predicting
<1>7. \A j : Told(j)' = Told(j)
  <2>1. \A j : Told(j) = IF rows[j] # 0 THEN rows[j] ELSE 0 BY <1>6 DEF Told, ToldOf
  <2>2. \A j : Told(j)' = IF rows'[j] # 0 THEN rows'[j] ELSE 0 BY <1>6 DEF Told, ToldOf
  <2>3. QED BY <1>3, <2>1, <2>2
<1>8. ASSUME pc = "idle" PROVE BufferInv'
  <2>1. BufferInv BY <1>8 DEF InsertInv
  <2>2. QED BY <1>2, <1>3, <2>1 DEF BufferInv, Singly, Rejected
<1>9. ASSUME pc = "idle", ~failed, stage # "none" PROVE Aligned'
  <2>1. Aligned BY <1>9 DEF InsertInv
  <2>2. QED BY <1>3, <1>6, <1>7, <2>1 DEF Aligned, Matched
<1>10. ASSUME pc # "idle", caller = "write_row" PROVE Flushing'
  <2>1. Flushing BY <1>10 DEF InsertInv
  <2>2. (image = Told(Len(rows)))'
    <3>1. image = Told(Len(rows)) BY <2>1 DEF Flushing
    <3>2. Told(Len(rows))' = Told(Len(rows)) BY <1>3, <1>6 DEF Told, ToldOf
    <3>3. QED BY <1>3, <3>1, <3>2
  <2>3. QED BY <1>2, <1>3, <1>6, <1>7, <2>1, <2>2 DEF Flushing, Matched, Singly, firstInBlock
<1>11. QED BY <1>3, <1>4, <1>5, <1>8, <1>9, <1>10 DEF InsertInv

LEMMA InsertStutter == ASSUME InsertInv, UNCHANGED vars PROVE InsertInv'
<1>1. HeldInv' BY DEF InsertInv, HeldInv, Booleans, Agreement, Calls, Bit, vars, bulkVars,
                      handleVars, lockVars, flushVars, statementVars
<1>2. UNCHANGED <<outstanding_start_bulk_insert, rows, rowCapacity, autoIncLockAcquired, locked,
                  got_auto_inc_values, next_identity_value, default_identity_value, pc, caller,
                  image, generatedIdValue, written, table, nextId, startId, mine, stage, failed,
                  ignores, images, returnDupKeysImmediately>>
  BY DEF vars, bulkVars, bufferVars, lockVars, idVars, flushVars, tableVars, statementVars
<1>3. InsertTypes' BY <1>2 DEF InsertInv, InsertTypes
<1>4. StageInv' BY <1>2 DEF InsertInv, StageInv
<1>5. BufferInv => BufferInv' BY <1>2 DEF BufferInv, Singly, Rejected
<1>6. Aligned => Aligned' BY <1>2 DEF Aligned, Matched, Told, ToldOf, Predicting
<1>7. Flushing => Flushing'
  BY <1>2 DEF Flushing, Matched, Told, ToldOf, Predicting, Singly, firstInBlock, Rejected
<1>8. QED BY <1>1, <1>2, <1>3, <1>4, <1>5, <1>6, <1>7 DEF InsertInv

LEMMA InsertStep ==
  ASSUME InsertInv, [Next]_vars, RetryResumes = TRUE, FlushedSizes \subseteq {1}
  PROVE  InsertInv'
<1>1. HeldInv'
  <2>1. HeldInv BY DEF InsertInv
  <2>2. QED BY <2>1, HeldInvStep
<1>2. ASSUME NEW ignore \in BOOLEAN, extra_IgnoreDupKey(ignore) PROVE InsertInv'
  BY <1>1, <1>2, InsertBegin
<1>3. ASSUME NEW many, NEW capacity, start_bulk_insert(many, capacity) PROVE InsertInv'
  BY <1>1, <1>3, InsertStart
<1>4. ASSUME NEW row \in {0} \cup ExplicitIds, write_row(row) PROVE InsertInv'
  <2>1. row \in Values BY ExplicitIdsAssumption, MaxIdAssumption DEF Values
  <2>2. QED BY <1>1, <1>4, <2>1, InsertWriteRow
<1>5. CASE flushWrite BY <1>1, <1>5, InsertFlushWrite
<1>6. CASE alterStartWith BY <1>1, <1>6, InsertAlter
<1>7. CASE extra_FlushCache
  <2>1. /\ finishBulkInsert("extra") /\ pc = "idle" /\ stage = "insert" /\ rowCapacity = 1
        /\ outstanding_start_bulk_insert
    BY <1>7 DEF extra_FlushCache
  <2>2. QED BY <1>1, <2>1, InsertFinish
<1>8. CASE reset
  <2>1. finishBulkInsert("reset") /\ pc = "idle" /\ stage = "ended" BY <1>8 DEF reset
  <2>2. QED BY <1>1, <2>1, InsertFinish
<1>9. ASSUME NEW succeeds \in BOOLEAN, EndStatement(succeeds) PROVE InsertInv'
  BY <1>1, <1>9, InsertEnd
<1>10. ASSUME NEW id \in 1..MaxId, OtherWrites(id) PROVE InsertInv'
  BY <1>1, <1>10, InsertOthers
<1>11. CASE UNCHANGED vars BY <1>11, InsertStutter
<1>12. QED
  BY <1>2, <1>3, <1>4, <1>5, <1>6, <1>7, <1>8, <1>9, <1>10, <1>11 DEF Next

(* The hypotheses are those of the run bulkinsert: QMYSE goes on behind    *)
(* the rows that are stored, and FLUSH_CACHE is not asked of a fuller      *)
(* buffer; bulkinsert_lost shows what else happens.                        *)
LEMMA InsertAlways ==
  ASSUME RetryResumes = TRUE, FlushedSizes \subseteq {1} PROVE Spec => []InsertInv
<1>1. Init => InsertInv BY InsertInit
<1>2. InsertInv /\ [Next]_vars => InsertInv' BY InsertStep
<1>3. QED BY <1>1, <1>2, PTL DEF Spec

(* The binary log is given the values that DB2 stores, whatever rows and   *)
(* retries precede: what write_row put into MySQL's copy of a row, from    *)
(* next_identity_value or from what flushWrite was told, is what DB2       *)
(* generated for it.                                                       *)
THEOREM PredictionAlwaysExact ==
  ASSUME RetryResumes = TRUE, FlushedSizes \subseteq {1} PROVE Spec => []PredictionExact
<1>1. InsertInv => PredictionExact
  <2>1. SUFFICES ASSUME InsertInv, pc = "idle", stage = "insert", ~failed,
                        NEW i \in DOMAIN mine, images[i] # 0
                 PROVE  images[i] = mine[i]
    BY DEF PredictionExact
  <2>2. Matched /\ i \in 1..Len(mine)
    <3>1. Matched /\ mine \in Seq(Nat) BY <2>1 DEF InsertInv, Aligned, InsertTypes
    <3>2. QED BY <2>1, <3>1, LenProperties
  <2>3. QED BY <2>1, <2>2 DEF Matched
<1>2. Spec => []InsertInv BY InsertAlways
<1>3. QED BY <1>1, <1>2, PTL

(* As long as a statement goes well every row that write_row acknowledged  *)
(* is stored, once, or still in the buffer.                                *)
THEOREM AcceptedAlwaysAccounted ==
  ASSUME RetryResumes = TRUE, FlushedSizes \subseteq {1} PROVE Spec => []AcceptedAccounted
<1>1. InsertInv => AcceptedAccounted BY DEF InsertInv, Aligned, AcceptedAccounted
<1>2. Spec => []InsertInv BY InsertAlways
<1>3. QED BY <1>1, <1>2, PTL

(* With blocks of one row a statement that ends well has stored its rows,  *)
(* one that fails has stored none, and what a failed write left in the     *)
(* buffer is a row DB2 refuses again: reset stores nothing behind MySQL's  *)
(* back.                                                                   *)
THEOREM SingleRowsAlwaysSettled ==
  ASSUME RetryResumes = TRUE, FlushedSizes \subseteq {1} PROVE Spec => []SingleRowsSettled
<1>1. ASSUME InsertInv, pc = "idle", stage = "ended", rowCapacity = 1
      PROVE  /\ WriteRows(rows).ids = <<>>
             /\ IF failed THEN mine = <<>> ELSE Len(mine) = Len(images)
  <2>1. InsertTypes /\ BufferInv /\ (~failed => Aligned) BY <1>1 DEF InsertInv
  <2>2. rows = <<>> \/ (failed /\ Rejected) BY <1>1, <2>1 DEF BufferInv
  <2>3. CASE rows = <<>>
    <3>1. WriteRows(rows).ids = <<>> BY <2>3, WriteNone
    <3>2. Len(rows) = 0 /\ Len(mine) \in Nat BY <2>1, <2>3, EmptySeq, LenProperties DEF InsertTypes
    <3>3. ~failed => Len(mine) = Len(images) BY <2>1, <3>2 DEF Aligned
    <3>4. failed => mine = <<>> BY <1>1, <2>1 DEF BufferInv
    <3>5. QED BY <3>1, <3>3, <3>4
  <2>4. CASE failed /\ Rejected
    <3>1. mine = <<>> BY <1>1, <2>1, <2>4 DEF BufferInv
    <3>2. /\ rows \in Seq(Values) /\ Len(rows) = 1 /\ rows[1] = 0 /\ nextId > MaxId
          /\ table \subseteq 1..MaxId /\ nextId \in Nat \ {0}
      BY <2>1, <2>4 DEF Rejected, InsertTypes
    <3>3. WriteRows(rows).rc = "other" BY <3>2, WriteOne
    <3>4. WrittenUpTo(WriteRows(rows), rows, 1, nextId) BY <3>2, WriteRowsDoes
    <3>5. WriteRows(rows).ids \in Seq(Nat) /\ Len(WriteRows(rows).ids) < 1
      BY <3>3, <3>4 DEF WrittenUpTo, Writes
    <3>6. \A s \in Seq(Nat) : Len(s) < 1 => s = <<>>
      <4>1. ASSUME NEW s \in Seq(Nat), Len(s) < 1 PROVE s = <<>>
        <5>1. Len(s) \in Nat BY LenProperties
        <5>2. Len(s) = 0 BY <4>1, <5>1
        <5>3. QED BY <5>2, EmptySeq
      <4>2. QED BY <4>1
    <3>7. QED BY <2>4, <3>1, <3>5, <3>6
  <2>5. QED BY <2>2, <2>3, <2>4
<1>2. InsertInv => SingleRowsSettled BY <1>1 DEF SingleRowsSettled
<1>3. Spec => []InsertInv BY InsertAlways
<1>4. QED BY <1>2, <1>3, PTL
=============================================================================
