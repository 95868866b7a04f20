------------------------------ MODULE TableStats ------------------------------
(***************************************************************************)
(* The statistics of a table that its share keeps for all connections.     *)
(* info and records ask DB2, or take what is cached, and cache what they   *)
(* have; an operation that may have changed the number of rows marks the   *)
(* cached values as not there.  No lock is held on the way, so that these  *)
(* are steps of their own, and so are the two accesses to the flags by     *)
(* which one of them is set or cleared.                                    *)
(*                                                                         *)
(* The number of deleted rows, their mean length and the estimate of I/O,  *)
(* cached and looked at together, are one flag ("others"); of the cached   *)
(* values only the number of rows is kept, and the time of the last change *)
(* is left out.                                                            *)
(* External: DB2, which counts rows not yet committed too, the             *)
(* transactions of the connections, and other programs.                    *)
(*                                                                         *)
(* A definition named Name_Variant is Name with a plausible mistake in it. *)
(***************************************************************************)
EXTENDS Naturals, FiniteSets

CONSTANTS
  Clients, (* connections with a handler on the table, one call at a time  *)
  Rows     (* rows there may be in the table                               *)

ASSUME StatsAssumption == IsFiniteSet(Rows)

VARIABLES
  present,   (* rows in the table                                          *)
  changed,   (* changed[c]: rows c has inserted or deleted since its last  *)
             (* commit                                                     *)
  exclusive, (* ibmdb2i_assume_exclusive_use                               *)
  cached,    (* the share's CStats: which values are there, and the count  *)
  ask,       (* ask[c]: where c's call is (see Call)                       *)
  missed     (* the count was out of date when it was cached, or has been  *)
             (* overtaken by something the engine is not told of           *)

tvars == <<present, changed, exclusive, cached, ask, missed>>

Count == Cardinality(present)
Differ(S, T) == (S \ T) \cup (T \ S)
Free(c, S) == \A d \in Clients \ {c} : changed[d] \cap S = {}

Flags == {"rowCount", "others"}
Counts == 0..Cardinality(Rows)
Call == [at : {"none", "retrieve", "store", "flag", "invalidate"},
         todo : SUBSET Flags, (* values still to be cached                 *)
         asks : BOOLEAN,      (* is DB2 asked for the count?               *)
         records : Counts,    (* the count in hand                         *)
         seen : SUBSET Flags, (* initFlag as the call has read it          *)
         current : BOOLEAN]   (* no operation on the rows since            *)
Idle == [at |-> "none", todo |-> {}, asks |-> FALSE, records |-> 0, seen |-> {},
         current |-> FALSE]

(* An operation on the rows that has yet to mark the cached values.        *)
Invalidating == {c \in Clients : ask[c].at = "invalidate"}
(* Every other call has been overtaken by what c does to the rows.         *)
Overtaken(c, own) ==
  [d \in Clients |-> IF d = c THEN own ELSE [ask[d] EXCEPT !.current = FALSE]]

-----------------------------------------------------------------------------
(* CStats.                                                                 *)
isInited == cached.flags # {}

(* cacheRowCount and the others like it: the value is stored and initFlag  *)
(* is read, then initFlag is written.                                      *)
FirstOf(todo) == IF "rowCount" \in todo THEN "rowCount" ELSE "others"
cacheValue(c) ==
  /\ ask[c].at = "store"
  /\ ask' = [ask EXCEPT ![c].at = "flag", ![c].seen = cached.flags]
  /\ IF "rowCount" \in ask[c].todo
     THEN /\ cached' = [cached EXCEPT !.records = ask[c].records]
          /\ missed' = ~ask[c].current
     ELSE UNCHANGED <<cached, missed>>
  /\ UNCHANGED <<present, changed, exclusive>>
setFlag(c) ==
  LET f == FirstOf(ask[c].todo)
      rest == ask[c].todo \ {f}
  IN /\ ask[c].at = "flag"
     /\ cached' = [cached EXCEPT !.flags = ask[c].seen \cup {f}]
     /\ ask' = [ask EXCEPT ![c] = IF rest = {} THEN Idle
                                  ELSE [ask[c] EXCEPT !.at = "store", !.todo = rest, !.seen = {}]]
     /\ missed' = (missed \/ ~ask[c].current)
     /\ UNCHANGED <<present, changed, exclusive>>

(* invalidateCachedStats, after an operation on the rows.  Its own two     *)
(* accesses are one step: between them, no more than a flag is lost.       *)
invalidated_Others == Flags \ {"rowCount"}
invalidated == Flags
invalidateCachedStats(c) ==
  /\ ask[c].at = "invalidate"
  /\ cached' = [cached EXCEPT !.flags = @ \ invalidated]
  /\ ask' = [ask EXCEPT ![c] = Idle]
  /\ UNCHANGED <<present, changed, exclusive, missed>>

-----------------------------------------------------------------------------
(* The calls.  One that is answered from the cache alone, or for SHOW      *)
(* TABLE STATUS, changes nothing of this.                                  *)

(* info, up to its request, with HA_STATUS_VARIABLE and more such flags.   *)
(* The cached count serves if any of the values that go with it is there.  *)
info(c, status) ==
  LET countCached == /\ "NO_LOCK" \in status /\ exclusive
                     /\ isInited /\ cached.records >= 2
  IN /\ ask[c].at = "none"
     /\ ~countCached \/ "CONST" \in status
     /\ ask' = [ask EXCEPT ![c] =
          [at |-> "retrieve", todo |-> Flags, asks |-> ~countCached, seen |-> {},
           records |-> IF countCached THEN cached.records ELSE 0,
           current |-> countCached /\ Invalidating = {} /\ ~missed]]
     /\ UNCHANGED <<present, changed, exclusive, cached, missed>>

(* records.                                                                *)
records(c) ==
  /\ ask[c].at = "none"
  /\ ask' = [ask EXCEPT ![c] = [Idle EXCEPT !.at = "retrieve", !.todo = {"rowCount"},
                                            !.asks = TRUE]]
  /\ UNCHANGED <<present, changed, exclusive, cached, missed>>

(* The answer to either.  info caches what it has if the table is MySQL's  *)
(* own, be it from DB2 or from the cache; records always does.             *)
retrieveTableInfo(c) ==
  LET caches == exclusive \/ ask[c].todo = {"rowCount"}
  IN /\ ask[c].at = "retrieve"
     /\ ask' = [ask EXCEPT ![c] =
          IF ~caches THEN Idle
          ELSE IF ask[c].asks
          THEN [ask[c] EXCEPT !.at = "store", !.asks = FALSE, !.records = Count,
                               !.current = TRUE]
          ELSE [ask[c] EXCEPT !.at = "store"]]
     /\ UNCHANGED <<present, changed, exclusive, cached, missed>>

(* No answer: after a timeout the cached values, valid or not, are taken.  *)
retrieveTableInfo_Failed(c) ==
  /\ ask[c].at = "retrieve"
  /\ ask' = [ask EXCEPT ![c] = Idle]
  /\ UNCHANGED <<present, changed, exclusive, cached, missed>>

(* c inserts or deletes the rows of S; no row if DB2 refuses.              *)
ChangeRows(c, S) ==
  /\ ask[c].at = "none" /\ Free(c, S)
  /\ present' = Differ(present, S)
  /\ changed' = [changed EXCEPT ![c] = Differ(@, S)]
  /\ ask' = Overtaken(c, [Idle EXCEPT !.at = "invalidate"])
  /\ UNCHANGED <<exclusive, cached, missed>>
flushWrite(c, S) == S \cap present = {} /\ ChangeRows(c, S)
delete_row(c, r) == r \in present /\ ChangeRows(c, {r})
delete_all_rows(c) == ChangeRows(c, present)

(* MySQL and other programs (external).                                    *)
commit(c) ==
  /\ ask[c].at = "none"
  /\ changed' = [changed EXCEPT ![c] = {}]
  /\ UNCHANGED <<present, exclusive, cached, ask, missed>>
rollback(c) ==
  /\ ask[c].at = "none" /\ changed[c] # {}
  /\ present' = Differ(present, changed[c])
  /\ changed' = [changed EXCEPT ![c] = {}]
  /\ missed' = TRUE /\ ask' = Overtaken(c, Idle)
  /\ UNCHANGED <<exclusive, cached>>
SetExclusiveUse ==
  /\ exclusive' = ~exclusive
  /\ UNCHANGED <<present, changed, cached, ask, missed>>
OtherProgram(r) ==
  /\ ~exclusive /\ \A c \in Clients : r \notin changed[c]
  /\ present' = Differ(present, {r})
  /\ missed' = TRUE /\ ask' = [c \in Clients |-> [ask[c] EXCEPT !.current = FALSE]]
  /\ UNCHANGED <<changed, exclusive, cached>>

-----------------------------------------------------------------------------
TInit ==
  /\ present = {} /\ changed = [c \in Clients |-> {}]
  /\ exclusive = FALSE
  /\ cached = [flags |-> {}, records |-> 0]
  /\ ask = [c \in Clients |-> Idle]
  /\ missed = FALSE

TNext ==
  \/ \E c \in Clients :
       \/ \E status \in SUBSET {"CONST", "NO_LOCK"} : info(c, status)
       \/ records(c) \/ retrieveTableInfo(c) \/ retrieveTableInfo_Failed(c)
       \/ cacheValue(c) \/ setFlag(c) \/ invalidateCachedStats(c)
       \/ \E S \in SUBSET Rows : flushWrite(c, S)
       \/ \E r \in Rows : delete_row(c, r)
       \/ delete_all_rows(c) \/ commit(c) \/ rollback(c)
  \/ SetExclusiveUse
  \/ \E r \in Rows : OtherProgram(r)

TSpec == TInit /\ [][TNext]_tvars

-----------------------------------------------------------------------------
TTypeOK ==
  /\ present \subseteq Rows /\ changed \in [Clients -> SUBSET Rows]
  /\ exclusive \in BOOLEAN /\ missed \in BOOLEAN
  /\ cached \in [flags : SUBSET Flags, records : Counts]
  /\ ask \in [Clients -> Call]

(* The count that info would answer with from the cache is the number of   *)
(* rows, once the operations on the rows have marked the cached values:    *)
(* unless a rollback or another program has changed it, or such an         *)
(* operation overlapped the call that cached the count or set its flag     *)
(* (invalidateCachedStats, CStats, info, records).                         *)
CountCurrent ==
  (isInited /\ Invalidating = {} /\ ~missed) => cached.records = Count
=============================================================================
