-------------------------- MODULE SharedTableProofs -------------------------
(***************************************************************************)
(* What TLAPS proves about the parts of a shared table, one after the      *)
(* other, and about SharedTable, which composes them.                      *)
(*                                                                         *)
(* TableShare: whatever is defined, renamed, dropped and opened by however *)
(* many connections, and wherever the server crashes, a table is never     *)
(* refused for its .FID file; shares are counted exactly, instances are    *)
(* accounted for, and an open handler has the right file.                  *)
(*                                                                         *)
(* IndexNames: the file a handler opens for a key is that key's index, the *)
(* way all of its columns are sorted.                                      *)
(*                                                                         *)
(* LobRead and TableStats: what readers of LOBs and the cached statistics  *)
(* of a table keep for any number of connections, lengths and rows.        *)
(*                                                                         *)
(* SharedTable: the four parts behave in it as they do alone, so that what *)
(* is proved of each of them holds of the whole.                           *)
(***************************************************************************)
EXTENDS SharedTable, SequenceTheorems, FunctionTheorems, FiniteSetTheorems, WellFoundedInduction, TLAPS

(* Every set of numbers has a least one.                                   *)
LEMMA MinNat ==
  ASSUME NEW T \in SUBSET Nat, T # {}
  PROVE  \E x \in T : \A y \in T : x <= y
<1> DEFINE R == OpToRel(<, Nat)
<1>1. IsWellFoundedOn(R, Nat) BY NatLessThanWellFounded
<1> HIDE DEF R
<1>2. PICK x \in T : \A y \in T : ~ (<<y, x>> \in R) BY <1>1, WFMin
<1>3. \A y \in T : ~ (y < x) BY <1>2 DEF R, OpToRel
<1>4. QED BY <1>3

(* Induction up to m, over the set of the numbers with a property.         *)
LEMMA InductionUpTo ==
  ASSUME NEW m \in Nat, NEW P, 0 \in P, \A k \in 0..m - 1 : k \in P => k + 1 \in P
  PROVE  \A k \in 0..m : k \in P
<1> SUFFICES ASSUME {k \in 0..m : k \notin P} # {} PROVE FALSE OBVIOUS
<1> DEFINE T == {k \in 0..m : k \notin P}
<1>1. PICK x \in T : \A y \in T : x <= y
  <2>1. T \in SUBSET Nat /\ T # {} OBVIOUS
  <2> HIDE DEF T
  <2>2. QED BY <2>1, MinNat
<1>2. x \in 1..m /\ x - 1 \in 0..m - 1 /\ (x - 1) + 1 = x OBVIOUS
<1>3. x - 1 \in P BY <1>1, <1>2
<1>4. QED BY <1>2, <1>3

Kept(s, n, u, k) ==
  IF k = 0 THEN <<>> ELSE IF s[k].name = n THEN u[k - 1] ELSE Append(u[k - 1], s[k])

(* What WithoutName computes, step by step. *)
LEMMA WithoutNameSteps ==
  ASSUME NEW S, NEW s \in Seq(S), NEW n
  PROVE  \E u : /\ WithoutName(s, n) = u[Len(s)]
                /\ \A k \in 0..Len(s) : u[k] = Kept(s, n, u, k)
<1> DEFINE P == {m \in Nat : \E u : u = [k \in 0..m |-> Kept(s, n, u, k)]}
<1>1. Len(s) \in Nat BY LenProperties
<1>2. 0 \in P
  <2>1. [k \in 0..0 |-> <<>>] = [k \in 0..0 |-> Kept(s, n, [l \in 0..0 |-> <<>>], k)] BY DEF Kept
  <2>2. QED BY <2>1
<1>3. ASSUME NEW m \in 0..Len(s) - 1, m \in P PROVE m + 1 \in P
  <2>1. PICK u : u = [k \in 0..m |-> Kept(s, n, u, k)] BY <1>3
  <2> DEFINE v == [k \in 0..m + 1 |-> IF k <= m THEN u[k] ELSE Kept(s, n, u, k)]
  <2>2. ASSUME NEW k \in 0..m + 1 PROVE v[k] = Kept(s, n, v, k)
    <3>1. k # 0 => k - 1 \in 0..m /\ v[k - 1] = u[k - 1] BY <1>1
    <3>2. Kept(s, n, v, k) = Kept(s, n, u, k) BY <3>1 DEF Kept
    <3>3. k <= m => u[k] = Kept(s, n, u, k) BY <2>1
    <3>4. QED BY <3>2, <3>3
  <2>3. v = [k \in 0..m + 1 |-> Kept(s, n, v, k)] BY <2>2
  <2> HIDE DEF v
  <2>4. QED BY <2>3, <1>1
<1>4. Len(s) \in P
  <2> HIDE DEF P
  <2>1. \A m \in 0..Len(s) - 1 : m \in P => m + 1 \in P BY <1>3
  <2>2. \A m \in 0..Len(s) : m \in P BY <1>1, <1>2, <2>1, InductionUpTo
  <2>3. QED BY <1>1, <2>2
<1> DEFINE u == CHOOSE u : u = [k \in 0..Len(s) |-> Kept(s, n, u, k)]
<1>5. u = [k \in 0..Len(s) |-> Kept(s, n, u, k)] BY <1>4
<1>6. WithoutName(s, n) = u[Len(s)] BY DEF WithoutName, Kept
<1> HIDE DEF u
<1>7. \A k \in 0..Len(s) : u[k] = Kept(s, n, u, k) BY <1>5
<1>8. QED BY <1>6, <1>7

-----------------------------------------------------------------------------
(* Tables, their files and their definitions (TableShare).                 *)
Ops == {"none", "create", "delete", "keep", "rename"}

(* The part of the state the argument is about.                            *)
FidTypes ==
  /\ tables \in [Names -> Nat] /\ fid \in [Names -> Nat] /\ created \in Nat
  /\ frm \subseteq Names
  /\ ddl \in [Conns -> [op : Ops, name : Names \cup {NoName}, to : Names \cup {NoName}]]

(* A name without definition has no .FID file; the file of a name with a   *)
(* definition, if DB2 has the table, is its own.                           *)
NoStrayFid == \A n \in Names : n \notin frm => fid[n] = NoFile
OwnFid == \A n \in frm : tables[n] = NoFile \/ fid[n] \in {NoFile, tables[n]}

(* What the definitions in progress rely on.                               *)
DdlOf(d) ==
  /\ d.op = "none" => d = NoDdl
  /\ d.op \in {"create", "delete", "keep"} => d.name \in frm /\ d.to = d.name
  /\ d.op = "rename" => /\ d.name \in frm /\ d.to \in Names \ frm
                        /\ tables[d.name] = NoFile
                        /\ fid[d.name] \in {NoFile, tables[d.to]}
DdlInv == \A c \in Conns : DdlOf(ddl[c])

(* No two of them concern one name.                                        *)
Concern(d) == {d.name, d.to} \cap Names
Apart == \A c, d \in Conns : c # d => Concern(ddl[c]) \cap Concern(ddl[d]) = {}

FidInv == FidTypes /\ NoStrayFid /\ OwnFid /\ DdlInv /\ Apart

fidVars == <<tables, created, frm, fid, ddl>>

LEMMA FidInit == Init => FidInv
BY ShareAssumption
   DEF Init, FidInv, FidTypes, NoStrayFid, OwnFid, DdlInv, DdlOf, Apart, Concern, NoDdl, NoFile, Ops

(* Steps that define nothing.                                              *)
LEMMA FidOpen ==
  ASSUME FidInv, NEW c \in Conns, NEW h \in Handlers, NEW n \in Names, open(c, h, n)
  PROVE  FidInv'
<1> USE DEF FidInv, FidTypes
<1>1. UNCHANGED <<tables, created, frm, ddl>> BY DEF open, db2Vars
<1>2. \/ fid' = fid
      \/ fid[n] \in {NoFile, tables[n]} /\ fid' = [fid EXCEPT ![n] = tables[n]]
  BY DEF open, initDB2Objects, fidWritten, doFileIDsMatch
<1>3. n \in frm /\ \A d \in Conns : ddl[d] = NoDdl \/ n \notin {ddl[d].name, ddl[d].to}
  BY DEF open, Usable
<1>4. FidTypes' BY <1>1, <1>2
<1>5. NoStrayFid' BY <1>1, <1>2, <1>3 DEF NoStrayFid
<1>6. OwnFid' BY <1>1, <1>2, <1>3 DEF OwnFid
<1>7. DdlInv'
  <2>1. SUFFICES ASSUME NEW d \in Conns PROVE DdlOf(ddl[d])' BY DEF DdlInv
  <2>2. DdlOf(ddl[d]) BY DEF DdlInv
  <2>3. CASE ddl[d] = NoDdl BY <2>3, <1>1 DEF DdlOf, NoDdl
  <2>4. CASE n # ddl[d].name BY <2>2, <2>4, <1>1, <1>2 DEF DdlOf, NoDdl
  <2>5. QED BY <2>3, <2>4, <1>3
<1>8. Apart' BY <1>1 DEF Apart, Concern
<1>9. QED BY <1>4, <1>5, <1>6, <1>7, <1>8

LEMMA FidSame == FidInv /\ UNCHANGED fidVars => FidInv'
BY DEF FidInv, FidTypes, NoStrayFid, OwnFid, DdlInv, DdlOf, Apart, Concern, NoDdl, fidVars

(* What Exclusive says of the definitions in progress.                     *)
LEMMA ExclusiveIsAlone ==
  ASSUME FidInv, NEW c \in Conns, NEW n \in Names, Exclusive(c, n)
  PROVE  /\ ddl[c] = NoDdl
         /\ \A d \in Conns : n \notin Concern(ddl[d]) /\ n # ddl[d].name /\ n # ddl[d].to
BY ShareAssumption DEF Exclusive, NoDdl, Concern

LEMMA FidCreate ==
  ASSUME FidInv, NEW c \in Conns, NEW n \in Names, create(c, n)
  PROVE  FidInv'
<1> USE DEF FidInv, FidTypes
<1> DEFINE new == [op |-> "create", name |-> n, to |-> n]
<1>1. /\ n \notin frm /\ frm' = frm \cup {n} /\ fid' = fid /\ created' = created + 1
      /\ tables' = [tables EXCEPT ![n] = created + 1] /\ ddl' = [ddl EXCEPT ![c] = new]
  BY DEF create
<1>2. \A d \in Conns : n \notin Concern(ddl[d]) /\ n # ddl[d].name /\ n # ddl[d].to
  BY ExclusiveIsAlone DEF create
<1>3. fid[n] = NoFile BY <1>1 DEF NoStrayFid
<1>4. FidTypes' BY <1>1 DEF Ops
<1>5. NoStrayFid' BY <1>1 DEF NoStrayFid
<1>6. OwnFid' BY <1>1, <1>3 DEF OwnFid
<1>7. DdlInv'
  <2>1. SUFFICES ASSUME NEW d \in Conns PROVE DdlOf(ddl[d])' BY DEF DdlInv
  <2>2. CASE d = c BY <2>2, <1>1 DEF DdlOf
  <2>3. CASE d # c
    <3>1. DdlOf(ddl[d]) /\ ddl'[d] = ddl[d] BY <1>1, <2>3 DEF DdlInv
    <3>2. QED BY <3>1, <1>1, <1>2 DEF DdlOf, NoDdl
  <2>4. QED BY <2>2, <2>3
<1>8. Apart' BY <1>1, <1>2 DEF Apart, Concern
<1>9. QED BY <1>4, <1>5, <1>6, <1>7, <1>8

LEMMA FidDescribed ==
  ASSUME FidInv, NEW c \in Conns, create_Described(c)
  PROVE  FidInv'
<1> USE DEF FidInv, FidTypes
<1> DEFINE n == ddl[c].name
<1>1. /\ ddl[c].op = "create" /\ n \in frm /\ n \in Names
  BY DEF create_Described, DdlInv, DdlOf
<1>2. /\ UNCHANGED <<tables, created, frm>> /\ ddl' = [ddl EXCEPT ![c] = NoDdl]
      /\ fid' = [fid EXCEPT ![n] = IF @ = NoFile THEN tables[n] ELSE @]
  BY DEF create_Described, fidWritten, db2Vars
<1>3. FidTypes' BY <1>1, <1>2 DEF Ops, NoDdl
<1>4. NoStrayFid' BY <1>1, <1>2 DEF NoStrayFid
<1>5. OwnFid' BY <1>1, <1>2 DEF OwnFid
<1>6. DdlInv'
  <2>1. SUFFICES ASSUME NEW d \in Conns PROVE DdlOf(ddl[d])' BY DEF DdlInv
  <2>2. CASE d = c BY <2>2, <1>2 DEF DdlOf, NoDdl
  <2>3. CASE d # c
    <3>1. DdlOf(ddl[d]) /\ ddl'[d] = ddl[d] BY <1>2, <2>3 DEF DdlInv
    <3>2. n \notin Concern(ddl[d]) BY <2>3, <1>1 DEF Apart, Concern
    <3>3. ddl[d].op = "rename" => ddl[d].name # n BY <3>1, <3>2, <1>1 DEF DdlOf, Concern
    <3>4. QED BY <3>1, <3>3, <1>2 DEF DdlOf, NoDdl
  <2>4. QED BY <2>2, <2>3
<1>7. Apart' BY <1>2, ShareAssumption DEF Apart, Concern, NoDdl
<1>8. QED BY <1>3, <1>4, <1>5, <1>6, <1>7

LEMMA FidFailed ==
  ASSUME FidInv, NEW c \in Conns, create_Failed(c)
  PROVE  FidInv'
<1> USE DEF FidInv, FidTypes
<1> DEFINE n == ddl[c].name
<1>1. /\ ddl[c].op = "create" /\ n \in frm /\ n \in Names /\ ddl[c].to = n
  BY DEF create_Failed, DdlInv, DdlOf
<1>2. /\ UNCHANGED <<fid, created, frm>> /\ tables' = [tables EXCEPT ![n] = NoFile]
      /\ ddl' = [ddl EXCEPT ![c] = [ddl[c] EXCEPT !.op = "delete"]]
  BY DEF create_Failed
<1>3. FidTypes' BY <1>1, <1>2 DEF Ops, NoFile
<1>4. NoStrayFid' BY <1>1, <1>2 DEF NoStrayFid
<1>5. OwnFid' BY <1>1, <1>2 DEF OwnFid
<1>6. DdlInv'
  <2>1. SUFFICES ASSUME NEW d \in Conns PROVE DdlOf(ddl[d])' BY DEF DdlInv
  <2>2. CASE d = c BY <2>2, <1>1, <1>2 DEF DdlOf
  <2>3. CASE d # c
    <3>1. DdlOf(ddl[d]) /\ ddl'[d] = ddl[d] BY <1>2, <2>3 DEF DdlInv
    <3>2. n \notin Concern(ddl[d]) BY <2>3, <1>1 DEF Apart, Concern
    <3>3. ddl[d].op = "rename" => ddl[d].name # n /\ ddl[d].to # n
      BY <3>1, <3>2, <1>1 DEF DdlOf, Concern
    <3>4. QED BY <3>1, <3>3, <1>2 DEF DdlOf, NoDdl
  <2>4. QED BY <2>2, <2>3
<1>7. Apart' BY <1>1, <1>2 DEF Apart, Concern
<1>8. QED BY <1>3, <1>4, <1>5, <1>6, <1>7

LEMMA FidDelete ==
  ASSUME FidInv, NEW c \in Conns, NEW n \in Names, delete_table(c, n)
  PROVE  FidInv'
<1> USE DEF FidInv, FidTypes
<1>1. n \in frm /\ UNCHANGED <<fid, created, frm>> BY DEF delete_table
<1>2. tables' = tables \/ tables' = [tables EXCEPT ![n] = NoFile] BY DEF delete_table
<1>3. PICK op \in {"delete", "keep"} :
        ddl' = [ddl EXCEPT ![c] = [op |-> op, name |-> n, to |-> n]]
  BY DEF delete_table
<1>4. \A d \in Conns : n \notin Concern(ddl[d]) /\ n # ddl[d].name /\ n # ddl[d].to
  BY ExclusiveIsAlone DEF delete_table
<1>5. FidTypes' BY <1>1, <1>2, <1>3 DEF Ops, NoFile
<1>6. NoStrayFid' BY <1>1 DEF NoStrayFid
<1>7. OwnFid' BY <1>1, <1>2 DEF OwnFid
<1>8. DdlInv'
  <2>1. SUFFICES ASSUME NEW d \in Conns PROVE DdlOf(ddl[d])' BY DEF DdlInv
  <2>2. CASE d = c BY <2>2, <1>1, <1>3 DEF DdlOf
  <2>3. CASE d # c
    <3>1. DdlOf(ddl[d]) /\ ddl'[d] = ddl[d] BY <1>3, <2>3 DEF DdlInv
    <3>2. QED BY <3>1, <1>1, <1>2, <1>4 DEF DdlOf, NoDdl
  <2>4. QED BY <2>2, <2>3
<1>9. Apart' BY <1>3, <1>4 DEF Apart, Concern
<1>10. QED BY <1>5, <1>6, <1>7, <1>8, <1>9

LEMMA FidDeleteDone ==
  ASSUME FidInv, NEW c \in Conns, delete_table_Done(c)
  PROVE  FidInv'
<1> USE DEF FidInv, FidTypes
<1> DEFINE n == ddl[c].name
<1>1. /\ ddl[c].op \in {"delete", "keep"} /\ n \in frm /\ n \in Names /\ ddl[c].to = n
  BY DEF delete_table_Done, DdlInv, DdlOf
<1>2. UNCHANGED <<tables, created>> /\ ddl' = [ddl EXCEPT ![c] = NoDdl]
  BY DEF delete_table_Done
<1>3. \/ UNCHANGED <<fid, frm>>
      \/ fid' = [fid EXCEPT ![n] = NoFile] /\ frm' = frm \ {n}
  BY DEF delete_table_Done, deleteAssocFiles
<1>4. FidTypes' BY <1>1, <1>2, <1>3 DEF Ops, NoDdl, NoFile
<1>5. NoStrayFid' BY <1>1, <1>3 DEF NoStrayFid
<1>6. OwnFid' BY <1>1, <1>2, <1>3 DEF OwnFid
<1>7. DdlInv'
  <2>1. SUFFICES ASSUME NEW d \in Conns PROVE DdlOf(ddl[d])' BY DEF DdlInv
  <2>2. CASE d = c BY <2>2, <1>2 DEF DdlOf, NoDdl
  <2>3. CASE d # c
    <3>1. DdlOf(ddl[d]) /\ ddl'[d] = ddl[d] BY <1>2, <2>3 DEF DdlInv
    <3>2. n \notin Concern(ddl[d]) BY <2>3, <1>1 DEF Apart, Concern
    <3>3. ddl[d].op # "none" => ddl[d].name # n /\ ddl[d].to # n
      BY <3>1, <3>2, <1>1 DEF DdlOf, Concern, Ops
    <3>4. QED BY <3>1, <3>3, <1>2, <1>3 DEF DdlOf, NoDdl
  <2>4. QED BY <2>2, <2>3
<1>8. Apart' BY <1>2, ShareAssumption DEF Apart, Concern, NoDdl
<1>9. QED BY <1>4, <1>5, <1>6, <1>7, <1>8

LEMMA FidRename ==
  ASSUME FidInv, NEW c \in Conns, NEW n \in Names, NEW m \in Names, rename_table(c, n, m)
  PROVE  FidInv'
<1> USE DEF FidInv, FidTypes
<1> DEFINE new == [op |-> "rename", name |-> n, to |-> m]
<1>1. /\ n \in frm /\ m \notin frm /\ n # m /\ UNCHANGED <<fid, created, frm>>
      /\ tables' = [tables EXCEPT ![n] = NoFile, ![m] = tables[n]]
      /\ ddl' = [ddl EXCEPT ![c] = new] /\ tables[n] # NoFile
  BY DEF rename_table
<1>2. \A d \in Conns : /\ n \notin Concern(ddl[d]) /\ n # ddl[d].name /\ n # ddl[d].to
                       /\ m \notin Concern(ddl[d]) /\ m # ddl[d].name /\ m # ddl[d].to
  BY ExclusiveIsAlone DEF rename_table
<1>3. fid[n] \in {NoFile, tables[n]} BY <1>1 DEF OwnFid
<1>4. FidTypes' BY <1>1 DEF Ops, NoFile
<1>5. NoStrayFid' BY <1>1 DEF NoStrayFid
<1>6. OwnFid' BY <1>1 DEF OwnFid
<1>7. DdlInv'
  <2>1. SUFFICES ASSUME NEW d \in Conns PROVE DdlOf(ddl[d])' BY DEF DdlInv
  <2>2. CASE d = c BY <2>2, <1>1, <1>3 DEF DdlOf
  <2>3. CASE d # c
    <3>1. DdlOf(ddl[d]) /\ ddl'[d] = ddl[d] BY <1>1, <2>3 DEF DdlInv
    <3>2. QED BY <3>1, <1>1, <1>2 DEF DdlOf, NoDdl
  <2>4. QED BY <2>2, <2>3
<1>8. Apart' BY <1>1, <1>2 DEF Apart, Concern
<1>9. QED BY <1>4, <1>5, <1>6, <1>7, <1>8

LEMMA FidRenameDone ==
  ASSUME FidInv, NEW c \in Conns, rename_table_Done(c)
  PROVE  FidInv'
<1> USE DEF FidInv, FidTypes
<1> DEFINE n == ddl[c].name
           m == ddl[c].to
<1>1. /\ ddl[c].op = "rename" /\ n \in frm /\ m \in Names \ frm /\ n \in Names
      /\ tables[n] = NoFile /\ fid[n] \in {NoFile, tables[m]}
  BY DEF rename_table_Done, DdlInv, DdlOf
<1>2. /\ UNCHANGED <<tables, created>> /\ ddl' = [ddl EXCEPT ![c] = NoDdl]
      /\ frm' = (frm \ {n}) \cup {m}
      /\ fid' = IF fid[n] = NoFile THEN fid ELSE [fid EXCEPT ![n] = NoFile, ![m] = fid[n]]
  BY DEF rename_table_Done, renameAssocFiles, db2Vars
<1>3. fid[m] = NoFile BY <1>1 DEF NoStrayFid
<1>4. FidTypes' BY <1>1, <1>2 DEF Ops, NoDdl, NoFile
<1>5. NoStrayFid' BY <1>1, <1>2 DEF NoStrayFid
<1>6. OwnFid' BY <1>1, <1>2, <1>3 DEF OwnFid
<1>7. DdlInv'
  <2>1. SUFFICES ASSUME NEW d \in Conns PROVE DdlOf(ddl[d])' BY DEF DdlInv
  <2>2. CASE d = c BY <2>2, <1>2 DEF DdlOf, NoDdl
  <2>3. CASE d # c
    <3>1. DdlOf(ddl[d]) /\ ddl'[d] = ddl[d] BY <1>2, <2>3 DEF DdlInv
    <3>2. n \notin Concern(ddl[d]) /\ m \notin Concern(ddl[d])
      BY <2>3, <1>1 DEF Apart, Concern
    <3>3. ddl[d].op # "none" => {ddl[d].name, ddl[d].to} \cap {n, m} = {}
      BY <3>1, <3>2, <1>1 DEF DdlOf, Concern, Ops
    <3>4. QED BY <3>1, <3>3, <1>2 DEF DdlOf, NoDdl
  <2>4. QED BY <2>2, <2>3
<1>8. Apart' BY <1>2, ShareAssumption DEF Apart, Concern, NoDdl
<1>9. QED BY <1>4, <1>5, <1>6, <1>7, <1>8

LEMMA FidCrash == FidInv /\ crash => FidInv'
BY ShareAssumption
   DEF FidInv, FidTypes, NoStrayFid, OwnFid, DdlInv, DdlOf, Apart, Concern, NoDdl, Ops, crash

LEMMA FidNext == FidInv /\ [Next]_vars => FidInv'
<1> SUFFICES ASSUME FidInv, [Next]_vars PROVE FidInv' OBVIOUS
<1>1. CASE UNCHANGED vars BY <1>1, FidSame DEF vars, fidVars, db2Vars
<1>2. CASE crash BY <1>2, FidCrash
<1>3. CASE \E c \in Conns, h \in Handlers, n \in Names : open(c, h, n) BY <1>3, FidOpen
<1>4. CASE \E c \in Conns, h \in Handlers : close(c, h)
  BY <1>4, FidSame DEF close, fidVars
<1>5. CASE \E c \in Conns, h \in Handlers, k \in Kinds : use(c, h, k)
  BY <1>5, FidSame DEF use, fidVars
<1>6. CASE \E c \in Conns : endTransaction(c) \/ close_connection(c)
  BY <1>6, FidSame DEF endTransaction, close_connection, fidVars
<1>7. CASE \E c \in Conns, n \in Names : create(c, n) BY <1>7, FidCreate
<1>8. CASE \E c \in Conns : create_Described(c) BY <1>8, FidDescribed
<1>9. CASE \E c \in Conns : create_Failed(c) BY <1>9, FidFailed
<1>10. CASE \E c \in Conns, n \in Names : delete_table(c, n) BY <1>10, FidDelete
<1>11. CASE \E c \in Conns : delete_table_Done(c) BY <1>11, FidDeleteDone
<1>12. CASE \E c \in Conns, n, m \in Names : rename_table(c, n, m) BY <1>12, FidRename
<1>13. CASE \E c \in Conns : rename_table_Done(c) BY <1>13, FidRenameDone
<1>14. QED
  BY <1>1, <1>2, <1>3, <1>4, <1>5, <1>6, <1>7, <1>8, <1>9, <1>10, <1>11, <1>12, <1>13 DEF Next

(* A table that MySQL and DB2 both know is never refused for its .FID file *)
(* (doFileIDsMatch): for any connections, names, files and crashes, and    *)
(* whatever DB2 lets be dropped or renamed.                                *)
THEOREM FidAlwaysMatches == Spec => []FidMatches
<1>1. FidInv => FidMatches BY DEF FidInv, OwnFid, FidMatches
<1>2. QED BY FidInit, FidNext, <1>1, PTL DEF Spec

-----------------------------------------------------------------------------
(* Counting what a list holds: the changes of a list (preserveShare        *)
(* prepends a handle, findAndRemovePreservedHandle removes one,            *)
(* delete_table all of a name).                                            *)

(* The places of a sequence that hold an element of V. *)
At(s, V) == {i \in 1..Len(s) : s[i] \in V}

(* ... are finitely many.                                                  *)
LEMMA AtFinite ==
  ASSUME NEW S, NEW s \in Seq(S), NEW V
  PROVE  IsFiniteSet(At(s, V)) /\ Cardinality(At(s, V)) \in Nat
<1>1. Len(s) \in Nat BY LenProperties
<1>2. IsFiniteSet(1..Len(s)) BY <1>1, FS_Interval
<1>3. At(s, V) \subseteq 1..Len(s) BY DEF At
<1>4. QED BY <1>2, <1>3, FS_Subset, FS_CardinalityType

(* A list with one more in front.                                          *)
LEMMA PrependCount ==
  ASSUME NEW S, NEW s \in Seq(S), NEW e \in S, NEW V
  PROVE  /\ <<e>> \o s \in Seq(S) /\ Len(<<e>> \o s) = Len(s) + 1
         /\ Cardinality(At(<<e>> \o s, V)) = Cardinality(At(s, V)) + (IF e \in V THEN 1 ELSE 0)
<1> DEFINE t == <<e>> \o s
           D == At(s, V)
           E == {i + 1 : i \in D}
           g == [i \in D |-> i + 1]
<1>1. Len(s) \in Nat BY LenProperties
<1>2. /\ t \in Seq(S) /\ Len(t) = Len(s) + 1
      /\ \A i \in 1..Len(s) + 1 : t[i] = IF i = 1 THEN e ELSE s[i - 1]
  <2>1. <<e>> \in Seq(S) /\ Len(<<e>>) = 1 /\ <<e>>[1] = e OBVIOUS
  <2>2. QED BY <1>1, <2>1, ConcatProperties
<1> HIDE DEF t
<1>3. D \subseteq 1..Len(s) BY DEF At
<1>4. IsFiniteSet(D) BY AtFinite
<1>5. g \in Bijection(D, E)
  <2>1. g \in [D -> E] /\ \A a, b \in D : g[a] = g[b] => a = b BY <1>1, <1>3
  <2>2. \A x \in E : \E a \in D : g[a] = x OBVIOUS
  <2> HIDE DEF g, D, E
  <2>3. QED BY <2>1, <2>2, Fun_IsBij
<1>6. IsFiniteSet(E) /\ Cardinality(E) = Cardinality(D)
  <2> HIDE DEF g, D, E
  <2>1. ExistsBijection(D, E) BY <1>5 DEF ExistsBijection
  <2>2. QED BY <1>4, <2>1, FS_Bijection
<1>7. At(t, V) = IF e \in V THEN E \cup {1} ELSE E BY <1>1, <1>2 DEF At
<1>8. 1 \notin E BY <1>1, <1>3
<1>9. Cardinality(E) \in Nat BY <1>6, FS_CardinalityType
<1> HIDE DEF D, E
<1>10. Cardinality(At(t, V)) = Cardinality(D) + (IF e \in V THEN 1 ELSE 0)
  <2>1. Cardinality(E \cup {1}) = Cardinality(E) + 1 BY <1>6, <1>8, FS_AddElement
  <2>2. QED BY <1>6, <1>7, <1>9, <2>1
<1>11. QED BY <1>2, <1>10 DEF t, D

(* A list without the place k.                                             *)
LEMMA RemoveCount ==
  ASSUME NEW S, NEW s \in Seq(S), NEW k \in 1..Len(s), NEW V
  PROVE  /\ Without(s, k) \in Seq(S) /\ Len(Without(s, k)) = Len(s) - 1
         /\ Cardinality(At(Without(s, k), V)) = Cardinality(At(s, V)) - (IF s[k] \in V THEN 1 ELSE 0)
<1> DEFINE t == Without(s, k)
           D == At(s, V) \ {k}
           E == At(t, V)
           g == [i \in D |-> IF i < k THEN i ELSE i - 1]
<1>1. Len(s) \in Nat /\ (\A i \in 1..Len(s) : s[i] \in S) BY LenProperties, ElementOfSeq
<1>2. /\ t \in Seq(S) /\ Len(t) = Len(s) - 1
      /\ \A i \in 1..Len(t) : t[i] = IF i < k THEN s[i] ELSE s[i + 1]
  <2> DEFINE l == SubSeq(s, 1, k - 1)
             r == SubSeq(s, k + 1, Len(s))
  <2>1. l \in Seq(S) /\ Len(l) = k - 1 /\ \A i \in 1..k - 1 : l[i] = s[i]
    BY <1>1, SubSeqProperties
  <2>2. r \in Seq(S) /\ Len(r) = Len(s) - k /\ \A i \in 1..Len(s) - k : r[i] = s[k + i]
    BY <1>1, SubSeqProperties
  <2>0. t = l \o r BY DEF Without
  <2> HIDE DEF t, l, r
  <2>3. /\ t \in Seq(S) /\ Len(t) = (k - 1) + (Len(s) - k)
        /\ \A i \in 1..(k - 1) + (Len(s) - k) :
             t[i] = IF i <= k - 1 THEN l[i] ELSE r[i - (k - 1)]
    <3>1. /\ l \o r \in Seq(S) /\ Len(l \o r) = Len(l) + Len(r)
          /\ \A i \in 1..Len(l) + Len(r) : (l \o r)[i] = IF i <= Len(l) THEN l[i] ELSE r[i - Len(l)]
      BY <2>1, <2>2, ConcatProperties
    <3>2. QED BY <3>1, <2>0, <2>1, <2>2
  <2>4. Len(t) = Len(s) - 1 BY <1>1, <2>3
  <2>5. ASSUME NEW i \in 1..Len(t) PROVE t[i] = IF i < k THEN s[i] ELSE s[i + 1]
    <3>1. CASE i < k BY <3>1, <1>1, <2>1, <2>3, <2>4
    <3>2. CASE ~(i < k)
      <4>1. i - (k - 1) \in 1..Len(s) - k /\ k + (i - (k - 1)) = i + 1 BY <3>2, <1>1, <2>4
      <4>2. r[i - (k - 1)] = s[i + 1] BY <4>1, <2>2
      <4>3. t[i] = r[i - (k - 1)] BY <3>2, <1>1, <2>3, <2>4
      <4>4. QED BY <3>2, <4>2, <4>3
    <3>3. QED BY <3>1, <3>2
  <2>6. QED BY <2>3, <2>4, <2>5
<1> HIDE DEF t
<1>3. At(s, V) \subseteq 1..Len(s) BY DEF At
<1>4. IsFiniteSet(At(s, V)) /\ Cardinality(At(s, V)) \in Nat BY AtFinite
<1>5. IsFiniteSet(D) /\ Cardinality(D) = Cardinality(At(s, V)) - (IF s[k] \in V THEN 1 ELSE 0)
  <2>1. k \in At(s, V) <=> s[k] \in V BY DEF At
  <2>2. QED BY <1>4, <2>1, FS_RemoveElement
<1>6. g \in [D -> E] /\ \A a, b \in D : g[a] = g[b] => a = b
  <2>1. ASSUME NEW i \in D PROVE g[i] \in E
    <3>1. i \in 1..Len(s) /\ i # k /\ s[i] \in V BY DEF At
    <3>2. CASE i < k BY <3>1, <3>2, <1>1, <1>2 DEF At
    <3>3. CASE ~(i < k)
      <4>1. i - 1 \in 1..Len(t) /\ ~(i - 1 < k) /\ (i - 1) + 1 = i BY <3>1, <3>3, <1>1, <1>2
      <4>2. t[i - 1] = s[i] BY <4>1, <1>2
      <4>3. QED BY <3>1, <3>3, <4>1, <4>2 DEF At
    <3>4. QED BY <3>2, <3>3
  <2>2. ASSUME NEW a \in D, NEW b \in D, g[a] = g[b] PROVE a = b
    <3>1. a \in 1..Len(s) /\ a # k /\ b \in 1..Len(s) /\ b # k BY DEF At
    <3>2. QED BY <3>1, <2>2, <1>1
  <2>3. QED BY <2>1, <2>2
<1>7. \A x \in E : \E a \in D : g[a] = x
  <2>1. ASSUME NEW x \in E PROVE \E a \in D : g[a] = x
    <3>1. x \in 1..Len(t) /\ t[x] \in V BY DEF At
    <3>2. CASE x < k
      <4>1. x \in D BY <3>1, <3>2, <1>1, <1>2 DEF At
      <4>2. QED BY <3>2, <4>1
    <3>3. CASE ~(x < k)
      <4>1. x + 1 \in D /\ ~(x + 1 < k) /\ (x + 1) - 1 = x BY <3>1, <3>3, <1>1, <1>2 DEF At
      <4>2. QED BY <4>1
    <3>4. QED BY <3>2, <3>3
  <2>2. QED BY <2>1
<1>8. Cardinality(E) = Cardinality(D)
  <2> HIDE DEF g, D, E
  <2>1. ExistsBijection(D, E) BY <1>6, <1>7, Fun_IsBij DEF ExistsBijection
  <2>2. QED BY <1>5, <2>1, FS_Bijection
<1>9. QED BY <1>2, <1>5, <1>8 DEF t

(* The places among the first k.                                           *)
AtUpTo(s, V, k) == {i \in 1..k : s[i] \in V}

(* delete_table's loop leaves the elements with another name, in number.   *)
LEMMA WithoutNameCount ==
  ASSUME NEW S, NEW s \in Seq(S), NEW n, NEW V
  PROVE  LET W == {e \in V : e.name # n} IN
         /\ WithoutName(s, n) \in Seq(S) /\ Len(WithoutName(s, n)) <= Len(s)
         /\ Cardinality(At(WithoutName(s, n), V)) = Cardinality(At(s, W))
<1> DEFINE W == {e \in V : e.name # n}
<1>1. Len(s) \in Nat /\ \A k \in 1..Len(s) : s[k] \in S BY LenProperties, ElementOfSeq
<1>2. PICK u : /\ WithoutName(s, n) = u[Len(s)]
               /\ \A k \in 0..Len(s) : u[k] = Kept(s, n, u, k)
  BY WithoutNameSteps
<1> DEFINE P == {k \in Nat : /\ u[k] \in Seq(S) /\ Len(u[k]) <= k
                             /\ IsFiniteSet(AtUpTo(s, W, k))
                             /\ Cardinality(At(u[k], V)) = Cardinality(AtUpTo(s, W, k))}
<1>3. 0 \in P
  <2>1. u[0] = <<>> BY <1>1, <1>2 DEF Kept
  <2>2. u[0] \in Seq(S) /\ Len(u[0]) = 0 BY <2>1, EmptySeq
  <2>3. At(u[0], V) = {} /\ AtUpTo(s, W, 0) = {} BY <2>2 DEF At, AtUpTo
  <2>4. IsFiniteSet(AtUpTo(s, W, 0)) /\ Cardinality(At(u[0], V)) = Cardinality(AtUpTo(s, W, 0))
    BY <2>3, FS_EmptySet
  <2>5. QED BY <2>2, <2>4
<1>4. ASSUME NEW m \in 0..Len(s) - 1, m \in P PROVE m + 1 \in P
  <2> DEFINE k == m + 1
  <2>1. k \in 1..Len(s) /\ k - 1 = m /\ m \in Nat BY <1>1
  <2>2. s[k] \in S BY <2>1, <1>1
  <2>3. u[k] = IF s[k].name = n THEN u[m] ELSE Append(u[m], s[k])
    <3>1. u[k] = Kept(s, n, u, k) BY <2>1, <1>2
    <3>2. QED BY <3>1, <2>1 DEF Kept
  <2>4. AtUpTo(s, W, k) = IF s[k] \in W THEN AtUpTo(s, W, m) \cup {k} ELSE AtUpTo(s, W, m)
    BY <2>1 DEF AtUpTo
  <2>5. k \notin AtUpTo(s, W, m) BY <2>1 DEF AtUpTo
  <2>6. /\ u[m] \in Seq(S) /\ Len(u[m]) <= m /\ IsFiniteSet(AtUpTo(s, W, m))
        /\ Cardinality(At(u[m], V)) = Cardinality(AtUpTo(s, W, m))
    BY <1>4
  <2>7. Len(u[m]) \in Nat /\ IsFiniteSet(At(u[m], V)) BY <2>6, LenProperties, AtFinite
  <2> HIDE DEF k
  <2>8. CASE s[k].name = n
    <3>1. u[k] = u[m] /\ AtUpTo(s, W, k) = AtUpTo(s, W, m) BY <2>3, <2>4, <2>8
    <3>2. QED BY <3>1, <2>1, <2>6, <2>7 DEF k
  <2>9. CASE s[k].name # n
    <3> DEFINE t == Append(u[m], s[k])
    <3>1. u[k] = t BY <2>3, <2>9
    <3>2. /\ t \in Seq(S) /\ Len(t) = Len(u[m]) + 1 /\ t[Len(u[m]) + 1] = s[k]
          /\ \A i \in 1..Len(u[m]) : t[i] = u[m][i]
      BY <2>2, <2>6, AppendProperties
    <3> HIDE DEF t
    <3>3. At(t, V) = IF s[k] \in V THEN At(u[m], V) \cup {Len(u[m]) + 1} ELSE At(u[m], V)
      BY <3>2, <2>7, SMTT(60) DEF At
    <3>4. Len(u[m]) + 1 \notin At(u[m], V) BY <2>7 DEF At
    <3>5. s[k] \in W <=> s[k] \in V BY <2>9
    <3> HIDE DEF W
    <3>6. CASE s[k] \in V
      <4>1. Cardinality(At(t, V)) = Cardinality(At(u[m], V)) + 1
        BY <3>3, <3>4, <3>6, <2>7, FS_AddElement
      <4>2. /\ IsFiniteSet(AtUpTo(s, W, k))
            /\ Cardinality(AtUpTo(s, W, k)) = Cardinality(AtUpTo(s, W, m)) + 1
        BY <2>4, <2>5, <2>6, <3>5, <3>6, FS_AddElement
      <4>3. QED BY <4>1, <4>2, <3>1, <3>2, <2>1, <2>6, <2>7 DEF k
    <3>7. CASE s[k] \notin V BY <3>7, <3>1, <3>2, <3>3, <3>5, <2>1, <2>4, <2>6, <2>7 DEF k
    <3>8. QED BY <3>6, <3>7
  <2>10. QED BY <2>8, <2>9 DEF k
<1>5. Len(s) \in P
  <2> HIDE DEF P
  <2>1. \A m \in 0..Len(s) - 1 : m \in P => m + 1 \in P BY <1>4
  <2>2. \A m \in 0..Len(s) : m \in P BY <1>1, <1>3, <2>1, InductionUpTo
  <2>3. QED BY <1>1, <2>2
<1>6. AtUpTo(s, W, Len(s)) = At(s, W) BY DEF AtUpTo, At
<1>7. QED BY <1>2, <1>5, <1>6

-----------------------------------------------------------------------------
(* How what Users and Holders count changes, when one handler changes or   *)
(* the list of one connection does.                                        *)

Pairs == [name : Names, file : Files]
PairLists == {pr \in [Conns -> Seq(Pairs)] : \A d \in Conns : Len(pr[d]) <= MaxPreserved}
HandlerStates == [name : Names \cup {NoName}, data : Files \cup {NoFile},
                  index : Files \cup {NoFile}]
HandlerTable == [Handlers -> HandlerStates]

(* q is p but for c.                                                       *)
But(S, p, q, c) == \A d \in S : d # c => q[d] = p[d]

(* The pairs of a connection and a place in its list.                      *)
PairsIn(pr, V) == {p \in Conns \X (1..MaxPreserved) : p[2] \in At(pr[p[1]], V)}

(* The lists are as before but for the connection c.                       *)
LEMMA PairsChange ==
  ASSUME NEW pr \in PairLists, NEW pr2 \in PairLists, NEW c \in Conns, NEW V,
         But(Conns, pr, pr2, c), IsFiniteSet(Conns)
  PROVE  Cardinality(PairsIn(pr2, V)) + Cardinality(At(pr[c], V))
         = Cardinality(PairsIn(pr, V)) + Cardinality(At(pr2[c], V))
<1> DEFINE R == {p \in PairsIn(pr, V) : p[1] # c}
<1>1. IsFiniteSet(Conns \X (1..MaxPreserved))
  <2>1. IsFiniteSet(1..MaxPreserved) BY ShareAssumption, FS_Interval
  <2>2. QED BY <2>1, FS_Product
<1>2. IsFiniteSet(PairsIn(pr, V)) /\ IsFiniteSet(PairsIn(pr2, V)) /\ IsFiniteSet(R)
  <2>1. PairsIn(pr, V) \subseteq Conns \X (1..MaxPreserved) BY DEF PairsIn
  <2>2. PairsIn(pr2, V) \subseteq Conns \X (1..MaxPreserved) BY DEF PairsIn
  <2>3. R \subseteq Conns \X (1..MaxPreserved) BY DEF PairsIn
  <2> HIDE DEF R
  <2>4. QED BY <1>1, <2>1, <2>2, <2>3, FS_Subset
<1>3. ASSUME NEW q \in PairLists, But(Conns, pr, q, c)
      PROVE  Cardinality(PairsIn(q, V)) = Cardinality(R) + Cardinality(At(q[c], V))
  <2> DEFINE A == At(q[c], V)
    <2>0. q[c] \in Seq(Pairs) /\ Len(q[c]) <= MaxPreserved BY <1>3 DEF PairLists
  <2>1. IsFiniteSet(A) BY <2>0, AtFinite
  <2>2. Len(q[c]) \in Nat BY <2>0, LenProperties
  <2>3. IsFiniteSet({c}) /\ Cardinality({c}) = 1 BY FS_Singleton
  <2>4. IsFiniteSet({c} \X A) /\ Cardinality({c} \X A) = Cardinality(A)
    <3> HIDE DEF A
    <3>1. Cardinality(A) \in Nat BY <2>1, FS_CardinalityType
    <3>2. /\ IsFiniteSet({c} \X A)
          /\ Cardinality({c} \X A) = Cardinality({c}) * Cardinality(A)
      BY <2>1, <2>3, FS_Product
    <3>3. QED BY <2>3, <3>1, <3>2
  <2>5. PairsIn(q, V) = R \cup ({c} \X A)
    <3>1. A \subseteq 1..MaxPreserved BY <2>0, <2>2, ShareAssumption DEF At
    <3>2. ASSUME NEW p \in Conns \X (1..MaxPreserved), p[1] # c
          PROVE  p \in PairsIn(q, V) <=> p \in R
      BY <1>3, <3>2 DEF PairsIn, But
    <3>3. ASSUME NEW p \in Conns \X (1..MaxPreserved), p[1] = c
          PROVE  p \in PairsIn(q, V) <=> p \in {c} \X A
      BY <1>3, <3>3 DEF PairsIn
    <3>4. R \subseteq Conns \X (1..MaxPreserved) /\ {c} \X A \subseteq Conns \X (1..MaxPreserved)
          /\ PairsIn(q, V) \subseteq Conns \X (1..MaxPreserved)
          /\ (\A p \in R : p[1] # c) /\ (\A p \in {c} \X A : p[1] = c)
      BY <3>1 DEF PairsIn
    <3> HIDE DEF A, R
    <3>5. QED BY <3>2, <3>3, <3>4
  <2>6. R \cap ({c} \X A) = {} OBVIOUS
  <2> HIDE DEF A, R
  <2>7. Cardinality(R) \in Nat /\ Cardinality(A) \in Nat BY <1>2, <2>1, FS_CardinalityType
  <2>8. Cardinality(PairsIn(q, V)) = Cardinality(R) + Cardinality({c} \X A) - Cardinality({})
    <3>1. Cardinality(R \cup ({c} \X A))
          = Cardinality(R) + Cardinality({c} \X A) - Cardinality(R \cap ({c} \X A))
      BY <1>2, <2>4, FS_Union
    <3>2. QED BY <3>1, <2>5, <2>6
  <2>9. QED BY <2>4, <2>7, <2>8, FS_EmptySet DEF A
<1> HIDE DEF R
<1>5. Cardinality(PairsIn(pr2, V)) = Cardinality(R) + Cardinality(At(pr2[c], V)) BY <1>3
<1>6. Cardinality(PairsIn(pr, V)) = Cardinality(R) + Cardinality(At(pr[c], V)) BY <1>3 DEF But
<1>7. /\ Cardinality(R) \in Nat /\ Cardinality(At(pr2[c], V)) \in Nat
      /\ Cardinality(At(pr[c], V)) \in Nat
  <2>1. pr[c] \in Seq(Pairs) /\ pr2[c] \in Seq(Pairs) BY DEF PairLists
  <2>2. QED BY <1>2, <2>1, AtFinite, FS_CardinalityType
<1>8. QED BY <1>2, <1>5, <1>6, <1>7

OnName(n) == {r \in HandlerStates : r.name = n}
OnFile(f, k) == {r \in HandlerStates : r[k] = f}
NamedPairs(n) == {e \in Pairs : e.name = n}
FilePairs(f) == {e \in Pairs : e.file = f}
HandlersIn(hs, V) == {h \in Handlers : hs[h] \in V}

Member(x, V) == IF x \in V THEN 1 ELSE 0
Same(x, y) == IF x = y THEN 1 ELSE 0

(* The handlers are as before but for h.                                   *)
LEMMA HandlersChange ==
  ASSUME NEW hs \in HandlerTable, NEW hs2 \in HandlerTable, NEW h \in Handlers, NEW V,
         But(Handlers, hs, hs2, h), IsFiniteSet(Handlers)
  PROVE  /\ Cardinality(HandlersIn(hs, V)) \in Nat /\ Cardinality(HandlersIn(hs2, V)) \in Nat
         /\ Cardinality(HandlersIn(hs2, V)) + Member(hs[h], V)
            = Cardinality(HandlersIn(hs, V)) + Member(hs2[h], V)
<1> DEFINE A == HandlersIn(hs, V)
           B == HandlersIn(hs2, V)
           R == A \ {h}
<1>1. IsFiniteSet(A) /\ IsFiniteSet(B)
  <2>1. A \subseteq Handlers /\ B \subseteq Handlers BY DEF HandlersIn
  <2> HIDE DEF A, B
  <2>2. QED BY <2>1, FS_Subset
<1>2. h \in A <=> hs[h] \in V BY DEF HandlersIn
<1>3. h \in B <=> hs2[h] \in V BY DEF HandlersIn
<1>4. R = B \ {h} BY DEF HandlersIn, But
<1> HIDE DEF A, B, R
<1>5. Cardinality(R) = IF h \in A THEN Cardinality(A) - 1 ELSE Cardinality(A)
  BY <1>1, FS_RemoveElement DEF R
<1>6. Cardinality(R) = IF h \in B THEN Cardinality(B) - 1 ELSE Cardinality(B)
  BY <1>1, <1>4, FS_RemoveElement
<1>7. Cardinality(A) \in Nat /\ Cardinality(B) \in Nat BY <1>1, FS_CardinalityType
<1>8. QED BY <1>2, <1>3, <1>5, <1>6, <1>7 DEF Member, Same, A, B

(* There are finitely many places in the lists of finitely many connections. *)
LEMMA PairsFinite ==
  ASSUME NEW pr, NEW V, IsFiniteSet(Conns)
  PROVE  IsFiniteSet(PairsIn(pr, V)) /\ Cardinality(PairsIn(pr, V)) \in Nat
<1>1. IsFiniteSet(1..MaxPreserved) BY ShareAssumption, FS_Interval
<1>2. IsFiniteSet(Conns \X (1..MaxPreserved)) BY <1>1, FS_Product
<1>3. PairsIn(pr, V) \subseteq Conns \X (1..MaxPreserved) BY DEF PairsIn
<1>4. QED BY <1>2, <1>3, FS_Subset, FS_CardinalityType

(* What a list of the table is made of.                                    *)
LEMMA ListTyped ==
  ASSUME NEW pr \in PairLists, NEW c \in Conns
  PROVE  /\ pr[c] \in Seq(Pairs) /\ Len(pr[c]) \in Nat /\ Len(pr[c]) <= MaxPreserved
         /\ DOMAIN pr[c] = 1..Len(pr[c]) /\ \A i \in 1..Len(pr[c]) : pr[c][i] \in Pairs
<1>1. pr[c] \in Seq(Pairs) /\ Len(pr[c]) <= MaxPreserved BY DEF PairLists
<1>2. QED BY <1>1, LenProperties, ElementOfSeq

(* The three ways in which the list of a connection changes.               *)
LEMMA Typed ==
  ASSUME NEW pr \in PairLists, NEW c \in Conns, NEW t \in Seq(Pairs), Len(t) <= MaxPreserved
  PROVE  /\ [pr EXCEPT ![c] = t] \in PairLists /\ [pr EXCEPT ![c] = t][c] = t
         /\ But(Conns, pr, [pr EXCEPT ![c] = t], c)
BY DEF PairLists, But

(* The two removals, for sets of pairs.                                    *)
LEMMA RemoveFrom ==
  ASSUME NEW s \in Seq(Pairs), NEW k \in 1..Len(s)
  PROVE  \A V : Cardinality(At(Without(s, k), V)) = Cardinality(At(s, V)) - Member(s[k], V)
BY RemoveCount DEF Member, Same

LEMMA DropFrom ==
  ASSUME NEW s \in Seq(Pairs), NEW n
  PROVE  \A V : Cardinality(At(WithoutName(s, n), V)) = Cardinality(At(s, {e \in V : e.name # n}))
BY WithoutNameCount

LEMMA PrependTyped ==
  ASSUME NEW pr \in PairLists, NEW c \in Conns, NEW e \in Pairs, Len(pr[c]) < MaxPreserved
  PROVE  LET pr2 == [pr EXCEPT ![c] = <<e>> \o pr[c]]
         IN  pr2 \in PairLists /\ But(Conns, pr, pr2, c) /\ pr2[c] = <<e>> \o pr[c]
<1> DEFINE t == <<e>> \o pr[c]
<1>1. pr[c] \in Seq(Pairs) /\ Len(pr[c]) \in Nat BY ListTyped
<1>2. t \in Seq(Pairs) /\ Len(t) = Len(pr[c]) + 1 BY <1>1, PrependCount
<1> HIDE DEF t
<1>3. Len(t) <= MaxPreserved BY <1>1, <1>2, ShareAssumption
<1>4. QED BY <1>2, <1>3, Typed DEF t

LEMMA RemoveTyped ==
  ASSUME NEW pr \in PairLists, NEW c \in Conns, NEW k \in 1..Len(pr[c])
  PROVE  LET pr2 == [pr EXCEPT ![c] = Without(pr[c], k)]
         IN  pr2 \in PairLists /\ But(Conns, pr, pr2, c) /\ pr2[c] = Without(pr[c], k)
<1> DEFINE t == Without(pr[c], k)
<1>1. pr[c] \in Seq(Pairs) /\ Len(pr[c]) \in Nat /\ Len(pr[c]) <= MaxPreserved BY ListTyped
<1>2. t \in Seq(Pairs) /\ Len(t) = Len(pr[c]) - 1 BY <1>1, RemoveCount
<1> HIDE DEF t
<1>3. Len(t) <= MaxPreserved BY <1>1, <1>2, ShareAssumption
<1>4. QED BY <1>2, <1>3, Typed DEF t

LEMMA DropTyped ==
  ASSUME NEW pr \in PairLists, NEW c \in Conns, NEW n
  PROVE  LET pr2 == [pr EXCEPT ![c] = WithoutName(pr[c], n)]
         IN  pr2 \in PairLists /\ But(Conns, pr, pr2, c) /\ pr2[c] = WithoutName(pr[c], n)
<1> DEFINE t == WithoutName(pr[c], n)
<1>1. pr[c] \in Seq(Pairs) /\ Len(pr[c]) \in Nat /\ Len(pr[c]) <= MaxPreserved BY ListTyped
<1>2. t \in Seq(Pairs) /\ Len(t) <= Len(pr[c]) BY <1>1, WithoutNameCount
<1> HIDE DEF t
<1>3. Len(t) <= MaxPreserved
  <2>1. Len(t) \in Nat BY <1>2, LenProperties
  <2>2. QED BY <2>1, <1>1, <1>2, ShareAssumption
<1>4. QED BY <1>2, <1>3, Typed DEF t

(* How the pairs of a set change with the list of c: a pair more,          *)
LEMMA PairsPrepend ==
  ASSUME NEW pr \in PairLists, NEW c \in Conns, NEW e \in Pairs,
         NEW pr2 \in PairLists, But(Conns, pr, pr2, c), pr2[c] = <<e>> \o pr[c], IsFiniteSet(Conns)
  PROVE  \A V : Cardinality(PairsIn(pr2, V)) = Cardinality(PairsIn(pr, V)) + Member(e, V)
<1> DEFINE t == <<e>> \o pr[c]
<1>1. pr[c] \in Seq(Pairs) /\ Len(pr[c]) \in Nat BY ListTyped
<1>2. /\ t \in Seq(Pairs) /\ Len(t) = Len(pr[c]) + 1
      /\ \A V : Cardinality(At(t, V)) = Cardinality(At(pr[c], V)) + Member(e, V)
  BY <1>1, PrependCount DEF Member, Same
<1>4. pr2[c] = t OBVIOUS
<1> HIDE DEF t
<1>5. ASSUME NEW V PROVE Cardinality(PairsIn(pr2, V)) = Cardinality(PairsIn(pr, V)) + Member(e, V)
  <2>1. Cardinality(PairsIn(pr2, V)) + Cardinality(At(pr[c], V))
        = Cardinality(PairsIn(pr, V)) + Cardinality(At(pr2[c], V))
    BY <1>4, PairsChange
  <2>2. Cardinality(At(pr[c], V)) \in Nat BY <1>1, AtFinite
  <2>3. Cardinality(PairsIn(pr2, V)) \in Nat /\ Cardinality(PairsIn(pr, V)) \in Nat BY PairsFinite
  <2>4. Member(e, V) \in Int BY DEF Member, Same
  <2>5. Cardinality(At(pr2[c], V)) = Cardinality(At(pr[c], V)) + Member(e, V) BY <1>2, <1>4
  <2>6. QED BY <2>1, <2>2, <2>3, <2>4, <2>5
<1>6. QED BY <1>5

(* ... a pair less,                                                        *)
LEMMA PairsRemove ==
  ASSUME NEW pr \in PairLists, NEW c \in Conns, NEW k \in 1..Len(pr[c]),
         NEW pr2 \in PairLists, But(Conns, pr, pr2, c), pr2[c] = Without(pr[c], k),
         IsFiniteSet(Conns)
  PROVE  \A V : Cardinality(PairsIn(pr2, V))
                       = Cardinality(PairsIn(pr, V)) - Member(pr[c][k], V)
<1>1. pr[c] \in Seq(Pairs) BY ListTyped
<1>2. \A V : Cardinality(At(pr2[c], V)) = Cardinality(At(pr[c], V)) - Member(pr[c][k], V)
  BY <1>1, RemoveFrom
<1>5. ASSUME NEW V
      PROVE  Cardinality(PairsIn(pr2, V)) = Cardinality(PairsIn(pr, V)) - Member(pr[c][k], V)
  <2>1. Cardinality(PairsIn(pr2, V)) + Cardinality(At(pr[c], V))
        = Cardinality(PairsIn(pr, V)) + Cardinality(At(pr2[c], V))
    BY PairsChange
  <2>2. Cardinality(At(pr[c], V)) \in Nat BY <1>1, AtFinite
  <2>3. Cardinality(PairsIn(pr2, V)) \in Nat /\ Cardinality(PairsIn(pr, V)) \in Nat BY PairsFinite
  <2>4. Member(pr[c][k], V) \in Int BY DEF Member, Same
  <2>5. Cardinality(At(pr2[c], V)) = Cardinality(At(pr[c], V)) - Member(pr[c][k], V) BY <1>2
  <2>6. QED BY <2>1, <2>2, <2>3, <2>4, <2>5
<1>6. QED BY <1>5

(* The places that have a name.                                            *)
NamedAt(s, V, n) == {i \in At(s, V) : s[i].name = n}

LEMMA PairsWithoutName ==
  ASSUME NEW pr \in PairLists, NEW c \in Conns, NEW n, NEW pr2 \in PairLists,
         But(Conns, pr, pr2, c), pr2[c] = WithoutName(pr[c], n), IsFiniteSet(Conns)
  PROVE  \A V : /\ Cardinality(NamedAt(pr[c], V, n)) \in Nat
                       /\ Cardinality(PairsIn(pr2, V))
                          = Cardinality(PairsIn(pr, V)) - Cardinality(NamedAt(pr[c], V, n))
<1>1. pr[c] \in Seq(Pairs) BY ListTyped
<1>2. \A V : Cardinality(At(pr2[c], V)) = Cardinality(At(pr[c], {e \in V : e.name # n}))
  BY <1>1, DropFrom
<1>5. ASSUME NEW V
      PROVE  /\ Cardinality(NamedAt(pr[c], V, n)) \in Nat
             /\ Cardinality(PairsIn(pr2, V))
                = Cardinality(PairsIn(pr, V)) - Cardinality(NamedAt(pr[c], V, n))
  <2> DEFINE W == {e \in V : e.name # n}
             G == NamedAt(pr[c], V, n)
  <2>1. Cardinality(PairsIn(pr2, V)) + Cardinality(At(pr[c], V))
        = Cardinality(PairsIn(pr, V)) + Cardinality(At(pr2[c], V))
    BY PairsChange
  <2>2. IsFiniteSet(At(pr[c], V)) /\ Cardinality(At(pr[c], V)) \in Nat BY <1>1, AtFinite
  <2>3. Cardinality(PairsIn(pr2, V)) \in Nat /\ Cardinality(PairsIn(pr, V)) \in Nat BY PairsFinite
  <2>4. At(pr[c], W) = At(pr[c], V) \ G BY DEF At, NamedAt
  <2>5. G \subseteq At(pr[c], V) BY DEF NamedAt
  <2>6. Cardinality(At(pr2[c], V)) = Cardinality(At(pr[c], W)) BY <1>2
  <2> HIDE DEF W, G
  <2>7. Cardinality(G) \in Nat BY <2>2, <2>5, FS_Subset, FS_CardinalityType
  <2>8. Cardinality(At(pr2[c], V)) = Cardinality(At(pr[c], V)) - Cardinality(G)
    <3>1. At(pr[c], V) \cap G = G BY <2>5
    <3>2. Cardinality(At(pr[c], W)) = Cardinality(At(pr[c], V)) - Cardinality(G)
      BY <2>2, <2>4, <3>1, FS_Difference
    <3>3. QED BY <2>6, <3>2
  <2>9. Cardinality(PairsIn(pr2, V)) = Cardinality(PairsIn(pr, V)) - Cardinality(G)
    BY <2>1, <2>2, <2>3, <2>7, <2>8
  <2>10. QED BY <2>7, <2>9 DEF G
<1>6. QED BY <1>5

UsersOf(hs, pr, n) ==
  Cardinality(HandlersIn(hs, OnName(n))) + Cardinality(PairsIn(pr, NamedPairs(n)))
HoldersOf(hs, pr, f, k) ==
  Cardinality(HandlersIn(hs, OnFile(f, k)))
  + (IF k = "data" THEN Cardinality(PairsIn(pr, FilePairs(f))) ELSE 0)

(* Counts of finite sets are numbers.                                      *)
LEMMA CountsAreNat ==
  ASSUME IsFiniteSet(Handlers), IsFiniteSet(Conns), NEW hs, NEW pr
  PROVE  /\ \A n : UsersOf(hs, pr, n) \in Nat
         /\ \A f, k : HoldersOf(hs, pr, f, k) \in Nat
<1>1. ASSUME NEW V PROVE Cardinality(HandlersIn(hs, V)) \in Nat
  <2>1. HandlersIn(hs, V) \subseteq Handlers BY DEF HandlersIn
  <2>2. QED BY <2>1, FS_Subset, FS_CardinalityType
<1>2. ASSUME NEW V PROVE Cardinality(PairsIn(pr, V)) \in Nat BY PairsFinite
<1>3. \A n : UsersOf(hs, pr, n) \in Nat BY <1>1, <1>2 DEF UsersOf
<1>4. ASSUME NEW f, NEW k PROVE HoldersOf(hs, pr, f, k) \in Nat
  <2>1. Cardinality(HandlersIn(hs, OnFile(f, k))) \in Nat BY <1>1
  <2>2. Cardinality(PairsIn(pr, FilePairs(f))) \in Nat BY <1>2
  <2>3. QED BY <2>1, <2>2 DEF HoldersOf
<1>5. QED BY <1>3, <1>4

(* Only the state of one handler changes.                                  *)
LEMMA CountHandler ==
  ASSUME IsFiniteSet(Handlers), IsFiniteSet(Conns), NEW hs \in HandlerTable,
         NEW hs2 \in HandlerTable, NEW h \in Handlers, But(Handlers, hs, hs2, h), NEW pr
  PROVE  /\ \A m \in Names : UsersOf(hs2, pr, m)
              = UsersOf(hs, pr, m) + Same(hs2[h].name, m) - Same(hs[h].name, m)
         /\ \A f \in Files, k \in Kinds : HoldersOf(hs2, pr, f, k)
              = HoldersOf(hs, pr, f, k) + Same(hs2[h][k], f) - Same(hs[h][k], f)
<1> DEFINE r == hs2[h]
<1>1. r \in HandlerStates /\ hs[h] \in HandlerStates BY DEF HandlerTable
<1> HIDE DEF r
<1>2. ASSUME NEW V
      PROVE  /\ Cardinality(HandlersIn(hs, V)) \in Nat /\ Cardinality(HandlersIn(hs2, V)) \in Nat
             /\ Cardinality(HandlersIn(hs2, V)) + Member(hs[h], V)
                = Cardinality(HandlersIn(hs, V)) + Member(r, V)
  BY HandlersChange DEF r
<1>3. ASSUME NEW V PROVE Cardinality(PairsIn(pr, V)) \in Nat BY PairsFinite
<1>4. ASSUME NEW m \in Names
      PROVE  UsersOf(hs2, pr, m) = UsersOf(hs, pr, m) + Same(r.name, m) - Same(hs[h].name, m)
  <2>1. Member(hs[h], OnName(m)) = Same(hs[h].name, m) /\ Member(r, OnName(m)) = Same(r.name, m)
    BY <1>1 DEF Member, Same, OnName
  <2>2. Same(hs[h].name, m) \in Int /\ Same(r.name, m) \in Int BY DEF Member, Same
  <2>3. QED BY <1>2, <1>3, <2>1, <2>2 DEF UsersOf
<1>5. ASSUME NEW f \in Files, NEW k \in Kinds
      PROVE  HoldersOf(hs2, pr, f, k) = HoldersOf(hs, pr, f, k) + Same(r[k], f) - Same(hs[h][k], f)
  <2>1. Member(hs[h], OnFile(f, k)) = Same(hs[h][k], f) /\ Member(r, OnFile(f, k)) = Same(r[k], f)
    BY <1>1 DEF Member, Same, OnFile
  <2>2. Same(hs[h][k], f) \in Int /\ Same(r[k], f) \in Int BY DEF Member, Same
  <2>3. QED BY <1>2, <1>3, <2>1, <2>2 DEF HoldersOf
<1>6. QED BY <1>4, <1>5 DEF r

(* Only what one connection has preserved changes.                         *)
LEMMA CountPrepend ==
  ASSUME IsFiniteSet(Handlers), IsFiniteSet(Conns), NEW hs, NEW pr \in PairLists,
         NEW pr2 \in PairLists, NEW c \in Conns, NEW e \in Pairs, Len(pr[c]) < MaxPreserved,
         But(Conns, pr, pr2, c), pr2[c] = <<e>> \o pr[c]
  PROVE  /\ \A m \in Names : UsersOf(hs, pr2, m) = UsersOf(hs, pr, m) + Same(e.name, m)
         /\ \A f \in Files :
              /\ HoldersOf(hs, pr2, f, "index") = HoldersOf(hs, pr, f, "index")
              /\ HoldersOf(hs, pr2, f, "data") = HoldersOf(hs, pr, f, "data") + Same(e.file, f)
<1>1. \A V : Cardinality(PairsIn(pr2, V)) = Cardinality(PairsIn(pr, V)) + Member(e, V)
  BY PairsPrepend
<1>2. ASSUME NEW V PROVE Cardinality(HandlersIn(hs, V)) \in Nat
  <2>1. HandlersIn(hs, V) \subseteq Handlers BY DEF HandlersIn
  <2>2. QED BY <2>1, FS_Subset, FS_CardinalityType
<1>3. ASSUME NEW V PROVE Cardinality(PairsIn(pr, V)) \in Nat BY PairsFinite
<1>4. ASSUME NEW m \in Names PROVE UsersOf(hs, pr2, m) = UsersOf(hs, pr, m) + Same(e.name, m)
  <2>1. Member(e, NamedPairs(m)) = Same(e.name, m) BY DEF Member, Same, NamedPairs
  <2>2. Same(e.name, m) \in Int BY DEF Member, Same
  <2>3. QED BY <1>1, <1>2, <1>3, <2>1, <2>2 DEF UsersOf
<1>5. ASSUME NEW f \in Files
      PROVE  /\ HoldersOf(hs, pr2, f, "index") = HoldersOf(hs, pr, f, "index")
             /\ HoldersOf(hs, pr2, f, "data") = HoldersOf(hs, pr, f, "data") + Same(e.file, f)
  <2>1. Member(e, FilePairs(f)) = Same(e.file, f) BY DEF Member, Same, FilePairs
  <2>2. Same(e.file, f) \in Int BY DEF Same
  <2>3. Cardinality(PairsIn(pr2, FilePairs(f))) = Cardinality(PairsIn(pr, FilePairs(f))) + Same(e.file, f)
    BY <1>1, <2>1
  <2>4. QED BY <1>2, <1>3, <2>2, <2>3 DEF HoldersOf
<1>6. QED BY <1>1, <1>4, <1>5

(* The list of c loses the handle at place i.                              *)
LEMMA CountRemove ==
  ASSUME IsFiniteSet(Handlers), IsFiniteSet(Conns), NEW hs, NEW pr \in PairLists,
         NEW pr2 \in PairLists, NEW c \in Conns, NEW i \in 1..Len(pr[c]),
         But(Conns, pr, pr2, c), pr2[c] = Without(pr[c], i)
  PROVE  /\ \A m \in Names : UsersOf(hs, pr2, m) = UsersOf(hs, pr, m) - Same(pr[c][i].name, m)
         /\ \A f \in Files :
              /\ HoldersOf(hs, pr2, f, "index") = HoldersOf(hs, pr, f, "index")
              /\ HoldersOf(hs, pr2, f, "data") = HoldersOf(hs, pr, f, "data") - Same(pr[c][i].file, f)
<1> DEFINE e == pr[c][i]
<1>1. \A V : Cardinality(PairsIn(pr2, V)) = Cardinality(PairsIn(pr, V)) - Member(e, V)
  BY PairsRemove
<1>2. e \in Pairs BY ListTyped
<1> HIDE DEF e
<1>3. ASSUME NEW V PROVE Cardinality(HandlersIn(hs, V)) \in Nat
  <2>1. HandlersIn(hs, V) \subseteq Handlers BY DEF HandlersIn
  <2>2. QED BY <2>1, FS_Subset, FS_CardinalityType
<1>4. ASSUME NEW V PROVE Cardinality(PairsIn(pr, V)) \in Nat BY PairsFinite
<1>5. ASSUME NEW m \in Names PROVE UsersOf(hs, pr2, m) = UsersOf(hs, pr, m) - Same(e.name, m)
  <2>1. Member(e, NamedPairs(m)) = Same(e.name, m) BY <1>2 DEF Member, Same, NamedPairs
  <2>2. Same(e.name, m) \in Int BY DEF Member, Same
  <2>3. QED BY <1>1, <1>3, <1>4, <2>1, <2>2 DEF UsersOf
<1>6. ASSUME NEW f \in Files
      PROVE  /\ HoldersOf(hs, pr2, f, "index") = HoldersOf(hs, pr, f, "index")
             /\ HoldersOf(hs, pr2, f, "data") = HoldersOf(hs, pr, f, "data") - Same(e.file, f)
  <2>1. Member(e, FilePairs(f)) = Same(e.file, f) BY <1>2 DEF Member, Same, FilePairs
  <2>2. Same(e.file, f) \in Int BY DEF Same
  <2>3. Cardinality(PairsIn(pr2, FilePairs(f))) = Cardinality(PairsIn(pr, FilePairs(f))) - Same(e.file, f)
    BY <1>1, <2>1
  <2>4. QED BY <1>3, <1>4, <2>2, <2>3 DEF HoldersOf
<1>7. QED BY <1>1, <1>5, <1>6 DEF e

(* The places of a list that have a name, and those that have a file.      *)
PlacesOf(s, n) == {i \in DOMAIN s : s[i].name = n}
PlacesOn(s, f) == {i \in DOMAIN s : s[i].file = f}

(* The list of c loses all handles with the name n.                        *)
LEMMA CountDrop ==
  ASSUME IsFiniteSet(Handlers), IsFiniteSet(Conns), NEW hs, NEW pr \in PairLists,
         NEW pr2 \in PairLists, NEW c \in Conns, NEW n,
         But(Conns, pr, pr2, c), pr2[c] = WithoutName(pr[c], n)
  PROVE  /\ IsFiniteSet(PlacesOf(pr[c], n))
         /\ \A m \in Names : m # n => UsersOf(hs, pr2, m) = UsersOf(hs, pr, m)
         /\ n \in Names => UsersOf(hs, pr2, n) = UsersOf(hs, pr, n) - Cardinality(PlacesOf(pr[c], n))
         /\ \A f \in Files :
              /\ HoldersOf(hs, pr2, f, "index") = HoldersOf(hs, pr, f, "index")
              /\ HoldersOf(hs, pr2, f, "data")
                 = HoldersOf(hs, pr, f, "data") - Cardinality(PlacesOf(pr[c], n) \cap PlacesOn(pr[c], f))
<1> DEFINE gone == PlacesOf(pr[c], n)
           on(f) == PlacesOn(pr[c], f)
           G(V) == NamedAt(pr[c], V, n)
<1>1. \A V : /\ Cardinality(G(V)) \in Nat
                /\ Cardinality(PairsIn(pr2, V)) = Cardinality(PairsIn(pr, V)) - Cardinality(G(V))
  BY PairsWithoutName
<1>2. DOMAIN pr[c] = 1..Len(pr[c]) /\ \A i \in 1..Len(pr[c]) : pr[c][i] \in Pairs BY ListTyped
<1>3. IsFiniteSet(gone)
  <2>1. IsFiniteSet(1..Len(pr[c])) BY ListTyped, FS_Interval
  <2>2. gone \subseteq 1..Len(pr[c]) BY <1>2 DEF PlacesOf
  <2> HIDE DEF gone
  <2>3. QED BY <2>1, <2>2, FS_Subset
<1>4. \A m \in Names : G(NamedPairs(m)) = IF m = n THEN gone ELSE {}
  BY <1>2 DEF NamedAt, At, NamedPairs, PlacesOf
<1>5. \A f \in Files : G(FilePairs(f)) = gone \cap on(f)
  BY <1>2 DEF NamedAt, At, FilePairs, PlacesOf, PlacesOn
<1> HIDE DEF gone, on, G
<1>6. ASSUME NEW V PROVE Cardinality(HandlersIn(hs, V)) \in Nat
  <2>1. HandlersIn(hs, V) \subseteq Handlers BY DEF HandlersIn
  <2>2. QED BY <2>1, FS_Subset, FS_CardinalityType
<1>7. ASSUME NEW V PROVE Cardinality(PairsIn(pr, V)) \in Nat BY PairsFinite
<1>8. ASSUME NEW m \in Names
      PROVE  UsersOf(hs, pr2, m)
             = IF m = n THEN UsersOf(hs, pr, m) - Cardinality(gone) ELSE UsersOf(hs, pr, m)
  <2>1. Cardinality(PairsIn(pr2, NamedPairs(m)))
        = Cardinality(PairsIn(pr, NamedPairs(m))) - Cardinality(G(NamedPairs(m)))
    BY <1>1
  <2>2. CASE m = n
    <3>1. G(NamedPairs(m)) = gone BY <1>4, <2>2
    <3>2. Cardinality(gone) \in Nat BY <1>3, FS_CardinalityType
    <3>3. QED BY <1>6, <1>7, <2>1, <2>2, <3>1, <3>2 DEF UsersOf
  <2>3. CASE m # n
    <3>1. Cardinality(G(NamedPairs(m))) = 0 BY <1>4, <2>3, FS_EmptySet
    <3>2. QED BY <1>6, <1>7, <2>1, <2>3, <3>1 DEF UsersOf
  <2>4. QED BY <2>2, <2>3
<1>9. ASSUME NEW f \in Files
      PROVE  /\ HoldersOf(hs, pr2, f, "index") = HoldersOf(hs, pr, f, "index")
             /\ HoldersOf(hs, pr2, f, "data")
                = HoldersOf(hs, pr, f, "data") - Cardinality(gone \cap on(f))
  <2>1. Cardinality(PairsIn(pr2, FilePairs(f)))
        = Cardinality(PairsIn(pr, FilePairs(f))) - Cardinality(gone \cap on(f))
    BY <1>1, <1>5
  <2>2. Cardinality(gone \cap on(f)) \in Nat BY <1>1, <1>5
  <2>3. QED BY <1>6, <1>7, <2>1, <2>2 DEF HoldersOf
<1>10. QED BY <1>1, <1>3, <1>8, <1>9 DEF gone, on

-----------------------------------------------------------------------------
(* The counts are exact: the types they need, and one lemma per step.      *)

CountTypes ==
  /\ tables \in [Names -> Files \cup {NoFile}] /\ defn \in [Names -> Files \cup {NoFile}]
  /\ use_count \in [Names -> Nat] /\ allocated \in [Files -> [Kinds -> Int]]
  /\ handlers \in HandlerTable /\ preserved \in PairLists
  /\ \A h \in Handlers : handlers[h].name = NoName => handlers[h] = Closed

(* UseCountExact and HandlesAccounted, in the terms of the lemmas.         *)
Counted ==
  \A n \in Names : /\ use_count[n] = UsersOf(handlers, preserved, n)
                   /\ defn[n] = NoFile <=> use_count[n] = 0
Accounted ==
  \A f \in Files, k \in Kinds : allocated[f][k] = HoldersOf(handlers, preserved, f, k)

(* Users and Holders, as the properties define them.                       *)
LEMMA UsersCounted ==
  ASSUME CountTypes, NEW n \in Names
  PROVE  Users(n) = UsersOf(handlers, preserved, n)
<1>1. HandlersIn(handlers, OnName(n)) = {h \in Handlers : handlers[h].name = n}
  BY DEF CountTypes, HandlerTable, HandlersIn, OnName
<1>2. ASSUME NEW p \in Conns \X (1..MaxPreserved)
      PROVE  p[2] \in At(preserved[p[1]], NamedPairs(n)) <=> p[2] \in PreservedAs(p[1], n)
  <2>1. p[1] \in Conns /\ preserved \in PairLists BY DEF CountTypes
  <2>2. /\ DOMAIN preserved[p[1]] = 1..Len(preserved[p[1]])
        /\ \A i \in 1..Len(preserved[p[1]]) : preserved[p[1]][i] \in Pairs
    BY <2>1, ListTyped
  <2>3. QED BY <2>2 DEF At, NamedPairs, PreservedAs
<1>3. PairsIn(preserved, NamedPairs(n))
      = {p \in Conns \X (1..MaxPreserved) : p[2] \in PreservedAs(p[1], n)}
  BY <1>2 DEF PairsIn
<1>4. QED BY <1>1, <1>3 DEF Users, UsersOf

LEMMA HoldersCounted ==
  ASSUME CountTypes, NEW f \in Files, NEW k \in Kinds
  PROVE  Holders(f, k) = HoldersOf(handlers, preserved, f, k)
<1>1. HandlersIn(handlers, OnFile(f, k)) = {h \in Handlers : handlers[h][k] = f}
  BY DEF CountTypes, HandlerTable, HandlersIn, OnFile
<1>2. ASSUME NEW p \in Conns \X (1..MaxPreserved)
      PROVE  p[2] \in At(preserved[p[1]], FilePairs(f)) <=> p[2] \in PreservedOn(p[1], f)
  <2>1. p[1] \in Conns /\ preserved \in PairLists BY DEF CountTypes
  <2>2. /\ DOMAIN preserved[p[1]] = 1..Len(preserved[p[1]])
        /\ \A i \in 1..Len(preserved[p[1]]) : preserved[p[1]][i] \in Pairs
    BY <2>1, ListTyped
  <2>3. QED BY <2>2 DEF At, FilePairs, PreservedOn
<1>3. PairsIn(preserved, FilePairs(f))
      = {p \in Conns \X (1..MaxPreserved) : p[2] \in PreservedOn(p[1], f)}
  BY <1>2 DEF PairsIn
<1>4. QED BY <1>1, <1>3 DEF Holders, HoldersOf

(* The place findAndRemovePreservedHandle finds.                           *)
LEMMA FoundPlace ==
  ASSUME CountTypes, NEW c \in Conns, NEW n, PreservedAs(c, n) # {}
  PROVE  /\ Found(c, n) \in 1..Len(preserved[c])
         /\ preserved[c][Found(c, n)] \in Pairs /\ preserved[c][Found(c, n)].name = n
<1>1. /\ DOMAIN preserved[c] = 1..Len(preserved[c]) /\ Len(preserved[c]) \in Nat
      /\ \A i \in 1..Len(preserved[c]) : preserved[c][i] \in Pairs
  BY ListTyped DEF CountTypes
<1>2. PreservedAs(c, n) \in SUBSET Nat BY <1>1 DEF PreservedAs
<1>3. \E i \in PreservedAs(c, n) : \A j \in PreservedAs(c, n) : i <= j BY <1>2, MinNat
<1>4. Found(c, n) \in PreservedAs(c, n) BY <1>3 DEF Found
<1>5. QED BY <1>1, <1>4 DEF PreservedAs

(* The steps that change a handler or a list.                              *)
LEMMA CountOpen ==
  ASSUME IsFiniteSet(Handlers), IsFiniteSet(Conns), CountTypes, Counted,
         NEW c \in Conns, NEW h \in Handlers, NEW n \in Names, open(c, h, n)
  PROVE  /\ CountTypes' /\ Counted' /\ UNCHANGED allocated
         /\ \A f \in Files, k \in Kinds :
              HoldersOf(handlers, preserved, f, k)' = HoldersOf(handlers, preserved, f, k)
<1>1. /\ handlers[h] = Closed /\ UNCHANGED <<tables, created, allocated, locks, frm, ddl>>
      /\ handlers \in HandlerTable /\ preserved \in PairLists
      /\ \A g \in Handlers : handlers[g].name = NoName => handlers[g] = Closed
  BY DEF open, db2Vars, CountTypes
<1>3. CASE PreservedAs(c, n) # {}
  <2> DEFINE i == Found(c, n)
             r == [name |-> n, data |-> preserved[c][i].file, index |-> NoFile]
  <2>1. /\ i \in 1..Len(preserved[c]) /\ preserved[c][i] \in Pairs /\ preserved[c][i].name = n
    BY <1>3, FoundPlace
  <2>2. r \in HandlerStates BY <2>1 DEF HandlerStates, Pairs
  <2>3. /\ handlers' = [handlers EXCEPT ![h] = r] /\ UNCHANGED <<defn, use_count>>
        /\ preserved' = [preserved EXCEPT ![c] = Without(preserved[c], i)]
    BY <1>1, <1>3 DEF open, removed, shareVars, HandlerTable, HandlerStates, Closed
  <2> HIDE DEF i, r
  <2>4. handlers' \in HandlerTable /\ But(Handlers, handlers, handlers', h) /\ handlers'[h] = r
    BY <1>1, <2>2, <2>3 DEF HandlerTable, But
  <2>5. /\ preserved' \in PairLists /\ But(Conns, preserved, preserved', c)
        /\ preserved'[c] = Without(preserved[c], i)
    BY <1>1, <2>1, <2>3, RemoveTyped
  <2>6. /\ \A m \in Names : UsersOf(handlers', preserved', m)
             = UsersOf(handlers', preserved, m) - Same(preserved[c][i].name, m)
        /\ \A f \in Files :
             /\ HoldersOf(handlers', preserved', f, "index") = HoldersOf(handlers', preserved, f, "index")
             /\ HoldersOf(handlers', preserved', f, "data")
                = HoldersOf(handlers', preserved, f, "data") - Same(preserved[c][i].file, f)
    BY <1>1, <2>1, <2>5, CountRemove, ZenonT(60)
  <2>7. /\ \A m \in Names : UsersOf(handlers', preserved, m)
             = UsersOf(handlers, preserved, m) + Same(handlers'[h].name, m) - Same(handlers[h].name, m)
        /\ \A f \in Files, k \in Kinds : HoldersOf(handlers', preserved, f, k)
             = HoldersOf(handlers, preserved, f, k) + Same(handlers'[h][k], f) - Same(handlers[h][k], f)
    BY <1>1, <2>4, CountHandler
  <2>8. ASSUME NEW m \in Names
        PROVE  UsersOf(handlers', preserved', m) = UsersOf(handlers, preserved, m)
    <3>1. Same(handlers[h].name, m) = 0 BY <1>1, ShareAssumption DEF Member, Same, Closed
    <3>2. Same(handlers'[h].name, m) = Same(preserved[c][i].name, m) BY <2>1, <2>4 DEF r
    <3>3. Same(preserved[c][i].name, m) \in Int BY DEF Member, Same
    <3>4. UsersOf(handlers', preserved', m) = UsersOf(handlers', preserved, m) - Same(preserved[c][i].name, m)
      BY <2>6
    <3>5. UsersOf(handlers', preserved, m)
          = UsersOf(handlers, preserved, m) + Same(preserved[c][i].name, m) - 0
      BY <2>7, <3>1, <3>2
    <3>6. UsersOf(handlers', preserved, m) \in Int /\ UsersOf(handlers, preserved, m) \in Int
      BY CountsAreNat
    <3>7. QED BY <3>3, <3>4, <3>5, <3>6
  <2>9. ASSUME NEW f \in Files, NEW k \in Kinds
        PROVE  HoldersOf(handlers', preserved', f, k) = HoldersOf(handlers, preserved, f, k)
    <3>1. Same(handlers[h][k], f) = 0
      BY <1>1, ShareAssumption DEF Same, Closed, Files, NoFile, Kinds
    <3>2. CASE k = "data"
      <4>1. Same(handlers'[h][k], f) = Same(preserved[c][i].file, f) BY <2>4, <3>2 DEF r
      <4>2. Same(preserved[c][i].file, f) \in Int BY DEF Same
      <4>3. QED BY <2>6, <2>7, <3>1, <3>2, <4>1, <4>2, CountsAreNat
    <3>3. CASE k = "index"
      <4>1. Same(handlers'[h][k], f) = 0 BY <2>4, <3>3, ShareAssumption DEF r, Same, Files, NoFile
      <4>2. QED BY <2>6, <2>7, <3>1, <3>3, <4>1, CountsAreNat
    <3>4. QED BY <3>2, <3>3 DEF Kinds
  <2>10. \A g \in Handlers : handlers'[g].name = NoName => handlers'[g] = Closed
    BY <1>1, <2>4, ShareAssumption DEF But, r
  <2>11. CountTypes' BY <1>1, <2>3, <2>4, <2>5, <2>10 DEF CountTypes
  <2>12. QED BY <1>1, <2>3, <2>8, <2>9, <2>11 DEF Counted
<1>4. CASE PreservedAs(c, n) = {}
  <2> DEFINE r == [name |-> n, data |-> NoFile, index |-> NoFile]
  <2>1. r \in HandlerStates BY DEF HandlerStates
  <2>2. handlers' = [handlers EXCEPT ![h] = r] /\ UNCHANGED preserved
    BY <1>1, <1>4 DEF open, HandlerTable, HandlerStates, Closed
  <2> HIDE DEF r
  <2>3. handlers' \in HandlerTable /\ But(Handlers, handlers, handlers', h) /\ handlers'[h] = r
    BY <1>1, <2>1, <2>2 DEF HandlerTable, But
  <2>4. /\ \A m \in Names : UsersOf(handlers', preserved, m)
             = UsersOf(handlers, preserved, m) + Same(handlers'[h].name, m) - Same(handlers[h].name, m)
        /\ \A f \in Files, k \in Kinds : HoldersOf(handlers', preserved, f, k)
             = HoldersOf(handlers, preserved, f, k) + Same(handlers'[h][k], f) - Same(handlers[h][k], f)
    BY <1>1, <2>3, CountHandler
  <2>5. ASSUME NEW m \in Names
        PROVE  UsersOf(handlers', preserved, m)
               = IF m = n THEN UsersOf(handlers, preserved, m) + 1 ELSE UsersOf(handlers, preserved, m)
    <3>1. Same(handlers[h].name, m) = 0 BY <1>1, ShareAssumption DEF Member, Same, Closed
    <3>2. Same(handlers'[h].name, m) = IF m = n THEN 1 ELSE 0 BY <2>3 DEF Member, Same, r
    <3>3. QED BY <2>4, <3>1, <3>2, CountsAreNat
  <2>6. ASSUME NEW f \in Files, NEW k \in Kinds
        PROVE  HoldersOf(handlers', preserved, f, k) = HoldersOf(handlers, preserved, f, k)
    <3>1. Same(handlers[h][k], f) = 0 /\ Same(handlers'[h][k], f) = 0
      BY <1>1, <2>3, ShareAssumption DEF Member, Same, Closed, Files, NoFile, Kinds, r
    <3>2. QED BY <2>4, <3>1, CountsAreNat
  <2>7. \A g \in Handlers : handlers'[g].name = NoName => handlers'[g] = Closed
    BY <1>1, <2>3, ShareAssumption DEF But, r
  <2>8. /\ use_count' = [use_count EXCEPT ![n] = use_count[n] + 1]
        /\ defn' \in [Names -> Files \cup {NoFile}] /\ defn'[n] # NoFile
        /\ \A m \in Names : m # n => defn'[m] = defn[m]
    <3>1. CASE defn[n] # NoFile
      BY <1>4, <3>1 DEF open, get_share_Found, CountTypes
    <3>2. CASE defn[n] = NoFile
      <4>1. use_count[n] = 0 BY <3>2 DEF Counted
      <4>2. tables[n] \in Files \cup {NoFile} BY DEF CountTypes
      <4>3. tables[n] # NoFile /\ defn' = [defn EXCEPT ![n] = tables[n]]
            /\ use_count' = [use_count EXCEPT ![n] = 1]
        BY <1>4, <3>2 DEF open, initDB2Objects
      <4>4. QED BY <4>1, <4>2, <4>3 DEF CountTypes
    <3>3. QED BY <3>1, <3>2
  <2>9. CountTypes' BY <1>1, <2>2, <2>3, <2>7, <2>8 DEF CountTypes
  <2>10. Counted'
    <3>1. SUFFICES ASSUME NEW m \in Names
                   PROVE  /\ use_count'[m] = UsersOf(handlers', preserved, m)
                          /\ defn'[m] = NoFile <=> use_count'[m] = 0
      BY <2>2 DEF Counted
    <3>2. /\ use_count[m] \in Nat /\ use_count \in [Names -> Nat]
          /\ use_count[m] = UsersOf(handlers, preserved, m)
          /\ defn[m] = NoFile <=> use_count[m] = 0
      BY DEF CountTypes, Counted
    <3>3. QED BY <2>5, <2>8, <3>2
  <2>11. QED BY <1>1, <2>2, <2>6, <2>9, <2>10
<1>5. QED BY <1>3, <1>4

(* Rows are changed through data files only, where ChangeKinds says so.    *)
LocksOnData == locks \in [Conns -> SUBSET (Files \X {"data"})]

(* A name that an open handler or a preserved handle has is used.          *)
LEMMA UsedByHandler ==
  ASSUME IsFiniteSet(Handlers), IsFiniteSet(Conns), CountTypes, Counted, NEW h \in Handlers,
         handlers[h] # Closed
  PROVE  /\ handlers[h].name \in Names /\ use_count[handlers[h].name] # 0
         /\ defn[handlers[h].name] \in Files
<1> DEFINE n == handlers[h].name
<1>1. handlers[h] \in HandlerStates /\ n \in Names
  BY DEF CountTypes, HandlerTable, HandlerStates
<1>2. h \in HandlersIn(handlers, OnName(n)) BY <1>1 DEF HandlersIn, OnName
<1>3. IsFiniteSet(HandlersIn(handlers, OnName(n)))
  <2>1. HandlersIn(handlers, OnName(n)) \subseteq Handlers BY DEF HandlersIn
  <2>2. QED BY <2>1, FS_Subset
<1>4. /\ Cardinality(HandlersIn(handlers, OnName(n))) \in Nat
      /\ Cardinality(HandlersIn(handlers, OnName(n))) # 0
  BY <1>2, <1>3, FS_CardinalityType, FS_EmptySet
<1>5. Cardinality(PairsIn(preserved, NamedPairs(n))) \in Nat BY PairsFinite
<1>6. UsersOf(handlers, preserved, n) # 0 BY <1>4, <1>5 DEF UsersOf
<1>7. use_count[n] # 0 /\ defn[n] # NoFile BY <1>1, <1>6 DEF Counted
<1>8. QED BY <1>1, <1>7 DEF CountTypes

(* free_share, when k uses of the share of n have gone.                    *)
LEMMA FreeShare ==
  ASSUME CountTypes, Counted, NEW n \in Names, NEW k \in Nat, free_share(n, k),
         \A m \in Names :
           /\ UsersOf(handlers, preserved, m)' \in Nat
           /\ UsersOf(handlers, preserved, m)'
              = IF m = n THEN UsersOf(handlers, preserved, m) - k ELSE UsersOf(handlers, preserved, m)
  PROVE  Counted' /\ use_count' \in [Names -> Nat] /\ defn' \in [Names -> Files \cup {NoFile}]
<1>1. /\ use_count' = [use_count EXCEPT ![n] = use_count[n] - k]
      /\ defn' = [defn EXCEPT ![n] = IF use_count[n] = k THEN NoFile ELSE defn[n]]
      /\ use_count \in [Names -> Nat] /\ defn \in [Names -> Files \cup {NoFile}]
  BY DEF free_share, CountTypes
<1>2. ASSUME NEW m \in Names
      PROVE  /\ use_count'[m] = UsersOf(handlers, preserved, m)' /\ use_count'[m] \in Nat
             /\ defn'[m] = NoFile <=> use_count'[m] = 0
  <2>1. use_count[m] = UsersOf(handlers, preserved, m) /\ (defn[m] = NoFile <=> use_count[m] = 0)
    BY DEF Counted
  <2>2. use_count'[m] = IF m = n THEN use_count[m] - k ELSE use_count[m] BY <1>1
  <2>3. use_count'[m] = UsersOf(handlers, preserved, m)' /\ use_count'[m] \in Nat BY <2>1, <2>2
  <2>4. use_count[m] \in Nat BY <1>1
  <2>5. QED BY <1>1, <2>1, <2>2, <2>3, <2>4
<1>3. QED BY <1>1, <1>2 DEF Counted

(* close: the handler's use of the share goes to the preserved handle, or is *)
(* freed; what DB2 keeps allocated is preserved, as only data files are locked. *)
LEMMA CountClose ==
  ASSUME IsFiniteSet(Handlers), IsFiniteSet(Conns), CountTypes, Counted,
         NEW c \in Conns, NEW h \in Handlers, close(c, h)
  PROVE  /\ CountTypes' /\ Counted'
         /\ Accounted /\ LocksOnData => Accounted'
<1> DEFINE r == handlers[h]
           e == pair(h)
<1>1. /\ r \in HandlerStates /\ r # Closed /\ handlers \in HandlerTable /\ preserved \in PairLists
      /\ r.name \in Names /\ UNCHANGED tables
  BY DEF close, CountTypes, HandlerTable, HandlerStates
<1>2. /\ allocated \in [Files -> [Kinds -> Int]] /\ allocated' \in [Files -> [Kinds -> Int]]
      /\ \A f \in Files, k \in Kinds : allocated'[f][k]
           = IF f = r[k] /\ ~IsLocked(f, k) THEN allocated[f][k] - 1 ELSE allocated[f][k]
  BY DEF close, givenBack, CountTypes
<1>3. handlers' \in HandlerTable /\ But(Handlers, handlers, handlers', h) /\ handlers'[h] = Closed
  <2>1. Closed \in HandlerStates BY DEF Closed, HandlerStates
  <2>2. handlers' = [handlers EXCEPT ![h] = Closed] BY DEF close
  <2>3. QED BY <1>1, <2>1, <2>2 DEF HandlerTable, But
<1>4. \A g \in Handlers : handlers'[g].name = NoName => handlers'[g] = Closed
  BY <1>3 DEF CountTypes, But
<1>5. ASSUME NEW pr
      PROVE  /\ \A m \in Names : UsersOf(handlers', pr, m)
                  = UsersOf(handlers, pr, m) - Same(r.name, m)
             /\ \A f \in Files, k \in Kinds : HoldersOf(handlers', pr, f, k)
                  = HoldersOf(handlers, pr, f, k) - Same(r[k], f)
  <2>1. /\ \A m \in Names : UsersOf(handlers', pr, m)
             = UsersOf(handlers, pr, m) + Same(handlers'[h].name, m) - Same(handlers[h].name, m)
        /\ \A f \in Files, k \in Kinds : HoldersOf(handlers', pr, f, k)
             = HoldersOf(handlers, pr, f, k) + Same(handlers'[h][k], f) - Same(handlers[h][k], f)
    BY <1>1, <1>3, CountHandler
  <2>2. \A m \in Names : Same(handlers'[h].name, m) = 0
    BY <1>3, ShareAssumption DEF Same, Closed
  <2>3. \A f \in Files, k \in Kinds : Same(handlers'[h][k], f) = 0
    BY <1>3, ShareAssumption DEF Same, Closed, Files, NoFile, Kinds
  <2>4. /\ \A m : UsersOf(handlers, pr, m) \in Int /\ \A f, k : HoldersOf(handlers, pr, f, k) \in Int
        /\ \A m : Same(r.name, m) \in Int /\ \A f, k : Same(r[k], f) \in Int
    <3>1. \A x, y : Same(x, y) \in Int BY DEF Same
    <3>2. QED BY <3>1, CountsAreNat
  <2>5. ASSUME NEW m \in Names
        PROVE  UsersOf(handlers', pr, m) = UsersOf(handlers, pr, m) - Same(r.name, m)
    <3>1. UsersOf(handlers', pr, m) = UsersOf(handlers, pr, m) + 0 - Same(r.name, m) BY <2>1, <2>2
    <3>2. QED BY <2>4, <3>1
  <2>6. ASSUME NEW f \in Files, NEW k \in Kinds
        PROVE  HoldersOf(handlers', pr, f, k) = HoldersOf(handlers, pr, f, k) - Same(r[k], f)
    <3>1. HoldersOf(handlers', pr, f, k) = HoldersOf(handlers, pr, f, k) + 0 - Same(r[k], f)
      BY <2>1, <2>3
    <3>2. HoldersOf(handlers, pr, f, k) \in Int /\ Same(r[k], f) \in Int BY <2>4
    <3>3. QED BY <3>1, <3>2
  <2>7. QED BY <2>5, <2>6
<1>6. CASE preserveShare(h)
  <2>1. /\ r.data \in Files /\ IsLocked(r.data, "data") /\ Len(preserved[c]) < MaxPreserved
        /\ UNCHANGED <<defn, use_count>> /\ preserved' = [preserved EXCEPT ![c] = <<e>> \o preserved[c]]
    BY <1>1, <1>6 DEF close, preserveShare, preservedAfterClose, shareVars, HandlerStates, CountTypes,
                      PairLists
  <2>2. e \in Pairs /\ e.name = r.name /\ e.file = r.data BY <1>1, <2>1 DEF pair, Pairs
  <2> HIDE DEF e
  <2>3. /\ preserved' \in PairLists /\ But(Conns, preserved, preserved', c)
        /\ preserved'[c] = <<e>> \o preserved[c] /\ Len(preserved[c]) < MaxPreserved
    BY <1>1, <2>1, <2>2, PrependTyped
  <2>4. /\ \A m \in Names : UsersOf(handlers', preserved', m)
             = UsersOf(handlers', preserved, m) + Same(e.name, m)
        /\ \A f \in Files :
             /\ HoldersOf(handlers', preserved', f, "index") = HoldersOf(handlers', preserved, f, "index")
             /\ HoldersOf(handlers', preserved', f, "data")
                = HoldersOf(handlers', preserved, f, "data") + Same(e.file, f)
    BY <1>1, <2>2, <2>3, CountPrepend, ZenonT(60)
  <2>5. ASSUME NEW m \in Names
        PROVE  UsersOf(handlers', preserved', m) = UsersOf(handlers, preserved, m)
    <3>1. /\ UsersOf(handlers', preserved', m) = UsersOf(handlers', preserved, m) + Same(r.name, m)
          /\ UsersOf(handlers', preserved, m) = UsersOf(handlers, preserved, m) - Same(r.name, m)
      BY <1>5, <2>2, <2>4
    <3>2. UsersOf(handlers', preserved, m) \in Int /\ UsersOf(handlers, preserved, m) \in Int
      BY CountsAreNat
    <3>3. Same(r.name, m) \in Int BY DEF Same
    <3>4. QED BY <3>1, <3>2, <3>3
  <2>6. CountTypes' BY <1>1, <1>2, <1>3, <1>4, <2>1, <2>3 DEF CountTypes
  <2>7. Counted' BY <2>1, <2>5 DEF Counted
  <2>8. ASSUME Accounted, LocksOnData PROVE Accounted'
    <3>1. ASSUME NEW f \in Files
          PROVE  allocated'[f]["data"] = HoldersOf(handlers', preserved', f, "data")
      <4>1. allocated'[f]["data"] = allocated[f]["data"] BY <1>2, <2>1 DEF Kinds
      <4>2. /\ HoldersOf(handlers', preserved', f, "data")
               = HoldersOf(handlers', preserved, f, "data") + Same(r.data, f)
            /\ HoldersOf(handlers', preserved, f, "data")
               = HoldersOf(handlers, preserved, f, "data") - Same(r.data, f)
        BY <1>5, <2>2, <2>4 DEF Kinds
      <4>3. /\ HoldersOf(handlers', preserved, f, "data") \in Int
            /\ HoldersOf(handlers, preserved, f, "data") \in Int
        BY CountsAreNat
      <4>4. Same(r.data, f) \in Int BY DEF Same
      <4>5. allocated[f]["data"] = HoldersOf(handlers, preserved, f, "data")
        BY <2>8 DEF Accounted, Kinds
      <4>6. QED BY <4>1, <4>2, <4>3, <4>4, <4>5
    <3>2. ASSUME NEW f \in Files
          PROVE  allocated'[f]["index"] = HoldersOf(handlers', preserved', f, "index")
      <4>1. ~IsLocked(f, "index") BY <2>8 DEF LocksOnData, IsLocked
      <4>2. allocated'[f]["index"] = allocated[f]["index"] - Same(r.index, f)
        BY <1>2, <4>1 DEF Kinds, Same
      <4>3. HoldersOf(handlers', preserved', f, "index")
            = HoldersOf(handlers, preserved, f, "index") - Same(r.index, f)
        BY <1>5, <2>4 DEF Kinds
      <4>4. QED BY <2>8, <4>2, <4>3 DEF Accounted, Kinds
    <3>3. QED BY <3>1, <3>2 DEF Accounted, Kinds
  <2>9. QED BY <2>6, <2>7, <2>8
<1>7. CASE ~preserveShare(h)
  <2>1. UNCHANGED preserved /\ free_share(r.name, 1)
    BY <1>7 DEF close, preservedAfterClose
  <2>2. \A m \in Names :
          /\ UsersOf(handlers, preserved, m)' \in Nat
          /\ UsersOf(handlers, preserved, m)'
             = IF m = r.name THEN UsersOf(handlers, preserved, m) - 1 ELSE UsersOf(handlers, preserved, m)
    <3>1. ASSUME NEW m \in Names
          PROVE  /\ UsersOf(handlers', preserved, m) \in Nat
                 /\ UsersOf(handlers', preserved, m)
                    = IF m = r.name THEN UsersOf(handlers, preserved, m) - 1
                                    ELSE UsersOf(handlers, preserved, m)
      <4>1. UsersOf(handlers', preserved, m) = UsersOf(handlers, preserved, m) - Same(r.name, m)
        BY <1>5
      <4>2. UsersOf(handlers, preserved, m) \in Nat /\ UsersOf(handlers', preserved, m) \in Nat
        BY CountsAreNat
      <4>3. Same(r.name, m) = IF m = r.name THEN 1 ELSE 0 BY DEF Same
      <4>4. QED BY <4>1, <4>2, <4>3
    <3>2. QED BY <2>1, <3>1
  <2>3. Counted' /\ use_count' \in [Names -> Nat] /\ defn' \in [Names -> Files \cup {NoFile}]
    BY <1>1, <2>1, <2>2, FreeShare
  <2>4. CountTypes' BY <1>1, <1>2, <1>3, <1>4, <2>1, <2>3 DEF CountTypes
  <2>5. ASSUME Accounted, LocksOnData PROVE Accounted'
    <3>1. ASSUME NEW f \in Files, NEW k \in Kinds, f = r[k] PROVE ~IsLocked(f, k)
      <4>1. CASE k = "data" BY <1>7, <3>1, <4>1, ShareAssumption DEF preserveShare, Files, NoFile
      <4>2. CASE k = "index" BY <2>5, <4>2 DEF LocksOnData, IsLocked
      <4>3. QED BY <4>1, <4>2 DEF Kinds
    <3>2. ASSUME NEW f \in Files, NEW k \in Kinds
          PROVE  allocated'[f][k] = HoldersOf(handlers', preserved', f, k)
      <4>1. allocated'[f][k] = allocated[f][k] - Same(r[k], f) BY <1>2, <3>1 DEF Same
      <4>2. HoldersOf(handlers', preserved, f, k) = HoldersOf(handlers, preserved, f, k) - Same(r[k], f)
        BY <1>5
      <4>3. QED BY <2>1, <2>5, <4>1, <4>2 DEF Accounted
    <3>3. QED BY <3>2 DEF Accounted
  <2>6. QED BY <2>3, <2>4, <2>5
<1>8. QED BY <1>6, <1>7

(* use: a file is allocated for the handler when it has none.              *)
LEMMA CountUse ==
  ASSUME IsFiniteSet(Handlers), IsFiniteSet(Conns), CountTypes, Counted,
         NEW c \in Conns, NEW h \in Handlers, NEW k \in Kinds, use(c, h, k)
  PROVE  CountTypes' /\ Counted' /\ (Accounted => Accounted')
<1> DEFINE r == handlers[h]
           f0 == fileUsed(h, k)
           r2 == [r EXCEPT ![k] = f0]
<1>1. /\ r \in HandlerStates /\ r # Closed /\ r.name # NoName /\ handlers \in HandlerTable
      /\ preserved \in PairLists
  BY DEF use, CountTypes, HandlerTable
<1>2. f0 \in Files /\ (r[k] # NoFile => f0 = r[k])
  <2>1. CASE r[k] = NoFile
    <3>1. handlers[h] # Closed BY <1>1
    <3>2. defn[handlers[h].name] \in Files BY <3>1, UsedByHandler
    <3>3. QED BY <2>1, <3>2 DEF fileUsed
  <2>2. CASE r[k] # NoFile BY <1>1, <2>2 DEF fileUsed, HandlerStates, Kinds
  <2>3. QED BY <2>1, <2>2
<1>3. allocated' \in [Files -> [Kinds -> Int]]
      /\ \A f \in Files, kk \in Kinds : allocated'[f][kk]
           = IF f = f0 /\ kk = k /\ r[k] = NoFile THEN allocated[f][kk] + 1 ELSE allocated[f][kk]
  BY <1>2 DEF use, CountTypes
<1>4. /\ UNCHANGED <<tables, defn, use_count, preserved>>
      /\ handlers' = [handlers EXCEPT ![h] = r2]
  BY DEF use, shareVars
<1>5. /\ r2 \in HandlerStates /\ r2.name = r.name
      /\ \A kk \in Kinds : r2[kk] = IF kk = k THEN f0 ELSE r[kk]
  BY <1>1, <1>2 DEF HandlerStates, Kinds
<1> HIDE DEF f0, r2
<1>6. handlers' \in HandlerTable /\ But(Handlers, handlers, handlers', h) /\ handlers'[h] = r2
  BY <1>1, <1>4, <1>5 DEF HandlerTable, But
<1>7. /\ \A m \in Names : UsersOf(handlers', preserved, m)
           = UsersOf(handlers, preserved, m) + Same(handlers'[h].name, m) - Same(handlers[h].name, m)
      /\ \A f \in Files, kk \in Kinds : HoldersOf(handlers', preserved, f, kk)
           = HoldersOf(handlers, preserved, f, kk) + Same(handlers'[h][kk], f) - Same(handlers[h][kk], f)
  BY <1>1, <1>6, CountHandler
<1>8. \A x, y : Same(x, y) \in Int BY DEF Same
<1>9. ASSUME NEW m \in Names
      PROVE  UsersOf(handlers', preserved, m) = UsersOf(handlers, preserved, m)
  <2>1. UsersOf(handlers', preserved, m)
        = UsersOf(handlers, preserved, m) + Same(r.name, m) - Same(r.name, m)
    BY <1>5, <1>6, <1>7
  <2>2. UsersOf(handlers, preserved, m) \in Int /\ Same(r.name, m) \in Int BY <1>8, CountsAreNat
  <2>3. QED BY <2>1, <2>2
<1>10. \A g \in Handlers : handlers'[g].name = NoName => handlers'[g] = Closed
  BY <1>1, <1>5, <1>6 DEF CountTypes, But
<1>11. CountTypes' BY <1>3, <1>4, <1>6, <1>10 DEF CountTypes
<1>12. Counted' BY <1>4, <1>9 DEF Counted
<1>13. ASSUME Accounted PROVE Accounted'
  <2>1. ASSUME NEW f \in Files, NEW kk \in Kinds
        PROVE  allocated'[f][kk] = HoldersOf(handlers', preserved, f, kk)
    <3>1. allocated[f][kk] = HoldersOf(handlers, preserved, f, kk) BY <1>13 DEF Accounted
    <3>2. HoldersOf(handlers', preserved, f, kk)
          = HoldersOf(handlers, preserved, f, kk) + Same(r2[kk], f) - Same(r[kk], f)
      BY <1>6, <1>7
    <3>3. HoldersOf(handlers, preserved, f, kk) \in Int BY CountsAreNat
    <3>4. allocated'[f][kk]
          = IF f = f0 /\ kk = k /\ r[k] = NoFile THEN allocated[f][kk] + 1 ELSE allocated[f][kk]
      BY <1>3
    <3>5. CASE kk = k /\ r[k] = NoFile
      <4>1. Same(r[kk], f) = 0 BY <3>5, ShareAssumption DEF Same, Files, NoFile
      <4>2. Same(r2[kk], f) = IF f = f0 THEN 1 ELSE 0 BY <1>5, <3>5 DEF Same
      <4>3. QED BY <3>1, <3>2, <3>3, <3>4, <3>5, <4>1, <4>2
    <3>6. CASE ~(kk = k /\ r[k] = NoFile)
      <4>1. r2[kk] = r[kk] BY <1>2, <1>5, <3>6
      <4>2. Same(r[kk], f) \in Int BY <1>8
      <4>3. QED BY <3>1, <3>2, <3>3, <3>4, <3>6, <4>1, <4>2
    <3>7. QED BY <3>5, <3>6
  <2>2. QED BY <1>4, <2>1 DEF Accounted
<1>14. QED BY <1>11, <1>12, <1>13

(* A connection that has nothing preserved ends.                           *)
LEMMA CountEnd ==
  ASSUME CountTypes, Counted, EndsPreserving = FALSE, NEW c \in Conns, close_connection(c)
  PROVE  CountTypes' /\ Counted' /\ (Accounted => Accounted')
<1>1. /\ preserved[c] = <<>> /\ preserved' = [preserved EXCEPT ![c] = <<>>]
      /\ UNCHANGED <<tables, defn, use_count, handlers>>
  BY DEF close_connection, shareVars
<1>2. preserved' = preserved BY <1>1 DEF CountTypes, PairLists
<1>3. \A f \in Files : Cardinality(PreservedOn(c, f)) = 0
  <2>1. \A f \in Files : PreservedOn(c, f) = {} BY <1>1 DEF PreservedOn
  <2>2. QED BY <2>1, FS_EmptySet
<1>4. /\ allocated' \in [Files -> [Kinds -> Int]]
      /\ \A f \in Files, k \in Kinds : allocated'[f][k] = allocated[f][k]
  BY <1>3 DEF close_connection, CountTypes, Kinds
<1>5. QED BY <1>1, <1>2, <1>4 DEF CountTypes, Counted, Accounted

(* delete_table gives back the handles it finds, with their uses.          *)
LEMMA CountDeleteDone ==
  ASSUME IsFiniteSet(Handlers), IsFiniteSet(Conns), CountTypes, Counted, FidInv,
         NEW c \in Conns, delete_table_Done(c)
  PROVE  CountTypes' /\ Counted' /\ (Accounted => Accounted')
<1> DEFINE n == ddl[c].name
           gone == PreservedAs(c, n)
<1>1. n \in Names BY DEF delete_table_Done, FidInv, FidTypes, DdlInv, DdlOf
<1>2. UNCHANGED <<tables, handlers>> /\ preserved \in PairLists /\ handlers \in HandlerTable
  BY DEF delete_table_Done, CountTypes
<1>3. gone = PlacesOf(preserved[c], n) /\ \A f \in Files : PreservedOn(c, f) = PlacesOn(preserved[c], f)
  BY DEF PreservedAs, PreservedOn, PlacesOf, PlacesOn
<1>4. \A f \in Files : Cardinality(gone \cap PreservedOn(c, f)) \in Nat
                       /\ IsFiniteSet(gone)
  <2>1. IsFiniteSet(DOMAIN preserved[c])
    <3>1. DOMAIN preserved[c] = 1..Len(preserved[c]) /\ Len(preserved[c]) \in Nat BY <1>2, ListTyped
    <3>2. QED BY <3>1, FS_Interval
  <2>2. gone \subseteq DOMAIN preserved[c] BY DEF PreservedAs
  <2> HIDE DEF gone
  <2>3. \A f \in Files : gone \cap PreservedOn(c, f) \subseteq gone OBVIOUS
  <2>4. QED BY <2>1, <2>2, <2>3, FS_Subset, FS_CardinalityType
<1>5. /\ allocated' \in [Files -> [Kinds -> Int]]
      /\ \A f \in Files :
           /\ allocated'[f]["data"]
              = allocated[f]["data"] - Cardinality(gone \cap PreservedOn(c, f))
           /\ allocated'[f]["index"] = allocated[f]["index"]
  BY <1>4 DEF delete_table_Done, stillPreserved, CountTypes, Kinds
<1>6. CASE gone = {}
  <2>1. UNCHANGED <<preserved, defn, use_count>>
    BY <1>6 DEF delete_table_Done, stillPreserved, shareVars
  <2>2. \A f \in Files : Cardinality(gone \cap PreservedOn(c, f)) = 0 BY <1>6, FS_EmptySet
  <2>3. \A f \in Files, k \in Kinds : allocated'[f][k] = allocated[f][k]
    <3>1. \A f \in Files : allocated[f]["data"] \in Int BY DEF CountTypes, Kinds
    <3>2. ASSUME NEW f \in Files PROVE allocated'[f]["data"] = allocated[f]["data"]
      <4>1. allocated'[f]["data"] = allocated[f]["data"] - 0 BY <1>5, <2>2
      <4>2. QED BY <3>1, <4>1
    <3>3. QED BY <1>5, <3>2 DEF Kinds
  <2>4. QED BY <1>2, <1>5, <2>1, <2>3 DEF CountTypes, Counted, Accounted
<1>7. CASE gone # {}
  <2>1. /\ preserved' = [preserved EXCEPT ![c] = WithoutName(preserved[c], n)]
        /\ free_share(n, Cardinality(gone))
    BY <1>7 DEF delete_table_Done, stillPreserved
  <2> HIDE DEF gone, n
  <2>2. /\ preserved' \in PairLists /\ But(Conns, preserved, preserved', c)
        /\ preserved'[c] = WithoutName(preserved[c], n)
    <3>1. preserved' = [preserved EXCEPT ![c] = WithoutName(preserved[c], n)] BY <2>1
    <3>2. QED BY <1>2, <3>1, DropTyped
  <2>3. /\ \A m \in Names : UsersOf(handlers, preserved', m)
             = IF m = n THEN UsersOf(handlers, preserved, m) - Cardinality(gone)
                        ELSE UsersOf(handlers, preserved, m)
        /\ \A f \in Files :
             /\ HoldersOf(handlers, preserved', f, "index") = HoldersOf(handlers, preserved, f, "index")
             /\ HoldersOf(handlers, preserved', f, "data")
                = HoldersOf(handlers, preserved, f, "data") - Cardinality(gone \cap PreservedOn(c, f))
    <3>1. /\ \A m \in Names : m # n => UsersOf(handlers, preserved', m) = UsersOf(handlers, preserved, m)
          /\ UsersOf(handlers, preserved', n)
             = UsersOf(handlers, preserved, n) - Cardinality(PlacesOf(preserved[c], n))
          /\ \A f \in Files :
               /\ HoldersOf(handlers, preserved', f, "index") = HoldersOf(handlers, preserved, f, "index")
               /\ HoldersOf(handlers, preserved', f, "data")
                  = HoldersOf(handlers, preserved, f, "data")
                    - Cardinality(PlacesOf(preserved[c], n) \cap PlacesOn(preserved[c], f))
      <4>1. /\ preserved \in PairLists /\ preserved' \in PairLists
            /\ But(Conns, preserved, preserved', c) /\ preserved'[c] = WithoutName(preserved[c], n)
        BY <1>2, <2>2
      <4>2. QED BY <1>1, <4>1, CountDrop
    <3>2. QED BY <1>3, <3>1
  <2>4. Cardinality(gone) \in Nat
    <3>1. IsFiniteSet(PlacesOf(preserved[c], n)) BY <1>2, <2>2, CountDrop
    <3>2. QED BY <1>3, <3>1, FS_CardinalityType
  <2>5. \A m \in Names :
          /\ UsersOf(handlers, preserved, m)' \in Nat
          /\ UsersOf(handlers, preserved, m)'
             = IF m = n THEN UsersOf(handlers, preserved, m) - Cardinality(gone)
                        ELSE UsersOf(handlers, preserved, m)
    BY <1>2, <2>3, CountsAreNat
  <2>6. Counted' /\ use_count' \in [Names -> Nat] /\ defn' \in [Names -> Files \cup {NoFile}]
    BY <1>1, <2>1, <2>4, <2>5, FreeShare
  <2>7. CountTypes' BY <1>2, <1>5, <2>2, <2>6 DEF CountTypes
  <2>8. ASSUME Accounted PROVE Accounted'
    <3>1. ASSUME NEW f \in Files
          PROVE  /\ allocated'[f]["data"] = HoldersOf(handlers, preserved', f, "data")
                 /\ allocated'[f]["index"] = HoldersOf(handlers, preserved', f, "index")
      BY <1>5, <2>3, <2>8 DEF Accounted, Kinds
    <3>2. QED BY <1>2, <3>1 DEF Accounted, Kinds
  <2>9. QED BY <2>6, <2>7, <2>8
<1>8. QED BY <1>6, <1>7

(* Nothing is counted at the start, and again after a crash.               *)
NothingOpen ==
  /\ allocated = [f \in Files |-> [k \in Kinds |-> 0]]
  /\ defn = [n \in Names |-> NoFile] /\ use_count = [n \in Names |-> 0]
  /\ handlers = [h \in Handlers |-> Closed]
  /\ preserved = [c \in Conns |-> <<>>]

LEMMA CountNothing ==
  tables \in [Names -> Files \cup {NoFile}] /\ NothingOpen => CountTypes /\ Counted /\ Accounted
<1> SUFFICES ASSUME tables \in [Names -> Files \cup {NoFile}], NothingOpen
             PROVE  CountTypes /\ Counted /\ Accounted
  OBVIOUS
<1>1. /\ Closed \in HandlerStates /\ Closed.name = NoName
      /\ \A k \in Kinds : Closed[k] = NoFile
  BY DEF Closed, HandlerStates, Kinds
<1>2. handlers \in HandlerTable BY <1>1 DEF NothingOpen, HandlerTable
<1>3. preserved \in PairLists
  <2>1. <<>> \in Seq(Pairs) /\ Len(<<>>) = 0 BY EmptySeq
  <2>2. QED BY <2>1, ShareAssumption DEF NothingOpen, PairLists
<1>4. CountTypes BY <1>2, <1>3 DEF CountTypes, NothingOpen, NoFile
<1>5. \A V : PairsIn(preserved, V) = {}
  <2>1. \A c \in Conns : preserved[c] = <<>> BY DEF NothingOpen
  <2>2. ASSUME NEW V PROVE \A c \in Conns : At(preserved[c], V) = {} BY <2>1 DEF At
  <2>3. QED BY <2>2 DEF PairsIn
<1>6. Cardinality({}) = 0 BY FS_EmptySet
<1>7. ASSUME NEW n \in Names PROVE UsersOf(handlers, preserved, n) = 0
  <2>1. HandlersIn(handlers, OnName(n)) = {}
    BY <1>1, ShareAssumption DEF NothingOpen, HandlersIn, OnName
  <2>2. QED BY <1>5, <1>6, <2>1 DEF UsersOf
<1>8. ASSUME NEW f \in Files, NEW k \in Kinds PROVE HoldersOf(handlers, preserved, f, k) = 0
  <2>1. HandlersIn(handlers, OnFile(f, k)) = {}
    BY <1>1, ShareAssumption DEF NothingOpen, HandlersIn, OnFile, Files, NoFile
  <2>2. QED BY <1>5, <1>6, <2>1 DEF HoldersOf
<1>9. Counted BY <1>7 DEF Counted, NothingOpen
<1>10. Accounted BY <1>8 DEF Accounted, NothingOpen
<1>11. QED BY <1>4, <1>9, <1>10

(* Nothing that is counted changes.                                        *)
LEMMA CountSame ==
  ASSUME CountTypes, Counted, tables' \in [Names -> Files \cup {NoFile}],
         UNCHANGED <<allocated, defn, use_count, handlers, preserved>>
  PROVE  CountTypes' /\ Counted' /\ (Accounted => Accounted')
BY DEF CountTypes, Counted, Accounted

LEMMA CountInit == Init => CountTypes /\ Counted /\ Accounted /\ LocksOnData
<1> SUFFICES ASSUME Init PROVE CountTypes /\ Counted /\ Accounted /\ LocksOnData OBVIOUS
<1>1. NothingOpen BY DEF Init, NothingOpen
<1>2. tables \in [Names -> Files \cup {NoFile}] BY DEF Init
<1>3. LocksOnData BY DEF Init, LocksOnData
<1>4. QED BY <1>1, <1>2, <1>3, CountNothing

(* The steps of definitions that count nothing.                            *)
LEMMA CountDefine ==
  ASSUME CountTypes, Counted, FidInv, NEW c \in Conns,
         \/ \E n \in Names : create(c, n) \/ delete_table(c, n)
         \/ create_Described(c) \/ create_Failed(c) \/ rename_table_Done(c)
         \/ \E n, m \in Names : rename_table(c, n, m)
  PROVE  CountTypes' /\ Counted' /\ (Accounted => Accounted') /\ UNCHANGED locks
<1>1. UNCHANGED <<allocated, defn, use_count, handlers, preserved, locks>>
  BY DEF create, delete_table, create_Described, create_Failed, rename_table_Done, rename_table,
         db2Vars, shareVars
<1>2. tables \in [Names -> Files \cup {NoFile}] BY DEF CountTypes
<1>3. created + 1 \in Nat /\ 1 <= created + 1 BY DEF FidInv, FidTypes
<1>4. ASSUME NEW n \in Names, create(c, n) PROVE tables' \in [Names -> Files \cup {NoFile}]
  <2>1. created + 1 \in Files BY <1>3, <1>4, ShareAssumption DEF create, Files, FidInv, FidTypes
  <2>2. QED BY <1>2, <1>4, <2>1 DEF create
<1>5. ASSUME NEW n \in Names, delete_table(c, n) PROVE tables' \in [Names -> Files \cup {NoFile}]
  BY <1>2, <1>5 DEF delete_table
<1>6. ASSUME create_Described(c) \/ rename_table_Done(c)
      PROVE  tables' \in [Names -> Files \cup {NoFile}]
  BY <1>2, <1>6 DEF create_Described, rename_table_Done, db2Vars
<1>7. ASSUME create_Failed(c) PROVE tables' \in [Names -> Files \cup {NoFile}]
  BY <1>2, <1>7 DEF create_Failed
<1>8. ASSUME NEW n \in Names, NEW m \in Names, rename_table(c, n, m)
      PROVE  tables' \in [Names -> Files \cup {NoFile}]
  BY <1>2, <1>8 DEF rename_table
<1>9. tables' \in [Names -> Files \cup {NoFile}] BY <1>4, <1>5, <1>6, <1>7, <1>8
<1>10. QED BY <1>1, <1>9, CountSame

LEMMA CountCrash ==
  (tables \in [Names -> Files \cup {NoFile}] /\ NothingOpen)' => (CountTypes /\ Counted /\ Accounted)'
BY CountNothing, PTL

LEMMA CountNext ==
  ASSUME IsFiniteSet(Handlers), IsFiniteSet(Conns), EndsPreserving = FALSE,
         FidInv, CountTypes, Counted, [Next]_vars
  PROVE  /\ CountTypes' /\ Counted'
         /\ (Accounted /\ LocksOnData) => Accounted'
<1>1. CASE UNCHANGED vars
  BY <1>1, CountSame DEF vars, db2Vars, shareVars, CountTypes
<1>2. CASE crash
  <2>1. NothingOpen' BY <1>2 DEF crash, NothingOpen
  <2>2. tables' \in [Names -> Files \cup {NoFile}] BY <1>2 DEF crash, CountTypes
  <2>3. QED BY <2>1, <2>2, CountCrash
<1>3. ASSUME NEW c \in Conns, NEW h \in Handlers, NEW n \in Names, open(c, h, n)
      PROVE  CountTypes' /\ Counted' /\ (Accounted => Accounted')
  <2>1. /\ CountTypes' /\ Counted' /\ UNCHANGED allocated
        /\ \A f \in Files, k \in Kinds :
             HoldersOf(handlers, preserved, f, k)' = HoldersOf(handlers, preserved, f, k)
    BY <1>3, CountOpen
  <2>2. QED BY <2>1 DEF Accounted
<1>4. CASE \E c \in Conns, h \in Handlers : close(c, h) BY <1>4, CountClose
<1>5. CASE \E c \in Conns, h \in Handlers, k \in Kinds : use(c, h, k) BY <1>5, CountUse
<1>6. CASE \E c \in Conns : endTransaction(c)
  BY <1>6, CountSame DEF endTransaction, shareVars, CountTypes
<1>7. CASE \E c \in Conns : close_connection(c) BY <1>7, CountEnd
<1>8. CASE \E c \in Conns : delete_table_Done(c) BY <1>8, CountDeleteDone
<1>9. CASE \E c \in Conns :
             \/ \E n \in Names : create(c, n) \/ delete_table(c, n)
             \/ create_Described(c) \/ create_Failed(c) \/ rename_table_Done(c)
             \/ \E n, m \in Names : rename_table(c, n, m)
  BY <1>9, CountDefine
<1>10. QED BY <1>1, <1>2, <1>3, <1>4, <1>5, <1>6, <1>7, <1>8, <1>9 DEF Next

(* Rows are changed through data files only.                               *)
LEMMA LocksNext ==
  ASSUME IsFiniteSet(Handlers), IsFiniteSet(Conns), ChangeKinds \subseteq {"data"},
         CountTypes, Counted, LocksOnData, [Next]_vars
  PROVE  LocksOnData'
<1>1. CASE UNCHANGED locks BY <1>1 DEF LocksOnData
<1>2. CASE crash BY <1>2 DEF crash, LocksOnData
<1>3. ASSUME NEW c \in Conns, endTransaction(c) \/ close_connection(c) PROVE LocksOnData'
  BY <1>3 DEF endTransaction, close_connection, LocksOnData
<1>4. ASSUME NEW c \in Conns, NEW h \in Handlers, NEW k \in Kinds, use(c, h, k) PROVE LocksOnData'
  <2>1. CASE k \in ChangeKinds /\ locks' = [locks EXCEPT ![c] = @ \cup {<<fileUsed(h, k), k>>}]
    <3>1. fileUsed(h, k) \in Files
      <4>1. handlers[h] # Closed BY <1>4 DEF use
      <4>2. defn[handlers[h].name] \in Files BY <4>1, UsedByHandler
      <4>3. handlers[h][k] # NoFile => handlers[h][k] \in Files
        BY DEF CountTypes, HandlerTable, HandlerStates, Kinds
      <4>4. QED BY <4>2, <4>3 DEF fileUsed
    <3>2. k = "data" BY <2>1
    <3>3. QED BY <2>1, <3>1, <3>2 DEF LocksOnData
  <2>2. QED BY <1>1, <1>4, <2>1 DEF use
<1>5. CASE UNCHANGED vars \/ \E c \in Conns :
               \/ \E h \in Handlers : (\E n \in Names : open(c, h, n)) \/ close(c, h)
               \/ \E n \in Names : create(c, n) \/ delete_table(c, n)
               \/ create_Described(c) \/ create_Failed(c) \/ delete_table_Done(c)
               \/ rename_table_Done(c) \/ \E n, m \in Names : rename_table(c, n, m)
  <2>1. ASSUME NEW c \in Conns, NEW h \in Handlers, NEW n \in Names, open(c, h, n)
        PROVE  UNCHANGED locks
    BY <2>1 DEF open, db2Vars
  <2>2. ASSUME NEW c \in Conns, NEW h \in Handlers, close(c, h) PROVE UNCHANGED locks
    BY <2>2 DEF close, db2Vars
  <2>3. ASSUME NEW c \in Conns, NEW n \in Names, create(c, n) \/ delete_table(c, n)
        PROVE  UNCHANGED locks
    BY <2>3 DEF create, delete_table, db2Vars
  <2>4. ASSUME NEW c \in Conns, create_Described(c) \/ create_Failed(c) PROVE UNCHANGED locks
    BY <2>4 DEF create_Described, create_Failed, db2Vars
  <2>5. ASSUME NEW c \in Conns, delete_table_Done(c) \/ rename_table_Done(c)
        PROVE  UNCHANGED locks
    BY <2>5 DEF delete_table_Done, rename_table_Done, db2Vars
  <2>6. ASSUME NEW c \in Conns, NEW n \in Names, NEW m \in Names, rename_table(c, n, m)
        PROVE  UNCHANGED locks
    BY <2>6 DEF rename_table, db2Vars
  <2>7. CASE UNCHANGED vars BY <1>1, <2>7 DEF vars, db2Vars
  <2>8. QED BY <1>1, <1>5, <2>1, <2>2, <2>3, <2>4, <2>5, <2>6, <2>7
<1>6. QED BY <1>2, <1>3, <1>4, <1>5 DEF Next

(* A share is used by exactly the handlers that are open on its name and   *)
(* the handles that are preserved under it, and is in the hash as long as  *)
(* one is left (get_share, free_share, preserveShare, delete_table): for any *)
(* finitely many connections and handlers, any names, files, crashes and   *)
(* lengths of the lists, where connections end with nothing preserved.     *)
THEOREM UseCountAlwaysExact ==
  ASSUME IsFiniteSet(Handlers), IsFiniteSet(Conns), EndsPreserving = FALSE
  PROVE  Spec => []UseCountExact
<1>1. Init => FidInv /\ CountTypes /\ Counted BY FidInit, CountInit
<1>2. FidInv /\ CountTypes /\ Counted /\ [Next]_vars => (FidInv /\ CountTypes /\ Counted)'
  BY FidNext, CountNext
<1>3. CountTypes /\ Counted => UseCountExact BY UsersCounted DEF Counted, UseCountExact
<1>4. QED BY <1>1, <1>2, <1>3, PTL DEF Spec

(* No instance is lost: what DB2 has allocated is known to an open handler *)
(* or preserved, where, besides, rows are changed through data files only. *)
THEOREM HandlesAlwaysAccounted ==
  ASSUME IsFiniteSet(Handlers), IsFiniteSet(Conns), EndsPreserving = FALSE,
         ChangeKinds \subseteq {"data"}
  PROVE  Spec => []HandlesAccounted
<1> DEFINE Inv == FidInv /\ CountTypes /\ Counted /\ Accounted /\ LocksOnData
<1>1. Init => Inv BY FidInit, CountInit
<1>2. Inv /\ [Next]_vars => Inv' BY FidNext, CountNext, LocksNext
<1>3. Inv => HandlesAccounted BY HoldersCounted DEF Accounted, HandlesAccounted
<1>4. QED BY <1>1, <1>2, <1>3, PTL DEF Spec

-----------------------------------------------------------------------------
(* The right file: what is in a list, who has a use of a share, and who    *)
(* holds the instances of a file.                                          *)

Has(s, e) == \E i \in 1..Len(s) : s[i] = e

(* Being in a list, as a count.                                            *)
LEMMA HasCount ==
  ASSUME NEW S, NEW s \in Seq(S), NEW e
  PROVE  Has(s, e) <=> Cardinality(At(s, {e})) # 0
<1>1. IsFiniteSet(At(s, {e})) BY AtFinite
<1>2. Has(s, e) <=> At(s, {e}) # {} BY DEF Has, At
<1>3. QED BY <1>1, <1>2, FS_EmptySet

(* What the three changes of a list leave in it.                           *)
LEMMA HasPrepend ==
  ASSUME NEW s \in Seq(Pairs), NEW e \in Pairs, NEW x, Has(<<e>> \o s, x)
  PROVE  x = e \/ Has(s, x)
<1>1. Len(s) \in Nat /\ <<e>> \in Seq(Pairs) /\ Len(<<e>>) = 1 /\ <<e>>[1] = e BY LenProperties
<1>2. PICK i \in 1..Len(s) + 1 : (<<e>> \o s)[i] = x BY <1>1, ConcatProperties DEF Has
<1>3. (<<e>> \o s)[i] = IF i <= 1 THEN e ELSE s[i - 1] BY <1>1, ConcatProperties
<1>4. CASE i <= 1 BY <1>2, <1>3, <1>4
<1>5. CASE ~(i <= 1)
  <2>1. i - 1 \in 1..Len(s) /\ s[i - 1] = x BY <1>1, <1>2, <1>3, <1>5
  <2>2. QED BY <2>1 DEF Has
<1>6. QED BY <1>4, <1>5

LEMMA HasWithout ==
  ASSUME NEW s \in Seq(Pairs), NEW k \in 1..Len(s), NEW x, Has(Without(s, k), x)
  PROVE  Has(s, x)
<1>1. Without(s, k) \in Seq(Pairs) BY RemoveCount
<1>2. Cardinality(At(Without(s, k), {x})) # 0 BY <1>1, HasCount
<1>3. Cardinality(At(Without(s, k), {x})) = Cardinality(At(s, {x})) - Member(s[k], {x})
  BY RemoveFrom
<1>4. s[k] = x => Has(s, x) BY DEF Has
<1>5. s[k] # x => Member(s[k], {x}) = 0 BY DEF Member
<1>6. Cardinality(At(s, {x})) \in Nat BY AtFinite
<1>7. s[k] # x => Cardinality(At(s, {x})) # 0 BY <1>2, <1>3, <1>5, <1>6
<1>8. QED BY <1>4, <1>7, HasCount

LEMMA HasWithoutName ==
  ASSUME NEW s \in Seq(Pairs), NEW n, NEW x, Has(WithoutName(s, n), x)
  PROVE  Has(s, x) /\ x.name # n
<1> DEFINE W == {e \in {x} : e.name # n}
<1>1. WithoutName(s, n) \in Seq(Pairs) BY WithoutNameCount
<1>2. Cardinality(At(WithoutName(s, n), {x})) # 0 BY <1>1, HasCount
<1>3. Cardinality(At(s, W)) # 0 BY <1>2, DropFrom
<1>4. At(s, W) # {} BY <1>3, FS_EmptySet
<1>5. QED BY <1>4 DEF At, Has

(* Nobody uses a share that is not in the hash.                            *)
LEMMA NoUser ==
  ASSUME IsFiniteSet(Handlers), IsFiniteSet(Conns), NEW hs \in HandlerTable,
         NEW pr \in PairLists, NEW n \in Names, UsersOf(hs, pr, n) = 0
  PROVE  /\ \A h \in Handlers : hs[h].name # n
         /\ \A d \in Conns, e \in Pairs : Has(pr[d], e) => e.name # n
<1> DEFINE H == HandlersIn(hs, OnName(n))
           P == PairsIn(pr, NamedPairs(n))
<1>1. IsFiniteSet(H) /\ IsFiniteSet(P) /\ Cardinality(P) \in Nat
  <2>1. H \subseteq Handlers BY DEF HandlersIn
  <2>2. QED BY <2>1, FS_Subset, PairsFinite
<1>2. Cardinality(H) + Cardinality(P) = 0 BY DEF UsersOf
<1> HIDE DEF H, P
<1>3. Cardinality(H) = 0 /\ Cardinality(P) = 0 BY <1>1, <1>2, FS_CardinalityType
<1>4. H = {} /\ P = {} BY <1>1, <1>3, FS_EmptySet
<1>5. \A h \in Handlers : hs[h].name # n BY <1>4 DEF H, HandlersIn, OnName, HandlerTable
<1>6. ASSUME NEW d \in Conns, NEW e \in Pairs, Has(pr[d], e), e.name = n PROVE FALSE
  <2>1. PICK i \in 1..Len(pr[d]) : pr[d][i] = e BY <1>6 DEF Has
  <2>2. Len(pr[d]) \in Nat /\ Len(pr[d]) <= MaxPreserved BY ListTyped
  <2>3. i \in 1..MaxPreserved BY <2>2, ShareAssumption
  <2>4. i \in At(pr[d], NamedPairs(n)) BY <1>6, <2>1 DEF At, NamedPairs
  <2>5. <<d, i>> \in P BY <2>3, <2>4 DEF P, PairsIn
  <2>6. QED BY <1>4, <2>5
<1>7. QED BY <1>5, <1>6

(* All the instances of a file are preserved by one connection.            *)
LEMMA OneHolder ==
  ASSUME IsFiniteSet(Handlers), IsFiniteSet(Conns), NEW hs, NEW pr \in PairLists,
         NEW f, NEW c \in Conns, HoldersOf(hs, pr, f, "data") = Cardinality(PlacesOn(pr[c], f))
  PROVE  \A d \in Conns \ {c}, e \in Pairs : Has(pr[d], e) => e.file # f
<1> DEFINE H == HandlersIn(hs, OnFile(f, "data"))
           P == PairsIn(pr, FilePairs(f))
           A == PlacesOn(pr[c], f)
           C == {c} \X A
<1>1. IsFiniteSet(P) /\ Cardinality(P) \in Nat BY PairsFinite
<1>2. Cardinality(H) \in Nat
  <2>1. H \subseteq Handlers BY DEF HandlersIn
  <2>2. QED BY <2>1, FS_Subset, FS_CardinalityType
<1>3. Cardinality(H) + Cardinality(P) = Cardinality(A) BY DEF HoldersOf
<1>4. /\ Len(pr[c]) \in Nat /\ Len(pr[c]) <= MaxPreserved /\ DOMAIN pr[c] = 1..Len(pr[c])
      /\ \A i \in 1..Len(pr[c]) : pr[c][i] \in Pairs
  BY ListTyped
<1>5. C \subseteq P
  <2>1. \A i \in A : i \in 1..MaxPreserved /\ i \in At(pr[c], FilePairs(f))
    BY <1>4, ShareAssumption DEF PlacesOn, At, FilePairs
  <2> HIDE DEF A
  <2>2. QED BY <2>1 DEF PairsIn
<1>6. IsFiniteSet(A)
  <2>1. A \subseteq 1..Len(pr[c]) BY <1>4 DEF PlacesOn
  <2>2. IsFiniteSet(1..Len(pr[c])) BY <1>4, FS_Interval
  <2> HIDE DEF A
  <2>3. QED BY <2>1, <2>2, FS_Subset
<1>7. IsFiniteSet(C) /\ Cardinality(C) = Cardinality(A)
  <2> HIDE DEF A
  <2>1. IsFiniteSet({c}) /\ Cardinality({c}) = 1 BY FS_Singleton
  <2>2. IsFiniteSet(C) /\ Cardinality(C) = Cardinality({c}) * Cardinality(A)
    BY <1>6, <2>1, FS_Product
  <2>3. QED BY <1>6, <2>1, <2>2, FS_CardinalityType
<1> HIDE DEF H, P, A
<1>8. \A p \in C : p[1] = c OBVIOUS
<1> HIDE DEF C
<1>9. C = P
  <2>1. Cardinality(C) <= Cardinality(P) BY <1>1, <1>5, FS_Subset
  <2>2. Cardinality(P) <= Cardinality(C) BY <1>1, <1>2, <1>3, <1>7
  <2>3. Cardinality(C) = Cardinality(P) BY <1>1, <1>7, <2>1, <2>2, FS_CardinalityType
  <2>4. QED BY <1>1, <1>5, <2>3, FS_Subset
<1>10. ASSUME NEW d \in Conns \ {c}, NEW e \in Pairs, Has(pr[d], e), e.file = f PROVE FALSE
  <2>1. PICK i \in 1..Len(pr[d]) : pr[d][i] = e BY <1>10 DEF Has
  <2>2. Len(pr[d]) \in Nat /\ Len(pr[d]) <= MaxPreserved BY ListTyped
  <2>3. i \in 1..MaxPreserved BY <2>2, ShareAssumption
  <2>4. i \in At(pr[d], FilePairs(f)) BY <1>10, <2>1 DEF At, FilePairs
  <2>5. <<d, i>> \in P BY <2>3, <2>4 DEF P, PairsIn
  <2>6. <<d, i>>[1] = c BY <1>8, <1>9, <2>5
  <2>7. QED BY <2>6
<1>11. QED BY <1>10

-----------------------------------------------------------------------------
(* The invariant of RightFile, and one lemma per step.                     *)

(* What is preserved, and what a handler has allocated, is of the file the *)
(* share of the name describes.                                            *)
PreservedOwn ==
  \A d \in Conns, e \in Pairs : Has(preserved[d], e) => e.file = defn[e.name]
InstancesOwn ==
  \A h \in Handlers : handlers[h] # Closed =>
    {handlers[h].data, handlers[h].index} \subseteq {NoFile, defn[handlers[h].name]}

(* A share describes the file its name stands for, unless c has dropped    *)
(* that, and then c alone has preserved handles of it.                     *)
DroppedBy(c, n) ==
  /\ ddl[c].op = "delete" /\ ddl[c].name = n
  /\ \A d \in Conns \ {c}, e \in Pairs : Has(preserved[d], e) => e.name # n
Describes ==
  \A n \in Names : defn[n] # NoFile =>
    n \in frm /\ (defn[n] = tables[n] \/ \E c \in Conns : DroppedBy(c, n))

(* A table that is being defined is not open.                              *)
DdlAlone ==
  \A c \in Conns :
    /\ \A h \in Handlers : handlers[h].name \notin Concern(ddl[c])
    /\ ddl[c].op = "create" => defn[ddl[c].name] = NoFile
    /\ ddl[c].op = "delete" => tables[ddl[c].name] = NoFile
    /\ ddl[c].op = "rename" => defn[ddl[c].name] = NoFile /\ defn[ddl[c].to] = NoFile

ShareInv == PreservedOwn /\ InstancesOwn /\ Describes /\ DdlAlone

UsersDefined ==
  /\ \A h \in Handlers : handlers[h] # Closed =>
       handlers[h].name \in Names /\ defn[handlers[h].name] # NoFile
  /\ \A d \in Conns, e \in Pairs : Has(preserved[d], e) => e.name \in Names /\ defn[e.name] # NoFile

(* Whoever uses a share finds it in the hash.                              *)
LEMMA UsedIsDefined ==
  ASSUME IsFiniteSet(Handlers), IsFiniteSet(Conns)
  PROVE  CountTypes /\ Counted => UsersDefined
<1> SUFFICES ASSUME CountTypes, Counted PROVE UsersDefined OBVIOUS
<1>1. handlers \in HandlerTable /\ preserved \in PairLists BY DEF CountTypes
<1>2. \A h \in Handlers : handlers[h] # Closed => handlers[h].name \in Names
  BY DEF CountTypes, HandlerTable, HandlerStates
<1>3. \A n \in Names : defn[n] = NoFile => UsersOf(handlers, preserved, n) = 0 BY DEF Counted
<1>4. ASSUME NEW n \in Names, defn[n] = NoFile
      PROVE  /\ \A h \in Handlers : handlers[h].name # n
             /\ \A d \in Conns, e \in Pairs : Has(preserved[d], e) => e.name # n
  BY <1>1, <1>3, <1>4, NoUser
<1>5. \A e \in Pairs : e.name \in Names BY DEF Pairs
<1>6. QED BY <1>2, <1>4, <1>5 DEF UsersDefined

LEMMA UsedIsDefinedNext ==
  ASSUME IsFiniteSet(Handlers), IsFiniteSet(Conns)
  PROVE  (CountTypes /\ Counted)' => UsersDefined'
BY UsedIsDefined, PTL

(* No connection has begun to create, drop or rename n.                    *)
Undisputed(n) == n \in Names /\ \A c \in Conns : n \notin Concern(ddl[c])

(* What is usable is not being defined.                                    *)
LEMMA UsableIsUndisputed ==
  ASSUME FidInv, NEW n \in Names, Usable(n)
  PROVE  Undisputed(n)
BY ShareAssumption DEF Usable, Undisputed, Concern, NoDdl

(* The steps that define nothing.                                          *)
LEMMA ShareUse ==
  ASSUME UsersDefined, UsersDefined', ShareInv, FidInv, UNCHANGED <<tables, frm, ddl>>,
         \A n \in Names : defn'[n] # NoFile =>
           \/ defn'[n] = defn[n]
           \/ defn[n] = NoFile /\ n \in frm /\ defn'[n] = tables[n] /\ Undisputed(n),
         \A d \in Conns, e \in Pairs : Has(preserved'[d], e) =>
           Has(preserved[d], e) \/ (defn[e.name] = e.file /\ Undisputed(e.name)),
         \A h \in Handlers : handlers'[h] # Closed =>
           \/ handlers'[h] = handlers[h]
           \/ /\ {handlers'[h].data, handlers'[h].index} \subseteq {NoFile, defn'[handlers'[h].name]}
              /\ Undisputed(handlers'[h].name)
  PROVE  ShareInv'
<1>0. \A f \in Files : f # NoFile BY ShareAssumption DEF Files, NoFile
<1>1. PreservedOwn'
  <2>1. SUFFICES ASSUME NEW d \in Conns, NEW e \in Pairs, Has(preserved'[d], e)
                 PROVE  e.file = defn'[e.name]
    BY DEF PreservedOwn
  <2>2. e.name \in Names /\ defn'[e.name] # NoFile BY <2>1 DEF UsersDefined
  <2>3. defn[e.name] = e.file BY <2>1 DEF ShareInv, PreservedOwn
  <2>4. e.file # NoFile BY <1>0 DEF Pairs
  <2>5. QED BY <2>2, <2>3, <2>4
<1>2. InstancesOwn'
  <2>1. SUFFICES ASSUME NEW h \in Handlers, handlers'[h] = handlers[h], handlers[h] # Closed
                 PROVE  {handlers[h].data, handlers[h].index} \subseteq {NoFile, defn'[handlers[h].name]}
    BY DEF InstancesOwn
  <2>2. /\ handlers[h].name \in Names /\ defn[handlers[h].name] # NoFile
        /\ defn'[handlers[h].name] # NoFile
    BY <2>1 DEF UsersDefined
  <2>3. defn'[handlers[h].name] = defn[handlers[h].name] BY <2>2
  <2>4. QED BY <2>1, <2>3 DEF ShareInv, InstancesOwn
<1>3. Describes'
  <2>1. SUFFICES ASSUME NEW n \in Names, defn'[n] # NoFile, defn'[n] = defn[n]
                 PROVE  n \in frm /\ (defn[n] = tables[n] \/ \E c \in Conns : DroppedBy(c, n)')
    BY DEF Describes
  <2>2. n \in frm /\ (defn[n] = tables[n] \/ \E c \in Conns : DroppedBy(c, n))
    BY <2>1 DEF ShareInv, Describes
  <2>3. ASSUME NEW c \in Conns, DroppedBy(c, n) PROVE DroppedBy(c, n)'
    <3>1. ddl[c].op = "delete" /\ ddl[c].name = n BY <2>3 DEF DroppedBy
    <3>2. ~Undisputed(n) BY <3>1 DEF Undisputed, Concern
    <3>3. ASSUME NEW d \in Conns \ {c}, NEW e \in Pairs, Has(preserved'[d], e) PROVE e.name # n
      <4>1. CASE Has(preserved[d], e) BY <2>3, <4>1 DEF DroppedBy
      <4>2. CASE Undisputed(e.name) BY <3>2, <4>2
      <4>3. QED BY <3>3, <4>1, <4>2
    <3>4. QED BY <3>1, <3>3 DEF DroppedBy
  <2>4. QED BY <2>2, <2>3
<1>4. DdlAlone'
  <2>1. SUFFICES ASSUME NEW c \in Conns
                 PROVE  /\ \A h \in Handlers : handlers'[h].name \notin Concern(ddl[c])
                        /\ ddl[c].op = "create" => defn'[ddl[c].name] = NoFile
                        /\ ddl[c].op = "delete" => tables[ddl[c].name] = NoFile
                        /\ ddl[c].op = "rename" => /\ defn'[ddl[c].name] = NoFile
                                                   /\ defn'[ddl[c].to] = NoFile
    BY DEF DdlAlone, Concern
  <2>2. \A h \in Handlers : handlers[h].name \notin Concern(ddl[c]) BY DEF ShareInv, DdlAlone
  <2>3. \A h \in Handlers : handlers'[h].name \notin Concern(ddl[c])
    <3>1. Closed.name \notin Concern(ddl[c]) BY ShareAssumption DEF Closed, Concern
    <3>2. QED BY <2>2, <3>1 DEF Undisputed
  <2>4. \A n \in Names : n \in Concern(ddl[c]) /\ defn[n] = NoFile => defn'[n] = NoFile
    BY DEF Undisputed
  <2>5. /\ ddl[c].op = "create" => ddl[c].name \in Concern(ddl[c]) /\ ddl[c].name \in Names
        /\ ddl[c].op = "rename" => /\ ddl[c].name \in Concern(ddl[c]) /\ ddl[c].name \in Names
                                   /\ ddl[c].to \in Concern(ddl[c]) /\ ddl[c].to \in Names
    BY DEF FidInv, FidTypes, DdlInv, DdlOf, Concern
  <2>6. QED BY <2>3, <2>4, <2>5 DEF ShareInv, DdlAlone
<1>5. QED BY <1>1, <1>2, <1>3, <1>4 DEF ShareInv

(* open: the handle found is of the file the share describes.              *)
LEMMA ShareOpen ==
  ASSUME UsersDefined, UsersDefined', ShareInv, FidInv, CountTypes,
         NEW c \in Conns, NEW h \in Handlers, NEW n \in Names, open(c, h, n)
  PROVE  ShareInv'
<1>1. /\ n \in frm /\ Undisputed(n) /\ handlers[h] = Closed /\ UNCHANGED <<tables, frm, ddl>>
      /\ handlers \in HandlerTable /\ preserved \in PairLists
  BY UsableIsUndisputed DEF open, db2Vars, CountTypes
<1>2. CASE PreservedAs(c, n) # {}
  <2> DEFINE i == Found(c, n)
  <2>1. i \in 1..Len(preserved[c]) /\ preserved[c][i] \in Pairs /\ preserved[c][i].name = n
    BY <1>2, FoundPlace
  <2>2. /\ UNCHANGED defn /\ preserved' = [preserved EXCEPT ![c] = Without(preserved[c], i)]
        /\ \A g \in Handlers \ {h} : handlers'[g] = handlers[g]
        /\ handlers'[h].name = n /\ handlers'[h].data = preserved[c][i].file
        /\ handlers'[h].index = NoFile
    BY <1>1, <1>2 DEF open, removed, shareVars, HandlerTable, HandlerStates, Closed
  <2> HIDE DEF i
  <2>3. preserved[c][i].file = defn[n]
    <3>1. Has(preserved[c], preserved[c][i]) BY <2>1 DEF Has
    <3>2. QED BY <2>1, <3>1 DEF ShareInv, PreservedOwn
  <2>4. ASSUME NEW d \in Conns, NEW e \in Pairs, Has(preserved'[d], e) PROVE Has(preserved[d], e)
    <3>1. preserved[c] \in Seq(Pairs) BY <1>1, ListTyped
    <3>2. preserved'[d] = IF d = c THEN Without(preserved[c], i) ELSE preserved[d]
      BY <1>1, <2>2 DEF PairLists
    <3>3. CASE d = c
      <4>1. Has(Without(preserved[c], i), e) BY <2>4, <3>2, <3>3
      <4>2. QED BY <2>1, <3>1, <3>3, <4>1, HasWithout
    <3>4. QED BY <2>4, <3>2, <3>3
  <2>5. QED BY <1>1, <2>2, <2>3, <2>4, ShareUse
<1>3. CASE PreservedAs(c, n) = {}
  <2>1. /\ UNCHANGED preserved
        /\ \A g \in Handlers \ {h} : handlers'[g] = handlers[g]
        /\ handlers'[h].name = n /\ handlers'[h].data = NoFile /\ handlers'[h].index = NoFile
    BY <1>1, <1>3 DEF open, HandlerTable, HandlerStates, Closed
  <2>2. ASSUME NEW m \in Names, defn'[m] # NoFile
        PROVE  \/ defn'[m] = defn[m]
               \/ defn[m] = NoFile /\ m \in frm /\ defn'[m] = tables[m] /\ Undisputed(m)
    <3>1. defn \in [Names -> Files \cup {NoFile}] BY DEF CountTypes
    <3>2. defn' = defn \/ (defn[n] = NoFile /\ defn' = [defn EXCEPT ![n] = tables[n]])
      BY <1>3 DEF open, get_share_Found, initDB2Objects
    <3>3. QED BY <1>1, <3>1, <3>2
  <2>3. QED BY <1>1, <2>1, <2>2, ShareUse
<1>4. QED BY <1>2, <1>3

(* close: what is preserved is of the file the share describes.            *)
LEMMA ShareClose ==
  ASSUME UsersDefined, UsersDefined', ShareInv, FidInv, CountTypes,
         NEW c \in Conns, NEW h \in Handlers, close(c, h)
  PROVE  ShareInv'
<1> DEFINE r == handlers[h]
<1>1. /\ r # Closed /\ r.name \in Names /\ UNCHANGED <<tables, frm, ddl>>
      /\ handlers \in HandlerTable /\ preserved \in PairLists
      /\ \A g \in Handlers : handlers'[g] = handlers[g] \/ handlers'[g] = Closed
  BY DEF close, CountTypes, UsersDefined, HandlerTable
<1>2. Undisputed(r.name) BY <1>1 DEF ShareInv, DdlAlone, Undisputed
<1>3. CASE preserveShare(h)
  <2>1. /\ UNCHANGED defn /\ preserved' = [preserved EXCEPT ![c] = <<pair(h)>> \o preserved[c]]
        /\ r.data # NoFile
    BY <1>3 DEF close, preservedAfterClose, preserveShare, shareVars
  <2>2. r.data = defn[r.name] BY <1>1, <2>1 DEF ShareInv, InstancesOwn
  <2>3. pair(h) \in Pairs /\ pair(h).name = r.name /\ pair(h).file = r.data
    BY <1>1, <2>1 DEF pair, Pairs, HandlerTable, HandlerStates
  <2>4. ASSUME NEW d \in Conns, NEW e \in Pairs, Has(preserved'[d], e)
        PROVE  Has(preserved[d], e) \/ (defn[e.name] = e.file /\ Undisputed(e.name))
    <3>1. preserved[c] \in Seq(Pairs) BY <1>1, ListTyped
    <3>2. preserved'[d] = IF d = c THEN <<pair(h)>> \o preserved[c] ELSE preserved[d]
      BY <1>1, <2>1 DEF PairLists
    <3>3. CASE d = c
      <4>1. Has(<<pair(h)>> \o preserved[c], e) BY <2>4, <3>2, <3>3
      <4>2. e = pair(h) \/ Has(preserved[c], e) BY <2>3, <3>1, <4>1, HasPrepend
      <4>3. QED BY <1>2, <2>2, <2>3, <3>3, <4>2
    <3>4. QED BY <2>4, <3>2, <3>3
  <2>5. QED BY <1>1, <2>1, <2>4, ShareUse
<1>4. CASE ~preserveShare(h)
  <2>1. /\ UNCHANGED preserved
        /\ \A n \in Names : defn'[n] # NoFile => defn'[n] = defn[n]
    BY <1>4 DEF close, preservedAfterClose, free_share, CountTypes
  <2>2. QED BY <1>1, <2>1, ShareUse
<1>5. QED BY <1>3, <1>4

(* use: a statement allocates the file the share describes.                *)
LEMMA ShareStatement ==
  ASSUME UsersDefined, UsersDefined', ShareInv, FidInv, CountTypes,
         NEW c \in Conns, NEW h \in Handlers, NEW k \in Kinds, use(c, h, k)
  PROVE  ShareInv'
<1> DEFINE r == handlers[h]
<1>1. /\ r # Closed /\ r.name \in Names /\ UNCHANGED <<tables, frm, ddl, defn, preserved>>
      /\ handlers \in HandlerTable
      /\ \A g \in Handlers \ {h} : handlers'[g] = handlers[g]
      /\ handlers' = [handlers EXCEPT ![h] = [r EXCEPT ![k] = fileUsed(h, k)]]
  BY DEF use, CountTypes, UsersDefined, HandlerTable, shareVars
<1>2. Undisputed(r.name) BY <1>1 DEF ShareInv, DdlAlone, Undisputed
<1>3. {r.data, r.index} \subseteq {NoFile, defn[r.name]} BY <1>1 DEF ShareInv, InstancesOwn
<1>4. fileUsed(h, k) \in {NoFile, defn[r.name]} BY <1>3 DEF fileUsed, Kinds
<1>5. /\ handlers'[h].name = r.name
      /\ {handlers'[h].data, handlers'[h].index} \subseteq {NoFile, defn[r.name]}
  BY <1>1, <1>3, <1>4 DEF HandlerTable, HandlerStates, Kinds
<1>6. QED BY <1>1, <1>2, <1>5, ShareUse

(* The steps of definitions that change neither shares nor lists.          *)
LEMMA ShareDefine ==
  ASSUME ShareInv, UNCHANGED <<handlers, defn, preserved>>
  PROVE  PreservedOwn' /\ InstancesOwn'
BY DEF ShareInv, PreservedOwn, InstancesOwn

(* What the definitions need of the invariants above.                      *)
LEMMA DefineTypes ==
  ASSUME CountTypes, FidInv
  PROVE  /\ tables \in [Names -> Files \cup {NoFile}] /\ frm \subseteq Names
         /\ ddl \in [Conns -> [op : Ops, name : Names \cup {NoName}, to : Names \cup {NoName}]]
         /\ \A c \in Conns : Concern(ddl[c]) \subseteq Names /\ NoName \notin Names
         /\ \A c, d \in Conns : c # d => Concern(ddl[c]) \cap Concern(ddl[d]) = {}
BY ShareAssumption DEF CountTypes, FidInv, FidTypes, Concern, Apart

LEMMA ShareCreate ==
  ASSUME ShareInv, FidInv, CountTypes, NEW c \in Conns, NEW n \in Names, create(c, n)
  PROVE  ShareInv'
<1>1. /\ n \notin frm /\ frm' = frm \cup {n} /\ ddl[c] = NoDdl /\ Exclusive(c, n)
      /\ tables' = [tables EXCEPT ![n] = created + 1]
      /\ ddl' = [ddl EXCEPT ![c] = [op |-> "create", name |-> n, to |-> n]]
      /\ UNCHANGED <<handlers, defn, preserved>>
  BY DEF create, shareVars, Exclusive
<1>2. /\ \A d \in Conns : n \notin Concern(ddl[d]) /\ n # ddl[d].name /\ n # ddl[d].to
      /\ \A h \in Handlers : handlers[h].name # n
  BY <1>1, ExclusiveIsAlone DEF Exclusive
<1>3. defn[n] = NoFile BY <1>1 DEF ShareInv, Describes
<1>4. \A m \in Names \ {n} : tables'[m] = tables[m] BY <1>1, DefineTypes
<1>5. /\ \A d \in Conns \ {c} : ddl'[d] = ddl[d]
      /\ ddl'[c] = [op |-> "create", name |-> n, to |-> n]
  BY <1>1, DefineTypes
<1>6. Describes'
  <2>1. SUFFICES ASSUME NEW m \in Names \ {n}, defn[m] # NoFile
                 PROVE  m \in frm' /\ (defn[m] = tables[m] \/ \E d \in Conns : DroppedBy(d, m)')
    BY <1>1, <1>3, <1>4 DEF Describes
  <2>2. m \in frm /\ (defn[m] = tables[m] \/ \E d \in Conns : DroppedBy(d, m))
    BY <2>1 DEF ShareInv, Describes
  <2>3. \A d \in Conns : DroppedBy(d, m) => DroppedBy(d, m)' BY <1>1, <1>5 DEF DroppedBy, NoDdl
  <2>4. QED BY <1>1, <2>2, <2>3
<1>7. DdlAlone'
  <2>1. SUFFICES ASSUME NEW d \in Conns PROVE
                   /\ \A h \in Handlers : handlers[h].name \notin Concern(ddl'[d])
                   /\ ddl'[d].op = "create" => defn[ddl'[d].name] = NoFile
                   /\ ddl'[d].op = "delete" => tables'[ddl'[d].name] = NoFile
                   /\ ddl'[d].op = "rename" => /\ defn[ddl'[d].name] = NoFile
                                               /\ defn[ddl'[d].to] = NoFile
    BY <1>1 DEF DdlAlone, Concern
  <2>2. CASE d = c BY <1>2, <1>3, <1>5, <2>2 DEF Concern
  <2>3. CASE d # c
    <3>1. ddl[d].op = "delete" => ddl[d].name \in Names \ {n} BY <1>2 DEF FidInv, FidTypes, DdlInv, DdlOf
    <3>2. QED BY <1>4, <1>5, <2>3, <3>1 DEF ShareInv, DdlAlone
  <2>4. QED BY <2>2, <2>3
<1>8. QED BY <1>1, <1>6, <1>7, ShareDefine DEF ShareInv

LEMMA ShareDescribed ==
  ASSUME ShareInv, FidInv, CountTypes, NEW c \in Conns, create_Described(c)
  PROVE  ShareInv'
<1>1. /\ ddl[c].op = "create" /\ ddl' = [ddl EXCEPT ![c] = NoDdl]
      /\ UNCHANGED <<handlers, defn, preserved, tables, frm>>
  BY DEF create_Described, shareVars, db2Vars
<1>2. (\A d \in Conns \ {c} : ddl'[d] = ddl[d]) /\ ddl'[c] = NoDdl BY <1>1, DefineTypes
<1>3. Describes'
  <2>1. \A d \in Conns, m \in Names : DroppedBy(d, m) => DroppedBy(d, m)'
    BY <1>1, <1>2 DEF DroppedBy
  <2>2. QED BY <1>1, <2>1 DEF ShareInv, Describes
<1>4. DdlAlone' BY <1>1, <1>2, DefineTypes DEF ShareInv, DdlAlone, NoDdl, Concern
<1>5. QED BY <1>1, <1>3, <1>4, ShareDefine DEF ShareInv

LEMMA ShareFailed ==
  ASSUME ShareInv, FidInv, CountTypes, NEW c \in Conns, create_Failed(c)
  PROVE  ShareInv'
<1> DEFINE n == ddl[c].name
<1>1. /\ ddl[c].op = "create" /\ tables' = [tables EXCEPT ![n] = NoFile]
      /\ ddl' = [ddl EXCEPT ![c] = [ddl[c] EXCEPT !.op = "delete"]]
      /\ UNCHANGED <<handlers, defn, preserved, frm>>
  BY DEF create_Failed, shareVars
<1>2. n \in Names /\ defn[n] = NoFile
  BY <1>1 DEF FidInv, FidTypes, DdlInv, DdlOf, ShareInv, DdlAlone
<1>3. \A d \in Conns \ {c} : ddl'[d] = ddl[d] BY <1>1, DefineTypes
<1>4. ddl'[c].op = "delete" /\ ddl'[c].name = n /\ ddl'[c].to = ddl[c].to BY <1>1, DefineTypes
<1>5. tables'[n] = NoFile /\ \A m \in Names \ {n} : tables'[m] = tables[m]
  BY <1>1, <1>2, DefineTypes
<1>6. Describes'
  <2>1. \A d \in Conns, m \in Names : DroppedBy(d, m) => DroppedBy(d, m)'
    BY <1>1, <1>3 DEF DroppedBy
  <2>2. QED BY <1>1, <1>2, <1>5, <2>1 DEF ShareInv, Describes
<1>7. DdlAlone'
  <2>1. SUFFICES ASSUME NEW d \in Conns PROVE
                   /\ \A h \in Handlers : handlers[h].name \notin Concern(ddl'[d])
                   /\ ddl'[d].op = "create" => defn[ddl'[d].name] = NoFile
                   /\ ddl'[d].op = "delete" => tables'[ddl'[d].name] = NoFile
                   /\ ddl'[d].op = "rename" => /\ defn[ddl'[d].name] = NoFile
                                               /\ defn[ddl'[d].to] = NoFile
    BY <1>1 DEF DdlAlone, Concern
  <2>2. CASE d = c BY <1>4, <1>5, <2>2 DEF Concern, ShareInv, DdlAlone
  <2>3. CASE d # c
    <3>1. ddl[d].op = "delete" => ddl[d].name \in Names BY DEF FidInv, FidTypes, DdlInv, DdlOf
    <3>2. QED BY <1>3, <1>5, <2>3, <3>1 DEF ShareInv, DdlAlone
  <2>4. QED BY <2>2, <2>3
<1>8. QED BY <1>1, <1>6, <1>7, ShareDefine DEF ShareInv

(* DB2 drops the file of n only when nobody but c has an instance of it.   *)
LEMMA ShareDelete ==
  ASSUME IsFiniteSet(Handlers), IsFiniteSet(Conns), UsersDefined, Accounted,
         ShareInv, FidInv, CountTypes, NEW c \in Conns, NEW n \in Names, delete_table(c, n)
  PROVE  ShareInv'
<1>1. /\ n \in frm /\ ddl[c] = NoDdl /\ Exclusive(c, n)
      /\ UNCHANGED <<handlers, defn, preserved, frm>>
  BY DEF delete_table, shareVars, Exclusive
<1>2. /\ \A d \in Conns : n \notin Concern(ddl[d]) /\ n # ddl[d].name /\ n # ddl[d].to
      /\ \A h \in Handlers : handlers[h].name # n
  BY <1>1, ExclusiveIsAlone DEF Exclusive
<1>3. defn[n] \in {NoFile, tables[n]} BY <1>2 DEF ShareInv, Describes, DroppedBy
<1>4. \A m \in Names \ {n} : tables'[m] = tables[m] BY DefineTypes DEF delete_table
<1>5. PICK op \in {"delete", "keep"} :
        /\ ddl' = [ddl EXCEPT ![c] = [op |-> op, name |-> n, to |-> n]]
        /\ op = "delete" => /\ tables' = [tables EXCEPT ![n] = NoFile]
                            /\ tables[n] # NoFile => MayDrop(c, tables[n])
        /\ op = "keep" => UNCHANGED tables
  BY DEF delete_table
<1>6. /\ \A d \in Conns \ {c} : ddl'[d] = ddl[d]
      /\ ddl'[c] = [op |-> op, name |-> n, to |-> n]
  BY <1>5, DefineTypes
<1>7. ASSUME op = "delete", tables[n] # NoFile
      PROVE  \A d \in Conns \ {c}, e \in Pairs : Has(preserved[d], e) => e.name # n
  <2>1. tables[n] \in Files BY <1>7, DefineTypes
  <2>2. allocated[tables[n]]["data"] = Cardinality(PreservedOn(c, tables[n]))
    BY <1>5, <1>7 DEF MayDrop
  <2>3. allocated[tables[n]]["data"] = HoldersOf(handlers, preserved, tables[n], "data")
    BY <2>1 DEF Accounted, Kinds
  <2>4. PreservedOn(c, tables[n]) = PlacesOn(preserved[c], tables[n]) BY DEF PreservedOn, PlacesOn
  <2>5. preserved \in PairLists BY DEF CountTypes
  <2>6. HoldersOf(handlers, preserved, tables[n], "data") = Cardinality(PlacesOn(preserved[c], tables[n]))
    BY <2>2, <2>3, <2>4
  <2>7. \A d \in Conns \ {c}, e \in Pairs : Has(preserved[d], e) => e.file # tables[n]
    BY <2>5, <2>6, OneHolder
  <2>8. \A d \in Conns, e \in Pairs : Has(preserved[d], e) /\ e.name = n => e.file = tables[n]
    BY <1>3 DEF ShareInv, PreservedOwn, UsersDefined
  <2>9. QED BY <2>7, <2>8
<1>8. Describes'
  <2>1. ASSUME NEW m \in Names \ {n}, defn[m] # NoFile
        PROVE  m \in frm /\ (defn[m] = tables[m] \/ \E d \in Conns : DroppedBy(d, m)')
    <3>1. m \in frm /\ (defn[m] = tables[m] \/ \E d \in Conns : DroppedBy(d, m))
      BY <2>1 DEF ShareInv, Describes
    <3>2. \A d \in Conns : DroppedBy(d, m) => DroppedBy(d, m)' BY <1>1, <1>6 DEF DroppedBy, NoDdl
    <3>3. QED BY <3>1, <3>2
  <2>2. ASSUME defn[n] # NoFile PROVE defn[n] = tables'[n] \/ DroppedBy(c, n)'
    <3>1. CASE op = "keep" BY <1>3, <1>5, <2>2, <3>1
    <3>2. CASE op = "delete" BY <1>1, <1>3, <1>6, <1>7, <2>2, <3>2 DEF DroppedBy
    <3>3. QED BY <3>1, <3>2
  <2>3. QED BY <1>1, <1>4, <2>1, <2>2 DEF Describes
<1>9. DdlAlone'
  <2>1. SUFFICES ASSUME NEW d \in Conns PROVE
                   /\ \A h \in Handlers : handlers[h].name \notin Concern(ddl'[d])
                   /\ ddl'[d].op = "create" => defn[ddl'[d].name] = NoFile
                   /\ ddl'[d].op = "delete" => tables'[ddl'[d].name] = NoFile
                   /\ ddl'[d].op = "rename" => /\ defn[ddl'[d].name] = NoFile
                                               /\ defn[ddl'[d].to] = NoFile
    BY <1>1 DEF DdlAlone, Concern
  <2>2. CASE d = c BY <1>2, <1>5, <1>6, <2>2, DefineTypes DEF Concern
  <2>3. CASE d # c
    <3>1. ddl[d].op = "delete" => ddl[d].name \in Names \ {n} BY <1>2 DEF FidInv, FidTypes, DdlInv, DdlOf
    <3>2. QED BY <1>4, <1>6, <2>3, <3>1 DEF ShareInv, DdlAlone
  <2>4. QED BY <2>2, <2>3
<1>10. QED BY <1>1, <1>8, <1>9, ShareDefine DEF ShareInv

(* The connection that has dropped the table gives up the last uses of its *)
(* share.                                                                  *)
LEMMA ShareDeleteDone ==
  ASSUME IsFiniteSet(Handlers), IsFiniteSet(Conns), UsersDefined, UsersDefined',
         CountTypes, Counted, CountTypes', Counted', ShareInv, FidInv,
         NEW c \in Conns, delete_table_Done(c)
  PROVE  ShareInv'
<1> DEFINE n == ddl[c].name
<1>1. /\ n \in Names /\ n \in frm /\ ddl[c].op \in {"delete", "keep"} /\ n \in Concern(ddl[c])
      /\ UNCHANGED <<tables, handlers>>
      /\ frm' = IF ddl[c].op = "delete" THEN frm \ {n} ELSE frm
      /\ ddl' = [ddl EXCEPT ![c] = NoDdl]
      /\ preserved \in PairLists /\ preserved' \in PairLists /\ handlers \in HandlerTable
  BY DEF delete_table_Done, FidInv, FidTypes, DdlInv, DdlOf, CountTypes, Concern
<1>2. (\A d \in Conns \ {c} : ddl'[d] = ddl[d]) /\ ddl'[c] = NoDdl BY <1>1, DefineTypes
<1>3. \A m \in Names : defn'[m] # NoFile => defn'[m] = defn[m]
  BY DEF delete_table_Done, free_share, shareVars, CountTypes
<1>4. ASSUME NEW d \in Conns, NEW e \in Pairs, Has(preserved'[d], e)
      PROVE  Has(preserved[d], e) /\ (d = c => e.name # n)
  <2>1. preserved[c] \in Seq(Pairs) BY <1>1, ListTyped
  <2>2. CASE PreservedAs(c, n) = {}
    <3>1. preserved' = preserved BY <2>2 DEF delete_table_Done, stillPreserved
    <3>2. d = c => e.name # n
      <4>1. DOMAIN preserved[c] = 1..Len(preserved[c]) BY <1>1, ListTyped
      <4>2. QED BY <1>4, <2>2, <3>1, <4>1 DEF PreservedAs, Has
    <3>3. QED BY <1>4, <3>1, <3>2
  <2>3. CASE PreservedAs(c, n) # {}
    <3>1. preserved' = [preserved EXCEPT ![c] = WithoutName(preserved[c], n)]
      BY <2>3 DEF delete_table_Done, stillPreserved
    <3>2. preserved'[d] = IF d = c THEN WithoutName(preserved[c], n) ELSE preserved[d]
      BY <1>1, <3>1 DEF PairLists
    <3>3. CASE d = c
      <4>1. Has(WithoutName(preserved[c], n), e) BY <1>4, <3>2, <3>3
      <4>2. QED BY <2>1, <3>3, <4>1, HasWithoutName
    <3>4. CASE d # c BY <1>4, <3>2, <3>4
    <3>5. QED BY <3>3, <3>4
  <2>4. QED BY <2>2, <2>3
<1> HIDE DEF n
<1>5. PreservedOwn'
  <2>1. SUFFICES ASSUME NEW d \in Conns, NEW e \in Pairs, Has(preserved'[d], e)
                 PROVE  e.file = defn'[e.name]
    BY DEF PreservedOwn
  <2>2. e.name \in Names /\ defn'[e.name] # NoFile BY <2>1 DEF UsersDefined
  <2>3. defn[e.name] = e.file BY <1>4, <2>1 DEF ShareInv, PreservedOwn
  <2>4. QED BY <1>3, <2>2, <2>3
<1>6. InstancesOwn'
  <2>1. SUFFICES ASSUME NEW h \in Handlers, handlers[h] # Closed
                 PROVE  {handlers[h].data, handlers[h].index} \subseteq {NoFile, defn'[handlers[h].name]}
    BY <1>1 DEF InstancesOwn
  <2>2. handlers[h].name \in Names /\ defn'[handlers[h].name] # NoFile
    BY <1>1, <2>1 DEF UsersDefined
  <2>3. QED BY <1>3, <2>1, <2>2 DEF ShareInv, InstancesOwn
<1>7. ASSUME ddl[c].op = "delete" PROVE defn'[n] = NoFile
  <2>1. \A h \in Handlers : handlers[h].name # n BY <1>1 DEF ShareInv, DdlAlone
  <2>2. ASSUME defn[n] # NoFile, NEW d \in Conns, NEW e \in Pairs, Has(preserved'[d], e)
        PROVE  e.name # n
    <3>1. tables[n] = NoFile BY <1>7 DEF ShareInv, DdlAlone, n
    <3>2. PICK b \in Conns : DroppedBy(b, n) BY <1>1, <2>2, <3>1 DEF ShareInv, Describes
    <3>3. n \in Concern(ddl[b]) BY <1>1, <3>2 DEF DroppedBy, Concern
    <3>4. b = c BY <1>1, <3>3, DefineTypes
    <3>5. QED BY <1>4, <2>2, <3>2, <3>4 DEF DroppedBy
  <2>3. ASSUME defn'[n] # NoFile PROVE FALSE
    <3>1. defn[n] # NoFile BY <1>1, <1>3, <2>3
    <3>2. UsersOf(handlers', preserved', n) # 0 BY <1>1, <2>3 DEF Counted
    <3>3. HandlersIn(handlers', OnName(n)) = {} BY <1>1, <2>1 DEF HandlersIn, OnName
    <3>4. PairsIn(preserved', NamedPairs(n)) = {}
      <4>1. ASSUME NEW d \in Conns, NEW i \in At(preserved'[d], NamedPairs(n)) PROVE FALSE
        <5>1. /\ i \in 1..Len(preserved'[d]) /\ preserved'[d][i] \in Pairs
              /\ preserved'[d][i].name = n
          BY DEF At, NamedPairs
        <5>2. Has(preserved'[d], preserved'[d][i]) BY <5>1 DEF Has
        <5>3. QED BY <2>2, <3>1, <5>1, <5>2
      <4>2. QED BY <4>1 DEF PairsIn
    <3>5. UsersOf(handlers', preserved', n) = 0 BY <3>3, <3>4, FS_EmptySet DEF UsersOf
    <3>6. QED BY <3>2, <3>5
  <2>4. QED BY <2>3
<1>8. Describes'
  <2>1. SUFFICES ASSUME NEW m \in Names, defn'[m] # NoFile, defn[m] = defn'[m]
                 PROVE  m \in frm' /\ (defn[m] = tables[m] \/ \E d \in Conns : DroppedBy(d, m)')
    BY <1>1, <1>3 DEF Describes
  <2>2. m \in frm /\ (defn[m] = tables[m] \/ \E d \in Conns : DroppedBy(d, m))
    BY <2>1 DEF ShareInv, Describes
  <2>3. m \in frm' BY <1>1, <1>7, <2>1, <2>2
  <2>4. ASSUME NEW d \in Conns, DroppedBy(d, m) PROVE DroppedBy(d, m)'
    <3>1. ddl[d].op = "delete" /\ ddl[d].name = m BY <2>4 DEF DroppedBy
    <3>2. d # c BY <1>7, <2>1, <3>1 DEF n
    <3>3. QED BY <1>2, <1>4, <2>4, <3>1, <3>2 DEF DroppedBy
  <2>5. QED BY <2>2, <2>3, <2>4
<1>9. DdlAlone'
  <2>1. SUFFICES ASSUME NEW d \in Conns PROVE
                   /\ \A h \in Handlers : handlers[h].name \notin Concern(ddl'[d])
                   /\ ddl'[d].op = "create" => defn'[ddl'[d].name] = NoFile
                   /\ ddl'[d].op = "delete" => tables[ddl'[d].name] = NoFile
                   /\ ddl'[d].op = "rename" => /\ defn'[ddl'[d].name] = NoFile
                                               /\ defn'[ddl'[d].to] = NoFile
    BY <1>1 DEF DdlAlone, Concern
  <2>2. CASE d = c BY <1>2, <2>2, DefineTypes DEF Concern, NoDdl
  <2>3. CASE d # c
    <3>1. /\ ddl[d].op = "create" => ddl[d].name \in Names
          /\ ddl[d].op = "rename" => ddl[d].name \in Names /\ ddl[d].to \in Names
      BY DEF FidInv, FidTypes, DdlInv, DdlOf
    <3>2. QED BY <1>2, <1>3, <2>3, <3>1 DEF ShareInv, DdlAlone
  <2>4. QED BY <2>2, <2>3
<1>10. QED BY <1>5, <1>6, <1>8, <1>9 DEF ShareInv

(* DB2 renames the file of n only when nobody has an instance of it.       *)
LEMMA ShareRename ==
  ASSUME IsFiniteSet(Handlers), IsFiniteSet(Conns), RenamesUnderHandles = FALSE,
         UsersDefined, Counted, Accounted, ShareInv, FidInv, CountTypes,
         NEW c \in Conns, NEW n \in Names, NEW m \in Names, rename_table(c, n, m)
  PROVE  ShareInv'
<1>1. /\ n \in frm /\ m \notin frm /\ n # m /\ ddl[c] = NoDdl /\ Exclusive(c, n) /\ Exclusive(c, m)
      /\ tables[n] # NoFile /\ MayRename(c, tables[n])
      /\ tables' = [tables EXCEPT ![n] = NoFile, ![m] = tables[n]]
      /\ ddl' = [ddl EXCEPT ![c] = [op |-> "rename", name |-> n, to |-> m]]
      /\ UNCHANGED <<handlers, defn, preserved, frm>>
  BY DEF rename_table, shareVars, Exclusive
<1>2. /\ \A d \in Conns : /\ n \notin Concern(ddl[d]) /\ n # ddl[d].name /\ n # ddl[d].to
                          /\ m \notin Concern(ddl[d]) /\ m # ddl[d].name /\ m # ddl[d].to
      /\ \A h \in Handlers : handlers[h].name # n /\ handlers[h].name # m
  BY <1>1, ExclusiveIsAlone DEF Exclusive
<1>3. defn[m] = NoFile BY <1>1 DEF ShareInv, Describes
<1>4. defn[n] = NoFile
  <2>1. SUFFICES ASSUME defn[n] # NoFile PROVE FALSE OBVIOUS
  <2>2. defn[n] = tables[n] BY <1>2, <2>1 DEF ShareInv, Describes, DroppedBy
  <2>3. tables[n] \in Files BY <1>1, DefineTypes
  <2>4. PlacesOn(preserved[c], tables[n]) = {}
    BY <1>1 DEF MayRename, PreservedOn, PlacesOn
  <2>5. allocated[tables[n]]["data"] = Cardinality(PlacesOn(preserved[c], tables[n]))
    BY <1>1 DEF MayRename, MayDrop, PreservedOn, PlacesOn
  <2>6. HoldersOf(handlers, preserved, tables[n], "data")
        = Cardinality(PlacesOn(preserved[c], tables[n]))
    BY <2>3, <2>5 DEF Accounted, Kinds
  <2>7. preserved \in PairLists /\ handlers \in HandlerTable BY DEF CountTypes
  <2>8. \A d \in Conns \ {c}, e \in Pairs : Has(preserved[d], e) => e.file # tables[n]
    BY <2>6, <2>7, OneHolder
  <2>9. \A e \in Pairs : Has(preserved[c], e) => e.file # tables[n]
    <3>1. DOMAIN preserved[c] = 1..Len(preserved[c]) BY <2>7, ListTyped
    <3>2. QED BY <2>4, <3>1 DEF PlacesOn, Has
  <2>10. ASSUME NEW d \in Conns, NEW e \in Pairs, Has(preserved[d], e) PROVE e.name # n
    <3>1. e.file # tables[n] BY <2>8, <2>9, <2>10
    <3>2. e.file = defn[e.name] BY <2>10 DEF ShareInv, PreservedOwn
    <3>3. QED BY <2>2, <3>1, <3>2
  <2>11. HandlersIn(handlers, OnName(n)) = {} BY <1>2 DEF HandlersIn, OnName
  <2>12. PairsIn(preserved, NamedPairs(n)) = {}
    <3>1. ASSUME NEW d \in Conns, NEW i \in At(preserved[d], NamedPairs(n)) PROVE FALSE
      <4>1. i \in 1..Len(preserved[d]) /\ preserved[d][i] \in Pairs /\ preserved[d][i].name = n
        BY DEF At, NamedPairs
      <4>2. Has(preserved[d], preserved[d][i]) BY <4>1 DEF Has
      <4>3. QED BY <2>10, <4>1, <4>2
    <3>2. QED BY <3>1 DEF PairsIn
  <2>13. UsersOf(handlers, preserved, n) = 0 BY <2>11, <2>12, FS_EmptySet DEF UsersOf
  <2>14. QED BY <2>1, <2>13 DEF Counted
<1>5. \A p \in Names \ {n, m} : tables'[p] = tables[p] BY <1>1, DefineTypes
<1>6. /\ \A d \in Conns \ {c} : ddl'[d] = ddl[d]
      /\ ddl'[c] = [op |-> "rename", name |-> n, to |-> m]
  BY <1>1, DefineTypes
<1>7. Describes'
  <2>1. SUFFICES ASSUME NEW p \in Names \ {n, m}, defn[p] # NoFile
                 PROVE  p \in frm /\ (defn[p] = tables[p] \/ \E d \in Conns : DroppedBy(d, p)')
    BY <1>1, <1>3, <1>4, <1>5 DEF Describes
  <2>2. p \in frm /\ (defn[p] = tables[p] \/ \E d \in Conns : DroppedBy(d, p))
    BY <2>1 DEF ShareInv, Describes
  <2>3. \A d \in Conns : DroppedBy(d, p) => DroppedBy(d, p)' BY <1>1, <1>6 DEF DroppedBy, NoDdl
  <2>4. QED BY <2>2, <2>3
<1>8. DdlAlone'
  <2>1. SUFFICES ASSUME NEW d \in Conns PROVE
                   /\ \A h \in Handlers : handlers[h].name \notin Concern(ddl'[d])
                   /\ ddl'[d].op = "create" => defn[ddl'[d].name] = NoFile
                   /\ ddl'[d].op = "delete" => tables'[ddl'[d].name] = NoFile
                   /\ ddl'[d].op = "rename" => /\ defn[ddl'[d].name] = NoFile
                                               /\ defn[ddl'[d].to] = NoFile
    BY <1>1 DEF DdlAlone, Concern
  <2>2. CASE d = c BY <1>2, <1>3, <1>4, <1>6, <2>2 DEF Concern
  <2>3. CASE d # c
    <3>1. ddl[d].op = "delete" => ddl[d].name \in Names \ {n, m}
      BY <1>2 DEF FidInv, FidTypes, DdlInv, DdlOf
    <3>2. QED BY <1>5, <1>6, <2>3, <3>1 DEF ShareInv, DdlAlone
  <2>4. QED BY <2>2, <2>3
<1>9. QED BY <1>1, <1>7, <1>8, ShareDefine DEF ShareInv

LEMMA ShareRenameDone ==
  ASSUME ShareInv, FidInv, CountTypes, NEW c \in Conns, rename_table_Done(c)
  PROVE  ShareInv'
<1>1. /\ ddl[c].op = "rename" /\ ddl' = [ddl EXCEPT ![c] = NoDdl]
      /\ frm' = (frm \ {ddl[c].name}) \cup {ddl[c].to}
      /\ UNCHANGED <<handlers, defn, preserved, tables>>
  BY DEF rename_table_Done, shareVars, db2Vars
<1>2. (\A d \in Conns \ {c} : ddl'[d] = ddl[d]) /\ ddl'[c] = NoDdl BY <1>1, DefineTypes
<1>3. defn[ddl[c].name] = NoFile BY <1>1 DEF ShareInv, DdlAlone
<1>4. Describes'
  <2>1. \A d \in Conns, p \in Names : DroppedBy(d, p) => DroppedBy(d, p)'
    BY <1>1, <1>2 DEF DroppedBy
  <2>2. QED BY <1>1, <1>3, <2>1 DEF ShareInv, Describes
<1>5. DdlAlone' BY <1>1, <1>2, DefineTypes DEF ShareInv, DdlAlone, NoDdl, Concern
<1>6. QED BY <1>1, <1>4, <1>5, ShareDefine DEF ShareInv

(* Nothing is described at the start, and again after a crash.             *)
NothingDefined ==
  /\ NothingOpen /\ ddl = [c \in Conns |-> NoDdl]

LEMMA ShareNothing == NothingDefined => ShareInv
<1> SUFFICES ASSUME NothingDefined PROVE ShareInv OBVIOUS
<1>1. \A c \in Conns : \A e : ~Has(preserved[c], e)
  <2>1. \A c \in Conns : preserved[c] = <<>> BY DEF NothingDefined, NothingOpen
  <2>2. QED BY <2>1 DEF Has
<1>2. \A c \in Conns : Concern(ddl[c]) = {} /\ ddl[c].op = "none"
  BY ShareAssumption DEF NothingDefined, Concern, NoDdl
<1>3. QED BY <1>1, <1>2
     DEF NothingDefined, NothingOpen, ShareInv, PreservedOwn, InstancesOwn, Describes, DdlAlone

LEMMA ShareCrash == NothingDefined' => ShareInv'
BY ShareNothing, PTL

LEMMA ShareSame ==
  ASSUME ShareInv, UNCHANGED <<handlers, defn, preserved, tables, frm, ddl>>
  PROVE  ShareInv'
BY DEF ShareInv, PreservedOwn, InstancesOwn, Describes, DdlAlone, DroppedBy

LEMMA ShareNext ==
  ASSUME IsFiniteSet(Handlers), IsFiniteSet(Conns), RenamesUnderHandles = FALSE,
         EndsPreserving = FALSE, FidInv, CountTypes, Counted, Accounted, ShareInv,
         CountTypes', Counted', [Next]_vars
  PROVE  ShareInv'
<1>0. UsersDefined /\ UsersDefined' BY UsedIsDefined, UsedIsDefinedNext
<1>1. CASE UNCHANGED vars BY <1>1, ShareSame DEF vars, db2Vars, shareVars
<1>2. CASE crash
  <2>1. NothingDefined' BY <1>2 DEF crash, NothingDefined, NothingOpen
  <2>2. QED BY <2>1, ShareCrash
<1>3. CASE \E c \in Conns, h \in Handlers, n \in Names : open(c, h, n) BY <1>0, <1>3, ShareOpen
<1>4. CASE \E c \in Conns, h \in Handlers : close(c, h) BY <1>0, <1>4, ShareClose
<1>5. CASE \E c \in Conns, h \in Handlers, k \in Kinds : use(c, h, k)
  BY <1>0, <1>5, ShareStatement
<1>6. CASE \E c \in Conns : endTransaction(c) BY <1>6, ShareSame DEF endTransaction, shareVars
<1>7. ASSUME NEW c \in Conns, close_connection(c) PROVE ShareInv'
  <2>1. preserved' = preserved BY <1>7 DEF close_connection, CountTypes, PairLists
  <2>2. QED BY <1>7, <2>1, ShareSame DEF close_connection, shareVars
<1>8. CASE \E c \in Conns, n \in Names : create(c, n) BY <1>8, ShareCreate
<1>9. CASE \E c \in Conns : create_Described(c) BY <1>9, ShareDescribed
<1>10. CASE \E c \in Conns : create_Failed(c) BY <1>10, ShareFailed
<1>11. CASE \E c \in Conns, n \in Names : delete_table(c, n) BY <1>0, <1>11, ShareDelete
<1>12. CASE \E c \in Conns : delete_table_Done(c) BY <1>0, <1>12, ShareDeleteDone
<1>13. CASE \E c \in Conns, n, m \in Names : rename_table(c, n, m) BY <1>0, <1>13, ShareRename
<1>14. CASE \E c \in Conns : rename_table_Done(c) BY <1>14, ShareRenameDone
<1>15. QED
  BY <1>1, <1>2, <1>3, <1>4, <1>5, <1>6, <1>7, <1>8, <1>9, <1>10, <1>11, <1>12, <1>13, <1>14
     DEF Next

(* The invariant implies the property.                                     *)
LEMMA ShareRight ==
  ASSUME IsFiniteSet(Handlers), IsFiniteSet(Conns), CountTypes, Counted, ShareInv
  PROVE  RightFile
<1>1. SUFFICES ASSUME NEW h \in Handlers, handlers[h] # Closed
               PROVE  /\ defn[handlers[h].name] = tables[handlers[h].name]
                      /\ {handlers[h].data, handlers[h].index}
                         \subseteq {NoFile, tables[handlers[h].name]}
  BY DEF RightFile
<1>2. handlers[h].name \in Names /\ defn[handlers[h].name] # NoFile
  BY <1>1, UsedIsDefined DEF UsersDefined
<1>3. ASSUME NEW c \in Conns, DroppedBy(c, handlers[h].name) PROVE FALSE
  BY <1>2, <1>3 DEF ShareInv, DdlAlone, DroppedBy, Concern
<1>4. defn[handlers[h].name] = tables[handlers[h].name] BY <1>2, <1>3 DEF ShareInv, Describes
<1>5. QED BY <1>1, <1>4 DEF ShareInv, InstancesOwn

(* An open handler describes the file its table's name stands for, and holds *)
(* instances of no other, whatever was closed, preserved, dropped and created *)
(* again before: where, besides, DB2 renames no file somebody has instances of. *)
THEOREM FileAlwaysRight ==
  ASSUME IsFiniteSet(Handlers), IsFiniteSet(Conns), EndsPreserving = FALSE,
         ChangeKinds \subseteq {"data"}, RenamesUnderHandles = FALSE
  PROVE  Spec => []RightFile
<1> DEFINE Inv == FidInv /\ CountTypes /\ Counted /\ Accounted /\ LocksOnData /\ ShareInv
<1>1. Init => Inv
  <2>1. Init => NothingDefined BY DEF Init, NothingDefined, NothingOpen
  <2>2. QED BY <2>1, FidInit, CountInit, ShareNothing
<1>2. Inv /\ [Next]_vars => Inv'
  <2> SUFFICES ASSUME Inv, [Next]_vars PROVE Inv' OBVIOUS
  <2>1. FidInv' BY FidNext
  <2>2. CountTypes' /\ Counted' /\ Accounted' BY CountNext
  <2>3. LocksOnData' BY LocksNext
  <2>4. ShareInv' BY <2>2, ShareNext
  <2>5. QED BY <2>1, <2>2, <2>3, <2>4
<1>3. Inv => RightFile BY ShareRight
<1>4. QED BY <1>1, <1>2, <1>3, PTL DEF Spec

-----------------------------------------------------------------------------
(* Reading LOBs.                                                           *)

(* A reader that nothing has disturbed since DB2 told it the length asks   *)
(* for at least that length, and has it when it reads again.               *)
Asked(c) ==
  (read[c].at \in Retrying /\ ~disturbed[c]) =>
    /\ length <= read[c].size
    /\ read[c].at = "allocate" => read[c].size <= actualSize
    /\ read[c].at = "again" => read[c].size <= buffer[c]
LobInv == LTypeOK /\ LobDelivered /\ \A c \in Readers : Asked(c)

LEMMA SizeFits ==
  ASSUME LTypeOK, Unit = 1
  PROVE  /\ getSizeToAllocate \in Nat
         /\ \A n \in Lengths : n <= actualSize => n <= getSizeToAllocate
  BY LobAssumption DEF LTypeOK, getSizeToAllocate, Lengths, Greater, Lesser

(* The steps of a reader keep what is asked for; the last of them is given *)
(* the row.                                                                *)
LEMMA LobStep ==
  ASSUME LobInv, [LNext]_lvars, Unit = 1
  PROVE  LobInv'
<1> USE LobAssumption DEF LobInv, LTypeOK
<1>1. ASSUME NEW c \in Readers, prepareReadBufferForLobs(c) PROVE LobInv'
  BY <1>1, SizeFits DEF prepareReadBufferForLobs, Reading, Places, Retrying, Asked, LobDelivered
<1>2. ASSUME NEW c \in Readers, readFromBuffer(c) PROVE LobInv'
  BY <1>2 DEF readFromBuffer, Overflows, Places, Retrying, Asked, LobDelivered, Lengths
<1>3. ASSUME NEW c \in Readers, reallocBuffer(c) PROVE LobInv'
  BY <1>3 DEF reallocBuffer, Reading, Places, Retrying, Asked, LobDelivered, Lengths
<1>4. ASSUME NEW c \in Readers, compareActualSize(c) PROVE LobInv'
  BY <1>4 DEF compareActualSize, Reading, Places, Retrying, Asked, LobDelivered, Lengths
<1>5. ASSUME NEW c \in Readers, storeActualSize(c) PROVE LobInv'
  <2>1. /\ read[c].at = "store" /\ read' = [read EXCEPT ![c].at = "allocate"]
        /\ actualSize' = read[c].size /\ UNCHANGED <<length, buffer>>
    BY <1>5 DEF storeActualSize, Reading
  <2>2. \A d \in Readers : /\ disturbed'[d] \in BOOLEAN
                           /\ ~disturbed'[d] => /\ ~disturbed[d]
                                                /\ read[d].at = "allocate" => read[d].size <= actualSize'
    <3>1. SUFFICES ASSUME NEW d \in Readers
                   PROVE  /\ disturbed'[d] \in BOOLEAN
                          /\ ~disturbed'[d] => /\ ~disturbed[d]
                                               /\ read[d].at = "allocate" => read[d].size <= actualSize'
      OBVIOUS
    <3>2. disturbed'[d] = (disturbed[d] \/ (read[d].at = "allocate" /\ read[c].size < read[d].size))
      BY <1>5 DEF storeActualSize
    <3>3. read[c].size \in Int /\ read[d].size \in Int
      BY DEF Lengths
    <3>4. ~(read[c].size < read[d].size) => read[d].size <= actualSize'
      BY <3>3, <2>1
    <3>5. QED
      BY <3>2, <3>4, Zenon
  <2>3. LTypeOK'
    BY <1>5, <2>1, <2>2 DEF storeActualSize, Places
  <2>4. ASSUME NEW d \in Readers PROVE Asked(d)'
    BY <2>1, <2>2, Asked(d) DEF Asked, Retrying, Lengths
  <2>5. LobDelivered'
    BY <2>1, <1>5 DEF storeActualSize, LobDelivered
  <2>6. QED
    BY <2>3, <2>4, <2>5
<1>6. ASSUME NEW c \in Readers, allocateAgain(c) PROVE LobInv'
  BY <1>6, SizeFits DEF allocateAgain, Reading, Places, Retrying, Asked, LobDelivered
<1>7. ASSUME NEW c \in Readers, handleLOBReadOverflow(c) PROVE LobInv'
  BY <1>7 DEF handleLOBReadOverflow, Reading, Overflows, Places, Retrying, Asked, LobDelivered,
              Lengths
<1>8. ASSUME NEW c \in Readers, nextRow(c) PROVE LobInv'
  BY <1>8 DEF nextRow, Reading, Places, Retrying, Asked, LobDelivered
<1>9. ASSUME NEW c \in Readers, cleanupBuffers(c) PROVE LobInv'
  BY <1>9 DEF cleanupBuffers, Places, Retrying, Asked, LobDelivered
<1>10. ASSUME NEW n \in Lengths, ChangeLob(n) PROVE LobInv'
  <2>1. length' = n /\ UNCHANGED <<actualSize, buffer, read>>
    BY <1>10 DEF ChangeLob
  <2>2. \A c \in Readers : /\ disturbed'[c] \in BOOLEAN
                           /\ ~disturbed'[c] => /\ ~disturbed[c]
                                                /\ read[c].at \in Retrying => n <= read[c].size
    <3>1. SUFFICES ASSUME NEW c \in Readers
                   PROVE  /\ disturbed'[c] \in BOOLEAN
                          /\ ~disturbed'[c] => /\ ~disturbed[c]
                                               /\ read[c].at \in Retrying => n <= read[c].size
      OBVIOUS
    <3>2. disturbed'[c] = (disturbed[c] \/ (read[c].at \in Retrying /\ read[c].size < n))
      BY <1>10 DEF ChangeLob
    <3>3. ~(read[c].size < n) => n <= read[c].size
      BY DEF Lengths
    <3>4. QED
      BY <3>2, <3>3, Zenon
  <2>3. LTypeOK'
    BY <1>10, <2>1, <2>2 DEF ChangeLob
  <2>4. ASSUME NEW c \in Readers PROVE Asked(c)'
    BY <2>1, <2>2, Asked(c) DEF Asked
  <2>5. LobDelivered'
    BY <2>1, <1>10 DEF ChangeLob, LobDelivered
  <2>6. QED
    BY <2>3, <2>4, <2>5
<1>11. CASE UNCHANGED lvars
  BY <1>11 DEF lvars, Asked, LobDelivered
<1>12. QED
  BY <1>1, <1>2, <1>3, <1>4, <1>5, <1>6, <1>7, <1>8, <1>9, <1>10, <1>11 DEF LNext

LEMMA LobStart == LInit => LobInv
  BY LobAssumption DEF LInit, LobInv, LTypeOK, Lengths, Places, Retrying, Asked, LobDelivered

(* A row is given to MySQL however long its LOB is, for any number of      *)
(* readers, any column and any allocation, if a unit of the length is one  *)
(* byte (readFromBuffer, reallocBuffer, handleLOBReadOverflow).            *)
THEOREM LobDeliveredTheorem == Unit = 1 => (LSpec => []LobDelivered)
<1>1. ASSUME Unit = 1 PROVE LobInv /\ [LNext]_lvars => LobInv'
  BY <1>1, LobStep
<1>2. LobInv => LobDelivered
  BY DEF LobInv
<1>3. ASSUME Unit = 1 PROVE LSpec => []LobDelivered
  BY <1>1, <1>2, <1>3, LobStart, PTL DEF LSpec
<1>4. QED
  BY <1>3

-----------------------------------------------------------------------------
(* Statistics.                                                             *)

(* What a call that no operation on the rows has overtaken has in hand, or *)
(* has stored already, is the number of rows; a request to DB2 is for the  *)
(* sake of the count.                                                      *)
Holds(c) ==
  /\ ask[c].at = "retrieve" => "rowCount" \in ask[c].todo
  /\ ask[c].current =>
    /\ ask[c].at = "retrieve" /\ ~ask[c].asks => ask[c].records = Count
    /\ ask[c].at = "store" /\ "rowCount" \in ask[c].todo => ask[c].records = Count
    /\ \/ ask[c].at = "flag"
       \/ ask[c].at = "store" /\ "rowCount" \notin ask[c].todo
       => missed \/ cached.records = Count
StatsInv == TTypeOK /\ CountCurrent /\ \A c \in Clients : Holds(c)

LEMMA CountIsCounts == ASSUME present \subseteq Rows PROVE Count \in Counts
<1>1. IsFiniteSet(present) /\ Cardinality(present) <= Cardinality(Rows)
  BY StatsAssumption, FS_Subset
<1>2. Cardinality(present) \in Nat /\ Cardinality(Rows) \in Nat
  BY <1>1, StatsAssumption, FS_CardinalityType
<1>3. QED
  BY <1>1, <1>2 DEF Count, Counts

LEMMA IdleIsCall == Idle \in Call /\ 0 \in Counts
<1>1. 0 \in Counts
  BY StatsAssumption, FS_CardinalityType DEF Counts
<1>2. QED
  BY <1>1 DEF Idle, Call, Flags

(* A call that was overtaken claims nothing.                               *)
LEMMA ClaimsNothing ==
  ASSUME NEW c, Holds(c), ~ask'[c].current,
         ask'[c] = Idle \/ (ask'[c].at = ask[c].at /\ ask'[c].todo = ask[c].todo)
  PROVE  Holds(c)'
  BY DEF Holds, Idle

(* A step that changes neither the rows nor what is cached, and c's call   *)
(* only, keeps what the other calls hold.                                  *)
LEMMA StatsAsk ==
  ASSUME StatsInv, NEW c \in Clients, NEW call \in Call,
         ask' = [ask EXCEPT ![c] = call],
         UNCHANGED <<present, changed, exclusive, cached, missed>>,
         ask[c].at # "invalidate", Holds(c)'
  PROVE  StatsInv'
<1> USE DEF StatsInv, TTypeOK
<1>1. TTypeOK'
  OBVIOUS
<1>2. Count' = Count
  BY DEF Count
<1>3. ASSUME NEW d \in Clients PROVE Holds(d)'
  BY <1>2, Holds(d) DEF Holds
<1>4. Invalidating' = {} => Invalidating = {}
  BY DEF Invalidating
<1>5. CountCurrent'
  BY <1>2, <1>4 DEF CountCurrent, isInited
<1>6. QED
  BY <1>1, <1>3, <1>5

LEMMA StatsInfo ==
  ASSUME StatsInv, NEW c \in Clients, NEW status, info(c, status) PROVE StatsInv'
<1> DEFINE countCached == /\ "NO_LOCK" \in status /\ exclusive
                          /\ isInited /\ cached.records >= 2
           call == [at |-> "retrieve", todo |-> Flags, asks |-> ~countCached, seen |-> {},
                    records |-> IF countCached THEN cached.records ELSE 0,
                    current |-> countCached /\ Invalidating = {} /\ ~missed]
<1>1. ask' = [ask EXCEPT ![c] = call] /\ ask[c].at = "none"
  BY DEF info
<1>2. UNCHANGED <<present, changed, exclusive, cached, missed>>
  BY DEF info
<1>3. call \in Call
  <2>1. countCached \in BOOLEAN /\ call.current \in BOOLEAN
    BY DEF isInited
  <2>2. (IF countCached THEN cached.records ELSE 0) \in Counts
    BY IdleIsCall DEF StatsInv, TTypeOK
  <2> HIDE DEF countCached
  <2>3. QED
    BY <2>1, <2>2 DEF Call, Flags
<1>4. ask'[c] = call
  BY <1>1 DEF StatsInv, TTypeOK
<1>5. call.at = "retrieve" /\ "rowCount" \in call.todo /\ (call.current => call.records = Count)
  BY DEF CountCurrent, StatsInv, Flags
<1>6. Count' = Count
  BY <1>2 DEF Count
<1> HIDE DEF call
<1>7. Holds(c)'
  BY <1>4, <1>5, <1>6 DEF Holds
<1>8. QED
  BY <1>1, <1>2, <1>3, <1>7, StatsAsk
LEMMA StatsAskIdle ==
  ASSUME StatsInv, NEW c \in Clients, ask[c].at # "invalidate",
         ask' = [ask EXCEPT ![c] = Idle],
         UNCHANGED <<present, changed, exclusive, cached, missed>>
  PROVE  StatsInv'
<1>1. Holds(c)'
  BY DEF Holds, Idle, StatsInv, TTypeOK
<1>2. QED
  BY <1>1, IdleIsCall, StatsAsk

LEMMA StatsRecords ==
  ASSUME StatsInv, NEW c \in Clients, records(c) PROVE StatsInv'
<1> DEFINE call == [Idle EXCEPT !.at = "retrieve", !.todo = {"rowCount"}, !.asks = TRUE]
<1>1. call \in Call /\ ~call.current /\ "rowCount" \in call.todo
  BY IdleIsCall DEF Idle, Call, Flags
<1>2. /\ ask' = [ask EXCEPT ![c] = call] /\ ask[c].at = "none"
      /\ UNCHANGED <<present, changed, exclusive, cached, missed>>
  BY DEF records
<1> HIDE DEF call
<1>3. Holds(c)'
  BY <1>1, <1>2 DEF Holds, StatsInv, TTypeOK
<1>4. QED
  BY <1>1, <1>2, <1>3, StatsAsk

LEMMA StatsRetrieve ==
  ASSUME StatsInv, NEW c \in Clients, retrieveTableInfo(c) PROVE StatsInv'
<1> USE DEF StatsInv, TTypeOK
<1>1. /\ ask[c].at = "retrieve" /\ UNCHANGED <<present, changed, exclusive, cached, missed>>
      /\ Count' = Count /\ Count \in Counts
  BY CountIsCounts DEF retrieveTableInfo, Count
<1>2. CASE ask' = [ask EXCEPT ![c] = Idle]
  BY <1>1, <1>2, StatsAskIdle
<1>3. CASE ask' = [ask EXCEPT ![c] = [ask[c] EXCEPT !.at = "store", !.asks = FALSE,
                                                    !.records = Count, !.current = TRUE]]
           /\ "rowCount" \in ask[c].todo
  <2> DEFINE call == [ask[c] EXCEPT !.at = "store", !.asks = FALSE,
                                    !.records = Count, !.current = TRUE]
  <2>1. call \in Call /\ call.at = "store" /\ call.records = Count /\ "rowCount" \in call.todo
    BY <1>1, <1>3 DEF Call
  <2>2. Holds(c)'
    BY <1>1, <1>3, <2>1 DEF Holds
  <2>3. QED
    BY <1>1, <1>3, <2>1, <2>2, StatsAsk
<1>4. CASE ask' = [ask EXCEPT ![c] = [ask[c] EXCEPT !.at = "store"]]
           /\ "rowCount" \in ask[c].todo /\ ~ask[c].asks
  <2> DEFINE call == [ask[c] EXCEPT !.at = "store"]
  <2>1. /\ call \in Call /\ call.at = "store" /\ "rowCount" \in call.todo
        /\ call.current = ask[c].current /\ call.records = ask[c].records
    BY <1>1, <1>4 DEF Call
  <2>2. Holds(c)'
    BY <1>1, <1>4, <2>1, Holds(c) DEF Holds
  <2>3. QED
    BY <1>1, <1>4, <2>1, <2>2, StatsAsk
<1>5. QED
  BY <1>1, <1>2, <1>3, <1>4, Holds(c) DEF retrieveTableInfo, Holds
(* Storing a value: the count, if that is the next.                        *)
LEMMA StatsCache ==
  ASSUME StatsInv, NEW c \in Clients, cacheValue(c) PROVE StatsInv'
<1> USE DEF StatsInv, TTypeOK
<1>1. /\ ask[c].at = "store" /\ ask' = [ask EXCEPT ![c].at = "flag", ![c].seen = cached.flags]
      /\ UNCHANGED <<present, changed, exclusive>> /\ Count' = Count
  BY DEF cacheValue, Count
<1>2. /\ cached'.flags = cached.flags /\ cached'.records \in Counts
      /\ cached' \in [flags : SUBSET Flags, records : Counts] /\ missed' \in BOOLEAN
  BY DEF cacheValue, Call
<1>3. ask[c].current => missed' \/ cached'.records = Count
  BY <1>1, Holds(c) DEF cacheValue, Holds
<1>4. missed' \/ cached'.records = Count \/ (cached'.records = cached.records /\ missed' = missed)
  BY <1>1, Holds(c) DEF cacheValue, Holds
<1>5. TTypeOK'
  <2>1. [ask[c] EXCEPT !.at = "flag", !.seen = cached.flags] \in Call
    BY DEF Call
  <2>2. ask' = [ask EXCEPT ![c] = [ask[c] EXCEPT !.at = "flag", !.seen = cached.flags]]
    BY <1>1
  <2>3. QED
    BY <1>1, <1>2, <2>1, <2>2
<1>6. ASSUME NEW d \in Clients PROVE Holds(d)'
  BY <1>1, <1>3, <1>4, Holds(d) DEF Holds
<1>7. Invalidating' = Invalidating
  BY <1>1 DEF Invalidating
<1>8. CountCurrent'
  BY <1>1, <1>2, <1>4, <1>7 DEF CountCurrent, isInited
<1>9. QED
  BY <1>5, <1>6, <1>8

(* Setting its flag: by then it is there.                                  *)
LEMMA StatsSet ==
  ASSUME StatsInv, NEW c \in Clients, setFlag(c) PROVE StatsInv'
<1> USE DEF StatsInv, TTypeOK
<1> DEFINE f == FirstOf(ask[c].todo)
           rest == ask[c].todo \ {f}
<1>1. /\ ask[c].at = "flag" /\ cached' = [cached EXCEPT !.flags = ask[c].seen \cup {f}]
      /\ missed' = (missed \/ ~ask[c].current)
      /\ UNCHANGED <<present, changed, exclusive>> /\ Count' = Count
  BY DEF setFlag, Count
<1>2. ask' = [ask EXCEPT ![c] = IF rest = {} THEN Idle
                 ELSE [ask[c] EXCEPT !.at = "store", !.todo = rest, !.seen = {}]]
  BY DEF setFlag
<1>3. f \in Flags /\ "rowCount" \notin rest /\ rest \subseteq Flags
  BY DEF FirstOf, Flags, Call
<1> HIDE DEF f, rest
<1>4. TTypeOK'
  <2>1. ask' \in [Clients -> Call]
    BY <1>2, <1>3, IdleIsCall, ZenonT(60) DEF Call
  <2>2. cached' \in [flags : SUBSET Flags, records : Counts]
    BY <1>1, <1>3 DEF Call
  <2>3. missed' \in BOOLEAN
    BY <1>1
  <2>4. QED
    BY <1>1, <2>1, <2>2, <2>3
<1>5. /\ cached'.records = cached.records /\ missed => missed'
      /\ missed' \/ cached.records = Count
  BY <1>1, Holds(c) DEF Holds
<1>6. ASSUME NEW d \in Clients PROVE Holds(d)'
  BY <1>1, <1>2, <1>3, <1>5, Holds(d) DEF Holds, Idle
<1>7. CountCurrent'
  BY <1>1, <1>5 DEF CountCurrent
<1>8. QED
  BY <1>4, <1>6, <1>7

LEMMA StatsInvalidate ==
  ASSUME StatsInv, NEW c \in Clients, invalidateCachedStats(c) PROVE StatsInv'
<1> USE DEF StatsInv, TTypeOK
<1>1. /\ cached' = [cached EXCEPT !.flags = @ \ invalidated] /\ ask' = [ask EXCEPT ![c] = Idle]
      /\ UNCHANGED <<present, changed, exclusive, missed>> /\ Count' = Count
  BY DEF invalidateCachedStats, Count
<1>2. cached'.flags = {} /\ cached'.records = cached.records
  BY <1>1 DEF invalidated
<1>3. TTypeOK'
  BY <1>1, IdleIsCall
<1>4. ASSUME NEW d \in Clients PROVE Holds(d)'
  BY <1>1, <1>2, Holds(d) DEF Holds, Idle
<1>5. CountCurrent'
  BY <1>2 DEF CountCurrent, isInited
<1>6. QED
  BY <1>3, <1>4, <1>5
(* Rows come and go: every other call is overtaken, and either the one     *)
(* that changed them has yet to mark the cached values, or the count is    *)
(* missed.                                                                 *)
LEMMA StatsRows ==
  ASSUME StatsInv, present' \subseteq Rows, changed' \in [Clients -> SUBSET Rows],
         exclusive' = exclusive, cached' = cached, ask' \in [Clients -> Call],
         missed' \in BOOLEAN, missed' \/ Invalidating' # {},
         \A d \in Clients : Holds(d)'
  PROVE  StatsInv'
  BY DEF StatsInv, TTypeOK, CountCurrent

LEMMA OvertakenHolds ==
  ASSUME StatsInv, NEW c \in Clients, NEW own \in Call, ~own.current, own.at # "retrieve",
         ask' = Overtaken(c, own)
  PROVE  ask' \in [Clients -> Call] /\ \A d \in Clients : Holds(d)'
<1>1. ASSUME NEW d \in Clients PROVE ask'[d] \in Call /\ Holds(d)'
  <2>1. CASE d = c
    BY <2>1 DEF Overtaken, Holds
  <2>2. CASE d # c
    <3>1. ask'[d] = [ask[d] EXCEPT !.current = FALSE]
      BY <2>2 DEF Overtaken
    <3>2. QED
      BY <3>1, ClaimsNothing DEF Call, StatsInv, TTypeOK
  <2>3. QED
    BY <2>1, <2>2
<1>2. QED
  BY <1>1 DEF Overtaken

LEMMA StatsChange ==
  ASSUME StatsInv, NEW c \in Clients, NEW S \in SUBSET Rows, ChangeRows(c, S)
  PROVE  StatsInv'
<1> DEFINE own == [Idle EXCEPT !.at = "invalidate"]
<1>1. own \in Call /\ ~own.current /\ own.at = "invalidate"
  BY IdleIsCall DEF Call, Idle
<1>2. /\ present' = Differ(present, S) /\ changed' = [changed EXCEPT ![c] = Differ(@, S)]
      /\ ask' = Overtaken(c, own) /\ UNCHANGED <<exclusive, cached, missed>>
  BY DEF ChangeRows
<1> HIDE DEF own
<1>3. present' \subseteq Rows /\ changed' \in [Clients -> SUBSET Rows]
  BY <1>2 DEF StatsInv, TTypeOK, Differ
<1>4. ask'[c] = own
  BY <1>2 DEF Overtaken
<1>5. Invalidating' # {}
  BY <1>1, <1>4 DEF Invalidating
<1>6. missed' \in BOOLEAN
  BY <1>2 DEF StatsInv, TTypeOK
<1>7. QED
  BY <1>1, <1>2, <1>3, <1>5, <1>6, OvertakenHolds, StatsRows

LEMMA StatsRollback ==
  ASSUME StatsInv, NEW c \in Clients, rollback(c) PROVE StatsInv'
<1>1. /\ present' = Differ(present, changed[c]) /\ changed' = [changed EXCEPT ![c] = {}]
      /\ missed' = TRUE /\ ask' = Overtaken(c, Idle) /\ UNCHANGED <<exclusive, cached>>
  BY DEF rollback
<1>2. present' \subseteq Rows /\ changed' \in [Clients -> SUBSET Rows]
  BY <1>1 DEF StatsInv, TTypeOK, Differ
<1>3. ~Idle.current /\ Idle.at # "retrieve"
  BY DEF Idle
<1>4. QED
  BY <1>1, <1>2, <1>3, IdleIsCall, OvertakenHolds, StatsRows

LEMMA StatsOther ==
  ASSUME StatsInv, NEW r \in Rows, OtherProgram(r) PROVE StatsInv'
<1>1. /\ present' = Differ(present, {r}) /\ missed' = TRUE
      /\ ask' = [c \in Clients |-> [ask[c] EXCEPT !.current = FALSE]]
      /\ UNCHANGED <<changed, exclusive, cached>>
  BY DEF OtherProgram
<1>2. present' \subseteq Rows /\ changed' \in [Clients -> SUBSET Rows]
  BY <1>1 DEF StatsInv, TTypeOK, Differ
<1>3. ask' \in [Clients -> Call]
  BY <1>1, ZenonT(60) DEF StatsInv, TTypeOK, Call
<1>4. ASSUME NEW d \in Clients PROVE Holds(d)'
  BY <1>1, ClaimsNothing DEF StatsInv, TTypeOK, Call
<1>5. QED
  BY <1>1, <1>2, <1>3, <1>4, StatsRows

(* Steps that are none of the cache's business.                            *)
LEMMA StatsElse ==
  ASSUME StatsInv, UNCHANGED <<present, cached, ask, missed>>,
         exclusive' \in BOOLEAN, changed' \in [Clients -> SUBSET Rows]
  PROVE  StatsInv'
  BY DEF StatsInv, TTypeOK, CountCurrent, isInited, Invalidating, Count, Holds

LEMMA StatsStep ==
  ASSUME StatsInv, [TNext]_tvars PROVE StatsInv'
<1>1. ASSUME NEW c \in Clients, retrieveTableInfo_Failed(c) PROVE StatsInv'
  BY <1>1, StatsAskIdle DEF retrieveTableInfo_Failed
<1>2. ASSUME NEW c \in Clients,
             \/ \E S \in SUBSET Rows : flushWrite(c, S)
             \/ \E r \in Rows : delete_row(c, r)
             \/ delete_all_rows(c)
      PROVE StatsInv'
  <2>1. PICK S \in SUBSET Rows : ChangeRows(c, S)
    BY <1>2 DEF flushWrite, delete_row, delete_all_rows, StatsInv, TTypeOK
  <2>2. QED
    BY <2>1, StatsChange
<1>3. ASSUME NEW c \in Clients, commit(c) PROVE StatsInv'
  BY <1>3, StatsElse DEF commit, StatsInv, TTypeOK
<1>4. CASE SetExclusiveUse
  BY <1>4, StatsElse DEF SetExclusiveUse, StatsInv, TTypeOK
<1>5. CASE UNCHANGED tvars
  BY <1>5, StatsElse DEF tvars, StatsInv, TTypeOK
<1>6. QED
  BY <1>1, <1>2, <1>3, <1>4, <1>5, StatsInfo, StatsRecords, StatsRetrieve, StatsCache, StatsSet,
     StatsInvalidate, StatsRollback, StatsOther DEF TNext

LEMMA StatsStart == TInit => StatsInv
<1> SUFFICES ASSUME TInit PROVE StatsInv
  OBVIOUS
<1>1. TTypeOK
  BY IdleIsCall DEF TInit, TTypeOK
<1>2. CountCurrent
  BY DEF TInit, CountCurrent, isInited
<1>3. ASSUME NEW c \in Clients PROVE Holds(c)
  BY DEF TInit, Holds, Idle
<1>4. QED
  BY <1>1, <1>2, <1>3 DEF StatsInv

(* However many connections ask for statistics and change rows, info never *)
(* answers from the cache with a count that the operations on the rows     *)
(* have left behind (invalidateCachedStats, CStats, info, records).        *)
THEOREM CountCurrentTheorem == TSpec => []CountCurrent
<1>1. StatsInv /\ [TNext]_tvars => StatsInv'
  BY StatsStep
<1>2. StatsInv => CountCurrent
  BY DEF StatsInv
<1>3. QED
  BY <1>1, <1>2, StatsStart, PTL DEF TSpec

-----------------------------------------------------------------------------
(* IndexNames: DB2's indexes and the keys of MySQL's tables.               *)

(* The sort sequence of the first columns, column by column.               *)
SortStep(columns, sort, u, k) ==
  IF k = 0 THEN sort ELSE updateAssociatedSortSequence(columns[k], u[k - 1])

LEMMA FieldListSteps ==
  ASSUME NEW columns \in Seq(STRING), NEW sort
  PROVE  \E u : /\ buildIndexFieldList(columns, sort) = u[Len(columns)]
                /\ \A k \in 0..Len(columns) : u[k] = SortStep(columns, sort, u, k)
<1> DEFINE P == {m \in Nat : \E u : u = [k \in 0..m |-> SortStep(columns, sort, u, k)]}
<1>1. Len(columns) \in Nat BY LenProperties
<1>2. 0 \in P
  <2>1. [k \in 0..0 |-> sort] = [k \in 0..0 |-> SortStep(columns, sort, [l \in 0..0 |-> sort], k)]
    BY DEF SortStep
  <2>2. QED BY <2>1
<1>3. ASSUME NEW m \in 0..Len(columns) - 1, m \in P PROVE m + 1 \in P
  <2>1. PICK u : u = [k \in 0..m |-> SortStep(columns, sort, u, k)] BY <1>3
  <2> DEFINE v == [k \in 0..m + 1 |-> IF k <= m THEN u[k] ELSE SortStep(columns, sort, u, k)]
  <2>2. ASSUME NEW k \in 0..m + 1 PROVE v[k] = SortStep(columns, sort, v, k)
    <3>1. k # 0 => k - 1 \in 0..m /\ v[k - 1] = u[k - 1] BY <1>1
    <3>2. SortStep(columns, sort, v, k) = SortStep(columns, sort, u, k) BY <3>1 DEF SortStep
    <3>3. k <= m => u[k] = SortStep(columns, sort, u, k) BY <2>1
    <3>4. QED BY <3>2, <3>3
  <2>3. v = [k \in 0..m + 1 |-> SortStep(columns, sort, v, k)] BY <2>2
  <2> HIDE DEF v
  <2>4. QED BY <2>3, <1>1
<1>4. Len(columns) \in P
  <2> HIDE DEF P
  <2>1. \A m \in 0..Len(columns) - 1 : m \in P => m + 1 \in P BY <1>3
  <2>2. \A m \in 0..Len(columns) : m \in P BY <1>1, <1>2, <2>1, InductionUpTo
  <2>3. QED BY <1>1, <2>2
<1> DEFINE u == CHOOSE u : u = [k \in 0..Len(columns) |-> SortStep(columns, sort, u, k)]
<1>5. u = [k \in 0..Len(columns) |-> SortStep(columns, sort, u, k)] BY <1>4
<1>6. buildIndexFieldList(columns, sort) = u[Len(columns)] BY DEF buildIndexFieldList, SortStep
<1> HIDE DEF u
<1>7. \A k \in 0..Len(columns) : u[k] = SortStep(columns, sort, u, k) BY <1>5
<1>8. QED BY <1>6, <1>7

(* A list of columns that is not refused has one sort sequence: that of    *)
(* all its text columns, and the one it came with, if it came with one.    *)
LEMMA FieldListSorted ==
  ASSUME NEW columns \in Seq(STRING), NEW sort,
         buildIndexFieldList(columns, sort) # Refused
  PROVE  /\ \A k \in DOMAIN columns : columns[k] # "binary" => columns[k] \in DOMAIN collation_map
         /\ SortedAs(columns, buildIndexFieldList(columns, sort))
         /\ sort # Unsorted => buildIndexFieldList(columns, sort) = sort
<1>1. Len(columns) \in Nat /\ DOMAIN columns = 1..Len(columns) BY LenProperties
<1>2. PICK u : /\ buildIndexFieldList(columns, sort) = u[Len(columns)]
               /\ \A k \in 0..Len(columns) : u[k] = SortStep(columns, sort, u, k)
  BY FieldListSteps
<1> DEFINE Good(m) == /\ \A j \in 1..m : columns[j] # "binary" => columns[j] \in DOMAIN collation_map /\ collation_map[columns[j]] = u[m]
                      /\ sort # Unsorted => u[m] = sort
           P == {m \in Nat : u[m] = Refused \/ Good(m)}
<1>3. 0 \in P
  <2>1. u[0] = sort BY <1>1, <1>2 DEF SortStep
  <2>2. QED BY <2>1
<1>4. ASSUME NEW m \in 0..Len(columns) - 1, m \in P PROVE m + 1 \in P
  <2>1. m \in Nat /\ m + 1 \in 1..Len(columns) /\ m + 1 \in 0..Len(columns) /\ m + 1 # 0
        /\ (m + 1) - 1 = m
    BY <1>1
  <2>2. u[m + 1] = updateAssociatedSortSequence(columns[m + 1], u[m])
    <3>1. u[m + 1] = SortStep(columns, sort, u, m + 1) BY <1>2, <2>1
    <3>2. QED BY <3>1, <2>1 DEF SortStep
  <2>3. \A j \in 1..m + 1 : j \in 1..m \/ j = m + 1 BY <2>1
  <2>4. CASE columns[m + 1] = "binary" \/ u[m] = Refused
    <3>1. u[m + 1] = u[m] BY <2>2, <2>4 DEF updateAssociatedSortSequence
    <3>2. QED BY <1>4, <2>1, <2>3, <2>4, <3>1
  <2>5. CASE columns[m + 1] # "binary" /\ u[m] # Refused /\ u[m + 1] # Refused
    <3>1. /\ columns[m + 1] \in DOMAIN collation_map
          /\ u[m] \in {Unsorted, collation_map[columns[m + 1]]}
          /\ u[m + 1] = collation_map[columns[m + 1]]
      BY <2>2, <2>5 DEF updateAssociatedSortSequence
    <3>2. Good(m) BY <1>4, <2>5
    <3>3. CASE u[m] = Unsorted
      <4>1. \A j \in 1..m : columns[j] = "binary" BY <3>2, <3>3, SequencesAssumption
      <4>2. sort = Unsorted BY <3>2, <3>3
      <4>3. QED BY <2>1, <2>3, <3>1, <4>1, <4>2
    <3>4. CASE u[m] # Unsorted
      <4>1. u[m + 1] = u[m] BY <3>1, <3>4
      <4>2. sort # Unsorted => u[m + 1] = sort BY <3>2, <4>1
      <4>3. ASSUME NEW j \in 1..m + 1, columns[j] # "binary"
            PROVE  columns[j] \in DOMAIN collation_map /\ collation_map[columns[j]] = u[m + 1]
        BY <2>3, <3>1, <3>2, <4>1, <4>3
      <4>4. QED BY <2>1, <4>2, <4>3
    <3>5. QED BY <3>3, <3>4
  <2>6. CASE u[m + 1] = Refused BY <2>1, <2>6
  <2>7. QED BY <2>4, <2>5, <2>6
<1>5. Len(columns) \in P
  <2> HIDE DEF P
  <2>1. \A m \in 0..Len(columns) - 1 : m \in P => m + 1 \in P BY <1>4
  <2>2. \A m \in 0..Len(columns) : m \in P BY <1>1, <1>3, <2>1, InductionUpTo
  <2>3. QED BY <1>1, <2>2
<1>6. Good(Len(columns)) BY <1>2, <1>5
<1>7. QED BY <1>1, <1>2, <1>6 DEF SortedAs, sequences

-----------------------------------------------------------------------------
(* What a table needs of its files.                                        *)
ServedBy(path, def, key, ixs) ==
  \E i \in ixs : /\ i.lib = path.lib /\ i.name = openedFile(path, def, key)
                 /\ i.on = path /\ i.key = key /\ SortedAs(key.columns, i.sort)
KeysServed(path, def, ixs) ==
  \A key \in {k \in ownIndexes(path, def) : KeptWithDelimiter(k)} : ServedBy(path, def, key, ixs)
FileSorted(path, def, sort) ==
  /\ SortedAs(def.references, sort)
  /\ (def.primary # None /\ ~isTemporary(path)) => SortedAs(def.primary.columns, sort)

NamesTypes ==
  /\ DOMAIN defined = DOMAIN sorted /\ DOMAIN defined \subseteq Paths
  /\ \A p \in DOMAIN defined : defined[p] \in Definitions
  /\ \A i \in indexes :
       /\ i = [lib |-> i.lib, name |-> i.name, on |-> i.on, key |-> i.key, sort |-> i.sort]
       /\ i.on \in Paths /\ i.lib = i.on.lib
NamesInv ==
  /\ NamesTypes
  /\ \A p \in DOMAIN defined : KeysServed(p, defined[p], indexes) /\ FileSorted(p, defined[p], sorted[p])

LEMMA NamesServe == NamesInv => IndexesServe
BY DEF NamesInv, IndexesServe, KeysServed, FileSorted, ServedBy, openedFile

(* Keys that a table has files of their own for are named apart from it.   *)
LEMMA OwnNamed ==
  ASSUME NEW path, NEW def \in Definitions, NEW key \in ownIndexes(path, def)
  PROVE  isKey(key) /\ openedFile(path, def, key) = indexFile(path, key)
BY DefinitionsAssumption DEF ownIndexes, openedFile, isKey

LEMMA MoreServe ==
  ASSUME NEW path, NEW def, NEW ixs, NEW more, KeysServed(path, def, ixs), ixs \subseteq more
  PROVE  KeysServed(path, def, more)
BY DEF KeysServed, ServedBy

LEMMA CreateServes ==
  ASSUME NEW path \in Paths, NEW def \in Definitions, NEW ixs,
         {buildCreateIndexStatement(path, key) : key \in ownIndexes(path, def)} \subseteq ixs,
         \A key \in ownIndexes(path, def) : buildCreateIndexStatement(path, key).sort # Refused
  PROVE  KeysServed(path, def, ixs)
<1>1. ASSUME NEW key \in ownIndexes(path, def) PROVE ServedBy(path, def, key, ixs)
  <2> DEFINE i == buildCreateIndexStatement(path, key)
  <2>1. isKey(key) /\ openedFile(path, def, key) = indexFile(path, key) BY OwnNamed
  <2>2. /\ i.lib = path.lib /\ i.name = indexFile(path, key) /\ i.on = path /\ i.key = key
        /\ i.sort = buildIndexFieldList(key.columns, Unsorted)
    BY DEF buildCreateIndexStatement
  <2>3. i \in ixs /\ i.sort # Refused OBVIOUS
  <2> HIDE DEF i
  <2>4. SortedAs(key.columns, i.sort) BY <2>1, <2>2, <2>3, FieldListSorted DEF isKey
  <2>5. QED BY <2>1, <2>2, <2>3, <2>4 DEF ServedBy
<1>2. QED BY <1>1 DEF KeysServed

LEMMA CreateSorts ==
  ASSUME NEW path \in Paths, NEW def \in Definitions, tableSort(path, def) # Refused
  PROVE  FileSorted(path, def, tableSort(path, def))
<1> DEFINE own == def.primary # None /\ ~isTemporary(path)
           first == IF own THEN buildIndexFieldList(def.primary.columns, Unsorted) ELSE Unsorted
<1>1. def.references \in Seq(STRING) /\ (own => def.primary.columns \in Seq(STRING))
  BY DefinitionsAssumption DEF isKey
<1>2. tableSort(path, def) = buildIndexFieldList(def.references, first)
  BY DEF tableSort
<1>3. SortedAs(def.references, tableSort(path, def))
  BY <1>1, <1>2, FieldListSorted
<1>4. ASSUME own PROVE SortedAs(def.primary.columns, tableSort(path, def))
  <2>1. first = buildIndexFieldList(def.primary.columns, Unsorted) BY <1>4
  <2> HIDE DEF first
  <2>2. first # Unsorted => tableSort(path, def) = first BY <1>1, <1>2, FieldListSorted
  <2>3. CASE first = Unsorted
    <3>1. Unsorted # Refused BY DEF Unsorted, Refused
    <3>2. /\ SortedAs(def.primary.columns, Unsorted)
          /\ \A k \in DOMAIN def.primary.columns :
               def.primary.columns[k] # "binary" => def.primary.columns[k] \in DOMAIN collation_map
      BY <1>1, <1>4, <2>1, <2>3, <3>1, FieldListSorted, ZenonT(60)
    <3>3. sequences(def.primary.columns) = {}
      BY <3>2, SequencesAssumption DEF SortedAs, sequences
    <3>4. QED BY <3>3 DEF SortedAs
  <2>4. CASE first # Unsorted
    <3>1. first # Refused BY <2>2, <2>4
    <3>2. SortedAs(def.primary.columns, first) BY <1>1, <1>4, <2>1, <3>1, FieldListSorted
    <3>3. QED BY <2>2, <2>4, <3>2
  <2>5. QED BY <2>3, <2>4
<1>5. QED BY <1>3, <1>4 DEF FileSorted

LEMMA CreateKeeps ==
  ASSUME NamesInv, NEW path \in Paths, NEW def \in Definitions, createTable(path, def)
  PROVE  NamesInv'
<1> DEFINE made == {buildCreateIndexStatement(path, key) : key \in ownIndexes(path, def)}
<1>1. /\ path \notin DOMAIN defined /\ tableSort(path, def) # Refused
      /\ \A i \in made : i.sort # Refused
      /\ indexes' = indexes \cup made
  BY DEF createTable
<1>2. /\ DOMAIN defined' = DOMAIN defined \cup {path}
      /\ \A p \in DOMAIN defined \cup {path} : defined'[p] = IF p = path THEN def ELSE defined[p]
  BY DEF createTable
<1>3. /\ DOMAIN sorted' = DOMAIN sorted \cup {path}
      /\ \A p \in DOMAIN sorted \cup {path} :
           sorted'[p] = IF p = path THEN tableSort(path, def) ELSE sorted[p]
  BY DEF createTable
<1>4. NamesTypes BY DEF NamesInv
<1>5. ASSUME NEW i \in made
      PROVE  /\ i = [lib |-> i.lib, name |-> i.name, on |-> i.on, key |-> i.key, sort |-> i.sort]
             /\ i.on \in Paths /\ i.lib = i.on.lib
  BY <1>5 DEF buildCreateIndexStatement
<1>6. NamesTypes'
  <2>1. DOMAIN defined' = DOMAIN sorted' /\ DOMAIN defined' \subseteq Paths
    BY <1>2, <1>3, <1>4 DEF NamesTypes
  <2>2. \A p \in DOMAIN defined' : defined'[p] \in Definitions BY <1>2, <1>4 DEF NamesTypes
  <2> HIDE DEF made
  <2>3. QED BY <1>1, <1>4, <1>5, <2>1, <2>2 DEF NamesTypes
<1>7. ASSUME NEW p \in DOMAIN defined, p # path
      PROVE  KeysServed(p, defined'[p], indexes') /\ FileSorted(p, defined'[p], sorted'[p])
  <2>1. defined'[p] = defined[p] /\ sorted'[p] = sorted[p] BY <1>2, <1>3, <1>4, <1>7 DEF NamesTypes
  <2>2. KeysServed(p, defined[p], indexes) /\ FileSorted(p, defined[p], sorted[p]) BY DEF NamesInv
  <2>3. indexes \subseteq indexes' BY <1>1
  <2>4. QED BY <2>1, <2>2, <2>3, MoreServe
<1>8. KeysServed(path, def, indexes') /\ FileSorted(path, def, tableSort(path, def))
  <2>1. \A key \in ownIndexes(path, def) : buildCreateIndexStatement(path, key).sort # Refused
    BY <1>1
  <2>2. made \subseteq indexes' BY <1>1
  <2>3. QED BY <1>1, <2>1, <2>2, CreateServes, CreateSorts
<1>9. ASSUME NEW p \in DOMAIN defined'
      PROVE  KeysServed(p, defined'[p], indexes') /\ FileSorted(p, defined'[p], sorted'[p])
  <2>1. CASE p = path
    <3>1. defined'[p] = def /\ sorted'[p] = tableSort(path, def) BY <1>2, <1>3, <2>1
    <3>2. QED BY <1>8, <2>1, <3>1
  <2>2. CASE p # path
    <3>1. p \in DOMAIN defined BY <1>2, <2>2
    <3>2. QED BY <1>7, <2>2, <3>1
  <2>3. QED BY <2>1, <2>2
<1>10. QED BY <1>6, <1>9 DEF NamesInv

LEMMA DropKeeps ==
  ASSUME NamesInv, NEW path, dropTable(path)
  PROVE  NamesInv'
<1>1. /\ DOMAIN defined' = DOMAIN defined \ {path} /\ DOMAIN sorted' = DOMAIN sorted \ {path}
      /\ \A p \in DOMAIN defined \ {path} : defined'[p] = defined[p]
      /\ \A p \in DOMAIN sorted \ {path} : sorted'[p] = sorted[p]
  BY DEF dropTable, Other
<1>2. indexes' = {i \in indexes : i.on # path} BY DEF dropTable
<1>3. NamesTypes BY DEF NamesInv
<1>4. NamesTypes' BY <1>1, <1>2, <1>3 DEF NamesTypes
<1>5. ASSUME NEW p \in DOMAIN defined, p # path
      PROVE  KeysServed(p, defined'[p], indexes') /\ FileSorted(p, defined'[p], sorted'[p])
  <2>1. defined'[p] = defined[p] /\ sorted'[p] = sorted[p] BY <1>1, <1>3, <1>5 DEF NamesTypes
  <2>2. KeysServed(p, defined[p], indexes) /\ FileSorted(p, defined[p], sorted[p]) BY DEF NamesInv
  <2>3. KeysServed(p, defined[p], indexes') BY <1>2, <1>5, <2>2 DEF KeysServed, ServedBy
  <2>4. QED BY <2>1, <2>2, <2>3
<1>6. QED BY <1>1, <1>4, <1>5 DEF NamesInv

(* Cutting off what the concatenation put behind.                          *)
LEMMA SubSeqOfConcat ==
  ASSUME NEW S, NEW s \in Seq(S), NEW t \in Seq(S)
  PROVE  /\ s \o t \in Seq(S) /\ Len(s \o t) = Len(s) + Len(t)
         /\ SubSeq(s \o t, 1, Len(s)) = s
         /\ \A k \in 1..Len(t) : (s \o t)[Len(s) + k] = t[k]
         /\ \A k \in 1..Len(s) : (s \o t)[k] = s[k]
BY ConcatProperties, SubSeqProperties, SeqEqual

LEMMA NotCut ==
  ASSUME NEW S, NEW s \in Seq(S), NEW n \in Nat, Len(s) <= n
  PROVE  Shorter(s, n) = s
BY LenProperties, SubSeqProperties, SeqEqual DEF Shorter

(* The provers do not know the underscore for a string.                    *)
Chars == STRING \cup {"_"}
LEMMA InChars == ASSUME NEW s \in Seq(STRING) PROVE s \in Seq(Chars)
<1>1. STRING \subseteq Chars BY DEF Chars
<1>2. Len(s) \in Nat /\ s \in [1..Len(s) -> STRING] BY LenProperties
<1>3. s \in [1..Len(s) -> Chars] BY <1>1, <1>2
<1>4. QED BY <1>2, <1>3, SeqDef

(* A rename finds the file of a key by its name, and gives it the name the *)
(* key has with the new table.                                             *)
LEMMA FoundByName ==
  ASSUME NEW from \in Paths, NEW to \in Paths, NEW key, isKey(key), KeptWithDelimiter(key),
         NEW i, i.name = indexFile(from, key)
  PROVE  matches(i.name, from.file) /\ renamed(i, from, to) = indexFile(to, key)
<1> DEFINE front == key.name \o Delimiter
<1>1. Delimiter \in Seq(Chars) /\ Len(Delimiter) = 3
  <2>1. <<"_", "_", "_">> \in Seq(Chars)
    <3>1. "_" \in Chars BY DEF Chars
    <3>2. \A c \in Chars : <<c, c, c>> \in Seq(Chars) OBVIOUS
    <3>3. QED BY <3>1, <3>2
  <2>2. QED BY <2>1 DEF Delimiter
<1>2. key.name \in Seq(Chars) /\ Len(key.name) \in Nat
  BY LenProperties, InChars DEF isKey
<1>3. from.file \in Seq(Chars) /\ to.file \in Seq(Chars) /\ Len(from.file) \in Nat
  BY PathsAssumption, LenProperties, InChars
<1>4. front \in Seq(Chars) /\ Len(front) = Len(key.name) + 3
  <2>1. front \in Seq(Chars) /\ Len(front) = Len(key.name) + Len(Delimiter)
    BY <1>1, <1>2, SubSeqOfConcat, ZenonT(60)
  <2>2. QED BY <1>1, <2>1
<1>5. \A k \in 1..3 : front[Len(key.name) + k] = Delimiter[k]
  <2>1. \A k \in 1..Len(Delimiter) : front[Len(key.name) + k] = Delimiter[k]
    <3>1. key.name \in Seq(Chars) /\ Delimiter \in Seq(Chars) BY <1>1, <1>2
    <3> HIDE DEF front
    <3>2. \A k \in 1..Len(Delimiter) : (key.name \o Delimiter)[Len(key.name) + k] = Delimiter[k]
      BY <3>1, SubSeqOfConcat
    <3>3. QED BY <3>2 DEF front
  <2>2. QED BY <1>1, <2>1
<1>6. Len(key.name) <= Preserved /\ Len(front) <= Preserved
  BY <1>1, <1>2, <1>4, NamesAssumption DEF KeptWithDelimiter
<1>7. indexFile(from, key) = front \o from.file /\ indexFile(to, key) = front \o to.file
  <2>1. Shorter(key.name, Preserved) = key.name BY <1>2, <1>6, NamesAssumption, NotCut
  <2>2. QED BY <2>1 DEF indexFile, appendQualifiedIndexFileName
<1> HIDE DEF front
<1> DEFINE n == i.name
<1>8. n = front \o from.file BY <1>7
<1> HIDE DEF n
<1>9. n \in Seq(Chars) /\ Len(n) = Len(front) + Len(from.file)
  BY <1>3, <1>4, <1>8, SubSeqOfConcat, ZenonT(60)
<1>10. SubSeq(n, 1, Len(front)) = front BY <1>3, <1>4, <1>8, SubSeqOfConcat
<1>11. /\ \A k \in 1..Len(from.file) : n[Len(front) + k] = from.file[k]
       /\ \A k \in 1..Len(front) : n[k] = front[k]
  BY <1>3, <1>4, <1>8, SubSeqOfConcat, SMTT(60)
<1>12. Len(front) \in Nat /\ Len(n) - Len(from.file) = Len(front) BY <1>2, <1>3, <1>4, <1>9
<1>13. matches(n, from.file)
  <2> DEFINE k == Len(key.name) + 1
  <2>1. k \in Nat /\ k \in 1..(Len(front) - 2) /\ k + 2 = Len(front) BY <1>2, <1>4
  <2>2. k + 2 <= Len(n)
    <3> HIDE DEF k
    <3>1. QED BY <2>1, <1>3, <1>9, <1>12
  <2>3. SubSeq(n, k, k + 2) = Delimiter
    <3>1. \A j \in k..k + 2 : n[j] \in Chars
      <4>1. k..k + 2 \subseteq 1..Len(n) BY <2>1, <2>2
      <4>2. QED BY <4>1, <1>9, ElementOfSeq
    <3>2. k \in Int /\ k + 2 \in Int /\ k <= k + 2 /\ k + 2 - k + 1 = 3 BY <2>1
    <3>3. /\ SubSeq(n, k, k + 2) \in Seq(Chars) /\ Len(SubSeq(n, k, k + 2)) = 3
          /\ \A j \in 1..3 : SubSeq(n, k, k + 2)[j] = n[k + j - 1]
      <4> HIDE DEF k
      <4>1. QED BY <3>1, <3>2, SubSeqProperties
    <3>4. ASSUME NEW j \in 1..3 PROVE SubSeq(n, k, k + 2)[j] = Delimiter[j]
      <4>1. k + j - 1 = Len(key.name) + j /\ Len(key.name) + j \in 1..Len(front) BY <1>2, <1>4
      <4>2. n[k + j - 1] = front[Len(key.name) + j] BY <1>11, <4>1
      <4> HIDE DEF k
      <4>3. QED BY <1>5, <3>3, <4>2
    <3> HIDE DEF k
    <3>5. QED BY <1>1, <3>3, <3>4, SeqEqual
  <2> HIDE DEF k
  <2>4. Len(n) >= Len(from.file) + Len(Delimiter) BY <1>1, <1>2, <1>3, <1>4, <1>9
  <2>5. \A j \in 1..Len(from.file) : from.file[j] = n[(Len(n) - Len(from.file)) + j]
    BY <1>11, <1>12
  <2>6. \E j \in 1..((Len(n) - Len(from.file)) - 2) : SubSeq(n, j, j + 2) = Delimiter
    BY <1>12, <2>1, <2>3
  <2>7. QED BY <2>4, <2>5, <2>6 DEF matches
<1>14. renamed(i, from, to) = front \o to.file
  <2>1. Shorter(front, Preserved) = front BY <1>4, <1>6, NamesAssumption, NotCut
  <2>2. SubSeq(n, 1, bytesToRetain(n, from.file)) = front BY <1>10, <1>12 DEF bytesToRetain
  <2>3. front \o <<>> = front BY <1>4, ConcatEmptySeq
  <2>4. QED BY <2>1, <2>2, <2>3 DEF renamed, appendQualifiedIndexFileName, n
<1>15. QED BY <1>7, <1>13, <1>14 DEF n

LEMMA RenameKeeps ==
  ASSUME NamesInv, NEW from \in Paths, NEW to \in Paths, renameTable(from, to)
  PROVE  NamesInv'
<1> DEFINE found == indexQuery(from)
           moved(i) == [i EXCEPT !.name = IF i \in found THEN renamed(i, from, to) ELSE @,
                                 !.on = IF @ = from THEN to ELSE @]
<1>1. /\ from \in DOMAIN defined /\ to \notin DOMAIN defined /\ from.lib = to.lib
      /\ ~isTemporary(from) /\ ~isTemporary(to)
  BY DEF renameTable, isTemporary
<1>2. /\ DOMAIN defined' = (DOMAIN defined \ {from}) \cup {to}
      /\ \A p \in DOMAIN defined' : defined'[p] = IF p = to THEN defined[from] ELSE defined[p]
  BY DEF renameTable
<1>3. /\ DOMAIN sorted' = (DOMAIN sorted \ {from}) \cup {to}
      /\ \A p \in DOMAIN sorted' : sorted'[p] = IF p = to THEN sorted[from] ELSE sorted[p]
  BY DEF renameTable
<1>4. indexes' = {moved(i) : i \in indexes} BY DEF renameTable
<1>5. NamesTypes BY DEF NamesInv
<1>6. \A i \in found : i.on = from
  BY <1>5, PathsAssumption DEF indexQuery, NamesTypes
<1> HIDE DEF found
<1>7. ASSUME NEW i \in indexes
      PROVE  /\ moved(i) = [lib |-> i.lib,
                            name |-> IF i \in found THEN renamed(i, from, to) ELSE i.name,
                            on |-> IF i.on = from THEN to ELSE i.on,
                            key |-> i.key, sort |-> i.sort]
  <2> DEFINE nm == IF i \in found THEN renamed(i, from, to) ELSE i.name
             on == IF i.on = from THEN to ELSE i.on
  <2>1. i = [lib |-> i.lib, name |-> i.name, on |-> i.on, key |-> i.key, sort |-> i.sort]
    BY <1>5 DEF NamesTypes
  <2>2. moved(i) = [i EXCEPT !.name = nm, !.on = on] OBVIOUS
  <2> HIDE DEF nm, on, moved
  <2>3. moved(i) = [lib |-> i.lib, name |-> nm, on |-> on, key |-> i.key, sort |-> i.sort]
    BY <2>1, <2>2
  <2>4. QED BY <2>3 DEF nm, on
<1> HIDE DEF moved
<1>8. NamesTypes'
  <2>1. DOMAIN defined' = DOMAIN sorted' /\ DOMAIN defined' \subseteq Paths
    BY <1>2, <1>3, <1>5 DEF NamesTypes
  <2>2. \A p \in DOMAIN defined' : defined'[p] \in Definitions
    BY <1>1, <1>2, <1>5 DEF NamesTypes
  <2>3. ASSUME NEW j \in indexes'
        PROVE  /\ j = [lib |-> j.lib, name |-> j.name, on |-> j.on, key |-> j.key, sort |-> j.sort]
               /\ j.on \in Paths /\ j.lib = j.on.lib
    <3>1. PICK i \in indexes : j = moved(i) BY <1>4, <2>3
    <3>2. i.on \in Paths /\ i.lib = i.on.lib BY <1>5 DEF NamesTypes
    <3>3. QED BY <1>1, <1>7, <3>1, <3>2
  <2>4. QED BY <2>1, <2>2, <2>3 DEF NamesTypes
<1>9. ASSUME NEW p \in DOMAIN defined, p # from
      PROVE  KeysServed(p, defined[p], indexes')
  <2>1. ASSUME NEW key \in ownIndexes(p, defined[p]), KeptWithDelimiter(key)
        PROVE  ServedBy(p, defined[p], key, indexes')
    <3>1. PICK i \in indexes : /\ i.lib = p.lib /\ i.name = openedFile(p, defined[p], key)
                               /\ i.on = p /\ i.key = key /\ SortedAs(key.columns, i.sort)
      BY <2>1 DEF NamesInv, KeysServed, ServedBy
    <3>2. i \notin found BY <1>6, <1>9, <3>1
    <3>3. moved(i) = i
      <4>1. i = [lib |-> i.lib, name |-> i.name, on |-> i.on, key |-> i.key, sort |-> i.sort]
        BY <1>5 DEF NamesTypes
      <4>2. QED BY <1>7, <1>9, <3>1, <3>2, <4>1
    <3>4. i \in indexes' BY <1>4, <3>3
    <3>5. QED BY <3>1, <3>4 DEF ServedBy
  <2>2. QED BY <2>1 DEF KeysServed
<1> DEFINE def == defined[from]
<1>10. def \in Definitions /\ ownIndexes(from, def) = ownIndexes(to, def)
  BY <1>1, <1>5 DEF NamesTypes, ownIndexes
<1> HIDE DEF def
<1>11. KeysServed(to, def, indexes')
  <2>1. ASSUME NEW key \in ownIndexes(to, def), KeptWithDelimiter(key)
        PROVE  ServedBy(to, def, key, indexes')
    <3>1. /\ isKey(key) /\ openedFile(from, def, key) = indexFile(from, key)
          /\ openedFile(to, def, key) = indexFile(to, key)
      BY <1>10, OwnNamed
    <3>2. PICK i \in indexes : /\ i.lib = from.lib /\ i.name = indexFile(from, key)
                               /\ i.on = from /\ i.key = key /\ SortedAs(key.columns, i.sort)
      BY <1>1, <1>10, <2>1, <3>1 DEF NamesInv, KeysServed, ServedBy, def
    <3>3. matches(i.name, from.file) /\ renamed(i, from, to) = indexFile(to, key)
      BY <2>1, <3>1, <3>2, FoundByName
    <3>4. i \in found BY <3>2, <3>3 DEF indexQuery, found
    <3>5. /\ moved(i).lib = to.lib /\ moved(i).name = indexFile(to, key) /\ moved(i).on = to
          /\ moved(i).key = key /\ moved(i).sort = i.sort
      BY <1>1, <1>7, <3>2, <3>3, <3>4
    <3>6. moved(i) \in indexes' BY <1>4
    <3>7. QED BY <3>1, <3>2, <3>5, <3>6 DEF ServedBy
  <2>2. QED BY <2>1 DEF KeysServed
<1>12. FileSorted(to, def, sorted[from])
  <2>1. FileSorted(from, def, sorted[from]) BY <1>1 DEF NamesInv, def
  <2>2. QED BY <1>1, <2>1 DEF FileSorted
<1>13. ASSUME NEW p \in DOMAIN defined'
       PROVE  KeysServed(p, defined'[p], indexes') /\ FileSorted(p, defined'[p], sorted'[p])
  <2>1. CASE p = to
    <3>1. defined'[p] = def /\ sorted'[p] = sorted[from]
      BY <1>2, <1>3, <1>5, <2>1 DEF NamesTypes, def
    <3>2. QED BY <1>11, <1>12, <2>1, <3>1
  <2>2. CASE p # to
    <3>1. p \in DOMAIN defined /\ p # from /\ p \in DOMAIN sorted'
      BY <1>2, <1>3, <1>5, <2>2 DEF NamesTypes
    <3>2. defined'[p] = defined[p] /\ sorted'[p] = sorted[p] BY <1>2, <1>3, <2>2, <3>1
    <3>3. QED BY <1>9, <3>1, <3>2 DEF NamesInv
  <2>3. QED BY <2>1, <2>2
<1>14. QED BY <1>8, <1>13 DEF NamesInv

LEMMA NamesStep == NamesInv /\ [INext]_ivars => NamesInv'
<1> SUFFICES ASSUME NamesInv, [INext]_ivars PROVE NamesInv' OBVIOUS
<1>1. CASE UNCHANGED ivars BY <1>1 DEF ivars, NamesInv, NamesTypes
<1>2. QED BY <1>1, CreateKeeps, DropKeeps, RenameKeeps DEF INext

LEMMA NamesStart == IInit => NamesInv
<1> SUFFICES ASSUME IInit PROVE NamesInv OBVIOUS
<1>1. DOMAIN defined = {} /\ DOMAIN sorted = {} BY DEF IInit
<1>2. indexes = {} BY DEF IInit
<1>3. QED BY <1>1, <1>2 DEF NamesInv, NamesTypes

(* For any tables, definitions, sort sequences and lengths of names, and   *)
(* whatever tables are created, renamed and dropped, however their names   *)
(* resemble each other: the file a handler opens for a key is that key's   *)
(* index on that table, sorted as all of its text columns are, if the name *)
(* of the key and the delimiter fit into what a rename keeps               *)
(* (db2i_file, rename_table, create).                                      *)
THEOREM IndexesAlwaysServe == ISpec => []IndexesServe
<1>1. QED BY NamesStart, NamesStep, NamesServe, PTL DEF ISpec

-----------------------------------------------------------------------------
(* Each of the four parts of SharedTable takes steps of its own or none,   *)
(* so that SharedTable implements each of them                             *)
(* (IBMDB2I_SHARE, whose fields they are).                                 *)
THEOREM PartsTheorem == SSpec => Spec /\ LSpec /\ TSpec /\ ISpec
<1>1. SInit => Init /\ LInit /\ TInit /\ IInit
  BY DEF SInit
<1>2. [SNext]_svars => [Next]_vars
  BY DEF SNext, svars
<1>3. [SNext]_svars => [LNext]_lvars
  BY DEF SNext, svars
<1>4. [SNext]_svars => [TNext]_tvars
  BY DEF SNext, svars
<1>5. [SNext]_svars => [INext]_ivars
  BY DEF SNext, svars
<1>6. QED
  BY <1>1, <1>2, <1>3, <1>4, <1>5, PTL DEF SSpec, Spec, LSpec, TSpec, ISpec
=============================================================================
