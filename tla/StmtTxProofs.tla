----------------------------- MODULE StmtTxProofs -----------------------------
(***************************************************************************)
(* Proofs about StmtTx for every set of changes and savepoints:            *)
(*                                                                         *)
(* - the types, and that the savepoints of DB2 are in order (Sound);       *)
(* - a statement transaction that ends has begun (BegunInv);               *)
(* - the engine is registered for every uncommitted change (RegisteredInv); *)
(* - a statement transaction is marked where its statement began, so that a *)
(*   failed statement is undone (StmtInv);                                 *)
(* - the connection implements SqlTransaction (SqlInv).                    *)
(*                                                                         *)
(* Each theorem says which uses of the server it is restricted to.         *)
(***************************************************************************)
EXTENDS StmtTx, SequenceTheorems, WellFoundedInduction, TLAPS

(* Every set of numbers has a least one.                                   *)
LEMMA MinNat ==
  ASSUME NEW T \in SUBSET Nat, T # {}
  PROVE  \E x \in T : \A y \in T : x <= y
<1> DEFINE R == OpToRel(<, Nat)
<1>1. IsWellFoundedOn(R, Nat) BY NatLessThanWellFounded
<1> HIDE DEF R
<1>2. PICK x \in T : \A y \in T : ~ (<<y, x>> \in R) BY <1>1, WFMin
<1>3. \A y \in T : ~ (y < x) BY <1>2 DEF R, OpToRel
<1>4. QED BY <1>3

(* Induction up to m, over the set of the numbers with a property.         *)
LEMMA InductionUpTo ==
  ASSUME NEW m \in Nat, NEW P, 0 \in P, \A k \in 0..m - 1 : k \in P => k + 1 \in P
  PROVE  \A k \in 0..m : k \in P
<1> SUFFICES ASSUME {k \in 0..m : k \notin P} # {} PROVE FALSE OBVIOUS
<1> DEFINE T == {k \in 0..m : k \notin P}
<1>1. PICK x \in T : \A y \in T : x <= y
  <2>1. T \in SUBSET Nat /\ T # {} OBVIOUS
  <2> HIDE DEF T
  <2>2. QED BY <2>1, MinNat
<1>2. x \in 1..m /\ x - 1 \in 0..m - 1 /\ (x - 1) + 1 = x OBVIOUS
<1>3. x - 1 \in P BY <1>1, <1>2
<1>4. QED BY <1>2, <1>3

-----------------------------------------------------------------------------
(* Savepoints by name: what WithoutName leaves of a list.                  *)

Kept(s, n, u, k) ==
  IF k = 0 THEN <<>> ELSE IF s[k].name = n THEN u[k - 1] ELSE Append(u[k - 1], s[k])

(* What WithoutName computes, step by step. *)
LEMMA WithoutNameSteps ==
  ASSUME NEW S, NEW s \in Seq(S), NEW n
  PROVE  \E u : /\ WithoutName(s, n) = u[Len(s)]
                /\ \A k \in 0..Len(s) : u[k] = Kept(s, n, u, k)
<1> DEFINE P == {m \in Nat : \E u : u = [k \in 0..m |-> Kept(s, n, u, k)]}
<1>1. Len(s) \in Nat BY LenProperties
<1>2. 0 \in P
  <2>1. [k \in 0..0 |-> <<>>] = [k \in 0..0 |-> Kept(s, n, [l \in 0..0 |-> <<>>], k)] BY DEF Kept
  <2>2. QED BY <2>1
<1>3. ASSUME NEW m \in 0..Len(s) - 1, m \in P PROVE m + 1 \in P
  <2>1. PICK u : u = [k \in 0..m |-> Kept(s, n, u, k)] BY <1>3
  <2> DEFINE v == [k \in 0..m + 1 |-> IF k <= m THEN u[k] ELSE Kept(s, n, u, k)]
  <2>2. ASSUME NEW k \in 0..m + 1 PROVE v[k] = Kept(s, n, v, k)
    <3>1. k # 0 => k - 1 \in 0..m /\ v[k - 1] = u[k - 1] BY <1>1
    <3>2. Kept(s, n, v, k) = Kept(s, n, u, k) BY <3>1 DEF Kept
    <3>3. k <= m => u[k] = Kept(s, n, u, k) BY <2>1
    <3>4. QED BY <3>2, <3>3
  <2>3. v = [k \in 0..m + 1 |-> Kept(s, n, v, k)] BY <2>2
  <2> HIDE DEF v
  <2>4. QED BY <2>3, <1>1
<1>4. Len(s) \in P
  <2> HIDE DEF P
  <2>1. \A m \in 0..Len(s) - 1 : m \in P => m + 1 \in P BY <1>3
  <2>2. \A m \in 0..Len(s) : m \in P BY <1>1, <1>2, <2>1, InductionUpTo
  <2>3. QED BY <1>1, <2>2
<1> DEFINE u == CHOOSE u : u = [k \in 0..Len(s) |-> Kept(s, n, u, k)]
<1>5. u = [k \in 0..Len(s) |-> Kept(s, n, u, k)] BY <1>4
<1>6. WithoutName(s, n) = u[Len(s)] BY DEF WithoutName, Kept
<1> HIDE DEF u
<1>7. \A k \in 0..Len(s) : u[k] = Kept(s, n, u, k) BY <1>5
<1>8. QED BY <1>6, <1>7

(* The elements of t are among the first m of s, in the same order.        *)
InOrder(t, s, m) ==
  \A j \in 1..Len(t) : \A i \in 1..j : \E l \in 1..m : \E k \in 1..l :
    t[i] = s[k] /\ t[j] = s[l]

(* What is left has another name, and is in the order it was in.           *)
LEMMA WithoutNameOrder ==
  ASSUME NEW S, NEW s \in Seq(S), NEW n
  PROVE  /\ WithoutName(s, n) \in Seq(S)
         /\ \A i \in 1..Len(WithoutName(s, n)) : WithoutName(s, n)[i].name # n
         /\ InOrder(WithoutName(s, n), s, Len(s))
<1>1. Len(s) \in Nat /\ \A k \in 1..Len(s) : s[k] \in S BY LenProperties, ElementOfSeq
<1>2. PICK u : /\ WithoutName(s, n) = u[Len(s)]
               /\ \A k \in 0..Len(s) : u[k] = Kept(s, n, u, k)
  BY WithoutNameSteps
<1> DEFINE P == {m \in Nat :
                   /\ u[m] \in Seq(S)
                   /\ \A i \in 1..Len(u[m]) : u[m][i].name # n
                   /\ InOrder(u[m], s, m)}
<1>3. 0 \in P
  <2>1. u[0] = <<>> BY <1>1, <1>2 DEF Kept
  <2>2. u[0] \in Seq(S) /\ Len(u[0]) = 0 BY <2>1, EmptySeq
  <2>3. QED BY <2>2 DEF InOrder
<1>4. ASSUME NEW m \in 0..Len(s) - 1, m \in P PROVE m + 1 \in P
  <2>1. m \in Nat /\ m + 1 \in 1..Len(s) /\ s[m + 1] \in S BY <1>1
  <2>2. u[m + 1] = IF s[m + 1].name = n THEN u[m] ELSE Append(u[m], s[m + 1])
    <3>1. u[m + 1] = Kept(s, n, u, m + 1) BY <2>1, <1>2
    <3>2. QED BY <3>1, <2>1 DEF Kept
  <2>3. /\ u[m] \in Seq(S) /\ \A i \in 1..Len(u[m]) : u[m][i].name # n
        /\ InOrder(u[m], s, m)
    BY <1>4
  <2>4. CASE s[m + 1].name = n
    <3>1. u[m + 1] = u[m] BY <2>2, <2>4
    <3>2. InOrder(u[m], s, m + 1)
      <4>1. 1..m \subseteq 1..m + 1 BY <2>1
      <4>2. QED BY <4>1, <2>3 DEF InOrder
    <3>3. m + 1 \in Nat BY <2>1
    <3>4. QED BY <3>1, <3>2, <3>3, <2>3
  <2>5. CASE s[m + 1].name # n
    <3> DEFINE t == Append(u[m], s[m + 1])
    <3>1. u[m + 1] = t BY <2>2, <2>5
    <3>2. /\ t \in Seq(S) /\ Len(t) = Len(u[m]) + 1 /\ t[Len(u[m]) + 1] = s[m + 1]
          /\ \A i \in 1..Len(u[m]) : t[i] = u[m][i]
      BY <2>1, <2>3, AppendProperties
    <3>3. Len(u[m]) \in Nat BY <2>3, LenProperties
    <3> HIDE DEF t
    <3>4. ASSUME NEW i \in 1..Len(t) PROVE t[i].name # n
      <4>1. i \in 1..Len(u[m]) \/ i = Len(u[m]) + 1 BY <3>2, <3>3
      <4>2. CASE i \in 1..Len(u[m])
        <5>1. t[i] = u[m][i] BY <4>2, <3>2
        <5>2. QED BY <4>2, <5>1, <2>3
      <4>3. CASE i = Len(u[m]) + 1
        <5>1. t[i] = s[m + 1] BY <4>3, <3>2
        <5>2. QED BY <5>1, <2>5
      <4>4. QED BY <4>1, <4>2, <4>3
    <3>5. ASSUME NEW j \in 1..Len(t), NEW i \in 1..j
          PROVE  \E l \in 1..m + 1 : \E k \in 1..l : t[i] = s[k] /\ t[j] = s[l]
      <4>1. CASE j \in 1..Len(u[m])
        <5>1. PICK l \in 1..m : \E k \in 1..l : u[m][i] = s[k] /\ u[m][j] = s[l]
          BY <4>1, <2>3 DEF InOrder
        <5>2. t[i] = u[m][i] /\ t[j] = u[m][j] BY <4>1, <3>2, <3>3
        <5>3. QED BY <5>1, <5>2, <2>1
      <4>2. CASE j = Len(u[m]) + 1 /\ i = j
        <5>1. t[i] = s[m + 1] /\ t[j] = s[m + 1] BY <4>2, <3>2
        <5>2. QED BY <5>1, <2>1
      <4>3. CASE j = Len(u[m]) + 1 /\ i # j
        <5>1. i \in 1..Len(u[m]) /\ i \in 1..i BY <4>3, <3>3
        <5>2. PICK k \in 1..m : u[m][i] = s[k] BY <5>1, <2>3 DEF InOrder
        <5>3. t[i] = s[k] /\ t[j] = s[m + 1] BY <5>1, <5>2, <4>3, <3>2
        <5>4. m + 1 \in 1..m + 1 /\ k \in 1..m + 1 BY <2>1
        <5>5. QED BY <5>3, <5>4
      <4>4. QED BY <4>1, <4>2, <4>3, <3>2, <3>3
    <3>6. InOrder(t, s, m + 1) BY <3>5 DEF InOrder
    <3>7. m + 1 \in Nat BY <2>1
    <3>8. QED BY <3>1, <3>2, <3>4, <3>6, <3>7
  <2>6. QED BY <2>4, <2>5
<1>5. Len(s) \in P
  <2> HIDE DEF P
  <2>1. \A m \in 0..Len(s) - 1 : m \in P => m + 1 \in P BY <1>4
  <2>2. \A m \in 0..Len(s) : m \in P BY <1>1, <1>3, <2>1, InductionUpTo
  <2>3. QED BY <1>1, <2>2
<1>6. QED BY <1>2, <1>5
-----------------------------------------------------------------------------

USE DEF autoCommitIsOn

-----------------------------------------------------------------------------
(* What DB2's operations do to the commitment definition.                  *)

(* The states of the commitment definition.  The marks of its savepoints   *)
(* are in order and within the log.                                        *)
MarkNames == {genSavepointName(n) : n \in SvNames} \cup {SAVEPOINT_NAME}
Dbs == [log : Seq(Changes), savepoints : Seq(Marks), durable : SUBSET Changes]
Ordered(sps, m) ==
  \A p \in 1..Len(sps) : sps[p].mark <= m /\ \A q \in 1..p : sps[q].mark <= sps[p].mark
Sound(d) == d \in Dbs /\ Ordered(d.savepoints, Len(d.log))

(* Every savepoint of e is one of d.                                       *)
Within(e, d) == \A p \in 1..Len(e.savepoints) :
                  \E q \in 1..Len(d.savepoints) : e.savepoints[p] = d.savepoints[q]

(* What a savepoint of DB2 consists of.                                    *)
LEMMA MarkTypes == \A m \in Marks : m.name \in MarkNames /\ m.mark \in Nat
  BY DEF Marks, MarkNames

(* The types of the commitment definition.                                 *)
LEMMA DbTypes ==
  ASSUME NEW d \in Dbs
  PROVE  /\ d.log \in Seq(Changes) /\ Len(d.log) \in Nat
         /\ d.savepoints \in Seq(Marks) /\ Len(d.savepoints) \in Nat
         /\ \A p \in 1..Len(d.savepoints) : /\ d.savepoints[p] \in Marks
                                            /\ d.savepoints[p].name \in MarkNames
                                            /\ d.savepoints[p].mark \in Nat
         /\ DOMAIN d.savepoints = 1..Len(d.savepoints)
<1>1. d.log \in Seq(Changes) /\ d.savepoints \in Seq(Marks) BY DEF Dbs
<1>2. \A p \in 1..Len(d.savepoints) : d.savepoints[p] \in Marks BY <1>1, ElementOfSeq
<1>3. QED BY <1>1, <1>2, LenProperties, MarkTypes

(* The first n elements. *)
LEMMA UptoProperties ==
  ASSUME NEW S, NEW s \in Seq(S), NEW n \in 0..Len(s)
  PROVE  /\ Upto(s, n) \in Seq(S) /\ Len(Upto(s, n)) = n
         /\ \A i \in 1..n : Upto(s, n)[i] = s[i]
<1>1. Len(s) \in Nat BY LenProperties
<1>2. \A i \in 1..n : s[i] \in S BY <1>1, ElementOfSeq
<1>3. /\ SubSeq(s, 1, n) \in Seq(S)
      /\ Len(SubSeq(s, 1, n)) = IF 1 <= n THEN n - 1 + 1 ELSE 0
      /\ \A i \in 1 .. n - 1 + 1 : SubSeq(s, 1, n)[i] = s[1 + i - 1]
  BY <1>1, <1>2, SubSeqProperties
<1>4. n - 1 + 1 = n /\ \A i \in 1..n : 1 + i - 1 = i BY <1>1
<1>5. QED BY <1>1, <1>3, <1>4 DEF Upto

(* A savepoint that is set is found. *)
LEMMA PositionFound ==
  ASSUME NEW d \in Dbs, NEW n, IsSet(d, n)
  PROVE  Position(d, n) \in 1..Len(d.savepoints) /\ d.savepoints[Position(d, n)].name = n
BY DbTypes DEF IsSet, Position

(* Setting a savepoint: it is marked where the log ends, and the others    *)
(* are what they were.                                                     *)
LEMMA SetSavepointOf ==
  ASSUME NEW d, Sound(d), NEW n \in MarkNames, NEW e, e = Db2SetSavepoint(d, n)
  PROVE  /\ Sound(e) /\ e.log = d.log /\ e.durable = d.durable
         /\ IsSet(e, n)
         /\ \A p \in 1..Len(e.savepoints) :
              IF e.savepoints[p].name = n THEN e.savepoints[p].mark = Len(d.log)
              ELSE \E q \in 1..Len(d.savepoints) : e.savepoints[p] = d.savepoints[q]
<1> DEFINE s == d.savepoints
           w == WithoutName(s, n)
           new == [name |-> n, mark |-> Len(d.log)]
           t == Append(w, new)
<1>1. /\ d \in Dbs /\ s \in Seq(Marks) /\ Len(d.log) \in Nat /\ Len(s) \in Nat
      /\ \A p \in 1..Len(s) : s[p].mark \in Nat
  BY DbTypes DEF Sound
<1>2. /\ w \in Seq(Marks) /\ Len(w) \in Nat
      /\ \A i \in 1..Len(w) : w[i].name # n
      /\ InOrder(w, s, Len(s))
  BY <1>1, WithoutNameOrder, LenProperties
<1>3. new \in Marks /\ new.name = n /\ new.mark = Len(d.log) BY <1>1 DEF Marks, MarkNames
<1> HIDE DEF w, new
<1>4. /\ t \in Seq(Marks) /\ Len(t) = Len(w) + 1 /\ t[Len(w) + 1] = new
      /\ \A i \in 1..Len(w) : t[i] = w[i]
  BY <1>2, <1>3, AppendProperties
<1> HIDE DEF t, s
<1>5. e \in Dbs /\ e.log = d.log /\ e.durable = d.durable /\ e.savepoints = t
  <2>1. e = [d EXCEPT !.savepoints = t] BY DEF Db2SetSavepoint, t, w, new, s
  <2>2. QED BY <2>1, <1>1, <1>4 DEF Dbs
<1>6. \A p \in 1..Len(t) : p \in 1..Len(w) \/ p = Len(w) + 1 BY <1>2, <1>4
<1>7. Ordered(s, Len(d.log)) BY DEF Sound, s
<1>8. \A p \in 1..Len(w) : \E q \in 1..Len(s) : w[p] = s[q]
  <2>1. \A p \in 1..Len(w) : p \in 1..p BY <1>2
  <2>2. QED BY <2>1, <1>2 DEF InOrder
<1>9. Ordered(t, Len(d.log))
  <2>1. ASSUME NEW p \in 1..Len(t), NEW q \in 1..p
        PROVE  t[p].mark <= Len(d.log) /\ t[q].mark <= t[p].mark
    <3>1. CASE p \in 1..Len(w)
      <4>1. PICK l \in 1..Len(s) : \E k \in 1..l : w[q] = s[k] /\ w[p] = s[l]
        BY <3>1, <1>2 DEF InOrder
      <4>2. PICK k \in 1..l : w[q] = s[k] /\ w[p] = s[l] BY <4>1
      <4>3. s[l].mark <= Len(d.log) /\ s[k].mark <= s[l].mark BY <1>7 DEF Ordered
      <4>4. t[q] = w[q] /\ t[p] = w[p] BY <3>1, <1>2, <1>4
      <4>5. QED BY <4>2, <4>3, <4>4
    <3>2. CASE p = Len(w) + 1
      <4>1. t[p].mark = Len(d.log) BY <3>2, <1>3, <1>4
      <4>2. CASE q = p BY <4>1, <4>2, <1>1
      <4>3. CASE q \in 1..Len(w)
        <5>1. PICK k \in 1..Len(s) : w[q] = s[k] BY <4>3, <1>8
        <5>2. s[k].mark <= Len(d.log) BY <1>7 DEF Ordered
        <5>3. t[q] = s[k] BY <4>3, <5>1, <1>4
        <5>4. QED BY <4>1, <5>2, <5>3, <1>1
      <4>4. QED BY <4>2, <4>3, <3>2, <1>2
    <3>3. QED BY <3>1, <3>2, <1>6
  <2>2. QED BY <2>1, <1>2, <1>4 DEF Ordered
<1>10. IsSet(e, n)
  <2>1. Len(w) + 1 \in DOMAIN t /\ t[Len(w) + 1].name = n
    BY <1>2, <1>3, <1>4, LenProperties
  <2>2. QED BY <2>1, <1>5 DEF IsSet
<1>11. ASSUME NEW p \in 1..Len(t), t[p].name = n PROVE t[p].mark = Len(d.log)
  <2>1. p = Len(w) + 1
    <3>1. p \in 1..Len(w) => t[p] = w[p] /\ w[p].name # n BY <1>2, <1>4
    <3>2. QED BY <3>1, <1>6, <1>11
  <2>2. QED BY <2>1, <1>3, <1>4
<1>12. ASSUME NEW p \in 1..Len(t), t[p].name # n PROVE \E q \in 1..Len(s) : t[p] = s[q]
  <2>1. p \in 1..Len(w)
    <3>1. p = Len(w) + 1 => t[p].name = n BY <1>3, <1>4
    <3>2. QED BY <3>1, <1>6, <1>12
  <2>2. t[p] = w[p] BY <2>1, <1>4
  <2>3. QED BY <2>1, <2>2, <1>8
<1>13. QED BY <1>5, <1>9, <1>10, <1>11, <1>12 DEF Sound, s

(* Dropping savepoints from the p-th on. *)
LEMMA OrderedUpto ==
  ASSUME NEW s \in Seq(Marks), NEW m \in Nat, Ordered(s, m), NEW n \in 0..Len(s)
  PROVE  /\ Ordered(Upto(s, n), m)
         /\ n # 0 => Ordered(Upto(s, n), s[n].mark)
         /\ \A p \in 1..Len(Upto(s, n)) : \E q \in 1..Len(s) : Upto(s, n)[p] = s[q]
<1> DEFINE t == Upto(s, n)
<1>1. Len(s) \in Nat /\ Len(t) = n /\ \A i \in 1..n : t[i] = s[i]
  BY UptoProperties, LenProperties
<1> HIDE DEF t
<1>2. 1..n \subseteq 1..Len(s) BY <1>1
<1>3. \A p \in 1..n : t[p].mark <= m /\ \A q \in 1..p : q \in 1..n /\ t[q].mark <= t[p].mark
  <2>1. \A p \in 1..n : \A q \in 1..p : q \in 1..n BY <1>1
  <2>2. QED BY <2>1, <1>1, <1>2 DEF Ordered
<1>4. n # 0 => \A p \in 1..n : t[p].mark <= s[n].mark
  <2>1. n # 0 => n \in 1..Len(s) /\ \A p \in 1..n : s[p].mark <= s[n].mark
    BY <1>1 DEF Ordered
  <2>2. QED BY <2>1, <1>1
<1>5. Ordered(t, m) BY <1>1, <1>3 DEF Ordered
<1>6. n # 0 => Ordered(t, s[n].mark) BY <1>1, <1>3, <1>4 DEF Ordered
<1>7. \A p \in 1..Len(t) : \E q \in 1..Len(s) : t[p] = s[q] BY <1>1, <1>2
<1>8. QED BY <1>5, <1>6, <1>7 DEF t

(* Nothing is added when nothing is done.                                  *)
LEMMA WithinItself == ASSUME NEW d PROVE Within(d, d)
  BY DEF Within

(* Releasing a savepoint, and those set later. *)
LEMMA ReleaseSavepointOf ==
  ASSUME NEW d, Sound(d), NEW n, NEW e, e = Db2ReleaseSavepoint(d, n)
  PROVE  Sound(e) /\ e.log = d.log /\ e.durable = d.durable /\ Within(e, d)
<1>1. CASE ~IsSet(d, n) BY <1>1, WithinItself DEF Db2ReleaseSavepoint
<1>2. CASE IsSet(d, n)
  <2> DEFINE p == Position(d, n) - 1
             t == Upto(d.savepoints, p)
  <2>1. d \in Dbs /\ d.savepoints \in Seq(Marks) /\ Len(d.log) \in Nat /\ Len(d.savepoints) \in Nat
    BY DbTypes DEF Sound
  <2>2. p \in 0..Len(d.savepoints) BY <1>2, <2>1, PositionFound
  <2>3. e = [d EXCEPT !.savepoints = t] BY <1>2 DEF Db2ReleaseSavepoint
  <2> HIDE DEF p
  <2>4. t \in Seq(Marks) BY <2>1, <2>2, UptoProperties
  <2>5. /\ Ordered(t, Len(d.log))
        /\ \A i \in 1..Len(t) : \E q \in 1..Len(d.savepoints) : t[i] = d.savepoints[q]
    BY <2>1, <2>2, OrderedUpto DEF Sound
  <2> HIDE DEF t
  <2>6. e \in Dbs /\ e.log = d.log /\ e.durable = d.durable /\ e.savepoints = t
    BY <2>1, <2>3, <2>4 DEF Dbs
  <2>7. QED BY <2>5, <2>6 DEF Sound, Within
<1>3. QED BY <1>1, <1>2

(* Rolling back to a savepoint. *)
LEMMA RollbackToSavepointOf ==
  ASSUME NEW d, Sound(d), NEW n, NEW e, e = Db2RollbackToSavepoint(d, n)
  PROVE  /\ Sound(e) /\ e.durable = d.durable /\ Within(e, d)
         /\ ~IsSet(d, n) => e = d
         /\ IsSet(d, n) => \E q \in 1..Len(d.savepoints) :
                              /\ d.savepoints[q].name = n
                              /\ e.log = Upto(d.log, d.savepoints[q].mark)
                              /\ d.savepoints[q].mark <= Len(d.log)
<1>1. CASE ~IsSet(d, n) BY <1>1, WithinItself DEF Db2RollbackToSavepoint
<1>2. CASE IsSet(d, n)
  <2> DEFINE p == Position(d, n)
             m == d.savepoints[p].mark
             t == Upto(d.savepoints, p)
             l == Upto(d.log, m)
  <2>1. /\ d \in Dbs /\ d.savepoints \in Seq(Marks) /\ Len(d.savepoints) \in Nat
        /\ d.log \in Seq(Changes) /\ Len(d.log) \in Nat
    BY DbTypes DEF Sound
  <2>2. p \in 1..Len(d.savepoints) /\ d.savepoints[p].name = n BY <1>2, <2>1, PositionFound
  <2>3. e = [d EXCEPT !.log = l, !.savepoints = t] BY <1>2 DEF Db2RollbackToSavepoint
  <2> HIDE DEF p
  <2>4. p \in 0..Len(d.savepoints) /\ p # 0 BY <2>1, <2>2
  <2>5. m \in Nat /\ m <= Len(d.log) BY <2>1, <2>2, DbTypes DEF Sound, Ordered
  <2>6. t \in Seq(Marks) BY <2>1, <2>4, UptoProperties
  <2>7. l \in Seq(Changes) /\ Len(l) = m
    <3>1. m \in 0..Len(d.log) BY <2>1, <2>5
    <3> HIDE DEF m
    <3>2. QED BY <2>1, <3>1, UptoProperties
  <2>8. /\ Ordered(t, m)
        /\ \A i \in 1..Len(t) : \E q \in 1..Len(d.savepoints) : t[i] = d.savepoints[q]
    BY <2>1, <2>4, OrderedUpto DEF Sound
  <2> HIDE DEF t, l, m
  <2>9. e \in Dbs /\ e.log = l /\ e.durable = d.durable /\ e.savepoints = t
    BY <2>1, <2>3, <2>6, <2>7 DEF Dbs
  <2>10. Sound(e) /\ Within(e, d) BY <2>7, <2>8, <2>9 DEF Sound, Within
  <2>11. QED BY <1>2, <2>2, <2>5, <2>9, <2>10 DEF l, m
<1>3. QED BY <1>1, <1>2

(* COMMIT and ROLLBACK. *)
LEMMA CommitOf ==
  ASSUME NEW d, Sound(d), NEW e, e = Db2Commit(d)
  PROVE  /\ Sound(e) /\ e.durable = d.durable \cup Set(d.log)
         /\ e.log = <<>> /\ e.savepoints = <<>> /\ Within(e, d)
<1>1. d \in Dbs /\ d.log \in Seq(Changes) BY DbTypes DEF Sound
<1>2. Set(d.log) \subseteq Changes
  <2>1. DOMAIN d.log = 1..Len(d.log) BY <1>1, LenProperties
  <2>2. QED BY <1>1, <2>1, ElementOfSeq DEF Set
<1>3. e.log = <<>> /\ e.savepoints = <<>> /\ e.durable = d.durable \cup Set(d.log)
  BY DEF Db2Commit
<1>4. d.durable \in SUBSET Changes BY <1>1 DEF Dbs
<1>5. /\ <<>> \in Seq(Changes) /\ <<>> \in Seq(Marks) /\ Len(<<>>) = 0 BY EmptySeq
<1>6. e \in Dbs BY <1>2, <1>4, <1>5 DEF Db2Commit, Dbs
<1>7. QED BY <1>3, <1>5, <1>6 DEF Sound, Ordered, Within

LEMMA RollbackOf ==
  ASSUME NEW d, Sound(d), NEW e, e = Db2Rollback(d)
  PROVE  /\ Sound(e) /\ e.durable = d.durable
         /\ e.log = <<>> /\ e.savepoints = <<>> /\ Within(e, d)
<1>1. d \in Dbs BY DEF Sound
<1>2. e.log = <<>> /\ e.savepoints = <<>> /\ e.durable = d.durable
  BY <1>1 DEF Db2Rollback, Dbs
<1>3. /\ <<>> \in Seq(Changes) /\ <<>> \in Seq(Marks) /\ Len(<<>>) = 0 BY EmptySeq
<1>4. e \in Dbs BY <1>1, <1>3 DEF Db2Rollback, Dbs
<1>5. QED BY <1>2, <1>3, <1>4 DEF Sound, Ordered, Within

-----------------------------------------------------------------------------
(* The types.                                                              *)

(* The commitment definition stays sound, whatever is locked, unsafe and   *)
(* read, and also when savepoints fail.                                    *)
LEMMA EndOf ==
  ASSUME Sound(db2), NEW all, doCommit(all) \/ doRollback(all)
  PROVE  Sound(db2') /\ Within(db2', db2)
<1>1. db2' \in {db2, Db2Commit(db2), Db2Rollback(db2), Db2ReleaseSavepoint(db2, SAVEPOINT_NAME),
                Db2RollbackToSavepoint(db2, SAVEPOINT_NAME)}
  BY DEF doCommit, doRollback, commitStmtTx, rollbackStmtTx
<1>2. QED
  BY <1>1, CommitOf, RollbackOf, ReleaseSavepointOf, RollbackToSavepointOf, WithinItself

(* A statement begins without a change of the log.                         *)
LEMMA BeginOf ==
  ASSUME Sound(db2), NEW command, external_lock(command) \/ start_stmt
  PROVE  Sound(db2') /\ db2'.log = db2.log /\ db2'.durable = db2.durable
<1>1. db2' \in {db2, Db2SetSavepoint(db2, SAVEPOINT_NAME)}
  BY DEF external_lock, start_stmt, beginStmtTx
<1>2. SAVEPOINT_NAME \in MarkNames BY DEF MarkNames
<1>3. QED BY <1>1, <1>2, SetSavepointOf

(* A row change: appended to the log, or durable at once.                  *)
LEMMA ChangeOf ==
  ASSUME Sound(db2), NEW c \in Changes, ChangeRow(c)
  PROVE  /\ Sound(db2') /\ db2'.savepoints = db2.savepoints
         /\ transaction_unsafe => db2'.log = db2.log /\ db2'.durable = db2.durable \cup {c}
         /\ ~transaction_unsafe => /\ db2'.durable = db2.durable
                                   /\ db2'.log = Append(db2.log, c)
                                   /\ Len(db2'.log) = Len(db2.log) + 1
<1>1. /\ db2 \in Dbs /\ db2.log \in Seq(Changes) /\ Len(db2.log) \in Nat
      /\ \A p \in 1..Len(db2.savepoints) : db2.savepoints[p].mark \in Nat
      /\ Ordered(db2.savepoints, Len(db2.log))
  BY DbTypes DEF Sound
<1>2. CASE transaction_unsafe
  <2>1. db2' = [db2 EXCEPT !.durable = db2.durable \cup {c}] BY <1>2 DEF ChangeRow
  <2>2. /\ db2' \in Dbs /\ db2'.log = db2.log /\ db2'.savepoints = db2.savepoints
        /\ db2'.durable = db2.durable \cup {c}
    BY <2>1, <1>1 DEF Dbs
  <2>3. QED BY <1>1, <1>2, <2>2 DEF Sound
<1>3. CASE ~transaction_unsafe
  <2> DEFINE l == Append(db2.log, c)
  <2>1. l \in Seq(Changes) /\ Len(l) = Len(db2.log) + 1 BY <1>1, AppendProperties
  <2>2. db2' = [db2 EXCEPT !.log = l] BY <1>3 DEF ChangeRow
  <2> HIDE DEF l
  <2>3. /\ db2' \in Dbs /\ db2'.log = l /\ db2'.savepoints = db2.savepoints
        /\ db2'.durable = db2.durable
    BY <2>1, <2>2, <1>1 DEF Dbs
  <2>4. Ordered(db2.savepoints, Len(l)) BY <1>1, <2>1 DEF Ordered
  <2>5. QED BY <1>3, <2>1, <2>3, <2>4 DEF Sound, l
<1>4. QED BY <1>2, <1>3

(* A savepoint of the user: what DB2 has afterwards is what it had, but    *)
(* for the new one.                                                        *)
LEMMA UserSavepointOf ==
  ASSUME Sound(db2), NEW n \in SvNames, SetSavepoint(n)
  PROVE  /\ Sound(db2') /\ db2'.log = db2.log /\ db2'.durable = db2.durable
         /\ \A p \in 1..Len(db2'.savepoints) :
              \/ /\ db2'.savepoints[p].name = genSavepointName(n)
                 /\ db2'.savepoints[p].mark = Len(db2.log)
              \/ \E q \in 1..Len(db2.savepoints) : db2'.savepoints[p] = db2.savepoints[q]
<1> DEFINE g == genSavepointName(n)
           released == IF \E i \in {j \in DOMAIN svs : svs[j].name = n} : svs[i].had
                       THEN ibmdb2i_savepoint_release(db2, n) ELSE db2
<1>1. g \in MarkNames BY DEF MarkNames
<1>2. Sound(released) /\ released.log = db2.log /\ released.durable = db2.durable
      /\ Within(released, db2)
  BY ReleaseSavepointOf, WithinItself DEF ibmdb2i_savepoint_release
<1>3. db2' \in {released, ibmdb2i_savepoint_set(released, n)} BY DEF SetSavepoint
<1> HIDE DEF released
<1>4. db2' \in {released, Db2SetSavepoint(released, g)} BY <1>3 DEF ibmdb2i_savepoint_set
<1> HIDE DEF g
<1>5. CASE db2' = released BY <1>2, <1>5 DEF Within
<1>6. CASE db2' = Db2SetSavepoint(released, g)
  <2>1. /\ Sound(db2') /\ db2'.log = released.log /\ db2'.durable = released.durable
        /\ \A p \in 1..Len(db2'.savepoints) :
              IF db2'.savepoints[p].name = g THEN db2'.savepoints[p].mark = Len(released.log)
              ELSE \E q \in 1..Len(released.savepoints) :
                     db2'.savepoints[p] = released.savepoints[q]
    BY <1>1, <1>2, <1>6, SetSavepointOf
  <2>2. \A p \in 1..Len(db2'.savepoints) :
          \/ db2'.savepoints[p].name = g /\ db2'.savepoints[p].mark = Len(db2.log)
          \/ \E q \in 1..Len(db2.savepoints) : db2'.savepoints[p] = db2.savepoints[q]
    BY <2>1, <1>2 DEF Within
  <2>3. QED BY <1>2, <2>1, <2>2 DEF g
<1>7. QED BY <1>4, <1>5, <1>6

(* A rollback to a savepoint of the user adds no savepoint.                *)
LEMMA UserRollbackOf ==
  ASSUME Sound(db2), NEW i, RollbackToSavepoint(i)
  PROVE  Sound(db2') /\ Within(db2', db2)
<1>1. CASE svs[i].had
  <2>1. db2' \in {db2, Db2RollbackToSavepoint(db2, genSavepointName(svs[i].name))}
    BY <1>1 DEF RollbackToSavepoint, ibmdb2i_savepoint_rollback
  <2>2. QED BY <2>1, RollbackToSavepointOf, WithinItself
<1>2. CASE ~svs[i].had
  <2>1. doRollback(TRUE) \/ db2' = db2 BY <1>2 DEF RollbackToSavepoint
  <2>2. QED BY <2>1, EndOf, WithinItself
<1>3. QED BY <1>1, <1>2

(* Its release neither, and leaves the log.                                *)
LEMMA UserReleaseOf ==
  ASSUME Sound(db2), NEW i, ReleaseSavepoint(i)
  PROVE  Sound(db2') /\ db2'.log = db2.log /\ db2'.durable = db2.durable /\ Within(db2', db2)
<1>1. db2' \in {db2, Db2ReleaseSavepoint(db2, genSavepointName(svs[i].name))}
  BY DEF ReleaseSavepoint, ibmdb2i_savepoint_release
<1>2. QED BY <1>1, ReleaseSavepointOf, WithinItself

(* The steps between statements that set no savepoint.                     *)
Between ==
  \/ \E commits \in BOOLEAN : EndTransaction(commits)
  \/ DisableAutocommit \/ EnableAutocommit \/ SetTransactionUnsafe \/ UnlockTables
  \/ \E i \in 1..MaxSavepoints : RollbackToSavepoint(i) \/ ReleaseSavepoint(i)
  \/ close_connection

(* The steps between statements add no savepoint.                          *)
LEMMA BetweenOf ==
  ASSUME Sound(db2), Between
  PROVE  Sound(db2') /\ Within(db2', db2)
<1>1. ASSUME NEW commits, EndTransaction(commits)
      PROVE  doCommit(TRUE) \/ doRollback(TRUE) \/ db2' = db2
  BY <1>1 DEF EndTransaction
<1>2. ASSUME EnableAutocommit \/ UnlockTables
      PROVE  doCommit(TRUE) \/ db2' = db2
  BY <1>2 DEF EnableAutocommit, UnlockTables
<1>3. ASSUME DisableAutocommit \/ SetTransactionUnsafe PROVE db2' = db2
  BY <1>3 DEF DisableAutocommit, SetTransactionUnsafe
<1>4. ASSUME close_connection PROVE db2' = Db2Rollback(db2)
  BY <1>4 DEF close_connection
<1>5. QED
  BY <1>1, <1>2, <1>3, <1>4, EndOf, RollbackOf, UserRollbackOf, UserReleaseOf, WithinItself
     DEF Between

(* Nor does the end of a statement.                                        *)
LEMMA EndStatementOf ==
  ASSUME Sound(db2), NEW succeeds, EndStatement(succeeds)
  PROVE  Sound(db2') /\ Within(db2', db2)
<1>1. doCommit(FALSE) \/ doRollback(FALSE) \/ db2' = db2 BY DEF EndStatement
<1>2. QED BY <1>1, EndOf, WithinItself

(* The steps of the specification, as the proofs take them.                *)
LEMMA Steps ==
  ASSUME [Next]_vars
  PROVE  \/ \E command \in Commands : StartStatement(command)
         \/ \E c \in Changes : ChangeRow(c)
         \/ \E succeeds \in BOOLEAN : EndStatement(succeeds)
         \/ LockTables
         \/ \E n \in SvNames : SetSavepoint(n)
         \/ Between
         \/ UNCHANGED vars
BY DEF Next, Between

(* Every step keeps the marks in order.                                    *)
LEMMA SoundStep == ASSUME Sound(db2), [Next]_vars PROVE Sound(db2')
<1>1. ASSUME NEW command, StartStatement(command) PROVE Sound(db2')
  BY <1>1, BeginOf DEF StartStatement
<1>2. ASSUME LockTables PROVE Sound(db2')
  BY <1>2, BeginOf DEF LockTables
<1>3. ASSUME UNCHANGED vars PROVE Sound(db2')
  BY <1>3 DEF vars
<1>4. QED
  BY <1>1, <1>2, <1>3, Steps, ChangeOf, EndStatementOf, UserSavepointOf, BetweenOf

Svs == [name : SvNames, mark : Nat, had : BOOLEAN]

(* The types of what is not DB2's.                                         *)
SessionTypes ==
  /\ stmtTxActive \in BOOLEAN /\ stmtReg \in BOOLEAN /\ allReg \in BOOLEAN
  /\ notAutocommit \in BOOLEAN /\ begun \in BOOLEAN
  /\ transaction_unsafe \in BOOLEAN /\ tablesLocked \in BOOLEAN
  /\ statement \in {"none", "dml", "create", "set", "lock"}
  /\ stmtMark \in Nat /\ answer \in {"none", "done", "undone", "failed"}
Typed == Sound(db2) /\ SessionTypes /\ svs \in Seq(Svs)

(* The types of the session, step by step.                                 *)
LEMMA SessionStep == ASSUME Typed, [Next]_vars PROVE SessionTypes'
<1> USE DEF SessionTypes, sessionVars, regVars
<1>1. SessionTypes /\ Len(db2.log) \in Nat BY DbTypes DEF Typed, Sound
<1>2. ASSUME NEW command \in Commands, StartStatement(command) PROVE SessionTypes'
  <2>1. command \in {"dml", "create", "set"} BY DEF Commands
  <2>2. stmtTxActive' \in BOOLEAN /\ stmtReg' \in BOOLEAN /\ allReg' \in BOOLEAN
    <3>1. CASE tablesLocked BY <1>1, <1>2, <3>1 DEF StartStatement, start_stmt, beginStmtTx
    <3>2. CASE ~tablesLocked BY <1>1, <1>2, <3>2 DEF StartStatement, external_lock, beginStmtTx
    <3>3. QED BY <3>1, <3>2
  <2>3. QED BY <1>1, <1>2, <2>1, <2>2 DEF StartStatement
<1>3. ASSUME LockTables PROVE SessionTypes'
  BY <1>1, <1>3 DEF LockTables, external_lock, beginStmtTx
<1>4. ASSUME NEW c, ChangeRow(c) PROVE SessionTypes'
  BY <1>1, <1>4 DEF ChangeRow
<1>5. ASSUME NEW all, doCommit(all) \/ doRollback(all) PROVE stmtTxActive' \in BOOLEAN
  BY <1>1, <1>5 DEF doCommit, doRollback, commitStmtTx, rollbackStmtTx
<1>6. ASSUME NEW succeeds, EndStatement(succeeds) PROVE SessionTypes'
  <2>1. stmtTxActive' \in BOOLEAN BY <1>1, <1>5, <1>6 DEF EndStatement
  <2>2. QED BY <1>1, <1>6, <2>1 DEF EndStatement
<1>7. ASSUME NEW n, SetSavepoint(n) PROVE SessionTypes'
  BY <1>1, <1>7 DEF SetSavepoint
<1>8. ASSUME Between PROVE SessionTypes'
  <2>1. ASSUME NEW commits, EndTransaction(commits) PROVE SessionTypes'
    <3>1. stmtTxActive' \in BOOLEAN BY <1>1, <1>5, <2>1 DEF EndTransaction
    <3>2. begun' \in BOOLEAN BY <2>1 DEF EndTransaction
    <3>3. QED BY <1>1, <2>1, <3>1, <3>2 DEF EndTransaction
  <2>2. ASSUME EnableAutocommit \/ UnlockTables PROVE SessionTypes'
    <3>1. stmtTxActive' \in BOOLEAN BY <1>1, <1>5, <2>2 DEF EnableAutocommit, UnlockTables
    <3>2. QED BY <1>1, <2>2, <3>1 DEF EnableAutocommit, UnlockTables
  <2>3. ASSUME DisableAutocommit \/ SetTransactionUnsafe PROVE SessionTypes'
    BY <1>1, <2>3, ZenonT(60) DEF DisableAutocommit, SetTransactionUnsafe
  <2>4. ASSUME close_connection PROVE SessionTypes'
    BY <1>1, <2>4 DEF close_connection
  <2>5. ASSUME NEW i, RollbackToSavepoint(i) PROVE SessionTypes'
    <3>1. stmtTxActive' \in BOOLEAN BY <1>1, <1>5, <2>5 DEF RollbackToSavepoint
    <3>2. svs[i].had \in BOOLEAN
      <4>1. i \in DOMAIN svs /\ svs \in Seq(Svs) BY <2>5 DEF RollbackToSavepoint, Typed
      <4>2. svs[i] \in Svs BY <4>1, LenProperties, ElementOfSeq
      <4>3. QED BY <4>2 DEF Svs
    <3>3. QED BY <1>1, <2>5, <3>1, <3>2 DEF RollbackToSavepoint
  <2>6. ASSUME NEW i, ReleaseSavepoint(i) PROVE SessionTypes'
    BY <1>1, <2>6 DEF ReleaseSavepoint
  <2>7. QED BY <1>8, <2>1, <2>2, <2>3, <2>4, <2>5, <2>6 DEF Between
<1>9. ASSUME UNCHANGED vars PROVE SessionTypes'
  BY <1>1, <1>9 DEF vars
<1>10. QED BY <1>2, <1>3, <1>4, <1>6, <1>7, <1>8, <1>9, Steps

(* MySQL's savepoints, where a step changes them. *)
LEMMA SvsStep ==
  ASSUME Typed, [Next]_vars
  PROVE  svs' \in Seq(Svs)
<1>1. svs \in Seq(Svs) /\ DOMAIN svs = 1..Len(svs) /\ Len(svs) \in Nat
  BY LenProperties DEF Typed
<1>2. ASSUME NEW n \in SvNames, SetSavepoint(n) PROVE svs' \in Seq(Svs)
  <2> DEFINE w == WithoutName(svs, n)
             new == [name |-> n, mark |-> Len(db2.log), had |-> allReg]
  <2>1. svs' \in {w, Append(w, new)} BY <1>2 DEF SetSavepoint
  <2>2. w \in Seq(Svs) BY <1>1, WithoutNameOrder
  <2>3. new \in Svs BY DbTypes DEF Typed, Sound, SessionTypes, Svs
  <2> HIDE DEF w, new
  <2>4. QED BY <2>1, <2>2, <2>3, AppendProperties
<1>3. ASSUME NEW i, RollbackToSavepoint(i) \/ ReleaseSavepoint(i) PROVE svs' \in Seq(Svs)
  <2>1. i \in 1..Len(svs) /\ svs' \in {Upto(svs, i), Upto(svs, i - 1)}
    BY <1>1, <1>3 DEF RollbackToSavepoint, ReleaseSavepoint
  <2>2. i \in 0..Len(svs) /\ i - 1 \in 0..Len(svs) BY <2>1, <1>1
  <2>3. QED BY <1>1, <2>1, <2>2, UptoProperties
<1>4. <<>> \in Seq(Svs) BY EmptySeq
<1>5. ASSUME Between PROVE svs' \in Seq(Svs)
  <2>1. ASSUME NEW commits, EndTransaction(commits) PROVE svs' = <<>>
    BY <2>1 DEF EndTransaction
  <2>2. ASSUME EnableAutocommit \/ UnlockTables \/ close_connection PROVE svs' = <<>>
    BY <2>2 DEF EnableAutocommit, UnlockTables, close_connection
  <2>3. ASSUME DisableAutocommit \/ SetTransactionUnsafe PROVE svs' = svs
    BY <2>3 DEF DisableAutocommit, SetTransactionUnsafe
  <2>4. QED BY <1>1, <1>3, <1>4, <1>5, <2>1, <2>2, <2>3 DEF Between
<1>6. ASSUME NEW command, StartStatement(command) PROVE svs' = svs
  BY <1>6 DEF StartStatement
<1>7. ASSUME NEW c, ChangeRow(c) PROVE svs' = svs
  BY <1>7 DEF ChangeRow
<1>8. ASSUME NEW succeeds, EndStatement(succeeds) PROVE svs' = svs
  BY <1>8 DEF EndStatement
<1>9. ASSUME LockTables \/ UNCHANGED vars PROVE svs' = svs
  BY <1>9 DEF LockTables, vars
<1>10. QED BY <1>1, <1>2, <1>5, <1>6, <1>7, <1>8, <1>9, Steps

(* At the start nothing is logged or marked.                               *)
LEMMA InitSound == Init => Sound(db2) /\ svs \in Seq(Svs)
<1> SUFFICES ASSUME Init PROVE Sound(db2) /\ svs \in Seq(Svs) OBVIOUS
<1>1. /\ <<>> \in Seq(Changes) /\ <<>> \in Seq(Marks) /\ <<>> \in Seq(Svs) /\ Len(<<>>) = 0
  BY EmptySeq
<1>2. QED BY <1>1 DEF Init, Sound, Ordered, Dbs

(* The types, for every use: the log only holds changes, and the marks of  *)
(* DB2's savepoints lie within it, so that a rollback cuts it off and does *)
(* not lengthen it.                                                        *)
THEOREM TypeCorrect == Spec => []TypeOK
<1>1. Init => Typed
  <2>1. ASSUME Init PROVE SessionTypes
    <3>1. notAutocommit \in BOOLEAN BY <2>1 DEF Init
    <3>2. QED BY <2>1, <3>1 DEF Init, SessionTypes
  <2>2. QED BY <2>1, InitSound DEF Typed
<1>2. Typed /\ [Next]_vars => Typed'
  BY SoundStep, SessionStep, SvsStep DEF Typed
<1>3. Typed => TypeOK
  BY DEF Typed, SessionTypes, Sound, Dbs, Svs, TypeOK
<1>4. QED BY <1>1, <1>2, <1>3, PTL DEF Spec

-----------------------------------------------------------------------------
(* The statement transaction that is ended has begun.  What decides is     *)
(* that autocommit does not change in the course of a statement.           *)

BegunInv ==
  /\ statement # "set"
  /\ statement = "none" => ~stmtReg
  /\ statement # "none" /\ stmtReg /\ ~autoCommitIsOn /\ ~transaction_unsafe => stmtTxActive

(* What external_lock and start_stmt leave behind. *)
LEMMA RegistrationBegins ==
  ASSUME NEW command, UNCHANGED sessionVars, ~stmtReg,
         external_lock(command) \/ start_stmt
  PROVE stmtReg' /\ ~autoCommitIsOn' /\ ~transaction_unsafe' => stmtTxActive'
  BY DEF external_lock, start_stmt, beginStmtTx, sessionVars, regVars

LEMMA StartBegins ==
  ASSUME BegunInv, NEW command \in Commands, SetReadsTables = FALSE, StartStatement(command)
  PROVE BegunInv'
<1>1. ~stmtReg /\ statement' = command /\ command \in {"dml", "create"}
      /\ UNCHANGED sessionVars
  BY DEF BegunInv, StartStatement, Commands
<1>2. external_lock(command) \/ start_stmt
  BY DEF StartStatement
<1>3. stmtReg' /\ ~autoCommitIsOn' /\ ~transaction_unsafe' => stmtTxActive'
  BY <1>1, <1>2, RegistrationBegins
<1>4. QED BY <1>1, <1>3 DEF BegunInv

LEMMA LockBegins == ASSUME BegunInv, LockTables PROVE BegunInv'
<1>1. /\ ~stmtReg /\ statement' = "lock" /\ external_lock("lock")
      /\ UNCHANGED <<notAutocommit, begun, transaction_unsafe>>
  BY DEF BegunInv, LockTables
<1>2. stmtReg' /\ ~autoCommitIsOn' /\ ~transaction_unsafe' => stmtTxActive'
  BY <1>1 DEF external_lock, beginStmtTx, regVars
<1>3. QED BY <1>1, <1>2 DEF BegunInv

LEMMA BegunStep ==
  ASSUME BegunInv, SetReadsTables = FALSE, [Next]_vars
  PROVE BegunInv'
<1>1. ASSUME NEW c, ChangeRow(c) PROVE BegunInv'
  BY <1>1 DEF BegunInv, ChangeRow, sessionVars, regVars
<1>2. ASSUME NEW succeeds, EndStatement(succeeds) PROVE BegunInv'
  BY <1>2 DEF BegunInv, EndStatement
<1>3. ASSUME NEW commits, EndTransaction(commits) PROVE BegunInv'
  BY <1>3 DEF BegunInv, EndTransaction
<1>4. CASE DisableAutocommit
  BY <1>4 DEF BegunInv, DisableAutocommit, regVars
<1>5. CASE EnableAutocommit
  BY <1>5 DEF BegunInv, EnableAutocommit
<1>6. CASE SetTransactionUnsafe
  BY <1>6 DEF BegunInv, SetTransactionUnsafe, regVars
<1>7. CASE UnlockTables
  BY <1>7 DEF BegunInv, UnlockTables
<1>8. ASSUME NEW n, SetSavepoint(n) PROVE BegunInv'
  BY <1>8 DEF BegunInv, SetSavepoint, regVars
<1>9. ASSUME NEW i, RollbackToSavepoint(i) PROVE BegunInv'
  BY <1>9 DEF BegunInv, RollbackToSavepoint
<1>10. ASSUME NEW i, ReleaseSavepoint(i) PROVE BegunInv'
  BY <1>10 DEF BegunInv, ReleaseSavepoint, regVars
<1>11. CASE close_connection
  BY <1>11 DEF BegunInv, close_connection
<1>12. CASE UNCHANGED vars
  BY <1>12 DEF BegunInv, vars, sessionVars, regVars
<1>13. QED
  BY <1>1, <1>2, <1>3, <1>4, <1>5, <1>6, <1>7, <1>8, <1>9, <1>10, <1>11, <1>12,
     StartBegins, LockBegins DEF Next

(* The assertions of commitStmtTx and rollbackStmtTx hold, as long as SET  *)
(* autocommit does not read a table of the engine, also under LOCK TABLES, *)
(* with transaction_unsafe set at any time, and when savepoints fail.      *)
THEOREM StatementsHaveBegun ==
  ASSUME SetReadsTables = FALSE
  PROVE Spec => EndedStmtTxHasBegun
<1>1. Init => BegunInv
  BY DEF Init, BegunInv
<1>2. BegunInv /\ [Next]_vars => BegunInv'
  BY BegunStep
<1>3. BegunInv => (statement # "none" /\ statement' = "none" /\ stmtReg
                   /\ ~autoCommitIsOn /\ ~transaction_unsafe => stmtTxActive)
  BY DEF BegunInv
<1>4. QED BY <1>1, <1>2, <1>3, PTL DEF Spec, EndedStmtTxHasBegun

-----------------------------------------------------------------------------
(* MySQL reaches the engine for every uncommitted change.                  *)

RegisteredInv ==
  /\ statement \in {"none", "dml", "create"} /\ ~tablesLocked
  /\ statement = "none" => ~stmtReg
  /\ statement = "dml" /\ ~transaction_unsafe => stmtReg
  /\ stmtReg /\ ~autoCommitIsOn => allReg
  /\ allReg \/ svs # <<>> => ~autoCommitIsOn
  /\ transaction_unsafe => db2.log = <<>>
  /\ PendingIsRegistered
  /\ db2 = [log |-> db2.log, savepoints |-> db2.savepoints, durable |-> db2.durable]

(* Savepoints are set and released without a change of the log. *)
LEMMA SavepointsKeepLog ==
  ASSUME NEW d, d = [log |-> d.log, savepoints |-> d.savepoints, durable |-> d.durable],
         NEW n,
         NEW e \in {Db2SetSavepoint(d, n), Db2ReleaseSavepoint(d, n)}
  PROVE /\ e.log = d.log
        /\ e = [log |-> e.log, savepoints |-> e.savepoints, durable |-> e.durable]
  BY DEF Db2SetSavepoint, Db2ReleaseSavepoint

LEMMA RollbackShape ==
  ASSUME NEW d, d = [log |-> d.log, savepoints |-> d.savepoints, durable |-> d.durable],
         NEW n,
         NEW e \in {Db2RollbackToSavepoint(d, n), Db2Commit(d), Db2Rollback(d)}
  PROVE e = [log |-> e.log, savepoints |-> e.savepoints, durable |-> e.durable]
  BY DEF Db2RollbackToSavepoint, Db2Commit, Db2Rollback

LEMMA LogEmptied ==
  ASSUME NEW d, d = [log |-> d.log, savepoints |-> d.savepoints, durable |-> d.durable]
  PROVE Db2Commit(d).log = <<>> /\ Db2Rollback(d).log = <<>>
  BY DEF Db2Commit, Db2Rollback

DbShape(d) == d = [log |-> d.log, savepoints |-> d.savepoints, durable |-> d.durable]

(* The end of a statement or a transaction, as the engine sees it. *)
LEMMA EndsKeepRegistration ==
  ASSUME NEW all, RegisteredInv, doCommit(all) \/ doRollback(all)
  PROVE /\ DbShape(db2')
        /\ transaction_unsafe => db2'.log = <<>>
        /\ all \/ autoCommitIsOn => db2'.log = <<>>
<1>1. DbShape(db2) /\ (transaction_unsafe => db2.log = <<>>)
  BY DEF RegisteredInv, DbShape
<1>2. CASE transaction_unsafe
  BY <1>1, <1>2 DEF RegisteredInv, doCommit, doRollback
<1>3. CASE ~transaction_unsafe
  BY <1>1, <1>3, RollbackShape, SavepointsKeepLog, LogEmptied
     DEF doCommit, doRollback, commitStmtTx, rollbackStmtTx, DbShape
<1>4. QED BY <1>2, <1>3

LEMMA StartRegisters ==
  ASSUME RegisteredInv, SetReadsTables = FALSE, NEW command \in Commands,
         StartStatement(command)
  PROVE RegisteredInv'
<1>1. /\ ~stmtReg /\ statement' = command /\ command \in {"dml", "create"}
      /\ external_lock(command)
      /\ UNCHANGED <<notAutocommit, begun, transaction_unsafe, tablesLocked, svs>>
  BY DEF RegisteredInv, StartStatement, Commands, sessionVars
<1>2. db2'.log = db2.log /\ DbShape(db2')
  <2>1. db2' \in {db2, Db2SetSavepoint(db2, SAVEPOINT_NAME)}
    BY <1>1 DEF external_lock, beginStmtTx
  <2>2. QED BY <2>1, SavepointsKeepLog DEF RegisteredInv, DbShape
<1>3. /\ stmtReg' /\ ~autoCommitIsOn => allReg'
      /\ allReg' => allReg \/ ~autoCommitIsOn
      /\ allReg => allReg'
      /\ command = "dml" /\ ~transaction_unsafe => stmtReg'
  BY <1>1 DEF external_lock, regVars
<1>4. QED
  BY <1>1, <1>2, <1>3 DEF RegisteredInv, PendingIsRegistered, DbShape

LEMMA EndStatementRegistered ==
  ASSUME RegisteredInv, NEW succeeds, EndStatement(succeeds)
  PROVE RegisteredInv'
<1>1. /\ statement' = "none" /\ ~stmtReg' /\ allReg' = allReg
      /\ UNCHANGED <<notAutocommit, begun, transaction_unsafe, tablesLocked, svs>>
  BY DEF EndStatement, sessionVars
<1>2. CASE stmtReg
  <2>1. DbShape(db2') /\ (transaction_unsafe => db2'.log = <<>>)
        /\ (autoCommitIsOn => db2'.log = <<>>)
    <3>1. doCommit(FALSE) \/ doRollback(FALSE)
      BY <1>2 DEF EndStatement
    <3>2. QED BY <3>1, EndsKeepRegistration
  <2>2. QED BY <1>1, <1>2, <2>1 DEF RegisteredInv, PendingIsRegistered, DbShape
<1>3. CASE ~stmtReg
  <2>1. db2' = db2
    BY <1>3 DEF EndStatement
  <2>2. QED BY <1>1, <1>3, <2>1 DEF RegisteredInv, PendingIsRegistered
<1>4. QED BY <1>2, <1>3

(* COMMIT, ROLLBACK and what implies them: nothing is pending afterwards.  *)
LEMMA TransactionEnded ==
  ASSUME RegisteredInv, statement = "none",
         IF allReg THEN doCommit(TRUE) \/ doRollback(TRUE) ELSE db2' = db2
  PROVE DbShape(db2') /\ db2'.log = <<>>
<1>1. CASE allReg
  BY <1>1, EndsKeepRegistration
<1>2. CASE ~allReg
  BY <1>2 DEF RegisteredInv, PendingIsRegistered, DbShape
<1>3. QED BY <1>1, <1>2

LEMMA SavepointRegistered ==
  ASSUME RegisteredInv, NEW n, SetSavepoint(n)
  PROVE RegisteredInv'
<1>1. /\ UNCHANGED <<notAutocommit, begun, transaction_unsafe, tablesLocked, stmtReg, allReg,
                     statement>>
      /\ ~autoCommitIsOn
  BY DEF SetSavepoint, sessionVars, regVars
<1>2. db2'.log = db2.log /\ DbShape(db2')
  <2> DEFINE released == ibmdb2i_savepoint_release(db2, n)
  <2>1. released.log = db2.log /\ DbShape(released)
    BY SavepointsKeepLog DEF RegisteredInv, DbShape, ibmdb2i_savepoint_release
  <2>2. PICK d \in {db2, released} : db2' \in {d, ibmdb2i_savepoint_set(d, n)}
    BY DEF SetSavepoint
  <2>3. d.log = db2.log /\ DbShape(d)
    BY <2>1 DEF RegisteredInv, DbShape
  <2>4. QED
    BY <2>2, <2>3, SavepointsKeepLog DEF DbShape, ibmdb2i_savepoint_set
<1>3. QED BY <1>1, <1>2 DEF RegisteredInv, PendingIsRegistered, DbShape

LEMMA ReleaseRegistered ==
  ASSUME RegisteredInv, NEW i, ReleaseSavepoint(i)
  PROVE RegisteredInv'
<1>1. /\ UNCHANGED <<notAutocommit, begun, transaction_unsafe, tablesLocked, stmtReg, allReg,
                     statement>>
      /\ svs # <<>>
  BY DEF ReleaseSavepoint, sessionVars, regVars
<1>2. db2'.log = db2.log /\ DbShape(db2')
  BY SavepointsKeepLog
     DEF ReleaseSavepoint, RegisteredInv, DbShape, ibmdb2i_savepoint_release
<1>3. QED BY <1>1, <1>2 DEF RegisteredInv, PendingIsRegistered, DbShape

LEMMA RollbackToRegistered ==
  ASSUME RegisteredInv, NEW i, RollbackToSavepoint(i)
  PROVE RegisteredInv'
<1>1. /\ UNCHANGED <<notAutocommit, begun, transaction_unsafe, tablesLocked, stmtReg,
                     statement>>
      /\ statement = "none" /\ svs # <<>> /\ allReg' = svs[i].had
  BY DEF RollbackToSavepoint, sessionVars
<1>2. CASE svs[i].had
  <2>1. db2' \in {db2, Db2RollbackToSavepoint(db2, genSavepointName(svs[i].name))}
        /\ (transaction_unsafe => db2' = db2)
    BY <1>2 DEF RollbackToSavepoint, ibmdb2i_savepoint_rollback
  <2>2. DbShape(db2') /\ (transaction_unsafe => db2'.log = <<>>)
    BY <2>1, RollbackShape DEF RegisteredInv, DbShape
  <2>3. QED BY <1>1, <1>2, <2>2 DEF RegisteredInv, PendingIsRegistered, DbShape
<1>3. CASE ~svs[i].had
  <2>1. DbShape(db2') /\ db2'.log = <<>>
    <3>1. IF allReg THEN doCommit(TRUE) \/ doRollback(TRUE) ELSE db2' = db2
      BY <1>3 DEF RollbackToSavepoint
    <3>2. QED BY <1>1, <3>1, TransactionEnded
  <2>2. QED BY <1>1, <1>3, <2>1 DEF RegisteredInv, PendingIsRegistered, DbShape
<1>4. QED BY <1>2, <1>3

LEMMA RegisteredStep ==
  ASSUME RegisteredInv, [Next]_vars,
         LocksTables = FALSE, UnsafeInTransaction = FALSE, SetReadsTables = FALSE
  PROVE RegisteredInv'
<1>1. ASSUME NEW c, ChangeRow(c) PROVE RegisteredInv'
  <2>1. DbShape(db2') /\ (transaction_unsafe => db2'.log = <<>>)
    BY <1>1 DEF ChangeRow, RegisteredInv, DbShape
  <2>2. QED
    BY <1>1, <2>1 DEF ChangeRow, RegisteredInv, PendingIsRegistered, DbShape, sessionVars,
                      regVars
<1>2. ASSUME NEW commits, EndTransaction(commits) PROVE RegisteredInv'
  <2>1. IF allReg THEN doCommit(TRUE) \/ doRollback(TRUE) ELSE db2' = db2
    BY <1>2 DEF EndTransaction
  <2>2. statement = "none" /\ ~allReg' /\ svs' = <<>>
        /\ UNCHANGED <<transaction_unsafe, tablesLocked, stmtReg, statement>>
    BY <1>2 DEF EndTransaction
  <2>3. DbShape(db2') /\ db2'.log = <<>>
    BY <2>1, <2>2, TransactionEnded
  <2>4. QED BY <2>2, <2>3 DEF RegisteredInv, PendingIsRegistered, DbShape
<1>3. CASE EnableAutocommit
  <2>1. IF allReg THEN doCommit(TRUE) \/ doRollback(TRUE) ELSE db2' = db2
    BY <1>3 DEF EnableAutocommit
  <2>2. statement = "none" /\ ~allReg' /\ svs' = <<>>
        /\ UNCHANGED <<transaction_unsafe, tablesLocked, stmtReg, statement>>
    BY <1>3 DEF EnableAutocommit
  <2>3. DbShape(db2') /\ db2'.log = <<>>
    BY <2>1, <2>2, TransactionEnded
  <2>4. QED BY <2>2, <2>3 DEF RegisteredInv, PendingIsRegistered, DbShape
<1>4. CASE DisableAutocommit
  BY <1>4 DEF DisableAutocommit, RegisteredInv, PendingIsRegistered, regVars
<1>5. CASE SetTransactionUnsafe
  BY <1>5 DEF SetTransactionUnsafe, RegisteredInv, PendingIsRegistered, regVars
<1>6. CASE LockTables \/ UnlockTables
  BY <1>6 DEF LockTables, UnlockTables, RegisteredInv
<1>7. CASE close_connection
  <2>1. DbShape(db2') /\ db2'.log = <<>>
    BY <1>7, RollbackShape, LogEmptied DEF close_connection, RegisteredInv, DbShape
  <2>2. QED
    BY <1>7, <2>1 DEF close_connection, RegisteredInv, PendingIsRegistered, DbShape
<1>8. CASE UNCHANGED vars
  BY <1>8 DEF vars, sessionVars, regVars, RegisteredInv, PendingIsRegistered
<1>9. QED
  BY <1>1, <1>2, <1>3, <1>4, <1>5, <1>6, <1>7, <1>8, StartRegisters, EndStatementRegistered,
     SavepointRegistered, RollbackToRegistered, ReleaseRegistered DEF Next

(* Without LOCK TABLES, and with transaction_unsafe left alone inside      *)
(* transactions, no uncommitted change is out of reach of MySQL's COMMIT   *)
(* and ROLLBACK, even if savepoints fail.                                  *)
THEOREM PendingChangesAreRegistered ==
  ASSUME LocksTables = FALSE, UnsafeInTransaction = FALSE, SetReadsTables = FALSE
  PROVE Spec => []PendingIsRegistered
<1>1. Init => RegisteredInv
  BY DEF Init, RegisteredInv, PendingIsRegistered
<1>2. RegisteredInv /\ [Next]_vars => RegisteredInv'
  BY RegisteredStep
<1>3. RegisteredInv => PendingIsRegistered
  BY DEF RegisteredInv
<1>4. QED BY <1>1, <1>2, <1>3, PTL DEF Spec

-----------------------------------------------------------------------------
(* Where the statement transaction is marked.                              *)

(* The changes of a statement are those behind stmtMark: a statement that  *)
(* makes none, or none under commitment control, leaves the log alone.     *)
OwnChanges ==
  /\ stmtMark \in Nat
  /\ statement = "dml" /\ ~transaction_unsafe => stmtReg
  /\ statement # "none" => stmtMark <= Len(db2.log)
  /\ statement # "none" /\ ~(statement = "dml" /\ ~transaction_unsafe) =>
       Len(db2.log) = stmtMark

(* A statement transaction is active only inside of a statement of a       *)
(* multi-statement transaction, and then each savepoint with the           *)
(* predefined name, of which there is one, is where the statement began.   *)
ActiveInside ==
  stmtTxActive => statement # "none" /\ stmtReg /\ ~autoCommitIsOn /\ ~transaction_unsafe
MarkedAtStart ==
  stmtTxActive =>
    /\ IsSet(db2, SAVEPOINT_NAME)
    /\ \A p \in 1..Len(db2.savepoints) :
         db2.savepoints[p].name = SAVEPOINT_NAME => db2.savepoints[p].mark = stmtMark

StmtInv == Sound(db2) /\ BegunInv /\ OwnChanges /\ ActiveInside /\ MarkedAtStart

(* What sets the savepoint of a statement sets it there. *)
LEMMA BeginMarks ==
  ASSUME Sound(db2), SetSavepointMayFail = FALSE, ~stmtTxActive, beginStmtTx
  PROVE  /\ stmtTxActive' /\ IsSet(db2', SAVEPOINT_NAME)
         /\ \A p \in 1..Len(db2'.savepoints) :
              db2'.savepoints[p].name = SAVEPOINT_NAME =>
                db2'.savepoints[p].mark = Len(db2.log)
<1>1. stmtTxActive' /\ db2' = Db2SetSavepoint(db2, SAVEPOINT_NAME)
  BY DEF beginStmtTx, SavepointAnswers
<1>2. SAVEPOINT_NAME \in MarkNames BY DEF MarkNames
<1>3. /\ IsSet(db2', SAVEPOINT_NAME)
      /\ \A p \in 1..Len(db2'.savepoints) :
              IF db2'.savepoints[p].name = SAVEPOINT_NAME
              THEN db2'.savepoints[p].mark = Len(db2.log)
              ELSE \E q \in 1..Len(db2.savepoints) : db2'.savepoints[p] = db2.savepoints[q]
  BY <1>1, <1>2, SetSavepointOf
<1>4. QED BY <1>1, <1>3

(* If a statement transaction begins, then inside of a transaction.        *)
LEMMA BeginActive ==
  ASSUME Sound(db2), SetSavepointMayFail = FALSE, ~stmtTxActive, NEW command,
         UNCHANGED sessionVars, external_lock(command) \/ start_stmt
  PROVE  stmtTxActive' =>
           /\ stmtReg' /\ ~autoCommitIsOn' /\ ~transaction_unsafe'
           /\ IsSet(db2', SAVEPOINT_NAME)
           /\ \A p \in 1..Len(db2'.savepoints) :
                db2'.savepoints[p].name = SAVEPOINT_NAME =>
                  db2'.savepoints[p].mark = Len(db2.log)
<1> SUFFICES ASSUME stmtTxActive'
             PROVE  /\ stmtReg' /\ ~autoCommitIsOn' /\ ~transaction_unsafe'
                    /\ beginStmtTx
  BY BeginMarks
<1>1. UNCHANGED <<notAutocommit, begun, transaction_unsafe>> BY DEF sessionVars
<1>2. CASE external_lock(command) BY <1>1, <1>2 DEF external_lock
<1>3. CASE start_stmt BY <1>1, <1>3 DEF start_stmt
<1>4. QED BY <1>2, <1>3

(* A statement begins.                                                     *)
LEMMA StartMarks ==
  ASSUME StmtInv, SetReadsTables = FALSE, SetSavepointMayFail = FALSE,
         NEW command \in Commands, StartStatement(command)
  PROVE  StmtInv'
<1>1. /\ statement = "none" /\ statement' = command /\ command \in {"dml", "create"}
      /\ UNCHANGED sessionVars /\ stmtMark' = Len(db2.log)
      /\ external_lock(command) \/ start_stmt
      /\ ~stmtTxActive
  BY DEF StartStatement, Commands, StmtInv, ActiveInside
<1>2. BegunInv' BY StartBegins DEF StmtInv
<1>3. Sound(db2') /\ db2'.log = db2.log BY <1>1, BeginOf DEF StmtInv
<1>4. stmtTxActive' =>
           /\ stmtReg' /\ ~autoCommitIsOn' /\ ~transaction_unsafe'
           /\ IsSet(db2', SAVEPOINT_NAME)
           /\ \A p \in 1..Len(db2'.savepoints) :
                db2'.savepoints[p].name = SAVEPOINT_NAME =>
                  db2'.savepoints[p].mark = Len(db2.log)
  BY <1>1, BeginActive DEF StmtInv
<1>5. ActiveInside' /\ MarkedAtStart'
  BY <1>1, <1>4 DEF ActiveInside, MarkedAtStart
<1>6. command = "dml" /\ ~transaction_unsafe' => stmtReg'
  BY <1>1 DEF external_lock, start_stmt, sessionVars
<1>7. Len(db2.log) \in Nat BY DbTypes DEF StmtInv, Sound
<1>8. OwnChanges'
  BY <1>1, <1>3, <1>6, <1>7 DEF OwnChanges
<1>9. QED BY <1>2, <1>3, <1>5, <1>8 DEF StmtInv

(* LOCK TABLES begins a statement transaction, too.                        *)
LEMMA LockMarks ==
  ASSUME StmtInv, SetSavepointMayFail = FALSE, LockTables
  PROVE  StmtInv'
<1>1. /\ statement = "none" /\ statement' = "lock"
      /\ UNCHANGED <<notAutocommit, begun, transaction_unsafe>> /\ stmtMark' = Len(db2.log)
      /\ external_lock("lock")
      /\ ~stmtTxActive
  BY DEF LockTables, StmtInv, ActiveInside
<1>2. BegunInv' BY LockBegins DEF StmtInv
<1>3. Sound(db2') /\ db2'.log = db2.log BY <1>1, BeginOf DEF StmtInv
<1>4. stmtTxActive' => /\ stmtReg' /\ ~autoCommitIsOn' /\ ~transaction_unsafe'
                       /\ beginStmtTx
  BY <1>1 DEF external_lock
<1>5. ActiveInside' /\ MarkedAtStart'
  BY <1>1, <1>4, BeginMarks DEF StmtInv, ActiveInside, MarkedAtStart
<1>6. Len(db2.log) \in Nat BY DbTypes DEF StmtInv, Sound
<1>7. OwnChanges' BY <1>1, <1>3, <1>6 DEF OwnChanges
<1>8. QED BY <1>2, <1>3, <1>5, <1>7 DEF StmtInv

(* A row change leaves the savepoints.                                     *)
LEMMA ChangeMarks ==
  ASSUME StmtInv, NEW c \in Changes, ChangeRow(c)
  PROVE  StmtInv'
<1>1. /\ statement = "dml"
      /\ UNCHANGED <<stmtTxActive, notAutocommit, begun, transaction_unsafe, stmtReg, statement,
                     stmtMark>>
  BY DEF ChangeRow, sessionVars, regVars
<1>2. /\ Sound(db2') /\ db2'.savepoints = db2.savepoints
      /\ transaction_unsafe => db2'.log = db2.log
      /\ ~transaction_unsafe => Len(db2'.log) = Len(db2.log) + 1
  BY ChangeOf DEF StmtInv
<1>3. Len(db2.log) \in Nat BY DbTypes DEF StmtInv, Sound
<1>4. BegunInv' BY <1>1 DEF StmtInv, BegunInv
<1>5. OwnChanges' BY <1>1, <1>2, <1>3 DEF StmtInv, OwnChanges
<1>6. ActiveInside' BY <1>1 DEF StmtInv, ActiveInside
<1>7. MarkedAtStart' BY <1>1, <1>2 DEF StmtInv, MarkedAtStart, IsSet
<1>8. QED BY <1>2, <1>4, <1>5, <1>6, <1>7 DEF StmtInv

(* Between two statements none is active. *)
LEMMA IdleMarks ==
  ASSUME Sound(db2'), BegunInv', statement' = "none", ~stmtTxActive', stmtMark' \in Nat
  PROVE  StmtInv'
BY DEF StmtInv, OwnChanges, ActiveInside, MarkedAtStart

(* The end of a statement ends its statement transaction.                  *)
LEMMA EndMarks ==
  ASSUME StmtInv, SetReadsTables = FALSE, NEW succeeds, EndStatement(succeeds),
         [Next]_vars
  PROVE  StmtInv'
<1>1. statement # "none" /\ statement' = "none" /\ stmtMark' = 0 BY DEF EndStatement
<1>2. Sound(db2') BY EndStatementOf DEF StmtInv
<1>3. BegunInv' BY BegunStep DEF StmtInv
<1>4. ~stmtTxActive'
  <2>1. CASE ~stmtReg BY <2>1 DEF EndStatement, StmtInv, ActiveInside
  <2>2. CASE stmtReg
    <3>1. doCommit(FALSE) \/ doRollback(FALSE) BY <2>2 DEF EndStatement
    <3>2. QED
      BY <3>1 DEF doCommit, doRollback, commitStmtTx, rollbackStmtTx, StmtInv, ActiveInside
  <2>3. QED BY <2>1, <2>2
<1>5. QED BY <1>1, <1>2, <1>3, <1>4, IdleMarks

(* The steps between statements find none active and leave none.           *)
LEMMA SavepointMarks ==
  ASSUME StmtInv, SetReadsTables = FALSE, [Next]_vars,
         Between \/ \E n \in SvNames : SetSavepoint(n)
  PROVE  StmtInv'
<1>1. Sound(db2') BY BetweenOf, UserSavepointOf DEF StmtInv
<1>2. BegunInv' BY BegunStep DEF StmtInv
<1>3. ASSUME NEW n, SetSavepoint(n)
      PROVE  statement = "none" /\ UNCHANGED <<statement, stmtMark, stmtTxActive>>
  BY <1>3 DEF SetSavepoint
<1>4. ASSUME NEW all, all, doCommit(all) \/ doRollback(all) PROVE UNCHANGED stmtTxActive
  BY <1>4 DEF doCommit, doRollback
<1>5. ASSUME NEW commits, EndTransaction(commits)
      PROVE  statement = "none" /\ UNCHANGED <<statement, stmtMark, stmtTxActive>>
  BY <1>4, <1>5 DEF EndTransaction
<1>6. ASSUME EnableAutocommit \/ UnlockTables
      PROVE  statement = "none" /\ UNCHANGED <<statement, stmtMark, stmtTxActive>>
  BY <1>4, <1>6 DEF EnableAutocommit, UnlockTables
<1>7. ASSUME DisableAutocommit \/ SetTransactionUnsafe
      PROVE  statement = "none" /\ UNCHANGED <<statement, stmtMark, stmtTxActive>>
  BY <1>7 DEF DisableAutocommit, SetTransactionUnsafe, StmtInv, BegunInv
<1>8. ASSUME close_connection
      PROVE  statement = "none" /\ UNCHANGED <<statement, stmtMark>> /\ ~stmtTxActive'
  BY <1>8 DEF close_connection
<1>9. ASSUME NEW i, RollbackToSavepoint(i) \/ ReleaseSavepoint(i)
      PROVE  statement = "none" /\ UNCHANGED <<statement, stmtMark, stmtTxActive>>
  BY <1>4, <1>9 DEF RollbackToSavepoint, ReleaseSavepoint
<1>10. ~(statement = "none" /\ stmtTxActive) /\ stmtMark \in Nat
  BY DEF StmtInv, ActiveInside, OwnChanges
<1>11. statement' = "none" /\ ~stmtTxActive' /\ stmtMark' \in Nat
  BY <1>3, <1>5, <1>6, <1>7, <1>8, <1>9, <1>10 DEF Between
<1>12. QED BY <1>1, <1>2, <1>11, IdleMarks

(* Every step keeps the invariant.                                         *)
LEMMA StmtStep ==
  ASSUME SetReadsTables = FALSE, SetSavepointMayFail = FALSE, StmtInv, [Next]_vars
  PROVE  StmtInv'
<1>1. ASSUME UNCHANGED vars PROVE StmtInv'
  BY <1>1 DEF vars, sessionVars, regVars, StmtInv, BegunInv, OwnChanges, ActiveInside,
              MarkedAtStart
<1>2. QED BY <1>1, Steps, StartMarks, LockMarks, ChangeMarks, EndMarks, SavepointMarks

(* It holds at the start.                                                  *)
LEMMA InitStmt == ASSUME Init PROVE StmtInv
<1>1. Sound(db2) BY InitSound
<1>2. BegunInv /\ OwnChanges /\ ActiveInside /\ MarkedAtStart
  BY DEF Init, BegunInv, OwnChanges, ActiveInside, MarkedAtStart
<1>3. QED BY <1>1, <1>2 DEF StmtInv

(* While stmtTxActive is set DB2 has the predefined savepoint, set where   *)
(* the statement began: also under LOCK TABLES and with transaction_unsafe *)
(* set in the middle of a transaction.                                     *)
THEOREM ActiveIsMarked ==
  ASSUME SetReadsTables = FALSE, SetSavepointMayFail = FALSE
  PROVE  Spec => []ActiveMeansMarked
<1>1. Init => StmtInv BY InitStmt
<1>2. StmtInv /\ [Next]_vars => StmtInv' BY StmtStep
<1>3. ASSUME StmtInv PROVE ActiveMeansMarked
  BY <1>3, PositionFound DEF StmtInv, Sound, MarkedAtStart, ActiveMeansMarked
<1>4. QED BY <1>1, <1>2, <1>3, PTL DEF Spec

(* The end of a statement that has failed. *)
LEMMA FailedUndone ==
  ASSUME StmtInv, NEW succeeds, EndStatement(succeeds), answer' = "undone", ~autoCommitIsOn
  PROVE  db2'.log = Upto(db2.log, stmtMark)
<1>1. ~succeeds /\ statement # "none" BY DEF EndStatement
<1>2. db2.log \in Seq(Changes) BY DbTypes DEF StmtInv, Sound
<1>3. CASE ~(statement = "dml" /\ ~transaction_unsafe) /\ db2' = db2
  <2>1. Len(db2.log) = stmtMark BY <1>1, <1>3 DEF StmtInv, OwnChanges
  <2>2. QED BY <1>2, <1>3, <2>1, SubSeqFull DEF Upto
<1>4. CASE ~stmtReg
  BY <1>3, <1>4 DEF EndStatement, StmtInv, OwnChanges
<1>5. CASE stmtReg /\ transaction_unsafe
  BY <1>1, <1>3, <1>5 DEF EndStatement, doRollback
<1>6. CASE stmtReg /\ ~transaction_unsafe
  <2>1. stmtTxActive BY <1>1, <1>6 DEF StmtInv, BegunInv
  <2>2. db2' = Db2RollbackToSavepoint(db2, SAVEPOINT_NAME)
    BY <1>1, <1>6 DEF EndStatement, doRollback, rollbackStmtTx
  <2>3. IsSet(db2, SAVEPOINT_NAME) BY <2>1 DEF StmtInv, MarkedAtStart
  <2>4. PICK q \in 1..Len(db2.savepoints) :
          db2.savepoints[q].name = SAVEPOINT_NAME /\ db2'.log = Upto(db2.log, db2.savepoints[q].mark)
    BY <2>2, <2>3, RollbackToSavepointOf DEF StmtInv
  <2>5. db2.savepoints[q].mark = stmtMark BY <2>1, <2>4 DEF StmtInv, MarkedAtStart
  <2>6. QED BY <2>4, <2>5
<1>7. QED BY <1>4, <1>5, <1>6

(* In a multi-statement transaction a statement that fails takes back its  *)
(* own changes and no others, whatever was set, released and rolled back   *)
(* before.                                                                 *)
THEOREM FailedStatementsUndone ==
  ASSUME SetReadsTables = FALSE, SetSavepointMayFail = FALSE
  PROVE  Spec => FailedStatementUndone
<1> DEFINE Undone ==
      statement # "none" /\ statement' = "none" /\ answer' = "undone" /\ ~autoCommitIsOn =>
        db2'.log = Upto(db2.log, stmtMark)
<1>1. Init => StmtInv BY InitStmt
<1>2. StmtInv /\ [Next]_vars => StmtInv' BY StmtStep
<1>3. ASSUME StmtInv, [Next]_vars PROVE Undone
  <2>1. SUFFICES ASSUME statement # "none", statement' = "none", answer' = "undone",
                        ~autoCommitIsOn
                 PROVE  \E succeeds : EndStatement(succeeds)
    BY <1>3, FailedUndone
  <2>2. statement # "set" BY <1>3 DEF StmtInv, BegunInv
  <2>3. ~UNCHANGED vars BY <2>1 DEF vars
  <2>4. ~Between
    BY <2>1, <2>2 DEF Between, EndTransaction, DisableAutocommit, EnableAutocommit,
       SetTransactionUnsafe, UnlockTables, RollbackToSavepoint, ReleaseSavepoint, close_connection
  <2>5. QED
    BY <1>3, <2>1, <2>3, <2>4, Steps DEF StartStatement, ChangeRow, LockTables, SetSavepoint
<1>4. QED BY <1>1, <1>2, <1>3, PTL DEF Spec, FailedStatementUndone

-----------------------------------------------------------------------------
(* The refinement: what SqlTransaction sees of MySQL's savepoints.         *)

(* What SqlTransaction sees of MySQL's savepoints.                         *)
Seen(v) == [name |-> v.name, mark |-> v.mark]
Plain(s) == [i \in DOMAIN s |-> Seen(s[i])]
Plains == [name : SvNames, mark : Nat]

(* The list that is seen: as long, element by element.                     *)
LEMMA PlainProperties ==
  ASSUME NEW s \in Seq(Svs)
  PROVE  /\ Plain(s) \in Seq(Plains) /\ Len(Plain(s)) = Len(s)
         /\ \A i \in 1..Len(s) : Plain(s)[i] = Seen(s[i]) /\ s[i] \in Svs /\ Seen(s[i]) \in Plains
         /\ Len(s) \in Nat /\ DOMAIN Plain(s) = 1..Len(s) /\ DOMAIN s = 1..Len(s)
<1>1. DOMAIN s = 1..Len(s) /\ Len(s) \in Nat /\ \A i \in 1..Len(s) : s[i] \in Svs
  BY LenProperties, ElementOfSeq
<1>2. \A i \in 1..Len(s) : Seen(s[i]) \in Plains BY <1>1 DEF Svs, Plains, Seen
<1>3. Plain(s) = [i \in 1..Len(s) |-> Seen(s[i])] BY <1>1 DEF Plain
<1>4. Plain(s) \in [1..Len(s) -> Plains] BY <1>2, <1>3
<1>5. Plain(s) \in Seq(Plains) BY <1>1, <1>4, SeqDef
<1>6. DOMAIN Plain(s) = 1..Len(Plain(s)) /\ Len(Plain(s)) \in Nat BY <1>5, LenProperties
<1>7. 1..Len(Plain(s)) = 1..Len(s) BY <1>3, <1>6
<1>8. Len(Plain(s)) = Len(s)
  <2>1. \A a, b \in Nat : 1..a = 1..b => a <= b
    <3>1. ASSUME NEW a \in Nat, NEW b \in Nat, 1..a = 1..b, a # 0 PROVE a <= b
      <4>1. a \in 1..a BY <3>1
      <4>2. a \in 1..b BY <3>1, <4>1
      <4>3. QED BY <4>2
    <3>2. QED BY <3>1
  <2>2. Len(Plain(s)) \in Nat /\ Len(s) \in Nat BY <1>1, <1>6
  <2>3. Len(Plain(s)) <= Len(s) BY <2>1, <2>2, <1>7
  <2>4. Len(s) <= Len(Plain(s)) BY <2>1, <2>2, <1>7
  <2>5. QED BY <2>2, <2>3, <2>4
<1>9. QED BY <1>1, <1>2, <1>3, <1>5, <1>8

(* Of no savepoints none are seen.                                         *)
LEMMA PlainEmpty == Plain(<<>>) = <<>>
<1>1. <<>> \in Seq(Svs) /\ Len(<<>>) = 0 BY EmptySeq
<1>2. Plain(<<>>) \in Seq(Plains) /\ Len(Plain(<<>>)) = 0 BY <1>1, PlainProperties
<1>3. QED BY <1>2, EmptySeq

(* Of the first n, the first n.                                            *)
LEMMA PlainUpto ==
  ASSUME NEW s \in Seq(Svs), NEW n \in 0..Len(s)
  PROVE  Plain(Upto(s, n)) = Upto(Plain(s), n)
<1>1. /\ Upto(s, n) \in Seq(Svs) /\ Len(Upto(s, n)) = n
      /\ \A i \in 1..n : Upto(s, n)[i] = s[i]
  BY UptoProperties
<1>2. /\ Plain(s) \in Seq(Plains) /\ Len(Plain(s)) = Len(s) /\ Len(s) \in Nat
      /\ \A i \in 1..Len(s) : Plain(s)[i] = Seen(s[i])
  BY PlainProperties
<1> DEFINE t == Upto(s, n)
           a == Plain(t)
           b == Upto(Plain(s), n)
<1>3. /\ b \in Seq(Plains) /\ Len(b) = n /\ \A i \in 1..n : b[i] = Plain(s)[i]
  BY <1>2, UptoProperties
<1> HIDE DEF b, t
<1>4. a \in Seq(Plains) /\ Len(a) = n /\ \A i \in 1..n : a[i] = Seen(t[i])
  BY <1>1, PlainProperties DEF t
<1> HIDE DEF a
<1>5. \A i \in 1..n : a[i] = b[i]
  <2>1. \A i \in 1..n : i \in 1..Len(s) BY <1>2
  <2>2. QED BY <2>1, <1>1, <1>2, <1>3, <1>4 DEF t
<1>6. a = b BY <1>3, <1>4, <1>5, SeqEqual
<1>7. QED BY <1>6 DEF a, b, t

(* Of a new one, the new one.                                              *)
LEMMA PlainAppend ==
  ASSUME NEW s \in Seq(Svs), NEW e \in Svs
  PROVE  Plain(Append(s, e)) = Append(Plain(s), Seen(e))
<1> DEFINE t == Append(s, e)
           a == Plain(t)
           b == Append(Plain(s), Seen(e))
<1>1. /\ t \in Seq(Svs) /\ Len(t) = Len(s) + 1 /\ t[Len(s) + 1] = e
      /\ \A i \in 1..Len(s) : t[i] = s[i]
  BY AppendProperties
<1>2. /\ Plain(s) \in Seq(Plains) /\ Len(Plain(s)) = Len(s) /\ Len(s) \in Nat
      /\ \A i \in 1..Len(s) : Plain(s)[i] = Seen(s[i])
  BY PlainProperties
<1>3. Seen(e) \in Plains BY DEF Seen, Plains, Svs
<1>4. /\ b \in Seq(Plains) /\ Len(b) = Len(s) + 1 /\ b[Len(s) + 1] = Seen(e)
      /\ \A i \in 1..Len(s) : b[i] = Plain(s)[i]
  BY <1>2, <1>3, AppendProperties
<1> HIDE DEF t, b
<1>5. a \in Seq(Plains) /\ Len(a) = Len(t) /\ \A i \in 1..Len(t) : a[i] = Seen(t[i])
  BY <1>1, PlainProperties
<1> HIDE DEF a
<1>6. ASSUME NEW i \in 1..Len(t) PROVE a[i] = b[i]
  <2>1. i \in 1..Len(s) \/ i = Len(s) + 1 BY <1>1, <1>2
  <2>2. CASE i \in 1..Len(s) BY <2>2, <1>1, <1>2, <1>4, <1>5
  <2>3. CASE i = Len(s) + 1 BY <2>3, <1>1, <1>4, <1>5
  <2>4. QED BY <2>1, <2>2, <2>3
<1>7. a = b BY <1>1, <1>4, <1>5, <1>6, SeqEqual
<1>8. QED BY <1>7 DEF a, b, t

(* A savepoint is taken out of the list by its name, which is seen. *)
LEMMA PlainWithout ==
  ASSUME NEW s \in Seq(Svs), NEW n
  PROVE  WithoutName(Plain(s), n) = Plain(WithoutName(s, n))
<1> DEFINE p == Plain(s)
<1>1. /\ p \in Seq(Plains) /\ Len(p) = Len(s) /\ Len(s) \in Nat
      /\ \A i \in 1..Len(s) : p[i] = Seen(s[i]) /\ s[i] \in Svs
  BY PlainProperties
<1> HIDE DEF p
<1>2. PICK u : /\ WithoutName(s, n) = u[Len(s)]
               /\ \A k \in 0..Len(s) : u[k] = Kept(s, n, u, k)
  BY WithoutNameSteps
<1>3. PICK w : /\ WithoutName(p, n) = w[Len(p)]
               /\ \A k \in 0..Len(p) : w[k] = Kept(p, n, w, k)
  BY <1>1, WithoutNameSteps
<1> DEFINE P == {m \in Nat : u[m] \in Seq(Svs) /\ w[m] = Plain(u[m])}
<1>4. 0 \in P
  <2>1. u[0] = <<>> /\ w[0] = <<>> BY <1>1, <1>2, <1>3 DEF Kept
  <2>2. u[0] \in Seq(Svs) BY <2>1, EmptySeq
  <2>3. QED BY <2>1, <2>2, PlainEmpty
<1>5. ASSUME NEW m \in 0..Len(s) - 1, m \in P PROVE m + 1 \in P
  <2>1. m \in Nat /\ m + 1 \in 1..Len(s) /\ m + 1 \in Nat /\ s[m + 1] \in Svs BY <1>1
  <2>2. u[m + 1] = IF s[m + 1].name = n THEN u[m] ELSE Append(u[m], s[m + 1])
    <3>1. u[m + 1] = Kept(s, n, u, m + 1) BY <2>1, <1>2
    <3>2. QED BY <3>1, <2>1 DEF Kept
  <2>3. w[m + 1] = IF p[m + 1].name = n THEN w[m] ELSE Append(w[m], p[m + 1])
    <3>1. w[m + 1] = Kept(p, n, w, m + 1) BY <2>1, <1>1, <1>3
    <3>2. QED BY <3>1, <2>1 DEF Kept
  <2>4. p[m + 1] = Seen(s[m + 1]) /\ p[m + 1].name = s[m + 1].name BY <2>1, <1>1 DEF Seen
  <2>5. u[m] \in Seq(Svs) /\ w[m] = Plain(u[m]) BY <1>5
  <2>6. CASE s[m + 1].name = n
    <3>1. u[m + 1] = u[m] /\ w[m + 1] = w[m] BY <2>2, <2>3, <2>4, <2>6
    <3>2. QED BY <3>1, <2>1, <2>5
  <2>7. CASE s[m + 1].name # n
    <3>1. u[m + 1] = Append(u[m], s[m + 1]) /\ w[m + 1] = Append(w[m], Seen(s[m + 1]))
      BY <2>2, <2>3, <2>4, <2>7
    <3>2. Append(u[m], s[m + 1]) \in Seq(Svs) BY <2>1, <2>5, AppendProperties
    <3>3. Append(w[m], Seen(s[m + 1])) = Plain(Append(u[m], s[m + 1]))
      BY <2>1, <2>5, PlainAppend
    <3>4. QED BY <3>1, <3>2, <3>3, <2>1
  <2>8. QED BY <2>6, <2>7
<1>6. Len(s) \in P
  <2> HIDE DEF P
  <2>1. \A m \in 0..Len(s) - 1 : m \in P => m + 1 \in P BY <1>5
  <2>2. \A m \in 0..Len(s) : m \in P BY <1>1, <1>4, <2>1, InductionUpTo
  <2>3. QED BY <1>1, <2>2
<1>7. QED BY <1>1, <1>2, <1>3, <1>6 DEF p

(* SqlTransaction's own copies of the operators on sequences.              *)
LEMMA SameWithout == \A s, n : Sql!WithoutName(s, n) = WithoutName(s, n)
  BY DEF Sql!WithoutName, WithoutName
LEMMA SameUpto == \A s, n : Sql!Upto(s, n) = Upto(s, n)
  BY DEF Sql!Upto, Upto
LEMMA SameSet == \A s : Sql!Set(s) = Set(s)
  BY DEF Sql!Set, Set

(* genSavepointName gives different savepoints different names, and none the *)
(* predefined one.                                                         *)
LEMMA GenDistinct ==
  /\ \A a, b : genSavepointName(a) = genSavepointName(b) => a = b
  /\ \A a : genSavepointName(a) # SAVEPOINT_NAME
<1>1. \A a, b : <<"MYSP", a>> = <<"MYSP", b>> => a = b OBVIOUS
<1>2. ASSUME NEW a PROVE <<"MYSP", a>> # <<"MSPOINTER">>
  <2>1. <<"MYSP", a>>[1] = "MYSP" /\ <<"MSPOINTER">>[1] = "MSPOINTER" OBVIOUS
  <2>2. QED BY <2>1
<1>3. QED BY <1>1, <1>2 DEF genSavepointName, SAVEPOINT_NAME

-----------------------------------------------------------------------------
(* The invariant under which every step is one of SqlTransaction.          *)

(* DB2's savepoint for one of MySQL's is where MySQL thinks it is.         *)
SameMarks(sv, d) ==
  \A i \in 1..Len(sv) : \A p \in 1..Len(d.savepoints) :
    sv[i].had /\ d.savepoints[p].name = genSavepointName(sv[i].name) =>
      d.savepoints[p].mark = sv[i].mark

(* A savepoint set before the engine took part is at the start; none that  *)
(* was set afterwards is followed by one that was set before.              *)
AtStart(sv) == \A i \in 1..Len(sv) : ~sv[i].had => sv[i].mark = 0
Rising(sv) == \A i \in 1..Len(sv) : \A j \in 1..i : sv[j].had => sv[i].had
Took(sv) == \E i \in 1..Len(sv) : sv[i].had

SqlInv ==
  /\ StmtInv /\ RegisteredInv /\ SessionTypes /\ svs \in Seq(Svs)
  /\ SameMarks(svs, db2) /\ AtStart(svs) /\ Rising(svs)
  /\ Took(svs) => allReg
  /\ allReg => ~transaction_unsafe
  /\ statement = "none" \/ autoCommitIsOn => stmtMark = 0

(* Fewer savepoints of DB2.                                                *)
LEMMA FewerMarks ==
  ASSUME NEW sv, NEW d, NEW e, SameMarks(sv, d), Within(e, d)
  PROVE  SameMarks(sv, e)
BY ZenonT(60) DEF SameMarks, Within

(* No savepoints of the user.                                              *)
LEMMA NoSavepoints ==
  /\ <<>> \in Seq(Svs) /\ AtStart(<<>>) /\ Rising(<<>>) /\ ~Took(<<>>)
  /\ \A d : SameMarks(<<>>, d)
<1>1. <<>> \in Seq(Svs) /\ Len(<<>>) = 0 BY EmptySeq
<1>2. QED BY <1>1 DEF AtStart, Rising, Took, SameMarks

(* What is left of the list when elements are dropped in order. *)
LEMMA FewerSavepoints ==
  ASSUME NEW s \in Seq(Svs), NEW t \in Seq(Svs), InOrder(t, s, Len(s))
  PROVE  /\ AtStart(s) => AtStart(t)
         /\ Rising(s) => Rising(t)
         /\ Took(t) => Took(s)
         /\ \A d : SameMarks(s, d) => SameMarks(t, d)
<1>1. Len(s) \in Nat /\ Len(t) \in Nat BY LenProperties
<1>2. \A i \in 1..Len(t) : \E k \in 1..Len(s) : t[i] = s[k]
  <2>1. \A i \in 1..Len(t) : i \in 1..i BY <1>1
  <2>2. QED BY <2>1 DEF InOrder
<1>3. AtStart(s) => AtStart(t) BY <1>2 DEF AtStart
<1>4. Took(t) => Took(s) BY <1>2 DEF Took
<1>5. \A d : SameMarks(s, d) => SameMarks(t, d) BY <1>2 DEF SameMarks
<1>6. ASSUME Rising(s), NEW j \in 1..Len(t), NEW i \in 1..j, t[i].had PROVE t[j].had
  <2>1. PICK l \in 1..Len(s) : \E k \in 1..l : t[i] = s[k] /\ t[j] = s[l] BY DEF InOrder
  <2>2. PICK k \in 1..l : t[i] = s[k] /\ t[j] = s[l] BY <2>1
  <2>3. s[k].had => s[l].had BY <1>6 DEF Rising
  <2>4. QED BY <1>6, <2>2, <2>3
<1>7. Rising(s) => Rising(t) BY <1>6 DEF Rising
<1>8. QED BY <1>3, <1>4, <1>5, <1>7

(* The first n are in order.                                               *)
LEMMA UptoInOrder ==
  ASSUME NEW s \in Seq(Svs), NEW n \in 0..Len(s)
  PROVE  Upto(s, n) \in Seq(Svs) /\ InOrder(Upto(s, n), s, Len(s))
<1>1. /\ Upto(s, n) \in Seq(Svs) /\ Len(Upto(s, n)) = n
      /\ \A i \in 1..n : Upto(s, n)[i] = s[i]
  BY UptoProperties
<1>2. Len(s) \in Nat BY LenProperties
<1>3. ASSUME NEW j \in 1..n, NEW i \in 1..j
      PROVE  /\ j \in 1..Len(s) /\ i \in 1..n
             /\ Upto(s, n)[i] = s[i] /\ Upto(s, n)[j] = s[j]
  BY <1>1, <1>2
<1>4. QED BY <1>1, <1>3 DEF InOrder

(* A new savepoint: its name is new, and it comes last. *)
LEMMA OneMoreSavepoint ==
  ASSUME NEW w \in Seq(Svs), NEW new \in Svs,
         AtStart(w), Rising(w), ~new.had => new.mark = 0, Took(w) => new.had
  PROVE  /\ Append(w, new) \in Seq(Svs)
         /\ AtStart(Append(w, new)) /\ Rising(Append(w, new))
         /\ Took(Append(w, new)) => new.had
<1> DEFINE t == Append(w, new)
<1>1. /\ t \in Seq(Svs) /\ Len(t) = Len(w) + 1 /\ t[Len(w) + 1] = new
      /\ \A i \in 1..Len(w) : t[i] = w[i]
  BY AppendProperties
<1> HIDE DEF t
<1>2. Len(w) \in Nat BY LenProperties
<1>3. \A i \in 1..Len(t) : i \in 1..Len(w) \/ i = Len(w) + 1 BY <1>1, <1>2
<1>4. AtStart(t)
  <2>1. ASSUME NEW i \in 1..Len(t), ~t[i].had PROVE t[i].mark = 0
    <3>1. CASE i \in 1..Len(w) BY <2>1, <3>1, <1>1 DEF AtStart
    <3>2. CASE i = Len(w) + 1 BY <2>1, <3>2, <1>1
    <3>3. QED BY <3>1, <3>2, <1>3
  <2>2. QED BY <2>1 DEF AtStart
<1>5. \A i \in 1..Len(w) : t[i].had => new.had BY <1>1 DEF Took
<1>6. Rising(t)
  <2>1. ASSUME NEW i \in 1..Len(t), NEW j \in 1..i, t[j].had PROVE t[i].had
    <3>1. CASE i \in 1..Len(w)
      <4>1. j \in 1..Len(w) BY <3>1, <1>2
      <4>2. QED BY <2>1, <3>1, <4>1, <1>1 DEF Rising
    <3>2. CASE i = Len(w) + 1
      <4>1. j = i \/ j \in 1..Len(w) BY <3>2, <1>2
      <4>2. QED BY <2>1, <3>2, <4>1, <1>1, <1>5
    <3>3. QED BY <3>1, <3>2, <1>3
  <2>2. QED BY <2>1 DEF Rising
<1>7. Took(t) => new.had BY <1>1, <1>3, <1>5 DEF Took
<1>8. QED BY <1>1, <1>4, <1>6, <1>7 DEF t

(* A savepoint that the engine takes part in is the only one of its name.  *)
LEMMA UserSavepointSet ==
  ASSUME Sound(db2), SetSavepointMayFail = FALSE, allReg, ~transaction_unsafe,
         NEW n \in SvNames, SetSavepoint(n)
  PROVE  \A p \in 1..Len(db2'.savepoints) :
           db2'.savepoints[p].name = genSavepointName(n) =>
             db2'.savepoints[p].mark = Len(db2.log)
<1> DEFINE g == genSavepointName(n)
           released == IF \E i \in {j \in DOMAIN svs : svs[j].name = n} : svs[i].had
                       THEN ibmdb2i_savepoint_release(db2, n) ELSE db2
<1>1. g \in MarkNames BY DEF MarkNames
<1>2. Sound(released) /\ released.log = db2.log
  BY ReleaseSavepointOf DEF ibmdb2i_savepoint_release
<1>3. db2' = ibmdb2i_savepoint_set(released, n) BY DEF SetSavepoint, SavepointAnswers
<1> HIDE DEF released
<1>4. db2' = Db2SetSavepoint(released, g) BY <1>3 DEF ibmdb2i_savepoint_set
<1> HIDE DEF g
<1>5. \A p \in 1..Len(db2'.savepoints) :
              IF db2'.savepoints[p].name = g THEN db2'.savepoints[p].mark = Len(released.log)
              ELSE \E q \in 1..Len(released.savepoints) :
                     db2'.savepoints[p] = released.savepoints[q]
  BY <1>1, <1>2, <1>4, SetSavepointOf
<1>6. QED BY <1>2, <1>5 DEF g

(* Setting a savepoint. *)
LEMMA SetKeepsSql ==
  ASSUME SqlInv, SetSavepointMayFail = FALSE, NEW n \in SvNames, SetSavepoint(n)
  PROVE  /\ SameMarks(svs', db2') /\ AtStart(svs') /\ Rising(svs') /\ (Took(svs') => allReg)
<1> DEFINE w == WithoutName(svs, n)
           new == [name |-> n, mark |-> Len(db2.log), had |-> allReg]
<1>1. /\ svs' \in {w, Append(w, new)} /\ statement = "none" /\ ~autoCommitIsOn
  BY DEF SetSavepoint
<1>2. /\ w \in Seq(Svs) /\ \A i \in 1..Len(w) : w[i].name # n
      /\ InOrder(w, svs, Len(svs))
  BY WithoutNameOrder DEF SqlInv
<1> HIDE DEF w
<1>3. AtStart(w) /\ Rising(w) /\ (Took(w) => allReg) /\ SameMarks(w, db2)
  BY <1>2, FewerSavepoints DEF SqlInv
<1>4. new \in Svs /\ new.name = n /\ new.mark = Len(db2.log) /\ new.had = allReg
  <2>1. Len(db2.log) \in Nat BY DbTypes DEF SqlInv, StmtInv, Sound
  <2>2. allReg \in BOOLEAN BY DEF SqlInv, SessionTypes
  <2>3. QED BY <2>1, <2>2 DEF Svs
<1> HIDE DEF new
<1>5. ~new.had => new.mark = 0
  <2>1. ~allReg => db2.log = <<>>
    BY <1>1 DEF SqlInv, RegisteredInv, PendingIsRegistered
  <2>2. QED BY <2>1, <1>4, EmptySeq
<1>6. \A p \in 1..Len(db2'.savepoints) :
              \/ /\ db2'.savepoints[p].name = genSavepointName(n)
                 /\ db2'.savepoints[p].mark = Len(db2.log)
              \/ \E q \in 1..Len(db2.savepoints) : db2'.savepoints[p] = db2.savepoints[q]
  BY UserSavepointOf DEF SqlInv, StmtInv
<1>7. SameMarks(w, db2')
  <2>1. ASSUME NEW i \in 1..Len(w), NEW p \in 1..Len(db2'.savepoints), w[i].had,
               db2'.savepoints[p].name = genSavepointName(w[i].name)
        PROVE  db2'.savepoints[p].mark = w[i].mark
    <3>1. db2'.savepoints[p].name # genSavepointName(n) BY <2>1, <1>2, GenDistinct
    <3>2. PICK q \in 1..Len(db2.savepoints) : db2'.savepoints[p] = db2.savepoints[q]
      BY <3>1, <1>6
    <3>3. QED BY <2>1, <3>2, <1>3 DEF SameMarks
  <2>2. QED BY <2>1 DEF SameMarks
<1>8. CASE svs' = w BY <1>3, <1>7, <1>8
<1>9. CASE svs' = Append(w, new)
  <2>1. /\ svs' \in Seq(Svs) /\ AtStart(svs') /\ Rising(svs') /\ (Took(svs') => allReg)
    BY <1>2, <1>3, <1>4, <1>5, <1>9, OneMoreSavepoint
  <2>2. SameMarks(svs', db2')
    <3>1. /\ Len(svs') = Len(w) + 1 /\ svs'[Len(w) + 1] = new /\ Len(w) \in Nat
          /\ \A i \in 1..Len(w) : svs'[i] = w[i]
      BY <1>2, <1>4, <1>9, AppendProperties, LenProperties
    <3>2. ASSUME NEW i \in 1..Len(svs'), NEW p \in 1..Len(db2'.savepoints), svs'[i].had,
                 db2'.savepoints[p].name = genSavepointName(svs'[i].name)
          PROVE  db2'.savepoints[p].mark = svs'[i].mark
      <4>1. i \in 1..Len(w) \/ i = Len(w) + 1 BY <3>1
      <4>2. CASE i \in 1..Len(w)
        <5>1. svs'[i] = w[i] BY <4>2, <3>1
        <5>2. QED BY <4>2, <5>1, <3>2, <1>7 DEF SameMarks
      <4>3. CASE i = Len(w) + 1
        <5>1. svs'[i] = new /\ allReg /\ ~transaction_unsafe
          BY <4>3, <3>1, <3>2, <1>4 DEF SqlInv
        <5>2. \A q \in 1..Len(db2'.savepoints) :
                db2'.savepoints[q].name = genSavepointName(n) =>
                  db2'.savepoints[q].mark = Len(db2.log)
          BY <5>1, UserSavepointSet DEF SqlInv, StmtInv
        <5>3. QED BY <5>1, <5>2, <3>2, <1>4
      <4>4. QED BY <4>1, <4>2, <4>3
    <3>3. QED BY <3>2 DEF SameMarks
  <2>3. QED BY <2>1, <2>2, <1>4
<1>10. QED BY <1>1, <1>8, <1>9

(* The steps that set no savepoint. *)
LEMMA StartKeepsSql ==
  ASSUME SqlInv, LocksTables = FALSE, NEW command \in Commands, StartStatement(command)
  PROVE  /\ SameMarks(svs', db2') /\ AtStart(svs') /\ Rising(svs')
         /\ Took(svs') => allReg'
         /\ allReg' => ~transaction_unsafe'
         /\ autoCommitIsOn' => stmtMark' = 0
<1>1. /\ statement = "none" /\ external_lock(command)
      /\ UNCHANGED <<notAutocommit, begun, transaction_unsafe, svs>>
      /\ stmtMark' = Len(db2.log)
  BY DEF StartStatement, sessionVars, SqlInv, RegisteredInv
<1>2. db2' \in {db2, Db2SetSavepoint(db2, SAVEPOINT_NAME)}
  BY <1>1 DEF external_lock, beginStmtTx
<1>3. SAVEPOINT_NAME \in MarkNames BY DEF MarkNames
<1>4. \A p \in 1..Len(db2'.savepoints) :
        \/ db2'.savepoints[p].name = SAVEPOINT_NAME
        \/ \E q \in 1..Len(db2.savepoints) : db2'.savepoints[p] = db2.savepoints[q]
  BY <1>2, <1>3, SetSavepointOf DEF SqlInv, StmtInv
<1>5. SameMarks(svs, db2')
  <2>1. ASSUME NEW i \in 1..Len(svs), NEW p \in 1..Len(db2'.savepoints), svs[i].had,
               db2'.savepoints[p].name = genSavepointName(svs[i].name)
        PROVE  db2'.savepoints[p].mark = svs[i].mark
    <3>1. PICK q \in 1..Len(db2.savepoints) : db2'.savepoints[p] = db2.savepoints[q]
      BY <2>1, <1>4, GenDistinct
    <3>2. QED BY <2>1, <3>1 DEF SqlInv, SameMarks
  <2>2. QED BY <2>1 DEF SameMarks
<1>6. /\ allReg => allReg'
      /\ allReg' => ~transaction_unsafe
  BY <1>1 DEF external_lock, SqlInv, regVars
<1>7. autoCommitIsOn => Len(db2.log) = 0
  <2>1. autoCommitIsOn => db2.log = <<>>
    BY <1>1 DEF SqlInv, RegisteredInv, PendingIsRegistered
  <2>2. QED BY <2>1, EmptySeq
<1>8. QED BY <1>1, <1>5, <1>6, <1>7 DEF SqlInv

(* The steps between statements.                                           *)
LEMMA BetweenKeepsSql ==
  ASSUME SqlInv, LocksTables = FALSE, UnsafeInTransaction = FALSE, Between
  PROVE  /\ SameMarks(svs', db2') /\ AtStart(svs') /\ Rising(svs')
         /\ Took(svs') => allReg'
         /\ allReg' => ~transaction_unsafe'
         /\ stmtMark' = 0
<1> DEFINE Goal == /\ SameMarks(svs', db2') /\ AtStart(svs') /\ Rising(svs')
                   /\ Took(svs') => allReg'
                   /\ allReg' => ~transaction_unsafe'
<1>1. Within(db2', db2) BY BetweenOf DEF SqlInv, StmtInv
<1>2. ASSUME UNCHANGED svs PROVE SameMarks(svs', db2') /\ AtStart(svs') /\ Rising(svs')
  BY <1>1, <1>2, FewerMarks DEF SqlInv
<1>3. ASSUME svs' = <<>>, ~allReg' PROVE Goal
  BY <1>3, NoSavepoints
<1>4. statement = "none" /\ UNCHANGED stmtMark
  BY DEF Between, EndTransaction, DisableAutocommit, EnableAutocommit,
     SetTransactionUnsafe, UnlockTables, RollbackToSavepoint, ReleaseSavepoint, close_connection,
     SqlInv, RegisteredInv
<1>5. ASSUME NEW commits, EndTransaction(commits) PROVE Goal
  BY <1>3, <1>5 DEF EndTransaction
<1>6. ASSUME EnableAutocommit \/ UnlockTables \/ close_connection PROVE Goal
  BY <1>3, <1>6 DEF EnableAutocommit, UnlockTables, close_connection
<1>7. ASSUME DisableAutocommit \/ SetTransactionUnsafe PROVE Goal
  <2>1. /\ UNCHANGED <<svs, allReg>>
        /\ transaction_unsafe' => transaction_unsafe \/ ~allReg
    BY <1>7 DEF DisableAutocommit, SetTransactionUnsafe, regVars
  <2>2. QED BY <2>1, <1>2 DEF SqlInv
<1>8. DOMAIN svs = 1..Len(svs) /\ Len(svs) \in Nat BY LenProperties DEF SqlInv
<1>9. ASSUME NEW n \in 0..Len(svs), svs' = Upto(svs, n)
      PROVE  /\ SameMarks(svs', db2') /\ AtStart(svs') /\ Rising(svs')
             /\ Took(svs') => Took(svs)
  <2>1. svs' \in Seq(Svs) /\ InOrder(svs', svs, Len(svs)) BY <1>9, UptoInOrder DEF SqlInv
  <2>2. /\ AtStart(svs') /\ Rising(svs') /\ (Took(svs') => Took(svs)) /\ SameMarks(svs', db2)
    BY <2>1, FewerSavepoints DEF SqlInv
  <2>3. QED BY <2>2, <1>1, FewerMarks
<1>10. ASSUME NEW i, RollbackToSavepoint(i) PROVE Goal
  <2>1. /\ i \in 1..Len(svs) /\ svs' = Upto(svs, i) /\ allReg' = svs[i].had
        /\ UNCHANGED transaction_unsafe
    BY <1>8, <1>10 DEF RollbackToSavepoint, sessionVars
  <2>2. /\ SameMarks(svs', db2') /\ AtStart(svs') /\ Rising(svs')
    <3>1. i \in 0..Len(svs) BY <2>1, <1>8
    <3>2. QED BY <2>1, <3>1, <1>9
  <2>3. Took(svs') => svs[i].had
    <3>1. Len(svs') = i /\ \A k \in 1..i : svs'[k] = svs[k]
      <4>1. i \in 0..Len(svs) BY <2>1, <1>8
      <4>2. QED BY <2>1, <4>1, UptoProperties DEF SqlInv
    <3>2. QED BY <2>1, <3>1 DEF Took, SqlInv, Rising
  <2>4. svs[i].had => allReg BY <2>1 DEF SqlInv, Took
  <2>5. QED BY <2>1, <2>2, <2>3, <2>4 DEF SqlInv
<1>11. ASSUME NEW i, ReleaseSavepoint(i) PROVE Goal
  <2>1. /\ i \in 1..Len(svs) /\ svs' = Upto(svs, i - 1)
        /\ UNCHANGED <<transaction_unsafe, allReg>>
    BY <1>8, <1>11 DEF ReleaseSavepoint, sessionVars, regVars
  <2>2. i - 1 \in 0..Len(svs) BY <2>1, <1>8
  <2>3. SameMarks(svs', db2') /\ AtStart(svs') /\ Rising(svs') /\ (Took(svs') => Took(svs))
    BY <2>1, <2>2, <1>9
  <2>4. QED BY <2>1, <2>3 DEF SqlInv
<1>12. QED BY <1>4, <1>5, <1>6, <1>7, <1>10, <1>11 DEF Between, SqlInv

(* Every step keeps the invariant of the refinement.                       *)
LEMMA SqlStep ==
  ASSUME LocksTables = FALSE, UnsafeInTransaction = FALSE, SetReadsTables = FALSE,
         SetSavepointMayFail = FALSE, SqlInv, [Next]_vars
  PROVE  SqlInv'
<1> DEFINE Rest == /\ SameMarks(svs', db2') /\ AtStart(svs') /\ Rising(svs')
                   /\ Took(svs') => allReg'
                   /\ allReg' => ~transaction_unsafe'
                   /\ statement' = "none" \/ autoCommitIsOn' => stmtMark' = 0
<1>1. StmtInv' /\ RegisteredInv'
  BY StmtStep, RegisteredStep DEF SqlInv
<1>2. Typed BY DEF SqlInv, Typed, StmtInv
<1>3. SessionTypes' /\ svs' \in Seq(Svs)
  BY <1>2, SessionStep, SvsStep
<1>4. ASSUME NEW command \in Commands, StartStatement(command) PROVE Rest
  <2>1. statement' # "none" BY <1>4 DEF StartStatement, Commands
  <2>2. QED BY <1>4, <2>1, StartKeepsSql
<1>5. ASSUME NEW c \in Changes, ChangeRow(c) PROVE Rest
  <2>1. UNCHANGED <<notAutocommit, begun, transaction_unsafe, allReg, svs, statement, stmtMark>>
    BY <1>5 DEF ChangeRow, sessionVars, regVars
  <2>2. db2'.savepoints = db2.savepoints BY <1>5, ChangeOf DEF SqlInv, StmtInv
  <2>3. SameMarks(svs', db2') BY <2>1, <2>2 DEF SqlInv, SameMarks
  <2>4. QED BY <2>1, <2>3 DEF SqlInv
<1>6. ASSUME NEW succeeds, EndStatement(succeeds) PROVE Rest
  <2>1. /\ UNCHANGED <<transaction_unsafe, allReg, svs>> /\ stmtMark' = 0
    BY <1>6 DEF EndStatement, sessionVars
  <2>2. SameMarks(svs', db2')
    BY <1>6, <2>1, EndStatementOf, FewerMarks DEF SqlInv, StmtInv
  <2>3. QED BY <2>1, <2>2 DEF SqlInv
<1>7. ASSUME NEW n \in SvNames, SetSavepoint(n) PROVE Rest
  <2>1. UNCHANGED <<transaction_unsafe, allReg, stmtMark>> /\ statement = "none"
    BY <1>7 DEF SetSavepoint, sessionVars, regVars
  <2>2. /\ SameMarks(svs', db2') /\ AtStart(svs') /\ Rising(svs') /\ (Took(svs') => allReg)
    BY <1>7, SetKeepsSql
  <2>3. /\ allReg => ~transaction_unsafe
        /\ stmtMark = 0
    BY <2>1 DEF SqlInv
  <2>4. QED BY <2>1, <2>2, <2>3
<1>8. ASSUME Between PROVE Rest
  BY <1>8, BetweenKeepsSql
<1>9. ASSUME UNCHANGED vars PROVE Rest
  <2>1. UNCHANGED <<db2, notAutocommit, begun, transaction_unsafe, allReg, svs, statement,
                    stmtMark>>
    BY <1>9 DEF vars, sessionVars, regVars
  <2>2. QED BY <2>1 DEF SqlInv
<1>10. ~LockTables BY DEF LockTables
<1>11. Rest BY <1>4, <1>5, <1>6, <1>7, <1>8, <1>9, <1>10, Steps
<1>12. QED BY <1>1, <1>3, <1>11 DEF SqlInv

-----------------------------------------------------------------------------
(* The refinement, step by step.                                           *)

(* The initial states.                                                     *)
LEMMA InitRefines == ASSUME Init PROVE Sql!Init
<1>1. svs = <<>> /\ Plain(<<>>) = <<>> BY PlainEmpty DEF Init
<1>2. Plain(svs) = <<>> BY <1>1
<1>3. QED BY <1>2 DEF Init, Sql!Init, Plain, Seen

(* A statement begins: external_lock sets savepoints and leaves the log.   *)
LEMMA StartRefines ==
  ASSUME SqlInv, NEW command \in Commands, StartStatement(command)
  PROVE  Sql!StartStatement
<1>1. /\ statement = "none" /\ statement' # "none"
      /\ external_lock(command) \/ start_stmt
      /\ UNCHANGED <<notAutocommit, begun, transaction_unsafe, svs, answer>>
      /\ stmtMark' = Len(db2.log)
  BY DEF StartStatement, sessionVars, Commands
<1>2. db2'.log = db2.log /\ db2'.durable = db2.durable
  BY <1>1, BeginOf DEF SqlInv, StmtInv
<1>3. QED BY <1>1, <1>2 DEF Sql!StartStatement

(* A row change.                                                           *)
LEMMA ChangeRefines ==
  ASSUME SqlInv, NEW c \in Changes, ChangeRow(c)
  PROVE  Sql!ChangeRow
<1>1. /\ statement # "none" /\ statement' = statement
      /\ c \in Changes \ (db2.durable \cup Set(db2.log))
      /\ UNCHANGED <<notAutocommit, begun, transaction_unsafe, svs, answer, stmtMark>>
  BY DEF ChangeRow, sessionVars
<1>2. /\ transaction_unsafe => db2'.log = db2.log /\ db2'.durable = db2.durable \cup {c}
      /\ ~transaction_unsafe => /\ db2'.durable = db2.durable
                                /\ db2'.log = Append(db2.log, c)
  BY ChangeOf DEF SqlInv, StmtInv
<1>3. c \in Changes \ (db2.durable \cup Sql!Set(db2.log)) BY <1>1, SameSet
<1>4. QED BY <1>1, <1>2, <1>3 DEF Sql!ChangeRow

(* What a statement leaves in the log when it ends in a multi-statement    *)
(* transaction.                                                            *)
LEMMA EndInside ==
  ASSUME SqlInv, NEW succeeds \in BOOLEAN, EndStatement(succeeds), ~autoCommitIsOn
  PROVE  /\ db2'.durable = db2.durable
         /\ db2'.log = IF succeeds THEN db2.log ELSE Upto(db2.log, stmtMark)
<1>1. db2'.durable = db2.durable
  <2>1. db2' \in {db2, Db2ReleaseSavepoint(db2, SAVEPOINT_NAME),
                  Db2RollbackToSavepoint(db2, SAVEPOINT_NAME)}
    BY DEF EndStatement, doCommit, doRollback, commitStmtTx, rollbackStmtTx
  <2>2. QED BY <2>1, ReleaseSavepointOf, RollbackToSavepointOf DEF SqlInv, StmtInv
<1>2. CASE succeeds
  <2>1. db2' \in {db2, Db2ReleaseSavepoint(db2, SAVEPOINT_NAME)}
    BY <1>2 DEF EndStatement, doCommit, commitStmtTx
  <2>2. db2'.log = db2.log BY <2>1, ReleaseSavepointOf DEF SqlInv, StmtInv
  <2>3. QED BY <1>1, <1>2, <2>2
<1>3. CASE ~succeeds
  <2>1. answer' = "undone" BY <1>3 DEF EndStatement
  <2>2. db2'.log = Upto(db2.log, stmtMark) BY <2>1, FailedUndone DEF SqlInv
  <2>3. QED BY <1>1, <1>3, <2>2
<1>4. QED BY <1>2, <1>3

(* Outside of one the statement is the transaction. *)
LEMMA EndOutside ==
  ASSUME SqlInv, NEW succeeds \in BOOLEAN, EndStatement(succeeds), autoCommitIsOn
  PROVE  /\ db2'.log = <<>>
         /\ db2'.durable = db2.durable \cup
              Set(IF succeeds THEN db2.log ELSE Upto(db2.log, stmtMark))
<1>1. Sound(db2) /\ db2.log \in Seq(Changes) /\ stmtMark = 0
  BY DbTypes DEF SqlInv, StmtInv, Sound
<1>2. Upto(db2.log, stmtMark) = <<>> BY <1>1, SubSeqEmpty DEF Upto
<1>3. Set(<<>>) = {}
  <2>1. <<>> \in Seq(Changes) /\ Len(<<>>) = 0 BY EmptySeq
  <2>2. DOMAIN <<>> = 1..0 BY <2>1, LenProperties
  <2>3. QED BY <2>2 DEF Set
<1>4. CASE stmtReg /\ ~transaction_unsafe
  <2>1. db2' = IF succeeds THEN Db2Commit(db2) ELSE Db2Rollback(db2)
    BY <1>4 DEF EndStatement, doCommit, doRollback
  <2>2. CASE succeeds BY <2>1, <2>2, <1>1, CommitOf
  <2>3. CASE ~succeeds BY <2>1, <2>3, <1>1, <1>2, <1>3, RollbackOf
  <2>4. QED BY <2>2, <2>3
<1>5. CASE ~(stmtReg /\ ~transaction_unsafe)
  <2>1. db2' = db2
    BY <1>5 DEF EndStatement, doCommit, doRollback
  <2>2. db2.log = <<>>
    BY <1>5 DEF SqlInv, RegisteredInv, PendingIsRegistered
  <2>3. QED BY <2>1, <2>2, <1>2, <1>3
<1>6. QED BY <1>4, <1>5

(* The end of a statement.                                                 *)
LEMMA EndStatementRefines ==
  ASSUME SqlInv, NEW succeeds \in BOOLEAN, EndStatement(succeeds)
  PROVE  Sql!EndStatement
<1>1. /\ statement # "none" /\ statement' = "none" /\ stmtMark' = 0
      /\ answer' = IF succeeds THEN "done" ELSE "undone"
      /\ UNCHANGED <<notAutocommit, begun, transaction_unsafe, svs>>
  BY DEF EndStatement, sessionVars
<1>2. answer' = "done" <=> succeeds BY <1>1
<1>3. CASE autoCommitIsOn
  <2>1. /\ db2'.log = <<>>
        /\ db2'.durable = db2.durable \cup
              Sql!Set(IF answer' = "done" THEN db2.log ELSE Sql!Upto(db2.log, stmtMark))
    BY <1>2, <1>3, EndOutside, SameSet, SameUpto
  <2>2. QED BY <1>1, <1>3, <2>1 DEF Sql!EndStatement
<1>4. CASE ~autoCommitIsOn
  <2>1. /\ db2'.durable = db2.durable
        /\ db2'.log = IF answer' = "done" THEN db2.log ELSE Sql!Upto(db2.log, stmtMark)
    BY <1>2, <1>4, EndInside, SameUpto
  <2>2. QED BY <1>1, <1>4, <2>1 DEF Sql!EndStatement
<1>5. QED BY <1>3, <1>4

(* COMMIT, ROLLBACK, and what implies them. *)
LEMMA AllCommitted ==
  ASSUME SqlInv, statement = "none", IF allReg THEN doCommit(TRUE) ELSE db2' = db2
  PROVE  db2'.log = <<>> /\ db2'.durable = db2.durable \cup Sql!Set(db2.log)
<1>1. Sound(db2) BY DEF SqlInv, StmtInv
<1>2. CASE allReg
  <2>1. db2' = Db2Commit(db2) BY <1>2 DEF doCommit, SqlInv
  <2>2. QED BY <1>1, <2>1, CommitOf, SameSet
<1>3. CASE ~allReg
  <2>1. db2.log = <<>> /\ db2' = db2 BY <1>3 DEF SqlInv, RegisteredInv, PendingIsRegistered
  <2>2. Set(<<>>) = {}
    <3>1. <<>> \in Seq(Changes) /\ Len(<<>>) = 0 BY EmptySeq
    <3>2. DOMAIN <<>> = 1..0 BY <3>1, LenProperties
    <3>3. QED BY <3>2 DEF Set
  <2>3. QED BY <2>1, <2>2, SameSet
<1>4. QED BY <1>2, <1>3

(* ROLLBACK, likewise.                                                     *)
LEMMA AllRolledBack ==
  ASSUME SqlInv, statement = "none", IF allReg THEN doRollback(TRUE) ELSE db2' = db2
  PROVE  db2'.log = <<>> /\ db2'.durable = db2.durable
<1>1. Sound(db2) BY DEF SqlInv, StmtInv
<1>2. CASE allReg
  <2>1. db2' = Db2Rollback(db2) BY <1>2 DEF doRollback, SqlInv
  <2>2. QED BY <1>1, <2>1, RollbackOf
<1>3. CASE ~allReg
  BY <1>3 DEF SqlInv, RegisteredInv, PendingIsRegistered
<1>4. QED BY <1>2, <1>3

(* What ends a transaction, as SqlTransaction says it.                     *)
LEMMA EndTransactionRefines ==
  ASSUME SqlInv, statement = "none", UNCHANGED <<statement, stmtMark>>,
         answer' \in {"done", "undone"}, svs' = <<>>, db2'.log = <<>>,
         db2'.durable = IF answer' = "done" THEN db2.durable \cup Sql!Set(db2.log)
                        ELSE db2.durable,
         transaction_unsafe' = transaction_unsafe \/ ~transaction_unsafe'
  PROVE  Sql!EndTransaction
<1>1. Plain(svs') = <<>> BY PlainEmpty
<1>2. [i \in DOMAIN svs' |-> [name |-> svs'[i].name, mark |-> svs'[i].mark]] = <<>>
  BY <1>1 DEF Plain, Seen
<1>3. (~autoCommitIsOn') \in BOOLEAN OBVIOUS
<1>4. (~transaction_unsafe') \in {~transaction_unsafe, TRUE} OBVIOUS
<1>5. QED BY <1>2, <1>3, <1>4 DEF Sql!EndTransaction

(* EndTransaction, EnableAutocommit and close_connection end one.          *)
LEMMA TransactionRefines ==
  ASSUME SqlInv, (\E commits \in BOOLEAN : EndTransaction(commits)) \/ EnableAutocommit
                 \/ close_connection
  PROVE  Sql!EndTransaction
<1>1. ASSUME NEW commits \in BOOLEAN, EndTransaction(commits) PROVE Sql!EndTransaction
  <2>1. /\ statement = "none" /\ svs' = <<>>
        /\ UNCHANGED <<statement, stmtMark, transaction_unsafe>>
        /\ answer' = IF commits THEN "done" ELSE "undone"
    BY <1>1 DEF EndTransaction
  <2>2. IF allReg THEN (IF commits THEN doCommit(TRUE) ELSE doRollback(TRUE)) ELSE db2' = db2
    BY <1>1 DEF EndTransaction
  <2>3. CASE commits BY <2>1, <2>2, <2>3, AllCommitted, EndTransactionRefines
  <2>4. CASE ~commits BY <2>1, <2>2, <2>4, AllRolledBack, EndTransactionRefines
  <2>5. QED BY <2>3, <2>4
<1>2. ASSUME EnableAutocommit PROVE Sql!EndTransaction
  <2>1. /\ statement = "none" /\ svs' = <<>> /\ answer' = "done"
        /\ UNCHANGED <<statement, stmtMark, transaction_unsafe>>
        /\ IF allReg THEN doCommit(TRUE) ELSE db2' = db2
    BY <1>2 DEF EnableAutocommit
  <2>2. QED BY <2>1, AllCommitted, EndTransactionRefines
<1>3. ASSUME close_connection PROVE Sql!EndTransaction
  <2>1. /\ statement = "none" /\ svs' = <<>> /\ answer' = "undone"
        /\ UNCHANGED <<statement, stmtMark>> /\ ~transaction_unsafe'
        /\ db2' = Db2Rollback(db2)
    BY <1>3 DEF close_connection
  <2>2. db2'.log = <<>> /\ db2'.durable = db2.durable
    BY <2>1, RollbackOf DEF SqlInv, StmtInv
  <2>3. QED BY <2>1, <2>2, EndTransactionRefines
<1>4. QED BY <1>1, <1>2, <1>3

(* The settings.                                                           *)
LEMMA SettingsRefine ==
  ASSUME SqlInv, UnsafeInTransaction = FALSE
  PROVE  /\ DisableAutocommit => Sql!Prolong
         /\ SetTransactionUnsafe => Sql!Protect
<1>1. ASSUME DisableAutocommit PROVE Sql!Prolong
  <2>1. statement = "none" BY <1>1 DEF DisableAutocommit, SqlInv, RegisteredInv
  <2>2. ~autoCommitIsOn' = TRUE BY <1>1 DEF DisableAutocommit
  <2>3. QED BY <1>1, <2>1, <2>2 DEF DisableAutocommit, Sql!Prolong
<1>2. ASSUME SetTransactionUnsafe PROVE Sql!Protect
  <2>1. (~transaction_unsafe') \in BOOLEAN OBVIOUS
  <2>2. QED BY <1>2, <2>1 DEF SetTransactionUnsafe, Sql!Protect
<1>3. QED BY <1>1, <1>2

(* SAVEPOINT: of the list, an older one of that name is taken out first.   *)
LEMMA SetRefines ==
  ASSUME SqlInv, NEW n \in SvNames, SetSavepoint(n)
  PROVE  Sql!SetSavepoint
<1> DEFINE w == WithoutName(svs, n)
           new == [name |-> n, mark |-> Len(db2.log), had |-> allReg]
           others == Sql!WithoutName(Plain(svs), n)
<1>1. /\ svs' \in {w, Append(w, new)} /\ statement = "none"
      /\ UNCHANGED <<notAutocommit, begun, transaction_unsafe, statement, stmtMark, answer>>
  BY DEF SetSavepoint, sessionVars
<1>2. w \in Seq(Svs) /\ Plain(w) = others
  BY WithoutNameOrder, PlainWithout, SameWithout DEF SqlInv
<1>3. new \in Svs /\ Seen(new) = [name |-> n, mark |-> Len(db2.log)]
  <2>1. Len(db2.log) \in Nat BY DbTypes DEF SqlInv, StmtInv, Sound
  <2>2. allReg \in BOOLEAN BY DEF SqlInv, SessionTypes
  <2>3. QED BY <2>1, <2>2 DEF Svs, Seen
<1> HIDE DEF w, new
<1>4. Plain(Append(w, new)) = Append(others, [name |-> n, mark |-> Len(db2.log)])
  BY <1>2, <1>3, PlainAppend
<1> HIDE DEF others
<1>5. Plain(svs') \in {others, Append(others, [name |-> n, mark |-> Len(db2.log)])}
  BY <1>1, <1>2, <1>4
<1>6. db2'.log = db2.log /\ db2'.durable = db2.durable
  BY UserSavepointOf DEF SqlInv, StmtInv
<1>7. QED BY <1>1, <1>5, <1>6 DEF Sql!SetSavepoint, Plain, Seen, others

(* The list up to a place. *)
LEMMA UptoRefines ==
  ASSUME SqlInv, NEW i \in DOMAIN svs
  PROVE  /\ i \in 1..Len(svs) /\ i \in 0..Len(svs) /\ i - 1 \in 0..Len(svs)
         /\ i \in DOMAIN Plain(svs) /\ Plain(svs)[i].mark = svs[i].mark
         /\ \A n \in 0..Len(svs) : Plain(Upto(svs, n)) = Sql!Upto(Plain(svs), n)
<1>1. DOMAIN svs = 1..Len(svs) /\ Len(svs) \in Nat BY LenProperties DEF SqlInv
<1>2. i \in DOMAIN Plain(svs) /\ Plain(svs)[i] = Seen(svs[i])
  BY <1>1, PlainProperties DEF SqlInv
<1>3. Plain(svs)[i].mark = svs[i].mark BY <1>2 DEF Seen
<1>4. QED BY <1>1, <1>2, <1>3, PlainUpto, SameUpto DEF SqlInv

(* RELEASE SAVEPOINT.                                                      *)
LEMMA ReleaseRefines ==
  ASSUME SqlInv, NEW i, ReleaseSavepoint(i)
  PROVE  Sql!ReleaseSavepoint
<1>1. /\ statement = "none" /\ i \in DOMAIN svs /\ svs' = Upto(svs, i - 1)
      /\ UNCHANGED <<notAutocommit, begun, transaction_unsafe, statement, stmtMark, answer>>
  BY DEF ReleaseSavepoint, sessionVars
<1>2. i \in DOMAIN Plain(svs) /\ Plain(svs') = Sql!Upto(Plain(svs), i - 1)
  BY <1>1, UptoRefines
<1>3. db2'.log = db2.log /\ db2'.durable = db2.durable
  BY UserReleaseOf DEF SqlInv, StmtInv
<1>4. QED BY <1>1, <1>2, <1>3 DEF Sql!ReleaseSavepoint, Plain, Seen

(* ROLLBACK TO SAVEPOINT: what had no part in the transaction is rolled back *)
(* altogether, which is as far as its savepoint.                           *)
LEMMA RollbackRefines ==
  ASSUME SqlInv, NEW i, RollbackToSavepoint(i)
  PROVE  Sql!RollbackToSavepoint
<1>1. /\ statement = "none" /\ i \in DOMAIN svs /\ svs' = Upto(svs, i)
      /\ UNCHANGED <<notAutocommit, begun, transaction_unsafe, statement, stmtMark>>
  BY DEF RollbackToSavepoint, sessionVars
<1>2. /\ i \in DOMAIN Plain(svs) /\ Plain(svs') = Sql!Upto(Plain(svs), i) /\ i \in 1..Len(svs)
      /\ Plain(svs)[i].mark = svs[i].mark
  BY <1>1, UptoRefines
<1>3. /\ db2'.durable = db2.durable /\ answer' \in {"undone", "failed"}
      /\ db2'.log = IF answer' = "undone" THEN Upto(db2.log, svs[i].mark) ELSE db2.log
  <2>1. CASE svs[i].had
    <3> DEFINE g == genSavepointName(svs[i].name)
    <3>1. ~transaction_unsafe BY <2>1, <1>2 DEF SqlInv, Took
    <3>2. /\ db2' = Db2RollbackToSavepoint(db2, g)
          /\ answer' = IF IsSet(db2, g) THEN "undone" ELSE "failed"
      BY <2>1, <3>1 DEF RollbackToSavepoint, ibmdb2i_savepoint_rollback
    <3>3. CASE ~IsSet(db2, g)
      BY <3>2, <3>3, RollbackToSavepointOf DEF SqlInv, StmtInv
    <3>4. CASE IsSet(db2, g)
      <4>1. PICK q \in 1..Len(db2.savepoints) :
              db2.savepoints[q].name = g /\ db2'.log = Upto(db2.log, db2.savepoints[q].mark)
        BY <3>2, <3>4, RollbackToSavepointOf DEF SqlInv, StmtInv
      <4>2. db2.savepoints[q].mark = svs[i].mark
        BY <2>1, <4>1, <1>2 DEF SqlInv, SameMarks
      <4>3. db2'.durable = db2.durable
        BY <3>2, RollbackToSavepointOf DEF SqlInv, StmtInv
      <4>4. QED BY <3>2, <3>4, <4>1, <4>2, <4>3
    <3>5. QED BY <3>3, <3>4
  <2>2. CASE ~svs[i].had
    <3>1. /\ IF allReg THEN doRollback(TRUE) ELSE db2' = db2
          /\ answer' = "undone"
      BY <2>2 DEF RollbackToSavepoint
    <3>2. db2'.log = <<>> /\ db2'.durable = db2.durable
      BY <1>1, <3>1, AllRolledBack
    <3>3. svs[i].mark = 0 BY <2>2, <1>2 DEF SqlInv, AtStart
    <3>4. Upto(db2.log, svs[i].mark) = <<>> BY <3>3, SubSeqEmpty DEF Upto
    <3>5. QED BY <3>1, <3>2, <3>4
  <2>3. QED BY <2>1, <2>2
<1>4. db2'.log = IF answer' = "undone" THEN Sql!Upto(db2.log, Plain(svs)[i].mark) ELSE db2.log
  BY <1>2, <1>3, SameUpto
<1>5. QED BY <1>1, <1>2, <1>3, <1>4 DEF Sql!RollbackToSavepoint, Plain, Seen

(* Every step is one of SqlTransaction, or none.                           *)
LEMMA StepRefines ==
  ASSUME LocksTables = FALSE, UnsafeInTransaction = FALSE, SqlInv, [Next]_vars
  PROVE  [Sql!Next]_Sql!vars
<1>1. ASSUME UNCHANGED vars PROVE UNCHANGED Sql!vars
  BY <1>1 DEF vars, sessionVars, regVars, Sql!vars
<1>2. ~LockTables BY DEF LockTables
<1>3. ~UnlockTables BY DEF UnlockTables, SqlInv, RegisteredInv
<1>4. Between => Sql!Next
  <2>1. \A i : RollbackToSavepoint(i) => Sql!Next BY RollbackRefines DEF Sql!Next
  <2>2. \A i : ReleaseSavepoint(i) => Sql!Next BY ReleaseRefines DEF Sql!Next
  <2>3. (\E commits \in BOOLEAN : EndTransaction(commits)) \/ EnableAutocommit
        \/ close_connection => Sql!Next
    BY TransactionRefines DEF Sql!Next
  <2>4. DisableAutocommit \/ SetTransactionUnsafe => Sql!Next BY SettingsRefine DEF Sql!Next
  <2>5. QED BY <1>3, <2>1, <2>2, <2>3, <2>4 DEF Between
<1>5. \A command \in Commands : StartStatement(command) => Sql!Next
  BY StartRefines DEF Sql!Next
<1>6. \A c \in Changes : ChangeRow(c) => Sql!Next BY ChangeRefines DEF Sql!Next
<1>7. \A succeeds \in BOOLEAN : EndStatement(succeeds) => Sql!Next
  BY EndStatementRefines DEF Sql!Next
<1>8. \A n \in SvNames : SetSavepoint(n) => Sql!Next BY SetRefines DEF Sql!Next
<1>9. QED BY <1>1, <1>2, <1>4, <1>5, <1>6, <1>7, <1>8, Steps

(* The invariant holds at the start.                                       *)
LEMMA InitSql == ASSUME Init PROVE SqlInv
<1>1. StmtInv BY InitStmt
<1>2. RegisteredInv BY DEF Init, RegisteredInv, PendingIsRegistered
<1>3. SessionTypes
  <2>1. notAutocommit \in BOOLEAN BY DEF Init
  <2>2. QED BY <2>1 DEF Init, SessionTypes
<1>4. svs = <<>> /\ ~allReg /\ stmtMark = 0 BY DEF Init
<1>5. QED BY <1>1, <1>2, <1>3, <1>4, NoSavepoints DEF SqlInv

(* What SQL promises of transactions, the engine, the bridge and DB2       *)
(* together keep: statements that fail leave nothing behind, ROLLBACK TO   *)
(* undoes what came after the savepoint, COMMIT makes durable what is left *)
(* and nothing else.  Tables are not locked with LOCK TABLES, nor is       *)
(* transaction_unsafe set in the middle of a transaction, SET autocommit   *)
(* reads no table, and DB2 sets every savepoint it is asked for.           *)
THEOREM ImplementsTransactions ==
  ASSUME LocksTables = FALSE, UnsafeInTransaction = FALSE, SetReadsTables = FALSE,
         SetSavepointMayFail = FALSE
  PROVE  Spec => TransactionSpec
<1>1. Init => SqlInv /\ Sql!Init BY InitSql, InitRefines
<1>2. SqlInv /\ [Next]_vars => SqlInv' BY SqlStep
<1>3. SqlInv /\ [Next]_vars => [Sql!Next]_Sql!vars BY StepRefines
<1>4. QED BY <1>1, <1>2, <1>3, PTL DEF Spec, TransactionSpec, Sql!Spec
=============================================================================
