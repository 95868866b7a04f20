---------------------------- MODULE CharColumnProofs ----------------------------
(***************************************************************************)
(* What is true of the conversion of text, and of a text column, for every *)
(* text, page, table and value.                                            *)
(*                                                                         *)
(* Bounds of a text's conversion (Dmap): myconv_dmap reads only what it    *)
(* was given (but for T2S) and writes at most three bytes behind the room. *)
(* A turn of a loop has a shape (Shape): it fails, ends, or goes on by as  *)
(* many bytes as it takes off the count, at most what is left, and writes  *)
(* no more than four.  The lemmas show the shape loop by loop, from the    *)
(* guards on Len(r); TurnShape collects them, and the inductive invariant  *)
(* IInv follows by addition.                                               *)
(*                                                                         *)
(* Its meaning (Characters): OkTurn says that one turn of any of the       *)
(* nineteen loops converts the character with which the text begins, all   *)
(* of its bytes and nothing else, to its form in the other encoding, and   *)
(* counts it as it should; BadTurn that a loop stops where there is no     *)
(* character, and LenientTurn what it does with what iconv lets through.   *)
(* The lemmas take the pages from the tables (PageTurn) and Unicode from   *)
(* the arithmetic of the bits (WordOf8Turn, FourOf8Turn, UtfTurn).  A text *)
(* is the bytes of its characters one behind the other (Joined, unfolded   *)
(* by SumSteps and TextAt), so that a conversion is always between two of  *)
(* them: KInv, from which what is converted, refused and counted follows.  *)
(*                                                                         *)
(* A column (CharColumn) sends SentItems and the row keeps KeptCount of    *)
(* them, for which it has room (Room); RInv says that either conversion is *)
(* behind the first n of them.  A fetch takes what a store without an      *)
(* error has left (FetchBegins), so that what every one of the characters  *)
(* does, to come back, the value does (ComesRound).                        *)
(***************************************************************************)
EXTENDS CharColumn, SequenceTheorems, WellFoundedInduction, TLAPS

(* Every set of numbers has a least one.                                   *)
LEMMA MinNat ==
  ASSUME NEW T \in SUBSET Nat, T # {}
  PROVE  \E x \in T : \A y \in T : x <= y
<1> DEFINE R == OpToRel(<, Nat)
<1>1. IsWellFoundedOn(R, Nat) BY NatLessThanWellFounded
<1> HIDE DEF R
<1>2. PICK x \in T : \A y \in T : ~ (<<y, x>> \in R) BY <1>1, WFMin
<1>3. \A y \in T : ~ (y < x) BY <1>2 DEF R, OpToRel
<1>4. QED BY <1>3

(* Induction up to m, over the set of the numbers with a property.         *)
LEMMA InductionUpTo ==
  ASSUME NEW m \in Nat, NEW P, 0 \in P, \A k \in 0..m - 1 : k \in P => k + 1 \in P
  PROVE  \A k \in 0..m : k \in P
<1> SUFFICES ASSUME {k \in 0..m : k \notin P} # {} PROVE FALSE OBVIOUS
<1> DEFINE T == {k \in 0..m : k \notin P}
<1>1. PICK x \in T : \A y \in T : x <= y
  <2>1. T \in SUBSET Nat /\ T # {} OBVIOUS
  <2> HIDE DEF T
  <2>2. QED BY <2>1, MinNat
<1>2. x \in 1..m /\ x - 1 \in 0..m - 1 /\ (x - 1) + 1 = x OBVIOUS
<1>3. x - 1 \in P BY <1>1, <1>2
<1>4. QED BY <1>2, <1>3


IsSequence(s) == \E S : s \in Seq(S)
Short(s) == IsSequence(s) /\ Len(s) <= 4

(* One to four bytes are short, whatever they are.                         *)
LEMMA OneShort == ASSUME NEW a PROVE Short(<<a>>)
<1>1. <<a>> \in Seq({a}) /\ Len(<<a>>) = 1  OBVIOUS
<1>2. IsSequence(<<a>>)  BY <1>1, Zenon DEF IsSequence
<1>3. Len(<<a>>) <= 4  BY <1>1
<1>4. QED  BY <1>2, <1>3, Zenon DEF Short

LEMMA TwoShort == ASSUME NEW a, NEW b PROVE Short(<<a, b>>)
<1>1. <<a, b>> \in Seq({a, b}) /\ Len(<<a, b>>) = 2  OBVIOUS
<1>2. IsSequence(<<a, b>>)  BY <1>1, Zenon DEF IsSequence
<1>3. Len(<<a, b>>) <= 4  BY <1>1
<1>4. QED  BY <1>2, <1>3, Zenon DEF Short

LEMMA ThreeShort == ASSUME NEW a, NEW b, NEW c PROVE Short(<<a, b, c>>)
<1>1. <<a, b, c>> \in Seq({a, b, c}) /\ Len(<<a, b, c>>) = 3  OBVIOUS
<1>2. IsSequence(<<a, b, c>>)  BY <1>1, Zenon DEF IsSequence
<1>3. Len(<<a, b, c>>) <= 4  BY <1>1
<1>4. QED  BY <1>2, <1>3, Zenon DEF Short

LEMMA FourShort == ASSUME NEW a, NEW b, NEW c, NEW d PROVE Short(<<a, b, c, d>>)
<1>1. <<a, b, c, d>> \in Seq({a, b, c, d}) /\ Len(<<a, b, c, d>>) = 4  OBVIOUS
<1>2. IsSequence(<<a, b, c, d>>)  BY <1>1, Zenon DEF IsSequence
<1>3. Len(<<a, b, c, d>>) <= 4  BY <1>1
<1>4. QED  BY <1>2, <1>3, Zenon DEF Short

(* Appending adds the lengths.                                             *)
LEMMA Concat ==
  ASSUME NEW s, NEW t, IsSequence(s), IsSequence(t)
  PROVE  IsSequence(s \o t) /\ Len(s \o t) = Len(s) + Len(t) /\ Len(s) \in Nat
<1>1. PICK S : s \in Seq(S)  BY DEF IsSequence
<1>2. PICK T : t \in Seq(T)  BY DEF IsSequence
<1>3. s \in Seq(S \cup T) /\ t \in Seq(S \cup T)  BY <1>1, <1>2
<1>4. s \o t \in Seq(S \cup T) /\ Len(s \o t) = Len(s) + Len(t)  BY <1>3
<1>5. QED  BY <1>3, <1>4 DEF IsSequence

(* The outcome o of a turn of a loop that has n bytes left.                *)
Shape(o, n) ==
  \/ o.kind = "error" \/ o.kind = "end"
  \/ o.kind = "go" /\ o.less \in 1 .. n /\ o.move = o.less /\ Short(o.bytes)

(* How outcomes are built: a loop goes on only with m of the n bytes left. *)
LEMMA PutShape ==
  ASSUME NEW n, NEW m \in 1 .. n, NEW b, NEW s, Short(b)
  PROVE  Shape(Put(m, b, s), n)
BY DEF Shape, Put

LEMMA StopShape ==
  ASSUME NEW n, NEW m, NEW l, NEW e
  PROVE  Shape(Stop(e), n) /\ Shape(StopAfter(m, l, e), n) /\ Shape(EndAfter(l, e), n)
BY DEF Shape, Stop, StopAfter, EndAfter

LEMMA ThenShape ==
  ASSUME NEW o, NEW n, NEW p, NEW s, Shape(o, n), o.kind = "go", Short(p.bytes)
  PROVE  Shape(Put(o.move, p.bytes, s), n)
BY PutShape DEF Shape

LEMMA PutBytes == ASSUME NEW m, NEW b, NEW s PROVE Put(m, b, s).bytes = b
BY DEF Put

(* What the conversions of a unit write.                                   *)
LEMMA BytesShort == ASSUME NEW u PROVE Short(Bytes(u))
BY TwoShort DEF Bytes

LEMMA To8Short == ASSUME NEW u
  PROVE Short(To8(u)) /\ Short(PutUtf8(u).bytes) /\ Short(PutPlain8(u).bytes)
<1>1. Short(To8(u))
  BY OneShort, TwoShort, ThreeShort DEF To8
<1>2. QED  BY <1>1, ThreeShort, PutBytes DEF PutUtf8, PutPlain8

LEMMA ToSShort == ASSUME NEW cd, NEW u PROVE Short(ToS(cd, u).bytes)
BY OneShort, PutBytes DEF ToS

LEMMA ToDShort == ASSUME NEW cd, NEW u, NEW x, NEW y PROVE Short(ToD(cd, u, x, y).bytes)
BY OneShort, TwoShort, PutBytes DEF ToD

LEMMA ToDShiftedShort == ASSUME NEW cd, NEW u, NEW x PROVE Short(ToDShifted(cd, u, x).bytes)
BY ToDShort DEF ToDShifted

LEMMA ToEShort == ASSUME NEW cd, NEW u, NEW x PROVE Short(ToE(cd, u, x).bytes)
BY BytesShort, OneShort, TwoShort, ThreeShort, PutBytes DEF ToE

(* Which bytes a guard on the length makes available.                      *)
LEMMA WithinRest ==
  ASSUME NEW n \in Nat \ {0}
  PROVE  /\ 1 \in 1 .. n
         /\ n < 2 \/ 2 \in 1 .. n
         /\ n < 3 \/ 3 \in 1 .. n
         /\ n < 4 \/ 4 \in 1 .. n
         /\ n = 1 \/ 2 \in 1 .. n
OBVIOUS

(* The loops from single-byte, double-byte and EUC code pages.             *)
LEMMA S2UShape ==
  ASSUME NEW cd, NEW r, Len(r) \in Nat \ {0}
  PROVE  /\ Shape(DMAP_S2S(cd, r), Len(r))
         /\ Shape(DMAP_S2U(cd, r), Len(r))
         /\ Shape(DMAP_S28(cd, r), Len(r))
<1> USE WithinRest
<1>1. Shape(DMAP_S2S(cd, r), Len(r))
  BY OneShort, PutShape, StopShape, Zenon DEF DMAP_S2S
<1>2. Shape(DMAP_S2U(cd, r), Len(r))
  BY TwoShort, BytesShort, PutShape, StopShape, Zenon DEF DMAP_S2U
<1>3. Shape(DMAP_S28(cd, r), Len(r))
  BY <1>2, StopShape, To8Short, ThenShape, ZenonT(60) DEF DMAP_S28, Then
<1>4. QED  BY <1>1, <1>2, <1>3

LEMMA DShape ==
  ASSUME NEW cd, NEW r, Len(r) \in Nat \ {0}
  PROVE  Shape(DMAP_D2U(cd, r), Len(r)) /\ Shape(DMAP_D28(cd, r), Len(r))
<1>0. 1 \in 1 .. Len(r) /\ (Len(r) < 2 \/ 2 \in 1 .. Len(r))
  BY WithinRest
<1>1. ASSUME NEW x, NEW y PROVE Shape(FromD(cd, r, x, y), Len(r))
  BY <1>0, TwoShort, BytesShort, PutShape, StopShape, Zenon DEF FromD
<1>2. Shape(DMAP_D2U(cd, r), Len(r))
  BY <1>1 DEF DMAP_D2U
<1>3. Shape(FromD(cd, r, 26, Replacement), Len(r))
  BY <1>1
<1>4. Shape(DMAP_D28(cd, r), Len(r))
  BY <1>3, To8Short, ThenShape, ZenonT(60) DEF DMAP_D28, Then
<1>5. QED  BY <1>2, <1>4

LEMMA EShape ==
  ASSUME NEW cd, NEW r, Len(r) \in Nat \ {0}
  PROVE  Shape(DMAP_E2U(cd, r), Len(r)) /\ Shape(DMAP_E28(cd, r), Len(r))
<1>0. /\ 1 \in 1 .. Len(r)
      /\ Len(r) < 2 \/ 2 \in 1 .. Len(r)
      /\ Len(r) < 3 \/ 3 \in 1 .. Len(r)
  BY WithinRest
<1>1. Shape(E2U_SS2(cd, r), Len(r))
  BY <1>0, BytesShort, PutShape, StopShape, Zenon DEF E2U_SS2, PutShifted
<1>2. Shape(E2U_SS3(cd, r), Len(r))
  BY <1>0, BytesShort, PutShape, StopShape, Zenon DEF E2U_SS3, PutShifted
<1>3. Shape(E2U_SS1(cd, r), Len(r))
  BY <1>0, BytesShort, PutShape, StopShape, Zenon DEF E2U_SS1
<1>4. Shape(DMAP_E2U(cd, r), Len(r))
  BY <1>0, <1>1, <1>2, <1>3, TwoShort, BytesShort, PutShape DEF DMAP_E2U
<1>5. Shape(DMAP_E28(cd, r), Len(r))
  BY <1>4, To8Short, ThenShape, ZenonT(60) DEF DMAP_E28, Then
<1>6. QED  BY <1>4, <1>5

(* The loops from UCS-2 and UTF-16.                                        *)
LEMMA UShape ==
  ASSUME NEW cd, NEW r, Len(r) \in Nat \ {0}, NEW x
  PROVE  /\ Shape(DMAP_U2S(cd, r), Len(r)) /\ Shape(DMAP_U2D(cd, r, x), Len(r))
         /\ Shape(DMAP_U2E(cd, r, x), Len(r)) /\ Shape(DMAP_U28(r), Len(r))
<1>1. Len(r) = 1 \/ (Shape(PutUnit(r), Len(r)) /\ PutUnit(r).kind = "go")
  BY WithinRest, TwoShort, PutShape DEF PutUnit, Put
<1>2. Shape(DMAP_U2S(cd, r), Len(r))
  BY <1>1, ToSShort, ThenShape, StopShape, ZenonT(60) DEF DMAP_U2S, FromU, Then
<1>3. Shape(DMAP_U2D(cd, r, x), Len(r))
  BY <1>1, ToDShiftedShort, ThenShape, StopShape, ZenonT(60) DEF DMAP_U2D, FromU, Then
<1>4. Shape(DMAP_U2E(cd, r, x), Len(r))
  BY <1>1, ToEShort, ThenShape, StopShape, ZenonT(60) DEF DMAP_U2E, FromU, Then
<1>5. Shape(DMAP_U28(r), Len(r))
  BY <1>1, To8Short, PutBytes, ThenShape, StopShape, ZenonT(60) DEF DMAP_U28, FromU, Then
<1>6. QED  BY <1>2, <1>3, <1>4, <1>5

LEMMA TShape ==
  ASSUME NEW cd, NEW r, Len(r) \in Nat \ {0}, NEW x
  PROVE  /\ Shape(DMAP_T2D(cd, r, x), Len(r)) /\ Shape(DMAP_T2E(cd, r, x), Len(r))
         /\ Shape(DMAP_T28(r), Len(r))
<1>1. Len(r) = 1 \/ (Shape(PutUnit(r), Len(r)) /\ PutUnit(r).kind = "go")
  BY WithinRest, TwoShort, PutShape DEF PutUnit, Put
<1>2. Shape(DMAP_T2D(cd, r, x), Len(r))
  BY <1>1, ToDShiftedShort, ThenShape, StopShape, ZenonT(60) DEF DMAP_T2D, FromT, Then
<1>3. Shape(DMAP_T2E(cd, r, x), Len(r))
  BY <1>1, ToEShort, ThenShape, StopShape, ZenonT(60) DEF DMAP_T2E, FromT, Then
<1>4. Len(r) < 4 \/ 4 \in 1 .. Len(r)
  BY WithinRest
<1>5. Short(PairTo8(r))
  BY FourShort DEF PairTo8
<1>6. \/ Len(r) = 1 \/ Shape(Then(PutUnit(r), PutPlain8), Len(r))
  BY <1>1, To8Short, ThenShape, ZenonT(60) DEF Then
<1>7. \/ Len(r) < 4 \/ Shape(Put(4, PairTo8(r), 0), Len(r))
  BY <1>4, <1>5, PutShape, Zenon
<1>8. Shape(DMAP_T28(r), Len(r))
  BY <1>6, <1>7, StopShape, Zenon DEF DMAP_T28
<1>9. QED  BY <1>2, <1>3, <1>8

(* The loops from UTF-8.                                                   *)
LEMMA From8Shape ==
  ASSUME NEW r, Len(r) \in Nat \ {0}
  PROVE  Shape(From8(r), Len(r)) /\ From8(r).kind \in {"go", "error"}
<1>0. /\ 1 \in 1 .. Len(r)
      /\ Len(r) < 2 \/ 2 \in 1 .. Len(r)
      /\ Len(r) < 3 \/ 3 \in 1 .. Len(r)
  BY WithinRest
<1>1. Shape(From8(r), Len(r))
  BY <1>0, TwoShort, PutShape, StopShape, ZenonT(60) DEF From8, Unit2, Unit3
<1>2. QED  BY <1>1 DEF From8, Put, Stop, StopAfter

(* Four bytes are looked at only where four are left.                      *)
LEMMA FourShape ==
  ASSUME NEW cd, NEW b1, NEW r, Len(r) \in Nat \ {0}, NEW o, Len(r) < 4 \/ Shape(o, Len(r))
  PROVE  /\ Shape(Four8(b1, r, o), Len(r))
         /\ Shape(NoSequence(r), Len(r))
         /\ Shape(Strange8(cd, r), Len(r))
<1>1. Shape(TooShort(r), Len(r)) /\ Shape(NoSequence(r), Len(r))
  BY StopShape DEF TooShort, NoSequence
<1>2. Shape(Four8(b1, r, o), Len(r))
  BY <1>1, StopShape, Zenon DEF Four8
<1>3. Len(r) < 4 \/ 4 \in 1 .. Len(r)
  BY WithinRest
<1>4. \/ Len(r) < 4
      \/ Shape(Put(4, <<cd.subS>>, 1), Len(r)) /\ Shape(Put(4, Bytes(cd.subD), 1), Len(r))
  BY <1>3, OneShort, BytesShort, PutShape
<1>5. Shape(Strange8(cd, r), Len(r))
  <2>1. CASE Len(r) < 4
    BY <2>1, <1>1, StopShape, Zenon DEF Strange8
  <2>2. CASE ~(Len(r) < 4)
    BY <2>2, <1>1, <1>4, StopShape, Zenon DEF Strange8
  <2>3. QED  BY <2>1, <2>2
<1>6. QED  BY <1>1, <1>2, <1>5

LEMMA EightShape ==
  ASSUME NEW cd, NEW r, Len(r) \in Nat \ {0}, NEW x
  PROVE  /\ Shape(DMAP_82U(cd, r), Len(r)) /\ Shape(DMAP_82S(cd, r), Len(r))
         /\ Shape(DMAP_82D(cd, r), Len(r)) /\ Shape(DMAP_82E(cd, r, x), Len(r))
<1>1. Shape(From8(r), Len(r))
  BY From8Shape
<1>2. Len(r) < 4 \/ 4 \in 1 .. Len(r)
  BY WithinRest
<1>3. ASSUME NEW b PROVE Short(PairOf8(b, r))
  BY FourShort DEF PairOf8
<1>4. ASSUME NEW b
      PROVE  \/ Len(r) < 4
             \/ Shape(Put(4, PairOf8(b, r), 0), Len(r)) /\ Put(4, PairOf8(b, r), 0).kind = "go"
  BY <1>2, <1>3, PutShape DEF Put
<1>5. Len(r) < 4 \/ Shape(Put(4, <<cd.subS>>, 1), Len(r))
  BY <1>2, OneShort, PutShape
<1>6. Shape(DMAP_82U(cd, r), Len(r))
  <2> DEFINE o == IF Masked(r[1]) = 244 /\ r[2] > 143 THEN Stop("EINVAL")
                  ELSE Put(4, PairOf8(Masked(r[1]), r), 0)
  <2>1. Len(r) < 4 \/ Shape(o, Len(r))
    BY <1>4, StopShape
  <2>2. Shape(Four8(Masked(r[1]), r, o), Len(r)) /\ Shape(NoSequence(r), Len(r))
    BY <2>1, FourShape, Zenon
  <2>3. QED  BY <1>1, <2>2, StopShape DEF DMAP_82U
<1>7. Shape(DMAP_82S(cd, r), Len(r))
  <2>1. ASSUME NEW o, Shape(o, Len(r))
        PROVE  Shape(Then(o, LAMBDA u : ToS(cd, u)), Len(r))
    BY <2>1, ToSShort, ThenShape, ZenonT(60) DEF Then
  <2> DEFINE o == Then(Put(4, PairOf8(Masked(r[1]), r), 0), LAMBDA u : ToS(cd, u))
  <2>2. Len(r) < 4 \/ Shape(o, Len(r))
    BY <1>4, <2>1, Zenon
  <2>3. Shape(Four8(Masked(r[1]), r, o), Len(r)) /\ Shape(NoSequence(r), Len(r))
    BY <2>2, FourShape, Zenon
  <2>4. Shape(Then(From8(r), LAMBDA u : ToS(cd, u)), Len(r))
    BY <1>1, <2>1, Zenon
  <2>5. QED  BY <2>3, <2>4, <1>5, Zenon DEF DMAP_82S
<1>8. Shape(FourToPage(cd, r), Len(r))
  BY <1>5, FourShape, Zenon DEF FourToPage
<1>9. Shape(DMAP_82D(cd, r), Len(r))
  <2> DEFINE To(u) == ToD(cd, u, U2D(cd, u)[1], u)
  <2>0. \A u : Short(To(u).bytes)
    BY ToDShort
  <2> HIDE DEF To
  <2>1. Shape(Then(From8(r), To), Len(r))
    BY <1>1, <2>0, ThenShape, ZenonT(60) DEF Then
  <2> USE DEF To
  <2>2. QED  BY <2>1, <1>8 DEF DMAP_82D
<1>10. Shape(DMAP_82E(cd, r, x), Len(r))
  BY <1>1, <1>8, ToEShort, ThenShape, ZenonT(60) DEF DMAP_82E, Then
<1>11. QED  BY <1>6, <1>7, <1>9, <1>10

(* Behind a pair T2S moves pIn further than it counts.                     *)
TurnCounts(o, n) ==
  \/ o.kind = "error" \/ o.kind = "end"
  \/ o.kind = "go" /\ o.less \in 1 .. n /\ o.move \in Nat /\ Short(o.bytes)

LEMMA T2SCounts ==
  ASSUME NEW cd, NEW r, Len(r) \in Nat \ {0}
  PROVE  TurnCounts(DMAP_T2S(cd, r), Len(r))
<1>1. Len(r) = 1 \/ (Shape(PutUnit(r), Len(r)) /\ PutUnit(r).kind = "go")
  BY WithinRest, TwoShort, PutShape DEF PutUnit, Put
<1>2. Len(r) = 1 \/ Shape(Then(PutUnit(r), LAMBDA u : ToS(cd, u)), Len(r))
  BY <1>1, ToSShort, ThenShape, ZenonT(60) DEF Then
<1>3. ASSUME NEW o, Shape(o, Len(r)) PROVE TurnCounts(o, Len(r))
  BY <1>3 DEF Shape, TurnCounts
<1>4. Len(r) < 4 \/ TurnCounts([Put(6, <<cd.subS>>, 1) EXCEPT !.less = 2], Len(r))
  BY OneShort DEF TurnCounts, Put
<1>5. QED
  <2>1. CASE Len(r) < 4
    BY <2>1, <1>2, <1>3, StopShape, Zenon DEF DMAP_T2S
  <2>2. CASE ~(Len(r) < 4)
    <3>1. Len(r) # 1
      <4>1. Len(r) = 1 => Len(r) < 4  OBVIOUS
      <4>2. QED  BY <4>1, <2>2, Zenon
    <3> DEFINE pair == [Put(6, <<cd.subS>>, 1) EXCEPT !.less = 2]
               unit == Then(PutUnit(r), LAMBDA u : ToS(cd, u))
    <3>2. TurnCounts(pair, Len(r)) /\ TurnCounts(unit, Len(r)) /\ TurnCounts(StopAfter(0, 1, "EINVAL"), Len(r))
      BY <3>1, <2>2, <1>2, <1>3, <1>4, StopShape
    <3>3. DMAP_T2S(cd, r) \in {pair, unit, StopAfter(0, 1, "EINVAL")}
      BY <3>1, <2>2 DEF DMAP_T2S
    <3> HIDE DEF pair, unit
    <3>4. QED  BY <3>2, <3>3
  <2>3. QED  BY <2>1, <2>2

(* The schemas whose loops take a lonely last byte before they look for room. *)
UnitSchemas == {"U2S", "U2D", "U2E", "U28", "T2S", "T2D", "T2E", "T28"}

(* All loops: a turn takes and writes what it says, and a lonely byte of a *)
(* 16-bit text never makes one go on.                                      *)
LEMMA TurnShape ==
  ASSUME NEW c, NEW r, NEW x, Len(r) \in Nat \ {0}, c.schema \in Schemas, c.schema # "U2U"
  PROVE  /\ TurnCounts(Turn(c, r, x), Len(r))
         /\ c.schema # "T2S" => Shape(Turn(c, r, x), Len(r))
         /\ c.schema \in UnitSchemas /\ Len(r) = 1 => Turn(c, r, x).kind # "go"
<1>1. ASSUME NEW o, Shape(o, Len(r)) PROVE TurnCounts(o, Len(r))
  BY <1>1 DEF Shape, TurnCounts
<1>2. CASE c.schema = "T2S"
  <2>1. Turn(c, r, x) = DMAP_T2S(c.cd, r)
    BY <1>2 DEF Turn
  <2>2. Len(r) = 1 => DMAP_T2S(c.cd, r).kind # "go"
    BY DEF DMAP_T2S, EndAfter
  <2>3. QED  BY <1>2, <2>1, <2>2, T2SCounts
<1>3. CASE c.schema # "T2S"
  <2>1. Shape(Turn(c, r, x), Len(r))
    BY <1>3, S2UShape, DShape, EShape, UShape, TShape, EightShape DEF Turn, Schemas
  <2>2. CASE c.schema \in UnitSchemas /\ Len(r) = 1
    <3>1. c.schema \in {"U2S", "U2D", "U2E", "U28"} => Turn(c, r, x) = Stop("EINVAL")
      BY <2>2 DEF Turn, DMAP_U2S, DMAP_U2D, DMAP_U2E, DMAP_U28, FromU
    <3>2. c.schema \in {"T2D", "T2E", "T28"} => Turn(c, r, x).kind = "end"
      BY <2>2 DEF Turn, DMAP_T2D, DMAP_T2E, DMAP_T28, FromT, EndAfter
    <3>3. QED  BY <2>1, <2>2, <3>1, <3>2, <1>1, <1>3 DEF UnitSchemas, Stop, StopAfter
  <2>3. QED  BY <2>1, <2>2, <1>1
<1>4. QED  BY <1>2, <1>3

(* The rest of the text is as long as the count says.                      *)
LEMMA RestLength ==
  ASSUME inLen \in Nat, NEW x
  PROVE  Len(Rest(x)) = inLen
<1> DEFINE S == {Rest(x)[i] : i \in 1 .. inLen}
<1>1. Rest(x) \in [1 .. inLen -> S]
  BY DEF Rest
<1>2. Rest(x) \in Seq(S)
  BY <1>1, SeqDef
<1>3. DOMAIN Rest(x) = 1 .. inLen
  BY DEF Rest
<1>4. QED  BY <1>2, <1>3, LenProperties

-----------------------------------------------------------------------------
(* What a conversion keeps, whatever its text and its tables are.          *)

(* The arguments, the counters, and both properties: TurnKeeps needs the   *)
(* first two to know how much a turn may take and how much is written.     *)
CallOK ==
  /\ call.schema \in Schemas
  /\ IsSequence(call.text) /\ Len(call.text) \in Nat
  /\ call.room \in Nat

Counters ==
  /\ pIn \in Nat /\ inLen \in Nat
  /\ IsSequence(out) /\ Len(out) \in Nat
  /\ call.schema = "U2U" /\ result = NotYet => pIn = 0

IInv == CallOK /\ Counters /\ ReadsInside /\ OverrunBounded

(* Both hold when a conversion begins, and every step keeps them.          *)
LEMMA Started == Init => IInv
<1> SUFFICES ASSUME Init PROVE IInv
  OBVIOUS
<1>1. PICK d \in Descriptors : call \in Calls(d)
  BY DEF Init
<1>2. call.text \in Seq(0 .. 255) /\ call.room \in Nat /\ call.schema \in Schemas
  BY <1>1, CallsAssumption, DescriptorsAssumption
<1>3. CallOK
  BY <1>2 DEF CallOK, IsSequence
<1>4. out \in Seq({}) /\ Len(out) = 0
  BY DEF Init
<1>5. Counters /\ ReadsInside /\ OverrunBounded
  BY <1>2, <1>3, <1>4 DEF CallOK, Counters, ReadsInside, OverrunBounded, Init, IsSequence
<1>6. QED  BY <1>3, <1>5 DEF IInv

(* A turn that goes on: it takes no more than is left, and writes no more  *)
(* than four bytes, which it only does when there is room for one.         *)
LEMMA TurnKeeps ==
  ASSUME IInv, Iterate
  PROVE  IInv'
<1>1. PICK x \in {0, call.cd.subS} : LET o == Turn(call, Rest(x), x) IN
       \/ /\ o.kind = "go"
          /\ pIn' = pIn + o.move
          /\ inLen' = inLen - o.less
          /\ out' = out \o o.bytes
          /\ numS' = numS + o.subs
          /\ UNCHANGED result
       \/ UNCHANGED <<pIn, inLen, out>>
  BY DEF Iterate
<1>2. call' = call /\ call.schema # "U2U" /\ Looping
  BY DEF Iterate
<1>3. CallOK'
  BY <1>2 DEF CallOK, IInv
<1>4. CASE UNCHANGED <<pIn, inLen, out>>
  BY <1>2, <1>3, <1>4 DEF IInv, Counters, ReadsInside, OverrunBounded
<1>5. CASE ~UNCHANGED <<pIn, inLen, out>>
  <2> DEFINE o == Turn(call, Rest(x), x)
  <2>1. /\ o.kind = "go"
        /\ pIn' = pIn + o.move /\ inLen' = inLen - o.less /\ out' = out \o o.bytes
    BY <1>1, <1>5
  <2>2. Len(Rest(x)) = inLen /\ inLen \in Nat \ {0}
    BY <1>2, RestLength DEF Looping, IInv, Counters
  <2>3. /\ TurnCounts(o, inLen)
        /\ call.schema # "T2S" => Shape(o, inLen)
        /\ call.schema \in UnitSchemas /\ inLen = 1 => o.kind # "go"
    BY <1>2, <2>2, TurnShape DEF IInv, CallOK
  <2> HIDE DEF o
  <2>4. HasRoom
    BY <1>2, <2>1, <2>3 DEF Looping, FromUnits, UnitSchemas
  <2>5. o.less \in 1 .. inLen /\ o.move \in Nat /\ IsSequence(o.bytes) /\ Len(o.bytes) <= 4
    BY <2>1, <2>3 DEF TurnCounts, Short
  <2>6. call.schema # "T2S" => o.move = o.less
    BY <2>1, <2>3 DEF Shape
  <2>7. IsSequence(out') /\ Len(out') = Len(out) + Len(o.bytes) /\ Len(o.bytes) \in Nat
    <3>1. IsSequence(out) /\ IsSequence(o.bytes)
      BY <2>5 DEF IInv, Counters
    <3>2. PICK S : o.bytes \in Seq(S)
      BY <3>1 DEF IsSequence
    <3>3. QED  BY <2>1, <3>1, <3>2, Concat
  <2>8. Counters'
    <3>1. pIn \in Nat /\ Len(out) \in Nat
      BY DEF IInv, Counters
    <3>2. pIn' \in Nat /\ inLen' \in Nat /\ Len(out') \in Nat
      <4>1. pIn' \in Nat
        BY <2>1, <2>5, <3>1
      <4>2. inLen' \in Nat
        BY <2>1, <2>2, <2>5
      <4>3. Len(out') \in Nat
        BY <2>7, <3>1
      <4>4. QED  BY <4>1, <4>2, <4>3
    <3>3. call'.schema # "U2U"
      BY <1>2
    <3>4. QED  BY <2>7, <3>2, <3>3 DEF Counters
  <2>9. ReadsInside'
    BY <1>2, <2>1, <2>2, <2>5, <2>6 DEF IInv, CallOK, Counters, ReadsInside
  <2>10. OverrunBounded'
    BY <1>2, <2>4, <2>5, <2>7 DEF IInv, CallOK, Counters, HasRoom, OverrunBounded
  <2>11. QED  BY <1>3, <2>8, <2>9, <2>10 DEF IInv
<1>6. QED  BY <1>4, <1>5

(* The copy between UCS-2 and UTF-16 stops where the room ends.            *)
LEMMA CopyKeeps ==
  ASSUME IInv, DMAP_U2U
  PROVE  IInv'
<1> DEFINE n == IF inLen <= call.room THEN inLen ELSE call.room
<1>1. /\ result = NotYet /\ call.schema = "U2U" /\ call' = call
      /\ out' = SubSeq(call.text, 1, n) /\ pIn' = n /\ inLen' = inLen - n
      /\ result' = Result(0, "none", n, n, 0)
  BY DEF DMAP_U2U
<1>2. pIn = 0 /\ inLen = Len(call.text) /\ inLen \in Nat /\ call.room \in Nat
  BY <1>1 DEF IInv, CallOK, Counters, ReadsInside
<1>3. n \in Nat /\ n <= Len(call.text) /\ n <= call.room
  BY <1>2
<1> HIDE DEF n
<1>4. PICK S : call.text \in Seq(S)
  BY DEF IInv, CallOK, IsSequence
<1>5. SubSeq(call.text, 1, n) \in Seq(S) /\ Len(SubSeq(call.text, 1, n)) = n
  BY <1>2, <1>3, <1>4
<1>6. IsSequence(out') /\ Len(out') = n
  BY <1>1, <1>5 DEF IsSequence
<1>7. result' # NotYet
  BY <1>1 DEF Result, NotYet
<1>8. CallOK'
  BY <1>1 DEF IInv, CallOK
<1>9. Counters'
  BY <1>1, <1>2, <1>3, <1>6, <1>7 DEF Counters
<1>10. ReadsInside' /\ OverrunBounded'
  BY <1>1, <1>2, <1>3, <1>6 DEF ReadsInside, OverrunBounded
<1>11. QED  BY <1>8, <1>9, <1>10 DEF IInv

LEMMA StepKeeps == IInv /\ [Next]_vars => IInv'
<1> SUFFICES ASSUME IInv, [Next]_vars PROVE IInv'
  OBVIOUS
<1>1. CASE Iterate
  BY <1>1, TurnKeeps
<1>2. CASE Leave
  <2>1. result' # NotYet /\ UNCHANGED <<call, pIn, inLen, out>>
    BY <1>2 DEF Leave, Result, NotYet
  <2>2. QED  BY <2>1 DEF IInv, CallOK, Counters, ReadsInside, OverrunBounded
<1>3. CASE DMAP_U2U
  BY <1>3, CopyKeeps
<1>4. CASE UNCHANGED vars
  BY <1>4 DEF vars, IInv, CallOK, Counters, ReadsInside, OverrunBounded
<1>5. QED  BY <1>1, <1>2, <1>3, <1>4 DEF Next, myconv_dmap

(* Every loop but T2S's keeps its pointer and its count together, and so   *)
(* reads no byte that is not the text's.                                   *)
THEOREM DmapReadsInside == Spec => []ReadsInside
<1>1. IInv => ReadsInside
  BY DEF IInv
<1>2. QED  BY <1>1, Started, StepKeeps, PTL DEF Spec

(* myconv_dmap writes at most three bytes behind the room it was given,    *)
(* whatever the text, the code pages and the room are.                     *)
THEOREM DmapOverrunBounded == Spec => []OverrunBounded
<1>1. IInv => OverrunBounded
  BY DEF IInv
<1>2. QED  BY <1>1, Started, StepKeeps, PTL DEF Spec

-----------------------------------------------------------------------------
(* A text converted: sixteen bits, bytes and the forms of a character.     *)

(* A number in sixteen bits, and its halves.                               *)
Octets == 0 .. 255
IsWord(u) == u \in Nat /\ u < 65536
HighOf(u) == u \div 256
LowOf(u) == u % 256
WordOf(h, l) == h * 256 + l

(* The loops' arithmetic on bytes is that of the encodings.                *)
LEMMA HalvesOfWord == ASSUME NEW u, IsWord(u)
  PROVE  HighOf(u) \in Octets /\ LowOf(u) \in Octets /\ u = WordOf(HighOf(u), LowOf(u))
BY SMT DEF IsWord, Octets, HighOf, LowOf, WordOf

LEMMA WordOfHalves == ASSUME NEW h \in Octets, NEW l \in Octets
  PROVE  IsWord(WordOf(h, l)) /\ HighOf(WordOf(h, l)) = h /\ LowOf(WordOf(h, l)) = l
BY SMT DEF IsWord, Octets, HighOf, LowOf, WordOf

LEMMA UnitIsBytes == ASSUME NEW u, IsWord(u)
  PROVE  /\ Unit(u) = <<HighOf(u), LowOf(u)>>
         /\ Bytes(u) = Unit(u) /\ Utf16(u) = Unit(u) /\ ~Supplementary(u)
         /\ Len(Unit(u)) = 2 /\ Unit(u) \in Seq(Octets)
         /\ WordOf(Unit(u)[1], Unit(u)[2]) = u
<1>1. HighOf(u) \in Octets /\ LowOf(u) \in Octets /\ u = WordOf(HighOf(u), LowOf(u))
  BY HalvesOfWord
<1>2. Unit(u) = <<HighOf(u), LowOf(u)>> /\ Bytes(u) = Unit(u) BY DEF Unit, Bytes, HighOf, LowOf
<1>3. ~Supplementary(u) BY SMT DEF Supplementary, IsWord
<1>4. Utf16(u) = Unit(u) BY <1>3, SMT DEF Utf16
<1>5. \A h, l \in Octets : /\ Len(<<h, l>>) = 2 /\ <<h, l>> \in Seq(Octets)
                           /\ <<h, l>>[1] = h /\ <<h, l>>[2] = l
  BY SMT
<1>6. QED BY <1>1, <1>2, <1>3, <1>4, <1>5, SMT

(* Two bytes, as a number, give the unit of these bytes.                   *)
LEMMA BytesAreUnit == ASSUME NEW h \in Octets, NEW l \in Octets
  PROVE  /\ IsWord(WordOf(h, l))
         /\ Bytes(WordOf(h, l)) = <<h, l>> /\ Unit(WordOf(h, l)) = <<h, l>>
BY WordOfHalves, UnitIsBytes, SMT

LEMMA HighOfByte == ASSUME NEW hi \in 0 .. 255, NEW lo \in 0 .. 255
  PROVE  (hi * 256 + lo) \div 4096 = hi \div 16
BY SMT
LEMMA MiddleOfBytes == ASSUME NEW hi \in 0 .. 255, NEW lo \in 0 .. 255
  PROVE  (hi * 256 + lo) \div 64 = hi * 4 + lo \div 64
BY SMT
LEMMA LowOfByte == ASSUME NEW hi \in 0 .. 255, NEW lo \in 0 .. 255
  PROVE  (hi * 256 + lo) % 64 = lo % 64
BY SMT
LEMMA MiddleWraps == ASSUME NEW hi \in 0 .. 255, NEW lo \in 0 .. 255
  PROVE  (((hi * 4) % 256) + lo \div 64) % 64 = (hi * 4 + lo \div 64) % 64
BY SMT
LEMMA LowOfTwo == ASSUME NEW u \in 128 .. 2047 PROVE  (u \div 64) % 32 = u \div 64
BY SMT

(* The bits of a unit in three bytes of UTF-8, as To8 finds them.          *)
LEMMA BitsOfWord ==
  ASSUME NEW u, IsWord(u)
  PROVE  /\ HighOf(u) \div 16 + 224 = 224 + u \div 4096
         /\ ((((HighOf(u) * 4) % 256) + LowOf(u) \div 64) % 64) + 128 = 128 + ((u \div 64) % 64)
         /\ (LowOf(u) % 64) + 128 = 128 + ((u \div 1) % 64)
<1>1. HighOf(u) \in Octets /\ LowOf(u) \in Octets /\ u = WordOf(HighOf(u), LowOf(u))
  BY HalvesOfWord
<1>2. PICK hi, lo : hi = HighOf(u) /\ lo = LowOf(u) OBVIOUS
<1>3. hi \in 0 .. 255 /\ lo \in 0 .. 255 BY <1>1, <1>2 DEF Octets
<1>4. u = hi * 256 + lo BY <1>1, <1>2 DEF WordOf
<1>5. hi \div 16 + 224 = 224 + u \div 4096
  <2>1. hi \div 16 + 224 = 224 + (hi * 256 + lo) \div 4096 BY <1>3, HighOfByte, SMT
  <2>2. QED BY <2>1, <1>4, SMT
<1>6. (((((hi * 4) % 256) + lo \div 64) % 64) + 128 = 128 + ((u \div 64) % 64))
  <2>1. ((((hi * 4) % 256) + lo \div 64) % 64) + 128 = 128 + ((hi * 4 + lo \div 64) % 64)
    BY <1>3, MiddleWraps, SMT
  <2>2. QED BY <2>1, <1>3, <1>4, MiddleOfBytes, SMT
<1>7. (lo % 64) + 128 = 128 + ((u \div 1) % 64)
  <2>1. (lo % 64) + 128 = 128 + ((hi * 256 + lo) % 64) BY <1>3, LowOfByte, SMT
  <2>2. u \div 1 = u BY SMT DEF IsWord
  <2>3. QED BY <2>1, <2>2, <1>4, SMT
<1>8. QED BY <1>2, <1>5, <1>6, <1>7, SMT

LEMMA To8IsUtf8 ==
  ASSUME NEW u, IsWord(u)
  PROVE  To8(u) = Utf8(u)
<1>1. ~Supplementary(u) BY UnitIsBytes
<1>2. To8(u) = IF u < 128 THEN <<u>>
      ELSE IF u < 2048 THEN <<((u \div 64) % 32) + 192, (LowOf(u) % 64) + 128>>
      ELSE <<HighOf(u) \div 16 + 224, ((((HighOf(u) * 4) % 256) + LowOf(u) \div 64) % 64) + 128,
             (LowOf(u) % 64) + 128>>
  BY SMT DEF To8, HighOf, LowOf
<1>3. Utf8(u) = IF u < 128 THEN <<u>>
      ELSE IF u < 2048 THEN <<192 + u \div 64, 128 + ((u \div 1) % 64)>>
      ELSE <<224 + u \div 4096, 128 + ((u \div 64) % 64), 128 + ((u \div 1) % 64)>>
  BY <1>1, SMT DEF Utf8, Continuation
<1>4. ASSUME ~(u < 128), u < 2048 PROVE ((u \div 64) % 32) + 192 = 192 + u \div 64
  BY <1>4, LowOfTwo, SMT DEF IsWord
<1>5. QED BY <1>2, <1>3, <1>4, BitsOfWord, SMT

(* The bits of a supplementary character: its plane, six bits, two bits    *)
(* and eight bits.                                                         *)
PlaneOf(u) == u \div 65536
InPlane(u) == u % 65536
PairParts(p, a, b, e) == p \in 1 .. 16 /\ a \in 0 .. 63 /\ b \in 0 .. 3 /\ e \in 0 .. 255
PairValue(p, a, b, e) == p * 65536 + a * 1024 + b * 256 + e

LEMMA PartsOfPair == ASSUME NEW u, IsScalar(u), Supplementary(u)
  PROVE  \E p, a, b, e : PairParts(p, a, b, e) /\ u = PairValue(p, a, b, e)
<1> DEFINE p == PlaneOf(u)
           w == InPlane(u)
<1>1. u \in Nat /\ 65536 <= u /\ u <= 1114111 BY SMT DEF Supplementary, IsScalar
<1>2. p \in 1 .. 16 /\ w \in Nat /\ w < 65536 BY <1>1, SMT DEF PlaneOf, InPlane
<1>3. u = p * 65536 + w BY <1>1, SMT DEF PlaneOf, InPlane
<1> DEFINE a == w \div 1024
           z == w % 1024
<1> HIDE DEF p, w
<1>4. a \in 0 .. 63 /\ z \in Nat /\ z < 1024 BY <1>2, SMT
<1>5. w = a * 1024 + z BY <1>2, SMT
<1> DEFINE b == z \div 256
           e == z % 256
<1> HIDE DEF a, z
<1>6. b \in 0 .. 3 /\ e \in 0 .. 255 BY <1>4, SMT
<1>7. z = b * 256 + e BY <1>4, SMT
<1> HIDE DEF b, e
<1>8. u = PairValue(p, a, b, e) BY <1>2, <1>3, <1>4, <1>5, <1>6, <1>7, SMT DEF PairValue
<1>9. PairParts(p, a, b, e) BY <1>2, <1>4, <1>6 DEF PairParts
<1>10. QED BY <1>8, <1>9, Zenon

LEMMA TwoAndTwo ==
  ASSUME NEW S, NEW h \in S, NEW l \in S, NEW c \in S, NEW e \in S
  PROVE  <<h, l>> \o <<c, e>> = <<h, l, c, e>>
<1> DEFINE p == <<h, l>>
           q == <<c, e>>
           t == <<h, l, c, e>>
<1>1. /\ p \in Seq(S) /\ Len(p) = 2 /\ p[1] = h /\ p[2] = l
      /\ q \in Seq(S) /\ Len(q) = 2 /\ q[1] = c /\ q[2] = e
      /\ t \in Seq(S) /\ Len(t) = 4 /\ t[1] = h /\ t[2] = l /\ t[3] = c /\ t[4] = e
  OBVIOUS
<1> HIDE DEF p, q, t
<1>2. /\ p \o q \in Seq(S) /\ Len(p \o q) = Len(p) + Len(q)
      /\ \A i \in 1 .. Len(p) + Len(q) : (p \o q)[i] = IF i <= Len(p) THEN p[i] ELSE q[i - Len(p)]
  BY <1>1, ConcatProperties
<1>3. (p \o q)[1] = h /\ (p \o q)[2] = l /\ (p \o q)[3] = c /\ (p \o q)[4] = e BY <1>1, <1>2
<1>4. \A i \in 1 .. 4 : i = 1 \/ i = 2 \/ i = 3 \/ i = 4 OBVIOUS
<1>5. \A i \in 1 .. 4 : (p \o q)[i] = t[i] BY <1>1, <1>3, <1>4
<1>6. Len(p \o q) = 4 BY <1>1, <1>2
<1>7. p \o q = t BY <1>1, <1>2, <1>5, <1>6, SeqEqual
<1>8. QED BY <1>7 DEF p, q, t

LEMMA PairAsUtf16 ==
  ASSUME NEW p, NEW a, NEW b, NEW e, PairParts(p, a, b, e)
  PROVE  Utf16(PairValue(p, a, b, e)) = <<216 + (p - 1) \div 4, ((p - 1) % 4) * 64 + a, 220 + b, e>>
<1>0. p \in 1 .. 16 /\ a \in 0 .. 63 /\ b \in 0 .. 3 /\ e \in 0 .. 255 BY DEF PairParts
<1>1. PICK u : u = PairValue(p, a, b, e) OBVIOUS
<1>2. (u - 65536) \div 1024 = (p - 1) * 64 + a /\ (u - 65536) % 1024 = b * 256 + e
  BY <1>0, <1>1, SMT DEF PairValue
<1>3. PICK h, l : h = 216 + (p - 1) \div 4 /\ l = ((p - 1) % 4) * 64 + a OBVIOUS
<1>4. h \in Octets /\ l \in Octets BY <1>0, <1>3, SMT DEF Octets
<1>5. 55296 + (u - 65536) \div 1024 = WordOf(h, l) BY <1>0, <1>2, <1>3, SMT DEF WordOf
<1>6. 56320 + ((u - 65536) % 1024) = WordOf(220 + b, e) BY <1>0, <1>2, SMT DEF WordOf
<1>7. 220 + b \in Octets /\ e \in Octets BY <1>0, SMT DEF Octets
<1>8. Unit(WordOf(h, l)) = <<h, l>> BY <1>4, BytesAreUnit
<1>9. Unit(WordOf(220 + b, e)) = <<220 + b, e>> BY <1>7, BytesAreUnit
<1>10. Supplementary(u) BY <1>0, <1>1, SMT DEF PairValue, Supplementary
<1>11. Utf16(u) = Unit(WordOf(h, l)) \o Unit(WordOf(220 + b, e))
  BY <1>5, <1>6, <1>10, SMT DEF Utf16
<1>12. <<h, l>> \o <<220 + b, e>> = <<h, l, 220 + b, e>> BY <1>4, <1>7, TwoAndTwo
<1>13. Utf16(u) = <<h, l, 220 + b, e>> BY <1>8, <1>9, <1>11, <1>12
<1>14. QED BY <1>1, <1>3, <1>13, Zenon

LEMMA PairAsUtf8 ==
  ASSUME NEW p, NEW a, NEW b, NEW e, PairParts(p, a, b, e)
  PROVE  Utf8(PairValue(p, a, b, e)) =
           <<240 + p \div 4, 128 + ((p % 4) * 16 + a \div 4),
             128 + ((a % 4) * 16 + (b * 4 + e \div 64)), 128 + (e % 64)>>
<1>0. p \in 1 .. 16 /\ a \in 0 .. 63 /\ b \in 0 .. 3 /\ e \in 0 .. 255 BY DEF PairParts
<1>1. PICK u : u = PairValue(p, a, b, e) OBVIOUS
<1>2. u = p * 65536 + a * 1024 + b * 256 + e BY <1>1, SMT DEF PairValue
<1>3. u \div 262144 = p \div 4 BY <1>0, <1>2, SMT
<1>4. u \div 4096 = p * 16 + a \div 4 BY <1>0, <1>2, SMT
<1>5. (p * 16 + a \div 4) % 64 = (p % 4) * 16 + a \div 4 BY <1>0, SMT
<1>6. u \div 64 = p * 1024 + a * 16 + (b * 4 + e \div 64) BY <1>0, <1>2, SMT
<1>7. b * 4 + e \div 64 \in 0 .. 15 BY <1>0, SMT
<1>8. \A f \in 0 .. 15 : (p * 1024 + a * 16 + f) % 64 = (a % 4) * 16 + f BY <1>0, SMT
<1>9. (u \div 64) % 64 = (a % 4) * 16 + (b * 4 + e \div 64) BY <1>6, <1>7, <1>8, SMT
<1>10. u % 64 = e % 64 BY <1>0, <1>2, SMT
<1>11. u \div 1 = u BY <1>0, <1>2, SMT
<1>12. Supplementary(u) /\ ~(u < 128) /\ ~(u < 2048) BY <1>0, <1>2, SMT DEF Supplementary
<1>13. Utf8(u) = <<240 + u \div 262144, 128 + ((u \div 4096) % 64), 128 + ((u \div 64) % 64),
                   128 + ((u \div 1) % 64)>>
  BY <1>12, SMT DEF Utf8, Continuation
<1>14. QED BY <1>1, <1>3, <1>4, <1>5, <1>9, <1>10, <1>11, <1>13, SMT

(* A turn goes on by n, writes b, and counts one of N.                     *)
Does(o, n, b, N) == \E k \in N : o = Put(n, b, k)
(* The text r begins with s.                                               *)
Begins(r, s) == Len(r) \in Nat /\ Len(s) <= Len(r) /\ \A i \in 1 .. Len(s) : r[i] = s[i]

LEMMA PutFields == ASSUME NEW n, NEW b, NEW k
  PROVE  /\ Put(n, b, k).kind = "go" /\ Put(n, b, k).move = n /\ Put(n, b, k).less = n
         /\ Put(n, b, k).bytes = b /\ Put(n, b, k).subs = k
BY DEF Put

LEMMA UnitBack == ASSUME NEW u, IsWord(u) PROVE Unit(u)[1] * 256 + Unit(u)[2] = u
<1>1. WordOf(Unit(u)[1], Unit(u)[2]) = u BY UnitIsBytes
<1>2. QED BY <1>1 DEF WordOf

LEMMA Plain8Does == ASSUME NEW u, IsWord(u)
  PROVE  PutPlain8(u) = Put(0, Utf8(u), 0) /\ (~Lead(u) => PutUtf8(u) = Put(0, Utf8(u), 0))
BY To8IsUtf8, Zenon DEF PutPlain8, PutUtf8

LEMMA ThenUtf8 ==
  ASSUME NEW u, IsWord(u), ~Lead(u), NEW n, NEW N \in SUBSET Nat, NEW o, Does(o, n, Unit(u), N)
  PROVE  Does(Then(o, PutUtf8), n, Utf8(u), N)
<1>1. PICK k \in N : o = Put(n, Unit(u), k) BY DEF Does
<1>2. PutUtf8(u) = Put(0, Utf8(u), 0) BY Plain8Does
<1>3. Then(o, PutUtf8) = Put(n, PutUtf8(u).bytes, k + PutUtf8(u).subs)
  <2>1. o.kind = "go" /\ o.move = n /\ o.bytes = Unit(u) /\ o.subs = k BY <1>1, PutFields
  <2>2. o.bytes[1] * 256 + o.bytes[2] = u BY <2>1, UnitBack
  <2>3. QED BY <2>1, <2>2, Zenon DEF Then
<1>4. k + PutUtf8(u).subs = k
  <2>1. PutUtf8(u).subs = 0 BY <1>2, PutFields
  <2>2. QED BY <2>1
<1>5. PutUtf8(u).bytes = Utf8(u) BY <1>2, PutFields
<1>6. Then(o, PutUtf8) = Put(n, Utf8(u), k) BY <1>3, <1>4, <1>5, Zenon
<1>7. QED BY <1>6 DEF Does

LEMMA ThenPlain8 ==
  ASSUME NEW u, IsWord(u), NEW n, NEW o, o = Put(n, Unit(u), 0)
  PROVE  Then(o, PutPlain8) = Put(n, Utf8(u), 0)
<1>1. PutPlain8(u) = Put(0, Utf8(u), 0) BY Plain8Does
<1>2. Then(o, PutPlain8) = Put(n, PutPlain8(u).bytes, 0 + PutPlain8(u).subs)
  <2>1. o.kind = "go" /\ o.move = n /\ o.bytes = Unit(u) /\ o.subs = 0 BY PutFields
  <2>2. o.bytes[1] * 256 + o.bytes[2] = u BY <2>1, UnitBack
  <2>3. QED BY <2>1, <2>2, Zenon DEF Then
<1>3. 0 + PutPlain8(u).subs = 0
  <2>1. PutPlain8(u).subs = 0 BY <1>1, PutFields
  <2>2. QED BY <2>1
<1>4. PutPlain8(u).bytes = Utf8(u) BY <1>1, PutFields
<1>5. QED BY <1>2, <1>3, <1>4, Zenon

(* The outcome o with its unit converted to p.                             *)
After(o, p) == Put(o.move, p.bytes, o.subs + p.subs)

LEMMA AfterDoes ==
  ASSUME NEW n, NEW b, NEW o, o = Put(n, b, 0), NEW p, NEW f, NEW N \in SUBSET Nat, Does(p, 0, f, N)
  PROVE  Does(After(o, p), n, f, N)
<1>1. PICK k \in N : p = Put(0, f, k) BY DEF Does
<1>2. p.subs = k /\ p.bytes = f BY <1>1, PutFields
<1>3. o.move = n /\ o.subs = 0 BY PutFields
<1>4. 0 + p.subs = k BY <1>2
<1>5. After(o, p) = Put(n, f, k) BY <1>2, <1>3, <1>4, Zenon DEF After
<1>6. QED BY <1>5, Zenon DEF Does

LEMMA UnitGoes == ASSUME NEW u, IsWord(u), NEW n, NEW o, o = Put(n, Unit(u), 0)
  PROVE  o.kind = "go" /\ o.bytes[1] * 256 + o.bytes[2] = u
<1>1. o.kind = "go" /\ o.bytes = Unit(u) BY PutFields
<1>2. QED BY <1>1, UnitBack

-----------------------------------------------------------------------------
(* What becomes of a unit in a code page.                                  *)

(* Sequences of different lengths differ.                                  *)
LEMMA TuplesDiffer == ASSUME NEW a, NEW b, NEW c, NEW x, NEW y
  PROVE  /\ <<a>> = <<x>> <=> a = x
         /\ <<a>> # <<x, y>> /\ <<a, b>> # <<x>> /\ <<a, b, c>> # <<x>> /\ <<a, b, c>> # <<x, y>>
OBVIOUS

LEMMA CountValues == Count(TRUE) = 1 /\ Count(FALSE) = 0
BY DEF Count

LEMMA CountsHold == ASSUME NEW d, NEW s, NEW u
  PROVE  /\ Count(Substituted(d, s, u)) \in Counts(d, s, u)
         /\ Substituted(d, s, u) => 1 \in Counts(d, s, u)
         /\ ~Substituted(d, s, u) => 0 \in Counts(d, s, u)
         /\ ByChance(d, s, u) => 0 \in Counts(d, s, u) /\ 1 \in Counts(d, s, u)
         /\ Counts(d, s, u) \in SUBSET Nat
<1>1. Count(Substituted(d, s, u)) \in {0, 1} BY DEF Count
<1>2. Count(Substituted(d, s, u)) \in Counts(d, s, u) BY <1>1 DEF Counts
<1>3. Substituted(d, s, u) => Count(Substituted(d, s, u)) = 1 BY Zenon DEF Count
<1>4. ~Substituted(d, s, u) => Count(Substituted(d, s, u)) = 0 BY Zenon DEF Count
<1>5. ByChance(d, s, u) => 0 \in Counts(d, s, u) /\ 1 \in Counts(d, s, u) BY Zenon DEF Counts
<1>6. Counts(d, s, u) \in SUBSET Nat BY <1>1 DEF Counts
<1>7. QED BY <1>2, <1>3, <1>4, <1>5, <1>6, Zenon

LEMMA PageSchemas == ASSUME NEW d, d.schema \in TargetS \cup TargetD \cup TargetE
  PROVE  /\ d.schema \notin SourcePage /\ d.schema \notin TargetU /\ d.schema \notin Target8
         /\ d.schema \in TargetS => d.schema \notin TargetD /\ d.schema \notin TargetE
         /\ d.schema \in TargetD => d.schema \notin TargetS /\ d.schema \notin TargetE
         /\ d.schema \in TargetE => d.schema \notin TargetD /\ d.schema \notin TargetS
BY DEF TargetS, TargetD, TargetE, TargetU, Target8, SourcePage, SourceS, SourceD, SourceE

(* What a character for a page becomes, and whether that is a substitution.*)
LEMMA PageForm == ASSUME NEW d, d.schema \in TargetS \cup TargetD \cup TargetE, NEW s, NEW u
  PROVE  /\ Form(d, u) = FormInPage(d, u)
         /\ Substituted(d, s, u) <=>
              /\ u # 0
              /\ \/ Missing(d, u)
                 \/ Form(d, u) = <<d.cd.subS>> /\ u # d.cd.srcSubS
                 \/ Form(d, u) = Unit(d.cd.subD) /\ u # d.cd.srcSubD
<1>1. Form(d, u) = FormInPage(d, u) BY PageSchemas, Zenon DEF Form
<1>2. QED BY <1>1, PageSchemas, Zenon DEF Substituted

LEMMA UnitIsPair == ASSUME NEW u PROVE \E a, b : Unit(u) = <<a, b>>
BY Zenon DEF Unit

LEMMA ToSForm ==
  ASSUME NEW d, d.schema \in TargetS, NEW s, NEW u, IsWord(u)
  PROVE  Does(ToS(d.cd, u), 0, Form(d, u), Counts(d, s, u))
<1>1. d.schema \in TargetS \cup TargetD \cup TargetE BY Zenon
<1>2. ~Supplementary(u) BY UnitIsBytes
<1>3. d.schema \notin TargetD /\ d.schema \notin TargetE BY <1>1, PageSchemas
<1>4. Missing(d, u) <=> U2S(d.cd, u) = 0 BY <1>2, <1>3, Zenon DEF Missing
<1>5. CASE u = 0
  <2>1. ToS(d.cd, u) = Put(0, << 0 >>, 0) BY <1>5, Zenon DEF ToS
  <2>2. Form(d, u) = << 0 >> BY <1>1, <1>5, PageForm, Zenon DEF FormInPage
  <2>3. ~Substituted(d, s, u) BY <1>1, <1>5, PageForm, Zenon
  <2>4. 0 \in Counts(d, s, u) BY <2>3, CountsHold
  <2>5. QED BY <2>1, <2>2, <2>4, Zenon DEF Does
<1>6. CASE u # 0 /\ U2S(d.cd, u) = 0
  <2>1. ToS(d.cd, u) = Put(0, <<d.cd.subS>>, 1) BY <1>6, Zenon DEF ToS
  <2>2. Form(d, u) = <<d.cd.subS>> BY <1>1, <1>3, <1>4, <1>6, PageForm, Zenon DEF FormInPage
  <2>3. Substituted(d, s, u) BY <1>1, <1>4, <1>6, PageForm, Zenon
  <2>4. 1 \in Counts(d, s, u) BY <2>3, CountsHold
  <2>5. QED BY <2>1, <2>2, <2>4, Zenon DEF Does
<1>7. CASE u # 0 /\ U2S(d.cd, u) # 0
  <2>1. ToS(d.cd, u) = Put(0, <<U2S(d.cd, u)>>, Count(U2S(d.cd, u) = d.cd.subS /\ u # d.cd.srcSubS))
    BY <1>7, Zenon DEF ToS
  <2>2. Form(d, u) = <<U2S(d.cd, u)>>
    <3>1. FormInPage(d, u) = CASE d.schema \in TargetS -> <<U2S(d.cd, u)>>
                               [] d.schema \in TargetD -> InTwo(U2D(d.cd, u))
                               [] d.schema \in TargetE -> FormInE(d.cd, u)
      BY <1>4, <1>7, Zenon DEF FormInPage
    <3>2. QED BY <1>1, <1>3, <3>1, PageForm, Zenon
  <2>3. Form(d, u) = <<d.cd.subS>> <=> U2S(d.cd, u) = d.cd.subS BY <2>2, TuplesDiffer
  <2>4. Form(d, u) # Unit(d.cd.subD) BY <2>2, TuplesDiffer, UnitIsPair
  <2>5. Substituted(d, s, u) <=> U2S(d.cd, u) = d.cd.subS /\ u # d.cd.srcSubS
    BY <1>1, <1>4, <1>7, <2>3, <2>4, PageForm, Zenon
  <2>6. Count(U2S(d.cd, u) = d.cd.subS /\ u # d.cd.srcSubS) \in Counts(d, s, u)
    BY <2>5, CountsHold, Zenon DEF Count
  <2>7. QED BY <2>1, <2>2, <2>6, Zenon DEF Does
<1>8. QED BY <1>5, <1>6, <1>7, Zenon

(* The same for double-byte pages, in the two forms of the loops.          *)
LEMMA ToDForm ==
  ASSUME NEW d, d.schema \in TargetD, NEW s, NEW u, IsWord(u), IsPair(U2D(d.cd, u)), NEW single, NEW unit,
         \/ d.schema \in {"U2D", "T2D"}
         \/ single = U2D(d.cd, u)[1] /\ unit = u
  PROVE  Does(ToD(d.cd, u, single, unit), 0, Form(d, u), Counts(d, s, u))
<1>1. d.schema \in TargetS \cup TargetD \cup TargetE BY Zenon
<1>2. ~Supplementary(u) BY UnitIsBytes
<1>3. d.schema \notin TargetS /\ d.schema \notin TargetE BY <1>1, PageSchemas
<1>4. ~Missing(d, u) BY <1>2, <1>3, Zenon DEF Missing
<1>5. CASE u = 0
  <2>1. ToD(d.cd, u, single, unit) = Put(0, << 0 >>, 0) BY <1>5, Zenon DEF ToD
  <2>2. Form(d, u) = << 0 >> BY <1>1, <1>5, PageForm, Zenon DEF FormInPage
  <2>3. ~Substituted(d, s, u) BY <1>1, <1>5, PageForm, Zenon
  <2>4. 0 \in Counts(d, s, u) BY <2>3, CountsHold
  <2>5. QED BY <2>1, <2>2, <2>4, Zenon DEF Does
<1>6. ASSUME u # 0 PROVE Form(d, u) = InTwo(U2D(d.cd, u))
  <2>1. FormInPage(d, u) = CASE d.schema \in TargetS -> <<U2S(d.cd, u)>>
                             [] d.schema \in TargetD -> InTwo(U2D(d.cd, u))
                             [] d.schema \in TargetE -> FormInE(d.cd, u)
    BY <1>4, <1>6, Zenon DEF FormInPage
  <2>2. QED BY <1>1, <1>3, <2>1, PageForm, Zenon
<1> DEFINE b == U2D(d.cd, u)
<1>7. ASSUME u # 0 PROVE ToD(d.cd, u, single, unit) =
        IF b[2] = 0 THEN Put(0, <<b[1]>>, Count(single = d.cd.subS /\ unit # d.cd.srcSubS))
        ELSE Put(0, <<b[1], b[2]>>, Count(b = Bytes(d.cd.subD) /\ u # d.cd.srcSubD))
  BY <1>7, Zenon DEF ToD
<1>8. IsPair(b) /\ (u # 0 => Form(d, u) = InTwo(b)) BY <1>6
<1>9. d.schema \in {"U2D", "T2D"} \/ (single = b[1] /\ unit = u) OBVIOUS
<1>10. u # 0 /\ b[2] = 0 /\ d.schema \in {"U2D", "T2D"} => ByChance(d, s, u)
  BY Zenon DEF ByChance
<1> HIDE DEF b
<1>11. CASE u # 0 /\ b[2] = 0
  <2>1. ToD(d.cd, u, single, unit) = Put(0, <<b[1]>>, Count(single = d.cd.subS /\ unit # d.cd.srcSubS))
    BY <1>7, <1>11, Zenon
  <2>2. Form(d, u) = <<b[1]>> BY <1>8, <1>11, Zenon DEF InTwo
  <2>3. Form(d, u) = <<d.cd.subS>> <=> b[1] = d.cd.subS BY <2>2, TuplesDiffer
  <2>4. Form(d, u) # Unit(d.cd.subD) BY <2>2, TuplesDiffer, UnitIsPair
  <2>5. Count(single = d.cd.subS /\ unit # d.cd.srcSubS) \in Counts(d, s, u)
    <3>1. CASE d.schema \in {"U2D", "T2D"}
      <4>1. 0 \in Counts(d, s, u) /\ 1 \in Counts(d, s, u) BY <1>10, <1>11, <3>1, CountsHold
      <4>2. QED BY <4>1 DEF Count
    <3>2. CASE single = b[1] /\ unit = u
      <4>1. Substituted(d, s, u) <=> single = d.cd.subS /\ unit # d.cd.srcSubS
        BY <1>1, <1>4, <1>11, <2>3, <2>4, <3>2, PageForm, Zenon
      <4>2. QED BY <4>1, CountsHold, Zenon DEF Count
    <3>3. QED BY <1>9, <3>1, <3>2, Zenon
  <2>6. QED BY <2>1, <2>2, <2>5, Zenon DEF Does
<1>12. CASE u # 0 /\ b[2] # 0
  <2>1. ToD(d.cd, u, single, unit) = Put(0, <<b[1], b[2]>>, Count(b = Bytes(d.cd.subD) /\ u # d.cd.srcSubD))
    BY <1>7, <1>12, Zenon
  <2>2. Form(d, u) = <<b[1], b[2]>> BY <1>8, <1>12, Zenon DEF InTwo
  <2>3. Form(d, u) # <<d.cd.subS>> BY <2>2, TuplesDiffer
  <2>4. Form(d, u) = Unit(d.cd.subD) <=> b = Bytes(d.cd.subD)
    BY <1>8, <2>2, Zenon DEF IsPair, Unit, Bytes
  <2>5. Substituted(d, s, u) <=> b = Bytes(d.cd.subD) /\ u # d.cd.srcSubD
    BY <1>1, <1>4, <1>12, <2>3, <2>4, PageForm, Zenon
  <2>6. Count(b = Bytes(d.cd.subD) /\ u # d.cd.srcSubD) \in Counts(d, s, u)
    BY <2>5, CountsHold, Zenon DEF Count
  <2>7. QED BY <2>1, <2>2, <2>6, Zenon DEF Does
<1>13. QED BY <1>5, <1>11, <1>12, Zenon

(* And for EUC pages.                                                      *)
LEMMA ToEForm ==
  ASSUME NEW d, d.schema \in TargetE, NEW s, NEW u, IsWord(u), IsPair(U2M2(d.cd, u)), NEW beyond
  PROVE  Does(ToE(d.cd, u, beyond), 0, Form(d, u), Counts(d, s, u))
<1>1. d.schema \in TargetS \cup TargetD \cup TargetE BY Zenon
<1>2. ~Supplementary(u) BY UnitIsBytes
<1>3. d.schema \notin TargetS /\ d.schema \notin TargetD BY <1>1, PageSchemas
<1>4. Missing(d, u) <=> TableOf(d.cd, u) = "none" BY <1>2, <1>3, Zenon DEF Missing
<1> DEFINE two == U2M2(d.cd, u)
           three == U2M3(d.cd, u)
           one == U2S(d.cd, u)
           single == u < 256 /\ one # 0
<1>5. /\ single => TableOf(d.cd, u) = "single"
      /\ ~single /\ two[1] # 0 => TableOf(d.cd, u) = "double"
      /\ ~single /\ ~(two[1] # 0) /\ three[1] # 0 => TableOf(d.cd, u) = "triple"
      /\ ~single /\ ~(two[1] # 0) /\ ~(three[1] # 0) => TableOf(d.cd, u) = "none"
  BY DEF TableOf
<1>6. CASE u = 0
  <2>1. ToE(d.cd, u, beyond) = Put(0, << 0 >>, 0) BY <1>6, Zenon DEF ToE
  <2>2. Form(d, u) = << 0 >> BY <1>1, <1>6, PageForm, Zenon DEF FormInPage
  <2>3. ~Substituted(d, s, u) BY <1>1, <1>6, PageForm, Zenon
  <2>4. 0 \in Counts(d, s, u) BY <2>3, CountsHold
  <2>5. QED BY <2>1, <2>2, <2>4, Zenon DEF Does
<1>7. ASSUME u # 0 PROVE
        ToE(d.cd, u, beyond) =
          IF single THEN Put(0, <<one>>, Count(one = d.cd.subS /\ u # d.cd.srcSubS))
          ELSE IF two[1] # 0
               THEN IF two[2] = 0 THEN Put(0, <<two[1]>>, Count(beyond = d.cd.subS /\ u # d.cd.srcSubS))
                    ELSE Put(0, <<two[1], two[2]>>, Count(two = Bytes(d.cd.subD) /\ u # d.cd.srcSubD))
          ELSE IF three[1] # 0 THEN Put(0, <<three[1], three[2], three[3]>>, 0)
          ELSE Put(0, Bytes(d.cd.subD), 1)
  BY <1>7, Zenon DEF ToE
<1>8. ASSUME u # 0, TableOf(d.cd, u) # "none" PROVE Form(d, u) = FormInE(d.cd, u)
  <2>1. FormInPage(d, u) = CASE d.schema \in TargetS -> <<U2S(d.cd, u)>>
                             [] d.schema \in TargetD -> InTwo(U2D(d.cd, u))
                             [] d.schema \in TargetE -> FormInE(d.cd, u)
    BY <1>4, <1>8, Zenon DEF FormInPage
  <2>2. QED BY <1>1, <1>3, <2>1, PageForm, Zenon
<1>9. /\ TableOf(d.cd, u) = "single" => FormInE(d.cd, u) = <<one>>
      /\ TableOf(d.cd, u) = "double" => FormInE(d.cd, u) = InTwo(two)
      /\ TableOf(d.cd, u) = "triple" => FormInE(d.cd, u) = <<three[1], three[2], three[3]>>
  BY Zenon DEF FormInE
<1>10. u # 0 /\ TableOf(d.cd, u) = "double" /\ two[2] = 0 => ByChance(d, s, u)
  BY <1>2, Zenon DEF ByChance
<1>11. TableOf(d.cd, u) = "none" /\ u # 0 => Form(d, u) = Unit(d.cd.subD)
  BY <1>1, <1>2, <1>4, PageForm, Zenon DEF FormInPage
<1>12. IsPair(two) OBVIOUS
<1> HIDE DEF two, three, one, single
<1>13. CASE u # 0 /\ single
  <2>1. TableOf(d.cd, u) = "single" /\ TableOf(d.cd, u) # "none" BY <1>5, <1>13
  <2>2. ToE(d.cd, u, beyond) = Put(0, <<one>>, Count(one = d.cd.subS /\ u # d.cd.srcSubS))
    BY <1>7, <1>13, Zenon
  <2>3. Form(d, u) = <<one>> BY <1>8, <1>9, <1>13, <2>1, Zenon
  <2>4. Form(d, u) = <<d.cd.subS>> <=> one = d.cd.subS BY <2>3, TuplesDiffer
  <2>5. Form(d, u) # Unit(d.cd.subD) BY <2>3, TuplesDiffer, UnitIsPair
  <2>6. Substituted(d, s, u) <=> one = d.cd.subS /\ u # d.cd.srcSubS
    BY <1>1, <1>4, <1>13, <2>1, <2>4, <2>5, PageForm, Zenon
  <2>7. Count(one = d.cd.subS /\ u # d.cd.srcSubS) \in Counts(d, s, u)
    BY <2>6, CountsHold, Zenon DEF Count
  <2>8. QED BY <2>2, <2>3, <2>7, Zenon DEF Does
<1>14. CASE u # 0 /\ ~single /\ two[1] # 0 /\ two[2] = 0
  <2>1. TableOf(d.cd, u) = "double" /\ TableOf(d.cd, u) # "none" BY <1>5, <1>14
  <2>2. ToE(d.cd, u, beyond) = Put(0, <<two[1]>>, Count(beyond = d.cd.subS /\ u # d.cd.srcSubS))
    BY <1>7, <1>14, Zenon
  <2>3. Form(d, u) = <<two[1]>> BY <1>8, <1>9, <1>14, <2>1, Zenon DEF InTwo
  <2>4. 0 \in Counts(d, s, u) /\ 1 \in Counts(d, s, u) BY <1>10, <1>14, <2>1, CountsHold
  <2>5. Count(beyond = d.cd.subS /\ u # d.cd.srcSubS) \in Counts(d, s, u)
    BY <2>4, Zenon DEF Count
  <2>6. QED BY <2>2, <2>3, <2>5, Zenon DEF Does
<1>15. CASE u # 0 /\ ~single /\ two[1] # 0 /\ two[2] # 0
  <2>1. TableOf(d.cd, u) = "double" /\ TableOf(d.cd, u) # "none" BY <1>5, <1>15
  <2>2. ToE(d.cd, u, beyond) = Put(0, <<two[1], two[2]>>, Count(two = Bytes(d.cd.subD) /\ u # d.cd.srcSubD))
    BY <1>7, <1>15, Zenon
  <2>3. Form(d, u) = <<two[1], two[2]>> BY <1>8, <1>9, <1>15, <2>1, Zenon DEF InTwo
  <2>4. Form(d, u) # <<d.cd.subS>> BY <2>3, TuplesDiffer
  <2>5. Form(d, u) = Unit(d.cd.subD) <=> two = Bytes(d.cd.subD)
    BY <1>12, <2>3, Zenon DEF IsPair, Unit, Bytes
  <2>6. Substituted(d, s, u) <=> two = Bytes(d.cd.subD) /\ u # d.cd.srcSubD
    BY <1>1, <1>4, <1>15, <2>1, <2>4, <2>5, PageForm, Zenon
  <2>7. Count(two = Bytes(d.cd.subD) /\ u # d.cd.srcSubD) \in Counts(d, s, u)
    BY <2>6, CountsHold, Zenon DEF Count
  <2>8. QED BY <2>2, <2>3, <2>7, Zenon DEF Does
<1>16. CASE u # 0 /\ ~single /\ ~(two[1] # 0) /\ three[1] # 0
  <2>1. TableOf(d.cd, u) = "triple" /\ TableOf(d.cd, u) # "none" BY <1>5, <1>16
  <2>2. ToE(d.cd, u, beyond) = Put(0, <<three[1], three[2], three[3]>>, 0) BY <1>7, <1>16, Zenon
  <2>3. Form(d, u) = <<three[1], three[2], three[3]>> BY <1>8, <1>9, <1>16, <2>1, Zenon
  <2>4. Form(d, u) # <<d.cd.subS>> /\ Form(d, u) # Unit(d.cd.subD)
    BY <2>3, TuplesDiffer, UnitIsPair
  <2>5. ~Substituted(d, s, u) BY <1>1, <1>4, <2>1, <2>4, PageForm, Zenon
  <2>6. 0 \in Counts(d, s, u) BY <2>5, CountsHold
  <2>7. QED BY <2>2, <2>3, <2>6, Zenon DEF Does
<1>17. CASE u # 0 /\ ~single /\ ~(two[1] # 0) /\ ~(three[1] # 0)
  <2>1. TableOf(d.cd, u) = "none" BY <1>5, <1>17
  <2>2. ToE(d.cd, u, beyond) = Put(0, Bytes(d.cd.subD), 1) BY <1>7, <1>17, Zenon
  <2>3. Form(d, u) = Bytes(d.cd.subD) BY <1>11, <1>17, <2>1, Zenon DEF Unit, Bytes
  <2>4. Substituted(d, s, u) BY <1>1, <1>4, <1>17, <2>1, PageForm, Zenon
  <2>5. 1 \in Counts(d, s, u) BY <2>4, CountsHold
  <2>6. QED BY <2>2, <2>3, <2>5, Zenon DEF Does
<1>18. QED BY <1>6, <1>13, <1>14, <1>15, <1>16, <1>17, Zenon

(* The bytes with which a text begins, and what they are as sequences.     *)
LEMMA ByItsBytes ==
  ASSUME NEW s \in Seq(Octets), s # <<>>
  PROVE  /\ Len(s) \in Nat \ {0} /\ s[1] \in Octets
         /\ Len(s) = 1 => s = <<s[1]>>
         /\ Len(s) = 2 => s = <<s[1], s[2]>> /\ s[2] \in Octets
         /\ Len(s) = 3 => s[2] \in Octets /\ s[3] \in Octets
         /\ Len(s) = 4 => s[2] \in Octets /\ s[3] \in Octets /\ s[4] \in Octets
OBVIOUS

LEMMA BeginsWith ==
  ASSUME NEW r, NEW s \in Seq(Octets), s # <<>>, Begins(r, s)
  PROVE  /\ Len(r) \in Nat \ {0} /\ r[1] = s[1]
         /\ Len(s) >= 2 => ~(Len(r) < 2) /\ Len(r) # 1 /\ r[2] = s[2]
         /\ Len(s) >= 3 => ~(Len(r) < 3) /\ r[3] = s[3]
         /\ Len(s) >= 4 => ~(Len(r) < 4) /\ r[4] = s[4]
<1>1. Len(s) \in Nat \ {0} BY ByItsBytes
<1>2. QED BY <1>1 DEF Begins

-----------------------------------------------------------------------------
(* Characters of code pages and their units.                               *)

LEMMA PairIsWord == ASSUME NEW x \in Nat, NEW h \in Octets, NEW l \in Octets
  PROVE  <<h, l>> = Unit(x) <=> h * 256 + l = x
<1>1. (x \div 256) * 256 + (x % 256) = x BY SMT
<1>2. \A a \in Octets, b \in Octets : (a * 256 + b) \div 256 = a /\ (a * 256 + b) % 256 = b
  BY SMT DEF Octets
<1>3. ASSUME <<h, l>> = Unit(x) PROVE h * 256 + l = x
  <2>1. h = x \div 256 /\ l = x % 256 BY <1>3 DEF Unit
  <2>2. QED BY <1>1, <2>1
<1>4. ASSUME h * 256 + l = x PROVE <<h, l>> = Unit(x)
  <2>1. x \div 256 = h /\ x % 256 = l BY <1>2, <1>4
  <2>2. QED BY <2>1 DEF Unit
<1>5. QED BY <1>3, <1>4

LEMMA ZeroUnit == Unit(0) = <<0, 0>> /\ IsWord(0)
BY DEF Unit, IsWord

LEMMA SourceSchemas == ASSUME NEW d, d.schema \in SourcePage
  PROVE  /\ d.schema \in SourceS \/ d.schema \in SourceD \/ d.schema \in SourceE
         /\ d.schema \in SourceS => d.schema \notin SourceD /\ d.schema \notin SourceE /\ d.schema # "D28"
         /\ d.schema \in SourceD => d.schema \notin SourceS /\ d.schema \notin SourceE
         /\ d.schema \in SourceE => d.schema \notin SourceS /\ d.schema \notin SourceD /\ d.schema # "D28"
         /\ d.schema \notin TargetS \cup TargetD \cup TargetE
         /\ d.schema \notin {"U2D", "T2D"}
BY DEF SourcePage, SourceS, SourceD, SourceE, TargetS, TargetD, TargetE

(* Substitutions in a page: by their length in bytes.                      *)
LEMMA PageCounts ==
  ASSUME NEW d, d.schema \in SourcePage, NEW s, NEW u
  PROVE  /\ Len(s) = 1 => (Substituted(d, s, u) <=> u = 26 /\ s # <<d.cd.srcSubS>>)
         /\ Len(s) # 1 => (Substituted(d, s, u) <=> u = Replacement /\ s # Unit(d.cd.srcSubD))
BY Zenon DEF Substituted

LEMMA PageCounts2 ==
  ASSUME NEW d, d.schema \in SourcePage, NEW s, NEW u, Len(s) # 1
  PROVE  Substituted(d, s, u) <=> u = Replacement /\ s # Unit(d.cd.srcSubD)
BY PageCounts

LEMMA SingleTurn ==
  ASSUME NEW d, d.schema \in SourceS, NEW s \in Seq(Octets), s # <<>>, InS(d.cd, s),
         NEW u, u = unitOf(d, s), NEW r, Begins(r, s)
  PROVE  /\ Does(DMAP_S2U(d.cd, r), Len(s), Unit(u), Counts(d, s, u))
         /\ r[1] = 0 \/ D12U(d.cd, r[1]) # 0
<1>1. d.schema \in SourcePage /\ d.schema \notin SourceE BY SourceSchemas DEF SourcePage
<1>2. Len(s) = 1 /\ (s[1] = 0 \/ D12U(d.cd, s[1]) # 0) BY DEF InS
<1>3. r[1] = s[1] /\ s = <<s[1]>> BY <1>2, ByItsBytes, BeginsWith
<1>4. CASE s[1] = 0
  <2>1. s = << 0 >> /\ u = 0 BY <1>3, <1>4, Zenon DEF unitOf
  <2>2. DMAP_S2U(d.cd, r) = Put(1, <<0, 0>>, 0) BY <1>3, <1>4, Zenon DEF DMAP_S2U
  <2>3. ~Substituted(d, s, u)
    <3>1. u # 26 BY <2>1
    <3>2. QED BY <3>1, <1>1, <1>2, PageCounts, Zenon
  <2>4. 0 \in Counts(d, s, u) BY <2>3, CountsHold
  <2>5. QED BY <1>2, <1>3, <1>4, <2>1, <2>2, <2>4, ZeroUnit, Zenon DEF Does
<1>5. CASE s[1] # 0
  <2>1. s # << 0 >> BY <1>3, <1>5
  <2>2. u = D12U(d.cd, r[1]) BY <1>1, <1>2, <1>3, <2>1, Zenon DEF unitOf
  <2>3. DMAP_S2U(d.cd, r) = Put(1, Bytes(u), Count(u = 26 /\ r[1] # d.cd.srcSubS))
    BY <1>2, <1>3, <1>5, <2>2, Zenon DEF DMAP_S2U
  <2>4. s = <<d.cd.srcSubS>> <=> r[1] = d.cd.srcSubS BY <1>3, TuplesDiffer
  <2>5. Substituted(d, s, u) <=> u = 26 /\ r[1] # d.cd.srcSubS
    BY <1>1, <1>2, <2>4, PageCounts, Zenon
  <2>6. Count(u = 26 /\ r[1] # d.cd.srcSubS) \in Counts(d, s, u)
    BY <2>5, CountsHold, Zenon DEF Count
  <2>7. Bytes(u) = Unit(u) BY DEF Bytes, Unit
  <2>8. QED BY <1>2, <1>3, <2>3, <2>6, <2>7, Zenon DEF Does
<1>6. QED BY <1>4, <1>5, Zenon

LEMMA DoubleTurn ==
  ASSUME NEW d, d.schema \in SourceD, NEW s \in Seq(Octets), s # <<>>, InD(d.cd, s),
         NEW u, u = unitOf(d, s), NEW r, Begins(r, s), d.cd.srcSubD \in Nat,
         d.schema = "D28" => d.cd.srcSubD # Replacement,
         NEW one, NEW two,
         \/ d.schema = "D28" /\ one = 26 /\ two = Replacement
         \/ one = r[1] /\ two = IF Len(r) < 2 THEN 0 ELSE r[1] * 256 + r[2]
  PROVE  Does(FromD(d.cd, r, one, two), Len(s), Unit(u), Counts(d, s, u))
<1>1. d.schema \in SourcePage /\ d.schema \notin SourceE BY SourceSchemas DEF SourcePage
<1>2. r[1] = s[1] BY BeginsWith
<1>3. CASE s[1] = 0
  <2>1. Len(s) = 1 BY <1>3 DEF InD, InS
  <2>2. s = << 0 >> BY <1>3, <2>1, ByItsBytes
  <2>3. u = 0 BY <2>2, Zenon DEF unitOf
  <2>4. FromD(d.cd, r, one, two) = Put(1, <<0, 0>>, 0) BY <1>2, <1>3, Zenon DEF FromD
  <2>5. ~Substituted(d, s, u)
    <3>1. u # 26 BY <2>3
    <3>2. QED BY <3>1, <1>1, <2>1, PageCounts, Zenon
  <2>6. 0 \in Counts(d, s, u) BY <2>5, CountsHold
  <2>7. QED BY <2>1, <2>3, <2>4, <2>6, ZeroUnit, Zenon DEF Does
<1>4. CASE s[1] # 0 /\ D12U(d.cd, s[1]) # 0
  <2>1. Len(s) = 1 BY <1>4 DEF InD, InS
  <2>2. s = <<s[1]>> BY <2>1, ByItsBytes
  <2>3. s # << 0 >> BY <1>4, <2>2
  <2>4. u = D12U(d.cd, r[1]) BY <1>1, <1>2, <2>1, <2>3, Zenon DEF unitOf
  <2>5. FromD(d.cd, r, one, two) = Put(1, Bytes(u), Count(u = 26 /\ one # d.cd.srcSubS))
    BY <1>2, <1>4, <2>4, Zenon DEF FromD
  <2>6. s = <<d.cd.srcSubS>> <=> r[1] = d.cd.srcSubS BY <1>2, <2>2, TuplesDiffer
  <2>7. Substituted(d, s, u) <=> u = 26 /\ r[1] # d.cd.srcSubS
    BY <1>1, <2>1, <2>6, PageCounts, Zenon
  <2>8. Count(u = 26 /\ one # d.cd.srcSubS) \in Counts(d, s, u)
    <3>1. CASE d.schema = "D28" /\ one = 26
      <4>1. CASE u = 26
        <5>1. ByChance(d, s, u) BY <3>1, <4>1, Zenon DEF ByChance
        <5>2. QED BY <5>1, CountsHold, Zenon DEF Count
      <4>2. CASE u # 26
        <5>1. Count(u = 26 /\ one # d.cd.srcSubS) = 0 BY <4>2, Zenon DEF Count
        <5>2. QED BY <2>7, <4>2, <5>1, CountsHold, Zenon
      <4>3. QED BY <4>1, <4>2
    <3>2. CASE one = r[1] BY <2>7, <3>2, CountsHold, Zenon DEF Count
    <3>3. QED BY <3>1, <3>2, Zenon
  <2>9. Bytes(u) = Unit(u) BY DEF Bytes, Unit
  <2>10. QED BY <2>1, <2>5, <2>8, <2>9, Zenon DEF Does
<1>5. CASE s[1] # 0 /\ D12U(d.cd, s[1]) = 0
  <2>1. Len(s) = 2 /\ D22U(d.cd, s[1], s[2]) # 0 BY <1>5 DEF InD, InS
  <2>2. s = <<s[1], s[2]>> /\ r[2] = s[2] /\ ~(Len(r) < 2) /\ s[1] \in Octets /\ s[2] \in Octets
    BY <2>1, ByItsBytes, BeginsWith
  <2>3. s # << 0 >> /\ Len(s) # 1 BY <2>1
  <2>4. u = D22U(d.cd, r[1], r[2]) BY <1>1, <1>2, <2>2, <2>3, Zenon DEF unitOf
  <2>5. FromD(d.cd, r, one, two) = Put(2, Bytes(u), Count(u = Replacement /\ two # d.cd.srcSubD))
    BY <1>2, <1>5, <2>1, <2>2, <2>4, Zenon DEF FromD
  <2>6. s = Unit(d.cd.srcSubD) <=> s[1] * 256 + s[2] = d.cd.srcSubD BY <2>2, PairIsWord
  <2>7. Substituted(d, s, u) <=> u = Replacement /\ s[1] * 256 + s[2] # d.cd.srcSubD
    <3>1. Substituted(d, s, u) <=> u = Replacement /\ s # Unit(d.cd.srcSubD)
      BY <1>1, <2>3, PageCounts2
    <3>2. QED BY <2>6, <3>1
  <2>8. Count(u = Replacement /\ two # d.cd.srcSubD) \in Counts(d, s, u)
    <3>1. CASE d.schema = "D28" /\ two = Replacement
      <4>1. CASE s = Unit(d.cd.srcSubD)
        <5>1. ByChance(d, s, u) BY <3>1, <4>1, Zenon DEF ByChance
        <5>2. QED BY <5>1, CountsHold, Zenon DEF Count
      <4>2. CASE s # Unit(d.cd.srcSubD)
        <5>1. Substituted(d, s, u) <=> u = Replacement /\ two # d.cd.srcSubD
          BY <1>1, <2>3, <3>1, <4>2, PageCounts2
        <5>2. QED BY <5>1, CountsHold, Zenon DEF Count
      <4>3. QED BY <4>1, <4>2
    <3>2. CASE two = s[1] * 256 + s[2] BY <2>7, <3>2, CountsHold, Zenon DEF Count
    <3>3. (d.schema = "D28" /\ two = Replacement) \/ two = s[1] * 256 + s[2]
      BY <1>2, <2>2, Zenon
    <3>4. QED BY <3>1, <3>2, <3>3, Zenon
  <2>9. Bytes(u) = Unit(u) BY DEF Bytes, Unit
  <2>10. QED BY <2>1, <2>5, <2>8, <2>9, Zenon DEF Does
<1>6. QED BY <1>3, <1>4, <1>5, Zenon

LEMMA TwoLong == \A a, b : Len(<<a, b>>) = 2
OBVIOUS
LEMMA TwoIsNotThree == 2 # 3
OBVIOUS

LEMMA FirstTwo == ASSUME NEW s \in Seq(Octets), Len(s) = 3
  PROVE  SubSeq(s, 1, 2)[1] = s[1] /\ SubSeq(s, 1, 2)[2] = s[2] /\ Len(SubSeq(s, 1, 2)) = 2
         /\ SubSeq(s, 1, 2) = <<s[1], s[2]>>
<1>1. SubSeq(s, 1, 2)[1] = s[1] /\ SubSeq(s, 1, 2)[2] = s[2] /\ Len(SubSeq(s, 1, 2)) = 2 OBVIOUS
<1>2. SubSeq(s, 1, 2) \in Seq(Octets) /\ SubSeq(s, 1, 2) # <<>> BY <1>1
<1>3. QED BY <1>1, <1>2, ByItsBytes

(* The parts of a character of an EUC page.                                *)
LEMMA EucParts ==
  ASSUME NEW cd, NEW s \in Seq(Octets), s # <<>>, InE(cd, s), s # << 0 >>
  PROVE  /\ s[1] # 0 /\ unitOfE(cd, s) # 0
         /\ s[1] \in Shifts => Len(s) \in {2, 3} /\ InEuc(s[2])
         /\ s[1] \notin Shifts => Len(s) \in {1, 2}
         /\ s[1] \notin Shifts /\ Len(s) = 2 => InEuc(s[1]) /\ InEuc(s[2]) /\ E02U(cd, s[1]) = 0
         /\ Len(s) = 3 => InEuc(s[3]) /\ unitOfE(cd, SubSeq(s, 1, 2)) = 0
<1>1. /\ s[1] # 0 /\ Len(s) \in (IF s[1] \in Shifts THEN {2, 3} ELSE {1, 2})
      /\ unitOfE(cd, s) # 0
      /\ \A i \in 2 .. Len(s) : InEuc(s[i])
      /\ s[1] \notin Shifts /\ Len(s) = 2 => InEuc(s[1]) /\ E02U(cd, s[1]) = 0
      /\ Len(s) = 3 => unitOfE(cd, SubSeq(s, 1, 2)) = 0
  BY DEF InE
<1>2. Len(s) = 2 \/ Len(s) = 3 => InEuc(s[2])
  <2>1. (Len(s) = 2 => 2 \in 2 .. Len(s)) /\ (Len(s) = 3 => 2 \in 2 .. Len(s)) OBVIOUS
  <2>2. QED BY <1>1, <2>1, Zenon
<1>3. Len(s) = 3 => InEuc(s[3])
  <2>1. Len(s) = 3 => 3 \in 2 .. Len(s) OBVIOUS
  <2>2. QED BY <1>1, <2>1, Zenon
<1>4. s[1] \in Shifts => Len(s) \in {2, 3} BY <1>1, Zenon
<1>5. s[1] \notin Shifts => Len(s) \in {1, 2} BY <1>1, Zenon
<1>6. QED BY <1>1, <1>2, <1>3, <1>4, <1>5, Zenon

LEMMA ShiftBytes == 142 \in Shifts /\ 143 \in Shifts /\ (\A b : b \in Shifts => b = 142 \/ b = 143) /\ 142 # 143 /\ 142 # 0
                    /\ 143 # 0
BY DEF Shifts

LEMMA UnitOfParts ==
  ASSUME NEW cd, NEW s
  PROVE  /\ s[1] = 142 /\ Len(s) = 2 => unitOfE(cd, s) = E22U1(cd, s[2])
         /\ s[1] = 142 /\ Len(s) # 2 => unitOfE(cd, s) = E22U(cd, s[2], s[3])
         /\ s[1] = 143 /\ Len(s) = 2 => unitOfE(cd, s) = E32U1(cd, s[2])
         /\ s[1] = 143 /\ Len(s) # 2 => unitOfE(cd, s) = E32U(cd, s[2], s[3])
         /\ s[1] \notin Shifts /\ Len(s) = 1 => unitOfE(cd, s) = E02U(cd, s[1])
         /\ s[1] \notin Shifts /\ Len(s) # 1 => unitOfE(cd, s) = E12U(cd, s[1], s[2])
<1>1. s[1] = 142 => s[1] # 143 BY ShiftBytes
<1>2. s[1] \notin Shifts => s[1] # 142 /\ s[1] # 143 BY ShiftBytes
<1>3. ASSUME s[1] = 142 PROVE unitOfE(cd, s) = IF Len(s) = 2 THEN E22U1(cd, s[2]) ELSE E22U(cd, s[2], s[3])
  BY <1>1, <1>3, Zenon DEF unitOfE
<1>4. ASSUME s[1] = 143 PROVE unitOfE(cd, s) = IF Len(s) = 2 THEN E32U1(cd, s[2]) ELSE E32U(cd, s[2], s[3])
  BY <1>1, <1>4, Zenon DEF unitOfE
<1>5. ASSUME s[1] \notin Shifts
      PROVE  unitOfE(cd, s) = IF Len(s) = 1 THEN E02U(cd, s[1]) ELSE E12U(cd, s[1], s[2])
  BY <1>2, <1>5, Zenon DEF unitOfE
<1>6. QED BY <1>3, <1>4, <1>5, Zenon

LEMMA NoShorter ==
  ASSUME NEW cd, NEW s \in Seq(Octets), Len(s) = 3, unitOfE(cd, SubSeq(s, 1, 2)) = 0
  PROVE  /\ s[1] = 142 => E22U1(cd, s[2]) = 0
         /\ s[1] = 143 => E32U1(cd, s[2]) = 0
<1> DEFINE t == SubSeq(s, 1, 2)
<1>1. t[1] = s[1] /\ t[2] = s[2] /\ Len(t) = 2 BY FirstTwo
<1>2. unitOfE(cd, t) = 0 OBVIOUS
<1> HIDE DEF t
<1>3. ASSUME s[1] = 142 PROVE E22U1(cd, s[2]) = 0
  <2>1. t[1] = 142 BY <1>1, <1>3
  <2>2. unitOfE(cd, t) = E22U1(cd, t[2]) BY <1>1, <2>1, UnitOfParts
  <2>3. QED BY <1>1, <1>2, <2>2, Zenon
<1>4. ASSUME s[1] = 143 PROVE E32U1(cd, s[2]) = 0
  <2>1. t[1] = 143 BY <1>1, <1>4
  <2>2. unitOfE(cd, t) = E32U1(cd, t[2]) BY <1>1, <2>1, UnitOfParts
  <2>3. QED BY <1>1, <1>2, <2>2, Zenon
<1>5. QED BY <1>3, <1>4

LEMMA EucCases ==
  ASSUME NEW cd, NEW r
  PROVE  /\ r[1] = 142 => DMAP_E2U(cd, r) = E2U_SS2(cd, r)
         /\ r[1] = 143 => DMAP_E2U(cd, r) = E2U_SS3(cd, r)
         /\ r[1] # 0 /\ r[1] # 142 /\ r[1] # 143 =>
              /\ E02U(cd, r[1]) = 0 => DMAP_E2U(cd, r) = E2U_SS1(cd, r)
              /\ E02U(cd, r[1]) # 0 =>
                   DMAP_E2U(cd, r) = Put(1, Bytes(E02U(cd, r[1])), Count(E02U(cd, r[1]) = 26 /\ r[1] # cd.srcSubS))
BY SMT DEF DMAP_E2U

(* Characters behind a single shift.                                       *)
LEMMA ShiftedTurn ==
  ASSUME NEW d, d.schema \in SourceE, NEW s \in Seq(Octets), s # <<>>, s # << 0 >>, InE(d.cd, s), s[1] \in Shifts,
         NEW u, u = unitOfE(d.cd, s), NEW r, Begins(r, s), d.cd.srcSubD \in Nat
  PROVE  Does(DMAP_E2U(d.cd, r), Len(s), Unit(u), Counts(d, s, u))
<1>0. d.schema \in SourcePage BY DEF SourcePage
<1>1. /\ s[1] # 0 /\ u # 0 /\ Len(s) \in {2, 3} /\ InEuc(s[2])
      /\ Len(s) = 3 => InEuc(s[3]) /\ unitOfE(d.cd, SubSeq(s, 1, 2)) = 0
  BY EucParts
<1>2. r[1] = s[1] /\ r[2] = s[2] /\ ~(Len(r) < 2) /\ s[1] \in Octets /\ s[2] \in Octets
  BY <1>1, ByItsBytes, BeginsWith
<1>3. Bytes(u) = Unit(u) BY DEF Bytes, Unit
<1>4. s[1] = 142 \/ s[1] = 143 BY ShiftBytes
<1>5. CASE Len(s) = 2
  <2>1. DMAP_E2U(d.cd, r) = Put(2, Bytes(u), 0)
    <3>1. CASE s[1] = 142
      <4>1. u = E22U1(d.cd, r[2]) BY <1>2, <1>5, <3>1, UnitOfParts
      <4>2. E2U_SS2(d.cd, r) = Put(2, Bytes(u), 0) BY <1>1, <1>2, <4>1, Zenon DEF E2U_SS2
      <4>3. QED BY <1>2, <3>1, <4>2, EucCases
    <3>2. CASE s[1] = 143
      <4>1. u = E32U1(d.cd, r[2]) BY <1>2, <1>5, <3>2, UnitOfParts
      <4>2. E2U_SS3(d.cd, r) = Put(2, Bytes(u), 0) BY <1>1, <1>2, <4>1, Zenon DEF E2U_SS3
      <4>3. QED BY <1>2, <3>2, <4>2, EucCases
    <3>3. QED BY <1>4, <3>1, <3>2
  <2>2. 0 \in Counts(d, s, u)
    <3>1. CASE u = Replacement
      <4>1. ByChance(d, s, u) BY <1>5, <3>1, Zenon DEF ByChance
      <4>2. QED BY <4>1, CountsHold
    <3>2. CASE u # Replacement
      <4>1. Len(s) # 1 BY <1>5
      <4>2. ~Substituted(d, s, u) BY <1>0, <3>2, <4>1, PageCounts2
      <4>3. QED BY <4>2, CountsHold
    <3>3. QED BY <3>1, <3>2
  <2>3. QED BY <1>3, <1>5, <2>1, <2>2, Zenon DEF Does
<1>6. CASE Len(s) = 3
  <2>1. r[3] = s[3] /\ ~(Len(r) < 3) /\ Len(s) # 2 /\ Len(s) # 1 BY <1>6, BeginsWith
  <2>2. /\ s[1] = 142 => E22U1(d.cd, s[2]) = 0
        /\ s[1] = 143 => E32U1(d.cd, s[2]) = 0
    <3>1. unitOfE(d.cd, SubSeq(s, 1, 2)) = 0 BY <1>1, <1>6, Zenon
    <3>2. QED BY <1>6, <3>1, NoShorter
  <2>3. DMAP_E2U(d.cd, r) = PutShifted(d.cd, r, u)
    <3>1. CASE s[1] = 142
      <4>1. u = E22U(d.cd, r[2], r[3]) BY <1>2, <2>1, <3>1, UnitOfParts
      <4>2. E22U1(d.cd, r[2]) = 0 BY <1>2, <2>2, <3>1, Zenon
      <4>3. E2U_SS2(d.cd, r) = PutShifted(d.cd, r, u)
        BY <1>1, <1>2, <1>6, <2>1, <4>1, <4>2, Zenon DEF E2U_SS2
      <4>4. QED BY <1>2, <3>1, <4>3, EucCases
    <3>2. CASE s[1] = 143
      <4>1. u = E32U(d.cd, r[2], r[3]) BY <1>2, <2>1, <3>2, UnitOfParts
      <4>2. E32U1(d.cd, r[2]) = 0 BY <1>2, <2>2, <3>2, Zenon
      <4>3. E2U_SS3(d.cd, r) = PutShifted(d.cd, r, u)
        BY <1>1, <1>2, <1>6, <2>1, <4>1, <4>2, Zenon DEF E2U_SS3
      <4>4. QED BY <1>2, <3>2, <4>3, EucCases
    <3>3. QED BY <1>4, <3>1, <3>2
  <2>4. PutShifted(d.cd, r, u) = Put(3, Bytes(u), Count(u = Replacement /\ s[1] * 256 + s[2] # d.cd.srcSubD))
    BY <1>2, Zenon DEF PutShifted
  <2>5. Count(u = Replacement /\ s[1] * 256 + s[2] # d.cd.srcSubD) \in Counts(d, s, u)
    <3>1. CASE u = Replacement /\ SubSeq(s, 1, 2) = Unit(d.cd.srcSubD)
      <4>1. ByChance(d, s, u) BY <3>1, Zenon DEF ByChance
      <4>2. QED BY <4>1, CountsHold, Zenon DEF Count
    <3>2. CASE u = Replacement /\ SubSeq(s, 1, 2) # Unit(d.cd.srcSubD)
      <4>1. s # Unit(d.cd.srcSubD)
        <5>1. Len(Unit(d.cd.srcSubD)) = 2 BY Zenon, UnitIsPair, TwoLong
        <5>2. QED BY <1>6, <5>1, Zenon, TwoIsNotThree
      <4>2. Substituted(d, s, u) BY <1>0, <2>1, <3>2, <4>1, PageCounts2
      <4>3. SubSeq(s, 1, 2) = <<s[1], s[2]>> BY <1>6, FirstTwo
      <4>4. s[1] * 256 + s[2] # d.cd.srcSubD BY <1>2, <3>2, <4>3, PairIsWord
      <4>5. QED BY <3>2, <4>2, <4>4, CountsHold, Zenon DEF Count
    <3>3. CASE u # Replacement
      <4>1. ~Substituted(d, s, u) BY <1>0, <2>1, <3>3, PageCounts2
      <4>2. QED BY <3>3, <4>1, CountsHold, Zenon DEF Count
    <3>4. QED BY <3>1, <3>2, <3>3, Zenon
  <2>6. QED BY <1>3, <1>6, <2>3, <2>4, <2>5, Zenon DEF Does
<1>7. QED BY <1>1, <1>5, <1>6, Zenon

LEMMA EucTurn ==
  ASSUME NEW d, d.schema \in SourceE, NEW s \in Seq(Octets), s # <<>>, InE(d.cd, s),
         NEW u, u = unitOf(d, s), NEW r, Begins(r, s), d.cd.srcSubD \in Nat
  PROVE  Does(DMAP_E2U(d.cd, r), Len(s), Unit(u), Counts(d, s, u))
<1>0. d.schema \in SourcePage BY DEF SourcePage
<1>1. r[1] = s[1] BY BeginsWith
<1>2. CASE s = << 0 >>
  <2>1. u = 0 BY <1>2, Zenon DEF unitOf
  <2>2. Len(s) = 1 /\ s[1] = 0 BY <1>2
  <2>3. DMAP_E2U(d.cd, r) = Put(1, <<0, 0>>, 0) BY <1>1, <2>2, Zenon DEF DMAP_E2U
  <2>4. ~Substituted(d, s, u)
    <3>1. u # 26 BY <2>1
    <3>2. QED BY <3>1, <1>0, <2>2, PageCounts, Zenon
  <2>5. 0 \in Counts(d, s, u) BY <2>4, CountsHold
  <2>6. QED BY <2>1, <2>2, <2>3, <2>5, ZeroUnit, Zenon DEF Does
<1>3. ASSUME s # << 0 >> PROVE u = unitOfE(d.cd, s) BY <1>3, Zenon DEF unitOf
<1>4. CASE s # << 0 >> /\ s[1] \in Shifts BY <1>3, <1>4, ShiftedTurn
<1>5. CASE s # << 0 >> /\ s[1] \notin Shifts
  <2>1. /\ s[1] # 0 /\ u # 0 /\ Len(s) \in {1, 2}
        /\ Len(s) = 2 => InEuc(s[1]) /\ InEuc(s[2]) /\ E02U(d.cd, s[1]) = 0
    BY <1>3, <1>5, EucParts
  <2>2. r[1] # 142 /\ r[1] # 143 BY <1>1, <1>5, ShiftBytes
  <2>3. Bytes(u) = Unit(u) BY DEF Bytes, Unit
  <2>4. CASE Len(s) = 1
    <3>1. u = E02U(d.cd, r[1]) BY <1>1, <1>3, <1>5, <2>4, UnitOfParts
    <3>2. DMAP_E2U(d.cd, r) = Put(1, Bytes(u), Count(u = 26 /\ r[1] # d.cd.srcSubS))
      BY <1>1, <2>1, <2>2, <3>1, EucCases
    <3>3. s = <<d.cd.srcSubS>> <=> r[1] = d.cd.srcSubS
      <4>1. s = <<r[1]>> BY <1>1, <2>4, ByItsBytes
      <4>2. QED BY <4>1, TuplesDiffer
    <3>4. Substituted(d, s, u) <=> u = 26 /\ r[1] # d.cd.srcSubS
      BY <1>0, <2>4, <3>3, PageCounts, Zenon
    <3>5. Count(u = 26 /\ r[1] # d.cd.srcSubS) \in Counts(d, s, u)
      BY <3>4, CountsHold, Zenon DEF Count
    <3>6. QED BY <2>3, <2>4, <3>2, <3>5, Zenon DEF Does
  <2>5. CASE Len(s) = 2
    <3>1. /\ s = <<s[1], s[2]>> /\ r[2] = s[2] /\ ~(Len(r) < 2) /\ s[1] \in Octets /\ s[2] \in Octets
          /\ Len(s) # 1
      BY <2>5, ByItsBytes, BeginsWith
    <3>2. u = E12U(d.cd, r[1], r[2]) BY <1>1, <1>3, <1>5, <3>1, UnitOfParts
    <3>3. E2U_SS1(d.cd, r) = Put(2, Bytes(u), Count(u = Replacement /\ s[1] * 256 + s[2] # d.cd.srcSubD))
      BY <1>1, <2>1, <2>5, <3>1, <3>2, Zenon DEF E2U_SS1
    <3>4. DMAP_E2U(d.cd, r) = E2U_SS1(d.cd, r) BY <1>1, <2>1, <2>2, <2>5, EucCases
    <3>5. s = Unit(d.cd.srcSubD) <=> s[1] * 256 + s[2] = d.cd.srcSubD BY <3>1, PairIsWord
    <3>6. Substituted(d, s, u) <=> u = Replacement /\ s # Unit(d.cd.srcSubD)
      <4>1. Len(s) # 1 BY <3>1
      <4>2. QED BY <1>0, <4>1, PageCounts2
    <3>7. Substituted(d, s, u) <=> u = Replacement /\ s[1] * 256 + s[2] # d.cd.srcSubD
      BY <3>5, <3>6
    <3>8. Count(u = Replacement /\ s[1] * 256 + s[2] # d.cd.srcSubD) \in Counts(d, s, u)
      BY <3>7, CountsHold, Zenon DEF Count
    <3>9. QED BY <2>3, <2>5, <3>3, <3>4, <3>8, Zenon DEF Does
  <2>6. QED BY <2>1, <2>4, <2>5, Zenon
<1>6. QED BY <1>2, <1>4, <1>5, Zenon

-----------------------------------------------------------------------------
(* One turn of each loop with a character of its encoding.                 *)

LEMMA TurnOf ==
  ASSUME NEW c, NEW r, NEW x
  PROVE  /\ c.schema = "S2S" => Turn(c, r, x) = DMAP_S2S(c.cd, r)
         /\ c.schema = "S2U" => Turn(c, r, x) = DMAP_S2U(c.cd, r)
         /\ c.schema = "S28" => Turn(c, r, x) = DMAP_S28(c.cd, r)
         /\ c.schema = "D2U" => Turn(c, r, x) = DMAP_D2U(c.cd, r)
         /\ c.schema = "D28" => Turn(c, r, x) = DMAP_D28(c.cd, r)
         /\ c.schema = "E2U" => Turn(c, r, x) = DMAP_E2U(c.cd, r)
         /\ c.schema = "E28" => Turn(c, r, x) = DMAP_E28(c.cd, r)
         /\ c.schema = "U2S" => Turn(c, r, x) = DMAP_U2S(c.cd, r)
         /\ c.schema = "T2S" => Turn(c, r, x) = DMAP_T2S(c.cd, r)
         /\ c.schema = "82S" => Turn(c, r, x) = DMAP_82S(c.cd, r)
         /\ c.schema = "U2D" => Turn(c, r, x) = DMAP_U2D(c.cd, r, x)
         /\ c.schema = "T2D" => Turn(c, r, x) = DMAP_T2D(c.cd, r, x)
         /\ c.schema = "82D" => Turn(c, r, x) = DMAP_82D(c.cd, r)
         /\ c.schema = "U2E" => Turn(c, r, x) = DMAP_U2E(c.cd, r, x)
         /\ c.schema = "T2E" => Turn(c, r, x) = DMAP_T2E(c.cd, r, x)
         /\ c.schema = "82E" => Turn(c, r, x) = DMAP_82E(c.cd, r, x)
         /\ c.schema = "82U" => Turn(c, r, x) = DMAP_82U(c.cd, r)
         /\ c.schema = "U28" => Turn(c, r, x) = DMAP_U28(r)
         /\ c.schema = "T28" => Turn(c, r, x) = DMAP_T28(r)
BY DEF Turn

LEMMA PlainScalar == ASSUME NEW u, IsScalar(u), ~Supplementary(u)
  PROVE  IsWord(u) /\ ~Lead(u) /\ ~Trailing(u) /\ Utf16(u) = Unit(u)
<1>1. IsWord(u) BY SMT DEF IsScalar, Supplementary, IsWord
<1>2. ~Lead(u) /\ ~Trailing(u) BY SMT DEF IsScalar, Lead, Trailing
<1>3. QED BY <1>1, <1>2, UnitIsBytes

LEMMA FormOfUnicode == ASSUME NEW d, NEW u
  PROVE  /\ d.schema \in TargetU => Form(d, u) = Utf16(u)
         /\ d.schema \in Target8 => Form(d, u) = Utf8(u)
<1>1. d.schema \in TargetU => d.schema \notin Target8 BY DEF TargetU, Target8
<1>2. QED BY <1>1, Zenon DEF Form

LEMMA SourceKinds == ASSUME NEW d
  PROVE  /\ d.schema \in SourcePage => d.schema \notin SourceU \cup SourceT /\ d.schema \notin Source8
         /\ d.schema \in SourceU \cup SourceT => d.schema \notin SourcePage /\ d.schema \notin Source8
         /\ d.schema \in Source8 => d.schema \notin SourceU \cup SourceT /\ d.schema \notin SourcePage
         /\ d.schema \in SourcePage => d.schema \notin {"T2S", "T28"} \cup Source8
         /\ d.schema \in SourceU => d.schema \notin {"T2S", "T28"} \cup Source8
         /\ d.schema \in {"T2D", "T2E"} => d.schema \notin {"T2S", "T28"} \cup Source8
BY DEF SourcePage, SourceS, SourceD, SourceE, SourceU, SourceT, Source8

LEMMA CharacterOf == ASSUME NEW d, NEW s, NEW u, IsCharacter(d, s, u)
  PROVE  /\ d.schema \in SourcePage => InPage(d, s) /\ u = unitOf(d, s) /\ ~Supplementary(u)
         /\ d.schema \in SourceU \cup SourceT => s = Utf16(u)
         /\ d.schema \in SourceU \cup {"T2D", "T2E"} => ~Supplementary(u)
         /\ d.schema \in Source8 => s = Utf8(u)
         /\ Supplementary(u) => ~(d.schema = "82U" /\ d.cd.toCcsid = Ucs2)
<1>1. /\ CASE d.schema \in SourcePage      -> InPage(d, s) /\ u = unitOf(d, s)
           [] d.schema \in SourceU \cup SourceT -> s = Utf16(u)
           [] d.schema \in Source8        -> s = Utf8(u)
      /\ Supplementary(u) => /\ d.schema \in {"T2S", "T28"} \cup Source8
                             /\ ~(d.schema = "82U" /\ d.cd.toCcsid = Ucs2)
  BY Zenon DEF IsCharacter
<1>2. d.schema \in SourcePage => InPage(d, s) /\ u = unitOf(d, s) BY <1>1, SourceKinds, Zenon
<1>3. d.schema \in SourceU \cup SourceT => s = Utf16(u) BY <1>1, SourceKinds, Zenon
<1>4. d.schema \in Source8 => s = Utf8(u) BY <1>1, SourceKinds, Zenon
<1>5. QED BY <1>1, <1>2, <1>3, <1>4, SourceKinds, Zenon

(* One turn with a character of a code page.                               *)
LEMMA PageTurn ==
  ASSUME NEW d, d.schema \in SourcePage, TablesFit(d), NEW c, c.schema = d.schema, c.cd = d.cd,
         NEW s \in Seq(Octets), s # <<>>, NEW u, IsScalar(u), IsCharacter(d, s, u),
         NEW r, Begins(r, s), NEW x
  PROVE  Does(Turn(c, r, x), Len(s), Form(d, u), Counts(d, s, u))
<1>1. InPage(d, s) /\ u = unitOf(d, s) /\ ~Supplementary(u) BY CharacterOf
<1>2. IsWord(u) /\ ~Lead(u) /\ Utf16(u) = Unit(u) BY <1>1, PlainScalar
<1>3. d.cd.srcSubD \in Nat /\ (d.schema = "D28" => d.cd.srcSubD # Replacement)
  BY Zenon DEF TablesFit
<1>4. Counts(d, s, u) \in SUBSET Nat BY CountsHold
<1>5. /\ d.schema \in TargetU => Form(d, u) = Unit(u)
      /\ d.schema \in Target8 => Form(d, u) = Utf8(u)
  BY <1>2, FormOfUnicode, Zenon
<1>6. CASE d.schema \in SourceS
  <2>1. InS(d.cd, s) BY <1>1, <1>6, SourceSchemas, Zenon DEF InPage
  <2>2. /\ Does(DMAP_S2U(d.cd, r), Len(s), Unit(u), Counts(d, s, u))
        /\ r[1] = 0 \/ D12U(d.cd, r[1]) # 0
    BY <1>1, <1>6, <2>1, SingleTurn
  <2>3. CASE d.schema = "S2U"
    <3>1. d.schema \in TargetU BY <2>3 DEF TargetU
    <3>2. Turn(c, r, x) = DMAP_S2U(d.cd, r) BY <2>3, TurnOf
    <3>3. QED BY <1>5, <2>2, <3>1, <3>2, Zenon
  <2>4. CASE d.schema = "S28"
    <3>1. d.schema \in Target8 BY <2>4 DEF Target8
    <3>2. Turn(c, r, x) = DMAP_S28(d.cd, r) BY <2>4, TurnOf
    <3>3. DMAP_S28(d.cd, r) = Then(DMAP_S2U(d.cd, r), PutUtf8) BY <2>2, Zenon DEF DMAP_S28
    <3>4. Does(Then(DMAP_S2U(d.cd, r), PutUtf8), Len(s), Utf8(u), Counts(d, s, u))
      BY <1>2, <1>4, <2>2, ThenUtf8
    <3>5. QED BY <1>5, <3>1, <3>2, <3>3, <3>4, Zenon
  <2>5. QED BY <1>6, <2>3, <2>4 DEF SourceS
<1>7. CASE d.schema \in SourceD
  <2>1. InD(d.cd, s) BY <1>1, <1>7, SourceSchemas, Zenon DEF InPage
  <2>2. CASE d.schema = "D2U"
    <3>1. d.schema \in TargetU BY <2>2 DEF TargetU
    <3>2. Turn(c, r, x) = DMAP_D2U(d.cd, r) BY <2>2, TurnOf
    <3> DEFINE two == IF Len(r) < 2 THEN 0 ELSE r[1] * 256 + r[2]
    <3>3. DMAP_D2U(d.cd, r) = FromD(d.cd, r, r[1], two) BY DEF DMAP_D2U
    <3> HIDE DEF two
    <3>4. Does(FromD(d.cd, r, r[1], two), Len(s), Unit(u), Counts(d, s, u))
      <4>1. two = IF Len(r) < 2 THEN 0 ELSE r[1] * 256 + r[2] BY DEF two
      <4>2. QED BY <1>1, <1>3, <1>7, <2>1, <4>1, DoubleTurn, Zenon
    <3>5. QED BY <1>5, <3>1, <3>2, <3>3, <3>4, Zenon
  <2>3. CASE d.schema = "D28"
    <3>1. d.schema \in Target8 BY <2>3 DEF Target8
    <3>2. Turn(c, r, x) = DMAP_D28(d.cd, r) BY <2>3, TurnOf
    <3>3. DMAP_D28(d.cd, r) = Then(FromD(d.cd, r, 26, Replacement), PutUtf8)
      BY Zenon DEF DMAP_D28
    <3>4. Does(FromD(d.cd, r, 26, Replacement), Len(s), Unit(u), Counts(d, s, u))
      BY <1>1, <1>3, <1>7, <2>1, <2>3, DoubleTurn, Zenon
    <3>5. Does(Then(FromD(d.cd, r, 26, Replacement), PutUtf8), Len(s), Utf8(u), Counts(d, s, u))
      BY <1>2, <1>4, <3>4, ThenUtf8
    <3>6. QED BY <1>5, <3>1, <3>2, <3>3, <3>5, Zenon
  <2>4. QED BY <1>7, <2>2, <2>3 DEF SourceD
<1>8. CASE d.schema \in SourceE
  <2>1. InE(d.cd, s) BY <1>1, <1>8, SourceSchemas, Zenon DEF InPage
  <2>2. Does(DMAP_E2U(d.cd, r), Len(s), Unit(u), Counts(d, s, u))
    BY <1>1, <1>3, <1>8, <2>1, EucTurn
  <2>3. CASE d.schema = "E2U"
    <3>1. d.schema \in TargetU BY <2>3 DEF TargetU
    <3>2. Turn(c, r, x) = DMAP_E2U(d.cd, r) BY <2>3, TurnOf
    <3>3. QED BY <1>5, <2>2, <3>1, <3>2, Zenon
  <2>4. CASE d.schema = "E28"
    <3>1. d.schema \in Target8 BY <2>4 DEF Target8
    <3>2. Turn(c, r, x) = DMAP_E28(d.cd, r) BY <2>4, TurnOf
    <3>3. DMAP_E28(d.cd, r) = Then(DMAP_E2U(d.cd, r), PutUtf8) BY Zenon DEF DMAP_E28
    <3>4. Does(Then(DMAP_E2U(d.cd, r), PutUtf8), Len(s), Utf8(u), Counts(d, s, u))
      BY <1>2, <1>4, <2>2, ThenUtf8
    <3>5. QED BY <1>5, <3>1, <3>2, <3>3, <3>4, Zenon
  <2>5. QED BY <1>8, <2>3, <2>4 DEF SourceE
<1>9. QED BY <1>6, <1>7, <1>8, SourceSchemas, Zenon

(* A unit that goes on to a page, or to another encoding of Unicode.       *)
LEMMA UnitOn ==
  ASSUME NEW d, TablesFit(d), NEW s, NEW u \in Characters, IsWord(u), NEW x
  PROVE  /\ d.schema \in TargetS => Does(ToS(d.cd, u), 0, Form(d, u), Counts(d, s, u))
         /\ d.schema \in {"U2D", "T2D"} => Does(ToDShifted(d.cd, u, x), 0, Form(d, u), Counts(d, s, u))
         /\ d.schema = "82D" => Does(ToD(d.cd, u, U2D(d.cd, u)[1], u), 0, Form(d, u), Counts(d, s, u))
         /\ d.schema \in TargetE => Does(ToE(d.cd, u, x), 0, Form(d, u), Counts(d, s, u))
<1>1. ASSUME d.schema \in TargetS PROVE Does(ToS(d.cd, u), 0, Form(d, u), Counts(d, s, u))
  BY <1>1, ToSForm
<1>2. ASSUME d.schema \in TargetD PROVE IsPair(U2D(d.cd, u))
  BY <1>2, Zenon DEF TablesFit
<1>3. ASSUME d.schema \in {"U2D", "T2D"}
      PROVE  Does(ToDShifted(d.cd, u, x), 0, Form(d, u), Counts(d, s, u))
  <2>1. d.schema \in TargetD BY <1>3 DEF TargetD
  <2>2. Does(ToD(d.cd, u, x, 2 * u), 0, Form(d, u), Counts(d, s, u))
    BY <1>2, <1>3, <2>1, ToDForm
  <2>3. QED BY <2>2, Zenon DEF ToDShifted
<1>4. ASSUME d.schema = "82D"
      PROVE  Does(ToD(d.cd, u, U2D(d.cd, u)[1], u), 0, Form(d, u), Counts(d, s, u))
  <2>1. d.schema \in TargetD BY <1>4 DEF TargetD
  <2>2. QED BY <1>2, <1>4, <2>1, ToDForm
<1>5. ASSUME d.schema \in TargetE PROVE Does(ToE(d.cd, u, x), 0, Form(d, u), Counts(d, s, u))
  <2>1. IsPair(U2M2(d.cd, u)) BY <1>5, Zenon DEF TablesFit
  <2>2. QED BY <1>5, <2>1, ToEForm
<1>6. QED BY <1>1, <1>3, <1>4, <1>5, Zenon

(* Between encodings of Unicode nothing is substituted.                    *)
LEMMA NothingCounted == ASSUME NEW d, d.schema \in {"U28", "T28", "82U"}, NEW s, NEW u
  PROVE  0 \in Counts(d, s, u)
<1>1. d.schema \notin SourcePage /\ d.schema \notin TargetS \cup TargetD \cup TargetE
  BY DEF SourcePage, SourceS, SourceD, SourceE, TargetS, TargetD, TargetE
<1>2. ~Substituted(d, s, u) BY <1>1, Zenon DEF Substituted
<1>3. QED BY <1>2, CountsHold

LEMMA EmptyIsZero == Len(<<>>) = 0 /\ 2 # 0
OBVIOUS

LEMMA TwoRead == ASSUME NEW s \in Seq(Octets), Len(s) = 2, NEW r, Begins(r, s)
  PROVE  /\ Len(r) # 1 /\ Len(r) \in Nat /\ r[1] = s[1] /\ r[2] = s[2]
         /\ PutUnit(r) = Put(2, s, 0) /\ UnitAt(r, 1) = WordOf(s[1], s[2])
<1>1. s # <<>> BY EmptyIsZero, Zenon
<1>2. r[1] = s[1] /\ r[2] = s[2] /\ Len(r) # 1 /\ Len(r) \in Nat BY <1>1, BeginsWith
<1>3. <<r[1], r[2]>> = s BY <1>1, <1>2, ByItsBytes
<1>4. PutUnit(r) = Put(2, s, 0) BY <1>3, Zenon DEF PutUnit
<1>5. UnitAt(r, 1) = WordOf(r[1], r[2]) BY DEF UnitAt, WordOf
<1>6. QED BY <1>2, <1>4, <1>5, Zenon

LEMMA UnitRead == ASSUME NEW u, IsWord(u), NEW r, Begins(r, Unit(u))
  PROVE  /\ Len(Unit(u)) = 2 /\ Len(r) # 1 /\ Len(r) \in Nat
         /\ PutUnit(r) = Put(2, Unit(u), 0) /\ UnitAt(r, 1) = u
<1>1. Len(Unit(u)) = 2 /\ Unit(u) \in Seq(Octets) /\ WordOf(Unit(u)[1], Unit(u)[2]) = u
  BY UnitIsBytes
<1>2. QED BY <1>1, TwoRead, Zenon

(* One turn with a character of UCS-2.                                     *)
LEMMA UcsTurn ==
  ASSUME NEW d, d.schema \in SourceU, TablesFit(d), NEW c, c.schema = d.schema, c.cd = d.cd,
         NEW s, NEW u \in Characters, IsCharacter(d, s, u), NEW r, Begins(r, s), NEW x
  PROVE  Does(Turn(c, r, x), Len(s), Form(d, u), Counts(d, s, u))
<1>1. s = Utf16(u) /\ ~Supplementary(u) BY CharacterOf
<1>2. IsScalar(u) BY CharactersAssumption
<1>3. IsWord(u) /\ s = Unit(u) BY <1>1, <1>2, PlainScalar
<1>4. Len(s) = 2 /\ Len(r) # 1 /\ PutUnit(r) = Put(2, Unit(u), 0) BY <1>3, UnitRead
<1>10. PutUnit(r).kind = "go" /\ PutUnit(r).bytes[1] * 256 + PutUnit(r).bytes[2] = u
  BY <1>3, <1>4, UnitGoes
<1>11. Counts(d, s, u) \in SUBSET Nat BY CountsHold
<1>5. CASE d.schema = "U2S"
  <2>1. Turn(c, r, x) = DMAP_U2S(d.cd, r) BY <1>5, TurnOf
  <2>2. DMAP_U2S(d.cd, r) = After(PutUnit(r), ToS(d.cd, u))
    BY <1>4, <1>10, Zenon DEF DMAP_U2S, FromU, Then, After
  <2>3. d.schema \in TargetS BY <1>5 DEF TargetS
  <2>4. Does(ToS(d.cd, u), 0, Form(d, u), Counts(d, s, u)) BY <1>3, <2>3, UnitOn
  <2>5. QED BY <1>4, <1>11, <2>1, <2>2, <2>4, AfterDoes
<1>6. CASE d.schema = "U2D"
  <2>1. Turn(c, r, x) = DMAP_U2D(d.cd, r, x) BY <1>6, TurnOf
  <2>2. DMAP_U2D(d.cd, r, x) = After(PutUnit(r), ToDShifted(d.cd, u, x))
    BY <1>4, <1>10, Zenon DEF DMAP_U2D, FromU, Then, After
  <2>3. d.schema \in {"U2D", "T2D"} BY <1>6
  <2>4. Does(ToDShifted(d.cd, u, x), 0, Form(d, u), Counts(d, s, u)) BY <1>3, <2>3, UnitOn
  <2>5. QED BY <1>4, <1>11, <2>1, <2>2, <2>4, AfterDoes
<1>7. CASE d.schema = "U2E"
  <2>1. Turn(c, r, x) = DMAP_U2E(d.cd, r, x) BY <1>7, TurnOf
  <2>2. DMAP_U2E(d.cd, r, x) = After(PutUnit(r), ToE(d.cd, u, x))
    BY <1>4, <1>10, Zenon DEF DMAP_U2E, FromU, Then, After
  <2>3. d.schema \in TargetE BY <1>7 DEF TargetE
  <2>4. Does(ToE(d.cd, u, x), 0, Form(d, u), Counts(d, s, u)) BY <1>3, <2>3, UnitOn
  <2>5. QED BY <1>4, <1>11, <2>1, <2>2, <2>4, AfterDoes
<1>8. CASE d.schema = "U28"
  <2>1. Turn(c, r, x) = DMAP_U28(r) BY <1>8, TurnOf
  <2>2. DMAP_U28(r) = Then(PutUnit(r), PutPlain8) BY <1>4, Zenon DEF DMAP_U28, FromU
  <2>3. Then(PutUnit(r), PutPlain8) = Put(2, Utf8(u), 0) BY <1>3, <1>4, ThenPlain8
  <2>4. d.schema \in Target8 BY <1>8 DEF Target8
  <2>5. Form(d, u) = Utf8(u) BY <2>4, FormOfUnicode
  <2>6. 0 \in Counts(d, s, u) BY <1>8, NothingCounted
  <2>7. QED BY <1>4, <2>1, <2>2, <2>3, <2>5, <2>6, Zenon DEF Does
<1>9. QED BY <1>5, <1>6, <1>7, <1>8 DEF SourceU

(* The bytes of a pair, and the bits that the loops take from them.        *)
First16(p) == 216 + (p - 1) \div 4
Second16(p, a) == ((p - 1) % 4) * 64 + a
Third16(b) == 220 + b
First8(p) == 240 + p \div 4
Second8(p, a) == 128 + ((p % 4) * 16 + a \div 4)
Third8(a, b, e) == 128 + ((a % 4) * 16 + (b * 4 + e \div 64))
Fourth8(e) == 128 + (e % 64)
IsPairOf(r, p, a, b, e) == r[1] = First16(p) /\ r[2] = Second16(p, a) /\ r[3] = Third16(b) /\ r[4] = e

LEMMA PairForms == ASSUME NEW p, NEW a, NEW b, NEW e, PairParts(p, a, b, e)
  PROVE  /\ Utf16(PairValue(p, a, b, e)) = <<First16(p), Second16(p, a), Third16(b), e>>
         /\ Utf8(PairValue(p, a, b, e)) = <<First8(p), Second8(p, a), Third8(a, b, e), Fourth8(e)>>
BY PairAsUtf16, PairAsUtf8 DEF First16, Second16, Third16, First8, Second8, Third8, Fourth8

LEMMA PairBits ==
  ASSUME NEW p, NEW a, NEW b, NEW e, PairParts(p, a, b, e), NEW r, IsPairOf(r, p, a, b, e)
  PROVE  /\ (((r[1] * 256 + r[2]) \div 64) % 16) + 1 = p
         /\ (r[2] % 64) \div 4 = a \div 4 /\ r[2] % 4 = a % 4 /\ r[3] % 4 = b /\ r[4] = e
         /\ Lead(UnitAt(r, 1)) /\ Trailing(UnitAt(r, 3))
<1>0. p \in 1 .. 16 /\ a \in 0 .. 63 /\ b \in 0 .. 3 /\ e \in 0 .. 255 BY DEF PairParts
<1>1. PICK q, m : q = (p - 1) \div 4 /\ m = (p - 1) % 4 OBVIOUS
<1>2. q \in 0 .. 3 /\ m \in 0 .. 3 /\ p - 1 = q * 4 + m BY <1>0, <1>1, SMT
<1>3. PICK h, l, c : h = r[1] /\ l = r[2] /\ c = r[3] OBVIOUS
<1>4. h = 216 + q /\ l = m * 64 + a /\ c = 220 + b
  <2>1. h = First16(p) /\ l = Second16(p, a) /\ c = Third16(b) BY <1>3, Zenon DEF IsPairOf
  <2>2. QED BY <1>1, <2>1 DEF First16, Second16, Third16
<1>5. ((h * 256 + l) \div 64) % 16 = p - 1 BY <1>0, <1>2, <1>4, SMT
<1>6. (l % 64) \div 4 = a \div 4 /\ l % 4 = a % 4 BY <1>0, <1>2, <1>4, SMT
<1>7. c % 4 = b BY <1>0, <1>4, SMT
<1>8. Lead(h * 256 + l) BY <1>0, <1>2, <1>4, SMT DEF Lead
<1>9. Trailing(c * 256 + e) BY <1>0, <1>4, SMT DEF Trailing
<1>10. r[4] = e BY DEF IsPairOf
<1>11. Lead(UnitAt(r, 1))
  <2>1. UnitAt(r, 1) = r[1] * 256 + r[2]
    <3>1. 1 + 1 = 2 OBVIOUS
    <3>2. QED BY <3>1, Zenon DEF UnitAt
  <2>2. QED BY <1>3, <1>8, <2>1, Zenon
<1>12. Trailing(UnitAt(r, 3))
  <2>1. UnitAt(r, 3) = r[3] * 256 + r[4]
    <3>1. 3 + 1 = 4 OBVIOUS
    <3>2. QED BY <3>1, Zenon DEF UnitAt
  <2>2. QED BY <1>3, <1>9, <1>10, <2>1, Zenon
<1>13. (((r[1] * 256 + r[2]) \div 64) % 16) + 1 = p
  <2>1. ((r[1] * 256 + r[2]) \div 64) % 16 = p - 1 BY <1>3, <1>5, Zenon
  <2>2. QED BY <1>0, <2>1, SMT
<1>14. QED BY <1>3, <1>6, <1>7, <1>10, <1>11, <1>12, <1>13, Zenon

LEMMA PairTo8IsUtf8 ==
  ASSUME NEW p, NEW a, NEW b, NEW e, PairParts(p, a, b, e), NEW r, IsPairOf(r, p, a, b, e)
  PROVE  PairTo8(r) = Utf8(PairValue(p, a, b, e))
<1>0. p \in 1 .. 16 /\ a \in 0 .. 63 /\ b \in 0 .. 3 /\ e \in 0 .. 255 BY DEF PairParts
<1> DEFINE uuuuu == (((r[1] * 256 + r[2]) \div 64) % 16) + 1
<1>1. PairTo8(r) = <<uuuuu \div 4 + 240, (uuuuu % 4) * 16 + 128 + (r[2] % 64) \div 4,
                     (r[2] % 4) * 16 + 128 + (r[3] % 4) * 4 + r[4] \div 64, (r[4] % 64) + 128>>
  BY DEF PairTo8
<1>2. uuuuu = p /\ (r[2] % 64) \div 4 = a \div 4 /\ r[2] % 4 = a % 4 /\ r[3] % 4 = b /\ r[4] = e
  BY PairBits
<1> HIDE DEF uuuuu
<1>3. uuuuu \div 4 + 240 = First8(p) BY <1>0, <1>2, SMT DEF First8
<1>4. (uuuuu % 4) * 16 + 128 + (r[2] % 64) \div 4 = Second8(p, a) BY <1>0, <1>2, SMT DEF Second8
<1>5. (r[2] % 4) * 16 + 128 + (r[3] % 4) * 4 + r[4] \div 64 = Third8(a, b, e)
  BY <1>0, <1>2, SMT DEF Third8
<1>6. (r[4] % 64) + 128 = Fourth8(e) BY <1>0, <1>2, SMT DEF Fourth8
<1>7. PairTo8(r) = <<First8(p), Second8(p, a), Third8(a, b, e), Fourth8(e)>>
  BY <1>1, <1>3, <1>4, <1>5, <1>6
<1>8. QED BY <1>7, PairForms

LEMMA FourBytes == ASSUME NEW a, NEW b, NEW c, NEW e
  PROVE  /\ Len(<<a, b, c, e>>) = 4
         /\ <<a, b, c, e>>[1] = a /\ <<a, b, c, e>>[2] = b /\ <<a, b, c, e>>[3] = c /\ <<a, b, c, e>>[4] = e
OBVIOUS
LEMMA BeginsFour == ASSUME NEW r, NEW s, Len(s) = 4, Begins(r, s)
  PROVE  Len(r) # 1 /\ ~(Len(r) < 4) /\ r[1] = s[1] /\ r[2] = s[2] /\ r[3] = s[3] /\ r[4] = s[4]
BY DEF Begins

(* The pair with which a text begins.                                      *)
LEMMA PairRead ==
  ASSUME NEW u, IsScalar(u), Supplementary(u), NEW r, Begins(r, Utf16(u))
  PROVE  /\ Len(Utf16(u)) = 4 /\ Len(r) # 1 /\ ~(Len(r) < 4)
         /\ \E p, a, b, e : PairParts(p, a, b, e) /\ u = PairValue(p, a, b, e) /\ IsPairOf(r, p, a, b, e)
<1>1. PICK p, a, b, e : PairParts(p, a, b, e) /\ u = PairValue(p, a, b, e) BY PartsOfPair
<1>2. Utf16(u) = <<First16(p), Second16(p, a), Third16(b), e>> BY <1>1, PairForms
<1>3. PICK s : s = Utf16(u) OBVIOUS
<1>4. Len(s) = 4 /\ s[1] = First16(p) /\ s[2] = Second16(p, a) /\ s[3] = Third16(b) /\ s[4] = e
  <2>1. s = <<First16(p), Second16(p, a), Third16(b), e>> BY <1>2, <1>3
  <2>2. QED BY <2>1, FourBytes
<1>5. Len(r) # 1 /\ ~(Len(r) < 4) /\ r[1] = s[1] /\ r[2] = s[2] /\ r[3] = s[3] /\ r[4] = s[4]
  <2>1. Begins(r, s) BY <1>3
  <2>2. QED BY <1>4, <2>1, BeginsFour, Zenon
<1>6. IsPairOf(r, p, a, b, e) BY <1>4, <1>5, Zenon DEF IsPairOf
<1>7. QED BY <1>1, <1>3, <1>4, <1>5, <1>6, Zenon

(* One turn with a character of UTF-16.                                    *)
LEMMA UtfTurn ==
  ASSUME NEW d, d.schema \in SourceT, TablesFit(d), NEW c, c.schema = d.schema, c.cd = d.cd,
         NEW s, NEW u \in Characters, IsCharacter(d, s, u), NEW r, Begins(r, s), NEW x,
         d.schema = "T2S" => Len(s) # 4
  PROVE  Does(Turn(c, r, x), Len(s), Form(d, u), Counts(d, s, u))
<1>1. s = Utf16(u) /\ (d.schema \in {"T2D", "T2E"} => ~Supplementary(u)) BY CharacterOf
<1>2. IsScalar(u) BY CharactersAssumption
<1>3. CASE Supplementary(u)
  <2>1. /\ Len(s) = 4 /\ Len(r) # 1 /\ ~(Len(r) < 4)
        /\ \E p, a, b, e : PairParts(p, a, b, e) /\ u = PairValue(p, a, b, e) /\ IsPairOf(r, p, a, b, e)
    BY <1>1, <1>2, <1>3, PairRead, Zenon
  <2>2. d.schema = "T28" BY <1>1, <1>3, <2>1 DEF SourceT
  <2>3. PICK p, a, b, e : PairParts(p, a, b, e) /\ u = PairValue(p, a, b, e) /\ IsPairOf(r, p, a, b, e)
    BY <2>1, Zenon
  <2>4. Lead(UnitAt(r, 1)) /\ Trailing(UnitAt(r, 3)) BY <2>3, PairBits, Zenon
  <2>5. PairTo8(r) = Utf8(u) BY <2>3, PairTo8IsUtf8, Zenon
  <2>6. DMAP_T28(r) = Put(4, Utf8(u), 0) BY <2>1, <2>4, <2>5, Zenon DEF DMAP_T28
  <2>7. Turn(c, r, x) = DMAP_T28(r) BY <2>2, TurnOf
  <2>8. d.schema \in Target8 BY <2>2 DEF Target8
  <2>9. Form(d, u) = Utf8(u) BY <2>8, FormOfUnicode
  <2>10. 0 \in Counts(d, s, u) BY <2>2, NothingCounted
  <2>11. QED BY <2>1, <2>6, <2>7, <2>9, <2>10, Zenon DEF Does
<1>4. CASE ~Supplementary(u)
  <2>1. IsWord(u) /\ s = Unit(u) /\ ~Lead(u) /\ ~Trailing(u) BY <1>1, <1>2, <1>4, PlainScalar
  <2>2. Len(s) = 2 /\ Len(r) # 1 /\ PutUnit(r) = Put(2, Unit(u), 0) /\ UnitAt(r, 1) = u
    BY <2>1, UnitRead
  <2>3. PutUnit(r).kind = "go" /\ PutUnit(r).bytes[1] * 256 + PutUnit(r).bytes[2] = u
    BY <2>1, <2>2, UnitGoes
  <2>4. Counts(d, s, u) \in SUBSET Nat BY CountsHold
  <2>5. CASE d.schema = "T2S"
    <3>1. Turn(c, r, x) = DMAP_T2S(d.cd, r) BY <2>5, TurnOf
    <3>2. DMAP_T2S(d.cd, r) = After(PutUnit(r), ToS(d.cd, u))
      BY <2>1, <2>2, <2>3, Zenon DEF DMAP_T2S, Then, After
    <3>3. d.schema \in TargetS BY <2>5 DEF TargetS
    <3>4. Does(ToS(d.cd, u), 0, Form(d, u), Counts(d, s, u)) BY <2>1, <3>3, UnitOn
    <3>5. QED BY <2>2, <2>4, <3>1, <3>2, <3>4, AfterDoes
  <2>6. CASE d.schema = "T2D"
    <3>1. Turn(c, r, x) = DMAP_T2D(d.cd, r, x) BY <2>6, TurnOf
    <3>2. DMAP_T2D(d.cd, r, x) = After(PutUnit(r), ToDShifted(d.cd, u, x))
      BY <2>1, <2>2, <2>3, Zenon DEF DMAP_T2D, FromT, Then, After
    <3>3. d.schema \in {"U2D", "T2D"} BY <2>6
    <3>4. Does(ToDShifted(d.cd, u, x), 0, Form(d, u), Counts(d, s, u)) BY <2>1, <3>3, UnitOn
    <3>5. QED BY <2>2, <2>4, <3>1, <3>2, <3>4, AfterDoes
  <2>7. CASE d.schema = "T2E"
    <3>1. Turn(c, r, x) = DMAP_T2E(d.cd, r, x) BY <2>7, TurnOf
    <3>2. DMAP_T2E(d.cd, r, x) = After(PutUnit(r), ToE(d.cd, u, x))
      BY <2>1, <2>2, <2>3, Zenon DEF DMAP_T2E, FromT, Then, After
    <3>3. d.schema \in TargetE BY <2>7 DEF TargetE
    <3>4. Does(ToE(d.cd, u, x), 0, Form(d, u), Counts(d, s, u)) BY <2>1, <3>3, UnitOn
    <3>5. QED BY <2>2, <2>4, <3>1, <3>2, <3>4, AfterDoes
  <2>8. CASE d.schema = "T28"
    <3>1. Turn(c, r, x) = DMAP_T28(r) BY <2>8, TurnOf
    <3>2. DMAP_T28(r) = Then(PutUnit(r), PutPlain8) BY <2>1, <2>2, Zenon DEF DMAP_T28
    <3>3. Then(PutUnit(r), PutPlain8) = Put(2, Utf8(u), 0) BY <2>1, <2>2, ThenPlain8
    <3>4. d.schema \in Target8 BY <2>8 DEF Target8
    <3>5. Form(d, u) = Utf8(u) BY <3>4, FormOfUnicode
    <3>6. 0 \in Counts(d, s, u) BY <2>8, NothingCounted
    <3>7. QED BY <2>2, <3>1, <3>2, <3>3, <3>5, <3>6, Zenon DEF Does
  <2>9. QED BY <2>5, <2>6, <2>7, <2>8 DEF SourceT
<1>5. QED BY <1>3, <1>4

LEMMA LengthsOf ==
  /\ \A a : Len(<<a>>) = 1 /\ <<a>>[1] = a
  /\ \A a, b : Len(<<a, b>>) = 2 /\ <<a, b>>[1] = a /\ <<a, b>>[2] = b
  /\ \A a, b, c : Len(<<a, b, c>>) = 3 /\ <<a, b, c>>[1] = a /\ <<a, b, c>>[2] = b /\ <<a, b, c>>[3] = c
OBVIOUS

LEMMA BeginsOne == ASSUME NEW r, NEW s, Len(s) = 1, Begins(r, s)
  PROVE  r[1] = s[1]
BY DEF Begins
LEMMA BeginsTwo == ASSUME NEW r, NEW s, Len(s) = 2, Begins(r, s)
  PROVE  ~(Len(r) < 2) /\ r[1] = s[1] /\ r[2] = s[2]
BY DEF Begins
LEMMA BeginsThree == ASSUME NEW r, NEW s, Len(s) = 3, Begins(r, s)
  PROVE  ~(Len(r) < 3) /\ r[1] = s[1] /\ r[2] = s[2] /\ r[3] = s[3]
BY DEF Begins

LEMMA TrailsTo ==
  ASSUME NEW r, Len(r) \in Nat
  PROVE  /\ Len(r) >= 3 => (TrailsUpto(r, 3) <=> Trail(r[2]) /\ Trail(r[3]))
         /\ Len(r) >= 4 => (TrailsUpto(r, 4) <=> Trail(r[2]) /\ Trail(r[3]) /\ Trail(r[4]))
<1>1. 2 .. 3 = {2, 3} /\ 2 .. 4 = {2, 3, 4} OBVIOUS
<1>2. QED BY <1>1 DEF TrailsUpto

(* A unit in one, two or three bytes, decoded.                             *)
LEMMA TwoDecoded ==
  ASSUME NEW u \in Nat, 128 <= u, u < 2048, NEW h, h = 192 + u \div 64, NEW t, t = 128 + (u % 64)
  PROVE  /\ LeadOf2(h) /\ ~Ascii(h) /\ h # 192 /\ h # 193 /\ Trail(t)
         /\ (h % 32) \div 4 = u \div 256 /\ ((h * 64) % 256) + (t % 64) = u % 256
<1>1. PICK q, m : q = u \div 64 /\ m = u % 64 OBVIOUS
<1>2. q \in 2 .. 31 /\ m \in 0 .. 63 /\ u = q * 64 + m BY <1>1, SMT
<1>3. h = 192 + q /\ t = 128 + m BY <1>1
<1>4. LeadOf2(h) /\ ~Ascii(h) /\ h # 192 /\ h # 193 /\ Trail(t)
  BY <1>2, <1>3, SMT DEF LeadOf2, Ascii, Trail
<1>5. (h % 32) \div 4 = u \div 256 BY <1>2, <1>3, SMT
<1>6. ((h * 64) % 256) + (t % 64) = u % 256 BY <1>2, <1>3, SMT
<1>7. QED BY <1>4, <1>5, <1>6

LEMMA ThreeDecoded ==
  ASSUME NEW u, IsWord(u), 2048 <= u, NEW h, h = 224 + u \div 4096,
         NEW t, t = 128 + ((u \div 64) % 64), NEW e, e = 128 + (u % 64)
  PROVE  /\ LeadOf3(h) /\ ~LeadOf2(h) /\ ~Ascii(h) /\ Trail(t) /\ Trail(e) /\ ~(h = 224 /\ t < 160)
         /\ h < 240
         /\ ((h * 16) % 256) + (t % 64) \div 4 = u \div 256
         /\ ((t * 64) % 256) + (e % 64) = u % 256
<1>0. u \in Nat /\ u < 65536 BY DEF IsWord
<1>1. PICK p, q, m : p = u \div 4096 /\ q = (u \div 64) % 64 /\ m = u % 64 OBVIOUS
<1>2. p \in 0 .. 15 /\ q \in 0 .. 63 /\ m \in 0 .. 63 /\ u = p * 4096 + q * 64 + m
  BY <1>0, <1>1, SMT
<1>3. h = 224 + p /\ t = 128 + q /\ e = 128 + m BY <1>1
<1>4. LeadOf3(h) /\ ~LeadOf2(h) /\ ~Ascii(h) /\ Trail(t) /\ Trail(e) /\ ~(h = 224 /\ t < 160) /\ h < 240
  BY <1>2, <1>3, SMT DEF LeadOf3, LeadOf2, Ascii, Trail
<1>5. ((h * 16) % 256) + (t % 64) \div 4 = u \div 256 BY <1>2, <1>3, SMT
<1>6. ((t * 64) % 256) + (e % 64) = u % 256 BY <1>2, <1>3, SMT
<1>7. QED BY <1>4, <1>5, <1>6

LEMMA From8Decodes ==
  ASSUME NEW u, IsWord(u), NEW r, Begins(r, Utf8(u))
  PROVE  From8(r) = Put(Len(Utf8(u)), Unit(u), 0) /\ r[1] < 240
<1>0. u \in Nat /\ u < 65536 /\ ~Supplementary(u) BY UnitIsBytes DEF IsWord
<1>1. Len(r) \in Nat BY DEF Begins
<1>2. CASE u < 128
  <2>1. Utf8(u) = <<u>> BY <1>2 DEF Utf8
  <2>2. PICK s : s = Utf8(u) OBVIOUS
  <2>3. Len(s) = 1 /\ s[1] = u BY <2>1, <2>2, LengthsOf
  <2>4. Begins(r, s) BY <2>2
  <2>5. r[1] = u BY <2>3, <2>4, BeginsOne
  <2>6. Ascii(r[1]) /\ r[1] < 240 BY <1>0, <1>2, <2>5 DEF Ascii
  <2>7. Unit(u) = <<0, r[1]>>
    <3>1. u \div 256 = 0 /\ u % 256 = u BY <1>0, <1>2, SMT
    <3>2. QED BY <2>5, <3>1, Zenon DEF Unit
  <2>8. From8(r) = Put(1, <<0, r[1]>>, 0) BY <2>6, Zenon DEF From8
  <2>9. QED BY <2>2, <2>3, <2>6, <2>7, <2>8, Zenon
<1>3. CASE ~(u < 128) /\ u < 2048
  <2>1. Utf8(u) = <<192 + u \div 64, 128 + (u % 64)>>
    <3>1. u \div 1 = u BY <1>0, SMT
    <3>2. Utf8(u) = <<192 + u \div 64, Continuation(u, 1)>> BY <1>3 DEF Utf8
    <3>3. QED BY <3>1, <3>2 DEF Continuation
  <2>2. PICK s, h, t : s = Utf8(u) /\ h = 192 + u \div 64 /\ t = 128 + (u % 64) OBVIOUS
  <2>3. Len(s) = 2 /\ s[1] = h /\ s[2] = t BY <2>1, <2>2, LengthsOf
  <2>4. Begins(r, s) BY <2>2
  <2>5. ~(Len(r) < 2) /\ r[1] = h /\ r[2] = t BY <2>3, <2>4, BeginsTwo
  <2>6. /\ LeadOf2(h) /\ ~Ascii(h) /\ h # 192 /\ h # 193 /\ Trail(t)
        /\ (h % 32) \div 4 = u \div 256 /\ ((h * 64) % 256) + (t % 64) = u % 256
    BY <1>0, <1>3, <2>2, TwoDecoded
  <2>7. Unit2(r) = Unit(u) BY <2>5, <2>6, Zenon DEF Unit2, Unit
  <2>8. ~Overlong2(r) BY <2>5, <2>6 DEF Overlong2
  <2>9. r[1] < 240 BY <2>5, <2>6, SMT DEF LeadOf2
  <2>10. LeadOf2(r[1]) /\ ~Ascii(r[1]) /\ Trail(r[2]) BY <2>5, <2>6, Zenon
  <2>11. From8(r) = Put(2, Unit2(r), 0) BY <2>5, <2>8, <2>10, Zenon DEF From8
  <2>12. QED BY <2>2, <2>3, <2>7, <2>9, <2>11, Zenon
<1>4. CASE ~(u < 128) /\ ~(u < 2048)
  <2>1. Utf8(u) = <<224 + u \div 4096, 128 + ((u \div 64) % 64), 128 + (u % 64)>>
    <3>1. u \div 1 = u BY <1>0, SMT
    <3>2. Utf8(u) = <<224 + u \div 4096, Continuation(u, 64), Continuation(u, 1)>>
      BY <1>0, <1>4 DEF Utf8
    <3>3. QED BY <3>1, <3>2 DEF Continuation
  <2>2. PICK s, h, t, e : s = Utf8(u) /\ h = 224 + u \div 4096 /\ t = 128 + ((u \div 64) % 64) /\ e = 128 + (u % 64)
    OBVIOUS
  <2>3. Len(s) = 3 /\ s[1] = h /\ s[2] = t /\ s[3] = e BY <2>1, <2>2, LengthsOf
  <2>4. Begins(r, s) BY <2>2
  <2>5. ~(Len(r) < 3) /\ r[1] = h /\ r[2] = t /\ r[3] = e BY <2>3, <2>4, BeginsThree
  <2>6. /\ LeadOf3(h) /\ ~LeadOf2(h) /\ ~Ascii(h) /\ Trail(t) /\ Trail(e) /\ ~(h = 224 /\ t < 160)
        /\ h < 240
        /\ ((h * 16) % 256) + (t % 64) \div 4 = u \div 256
        /\ ((t * 64) % 256) + (e % 64) = u % 256
    BY <1>0, <1>4, <2>2, ThreeDecoded
  <2>7. Unit3(r) = Unit(u)
    <3>1. ((r[1] * 16) % 256) + (r[2] % 64) \div 4 = u \div 256 BY <2>5, <2>6
    <3>2. ((r[2] * 64) % 256) + (r[3] % 64) = u % 256 BY <2>5, <2>6
    <3>3. QED BY <3>1, <3>2, SMT DEF Unit3, Unit
  <2>8. ~Overlong3(r) BY <2>5, <2>6, Zenon DEF Overlong3
  <2>9. r[1] < 240 BY <2>5, <2>6
  <2>10. LeadOf3(r[1]) /\ ~LeadOf2(r[1]) /\ ~Ascii(r[1]) BY <2>5, <2>6, Zenon
  <2>11. TrailsUpto(r, 3)
    <3>1. Len(r) >= 3 BY <1>1, <2>5
    <3>2. Trail(r[2]) /\ Trail(r[3]) BY <2>5, <2>6, Zenon
    <3>3. QED BY <1>1, <3>1, <3>2, TrailsTo
  <2>12. From8(r) = Put(3, Unit3(r), 0) BY <2>5, <2>8, <2>10, <2>11, Zenon DEF From8
  <2>13. Len(Utf8(u)) = 3 BY <2>2, <2>3
  <2>14. QED BY <2>7, <2>9, <2>12, <2>13
<1>5. QED BY <1>2, <1>3, <1>4

(* Four bytes of UTF-8, as the loops read them.                            *)
IsFourOf(r, p, a, b, e) == r[1] = First8(p) /\ r[2] = Second8(p, a) /\ r[3] = Third8(a, b, e) /\ r[4] = Fourth8(e)

LEMMA FourBits ==
  ASSUME NEW p, NEW a, NEW b, NEW e, PairParts(p, a, b, e), NEW r, IsFourOf(r, p, a, b, e)
  PROVE  /\ ~(r[1] < 240) /\ ~(r[1] > 244) /\ ~(r[1] >= 248) /\ Masked(r[1]) = r[1]
         /\ Trail(r[2]) /\ Trail(r[3]) /\ Trail(r[4])
         /\ ~(r[1] = 240 /\ r[2] < 144) /\ ~(r[1] = 244 /\ r[2] > 143)
         /\ PairOf8(r[1], r) = <<First16(p), Second16(p, a), Third16(b), e>>
<1>0. p \in 1 .. 16 /\ a \in 0 .. 63 /\ b \in 0 .. 3 /\ e \in 0 .. 255 BY DEF PairParts
<1>1. PICK q, m, x, y, v, w : /\ q = p \div 4 /\ m = p % 4 /\ x = a \div 4 /\ y = a % 4
                              /\ v = e \div 64 /\ w = e % 64
  OBVIOUS
<1>2. /\ q \in 0 .. 4 /\ m \in 0 .. 3 /\ p = q * 4 + m
      /\ x \in 0 .. 15 /\ y \in 0 .. 3 /\ a = x * 4 + y
      /\ v \in 0 .. 3 /\ w \in 0 .. 63 /\ e = v * 64 + w
  BY <1>0, <1>1, SMT
<1>3. PICK h, t, f, g : h = r[1] /\ t = r[2] /\ f = r[3] /\ g = r[4] OBVIOUS
<1>4. h = 240 + q /\ t = 128 + (m * 16 + x) /\ f = 128 + (y * 16 + (b * 4 + v)) /\ g = 128 + w
  <2>1. h = First8(p) /\ t = Second8(p, a) /\ f = Third8(a, b, e) /\ g = Fourth8(e)
    BY <1>3, Zenon DEF IsFourOf
  <2>2. QED BY <1>1, <2>1 DEF First8, Second8, Third8, Fourth8
<1>5. ~(h < 240) /\ ~(h > 244) /\ ~(h >= 248) BY <1>2, <1>4, SMT
<1>6. Masked(h) = h BY <1>5, Zenon DEF Masked
<1>7. Trail(t) /\ Trail(f) /\ Trail(g) BY <1>0, <1>2, <1>4, SMT DEF Trail
<1>8. ~(h = 240 /\ t < 144) /\ ~(h = 244 /\ t > 143) BY <1>0, <1>2, <1>4, SMT
<1> DEFINE wwww == (h % 8) * 4 + (t % 64) \div 16 - 1
<1>9. wwww = p - 1 BY <1>0, <1>2, <1>4, SMT
<1>10. PairOf8(h, r) = <<(wwww % 16) \div 4 + 216,
                         ((wwww * 64) % 256) + (t % 16) * 4 + ((f \div 16) % 4),
                         ((f \div 4) % 4) + 220,
                         ((f * 64) % 256) + (g % 64)>>
  BY <1>3, SMT DEF PairOf8
<1> HIDE DEF wwww
<1>11. (wwww % 16) \div 4 + 216 = First16(p) BY <1>0, <1>9, SMT DEF First16
<1>12. ((wwww * 64) % 256) + (t % 16) * 4 + ((f \div 16) % 4) = Second16(p, a)
  <2>1. (wwww * 64) % 256 = ((p - 1) % 4) * 64 BY <1>0, <1>9, SMT
  <2>2. t % 16 = x /\ (f \div 16) % 4 = y BY <1>0, <1>2, <1>4, SMT
  <2>3. PICK k : k = (p - 1) % 4 OBVIOUS
  <2>4. k \in 0 .. 3 BY <1>0, <2>3, SMT
  <2>5. k * 64 + x * 4 + y = k * 64 + a BY <1>2, <2>4, SMT
  <2>6. QED BY <2>1, <2>2, <2>3, <2>5 DEF Second16
<1>13. ((f \div 4) % 4) + 220 = Third16(b) BY <1>0, <1>2, <1>4, SMT DEF Third16
<1>14. ((f * 64) % 256) + (g % 64) = e BY <1>0, <1>2, <1>4, SMT
<1>15. PairOf8(h, r) = <<First16(p), Second16(p, a), Third16(b), e>>
  BY <1>10, <1>11, <1>12, <1>13, <1>14
<1>16. QED BY <1>3, <1>5, <1>6, <1>7, <1>8, <1>15

LEMMA FourRead ==
  ASSUME NEW u, IsScalar(u), Supplementary(u), NEW r, Begins(r, Utf8(u))
  PROVE  /\ Len(Utf8(u)) = 4 /\ ~(Len(r) < 4) /\ TrailsUpto(r, 4)
         /\ ~(r[1] < 240) /\ ~(r[1] > 244) /\ ~(r[1] >= 248) /\ Masked(r[1]) = r[1]
         /\ ~(r[1] = 240 /\ r[2] < 144) /\ ~(r[1] = 244 /\ r[2] > 143)
         /\ PairOf8(r[1], r) = Utf16(u)
<1>1. PICK p, a, b, e : PairParts(p, a, b, e) /\ u = PairValue(p, a, b, e) BY PartsOfPair
<1>2. /\ Utf8(u) = <<First8(p), Second8(p, a), Third8(a, b, e), Fourth8(e)>>
      /\ Utf16(u) = <<First16(p), Second16(p, a), Third16(b), e>>
  BY <1>1, PairForms
<1>3. PICK s : s = Utf8(u) OBVIOUS
<1>4. Len(s) = 4 /\ s[1] = First8(p) /\ s[2] = Second8(p, a) /\ s[3] = Third8(a, b, e) /\ s[4] = Fourth8(e)
  <2>1. s = <<First8(p), Second8(p, a), Third8(a, b, e), Fourth8(e)>> BY <1>2, <1>3
  <2>2. QED BY <2>1, FourBytes
<1>5. ~(Len(r) < 4) /\ r[1] = s[1] /\ r[2] = s[2] /\ r[3] = s[3] /\ r[4] = s[4]
  <2>1. Begins(r, s) BY <1>3
  <2>2. QED BY <1>4, <2>1, BeginsFour, Zenon
<1>6. IsFourOf(r, p, a, b, e) BY <1>4, <1>5, Zenon DEF IsFourOf
<1>7. /\ ~(r[1] < 240) /\ ~(r[1] > 244) /\ ~(r[1] >= 248) /\ Masked(r[1]) = r[1]
      /\ Trail(r[2]) /\ Trail(r[3]) /\ Trail(r[4])
      /\ ~(r[1] = 240 /\ r[2] < 144) /\ ~(r[1] = 244 /\ r[2] > 143)
      /\ PairOf8(r[1], r) = <<First16(p), Second16(p, a), Third16(b), e>>
  BY <1>1, <1>6, FourBits
<1>8. TrailsUpto(r, 4)
  <2>1. Len(r) \in Nat BY DEF Begins
  <2>2. Len(r) >= 4 BY <1>5, <2>1
  <2>3. QED BY <1>7, <2>1, <2>2, TrailsTo
<1>9. PairOf8(r[1], r) = Utf16(u) BY <1>2, <1>7
<1>10. Len(Utf8(u)) = 4 BY <1>3, <1>4
<1>11. QED BY <1>5, <1>7, <1>8, <1>9, <1>10

(* The lead of a pair, by itself.                                          *)
LEMMA LeadIsLeads == \A w : Lead(w) <=> w \in Leads
BY SMT DEF Lead, Leads

LEMMA LeadOfPair == ASSUME NEW u, IsScalar(u), Supplementary(u)
  PROVE  Utf16(u)[1] * 256 + Utf16(u)[2] \in Leads
<1>1. PICK p, a, b, e : PairParts(p, a, b, e) /\ u = PairValue(p, a, b, e) BY PartsOfPair
<1>2. Utf16(u) = <<First16(p), Second16(p, a), Third16(b), e>> BY <1>1, PairForms
<1>3. PICK r : r = Utf16(u) OBVIOUS
<1>4. IsPairOf(r, p, a, b, e)
  <2>1. r = <<First16(p), Second16(p, a), Third16(b), e>> BY <1>2, <1>3
  <2>2. QED BY <2>1, FourBytes DEF IsPairOf
<1>5. Lead(UnitAt(r, 1)) BY <1>1, <1>4, PairBits
<1>6. UnitAt(r, 1) = r[1] * 256 + r[2]
  <2>1. 1 + 1 = 2 OBVIOUS
  <2>2. QED BY <2>1, Zenon DEF UnitAt
<1>7. r[1] * 256 + r[2] \in Leads BY <1>5, <1>6, LeadIsLeads, Zenon
<1>8. QED BY <1>3, <1>7

LEMMA LeadsAreLeads == ASSUME NEW u \in Leads PROVE u # 0 /\ IsWord(u)
BY SMT DEF Leads, IsWord

(* A page has no supplementary characters.                                 *)
LEMMA MissingForm ==
  ASSUME NEW d, d.schema \in TargetS \cup TargetD \cup TargetE, NEW s, NEW u, Supplementary(u), IsScalar(u)
  PROVE  Form(d, u) = <<d.cd.subS>> /\ 1 \in Counts(d, s, u)
<1>1. u # 0 BY SMT DEF Supplementary
<1>2. Missing(d, u) BY Zenon DEF Missing
<1>3. Form(d, u) = <<d.cd.subS>> BY <1>1, <1>2, PageForm, Zenon DEF FormInPage
<1>4. Substituted(d, s, u) BY <1>1, <1>2, PageForm, Zenon
<1>5. QED BY <1>3, <1>4, CountsHold

(* One turn with a character of UTF-8.                                     *)
LEMMA WordOf8Turn ==
  ASSUME NEW d, d.schema \in Source8, TablesFit(d), NEW c, c.schema = d.schema, c.cd = d.cd,
         NEW u \in Characters, ~Supplementary(u), NEW s, s = Utf8(u), NEW r, Begins(r, s), NEW x
  PROVE  Does(Turn(c, r, x), Len(s), Form(d, u), Counts(d, s, u))
<1>1. IsScalar(u) BY CharactersAssumption
<1>2. IsWord(u) /\ Utf16(u) = Unit(u) BY <1>1, PlainScalar
<1>3. From8(r) = Put(Len(s), Unit(u), 0) /\ r[1] < 240 BY <1>2, From8Decodes
<1>4. From8(r).kind = "go" /\ From8(r).bytes[1] * 256 + From8(r).bytes[2] = u
  BY <1>2, <1>3, UnitGoes
<1>5. Counts(d, s, u) \in SUBSET Nat BY CountsHold
<1>6. CASE d.schema = "82S"
  <2>1. Turn(c, r, x) = DMAP_82S(d.cd, r) BY <1>6, TurnOf
  <2>2. DMAP_82S(d.cd, r) = After(From8(r), ToS(d.cd, u))
    BY <1>3, <1>4, Zenon DEF DMAP_82S, Then, After
  <2>3. d.schema \in TargetS BY <1>6 DEF TargetS
  <2>4. Does(ToS(d.cd, u), 0, Form(d, u), Counts(d, s, u)) BY <1>2, <2>3, UnitOn
  <2>5. QED BY <1>3, <1>5, <2>1, <2>2, <2>4, AfterDoes
<1>7. CASE d.schema = "82D"
  <2>1. Turn(c, r, x) = DMAP_82D(d.cd, r) BY <1>7, TurnOf
  <2>2. DMAP_82D(d.cd, r) = After(From8(r), ToD(d.cd, u, U2D(d.cd, u)[1], u))
    <3> DEFINE To(w) == ToD(d.cd, w, U2D(d.cd, w)[1], w)
    <3>1. DMAP_82D(d.cd, r) = Then(From8(r), To) BY <1>3, Zenon DEF DMAP_82D
    <3> HIDE DEF To
    <3>2. Then(From8(r), To) = After(From8(r), To(u)) BY <1>4, Zenon DEF Then, After
    <3>3. DMAP_82D(d.cd, r) = After(From8(r), To(u)) BY <3>1, <3>2, Zenon
    <3>4. QED BY <3>3 DEF To
  <2>3. Does(ToD(d.cd, u, U2D(d.cd, u)[1], u), 0, Form(d, u), Counts(d, s, u))
    BY <1>2, <1>7, UnitOn
  <2>4. QED BY <1>3, <1>5, <2>1, <2>2, <2>3, AfterDoes
<1>8. CASE d.schema = "82E"
  <2>1. Turn(c, r, x) = DMAP_82E(d.cd, r, x) BY <1>8, TurnOf
  <2>2. DMAP_82E(d.cd, r, x) = After(From8(r), ToE(d.cd, u, x))
    BY <1>3, <1>4, Zenon DEF DMAP_82E, Then, After
  <2>3. d.schema \in TargetE BY <1>8 DEF TargetE
  <2>4. Does(ToE(d.cd, u, x), 0, Form(d, u), Counts(d, s, u)) BY <1>2, <2>3, UnitOn
  <2>5. QED BY <1>3, <1>5, <2>1, <2>2, <2>4, AfterDoes
<1>9. CASE d.schema = "82U"
  <2>1. Turn(c, r, x) = DMAP_82U(d.cd, r) BY <1>9, TurnOf
  <2>2. DMAP_82U(d.cd, r) = From8(r) BY <1>3, Zenon DEF DMAP_82U
  <2>3. d.schema \in TargetU BY <1>9 DEF TargetU
  <2>4. Form(d, u) = Unit(u) BY <1>2, <2>3, FormOfUnicode
  <2>5. 0 \in Counts(d, s, u) BY <1>9, NothingCounted
  <2>6. QED BY <1>3, <2>1, <2>2, <2>4, <2>5, Zenon DEF Does
<1>10. QED BY <1>6, <1>7, <1>8, <1>9 DEF Source8

LEMMA FourOf8Turn ==
  ASSUME NEW d, d.schema \in Source8, TablesFit(d), NEW c, c.schema = d.schema, c.cd = d.cd,
         NEW u \in Characters, Supplementary(u), NEW s, s = Utf8(u), NEW r, Begins(r, s), NEW x,
         ~(d.schema = "82U" /\ d.cd.toCcsid = Ucs2)
  PROVE  Does(Turn(c, r, x), Len(s), Form(d, u), Counts(d, s, u))
<1>1. IsScalar(u) BY CharactersAssumption
<1>2. /\ Len(s) = 4 /\ ~(Len(r) < 4) /\ TrailsUpto(r, 4)
      /\ ~(r[1] < 240) /\ ~(r[1] > 244) /\ ~(r[1] >= 248) /\ Masked(r[1]) = r[1]
      /\ ~(r[1] = 240 /\ r[2] < 144) /\ ~(r[1] = 244 /\ r[2] > 143)
      /\ PairOf8(r[1], r) = Utf16(u)
  <2>1. Begins(r, Utf8(u)) OBVIOUS
  <2>2. QED BY <1>1, <2>1, FourRead
<1>3. \A o : Four8(r[1], r, o) = o BY <1>2 DEF Four8
<1>4. CASE d.schema = "82S"
  <2>1. Turn(c, r, x) = DMAP_82S(d.cd, r) BY <1>4, TurnOf
  <2> DEFINE lead == Utf16(u)[1] * 256 + Utf16(u)[2]
             o == Put(4, Utf16(u), 0)
  <2>2. o.kind = "go" /\ o.bytes = Utf16(u) BY PutFields
  <2>3. o.bytes[1] * 256 + o.bytes[2] = lead BY <2>2, Zenon
  <2>4. lead \in Leads BY <1>1, LeadOfPair
  <2> HIDE DEF lead, o
  <2>5. DMAP_82S(d.cd, r) = After(o, ToS(d.cd, lead))
    <3>1. Four8(Masked(r[1]), r, After(Put(4, PairOf8(Masked(r[1]), r), 0), ToS(d.cd, lead))) = After(o, ToS(d.cd, lead))
      BY <1>2, <1>3, Zenon DEF o
    <3>2. Put(4, PairOf8(Masked(r[1]), r), 0) = o BY <1>2, Zenon DEF o
    <3>3. ~(Masked(r[1]) > 244) BY <1>2, Zenon
    <3>4. DMAP_82S(d.cd, r) = Four8(Masked(r[1]), r, Then(o, LAMBDA w : ToS(d.cd, w)))
      BY <1>2, <3>2, <3>3, Zenon DEF DMAP_82S
    <3>5. Then(o, LAMBDA w : ToS(d.cd, w)) = After(o, ToS(d.cd, lead))
      BY <2>2, <2>3, Zenon DEF Then, After
    <3>6. Four8(Masked(r[1]), r, Then(o, LAMBDA w : ToS(d.cd, w))) = After(o, ToS(d.cd, lead))
      BY <1>2, <1>3, <3>5, Zenon
    <3>7. QED BY <3>4, <3>6, Zenon
  <2>6. ToS(d.cd, lead) = Put(0, <<d.cd.subS>>, 1)
    <3>1. lead # 0 BY <2>4, LeadsAreLeads
    <3>2. lead # d.cd.srcSubS /\ U2S(d.cd, lead) \in {0, d.cd.subS}
      BY <1>4, <2>4, Zenon DEF TablesFit
    <3>3. CASE U2S(d.cd, lead) = 0 BY <3>1, <3>3, Zenon DEF ToS
    <3>4. CASE U2S(d.cd, lead) # 0
      <4>1. U2S(d.cd, lead) = d.cd.subS BY <3>2, <3>4
      <4>2. Count(U2S(d.cd, lead) = d.cd.subS /\ lead # d.cd.srcSubS) = 1
        BY <3>2, <4>1, Zenon DEF Count
      <4>3. ToS(d.cd, lead) = Put(0, <<U2S(d.cd, lead)>>, Count(U2S(d.cd, lead) = d.cd.subS /\ lead # d.cd.srcSubS))
        BY <3>1, <3>4, Zenon DEF ToS
      <4>4. QED BY <4>1, <4>2, <4>3, Zenon
    <3>5. QED BY <3>3, <3>4
  <2>7. d.schema \in TargetS \cup TargetD \cup TargetE BY <1>4 DEF TargetS
  <2>8. Form(d, u) = <<d.cd.subS>> /\ 1 \in Counts(d, s, u) BY <1>1, <2>7, MissingForm
  <2>9. Does(ToS(d.cd, lead), 0, Form(d, u), Counts(d, s, u)) BY <2>6, <2>8, Zenon DEF Does
  <2>10. Counts(d, s, u) \in SUBSET Nat BY CountsHold
  <2>11. o = Put(4, Utf16(u), 0) BY DEF o
  <2>12. Does(After(o, ToS(d.cd, lead)), 4, Form(d, u), Counts(d, s, u))
    BY <2>9, <2>10, <2>11, AfterDoes
  <2>13. QED BY <1>2, <2>1, <2>5, <2>12, Zenon
<1>5. CASE d.schema \in {"82D", "82E"}
  <2>1. Turn(c, r, x) = FourToPage(d.cd, r)
    <3>1. CASE d.schema = "82D"
      <4>1. Turn(c, r, x) = DMAP_82D(d.cd, r) BY <3>1, TurnOf
      <4>2. QED BY <1>2, <4>1, Zenon DEF DMAP_82D
    <3>2. CASE d.schema = "82E"
      <4>1. Turn(c, r, x) = DMAP_82E(d.cd, r, x) BY <3>2, TurnOf
      <4>2. QED BY <1>2, <4>1, Zenon DEF DMAP_82E
    <3>3. QED BY <1>5, <3>1, <3>2
  <2>2. FourToPage(d.cd, r) = Put(4, <<d.cd.subS>>, 1) BY <1>2, <1>3, Zenon DEF FourToPage
  <2>3. d.schema \in TargetS \cup TargetD \cup TargetE BY <1>5 DEF TargetD, TargetE
  <2>4. Form(d, u) = <<d.cd.subS>> /\ 1 \in Counts(d, s, u) BY <1>1, <2>3, MissingForm
  <2>5. QED BY <1>2, <2>1, <2>2, <2>4, Zenon DEF Does
<1>6. CASE d.schema = "82U"
  <2>1. Turn(c, r, x) = DMAP_82U(d.cd, r) BY <1>6, TurnOf
  <2> DEFINE o == IF Masked(r[1]) = 244 /\ r[2] > 143 THEN Stop("EINVAL") ELSE Put(4, PairOf8(Masked(r[1]), r), 0)
  <2>2. DMAP_82U(d.cd, r) = Four8(Masked(r[1]), r, o)
    <3>1. ~(Masked(r[1]) > 244) BY <1>2, Zenon
    <3>2. QED BY <1>2, <1>6, <3>1, Zenon DEF DMAP_82U
  <2>3. o = Put(4, Utf16(u), 0) BY <1>2, Zenon
  <2> HIDE DEF o
  <2>4. DMAP_82U(d.cd, r) = Put(4, Utf16(u), 0) BY <1>2, <1>3, <2>2, <2>3, Zenon
  <2>5. d.schema \in TargetU BY <1>6 DEF TargetU
  <2>6. Form(d, u) = Utf16(u) BY <2>5, FormOfUnicode
  <2>7. 0 \in Counts(d, s, u) BY <1>6, NothingCounted
  <2>8. QED BY <1>2, <2>1, <2>4, <2>6, <2>7, Zenon DEF Does
<1>7. QED BY <1>4, <1>5, <1>6 DEF Source8

LEMMA AllSchemas == ASSUME NEW d, d.schema \in Schemas, d.schema # "U2U", d.schema # "S2S"
  PROVE  d.schema \in SourcePage \/ d.schema \in SourceU \/ d.schema \in SourceT \/ d.schema \in Source8
BY DEF Schemas, SourcePage, SourceS, SourceD, SourceE, SourceU, SourceT, Source8

(* For every table of a descriptor, one turn of its loop of myconv_dmap     *)
(* that finds a character of the text reads that character and no more,     *)
(* writes the form that Encodings or the page's tables give it, and counts  *)
(* a substitution as it should (T2S loses its place behind a pair).         *)
THEOREM OkTurn ==
  ASSUME NEW d, d.schema \in Schemas, d.schema # "U2U", TablesFit(d),
         NEW c, c.schema = d.schema, c.cd = d.cd,
         NEW i, IsItem(d, i), i.is = "ok", d.schema = "T2S" => Len(i.src) # 4,
         NEW r, Begins(r, i.src), NEW x
  PROVE  Does(Turn(c, r, x), Len(i.src), i.dst, i.subs)
<1>1. i.src \in Seq(Octets) /\ i.src # <<>> /\ Converts(d, i)
  <2>1. i.src \in Seq(0 .. 255) /\ i.src # <<>> BY Zenon DEF IsItem
  <2>2. /\ CASE i.is = "ok"      -> Converts(d, i)
             [] i.is = "bad"     -> NoCharacter(d, i.src)
             [] i.is = "lenient" -> Tolerated(d, i.src)
    BY Zenon DEF IsItem
  <2>3. i.is # "bad" /\ i.is # "lenient" OBVIOUS
  <2>4. QED BY <2>1, <2>2, <2>3, Zenon DEF Octets
<1>2. CASE d.schema = "S2S"
  <2> DEFINE b == i.src[1]
             to == IF b = 0 THEN 0 ELSE S2S(d.cd, b)
  <2>1. /\ Len(i.src) = 1
        /\ b # 0 => to # 0
        /\ i.dst = <<to>>
        /\ Count(b # 0 /\ to = d.cd.subS /\ b # d.cd.srcSubS) \in i.subs
    BY <1>1, <1>2, Zenon DEF Converts
  <2>2. Turn(c, r, x) = DMAP_S2S(d.cd, r) BY <1>2, TurnOf
  <2>3. r[1] = b BY <1>1, BeginsWith
  <2>4. CASE b = 0
    <3>1. DMAP_S2S(d.cd, r) = Put(1, << 0 >>, 0) BY <2>3, <2>4, Zenon DEF DMAP_S2S
    <3>2. i.dst = << 0 >> BY <2>1, <2>4, Zenon
    <3>3. Count(b # 0 /\ to = d.cd.subS /\ b # d.cd.srcSubS) = 0 BY <2>4, Zenon DEF Count
    <3>4. 0 \in i.subs BY <2>1, <3>3, Zenon
    <3>5. QED BY <2>1, <2>2, <3>1, <3>2, <3>4, Zenon DEF Does
  <2>5. CASE b # 0
    <3>1. to = S2S(d.cd, b) BY <2>5, Zenon
    <3>2. DMAP_S2S(d.cd, r) = Put(1, <<S2S(d.cd, b)>>, Count(S2S(d.cd, b) = d.cd.subS /\ b # d.cd.srcSubS))
      BY <2>1, <2>3, <2>5, <3>1, Zenon DEF DMAP_S2S
    <3> HIDE DEF b, to
    <3>3. Count(b # 0 /\ to = d.cd.subS /\ b # d.cd.srcSubS) = Count(S2S(d.cd, b) = d.cd.subS /\ b # d.cd.srcSubS)
      BY <2>5, <3>1, Zenon DEF Count
    <3>4. Count(S2S(d.cd, b) = d.cd.subS /\ b # d.cd.srcSubS) \in i.subs BY <2>1, <3>3, Zenon
    <3>5. i.dst = <<S2S(d.cd, b)>> BY <2>1, <3>1, Zenon
    <3>6. QED BY <2>1, <2>2, <3>2, <3>4, <3>5, Zenon DEF Does
  <2>6. QED BY <2>4, <2>5
<1>3. CASE d.schema # "S2S"
  <2>1. PICK u \in Characters : /\ IsCharacter(d, i.src, u)
                                /\ i.dst = Form(d, u)
                                /\ Counts(d, i.src, u) \subseteq i.subs
    BY <1>1, <1>3, Zenon DEF Converts
  <2>2. IsScalar(u) BY CharactersAssumption
  <2>3. Does(Turn(c, r, x), Len(i.src), Form(d, u), Counts(d, i.src, u))
    <3>1. CASE d.schema \in SourcePage BY <1>1, <2>1, <2>2, <3>1, PageTurn, Zenon
    <3>2. CASE d.schema \in SourceU BY <2>1, <3>2, UcsTurn, Zenon
    <3>3. CASE d.schema \in SourceT BY <2>1, <3>3, UtfTurn, Zenon
    <3>4. CASE d.schema \in Source8
      <4>1. i.src = Utf8(u) /\ (Supplementary(u) => ~(d.schema = "82U" /\ d.cd.toCcsid = Ucs2))
        BY <2>1, <3>4, CharacterOf, Zenon
      <4>2. CASE Supplementary(u) BY <3>4, <4>1, <4>2, FourOf8Turn, Zenon
      <4>3. CASE ~Supplementary(u) BY <3>4, <4>1, <4>3, WordOf8Turn, Zenon
      <4>4. QED BY <4>2, <4>3
    <3>5. QED BY <1>3, <3>1, <3>2, <3>3, <3>4, AllSchemas, Zenon
  <2>4. QED BY <2>1, <2>3, Zenon DEF Does
<1>4. QED BY <1>2, <1>3

-----------------------------------------------------------------------------
(* What is no character: each loop stops.                                  *)

(* Beginnings of a text, as sequences of their own.                        *)
LEMMA Beginnings == ASSUME NEW r \in Seq(Octets), r # <<>>
  PROVE  /\ Len(r) \in Nat \ {0} /\ 1 \in 1 .. Len(r)
         /\ SubSeq(r, 1, 1) = <<r[1]>> /\ Len(SubSeq(r, 1, 1)) = 1 /\ SubSeq(r, 1, 1)[1] = r[1]
         /\ ~(Len(r) < 2) => /\ 2 \in 1 .. Len(r) /\ Len(SubSeq(r, 1, 2)) = 2
                             /\ SubSeq(r, 1, 2)[1] = r[1] /\ SubSeq(r, 1, 2)[2] = r[2]
         /\ ~(Len(r) < 3) => /\ 3 \in 1 .. Len(r) /\ Len(SubSeq(r, 1, 3)) = 3 /\ ~(Len(r) < 2)
                             /\ SubSeq(r, 1, 3)[1] = r[1] /\ SubSeq(r, 1, 3)[2] = r[2]
                             /\ SubSeq(r, 1, 3)[3] = r[3]
                             /\ SubSeq(SubSeq(r, 1, 3), 1, 2) = SubSeq(r, 1, 2)
         /\ ~(Len(r) < 4) => /\ 4 \in 1 .. Len(r) /\ Len(SubSeq(r, 1, 4)) = 4
                             /\ SubSeq(r, 1, 4)[1] = r[1] /\ SubSeq(r, 1, 4)[2] = r[2]
                             /\ SubSeq(r, 1, 4)[3] = r[3] /\ SubSeq(r, 1, 4)[4] = r[4]
<1>1. Len(r) \in Nat \ {0} /\ 1 \in 1 .. Len(r) OBVIOUS
<1>2. SubSeq(r, 1, 1) = <<r[1]>> /\ Len(SubSeq(r, 1, 1)) = 1 /\ SubSeq(r, 1, 1)[1] = r[1]
  <2>1. Len(SubSeq(r, 1, 1)) = 1 /\ SubSeq(r, 1, 1)[1] = r[1] /\ SubSeq(r, 1, 1) \in Seq(Octets) OBVIOUS
  <2>2. SubSeq(r, 1, 1) # <<>> BY <2>1
  <2>3. QED BY <2>1, <2>2, ByItsBytes
<1>3. ASSUME ~(Len(r) < 2)
      PROVE  /\ 2 \in 1 .. Len(r) /\ Len(SubSeq(r, 1, 2)) = 2
             /\ SubSeq(r, 1, 2)[1] = r[1] /\ SubSeq(r, 1, 2)[2] = r[2]
  BY <1>1, <1>3
<1>4. ASSUME ~(Len(r) < 3)
      PROVE  /\ 3 \in 1 .. Len(r) /\ Len(SubSeq(r, 1, 3)) = 3 /\ ~(Len(r) < 2)
             /\ SubSeq(r, 1, 3)[1] = r[1] /\ SubSeq(r, 1, 3)[2] = r[2]
             /\ SubSeq(r, 1, 3)[3] = r[3]
             /\ SubSeq(SubSeq(r, 1, 3), 1, 2) = SubSeq(r, 1, 2)
  <2>1. /\ 3 \in 1 .. Len(r) /\ Len(SubSeq(r, 1, 3)) = 3 /\ ~(Len(r) < 2)
        /\ SubSeq(r, 1, 3)[1] = r[1] /\ SubSeq(r, 1, 3)[2] = r[2]
        /\ SubSeq(r, 1, 3)[3] = r[3]
    BY <1>1, <1>4
  <2> DEFINE p == SubSeq(SubSeq(r, 1, 3), 1, 2)
             q == SubSeq(r, 1, 2)
  <2>2. p \in Seq(Octets) /\ q \in Seq(Octets) /\ Len(p) = 2 /\ Len(q) = 2 BY <1>1, <1>4
  <2>3. p[1] = r[1] /\ p[2] = r[2] /\ q[1] = r[1] /\ q[2] = r[2] BY <1>1, <1>4
  <2> HIDE DEF p, q
  <2>4. p # <<>> /\ q # <<>> BY <2>2, EmptyIsZero, Zenon
  <2>5. p = <<p[1], p[2]>> /\ q = <<q[1], q[2]>> BY <2>2, <2>4, ByItsBytes
  <2>6. p = q BY <2>3, <2>5, Zenon
  <2>7. QED BY <2>1, <2>6 DEF p, q
<1>5. ASSUME ~(Len(r) < 4)
      PROVE  /\ 4 \in 1 .. Len(r) /\ Len(SubSeq(r, 1, 4)) = 4
             /\ SubSeq(r, 1, 4)[1] = r[1] /\ SubSeq(r, 1, 4)[2] = r[2]
             /\ SubSeq(r, 1, 4)[3] = r[3] /\ SubSeq(r, 1, 4)[4] = r[4]
  BY <1>1, <1>5
<1>6. QED BY <1>1, <1>2, <1>3, <1>4, <1>5, Zenon

LEMMA Stops == ASSUME NEW e, NEW m, NEW l
  PROVE  Stop(e).kind = "error" /\ StopAfter(m, l, e).kind = "error"
BY DEF Stop, StopAfter

LEMMA ThenStops == ASSUME NEW o, o.kind = "error" PROVE Then(o, PutUtf8) = o
BY Zenon DEF Then

(* Where a page has no character, its loop stops.                          *)
LEMMA PageStops ==
  ASSUME NEW d, d.schema \in SourceS \cup SourceD, NEW r \in Seq(Octets), r # <<>>,
         \A n \in 1 .. Len(r) : ~InPage(d, SubSeq(r, 1, n)),
         NEW c, c.schema = d.schema, c.cd = d.cd, NEW x
  PROVE  Turn(c, r, x).kind = "error"
<1>0. d.schema \in SourcePage BY DEF SourcePage
<1>1. CASE d.schema \in SourceS
  <2>1. ~InS(d.cd, SubSeq(r, 1, 1)) BY <1>0, <1>1, Beginnings, SourceSchemas, Zenon DEF InPage
  <2>2. r[1] # 0 /\ D12U(d.cd, r[1]) = 0 BY <2>1, Beginnings, Zenon DEF InS
  <2>3. CASE d.schema = "S2U"
    <3>1. Turn(c, r, x) = DMAP_S2U(d.cd, r) BY <2>3, TurnOf
    <3>2. DMAP_S2U(d.cd, r) = Stop("unset") BY <2>2, Zenon DEF DMAP_S2U
    <3>3. QED BY <3>1, <3>2, Stops
  <2>4. CASE d.schema = "S28"
    <3>1. Turn(c, r, x) = DMAP_S28(d.cd, r) BY <2>4, TurnOf
    <3>2. DMAP_S28(d.cd, r) = Stop("EILSEQ") BY <2>2, Zenon DEF DMAP_S28
    <3>3. QED BY <3>1, <3>2, Stops
  <2>5. QED BY <1>1, <2>3, <2>4 DEF SourceS
<1>2. CASE d.schema \in SourceD
  <2>1. ~InD(d.cd, SubSeq(r, 1, 1)) BY <1>0, <1>2, Beginnings, SourceSchemas, Zenon DEF InPage
  <2>2. r[1] # 0 /\ D12U(d.cd, r[1]) = 0 BY <2>1, Beginnings, Zenon DEF InD, InS
  <2>3. ~(Len(r) < 2) => D22U(d.cd, r[1], r[2]) = 0
    <3>1. SUFFICES ASSUME ~(Len(r) < 2) PROVE D22U(d.cd, r[1], r[2]) = 0 OBVIOUS
    <3>2. ~InD(d.cd, SubSeq(r, 1, 2))
      BY <1>0, <1>2, <3>1, Beginnings, SourceSchemas, Zenon DEF InPage
    <3>3. Len(SubSeq(r, 1, 2)) = 2 /\ SubSeq(r, 1, 2)[1] = r[1] /\ SubSeq(r, 1, 2)[2] = r[2]
      BY <3>1, Beginnings
    <3>4. QED BY <2>2, <3>2, <3>3, Zenon DEF InD
  <2>4. \A one, two : FromD(d.cd, r, one, two).kind = "error"
    <3>1. \A one, two : \E e : FromD(d.cd, r, one, two) = Stop(e) BY <2>2, <2>3, Zenon DEF FromD
    <3>2. QED BY <3>1, Stops
  <2>5. CASE d.schema = "D2U"
    <3>1. Turn(c, r, x) = DMAP_D2U(d.cd, r) BY <2>5, TurnOf
    <3>2. QED BY <2>4, <3>1, Zenon DEF DMAP_D2U
  <2>6. CASE d.schema = "D28"
    <3>1. Turn(c, r, x) = DMAP_D28(d.cd, r) BY <2>6, TurnOf
    <3>2. FromD(d.cd, r, 26, Replacement).kind = "error" BY <2>4, Zenon
    <3>3. DMAP_D28(d.cd, r) = FromD(d.cd, r, 26, Replacement)
      BY <3>2, ThenStops, Zenon DEF DMAP_D28
    <3>4. QED BY <3>1, <3>2, <3>3
  <2>7. QED BY <1>2, <2>5, <2>6 DEF SourceD
<1>3. QED BY <1>1, <1>2

(* Which bytes begin a character of an EUC page.                           *)
LEMMA EucOne ==
  ASSUME NEW cd, NEW t, Len(t) = 1, t[1] \notin Shifts, t[1] # 0, E02U(cd, t[1]) # 0
  PROVE  InE(cd, t)
<1>1. unitOfE(cd, t) = E02U(cd, t[1]) BY UnitOfParts
<1>2. Len(t) \in {1, 2} /\ Len(t) # 2 /\ Len(t) # 3 /\ 2 .. Len(t) = {} OBVIOUS
<1>3. Len(t) \in (IF t[1] \in Shifts THEN {2, 3} ELSE {1, 2}) BY <1>2
<1>4. QED BY <1>1, <1>2, <1>3, Zenon DEF InE

LEMMA EucTwo ==
  ASSUME NEW cd, NEW t, Len(t) = 2, t[1] # 0, unitOfE(cd, t) # 0, InEuc(t[2]),
         t[1] \notin Shifts => InEuc(t[1]) /\ E02U(cd, t[1]) = 0
  PROVE  InE(cd, t)
<1>1. Len(t) \in {1, 2} /\ Len(t) \in {2, 3} /\ Len(t) # 3 OBVIOUS
<1>2. \A i \in 2 .. Len(t) : InEuc(t[i])
  <2>1. \A i \in 2 .. Len(t) : i = 2 OBVIOUS
  <2>2. QED BY <2>1, Zenon
<1>3. Len(t) \in (IF t[1] \in Shifts THEN {2, 3} ELSE {1, 2}) BY <1>1
<1>4. QED BY <1>1, <1>2, <1>3, Zenon DEF InE

LEMMA EucThree ==
  ASSUME NEW cd, NEW t, Len(t) = 3, t[1] \in Shifts, t[1] # 0, unitOfE(cd, t) # 0, InEuc(t[2]), InEuc(t[3]),
         unitOfE(cd, SubSeq(t, 1, 2)) = 0
  PROVE  InE(cd, t)
<1>1. Len(t) \in {2, 3} /\ Len(t) # 2 OBVIOUS
<1>2. \A i \in 2 .. Len(t) : InEuc(t[i])
  <2>1. \A i \in 2 .. Len(t) : i = 2 \/ i = 3 OBVIOUS
  <2>2. QED BY <2>1, Zenon
<1>3. Len(t) \in (IF t[1] \in Shifts THEN {2, 3} ELSE {1, 2}) BY <1>1
<1>4. QED BY <1>1, <1>2, <1>3, Zenon DEF InE

LEMMA ThreeParts == ASSUME NEW cd, NEW s, Len(s) # 2
  PROVE  /\ s[1] = 142 => unitOfE(cd, s) = E22U(cd, s[2], s[3])
         /\ s[1] = 143 => unitOfE(cd, s) = E32U(cd, s[2], s[3])
BY UnitOfParts

LEMMA EucStops ==
  ASSUME NEW cd, NEW r \in Seq(Octets), r # <<>>, \A n \in 1 .. Len(r) : ~InE(cd, SubSeq(r, 1, n))
  PROVE  \E e : DMAP_E2U(cd, r) = Stop(e)
<1>1. ~InE(cd, SubSeq(r, 1, 1)) BY Beginnings, Zenon
<1>2. r[1] # 0
  <2>1. SUFFICES ASSUME r[1] = 0 PROVE FALSE OBVIOUS
  <2>2. SubSeq(r, 1, 1) = << 0 >> BY <2>1, Beginnings, Zenon
  <2>3. QED BY <1>1, <2>2, Zenon DEF InE
<1>3. ASSUME ~(Len(r) < 2) PROVE ~InE(cd, SubSeq(r, 1, 2)) BY <1>3, Beginnings, Zenon
<1>4. ASSUME ~(Len(r) < 3) PROVE ~InE(cd, SubSeq(r, 1, 3)) BY <1>4, Beginnings, Zenon
<1> DEFINE two == SubSeq(r, 1, 2)
           three == SubSeq(r, 1, 3)
<1>5. ~(Len(r) < 2) => Len(two) = 2 /\ two[1] = r[1] /\ two[2] = r[2] BY Beginnings
<1>6. ~(Len(r) < 3) => /\ ~(Len(r) < 2) /\ Len(three) = 3 /\ Len(three) # 2
                       /\ three[1] = r[1] /\ three[2] = r[2] /\ three[3] = r[3]
                       /\ SubSeq(three, 1, 2) = two
  BY Beginnings
<1>7. ~(Len(r) < 2) => ~InE(cd, two) BY <1>3
<1>8. ~(Len(r) < 3) => ~InE(cd, three) BY <1>4
<1> HIDE DEF two, three
<1>9. CASE r[1] = 142
  <2>1. r[1] \in Shifts /\ r[1] # 143 BY <1>9, ShiftBytes
  <2>2. ASSUME ~(Len(r) < 2), InEuc(r[2]) PROVE E22U1(cd, r[2]) = 0 /\ unitOfE(cd, two) = 0
    <3>1. two[1] = 142 /\ Len(two) = 2 /\ two[2] = r[2] BY <1>5, <1>9, <2>2
    <3>2. unitOfE(cd, two) = E22U1(cd, r[2]) BY <3>1, UnitOfParts
    <3>3. two[1] # 0 /\ two[1] \in Shifts /\ InEuc(two[2]) BY <1>2, <1>5, <2>1, <2>2, Zenon
    <3>4. unitOfE(cd, two) = 0 BY <1>7, <2>2, <3>1, <3>3, EucTwo
    <3>5. QED BY <3>2, <3>4
  <2>3. ASSUME ~(Len(r) < 2), InEuc(r[2]), ~(Len(r) < 3), InEuc(r[3]) PROVE E22U(cd, r[2], r[3]) = 0
    <3>1. three[1] = 142 /\ Len(three) # 2 /\ three[2] = r[2] /\ three[3] = r[3] /\ Len(three) = 3
      BY <1>6, <1>9, <2>3
    <3>2. unitOfE(cd, three) = E22U(cd, r[2], r[3])
      <4>1. three[1] = 142 BY <3>1
      <4>2. Len(three) # 2 BY <3>1
      <4>3. unitOfE(cd, three) = E22U(cd, three[2], three[3]) BY <4>1, <4>2, ThreeParts
      <4>4. QED BY <3>1, <4>3, Zenon
    <3>3. three[1] # 0 /\ three[1] \in Shifts /\ InEuc(three[2]) /\ InEuc(three[3])
      BY <1>2, <1>6, <2>1, <2>3, Zenon
    <3>4. unitOfE(cd, SubSeq(three, 1, 2)) = 0 BY <1>6, <2>2, <2>3
    <3>5. unitOfE(cd, three) = 0 BY <1>8, <2>3, <3>1, <3>3, <3>4, EucThree
    <3>6. QED BY <3>2, <3>5
  <2>4. \E e : E2U_SS2(cd, r) = Stop(e) BY <2>2, <2>3, Zenon DEF E2U_SS2
  <2>5. QED BY <1>9, <2>4, EucCases, Zenon
<1>10. CASE r[1] = 143
  <2>1. r[1] \in Shifts /\ r[1] # 142 BY <1>10, ShiftBytes
  <2>2. ASSUME ~(Len(r) < 2), InEuc(r[2]) PROVE E32U1(cd, r[2]) = 0 /\ unitOfE(cd, two) = 0
    <3>1. two[1] = 143 /\ Len(two) = 2 /\ two[2] = r[2] BY <1>5, <1>10, <2>2
    <3>2. unitOfE(cd, two) = E32U1(cd, r[2]) BY <3>1, UnitOfParts
    <3>3. two[1] # 0 /\ two[1] \in Shifts /\ InEuc(two[2]) BY <1>2, <1>5, <2>1, <2>2, Zenon
    <3>4. unitOfE(cd, two) = 0 BY <1>7, <2>2, <3>1, <3>3, EucTwo
    <3>5. QED BY <3>2, <3>4
  <2>3. ASSUME ~(Len(r) < 2), InEuc(r[2]), ~(Len(r) < 3), InEuc(r[3]) PROVE E32U(cd, r[2], r[3]) = 0
    <3>1. three[1] = 143 /\ Len(three) # 2 /\ three[2] = r[2] /\ three[3] = r[3] /\ Len(three) = 3
      BY <1>6, <1>10, <2>3
    <3>2. unitOfE(cd, three) = E32U(cd, r[2], r[3])
      <4>1. three[1] = 143 BY <3>1
      <4>2. Len(three) # 2 BY <3>1
      <4>3. unitOfE(cd, three) = E32U(cd, three[2], three[3]) BY <4>1, <4>2, ThreeParts
      <4>4. QED BY <3>1, <4>3, Zenon
    <3>3. three[1] # 0 /\ three[1] \in Shifts /\ InEuc(three[2]) /\ InEuc(three[3])
      BY <1>2, <1>6, <2>1, <2>3, Zenon
    <3>4. unitOfE(cd, SubSeq(three, 1, 2)) = 0 BY <1>6, <2>2, <2>3
    <3>5. unitOfE(cd, three) = 0 BY <1>8, <2>3, <3>1, <3>3, <3>4, EucThree
    <3>6. QED BY <3>2, <3>5
  <2>4. \E e : E2U_SS3(cd, r) = Stop(e) BY <2>2, <2>3, Zenon DEF E2U_SS3
  <2>5. QED BY <1>10, <2>4, EucCases, Zenon
<1>11. CASE r[1] # 142 /\ r[1] # 143
  <2>1. r[1] \notin Shifts BY <1>11, ShiftBytes
  <2>2. E02U(cd, r[1]) = 0
    <3>1. Len(SubSeq(r, 1, 1)) = 1 /\ SubSeq(r, 1, 1)[1] = r[1] BY Beginnings
    <3>2. QED BY <1>1, <1>2, <2>1, <3>1, EucOne, Zenon
  <2>3. ASSUME ~(Len(r) < 2), InEuc(r[1]), InEuc(r[2]) PROVE E12U(cd, r[1], r[2]) = 0
    <3>1. two[1] \notin Shifts /\ two[1] # 0 /\ Len(two) = 2 /\ two[2] = r[2] /\ two[1] = r[1]
      BY <1>2, <1>5, <2>1, <2>3
    <3>2. Len(two) # 1 BY <3>1
    <3>3. unitOfE(cd, two) = E12U(cd, r[1], r[2]) BY <3>1, <3>2, UnitOfParts
    <3>4. InEuc(two[2]) /\ InEuc(two[1]) /\ E02U(cd, two[1]) = 0 BY <2>2, <2>3, <3>1, Zenon
    <3>5. unitOfE(cd, two) = 0 BY <1>7, <2>3, <3>1, <3>4, EucTwo
    <3>6. QED BY <3>3, <3>5
  <2>4. \E e : E2U_SS1(cd, r) = Stop(e) BY <2>3, Zenon DEF E2U_SS1
  <2>5. QED BY <1>2, <1>11, <2>2, <2>4, EucCases, Zenon
<1>12. QED BY <1>9, <1>10, <1>11

LEMMA EucPageStops ==
  ASSUME NEW d, d.schema \in SourceE, NEW r \in Seq(Octets), r # <<>>,
         \A n \in 1 .. Len(r) : ~InPage(d, SubSeq(r, 1, n)),
         NEW c, c.schema = d.schema, c.cd = d.cd, NEW x
  PROVE  Turn(c, r, x).kind = "error"
<1>0. d.schema \in SourcePage BY DEF SourcePage
<1>1. \A n \in 1 .. Len(r) : ~InE(d.cd, SubSeq(r, 1, n))
  BY <1>0, SourceSchemas, Zenon DEF InPage
<1>2. PICK e : DMAP_E2U(d.cd, r) = Stop(e) BY <1>1, EucStops
<1>3. DMAP_E2U(d.cd, r).kind = "error" BY <1>2, Stops
<1>4. CASE d.schema = "E2U"
  <2>1. Turn(c, r, x) = DMAP_E2U(d.cd, r) BY <1>4, TurnOf
  <2>2. QED BY <1>3, <2>1
<1>5. CASE d.schema = "E28"
  <2>1. Turn(c, r, x) = DMAP_E28(d.cd, r) BY <1>5, TurnOf
  <2>2. DMAP_E28(d.cd, r) = DMAP_E2U(d.cd, r) BY <1>3, ThenStops, Zenon DEF DMAP_E28
  <2>3. QED BY <1>3, <2>1, <2>2
<1>6. QED BY <1>4, <1>5 DEF SourceE

(* UCS-2 and UTF-16.                                                       *)
LEMMA NotOne == \A n \in Nat : n >= 2 => n # 1
OBVIOUS
LEMMA NeverBoth == \A w : ~(Lead(w) /\ Trailing(w))
<1> SUFFICES ASSUME NEW w, Lead(w), Trailing(w) PROVE FALSE OBVIOUS
<1>1. w \in Int /\ w <= 56319 BY SMT DEF Lead
<1>2. w >= 56320 BY SMT DEF Trailing
<1>3. QED BY <1>1, <1>2, SMT

LEMMA UnitsStop ==
  ASSUME NEW d, d.schema \in SourceU \cup SourceT, NEW r, NoCharacter(d, r), Len(r) \in Nat,
         NEW c, c.schema = d.schema, c.cd = d.cd, NEW x
  PROVE  Turn(c, r, x).kind = "error"
<1>0. d.schema \notin SourcePage /\ d.schema \notin Source8 /\ d.schema # "S2S"
      /\ (d.schema \in SourceU => d.schema \notin SourceT)
  BY DEF SourcePage, SourceS, SourceD, SourceE, SourceU, SourceT, Source8
<1>1. CASE d.schema \in SourceU
  <2>1. Len(r) = 1 BY <1>0, <1>1, Zenon DEF NoCharacter
  <2>2. Turn(c, r, x) = Stop("EINVAL")
    <3>1. CASE d.schema = "U2S"
      <4>1. Turn(c, r, x) = DMAP_U2S(d.cd, r) BY <3>1, TurnOf
      <4>2. QED BY <2>1, <4>1, Zenon DEF DMAP_U2S, FromU
    <3>2. CASE d.schema = "U2D"
      <4>1. Turn(c, r, x) = DMAP_U2D(d.cd, r, x) BY <3>2, TurnOf
      <4>2. QED BY <2>1, <4>1, Zenon DEF DMAP_U2D, FromU
    <3>3. CASE d.schema = "U2E"
      <4>1. Turn(c, r, x) = DMAP_U2E(d.cd, r, x) BY <3>3, TurnOf
      <4>2. QED BY <2>1, <4>1, Zenon DEF DMAP_U2E, FromU
    <3>4. CASE d.schema = "U28"
      <4>1. Turn(c, r, x) = DMAP_U28(r) BY <3>4, TurnOf
      <4>2. QED BY <2>1, <4>1, Zenon DEF DMAP_U28, FromU
    <3>5. QED BY <1>1, <3>1, <3>2, <3>3, <3>4 DEF SourceU
  <2>3. QED BY <2>2, Stops
<1>2. CASE d.schema \in SourceT
  <2>1. /\ Len(r) >= 2
        /\ \/ Trailing(UnitAt(r, 1))
           \/ /\ Lead(UnitAt(r, 1))
              /\ d.schema \in {"T2D", "T2E"} \/ Len(r) < 4 \/ ~Trailing(UnitAt(r, 3))
    BY <1>0, <1>2, Zenon DEF NoCharacter
  <2>2. Len(r) # 1
    <3>1. Len(r) >= 2 BY <2>1, Zenon
    <3>2. QED BY <3>1, NotOne, Zenon
  <2>3. ~(Lead(UnitAt(r, 1)) /\ Trailing(UnitAt(r, 1))) BY NeverBoth, Zenon
  <2>4. \E m, l, e : Turn(c, r, x) = StopAfter(m, l, e)
    <3>1. CASE d.schema = "T2S"
      <4>1. Turn(c, r, x) = DMAP_T2S(d.cd, r) BY <3>1, TurnOf
      <4>2. d.schema \notin {"T2D", "T2E"} BY <3>1
      <4>3. QED BY <2>1, <2>2, <2>3, <4>1, <4>2, Zenon DEF DMAP_T2S
    <3>2. CASE d.schema = "T2D"
      <4>1. Turn(c, r, x) = DMAP_T2D(d.cd, r, x) BY <3>2, TurnOf
      <4>2. QED BY <2>1, <2>2, <2>3, <4>1, Zenon DEF DMAP_T2D, FromT
    <3>3. CASE d.schema = "T2E"
      <4>1. Turn(c, r, x) = DMAP_T2E(d.cd, r, x) BY <3>3, TurnOf
      <4>2. QED BY <2>1, <2>2, <2>3, <4>1, Zenon DEF DMAP_T2E, FromT
    <3>4. CASE d.schema = "T28"
      <4>1. Turn(c, r, x) = DMAP_T28(r) BY <3>4, TurnOf
      <4>2. d.schema \notin {"T2D", "T2E"} BY <3>4
      <4>3. QED BY <2>1, <2>2, <2>3, <4>1, <4>2, Zenon DEF DMAP_T28
    <3>5. QED BY <1>2, <3>1, <3>2, <3>3, <3>4 DEF SourceT
  <2>5. QED BY <2>4, Stops
<1>3. QED BY <1>1, <1>2

(* UTF-8: what is neither well-formed nor tolerated.                       *)
LEMMA ThirdContinues ==
  ASSUME NEW t, Continues(t[3]), Len(t) = 3 \/ (Len(t) = 4 /\ Continues(t[4]))
  PROVE  \A i \in 3 .. Len(t) : Continues(t[i])
<1>1. CASE Len(t) = 3
  <2>1. \A i \in 3 .. Len(t) : i = 3 BY <1>1
  <2>2. QED BY <2>1, Zenon
<1>2. CASE Len(t) = 4 /\ Continues(t[4])
  <2>1. \A i \in 3 .. Len(t) : i = 3 \/ i = 4 BY <1>2
  <2>2. QED BY <1>2, <2>1, Zenon
<1>3. QED BY <1>1, <1>2

LEMMA TolerThree ==
  ASSUME NEW d, d.schema \in Source8, NEW t, Len(t) = 3, t[1] = 237, t[2] \in 160 .. 191, Continues(t[3])
  PROVE  Tolerated(d, t)
<1>1. d.schema \notin SourceU /\ d.schema \notin SourceT BY DEF SourceU, SourceT, Source8
<1>2. \A i \in 3 .. Len(t) : Continues(t[i]) BY ThirdContinues
<1>3. QED BY <1>1, <1>2, Zenon DEF Tolerated

LEMMA TolerFour ==
  ASSUME NEW d, d.schema \in Source8, NEW t, Len(t) = 4, Continues(t[3]), Continues(t[4]),
         \/ t[1] = 244 /\ t[2] \in 144 .. 191
         \/ t[1] >= 245 /\ Continues(t[2])
  PROVE  Tolerated(d, t)
<1>1. d.schema \notin SourceU /\ d.schema \notin SourceT BY DEF SourceU, SourceT, Source8
<1>2. \A i \in 3 .. Len(t) : Continues(t[i]) BY ThirdContinues
<1>3. QED BY <1>1, <1>2, Zenon DEF Tolerated

Foreign(d, r) == ~BeginsWellFormed(r) /\ \A n \in 1 .. Len(r) : ~Tolerated(d, SubSeq(r, 1, n))

LEMMA TrailIsContinues == \A b : Trail(b) <=> Continues(b)
BY DEF Trail, Continues

LEMMA ForeignThree ==
  ASSUME NEW d, d.schema \in Source8, NEW r \in Seq(Octets), r # <<>>, Foreign(d, r),
         LeadOf3(r[1]), ~(Len(r) < 3), Trail(r[2]), Trail(r[3])
  PROVE  Overlong3(r)
<1> DEFINE t == SubSeq(r, 1, 3)
<1>1. Len(r) \in Nat /\ 3 \in 1 .. Len(r) /\ Len(t) = 3 /\ t[1] = r[1] /\ t[2] = r[2] /\ t[3] = r[3]
  BY Beginnings
<1>2. ~Tolerated(d, t) BY <1>1, Zenon DEF Foreign
<1> HIDE DEF t
<1>3. r[1] = 237 => ~(r[2] \in 160 .. 191)
  <2>1. SUFFICES ASSUME r[1] = 237, r[2] \in 160 .. 191 PROVE FALSE OBVIOUS
  <2>2. t[1] = 237 BY <1>1, <2>1
  <2>3. t[2] \in 160 .. 191 BY <1>1, <2>1
  <2>4. Continues(t[3]) BY <1>1, TrailIsContinues, Zenon
  <2>5. QED BY <1>1, <1>2, <2>2, <2>3, <2>4, TolerThree
<1>4. ~BeginsWellFormed(r) BY DEF Foreign
<1>5. Len(r) >= 3 /\ Continues(r[3]) /\ Continues(r[2]) BY <1>1, TrailIsContinues
<1>6. PICK a, b : a = r[1] /\ b = r[2] OBVIOUS
<1>7. a \in 224 .. 239 /\ b \in 128 .. 191 BY <1>6 DEF LeadOf3, Trail
<1>8. ~(\/ a = 224 /\ b \in 160 .. 191
        \/ a \in (225 .. 236) \cup {238, 239} /\ Continues(b)
        \/ a = 237 /\ b \in 128 .. 159)
  BY <1>4, <1>5, <1>6 DEF BeginsWellFormed
<1>9. Continues(b) BY <1>5, <1>6
<1>10. a = 237 => ~(b \in 160 .. 191) BY <1>3, <1>6
<1>11. a = 224 /\ b < 160 BY <1>7, <1>8, <1>9, <1>10, SMT
<1>12. QED BY <1>6, <1>11 DEF Overlong3

LEMMA ForeignStops ==
  ASSUME NEW d, d.schema \in Source8, NEW r \in Seq(Octets), r # <<>>, Foreign(d, r)
  PROVE  \E e : From8(r) = Stop(e)
<1>1. ~BeginsWellFormed(r) /\ Len(r) \in Nat BY Beginnings DEF Foreign
<1>2. ~Ascii(r[1]) BY <1>1 DEF BeginsWellFormed, Ascii
<1>3. CASE LeadOf2(r[1])
  <2>1. ASSUME ~(Len(r) < 2), ~Overlong2(r), Trail(r[2]) PROVE FALSE
    <3>1. Len(r) >= 2 BY <1>1, <2>1
    <3>2. r[1] \in 194 .. 223 BY <1>3, <2>1, SMT DEF LeadOf2, Overlong2
    <3>3. Continues(r[2]) BY <2>1, TrailIsContinues
    <3>4. QED BY <1>1, <3>1, <3>2, <3>3 DEF BeginsWellFormed
  <2>2. QED BY <1>2, <1>3, <2>1, Zenon DEF From8
<1>4. CASE ~LeadOf2(r[1]) /\ LeadOf3(r[1])
  <2>1. ASSUME ~(Len(r) < 3), TrailsUpto(r, 3) PROVE Overlong3(r)
    <3>1. Len(r) >= 3 BY <1>1, <2>1
    <3>2. Trail(r[2]) /\ Trail(r[3]) BY <1>1, <2>1, <3>1, TrailsTo
    <3>3. QED BY <1>4, <2>1, <3>2, ForeignThree
  <2>2. QED BY <1>2, <1>4, <2>1, Zenon DEF From8
<1>5. CASE ~LeadOf2(r[1]) /\ ~LeadOf3(r[1])
  BY <1>2, <1>5, Zenon DEF From8
<1>6. QED BY <1>3, <1>4, <1>5

LEMMA NotLess == ASSUME NEW n \in Octets, ~(n < 240) PROVE n >= 240
BY SMT DEF Octets

LEMMA ForeignFour ==
  ASSUME NEW d, d.schema \in Source8, NEW r \in Seq(Octets), r # <<>>, Foreign(d, r),
         ~(r[1] < 240), ~(Len(r) < 4), TrailsUpto(r, 4)
  PROVE  r[1] = 240 /\ r[2] < 144
<1> DEFINE t == SubSeq(r, 1, 4)
<1>1. /\ Len(r) \in Nat /\ 4 \in 1 .. Len(r) /\ Len(t) = 4
      /\ t[1] = r[1] /\ t[2] = r[2] /\ t[3] = r[3] /\ t[4] = r[4]
  BY Beginnings
<1>2. ~Tolerated(d, t) BY <1>1, Zenon DEF Foreign
<1> HIDE DEF t
<1>3. Len(r) >= 4 BY <1>1
<1>4. Trail(r[2]) /\ Trail(r[3]) /\ Trail(r[4]) BY <1>1, <1>3, TrailsTo
<1>5. Continues(t[2]) /\ Continues(t[3]) /\ Continues(t[4])
  BY <1>1, <1>4, TrailIsContinues, Zenon
<1>6. PICK a, b : a = r[1] /\ b = r[2] OBVIOUS
<1>7. a \in Octets /\ b \in 128 .. 191 /\ a >= 240
  <2>1. a \in Octets /\ ~(a < 240) BY <1>6, Beginnings
  <2>2. a >= 240 BY <2>1, NotLess
  <2>3. Trail(b) BY <1>4, <1>6
  <2>4. QED BY <2>1, <2>2, <2>3 DEF Trail
<1>8. ~(a >= 245)
  <2>1. SUFFICES ASSUME a >= 245 PROVE FALSE OBVIOUS
  <2>2. t[1] >= 245 BY <1>1, <1>6, <2>1
  <2>3. QED BY <1>1, <1>2, <1>5, <2>2, TolerFour
<1>9. a = 244 => ~(b \in 144 .. 191)
  <2>1. SUFFICES ASSUME a = 244, b \in 144 .. 191 PROVE FALSE OBVIOUS
  <2>2. t[1] = 244 BY <1>1, <1>6, <2>1
  <2>3. t[2] \in 144 .. 191 BY <1>1, <1>6, <2>1
  <2>4. QED BY <1>1, <1>2, <1>5, <2>2, <2>3, TolerFour
<1>10. ~BeginsWellFormed(r) BY DEF Foreign
<1>11. Continues(r[2]) /\ Continues(r[3]) /\ Continues(r[4]) BY <1>4, TrailIsContinues
<1>12. ~(\/ a = 240 /\ b \in 144 .. 191
         \/ a \in 241 .. 243 /\ Continues(b)
         \/ a = 244 /\ b \in 128 .. 143)
  BY <1>3, <1>6, <1>10, <1>11 DEF BeginsWellFormed
<1>13. Continues(b) BY <1>6, <1>11
<1>14. a = 240 /\ b < 144 BY <1>7, <1>8, <1>9, <1>12, <1>13, SMT DEF Octets
<1>15. QED BY <1>6, <1>14

LEMMA MaskedIs240 == ASSUME NEW b, b = 240 PROVE Masked(b) = 240 /\ ~(Masked(b) > 244) /\ ~(b > 244)
BY SMT DEF Masked

TooSmall(b, r) == ~(Len(r) < 4) /\ TrailsUpto(r, 4) => b = 240 /\ r[2] < 144

LEMMA FourEnds ==
  ASSUME NEW r, NEW b, NEW o, TooSmall(b, r)
  PROVE  \E e : Four8(b, r, o) = Stop(e)
<1>1. \E e : TooShort(r) = Stop(e)
  BY Zenon DEF TooShort
<1>2. CASE Len(r) < 4
  <2>1. Four8(b, r, o) = TooShort(r) BY <1>2, Zenon DEF Four8
  <2>2. QED BY <1>1, <2>1, Zenon
<1>3. CASE ~(Len(r) < 4) /\ (~TrailsUpto(r, 4) \/ (b = 240 /\ r[2] < 144))
  <2>1. Four8(b, r, o) = Stop("EILSEQ") BY <1>3, SMT DEF Four8
  <2>2. QED BY <2>1, Zenon
<1>4. QED BY <1>2, <1>3 DEF TooSmall

LEMMA FourStops ==
  ASSUME NEW d, d.schema \in Source8, NEW r \in Seq(Octets), r # <<>>, Foreign(d, r), ~(r[1] < 240),
         NEW c, c.schema = d.schema, c.cd = d.cd, NEW x
  PROVE  \E e : Turn(c, r, x) = Stop(e)
<1>1. ~(Len(r) < 4) /\ TrailsUpto(r, 4) => r[1] = 240 /\ r[2] < 144 BY ForeignFour
<1>2. /\ \E e : TooShort(r) = Stop(e)
      /\ \E e : NoSequence(r) = Stop(e)
  BY Zenon DEF TooShort, NoSequence
<1>3. ASSUME NEW b, ~(Len(r) < 4) /\ TrailsUpto(r, 4) => b = 240, NEW o
      PROVE  \E e : Four8(b, r, o) = Stop(e)
  <2>1. TooSmall(b, r) BY <1>1, <1>3 DEF TooSmall
  <2>2. QED BY <2>1, FourEnds, Zenon
<1>4. ~(Len(r) < 4) /\ TrailsUpto(r, 4) => Masked(r[1]) = 240 /\ ~(Masked(r[1]) > 244) /\ ~(r[1] > 244)
  BY <1>1, MaskedIs240
<1>5. CASE d.schema = "82S"
  <2>1. Turn(c, r, x) = DMAP_82S(d.cd, r) BY <1>5, TurnOf
  <2> DEFINE o == Then(Put(4, PairOf8(Masked(r[1]), r), 0), LAMBDA w : ToS(d.cd, w))
  <2>2. DMAP_82S(d.cd, r) = IF Masked(r[1]) > 244
                            THEN IF Len(r) < 4 \/ ~TrailsUpto(r, 4) THEN NoSequence(r)
                                 ELSE Put(4, <<d.cd.subS>>, 1)
                            ELSE Four8(Masked(r[1]), r, o)
    BY Zenon DEF DMAP_82S
  <2> HIDE DEF o
  <2>3. \E e : Four8(Masked(r[1]), r, o) = Stop(e) BY <1>3, <1>4
  <2>4. QED BY <1>2, <1>4, <2>1, <2>2, <2>3, Zenon
<1>6. CASE d.schema = "82U"
  <2>1. Turn(c, r, x) = DMAP_82U(d.cd, r) BY <1>6, TurnOf
  <2> DEFINE o == IF Masked(r[1]) = 244 /\ r[2] > 143 THEN Stop("EINVAL") ELSE Put(4, PairOf8(Masked(r[1]), r), 0)
  <2>2. DMAP_82U(d.cd, r) = IF d.cd.toCcsid = Ucs2 THEN Stop("EILSEQ")
                            ELSE IF Masked(r[1]) > 244 THEN NoSequence(r)
                            ELSE Four8(Masked(r[1]), r, o)
    BY Zenon DEF DMAP_82U
  <2> HIDE DEF o
  <2>3. \E e : Four8(Masked(r[1]), r, o) = Stop(e) BY <1>3, <1>4
  <2>4. QED BY <1>2, <2>1, <2>2, <2>3, Zenon
<1>7. CASE d.schema \in {"82D", "82E"}
  <2>1. Turn(c, r, x) = FourToPage(d.cd, r)
    <3>1. CASE d.schema = "82D"
      <4>1. Turn(c, r, x) = DMAP_82D(d.cd, r) BY <3>1, TurnOf
      <4>2. QED BY <4>1, Zenon DEF DMAP_82D
    <3>2. CASE d.schema = "82E"
      <4>1. Turn(c, r, x) = DMAP_82E(d.cd, r, x) BY <3>2, TurnOf
      <4>2. QED BY <4>1, Zenon DEF DMAP_82E
    <3>3. QED BY <1>7, <3>1, <3>2
  <2>2. CASE r[1] > 244
    <3>1. Len(r) < 4 \/ ~TrailsUpto(r, 4) BY <1>4, <2>2
    <3>2. \E e : Strange8(d.cd, r) = Stop(e) BY <1>2, <3>1, Zenon DEF Strange8
    <3>3. QED BY <2>1, <2>2, <3>2, Zenon DEF FourToPage
  <2>3. CASE ~(r[1] > 244)
    <3>1. \E e : Four8(r[1], r, Put(4, <<d.cd.subS>>, 1)) = Stop(e) BY <1>1, <1>3
    <3>2. QED BY <2>1, <2>3, <3>1, Zenon DEF FourToPage
  <2>4. QED BY <2>2, <2>3
<1>8. QED BY <1>5, <1>6, <1>7 DEF Source8

(* Below 0xF0 the loops from UTF-8 convert what From8 has read.            *)
LEMMA BelowFour ==
  ASSUME NEW d, d.schema \in Source8, NEW r, r[1] < 240, NEW e, From8(r) = Stop(e),
         NEW c, c.schema = d.schema, c.cd = d.cd, NEW x
  PROVE  Turn(c, r, x) = Stop(e)
<1>1. Stop(e).kind = "error" BY Stops
<1>2. CASE d.schema = "82S"
  <2>1. Turn(c, r, x) = DMAP_82S(d.cd, r) BY <1>2, TurnOf
  <2> DEFINE To(w) == ToS(d.cd, w)
  <2>2. DMAP_82S(d.cd, r) = Then(From8(r), To) BY Zenon DEF DMAP_82S
  <2> HIDE DEF To
  <2>3. Then(From8(r), To) = Stop(e) BY <1>1, Zenon DEF Then
  <2>4. QED BY <2>1, <2>2, <2>3, Zenon
<1>3. CASE d.schema = "82D"
  <2>1. Turn(c, r, x) = DMAP_82D(d.cd, r) BY <1>3, TurnOf
  <2> DEFINE To(w) == ToD(d.cd, w, U2D(d.cd, w)[1], w)
  <2>2. DMAP_82D(d.cd, r) = Then(From8(r), To) BY Zenon DEF DMAP_82D
  <2> HIDE DEF To
  <2>3. Then(From8(r), To) = Stop(e) BY <1>1, Zenon DEF Then
  <2>4. QED BY <2>1, <2>2, <2>3, Zenon
<1>4. CASE d.schema = "82E"
  <2>1. Turn(c, r, x) = DMAP_82E(d.cd, r, x) BY <1>4, TurnOf
  <2> DEFINE To(w) == ToE(d.cd, w, x)
  <2>2. DMAP_82E(d.cd, r, x) = Then(From8(r), To) BY Zenon DEF DMAP_82E
  <2> HIDE DEF To
  <2>3. Then(From8(r), To) = Stop(e) BY <1>1, Zenon DEF Then
  <2>4. QED BY <2>1, <2>2, <2>3, Zenon
<1>5. CASE d.schema = "82U"
  <2>1. Turn(c, r, x) = DMAP_82U(d.cd, r) BY <1>5, TurnOf
  <2>2. QED BY <2>1, Zenon DEF DMAP_82U
<1>6. QED BY <1>2, <1>3, <1>4, <1>5 DEF Source8

LEMMA LessOrNot == \A n \in Octets : n >= 240 => ~(n < 240)
BY SMT DEF Octets

LEMMA EightStops ==
  ASSUME NEW d, d.schema \in Source8, NEW r \in Seq(Octets), r # <<>>, NoCharacter(d, r),
         NEW c, c.schema = d.schema, c.cd = d.cd, NEW x
  PROVE  Turn(c, r, x).kind = "error"
<1>1. /\ d.schema \notin SourcePage /\ d.schema \notin SourceU /\ d.schema \notin SourceT /\ d.schema # "S2S"
  BY DEF SourcePage, SourceS, SourceD, SourceE, SourceU, SourceT, Source8
<1>2. Foreign(d, r) \/ (d.schema = "82U" /\ d.cd.toCcsid = Ucs2 /\ r[1] >= 240)
  BY <1>1, Zenon DEF NoCharacter, Foreign
<1>3. CASE Foreign(d, r) /\ r[1] < 240
  <2>1. PICK e : From8(r) = Stop(e) BY <1>3, ForeignStops
  <2>2. Turn(c, r, x) = Stop(e) BY <1>3, <2>1, BelowFour
  <2>3. QED BY <2>2, Stops
<1>4. CASE Foreign(d, r) /\ ~(r[1] < 240)
  <2>1. PICK e : Turn(c, r, x) = Stop(e) BY <1>4, FourStops
  <2>2. QED BY <2>1, Stops
<1>5. CASE d.schema = "82U" /\ d.cd.toCcsid = Ucs2 /\ r[1] >= 240
  <2>1. ~(r[1] < 240) BY <1>5, Beginnings, LessOrNot
  <2>2. Turn(c, r, x) = DMAP_82U(d.cd, r) BY <1>5, TurnOf
  <2>3. DMAP_82U(d.cd, r) = Stop("EILSEQ") BY <1>5, <2>1, Zenon DEF DMAP_82U
  <2>4. QED BY <2>2, <2>3, Stops
<1>6. QED BY <1>2, <1>3, <1>4, <1>5

(* One turn of any loop that finds a malformed sequence, one that iconv does *)
(* not let through, ends the conversion with an error.                      *)
THEOREM BadTurn ==
  ASSUME NEW d, d.schema \in Schemas, d.schema # "U2U", NEW c, c.schema = d.schema, c.cd = d.cd,
         NEW i, IsItem(d, i), i.is = "bad", NEW x
  PROVE  Turn(c, i.src, x).kind = "error"
<1>1. i.src \in Seq(Octets) /\ i.src # <<>> BY DEF IsItem, Octets
<1>2. NoCharacter(d, i.src) BY Zenon DEF IsItem
<1> DEFINE r == i.src
<1>3. Len(r) \in Nat BY <1>1
<1> HIDE DEF r
<1>4. CASE d.schema = "S2S"
  <2>0. d.schema \notin SourcePage /\ d.schema \notin SourceU /\ d.schema \notin SourceT /\ d.schema \notin Source8
    BY <1>4 DEF SourcePage, SourceS, SourceD, SourceE, SourceU, SourceT, Source8
  <2>1. r[1] # 0 /\ S2S(d.cd, r[1]) = 0 BY <1>2, <1>4, <2>0, Zenon DEF NoCharacter, r
  <2>2. Turn(c, r, x) = DMAP_S2S(d.cd, r) BY <1>4, TurnOf
  <2>3. DMAP_S2S(d.cd, r) = Stop("EILSEQ") BY <2>1, Zenon DEF DMAP_S2S
  <2>4. QED BY <2>2, <2>3, Stops DEF r
<1>5. CASE d.schema \in SourcePage
  <2>1. d.schema # "S2S" /\ d.schema \notin SourceU /\ d.schema \notin SourceT /\ d.schema \notin Source8
    BY <1>5 DEF SourcePage, SourceS, SourceD, SourceE, SourceU, SourceT, Source8
  <2>2. \A n \in 1 .. Len(r) : ~InPage(d, SubSeq(r, 1, n))
    BY <1>2, <1>5, <2>1, Zenon DEF NoCharacter, r
  <2>3. r \in Seq(Octets) /\ r # <<>> BY <1>1 DEF r
  <2>4. Turn(c, r, x).kind = "error" BY <1>5, <2>2, <2>3, PageStops, EucPageStops DEF SourcePage
  <2>5. QED BY <2>4 DEF r
<1>6. CASE d.schema \in SourceU \cup SourceT
  <2>1. Turn(c, r, x).kind = "error" BY <1>2, <1>3, <1>6, UnitsStop DEF r
  <2>2. QED BY <2>1 DEF r
<1>7. CASE d.schema \in Source8
  <2>1. Turn(c, r, x).kind = "error" BY <1>1, <1>2, <1>7, EightStops DEF r
  <2>2. QED BY <2>1 DEF r
<1>8. QED BY <1>4, <1>5, <1>6, <1>7, AllSchemas

-----------------------------------------------------------------------------
(* What iconv lets through: passed as a whole, or refused.                 *)

(* What is tolerated is passed as a whole, unit by unit or not at all.     *)
Passes(o, n) == \E b, k : o = Put(n, b, k)

LEMMA ThenPasses == ASSUME NEW n, NEW b, NEW k, NEW To(_) PROVE Passes(Then(Put(n, b, k), To), n)
<1>1. Put(n, b, k).kind = "go" /\ Put(n, b, k).move = n BY DEF Put
<1>2. QED BY <1>1, Zenon DEF Then, Passes

LEMMA UnitsPass ==
  ASSUME NEW d, d.schema \in SourceU, NEW r, Len(r) # 1, NEW c, c.schema = d.schema, c.cd = d.cd, NEW x
  PROVE  Passes(Turn(c, r, x), 2)
<1>1. PutUnit(r) = Put(2, <<r[1], r[2]>>, 0) BY DEF PutUnit
<1>2. CASE d.schema = "U2S"
  <2>1. Turn(c, r, x) = DMAP_U2S(d.cd, r) BY <1>2, TurnOf
  <2> DEFINE To(w) == ToS(d.cd, w)
  <2>2. DMAP_U2S(d.cd, r) = Then(PutUnit(r), To) BY Zenon DEF DMAP_U2S, FromU
  <2> HIDE DEF To
  <2>3. Passes(Then(PutUnit(r), To), 2) BY <1>1, ThenPasses
  <2>4. QED BY <2>1, <2>2, <2>3, Zenon
<1>3. CASE d.schema = "U2D"
  <2>1. Turn(c, r, x) = DMAP_U2D(d.cd, r, x) BY <1>3, TurnOf
  <2> DEFINE To(w) == ToDShifted(d.cd, w, x)
  <2>2. DMAP_U2D(d.cd, r, x) = Then(PutUnit(r), To) BY Zenon DEF DMAP_U2D, FromU
  <2> HIDE DEF To
  <2>3. Passes(Then(PutUnit(r), To), 2) BY <1>1, ThenPasses
  <2>4. QED BY <2>1, <2>2, <2>3, Zenon
<1>4. CASE d.schema = "U2E"
  <2>1. Turn(c, r, x) = DMAP_U2E(d.cd, r, x) BY <1>4, TurnOf
  <2> DEFINE To(w) == ToE(d.cd, w, x)
  <2>2. DMAP_U2E(d.cd, r, x) = Then(PutUnit(r), To) BY Zenon DEF DMAP_U2E, FromU
  <2> HIDE DEF To
  <2>3. Passes(Then(PutUnit(r), To), 2) BY <1>1, ThenPasses
  <2>4. QED BY <2>1, <2>2, <2>3, Zenon
<1>5. CASE d.schema = "U28"
  <2>1. Turn(c, r, x) = DMAP_U28(r) BY <1>5, TurnOf
  <2>2. DMAP_U28(r) = Then(PutUnit(r), PutPlain8) BY Zenon DEF DMAP_U28, FromU
  <2>3. Passes(Then(PutUnit(r), PutPlain8), 2)
    <3>1. PutUnit(r).kind = "go" /\ PutUnit(r).move = 2 BY <1>1 DEF Put
    <3>2. QED BY <3>1, Zenon DEF Then, Passes
  <2>4. QED BY <2>1, <2>2, <2>3, Zenon
<1>6. QED BY <1>2, <1>3, <1>4, <1>5 DEF SourceU

LEMMA BelowPasses ==
  ASSUME NEW d, d.schema \in Source8, NEW r, r[1] < 240, NEW n, NEW b, NEW k, From8(r) = Put(n, b, k),
         NEW c, c.schema = d.schema, c.cd = d.cd, NEW x
  PROVE  Passes(Turn(c, r, x), n)
<1>1. CASE d.schema = "82S"
  <2>1. Turn(c, r, x) = DMAP_82S(d.cd, r) BY <1>1, TurnOf
  <2> DEFINE To(w) == ToS(d.cd, w)
  <2>2. DMAP_82S(d.cd, r) = Then(From8(r), To) BY Zenon DEF DMAP_82S
  <2> HIDE DEF To
  <2>3. Passes(Then(From8(r), To), n) BY ThenPasses
  <2>4. QED BY <2>1, <2>2, <2>3, Zenon
<1>2. CASE d.schema = "82D"
  <2>1. Turn(c, r, x) = DMAP_82D(d.cd, r) BY <1>2, TurnOf
  <2> DEFINE To(w) == ToD(d.cd, w, U2D(d.cd, w)[1], w)
  <2>2. DMAP_82D(d.cd, r) = Then(From8(r), To) BY Zenon DEF DMAP_82D
  <2> HIDE DEF To
  <2>3. Passes(Then(From8(r), To), n) BY ThenPasses
  <2>4. QED BY <2>1, <2>2, <2>3, Zenon
<1>3. CASE d.schema = "82E"
  <2>1. Turn(c, r, x) = DMAP_82E(d.cd, r, x) BY <1>3, TurnOf
  <2> DEFINE To(w) == ToE(d.cd, w, x)
  <2>2. DMAP_82E(d.cd, r, x) = Then(From8(r), To) BY Zenon DEF DMAP_82E
  <2> HIDE DEF To
  <2>3. Passes(Then(From8(r), To), n) BY ThenPasses
  <2>4. QED BY <2>1, <2>2, <2>3, Zenon
<1>4. CASE d.schema = "82U"
  <2>1. Turn(c, r, x) = DMAP_82U(d.cd, r) BY <1>4, TurnOf
  <2>2. DMAP_82U(d.cd, r) = From8(r) BY Zenon DEF DMAP_82U
  <2>3. QED BY <2>1, <2>2, Zenon DEF Passes
<1>5. QED BY <1>1, <1>2, <1>3, <1>4 DEF Source8

LEMMA FourIsEither == ASSUME NEW r, NEW b1, NEW o
  PROVE  Four8(b1, r, o) = o \/ \E e : Four8(b1, r, o) = Stop(e)
<1>1. \/ Four8(b1, r, o) = o \/ Four8(b1, r, o) = TooShort(r) \/ Four8(b1, r, o) = Stop("EILSEQ")
  BY SMT DEF Four8
<1>2. \E e : TooShort(r) = Stop(e) BY Zenon DEF TooShort
<1>3. QED BY <1>1, <1>2, Zenon

(* Four bytes are passed or refused.                                       *)
StopsOrPasses(o, n) == Passes(o, n) \/ \E e : o = Stop(e)
LEMMA FourPasses ==
  ASSUME NEW d, d.schema \in Source8, NEW r, ~(r[1] < 240), NEW c, c.schema = d.schema, c.cd = d.cd, NEW x
  PROVE  StopsOrPasses(Turn(c, r, x), 4)
<1>1. \E e : NoSequence(r) = Stop(e) BY Zenon DEF NoSequence
<1>2. \A b, k : StopsOrPasses(Put(4, b, k), 4) BY Zenon DEF StopsOrPasses, Passes
<1>3. ASSUME NEW b1, NEW o, StopsOrPasses(o, 4) PROVE StopsOrPasses(Four8(b1, r, o), 4)
  BY <1>3, FourIsEither, Zenon DEF StopsOrPasses
<1>0. \A e : StopsOrPasses(Stop(e), 4) BY Zenon DEF StopsOrPasses
<1>9. StopsOrPasses(NoSequence(r), 4) BY <1>0, <1>1, Zenon
<1>4. CASE d.schema = "82S"
  <2>1. Turn(c, r, x) = DMAP_82S(d.cd, r) BY <1>4, TurnOf
  <2> DEFINE To(w) == ToS(d.cd, w)
             o == Then(Put(4, PairOf8(Masked(r[1]), r), 0), To)
  <2>2. DMAP_82S(d.cd, r) = IF Masked(r[1]) > 244
                            THEN IF Len(r) < 4 \/ ~TrailsUpto(r, 4) THEN NoSequence(r)
                                 ELSE Put(4, <<d.cd.subS>>, 1)
                            ELSE Four8(Masked(r[1]), r, o)
    BY Zenon DEF DMAP_82S
  <2> HIDE DEF To
  <2>3. StopsOrPasses(o, 4) BY ThenPasses DEF StopsOrPasses
  <2> HIDE DEF o
  <2>4. StopsOrPasses(NoSequence(r), 4) BY <1>9
  <2>5. QED BY <1>2, <1>3, <2>1, <2>2, <2>3, <2>4, Zenon
<1>5. CASE d.schema = "82U"
  <2>1. Turn(c, r, x) = DMAP_82U(d.cd, r) BY <1>5, TurnOf
  <2> DEFINE o == IF Masked(r[1]) = 244 /\ r[2] > 143 THEN Stop("EINVAL") ELSE Put(4, PairOf8(Masked(r[1]), r), 0)
  <2>2. DMAP_82U(d.cd, r) = IF d.cd.toCcsid = Ucs2 THEN Stop("EILSEQ")
                            ELSE IF Masked(r[1]) > 244 THEN NoSequence(r)
                            ELSE Four8(Masked(r[1]), r, o)
    BY Zenon DEF DMAP_82U
  <2> DEFINE p == PairOf8(Masked(r[1]), r)
  <2>0. o = Stop("EINVAL") \/ o = Put(4, p, 0) OBVIOUS
  <2> HIDE DEF o, p
  <2>3. StopsOrPasses(o, 4) BY <1>0, <1>2, <2>0, Zenon
  <2>4. StopsOrPasses(NoSequence(r), 4) BY <1>9
  <2>5. StopsOrPasses(Stop("EILSEQ"), 4) BY Zenon DEF StopsOrPasses
  <2>6. StopsOrPasses(Four8(Masked(r[1]), r, o), 4) BY <1>3, <2>3
  <2>7. QED BY <2>1, <2>2, <2>4, <2>5, <2>6, Zenon
<1>6. CASE d.schema \in {"82D", "82E"}
  <2>1. Turn(c, r, x) = FourToPage(d.cd, r)
    <3>1. CASE d.schema = "82D"
      <4>1. Turn(c, r, x) = DMAP_82D(d.cd, r) BY <3>1, TurnOf
      <4>2. QED BY <4>1, Zenon DEF DMAP_82D
    <3>2. CASE d.schema = "82E"
      <4>1. Turn(c, r, x) = DMAP_82E(d.cd, r, x) BY <3>2, TurnOf
      <4>2. QED BY <4>1, Zenon DEF DMAP_82E
    <3>3. QED BY <1>6, <3>1, <3>2
  <2>2. StopsOrPasses(Strange8(d.cd, r), 4)
    <3>1. \/ Strange8(d.cd, r) = Stop("EILSEQ") \/ Strange8(d.cd, r) = NoSequence(r)
          \/ \E b : Strange8(d.cd, r) = Put(4, b, 1)
      BY SMT DEF Strange8
    <3>2. QED BY <1>0, <1>2, <1>9, <3>1, Zenon
  <2>3. StopsOrPasses(Four8(r[1], r, Put(4, <<d.cd.subS>>, 1)), 4) BY <1>2, <1>3
  <2>4. QED BY <2>1, <2>2, <2>3, Zenon DEF FourToPage
<1>7. QED BY <1>4, <1>5, <1>6 DEF Source8

LEMMA LastByteEnds ==
  ASSUME NEW d, d.schema \in SourceT, NEW r, Len(r) = 1, NEW c, c.schema = d.schema, c.cd = d.cd, NEW x
  PROVE  \E k : Turn(c, r, x) = EndAfter(1, k)
<1>1. CASE d.schema = "T2S"
  <2>1. Turn(c, r, x) = DMAP_T2S(d.cd, r) BY <1>1, TurnOf
  <2>2. QED BY <2>1, Zenon DEF DMAP_T2S
<1>2. CASE d.schema = "T2D"
  <2>1. Turn(c, r, x) = DMAP_T2D(d.cd, r, x) BY <1>2, TurnOf
  <2>2. QED BY <2>1, Zenon DEF DMAP_T2D, FromT
<1>3. CASE d.schema = "T2E"
  <2>1. Turn(c, r, x) = DMAP_T2E(d.cd, r, x) BY <1>3, TurnOf
  <2>2. QED BY <2>1, Zenon DEF DMAP_T2E, FromT
<1>4. CASE d.schema = "T28"
  <2>1. Turn(c, r, x) = DMAP_T28(r) BY <1>4, TurnOf
  <2>2. QED BY <2>1, Zenon DEF DMAP_T28
<1>5. QED BY <1>1, <1>2, <1>3, <1>4 DEF SourceT

LEMMA Surrogate8 == ASSUME NEW r, r[1] = 237
  PROVE  r[1] < 240 /\ ((\E e : From8(r) = Stop(e)) \/ From8(r) = Put(3, Unit3(r), 0))
<1>1. r[1] < 240 /\ ~Ascii(r[1]) /\ ~LeadOf2(r[1]) /\ LeadOf3(r[1])
  BY SMT DEF Ascii, LeadOf2, LeadOf3
<1>2. QED BY <1>1, Zenon DEF From8

LEMMA TooLarge8 == \A b \in Octets : b = 244 \/ b >= 245 => ~(b < 240)
BY SMT DEF Octets
LEMMA OneIsOdd == 1 % 2 # 0
OBVIOUS

(* What iconv lets through is refused, or passed as it is.                 *)
LenientOutcome(d, r, o) ==
  \/ o.kind = "error"
  \/ d.schema \in SourceT /\ Len(r) = 1 /\ \E k : o = EndAfter(1, k)
  \/ d.schema \in SourceU /\ Len(r) % 2 = 0 /\ Passes(o, 2)
  \/ d.schema \in Source8 /\ Passes(o, Len(r))

LEMMA LenientTurn ==
  ASSUME NEW d, d.schema \in Schemas, d.schema # "U2U", NEW c, c.schema = d.schema, c.cd = d.cd,
         NEW r \in Seq(Octets), r # <<>>, Tolerated(d, r), NEW x
  PROVE  LenientOutcome(d, r, Turn(c, r, x))
<1>1. /\ (d.schema \in SourceU => d.schema \notin SourceT /\ d.schema \notin Source8)
      /\ (d.schema \in SourceT => d.schema \notin SourceU /\ d.schema \notin Source8)
      /\ (d.schema \in Source8 => d.schema \notin SourceU /\ d.schema \notin SourceT)
      /\ (d.schema \in SourcePage \/ d.schema = "S2S"
          => d.schema \notin SourceU /\ d.schema \notin SourceT /\ d.schema \notin Source8)
  BY DEF SourcePage, SourceS, SourceD, SourceE, SourceU, SourceT, Source8
<1>2. d.schema \in SourceU \/ d.schema \in SourceT \/ d.schema \in Source8
  <2>1. SUFFICES ASSUME d.schema \in SourcePage \/ d.schema = "S2S" PROVE FALSE BY AllSchemas
  <2>2. QED BY <1>1, <2>1, Zenon DEF Tolerated
<1>3. CASE d.schema \in SourceU
  <2>1. Len(r) % 2 = 0 BY <1>1, <1>3, Zenon DEF Tolerated
  <2>2. Len(r) # 1 BY <2>1, OneIsOdd
  <2>3. QED BY <1>3, <2>1, <2>2, UnitsPass DEF LenientOutcome
<1>4. CASE d.schema \in SourceT
  <2>1. Len(r) = 1 BY <1>1, <1>4, Zenon DEF Tolerated
  <2>2. QED BY <1>4, <2>1, LastByteEnds DEF LenientOutcome
<1>5. CASE d.schema \in Source8
  <2>1. (Len(r) = 3 /\ r[1] = 237) \/ (Len(r) = 4 /\ (r[1] = 244 \/ r[1] >= 245))
    BY <1>1, <1>5, Zenon DEF Tolerated
  <2>2. CASE Len(r) = 3 /\ r[1] = 237
    <3>1. CASE \E e : From8(r) = Stop(e)
      <4>1. PICK e : From8(r) = Stop(e) BY <3>1
      <4>2. Turn(c, r, x) = Stop(e) BY <1>5, <2>2, <4>1, Surrogate8, BelowFour
      <4>3. QED BY <4>2, Stops DEF LenientOutcome
    <3>2. CASE From8(r) = Put(3, Unit3(r), 0)
      <4>1. Passes(Turn(c, r, x), 3) BY <1>5, <2>2, <3>2, Surrogate8, BelowPasses
      <4>2. QED BY <1>5, <2>2, <4>1, Zenon DEF LenientOutcome
    <3>3. QED BY <2>2, <3>1, <3>2, Surrogate8
  <2>3. CASE Len(r) = 4 /\ (r[1] = 244 \/ r[1] >= 245)
    <3>1. ~(r[1] < 240) BY <2>3, Beginnings, TooLarge8
    <3>2. StopsOrPasses(Turn(c, r, x), 4) BY <1>5, <3>1, FourPasses
    <3>3. CASE Passes(Turn(c, r, x), 4) BY <1>5, <2>3, <3>3, Zenon DEF LenientOutcome
    <3>4. CASE \E e : Turn(c, r, x) = Stop(e)
      <4>1. PICK e : Turn(c, r, x) = Stop(e) BY <3>4
      <4>2. QED BY <4>1, Stops DEF LenientOutcome
    <3>5. QED BY <3>2, <3>3, <3>4 DEF StopsOrPasses
  <2>4. QED BY <2>1, <2>2, <2>3
<1>6. QED BY <1>2, <1>3, <1>4, <1>5

-----------------------------------------------------------------------------
(* The characters of a text, one behind the other.                         *)

(* What Joined and Total compute, step by step: one at a time.             *)
Zero(sum) == IF sum THEN 0 ELSE <<>>
Plus(sum, a, b) == IF sum THEN a + b ELSE a \o b
SummedTo(sum, p, u, k) == IF k = 0 THEN Zero(sum) ELSE Plus(sum, u[k - 1], p[k])
Sum(sum, p) == IF sum THEN Total(p) ELSE Joined(p)

LEMMA SumSteps ==
  ASSUME NEW sum \in BOOLEAN, NEW p, Len(p) \in Nat
  PROVE  \E u : /\ Sum(sum, p) = u[Len(p)]
                /\ \A k \in 0 .. Len(p) : u[k] = SummedTo(sum, p, u, k)
<1> DEFINE N == Len(p)
           P == {m \in Nat : \E u : u = [k \in 0 .. m |-> SummedTo(sum, p, u, k)]}
<1>1. N \in Nat OBVIOUS
<1> HIDE DEF N
<1>2. 0 \in P
  <2>1. [k \in 0 .. 0 |-> Zero(sum)] = [k \in 0 .. 0 |-> SummedTo(sum, p, [l \in 0 .. 0 |-> Zero(sum)], k)]
    BY DEF SummedTo
  <2>2. QED BY <2>1
<1>3. ASSUME NEW m \in 0 .. N - 1, m \in P PROVE m + 1 \in P
  <2>1. PICK u : u = [k \in 0 .. m |-> SummedTo(sum, p, u, k)] BY <1>3
  <2> DEFINE v == [k \in 0 .. m + 1 |-> IF k <= m THEN u[k] ELSE SummedTo(sum, p, u, k)]
  <2>2. ASSUME NEW k \in 0 .. m + 1 PROVE v[k] = SummedTo(sum, p, v, k)
    <3>1. k # 0 => k - 1 \in 0 .. m /\ v[k - 1] = u[k - 1] BY <1>1
    <3>2. SummedTo(sum, p, v, k) = SummedTo(sum, p, u, k) BY <3>1 DEF SummedTo
    <3>3. k <= m => u[k] = SummedTo(sum, p, u, k) BY <2>1
    <3>4. QED BY <3>2, <3>3
  <2>3. v = [k \in 0 .. m + 1 |-> SummedTo(sum, p, v, k)] BY <2>2
  <2> HIDE DEF v
  <2>4. QED BY <2>3, <1>1
<1>4. N \in P
  <2> HIDE DEF P
  <2>1. \A m \in 0 .. N - 1 : m \in P => m + 1 \in P BY <1>3
  <2>2. \A m \in 0 .. N : m \in P BY <1>1, <1>2, <2>1, InductionUpTo
  <2>3. QED BY <1>1, <2>2
<1> DEFINE u == CHOOSE u : u = [k \in 0 .. N |-> SummedTo(sum, p, u, k)]
<1>5. u = [k \in 0 .. N |-> SummedTo(sum, p, u, k)] BY <1>4
<1>6. Sum(sum, p) = u[N]
  <2>1. CASE sum = TRUE
    <3>1. Total(p) = u[N] BY <2>1 DEF Total, SummedTo, Zero, Plus, N
    <3>2. QED BY <2>1, <3>1 DEF Sum
  <2>2. CASE sum = FALSE
    <3>1. Joined(p) = u[N] BY <2>2 DEF Joined, SummedTo, Zero, Plus, N
    <3>2. QED BY <2>2, <3>1 DEF Sum
  <2>3. QED BY <2>1, <2>2
<1> HIDE DEF u
<1>7. \A k \in 0 .. N : u[k] = SummedTo(sum, p, u, k) BY <1>5
<1>8. QED BY <1>6, <1>7 DEF N

LEMMA SumOfNone == ASSUME NEW sum \in BOOLEAN, NEW p, Len(p) = 0 PROVE Sum(sum, p) = Zero(sum)
<1>1. PICK u : /\ Sum(sum, p) = u[Len(p)]
               /\ \A k \in 0 .. Len(p) : u[k] = SummedTo(sum, p, u, k)
  BY SumSteps
<1>2. 0 \in 0 .. Len(p) OBVIOUS
<1>3. u[0] = SummedTo(sum, p, u, 0) BY <1>1, <1>2
<1>4. QED BY <1>1, <1>3 DEF SummedTo

(* One more part is put behind the others.                                 *)
LEMMA SumGrows ==
  ASSUME NEW sum \in BOOLEAN, NEW m \in Nat, NEW p, Len(p) = m, NEW q, Len(q) = m + 1,
         \A k \in 1 .. m : q[k] = p[k]
  PROVE  Sum(sum, q) = Plus(sum, Sum(sum, p), q[m + 1])
<1>1. PICK u : Sum(sum, p) = u[m] /\ \A k \in 0 .. m : u[k] = SummedTo(sum, p, u, k)
  BY SumSteps
<1>2. PICK v : Sum(sum, q) = v[m + 1] /\ \A k \in 0 .. m + 1 : v[k] = SummedTo(sum, q, v, k)
  <2>1. Len(q) \in Nat OBVIOUS
  <2>2. QED BY <2>1, SumSteps
<1> DEFINE P == {k \in 0 .. m : u[k] = v[k]}
<1>3. 0 \in P
  <2>1. 0 \in 0 .. m /\ 0 \in 0 .. m + 1 OBVIOUS
  <2>2. u[0] = Zero(sum) BY <1>1, <2>1 DEF SummedTo
  <2>3. v[0] = Zero(sum) BY <1>2, <2>1 DEF SummedTo
  <2>4. QED BY <2>1, <2>2, <2>3
<1>4. ASSUME NEW k \in 0 .. m - 1, k \in P PROVE k + 1 \in P
  <2>1. k + 1 \in 0 .. m /\ k + 1 \in 0 .. m + 1 /\ k + 1 # 0 /\ (k + 1) - 1 = k /\ k + 1 \in 1 .. m OBVIOUS
  <2>2. u[k + 1] = Plus(sum, u[k], p[k + 1])
    <3>1. u[k + 1] = SummedTo(sum, p, u, k + 1) BY <1>1, <2>1
    <3>2. QED BY <2>1, <3>1 DEF SummedTo
  <2>3. v[k + 1] = Plus(sum, v[k], q[k + 1])
    <3>1. v[k + 1] = SummedTo(sum, q, v, k + 1) BY <1>2, <2>1
    <3>2. QED BY <2>1, <3>1 DEF SummedTo
  <2>4. u[k] = v[k] /\ q[k + 1] = p[k + 1] BY <1>4, <2>1
  <2>5. QED BY <2>1, <2>2, <2>3, <2>4, Zenon
<1>5. u[m] = v[m]
  <2> HIDE DEF P
  <2>1. \A k \in 0 .. m - 1 : k \in P => k + 1 \in P BY <1>4
  <2>2. \A k \in 0 .. m : k \in P BY <1>3, <2>1, InductionUpTo
  <2>3. QED BY <2>2 DEF P
<1>6. v[m + 1] = Plus(sum, v[m], q[m + 1])
  <2>1. m + 1 \in 0 .. m + 1 /\ m + 1 # 0 /\ (m + 1) - 1 = m OBVIOUS
  <2>2. v[m + 1] = SummedTo(sum, q, v, m + 1) BY <1>2, <2>1
  <2>3. QED BY <2>1, <2>2 DEF SummedTo
<1>7. QED BY <1>1, <1>2, <1>5, <1>6, Zenon

(* The text of the first n items, and what should become of it.            *)
Of(items, n) == SubSeq(items, 1, n)
End(items, n) == Len(Text(Of(items, n)))

LEMMA FirstItems ==
  ASSUME NEW S, NEW items \in Seq(S), NEW n \in 0 .. Len(items)
  PROVE  /\ Of(items, n) \in Seq(S) /\ Len(Of(items, n)) = n
         /\ \A k \in 1 .. n : Of(items, n)[k] = items[k]
         /\ Of(items, Len(items)) = items
BY DEF Of

LEMMA ItemsGrow ==
  ASSUME NEW S, NEW items \in Seq(S), NEW n \in 0 .. Len(items) - 1
  PROVE  /\ Text(Of(items, n + 1)) = Text(Of(items, n)) \o items[n + 1].src
         /\ Target(Of(items, n + 1)) = Target(Of(items, n)) \o items[n + 1].dst
         /\ Surely(Of(items, n + 1)) = Surely(Of(items, n)) + Count(0 \notin items[n + 1].subs)
         /\ Possibly(Of(items, n + 1)) = Possibly(Of(items, n)) + Count(1 \in items[n + 1].subs)
<1> DEFINE a == Of(items, n)
           b == Of(items, n + 1)
<1>1. n \in Nat /\ n + 1 \in Nat /\ n \in 0 .. Len(items) /\ n + 1 \in 0 .. Len(items) /\ n + 1 \in 1 .. n + 1 OBVIOUS
<1>2. Len(a) = n /\ Len(b) = n + 1 BY <1>1, FirstItems
<1>3. \A k \in 1 .. n : a[k] = items[k] BY <1>1, FirstItems
<1>4. \A k \in 1 .. n + 1 : b[k] = items[k] BY <1>1, FirstItems
<1> HIDE DEF a, b
<1>5. \A k \in 1 .. n : k \in 1 .. n + 1 /\ b[k] = a[k] BY <1>1, <1>3, <1>4
<1>6. b[n + 1] = items[n + 1] BY <1>1, <1>4
<1>7. Text(b) = Text(a) \o items[n + 1].src
  <2> DEFINE p == [i \in 1 .. Len(a) |-> a[i].src]
             q == [i \in 1 .. Len(b) |-> b[i].src]
  <2>1. Len(p) = n /\ Len(q) = n + 1 /\ q[n + 1] = items[n + 1].src BY <1>1, <1>2, <1>6
  <2>2. \A k \in 1 .. n : q[k] = p[k] BY <1>1, <1>2, <1>5
  <2>3. Text(a) = Joined(p) /\ Text(b) = Joined(q) BY DEF Text
  <2> HIDE DEF p, q
  <2>4. Sum(FALSE, q) = Plus(FALSE, Sum(FALSE, p), q[n + 1]) BY <1>1, <2>1, <2>2, SumGrows
  <2>5. QED BY <2>1, <2>3, <2>4 DEF Sum, Plus
<1>8. Target(b) = Target(a) \o items[n + 1].dst
  <2> DEFINE p == [i \in 1 .. Len(a) |-> a[i].dst]
             q == [i \in 1 .. Len(b) |-> b[i].dst]
  <2>1. Len(p) = n /\ Len(q) = n + 1 /\ q[n + 1] = items[n + 1].dst BY <1>1, <1>2, <1>6
  <2>2. \A k \in 1 .. n : q[k] = p[k] BY <1>1, <1>2, <1>5
  <2>3. Target(a) = Joined(p) /\ Target(b) = Joined(q) BY DEF Target
  <2> HIDE DEF p, q
  <2>4. Sum(FALSE, q) = Plus(FALSE, Sum(FALSE, p), q[n + 1]) BY <1>1, <2>1, <2>2, SumGrows
  <2>5. QED BY <2>1, <2>3, <2>4 DEF Sum, Plus
<1>9. Surely(b) = Surely(a) + Count(0 \notin items[n + 1].subs)
  <2> DEFINE p == [i \in 1 .. Len(a) |-> Count(0 \notin a[i].subs)]
             q == [i \in 1 .. Len(b) |-> Count(0 \notin b[i].subs)]
  <2>1. Len(p) = n /\ Len(q) = n + 1 /\ q[n + 1] = Count(0 \notin b[n + 1].subs) BY <1>1, <1>2
  <2>2. \A k \in 1 .. n : q[k] = p[k]
    <3>1. ASSUME NEW k \in 1 .. n PROVE q[k] = p[k]
      <4>1. q[k] = Count(0 \notin b[k].subs) /\ p[k] = Count(0 \notin a[k].subs) BY <1>1, <1>2
      <4>2. QED BY <1>5, <4>1
    <3>2. QED BY <3>1
  <2>3. Surely(a) = Total(p) /\ Surely(b) = Total(q) BY DEF Surely
  <2> HIDE DEF p, q
  <2>4. Sum(TRUE, q) = Plus(TRUE, Sum(TRUE, p), q[n + 1]) BY <1>1, <2>1, <2>2, SumGrows
  <2>5. QED BY <1>6, <2>1, <2>3, <2>4 DEF Sum, Plus
<1>10. Possibly(b) = Possibly(a) + Count(1 \in items[n + 1].subs)
  <2> DEFINE p == [i \in 1 .. Len(a) |-> Count(1 \in a[i].subs)]
             q == [i \in 1 .. Len(b) |-> Count(1 \in b[i].subs)]
  <2>1. Len(p) = n /\ Len(q) = n + 1 /\ q[n + 1] = Count(1 \in b[n + 1].subs) BY <1>1, <1>2
  <2>2. \A k \in 1 .. n : q[k] = p[k]
    <3>1. ASSUME NEW k \in 1 .. n PROVE q[k] = p[k]
      <4>1. q[k] = Count(1 \in b[k].subs) /\ p[k] = Count(1 \in a[k].subs) BY <1>1, <1>2
      <4>2. QED BY <1>5, <4>1
    <3>2. QED BY <3>1
  <2>3. Possibly(a) = Total(p) /\ Possibly(b) = Total(q) BY DEF Possibly
  <2> HIDE DEF p, q
  <2>4. Sum(TRUE, q) = Plus(TRUE, Sum(TRUE, p), q[n + 1]) BY <1>1, <2>1, <2>2, SumGrows
  <2>5. QED BY <1>6, <2>1, <2>3, <2>4 DEF Sum, Plus
<1>11. QED BY <1>7, <1>8, <1>9, <1>10 DEF a, b

LEMMA NoItems ==
  ASSUME NEW S, NEW items \in Seq(S)
  PROVE  /\ Text(Of(items, 0)) = <<>> /\ Target(Of(items, 0)) = <<>>
         /\ Surely(Of(items, 0)) = 0 /\ Possibly(Of(items, 0)) = 0 /\ End(items, 0) = 0
<1>1. Len(Of(items, 0)) = 0 BY DEF Of
<1> DEFINE a == Of(items, 0)
<1> HIDE DEF a
<1>2. Len(a) = 0 BY <1>1 DEF a
<1>3. Text(a) = <<>>
  <2> DEFINE p == [i \in 1 .. Len(a) |-> a[i].src]
  <2>1. Len(p) = 0 BY <1>2
  <2>2. Text(a) = Joined(p) BY DEF Text
  <2> HIDE DEF p
  <2>3. Sum(FALSE, p) = Zero(FALSE) BY <2>1, SumOfNone
  <2>4. QED BY <2>2, <2>3 DEF Sum, Zero
<1>4. Target(a) = <<>>
  <2> DEFINE p == [i \in 1 .. Len(a) |-> a[i].dst]
  <2>1. Len(p) = 0 BY <1>2
  <2>2. Target(a) = Joined(p) BY DEF Target
  <2> HIDE DEF p
  <2>3. Sum(FALSE, p) = Zero(FALSE) BY <2>1, SumOfNone
  <2>4. QED BY <2>2, <2>3 DEF Sum, Zero
<1>5. Surely(a) = 0
  <2> DEFINE p == [i \in 1 .. Len(a) |-> Count(0 \notin a[i].subs)]
  <2>1. Len(p) = 0 BY <1>2
  <2>2. Surely(a) = Total(p) BY DEF Surely
  <2> HIDE DEF p
  <2>3. Sum(TRUE, p) = Zero(TRUE) BY <2>1, SumOfNone
  <2>4. QED BY <2>2, <2>3 DEF Sum, Zero
<1>6. Possibly(a) = 0
  <2> DEFINE p == [i \in 1 .. Len(a) |-> Count(1 \in a[i].subs)]
  <2>1. Len(p) = 0 BY <1>2
  <2>2. Possibly(a) = Total(p) BY DEF Possibly
  <2> HIDE DEF p
  <2>3. Sum(TRUE, p) = Zero(TRUE) BY <2>1, SumOfNone
  <2>4. QED BY <2>2, <2>3 DEF Sum, Zero
<1>7. QED BY <1>3, <1>4, <1>5, <1>6, EmptyIsZero DEF a, End

(* Items with bytes of their own lie one behind the other in the text.     *)
HaveBytes(items) == \A k \in 1 .. Len(items) : items[k].src \in Seq(Octets) /\ items[k].src # <<>>

LEMMA TextsAreBytes ==
  ASSUME NEW S, NEW items \in Seq(S), HaveBytes(items)
  PROVE  \A n \in 0 .. Len(items) : Text(Of(items, n)) \in Seq(Octets) /\ End(items, n) \in Nat
<1> DEFINE N == Len(items)
           P == {n \in 0 .. N : Text(Of(items, n)) \in Seq(Octets)}
<1>1. N \in Nat OBVIOUS
<1> HIDE DEF N
<1>2. 0 \in P
  <2>1. Text(Of(items, 0)) = <<>> BY NoItems
  <2>2. <<>> \in Seq(Octets) /\ 0 \in 0 .. N BY <1>1
  <2>3. QED BY <2>1, <2>2, Zenon
<1>3. ASSUME NEW n \in 0 .. N - 1, n \in P PROVE n + 1 \in P
  <2>1. n + 1 \in 0 .. N /\ n + 1 \in 1 .. N BY <1>1
  <2>2. Text(Of(items, n + 1)) = Text(Of(items, n)) \o items[n + 1].src BY ItemsGrow DEF N
  <2>3. items[n + 1].src \in Seq(Octets) BY <2>1 DEF HaveBytes, N
  <2>4. Text(Of(items, n + 1)) \in Seq(Octets) BY <1>3, <2>2, <2>3, ConcatProperties
  <2>5. QED BY <2>1, <2>4
<1>4. \A n \in 0 .. N : n \in P
  <2> HIDE DEF P
  <2>1. \A n \in 0 .. N - 1 : n \in P => n + 1 \in P BY <1>3
  <2>2. QED BY <1>1, <1>2, <2>1, InductionUpTo
<1>5. QED BY <1>4 DEF N, End

LEMMA EndGrows ==
  ASSUME NEW S, NEW items \in Seq(S), HaveBytes(items), NEW n \in 0 .. Len(items) - 1
  PROVE  /\ End(items, n + 1) = End(items, n) + Len(items[n + 1].src)
         /\ Len(items[n + 1].src) \in Nat \ {0} /\ End(items, n) < End(items, n + 1)
         /\ End(items, n) \in Nat /\ End(items, n + 1) \in Nat
         /\ items[n + 1].src \in Seq(Octets)
<1>1. n + 1 \in 1 .. Len(items) /\ n \in 0 .. Len(items) /\ n + 1 \in 0 .. Len(items) OBVIOUS
<1>2. items[n + 1].src \in Seq(Octets) /\ items[n + 1].src # <<>> BY <1>1 DEF HaveBytes
<1> DEFINE s == items[n + 1].src
           t == Text(Of(items, n))
<1>3. Len(s) \in Nat \ {0} BY <1>2
<1>4. t \in Seq(Octets) /\ End(items, n) \in Nat /\ End(items, n + 1) \in Nat
  BY <1>1, TextsAreBytes
<1>5. Text(Of(items, n + 1)) = t \o s BY ItemsGrow
<1> HIDE DEF s, t
<1>6. s \in Seq(Octets) BY <1>2 DEF s
<1>7. Len(t \o s) = Len(t) + Len(s) BY <1>4, <1>6
<1>8. End(items, n) = Len(t) BY DEF End, t
<1>9. End(items, n + 1) = Len(t) + Len(s) BY <1>5, <1>7 DEF End
<1>10. QED BY <1>2, <1>3, <1>4, <1>8, <1>9 DEF s

(* The text of the first n items is the beginning of the whole text.       *)
LEMMA TextGrows ==
  ASSUME NEW S, NEW items \in Seq(S), HaveBytes(items), NEW n \in 0 .. Len(items)
  PROVE  \A k \in n .. Len(items) :
           /\ End(items, n) <= End(items, k)
           /\ n < k => End(items, n) < End(items, k)
           /\ \A i \in 1 .. End(items, n) : Text(Of(items, k))[i] = Text(Of(items, n))[i]
<1> DEFINE N == Len(items)
           Fits(k) == /\ End(items, n) <= End(items, k)
                      /\ n < k => End(items, n) < End(items, k)
                      /\ \A i \in 1 .. End(items, n) : Text(Of(items, k))[i] = Text(Of(items, n))[i]
           P == {m \in 0 .. N - n : Fits(n + m)}
<1>1. N \in Nat /\ n \in 0 .. N /\ N - n \in Nat /\ n \in Nat OBVIOUS
<1>2. End(items, n) \in Nat BY TextsAreBytes
<1> HIDE DEF N
<1>3. 0 \in P
  <2>1. n + 0 = n BY <1>1
  <2>2. Fits(n) BY <1>1, <1>2
  <2>3. 0 \in 0 .. N - n BY <1>1
  <2> HIDE DEF Fits
  <2>4. QED BY <2>1, <2>2, <2>3
<1>4. ASSUME NEW m \in 0 .. (N - n) - 1, m \in P PROVE m + 1 \in P
  <2> DEFINE k == n + m
             s == items[k + 1].src
             t == Text(Of(items, k))
             w == Text(Of(items, k + 1))
  <2>1. k \in 0 .. N - 1 /\ k + 1 = n + (m + 1) /\ m + 1 \in 0 .. N - n /\ k \in 0 .. N /\ k + 1 \in 0 .. N /\ n < k + 1
    BY <1>1
  <2>2. Fits(k) BY <1>4
  <2> HIDE DEF k
  <2>3. /\ End(items, k) < End(items, k + 1) /\ End(items, k) \in Nat /\ End(items, k + 1) \in Nat
        /\ s \in Seq(Octets) /\ End(items, k + 1) = End(items, k) + Len(s)
    BY <2>1, EndGrows DEF N
  <2>4. w = t \o s BY <2>1, ItemsGrow DEF N
  <2>5. t \in Seq(Octets) /\ Len(t) = End(items, k) BY <2>1, TextsAreBytes DEF N, End
  <2> HIDE DEF s, t, w
  <2>6. \A i \in 1 .. Len(t) : w[i] = t[i] BY <2>3, <2>4, <2>5, ConcatProperties
  <2>7. End(items, n) <= End(items, k) BY <2>2
  <2>8. End(items, n) < End(items, k + 1) BY <1>2, <2>3, <2>7
  <2>9. ASSUME NEW i \in 1 .. End(items, n) PROVE w[i] = Text(Of(items, n))[i]
    <3>1. i \in 1 .. Len(t) BY <1>2, <2>3, <2>5, <2>7
    <3>2. t[i] = Text(Of(items, n))[i] BY <2>2 DEF t
    <3>3. QED BY <2>6, <3>1, <3>2
  <2>10. Fits(k + 1)
    <3>1. End(items, n) <= End(items, k + 1) BY <1>2, <2>3, <2>8
    <3>2. QED BY <2>8, <2>9, <3>1 DEF w
  <2> HIDE DEF Fits
  <2>11. QED BY <2>1, <2>10
<1>5. \A m \in 0 .. N - n : m \in P
  <2> HIDE DEF P
  <2>1. \A m \in 0 .. (N - n) - 1 : m \in P => m + 1 \in P BY <1>4
  <2>2. QED BY <1>1, <1>3, <2>1, InductionUpTo
<1>6. ASSUME NEW k \in n .. N PROVE Fits(k)
  <2>1. k - n \in 0 .. N - n /\ n + (k - n) = k BY <1>1
  <2>2. Fits(n + (k - n)) BY <1>5, <2>1
  <2> HIDE DEF Fits
  <2>3. QED BY <2>1, <2>2
<1>7. QED BY <1>6 DEF N

LEMMA BehindText ==
  ASSUME NEW t \in Seq(Octets), NEW s \in Seq(Octets), NEW i \in 1 .. Len(s)
  PROVE  (t \o s)[Len(t) + i] = s[i]
<1> DEFINE j == Len(t) + i
<1>1. Len(t) \in Nat /\ Len(s) \in Nat OBVIOUS
<1>2. j \in 1 .. Len(t) + Len(s) /\ ~(j <= Len(t)) /\ j - Len(t) = i BY <1>1
<1> HIDE DEF j
<1>3. (t \o s)[j] = IF j <= Len(t) THEN t[j] ELSE s[j - Len(t)] BY <1>2, ConcatProperties
<1>4. QED BY <1>2, <1>3 DEF j

(* Where an item's bytes are.                                              *)
LEMMA TextAt ==
  ASSUME NEW S, NEW items \in Seq(S), HaveBytes(items), NEW n \in 0 .. Len(items) - 1
  PROVE  /\ End(items, n + 1) <= Len(Text(items))
         /\ \A i \in 1 .. Len(items[n + 1].src) :
              Text(items)[End(items, n) + i] = items[n + 1].src[i]
<1> DEFINE s == items[n + 1].src
           t == Text(Of(items, n))
           w == Text(Of(items, n + 1))
           N == Len(items)
<1>1. N \in Nat /\ n \in Nat /\ n + 1 \in 0 .. N /\ n \in 0 .. N /\ N \in (n + 1) .. N OBVIOUS
<1>2. Of(items, N) = items BY <1>1, FirstItems
<1>3. /\ End(items, n) \in Nat /\ End(items, n + 1) \in Nat
      /\ s \in Seq(Octets) /\ End(items, n + 1) = End(items, n) + Len(s)
  BY EndGrows
<1>4. w = t \o s BY ItemsGrow
<1>5. t \in Seq(Octets) /\ Len(t) = End(items, n) BY <1>1, TextsAreBytes DEF End
<1>6. /\ End(items, n + 1) <= End(items, N)
      /\ \A i \in 1 .. End(items, n + 1) : Text(Of(items, N))[i] = w[i]
  BY <1>1, TextGrows
<1>7. Len(s) \in Nat BY <1>3
<1> HIDE DEF s, t, w, N
<1>8. ASSUME NEW i \in 1 .. Len(s) PROVE Text(items)[End(items, n) + i] = s[i]
  <2>1. Len(t) + i \in 1 .. End(items, n + 1) BY <1>3, <1>5, <1>7
  <2>2. w[Len(t) + i] = s[i] BY <1>3, <1>4, <1>5, BehindText
  <2>3. Text(items)[Len(t) + i] = w[Len(t) + i] BY <1>2, <1>6, <2>1
  <2>4. QED BY <1>5, <2>2, <2>3, Zenon
<1>9. End(items, N) = Len(Text(items)) BY <1>2 DEF End
<1>10. QED BY <1>6, <1>8, <1>9 DEF s

-----------------------------------------------------------------------------
(* A conversion, turn by turn.                                             *)

(* A text of items for the descriptor d.                                   *)
TextFor(d) ==
  /\ d.schema \in Schemas /\ d.schema # "U2U" /\ TablesFit(d)
  /\ call.schema = d.schema /\ call.cd = d.cd
  /\ IsText(d, call.items) /\ call.text = Text(call.items)

ItemsSet == {call.items[k] : k \in DOMAIN call.items}

LEMMA TextsItems ==
  ASSUME NEW d, TextFor(d)
  PROVE  /\ call.items \in Seq(ItemsSet) /\ HaveBytes(call.items)
         /\ Len(call.items) \in Nat /\ OkCount \in 0 .. Len(call.items)
         /\ \A k \in 1 .. OkCount : IsItem(d, call.items[k]) /\ call.items[k].is = "ok"
         /\ OkCount < Len(call.items) =>
              /\ OkCount + 1 = Len(call.items) /\ Len(call.items) \in 1 .. Len(call.items)
              /\ IsItem(d, call.items[Len(call.items)])
              /\ EndsIn("bad") \/ EndsIn("lenient")
<1> DEFINE its == call.items
           N == Len(its)
           S == ItemsSet
<1>1. its \in Seq(S) /\ (\A k \in 1 .. N : IsItem(d, its[k]) /\ (k < N => its[k].is = "ok"))
  BY DEF TextFor, IsText, ItemsSet
<1>2. N \in Nat BY <1>1
<1>3. OkCount = N - Count(MalformedEnd(its)) BY DEF OkCount
<1>4. HaveBytes(its) BY <1>1 DEF HaveBytes, IsItem, Octets
<1>5. N # 0 => N \in 1 .. N BY <1>2
<1>6. its # <<>> <=> N # 0 BY <1>1
<1> HIDE DEF its, N, S
<1>7. CASE MalformedEnd(its)
  <2>1. Count(MalformedEnd(its)) = 1 BY <1>7, Zenon DEF Count
  <2>2. N # 0 /\ its[N].is # "ok" BY <1>6, <1>7 DEF MalformedEnd, N
  <2>3. OkCount = N - 1 BY <1>3, <2>1
  <2>4. OkCount \in 0 .. N /\ OkCount + 1 = N /\ N \in 1 .. N /\ OkCount < N BY <1>2, <2>2, <2>3
  <2>5. \A k \in 1 .. OkCount : IsItem(d, its[k]) /\ its[k].is = "ok"
    <3>1. ASSUME NEW k \in 1 .. OkCount PROVE k \in 1 .. N /\ k < N BY <1>2, <2>3
    <3>2. QED BY <1>1, <3>1
  <2>6. IsItem(d, its[N]) BY <1>1, <2>4
  <2>7. its[N].is = "bad" \/ its[N].is = "lenient" BY <2>2, <2>6 DEF IsItem
  <2>8. EndsIn("bad") \/ EndsIn("lenient") BY <2>4, <2>7 DEF EndsIn, its, N
  <2>9. QED BY <1>1, <1>2, <1>4, <2>4, <2>5, <2>6, <2>8 DEF its, N, S
<1>8. CASE ~MalformedEnd(its)
  <2>1. Count(MalformedEnd(its)) = 0 BY <1>8, Zenon DEF Count
  <2>2. N # 0 => its[N].is = "ok" BY <1>6, <1>8 DEF MalformedEnd, N
  <2>3. OkCount = N BY <1>2, <1>3, <2>1
  <2>4. \A k \in 1 .. OkCount : IsItem(d, its[k]) /\ its[k].is = "ok"
    <3>1. ASSUME NEW k \in 1 .. N PROVE IsItem(d, its[k]) /\ its[k].is = "ok"
      <4>1. k < N \/ (k = N /\ N # 0) BY <1>2
      <4>2. QED BY <1>1, <2>2, <4>1
    <3>2. QED BY <2>3, <3>1
  <2>5. OkCount \in 0 .. N /\ ~(OkCount < N) BY <1>2, <2>3
  <2>6. QED BY <1>1, <1>2, <1>4, <2>4, <2>5 DEF its, N, S
<1>9. QED BY <1>7, <1>8

(* Between two characters.                                                 *)
AtItem(n) ==
  /\ pIn = Ends(n) /\ inLen = Len(call.text) - Ends(n) /\ out = Target(First(n))
  /\ numS \in Surely(First(n)) .. Possibly(First(n))

LEMMA FirstIsOf == ASSUME NEW n PROVE First(n) = Of(call.items, n) /\ Ends(n) = End(call.items, n)
BY DEF First, Of, Ends, End

LEMMA LeftOver == \A e, m, l, g : e \in Nat /\ m \in Nat \ {0} /\ l \in Nat /\ g = e + m /\ g <= l
                    => l - e \in Nat /\ l - e >= m /\ l - e > 0
OBVIOUS

(* What is left at an item begins with it, and is it at the last.          *)
LEMMA RestHas ==
  ASSUME NEW S, NEW its \in Seq(S), HaveBytes(its), call.text = Text(its), NEW n \in 0 .. Len(its) - 1,
         pIn = End(its, n), inLen = Len(call.text) - End(its, n), NEW x
  PROVE  /\ Begins(Rest(x), its[n + 1].src)
         /\ inLen \in Nat /\ inLen >= Len(its[n + 1].src) /\ inLen > 0
         /\ n + 1 = Len(its) => Rest(x) = its[n + 1].src /\ inLen = Len(its[n + 1].src)
         /\ \A i \in 1 .. inLen : Rest(x)[i] = call.text[pIn + i]
         /\ call.text \in Seq(Octets) /\ pIn + inLen = Len(call.text) /\ pIn \in Nat
<1> DEFINE s == its[n + 1].src
           e == End(its, n)
           t == call.text
<1>1. its \in Seq(S) /\ HaveBytes(its) /\ Len(its) \in Nat OBVIOUS
<1>2. t = Text(its) OBVIOUS
<1>3. e = End(its, n) OBVIOUS
<1>4. /\ End(its, n + 1) = e + Len(s) /\ Len(s) \in Nat \ {0} /\ e \in Nat /\ s \in Seq(Octets)
      /\ End(its, n + 1) \in Nat
  BY <1>1, <1>3, EndGrows
<1>5. End(its, n + 1) <= Len(t) /\ \A i \in 1 .. Len(s) : t[e + i] = s[i]
  BY <1>1, <1>2, <1>3, TextAt
<1>6. Len(t) \in Nat /\ t \in Seq(Octets)
  <2>1. Len(its) \in 0 .. Len(its) BY <1>1
  <2>2. Text(Of(its, Len(its))) \in Seq(Octets) BY <1>1, <2>1, TextsAreBytes
  <2>3. Of(its, Len(its)) = its BY <1>1, <2>1, FirstItems
  <2>4. t \in Seq(Octets) BY <1>2, <2>2, <2>3
  <2> HIDE DEF t
  <2>5. Len(t) \in Nat BY <2>4
  <2>6. QED BY <2>4, <2>5
<1>7. pIn = e /\ inLen = Len(t) - e OBVIOUS
<1>8. n + 1 = Len(its) => Len(t) = e + Len(s)
  <2>1. Of(its, Len(its)) = its
    <3>1. Len(its) \in 0 .. Len(its) BY <1>1
    <3>2. QED BY <1>1, <3>1, FirstItems
  <2>2. n + 1 = Len(its) => End(its, n + 1) = Len(t) BY <1>2, <2>1 DEF End
  <2>3. QED BY <1>4, <2>2
<1> HIDE DEF s, e, t
<1>9. inLen \in Nat /\ inLen >= Len(s) /\ inLen > 0
  <2>1. Len(t) - e \in Nat /\ Len(t) - e >= Len(s) /\ Len(t) - e > 0
    BY <1>4, <1>5, <1>6, LeftOver, Zenon
  <2>2. QED BY <1>7, <2>1, Zenon
<1>10. Rest(x) = [i \in 1 .. inLen |-> IF pIn + i <= Len(t) THEN t[pIn + i] ELSE x]
  BY DEF Rest, t
<1>11. Len(Rest(x)) = inLen BY <1>9, <1>10
<1>12. ASSUME NEW i \in 1 .. Len(s) PROVE Rest(x)[i] = s[i]
  <2>1. i \in 1 .. inLen BY <1>4, <1>9
  <2>2. pIn + i <= Len(t) BY <1>4, <1>5, <1>6, <1>7
  <2>3. Rest(x)[i] = t[pIn + i] BY <1>10, <2>1, <2>2
  <2>4. t[pIn + i] = s[i] BY <1>5, <1>7
  <2>5. QED BY <2>3, <2>4
<1>13. Begins(Rest(x), s) BY <1>9, <1>11, <1>12 DEF Begins
<1>14. n + 1 = Len(its) => Rest(x) = s /\ inLen = Len(s)
  <2>1. SUFFICES ASSUME n + 1 = Len(its) PROVE Rest(x) = s /\ inLen = Len(s) OBVIOUS
  <2>2. inLen = Len(s) BY <1>4, <1>7, <1>8, <2>1
  <2>3. s = [i \in 1 .. Len(s) |-> s[i]] BY <1>4
  <2>4. DOMAIN Rest(x) = 1 .. Len(s) BY <1>10, <2>2
  <2>5. Rest(x) = [i \in 1 .. Len(s) |-> Rest(x)[i]] BY <1>10, <2>2
  <2>6. [i \in 1 .. Len(s) |-> Rest(x)[i]] = [i \in 1 .. Len(s) |-> s[i]] BY <1>12
  <2>7. QED BY <2>2, <2>3, <2>5, <2>6, Zenon
<1>15. ASSUME NEW i \in 1 .. inLen PROVE Rest(x)[i] = t[pIn + i]
  <2>1. pIn + i <= Len(t) BY <1>4, <1>6, <1>7
  <2>2. QED BY <1>10, <2>1
<1>16. pIn + inLen = Len(t) /\ pIn \in Nat BY <1>4, <1>6, <1>7
<1>17. QED BY <1>6, <1>9, <1>13, <1>14, <1>15, <1>16 DEF s, t

LEMMA RestBegins ==
  ASSUME NEW d, TextFor(d), NEW n \in 0 .. Len(call.items) - 1, pIn = Ends(n), inLen = Len(call.text) - Ends(n), NEW x
  PROVE  /\ Begins(Rest(x), call.items[n + 1].src)
         /\ inLen \in Nat /\ inLen >= Len(call.items[n + 1].src) /\ inLen > 0
         /\ n + 1 = Len(call.items) =>
              Rest(x) = call.items[n + 1].src /\ inLen = Len(call.items[n + 1].src)
<1>1. call.items \in Seq(ItemsSet) /\ HaveBytes(call.items) BY TextsItems
<1>2. call.text = Text(call.items) BY DEF TextFor
<1>3. QED BY <1>1, <1>2, RestHas, FirstIsOf

(* The invariant of a conversion: it is between two characters, of which   *)
(* it has read the first n and written their forms, or behind a malformed  *)
(* end that is let through; what it has returned says so.                  *)
Between == \E n \in 0 .. OkCount : AtItem(n)
PastEnd ==
  /\ pIn \in Nat /\ pIn > Ends(OkCount) /\ EndsIn("lenient")
  /\ inLen = 0 \/ (call.schema \in SourceU /\ inLen \in Nat /\ inLen % 2 = 0)
Concluded == RefusesExactly /\ SubstitutionCounted

KInv ==
  /\ pc = "converting" => \E d \in Descriptors : call \in Calls(d)
  /\ ByItems => Between \/ PastEnd
  /\ Concluded

LEMMA TheCall == ASSUME KInv, ByItems PROVE \E d : TextFor(d)
<1>1. PICK d \in Descriptors : call \in Calls(d) BY DEF KInv, ByItems
<1>2. call.schema = d.schema /\ call.cd = d.cd BY <1>1, CallsAssumption
<1>3. d.schema # "U2U" BY <1>2 DEF ByItems
<1>4. TablesFit(d) /\ IsText(d, call.items) /\ call.text = Text(call.items)
  BY <1>1, <1>3, TextsAssumption
<1>5. d.schema \in Schemas BY DescriptorsAssumption
<1>6. QED BY <1>2, <1>3, <1>4, <1>5 DEF TextFor

LEMMA SameCall == ASSUME call' = call
  PROVE  /\ OkCount' = OkCount
         /\ \A n : First(n)' = First(n) /\ Ends(n)' = Ends(n)
         /\ EndsIn("bad")' <=> EndsIn("bad")
         /\ EndsIn("lenient")' <=> EndsIn("lenient")
BY DEF OkCount, First, Ends, EndsIn

LEMMA SameAt == ASSUME call' = call, NEW n
  PROVE  AtItem(n)' <=> /\ pIn' = Ends(n) /\ inLen' = Len(call.text) - Ends(n) /\ out' = Target(First(n))
                        /\ numS' \in Surely(First(n)) .. Possibly(First(n))
BY DEF AtItem, First, Ends

LEMMA StillConverting == ASSUME call' = call, UNCHANGED cvars PROVE ByItems' <=> ByItems
BY SameCall DEF ByItems, cvars

LEMMA Going == ASSUME result' = NotYet PROVE Concluded'
BY DEF Concluded, RefusesExactly, SubstitutionCounted

LEMMA Failing ==
  ASSUME call' = call, pIn' = pIn, pIn = Ends(OkCount), EndsIn("bad") \/ EndsIn("lenient"),
         NEW e, NEW m, NEW l, NEW k, result' = Result(-1, e, m, l, k)
  PROVE  Concluded'
<1>1. result'.rc = -1 BY DEF Result
<1>2. result'.rc < 0 /\ ~(result'.rc >= 0) BY <1>1
<1>3. pIn' = Ends(OkCount)' BY SameCall
<1>4. EndsIn("bad")' \/ EndsIn("lenient")' BY SameCall
<1>5. RefusesExactly' BY <1>2, <1>3, <1>4 DEF RefusesExactly
<1>6. SubstitutionCounted' BY <1>2 DEF SubstitutionCounted
<1>7. QED BY <1>5, <1>6 DEF Concluded

LEMMA CountsAre == ASSUME NEW N \in {{0}, {1}, {0, 1}}, NEW k \in N
  PROVE  k \in Nat /\ Count(0 \notin N) \in Nat /\ Count(1 \in N) \in Nat
         /\ Count(0 \notin N) <= k /\ k <= Count(1 \in N)
<1>1. Count(TRUE) = 1 /\ Count(FALSE) = 0 BY Zenon DEF Count
<1>2. CASE N = {0}
  <2>1. k = 0 /\ (0 \notin N) = FALSE /\ (1 \in N) = FALSE BY <1>2
  <2>2. Count(0 \notin N) = 0 /\ Count(1 \in N) = 0 BY <1>1, <2>1
  <2>3. QED BY <2>1, <2>2
<1>3. CASE N = {1}
  <2>1. k = 1 /\ (0 \notin N) = TRUE /\ (1 \in N) = TRUE BY <1>3
  <2>2. Count(0 \notin N) = 1 /\ Count(1 \in N) = 1 BY <1>1, <2>1
  <2>3. QED BY <2>1, <2>2
<1>4. CASE N = {0, 1}
  <2>1. k \in {0, 1} /\ (0 \notin N) = FALSE /\ (1 \in N) = TRUE BY <1>4
  <2>2. Count(0 \notin N) = 0 /\ Count(1 \in N) = 1 BY <1>1, <2>1
  <2>3. QED BY <2>1, <2>2
<1>5. QED BY <1>2, <1>3, <1>4

LEMMA BetweenCounts == \A a, b, j, c, e, k \in Int : j \in a .. b /\ c <= k /\ k <= e => j + k \in (a + c) .. (b + e)
OBVIOUS
LEMMA MoreRead == \A l, e, m \in Int : (l - e) - m = l - (e + m)
OBVIOUS

LEMMA CountIsNat == ASSUME NEW P PROVE Count(P) \in Nat
BY DEF Count

LEMMA NatsAdd == \A a, b \in Nat : a + b \in Nat
OBVIOUS

LEMMA CountedSoFar ==
  ASSUME NEW S, NEW items \in Seq(S)
  PROVE  \A n \in 0 .. Len(items) : Surely(Of(items, n)) \in Nat /\ Possibly(Of(items, n)) \in Nat
<1> DEFINE N == Len(items)
           P == {n \in 0 .. N : Surely(Of(items, n)) \in Nat /\ Possibly(Of(items, n)) \in Nat}
<1>1. N \in Nat OBVIOUS
<1> HIDE DEF N
<1>2. 0 \in P
  <2>1. Surely(Of(items, 0)) = 0 /\ Possibly(Of(items, 0)) = 0 BY NoItems
  <2>2. QED BY <1>1, <2>1
<1>3. ASSUME NEW n \in 0 .. N - 1, n \in P PROVE n + 1 \in P
  <2>1. n + 1 \in 0 .. N BY <1>1
  <2>2. /\ Surely(Of(items, n + 1)) = Surely(Of(items, n)) + Count(0 \notin items[n + 1].subs)
        /\ Possibly(Of(items, n + 1)) = Possibly(Of(items, n)) + Count(1 \in items[n + 1].subs)
    BY ItemsGrow DEF N
  <2>3. Count(0 \notin items[n + 1].subs) \in Nat /\ Count(1 \in items[n + 1].subs) \in Nat
    BY CountIsNat
  <2>4. Surely(Of(items, n)) \in Nat /\ Possibly(Of(items, n)) \in Nat BY <1>3
  <2>5. Surely(Of(items, n + 1)) \in Nat /\ Possibly(Of(items, n + 1)) \in Nat
    BY <2>2, <2>3, <2>4, NatsAdd, Zenon
  <2>6. QED BY <2>1, <2>5
<1>4. \A n \in 0 .. N : n \in P
  <2> HIDE DEF P
  <2>1. \A n \in 0 .. N - 1 : n \in P => n + 1 \in P BY <1>3
  <2>2. QED BY <1>1, <1>2, <2>1, InductionUpTo
<1>5. QED BY <1>4 DEF N

(* A turn passes the next character.                                       *)
LEMMA TakesItem ==
  ASSUME NEW d, d.schema \in Schemas, d.schema # "U2U", TablesFit(d), call.schema = d.schema, call.cd = d.cd,
         NEW S, NEW its \in Seq(S), HaveBytes(its), call.text = Text(its), NEW n \in 0 .. Len(its) - 1,
         IsItem(d, its[n + 1]), its[n + 1].is = "ok", d.schema = "T2S" => Len(its[n + 1].src) # 4,
         pIn = End(its, n), inLen = Len(call.text) - End(its, n), out = Target(Of(its, n)),
         numS \in Surely(Of(its, n)) .. Possibly(Of(its, n)), Iterate
  PROVE  /\ pIn' = End(its, n + 1) /\ inLen' = Len(call.text) - End(its, n + 1)
         /\ out' = Target(Of(its, n + 1)) /\ numS' \in Surely(Of(its, n + 1)) .. Possibly(Of(its, n + 1))
         /\ result' = NotYet /\ call' = call
<1> DEFINE i == its[n + 1]
<1>1. its \in Seq(S) /\ HaveBytes(its) /\ Len(its) \in Nat OBVIOUS
<1>2. n \in 0 .. Len(its) - 1 /\ n \in 0 .. Len(its) /\ n + 1 \in 0 .. Len(its) BY <1>1
<1>3. IsItem(d, i) /\ i.is = "ok" OBVIOUS
<1>4. PICK x : /\ result = NotYet /\ call' = call
               /\ LET o == Turn(call, Rest(x), x) IN
                  \/ o.kind = "go" /\ pIn' = pIn + o.move /\ inLen' = inLen - o.less
                     /\ out' = out \o o.bytes /\ numS' = numS + o.subs /\ result' = result
                  \/ o.kind = "error"
                  \/ o.kind = "end"
  BY Zenon DEF Iterate
<1> DEFINE o == Turn(call, Rest(x), x)
<1>5. pIn = End(its, n) /\ inLen = Len(call.text) - End(its, n) /\ out = Target(Of(its, n))
      /\ numS \in Surely(Of(its, n)) .. Possibly(Of(its, n))
  OBVIOUS
<1>6. Begins(Rest(x), i.src) /\ inLen \in Nat BY <1>1, <1>2, <1>5, RestHas
<1>7. Does(o, Len(i.src), i.dst, i.subs)
  <2>1. d.schema = "T2S" => Len(i.src) # 4 OBVIOUS
  <2>2. /\ d.schema \in Schemas /\ d.schema # "U2U" /\ TablesFit(d)
        /\ call.schema = d.schema /\ call.cd = d.cd
    OBVIOUS
  <2> HIDE DEF i
  <2>3. QED BY <1>3, <1>6, <2>1, <2>2, OkTurn
<1>8. i.subs \in {{0}, {1}, {0, 1}} BY <1>3 DEF IsItem
<1>9. /\ End(its, n + 1) = End(its, n) + Len(i.src)
      /\ End(its, n) \in Nat /\ Len(i.src) \in Nat
  BY <1>1, <1>2, EndGrows
<1>10. /\ Target(Of(its, n + 1)) = Target(Of(its, n)) \o i.dst
       /\ Surely(Of(its, n + 1)) = Surely(Of(its, n)) + Count(0 \notin i.subs)
       /\ Possibly(Of(its, n + 1)) = Possibly(Of(its, n)) + Count(1 \in i.subs)
  BY <1>1, <1>2, ItemsGrow
<1>11. Surely(Of(its, n)) \in Nat /\ Possibly(Of(its, n)) \in Nat
  BY <1>1, <1>2, CountedSoFar
<1> HIDE DEF o, i
<1>12. PICK k \in i.subs : o = Put(Len(i.src), i.dst, k) BY <1>7 DEF Does
<1>13. o.kind = "go" /\ o.move = Len(i.src) /\ o.less = Len(i.src) /\ o.bytes = i.dst /\ o.subs = k
  BY <1>12, PutFields
<1>14. /\ pIn' = pIn + o.move /\ inLen' = inLen - o.less
       /\ out' = out \o o.bytes /\ numS' = numS + o.subs /\ result' = result
  <2>1. o.kind # "error" /\ o.kind # "end" BY <1>13
  <2>2. QED BY <1>4, <2>1, Zenon DEF o
<1>15. pIn' = End(its, n + 1) BY <1>5, <1>9, <1>13, <1>14
<1>16. inLen' = Len(call.text) - End(its, n + 1)
  <2>1. Len(call.text) = inLen + End(its, n) /\ Len(call.text) \in Int
    <3>1. Len(call.text) \in Nat
      <4>1. Len(its) \in 0 .. Len(its) BY <1>1
      <4>2. Text(Of(its, Len(its))) \in Seq(Octets) BY <1>1, <4>1, TextsAreBytes
      <4>3. Of(its, Len(its)) = its BY <1>1, <4>1, FirstItems
      <4>4. call.text \in Seq(Octets) BY <4>2, <4>3
      <4>5. QED BY <4>4
    <3>2. QED BY <1>5, <1>9, <3>1
  <2>2. inLen' = inLen - Len(i.src) BY <1>13, <1>14, Zenon
  <2>3. (Len(call.text) - End(its, n)) - Len(i.src) = Len(call.text) - (End(its, n) + Len(i.src))
    <3>1. End(its, n) \in Int /\ Len(i.src) \in Int BY <1>9
    <3>2. QED BY <2>1, <3>1, MoreRead, Zenon
  <2>4. QED BY <1>5, <1>9, <2>2, <2>3, Zenon
<1>17. out' = Target(Of(its, n + 1)) BY <1>5, <1>10, <1>13, <1>14, Zenon
<1>18. numS' \in Surely(Of(its, n + 1)) .. Possibly(Of(its, n + 1))
  <2>1. /\ k \in Nat /\ Count(0 \notin i.subs) \in Nat /\ Count(1 \in i.subs) \in Nat
        /\ Count(0 \notin i.subs) <= k /\ k <= Count(1 \in i.subs)
    BY <1>8, <1>12, CountsAre
  <2>2. numS' = numS + k BY <1>13, <1>14
  <2> DEFINE a == Surely(Of(its, n))
             b == Possibly(Of(its, n))
             c == Count(0 \notin i.subs)
             e == Count(1 \in i.subs)
  <2>3. numS \in a .. b /\ a \in Nat /\ b \in Nat /\ c \in Nat /\ e \in Nat /\ c <= k /\ k <= e
    BY <1>5, <1>11, <2>1
  <2>4. Surely(Of(its, n + 1)) = a + c /\ Possibly(Of(its, n + 1)) = b + e BY <1>10
  <2> HIDE DEF a, b, c, e
  <2>5. numS \in Int BY <2>3
  <2>6. numS + k \in (a + c) .. (b + e) BY <2>1, <2>3, <2>5
  <2>7. QED BY <2>2, <2>4, <2>6
<1>19. QED BY <1>4, <1>14, <1>15, <1>16, <1>17, <1>18

LEMMA OkStep ==
  ASSUME NEW d, TextFor(d), NEW n \in 0 .. OkCount - 1, AtItem(n), Iterate,
         d.schema = "T2S" => Len(call.items[n + 1].src) # 4
  PROVE  AtItem(n + 1)' /\ result' = NotYet
<1>1. /\ call.items \in Seq(ItemsSet) /\ HaveBytes(call.items) /\ Len(call.items) \in Nat
      /\ OkCount \in 0 .. Len(call.items)
      /\ \A k \in 1 .. OkCount : IsItem(d, call.items[k]) /\ call.items[k].is = "ok"
  BY TextsItems
<1>2. n \in 0 .. Len(call.items) - 1 /\ n + 1 \in 1 .. OkCount BY <1>1
<1>3. IsItem(d, call.items[n + 1]) /\ call.items[n + 1].is = "ok" BY <1>1, <1>2
<1>4. /\ d.schema \in Schemas /\ d.schema # "U2U" /\ TablesFit(d) /\ call.schema = d.schema /\ call.cd = d.cd
      /\ call.text = Text(call.items)
  BY DEF TextFor
<1>5. /\ pIn = End(call.items, n) /\ inLen = Len(call.text) - End(call.items, n)
      /\ out = Target(Of(call.items, n))
      /\ numS \in Surely(Of(call.items, n)) .. Possibly(Of(call.items, n))
  BY FirstIsOf DEF AtItem
<1>6. /\ pIn' = End(call.items, n + 1) /\ inLen' = Len(call.text) - End(call.items, n + 1)
      /\ out' = Target(Of(call.items, n + 1))
      /\ numS' \in Surely(Of(call.items, n + 1)) .. Possibly(Of(call.items, n + 1))
      /\ result' = NotYet /\ call' = call
  BY <1>1, <1>2, <1>3, <1>4, <1>5, TakesItem
<1>7. QED BY <1>6, FirstIsOf, SameAt

LEMMA PassedFields == ASSUME NEW o, NEW n, Passes(o, n)
  PROVE  o.kind = "go" /\ o.move = n /\ o.less = n
<1>1. PICK b, k : o = Put(n, b, k) BY DEF Passes
<1>2. QED BY <1>1, PutFields

LEMMA EndFields == ASSUME NEW m, NEW k
  PROVE  EndAfter(m, k).kind = "end" /\ EndAfter(m, k).less = m
BY DEF EndAfter

LEMMA EvenLess == \A m \in Nat \ {0} : m % 2 = 0 => m - 2 \in Nat /\ (m - 2) % 2 = 0
OBVIOUS

LEMMA Further == \A e \in Nat, m \in Nat \ {0} : e + m \in Nat /\ e + m > e
OBVIOUS
LEMMA TwoIsSome == 2 \in Nat \ {0}
OBVIOUS

(* The outcomes of a turn, one by one.                                     *)
LEMMA TurnOutcomes == ASSUME Iterate
  PROVE  \E x : LET o == Turn(call, Rest(x), x) IN
           /\ result = NotYet /\ call' = call /\ Looping
           /\ \/ /\ o.kind = "go" /\ pIn' = pIn + o.move /\ inLen' = inLen - o.less /\ result' = result
              \/ /\ o.kind = "error" /\ result' = Result(-1, o.errno, o.move, o.less, 0)
                 /\ pIn' = pIn /\ inLen' = inLen /\ out' = out /\ numS' = numS
              \/ /\ o.kind = "end" /\ result' = Result(0, "none", o.move, o.less, numS + o.subs)
                 /\ pIn' = pIn /\ inLen' = inLen /\ out' = out /\ numS' = numS
BY Zenon DEF Iterate

LEMMA NotBoth == ASSUME EndsIn("lenient") PROVE ~EndsIn("bad")
BY DEF EndsIn

(* The malformed end: refused, or let through.                             *)
LEMMA LastStep ==
  ASSUME NEW d, TextFor(d), OkCount < Len(call.items), AtItem(OkCount), Iterate
  PROVE  (AtItem(OkCount)' \/ PastEnd') /\ Concluded'
<1> DEFINE n == OkCount
           i == call.items[Len(call.items)]
           m == Len(i.src)
<1>1. /\ call.items \in Seq(ItemsSet) /\ HaveBytes(call.items) /\ Len(call.items) \in Nat
      /\ n \in 0 .. Len(call.items)
      /\ n + 1 = Len(call.items) /\ Len(call.items) \in 1 .. Len(call.items)
      /\ IsItem(d, i) /\ (EndsIn("bad") \/ EndsIn("lenient"))
  BY TextsItems
<1>2. n \in 0 .. Len(call.items) - 1 BY <1>1
<1>3. pIn = Ends(n) /\ inLen = Len(call.text) - Ends(n) BY DEF AtItem
<1>4. \A x : Rest(x) = i.src /\ inLen = m BY <1>1, <1>2, <1>3, RestBegins
<1>5. i.src \in Seq(Octets) /\ i.src # <<>> /\ m \in Nat \ {0}
  <2>1. i.src \in Seq(Octets) /\ i.src # <<>> BY <1>1 DEF HaveBytes
  <2>2. QED BY <2>1
<1>6. Ends(n) \in Nat BY <1>1, <1>2, EndGrows, FirstIsOf
<1>7. /\ d.schema \in Schemas /\ d.schema # "U2U" /\ call.schema = d.schema /\ call.cd = d.cd
  BY DEF TextFor
<1>8. PICK x : LET o == Turn(call, Rest(x), x) IN
           /\ result = NotYet /\ call' = call /\ Looping
           /\ \/ /\ o.kind = "go" /\ pIn' = pIn + o.move /\ inLen' = inLen - o.less /\ result' = result
              \/ /\ o.kind = "error" /\ result' = Result(-1, o.errno, o.move, o.less, 0)
                 /\ pIn' = pIn /\ inLen' = inLen /\ out' = out /\ numS' = numS
              \/ /\ o.kind = "end" /\ result' = Result(0, "none", o.move, o.less, numS + o.subs)
                 /\ pIn' = pIn /\ inLen' = inLen /\ out' = out /\ numS' = numS
  BY TurnOutcomes
<1> DEFINE o == Turn(call, Rest(x), x)
<1>9. o.kind = "error" \/ (i.is = "lenient" /\ LenientOutcome(d, i.src, o))
  <2>1. Rest(x) = i.src BY <1>4
  <2>2. CASE EndsIn("bad")
    <3>1. i.is = "bad" BY <2>2 DEF EndsIn
    <3> HIDE DEF i
    <3>2. Turn(call, i.src, x).kind = "error" BY <1>1, <1>7, <3>1, BadTurn
    <3>3. QED BY <2>1, <3>2
  <2>3. CASE EndsIn("lenient")
    <3>1. i.is = "lenient" BY <2>3 DEF EndsIn
    <3> HIDE DEF i
    <3>2. Tolerated(d, i.src) BY <1>1, <3>1, Zenon DEF IsItem
    <3> DEFINE r == i.src
    <3>3. r \in Seq(Octets) /\ r # <<>> /\ Tolerated(d, r) BY <1>5, <3>2
    <3> HIDE DEF r
    <3>4. LenientOutcome(d, r, Turn(call, r, x)) BY <1>7, <3>3, LenientTurn
    <3>5. QED BY <2>1, <3>1, <3>4 DEF r
  <2>4. QED BY <1>1, <2>2, <2>3
<1>10. i.is = "lenient" => EndsIn("lenient") BY <1>1 DEF EndsIn
<1>11. call' = call BY <1>8
<1> HIDE DEF i, m, n, o
<1>12. CASE o.kind = "error"
  <2>1. /\ result' = Result(-1, o.errno, o.move, o.less, 0)
        /\ pIn' = pIn /\ inLen' = inLen /\ out' = out /\ numS' = numS
    BY <1>8, <1>12, Zenon DEF o
  <2>2. AtItem(OkCount)' BY <1>11, <2>1, SameCall, SameAt DEF AtItem
  <2>3. Concluded'
    <3>1. pIn = Ends(OkCount) BY <1>3 DEF n
    <3>2. QED BY <1>1, <1>11, <2>1, <3>1, Failing
  <2>4. QED BY <2>2, <2>3
<1>13. CASE i.is = "lenient" /\ Passes(o, 2) /\ m % 2 = 0 /\ d.schema \in SourceU
  <2>1. o.kind = "go" /\ o.move = 2 /\ o.less = 2 BY <1>13, PassedFields
  <2>2. pIn' = pIn + 2 /\ inLen' = inLen - 2 /\ result' = NotYet
    <3>1. o.kind # "error" /\ o.kind # "end" BY <2>1
    <3>2. QED BY <1>8, <2>1, <3>1, Zenon DEF o
  <2>3. inLen' \in Nat /\ inLen' % 2 = 0 BY <1>4, <1>5, <1>13, <2>2, EvenLess
  <2>4. pIn' \in Nat /\ pIn' > Ends(n) BY <1>3, <1>6, <2>2, Further, TwoIsSome, Zenon
  <2>5. PastEnd' BY <1>7, <1>10, <1>11, <1>13, <2>3, <2>4, SameCall DEF PastEnd, n
  <2>6. QED BY <2>2, <2>5, Going
<1>14. CASE i.is = "lenient" /\ Passes(o, m)
  <2>1. o.kind = "go" /\ o.move = m /\ o.less = m BY <1>14, PassedFields
  <2>2. pIn' = pIn + m /\ inLen' = inLen - m /\ result' = NotYet
    <3>1. o.kind # "error" /\ o.kind # "end" BY <2>1
    <3>2. QED BY <1>8, <2>1, <3>1, Zenon DEF o
  <2>3. inLen' = 0 BY <1>4, <1>5, <2>2
  <2>4. pIn' \in Nat /\ pIn' > Ends(n) BY <1>3, <1>5, <1>6, <2>2, Further, Zenon
  <2>5. PastEnd' BY <1>10, <1>11, <1>14, <2>3, <2>4, SameCall DEF PastEnd, n
  <2>6. QED BY <2>2, <2>5, Going
<1>15. CASE i.is = "lenient" /\ m = 1 /\ \E k : o = EndAfter(1, k)
  <2>1. o.kind = "end" /\ o.less = 1 BY <1>15, EndFields
  <2>2. /\ result' = Result(0, "none", o.move, o.less, numS + o.subs)
        /\ pIn' = pIn /\ inLen' = inLen /\ out' = out /\ numS' = numS
    <3>1. o.kind # "error" /\ o.kind # "go" BY <2>1
    <3>2. QED BY <1>8, <3>1, Zenon DEF o
  <2>3. AtItem(OkCount)' BY <1>11, <2>2, SameCall, SameAt DEF AtItem
  <2>4. result'.rc = 0 /\ result'.inBytesLeft = inLen - 1 BY <2>1, <2>2 DEF Result
  <2>5. inLen = 1 /\ inLen' = 1 /\ result'.inBytesLeft = 0 BY <1>4, <1>15, <2>2, <2>4
  <2>6. ~EndsIn("bad")' BY <1>10, <1>11, <1>15, NotBoth, SameCall
  <2>7. RefusesExactly' BY <2>4, <2>5, <2>6 DEF RefusesExactly
  <2>8. SubstitutionCounted' BY <2>5 DEF SubstitutionCounted
  <2>9. QED BY <2>3, <2>7, <2>8 DEF Concluded
<1>16. QED BY <1>9, <1>12, <1>13, <1>14, <1>15, Zenon DEF LenientOutcome, m

LEMMA EvenNotOne == \A m \in Nat : m % 2 = 0 => m # 1
OBVIOUS
LEMMA NotZero == \A m : m > 0 => m # 0
BY SMT

(* BehindText tolerated units there are only units.                            *)
LEMMA PastStep ==
  ASSUME NEW d, TextFor(d), PastEnd, Iterate
  PROVE  PastEnd' /\ Concluded'
<1>1. PICK x : LET o == Turn(call, Rest(x), x) IN
           /\ result = NotYet /\ call' = call /\ Looping
           /\ \/ /\ o.kind = "go" /\ pIn' = pIn + o.move /\ inLen' = inLen - o.less /\ result' = result
              \/ /\ o.kind = "error" /\ result' = Result(-1, o.errno, o.move, o.less, 0)
                 /\ pIn' = pIn /\ inLen' = inLen /\ out' = out /\ numS' = numS
              \/ /\ o.kind = "end" /\ result' = Result(0, "none", o.move, o.less, numS + o.subs)
                 /\ pIn' = pIn /\ inLen' = inLen /\ out' = out /\ numS' = numS
  BY TurnOutcomes
<1> DEFINE o == Turn(call, Rest(x), x)
<1>2. inLen > 0 BY <1>1 DEF Looping
<1>3. inLen # 0 BY <1>2 DEF PastEnd
<1>4. /\ call.schema \in SourceU /\ inLen \in Nat /\ inLen % 2 = 0
      /\ pIn \in Nat /\ pIn > Ends(OkCount) /\ EndsIn("lenient")
  BY <1>3 DEF PastEnd
<1>5. Len(Rest(x)) = inLen BY <1>4 DEF Rest
<1>6. Len(Rest(x)) # 1 BY <1>4, <1>5, EvenNotOne
<1>7. Passes(o, 2)
  <2>1. d.schema \in SourceU /\ call.schema = d.schema /\ call.cd = d.cd BY <1>4 DEF TextFor
  <2>2. QED BY <1>6, <2>1, UnitsPass
<1> HIDE DEF o
<1>8. o.kind = "go" /\ o.move = 2 /\ o.less = 2 BY <1>7, PassedFields
<1>9. pIn' = pIn + 2 /\ inLen' = inLen - 2 /\ result' = NotYet
  <2>1. o.kind # "error" /\ o.kind # "end" BY <1>8
  <2>2. QED BY <1>1, <1>8, <2>1, Zenon DEF o
<1>10. inLen' \in Nat /\ inLen' % 2 = 0 BY <1>3, <1>4, <1>9, EvenLess
<1>11. pIn' \in Nat /\ pIn' > Ends(OkCount)
  <2>1. Ends(OkCount) \in Nat
    <3>1. call.items \in Seq(ItemsSet) /\ HaveBytes(call.items) /\ OkCount \in 0 .. Len(call.items)
      BY TextsItems
    <3>2. QED BY <3>1, TextsAreBytes, FirstIsOf
  <2> DEFINE e == Ends(OkCount)
  <2> HIDE DEF e
  <2>2. e \in Nat /\ pIn \in Nat /\ pIn > e BY <1>4, <2>1 DEF e
  <2>3. pIn' \in Nat /\ pIn' > e BY <1>9, <2>2
  <2>4. QED BY <2>3 DEF e
<1>12. call' = call BY <1>1
<1>13. PastEnd' BY <1>4, <1>10, <1>11, <1>12, SameCall DEF PastEnd
<1>14. QED BY <1>9, <1>13, Going

LEMMA NoTurn ==
  ASSUME NEW n, ~Looping, HasRoom, inLen \in Nat
  PROVE  inLen = 0
BY DEF Looping

(* The end of the loop.                                                    *)
LEMMA LeaveConcludes ==
  ASSUME NEW d, TextFor(d), Between \/ PastEnd, Leave
  PROVE  (Between \/ PastEnd)' /\ Concluded'
<1> DEFINE items == call.items
<1>1. /\ items \in Seq(ItemsSet) /\ HaveBytes(items) /\ Len(items) \in Nat
      /\ OkCount \in 0 .. Len(items)
  BY TextsItems
<1>2. /\ ~Looping /\ result' = Result(0, "none", 0, 0, numS)
      /\ call' = call /\ pIn' = pIn /\ inLen' = inLen /\ out' = out /\ numS' = numS
  BY DEF Leave
<1>3. HasRoom' <=> HasRoom BY <1>2 DEF HasRoom
<1>4. \A n : AtItem(n)' <=> AtItem(n) BY <1>2, SameAt DEF AtItem
<1>5. Between' <=> Between BY <1>2, <1>4, SameCall DEF Between
<1>6. PastEnd' <=> PastEnd BY <1>2, SameCall DEF PastEnd
<1>7. (Between \/ PastEnd)' BY <1>5, <1>6
<1>8. result'.rc = 0 /\ result'.inBytesLeft = inLen - 0 /\ result'.numSub = numS
  BY <1>2 DEF Result
<1>9. CASE PastEnd
  <2>1. inLen \in Nat /\ pIn > Ends(OkCount) /\ pIn \in Nat /\ EndsIn("lenient")
    BY <1>9 DEF PastEnd
  <2>2. HasRoom => inLen = 0 BY <1>2, <2>1, NoTurn
  <2>3. HasRoom' => ~EndsIn("bad")' /\ result'.inBytesLeft = 0
    BY <1>2, <1>3, <1>8, <2>1, <2>2, NotBoth, SameCall
  <2>4. RefusesExactly' BY <1>8, <2>3 DEF RefusesExactly
  <2>5. \A n \in 0 .. OkCount : pIn # Ends(n)
    <3>1. SUFFICES ASSUME NEW n \in 0 .. OkCount PROVE pIn # Ends(n) OBVIOUS
    <3>2. n \in 0 .. Len(items) /\ OkCount \in n .. Len(items) BY <1>1
    <3>3. End(items, n) <= End(items, OkCount) /\ End(items, n) \in Nat /\ End(items, OkCount) \in Nat
      BY <1>1, <3>2, TextGrows, TextsAreBytes
    <3> DEFINE e == Ends(OkCount)
               f == Ends(n)
    <3>4. f <= e /\ f \in Nat /\ e \in Nat /\ pIn > e /\ pIn \in Nat BY <2>1, <3>3, FirstIsOf
    <3> HIDE DEF e, f
    <3>5. pIn # f BY <3>4
    <3>6. QED BY <3>5 DEF f
  <2>6. SubstitutionCounted' BY <1>2, <2>5, SameCall DEF SubstitutionCounted
  <2>7. QED BY <1>7, <2>4, <2>6 DEF Concluded
<1>10. ASSUME NEW n \in 0 .. OkCount, AtItem(n) PROVE Concluded'
  <2>1. pIn = Ends(n) /\ inLen = Len(call.text) - Ends(n) /\ numS \in Surely(First(n)) .. Possibly(First(n))
    BY <1>10 DEF AtItem
  <2>2. n \in 0 .. Len(items) BY <1>1
  <2>3. n < Len(items) => inLen \in Nat /\ inLen > 0
    <3>1. SUFFICES ASSUME n < Len(items) PROVE inLen \in Nat /\ inLen > 0 OBVIOUS
    <3>2. n \in 0 .. Len(items) - 1 BY <1>1, <2>2, <3>1
    <3>3. QED BY <2>1, <3>2, RestBegins
  <2>4. n = Len(items) => inLen = 0
    <3>1. SUFFICES ASSUME n = Len(items) PROVE inLen = 0 OBVIOUS
    <3>2. Of(items, Len(items)) = items BY <1>1, <2>2, <3>1, FirstItems
    <3>3. End(items, n) = Len(call.text) BY <3>1, <3>2 DEF End, TextFor
    <3>4. End(items, n) \in Nat BY <1>1, <2>2, TextsAreBytes
    <3> DEFINE e == Ends(n)
    <3>5. e \in Nat /\ inLen = e - e BY <2>1, <3>3, <3>4, FirstIsOf
    <3> HIDE DEF e
    <3>6. QED BY <3>5
  <2>5. n < Len(items) \/ n = Len(items) BY <1>1, <2>2
  <2>6. HasRoom => n = Len(items)
    <3>1. SUFFICES ASSUME HasRoom, n < Len(items) PROVE FALSE BY <2>5
    <3>2. inLen = 0 BY <1>2, <2>3, <3>1, NoTurn
    <3>3. QED BY <2>3, <3>1, <3>2, NotZero
  <2>7. n = Len(items) => ~EndsIn("bad")
    <3>1. n = Len(items) => ~(OkCount < Len(items)) BY <1>1
    <3>2. QED BY <3>1 DEF EndsIn
  <2>8. HasRoom' => ~EndsIn("bad")' /\ result'.inBytesLeft = 0
    <3>1. SUFFICES ASSUME HasRoom PROVE ~EndsIn("bad") /\ result'.inBytesLeft = 0
      BY <1>2, <1>3, SameCall
    <3>2. n = Len(items) /\ inLen = 0 BY <2>4, <2>6, <3>1
    <3>3. QED BY <1>8, <2>7, <3>2
  <2>9. RefusesExactly' BY <1>8, <2>8 DEF RefusesExactly
  <2>10. ASSUME NEW k \in 0 .. OkCount, pIn = Ends(k) PROVE k = n
    <3>1. k \in 0 .. Len(items) BY <1>1
    <3>2. End(items, k) = End(items, n) BY <2>1, <2>10, FirstIsOf
    <3>3. End(items, k) \in Nat /\ End(items, n) \in Nat BY <1>1, <2>2, <3>1, TextsAreBytes
    <3>4. k < n => End(items, k) < End(items, n)
      <4>1. k < n => n \in k .. Len(items) BY <1>1, <2>2, <3>1
      <4>2. QED BY <1>1, <3>1, <4>1, TextGrows
    <3>5. n < k => End(items, n) < End(items, k)
      <4>1. n < k => k \in n .. Len(items) BY <1>1, <2>2, <3>1
      <4>2. QED BY <1>1, <2>2, <4>1, TextGrows
    <3>6. k < n \/ n < k \/ k = n BY <2>2, <3>1
    <3> DEFINE e == End(items, k)
               f == End(items, n)
    <3> HIDE DEF e, f
    <3>7. e \in Nat /\ f \in Nat /\ e = f /\ (k < n => e < f) /\ (n < k => f < e)
      BY <3>2, <3>3, <3>4, <3>5 DEF e, f
    <3>8. ~(k < n) /\ ~(n < k) BY <3>7
    <3>9. QED BY <3>6, <3>8
  <2>11. SubstitutionCounted' 
    <3>1. \A k \in 0 .. OkCount : pIn = Ends(k) => numS \in Surely(First(k)) .. Possibly(First(k))
      BY <2>1, <2>10
    <3>2. QED BY <1>2, <1>8, <3>1, SameCall DEF SubstitutionCounted
  <2>12. QED BY <2>9, <2>11 DEF Concluded
<1>11. QED BY <1>7, <1>9, <1>10 DEF Between

(* A conversion starts behind no character.                                *)
LEMMA ConvertingStarts == CInit => KInv
<1> SUFFICES ASSUME CInit PROVE KInv OBVIOUS
<1>1. /\ pIn = 0 /\ out = <<>> /\ numS = 0 /\ result = NotYet /\ inLen = Len(call.text)
      /\ (pc = "converting" => \E d \in Descriptors : call \in Calls(d))
  BY DEF CInit
<1>2. ASSUME ByItems PROVE Between
  <2>1. PICK d \in Descriptors : call \in Calls(d) BY <1>1, <1>2 DEF ByItems
  <2>2. call.schema = d.schema /\ d.schema # "U2U" BY <1>2, <2>1, CallsAssumption DEF ByItems
  <2>3. IsText(d, call.items) /\ call.text = Text(call.items) /\ TablesFit(d)
    BY <2>1, <2>2, TextsAssumption
  <2>4. TextFor(d) BY <2>1, <2>2, <2>3, CallsAssumption, DescriptorsAssumption DEF TextFor
  <2>5. call.items \in Seq(ItemsSet) /\ HaveBytes(call.items) /\ OkCount \in 0 .. Len(call.items) /\ Len(call.items) \in Nat
    BY <2>4, TextsItems
  <2>6. /\ Target(First(0)) = <<>> /\ Surely(First(0)) = 0 /\ Possibly(First(0)) = 0 /\ Ends(0) = 0
    BY <2>5, NoItems, FirstIsOf
  <2>7. inLen = Len(call.text) - Ends(0)
    <3>1. Len(call.items) \in 0 .. Len(call.items) BY <2>5
    <3>2. Text(Of(call.items, Len(call.items))) \in Seq(Octets) BY <2>5, <3>1, TextsAreBytes
    <3>3. Of(call.items, Len(call.items)) = call.items BY <2>5, <3>1, FirstItems
    <3>4. call.text \in Seq(Octets) BY <2>3, <3>2, <3>3
    <3>5. Len(call.text) \in Nat BY <3>4
    <3>6. QED BY <1>1, <2>6, <3>5
  <2>8. 0 \in 0 .. OkCount /\ 0 \in 0 .. 0 BY <2>5
  <2>9. AtItem(0) BY <1>1, <2>6, <2>7, <2>8 DEF AtItem
  <2>10. QED BY <2>8, <2>9 DEF Between
<1>3. Concluded BY <1>1 DEF Concluded, RefusesExactly, SubstitutionCounted
<1>4. QED BY <1>1, <1>2, <1>3 DEF KInv

(* A step of a conversion.                                                 *)
LEMMA ConvertKeeps ==
  ASSUME KInv, ByItems, call.schema # "U2U", Iterate \/ Leave
  PROVE  (Between \/ PastEnd)' /\ Concluded'
<1>1. PICK d : TextFor(d) BY TheCall
<1>2. Between \/ PastEnd BY DEF KInv
<1>3. CASE Leave BY <1>1, <1>2, <1>3, LeaveConcludes
<1>4. CASE Iterate /\ PastEnd BY <1>1, <1>4, PastStep
<1>5. CASE Iterate /\ Between
  <2>1. PICK n \in 0 .. OkCount : AtItem(n) BY <1>5 DEF Between
  <2>2. /\ OkCount \in 0 .. Len(call.items) /\ Len(call.items) \in Nat /\ call.items \in Seq(ItemsSet)
        /\ HaveBytes(call.items)
    BY <1>1, TextsItems
  <2>3. call' = call BY <1>5 DEF Iterate
  <2>4. CASE n < OkCount
    <3>1. n \in 0 .. OkCount - 1 /\ n + 1 \in 1 .. OkCount /\ n + 1 \in 0 .. OkCount
      BY <2>2, <2>4
    <3>2. d.schema = "T2S" => Len(call.items[n + 1].src) # 4
      <4>1. call.schema = d.schema BY <1>1 DEF TextFor
      <4>2. QED BY <3>1, <4>1 DEF ByItems
    <3>3. AtItem(n + 1)' /\ result' = NotYet BY <1>1, <1>5, <2>1, <3>1, <3>2, OkStep
    <3>4. Between' BY <2>3, <3>1, <3>3, SameCall DEF Between
    <3>5. QED BY <3>3, <3>4, Going
  <2>5. CASE n = OkCount /\ OkCount < Len(call.items)
    <3>1. (AtItem(OkCount)' \/ PastEnd') /\ Concluded' BY <1>1, <1>5, <2>1, <2>5, LastStep
    <3>2. OkCount \in 0 .. OkCount' /\ OkCount \in 0 .. OkCount BY <2>2, <2>3, SameCall
    <3>3. AtItem(OkCount)' => Between'
      <4>1. AtItem(OkCount)' => \E k \in 0 .. OkCount' : AtItem(k)' 
        <5>1. OkCount' = OkCount BY <2>3, SameCall
        <5>2. QED BY <3>2, <5>1, SameAt, <2>3 DEF AtItem, Ends, First, OkCount
      <4>2. QED BY <4>1 DEF Between
    <3>4. QED BY <3>1, <3>3
  <2>6. CASE n = OkCount /\ OkCount = Len(call.items)
    <3>1. inLen = 0
      <4>1. Of(call.items, n) = call.items BY <2>2, <2>6, FirstItems
      <4>2. End(call.items, n) = Len(call.text) BY <1>1, <4>1 DEF End, TextFor
      <4>3. End(call.items, n) \in Nat BY <2>2, TextsAreBytes
      <4> DEFINE e == Ends(n)
      <4>4. e \in Nat /\ inLen = e - e BY <2>1, <4>2, <4>3, FirstIsOf DEF AtItem
      <4> HIDE DEF e
      <4>5. QED BY <4>4
    <3>2. inLen > 0 BY <1>5 DEF Iterate, Looping
    <3>3. QED BY <3>1, <3>2, NotZero
  <2>7. n < OkCount \/ (n = OkCount /\ OkCount < Len(call.items)) \/ (n = OkCount /\ OkCount = Len(call.items))
    BY <2>2
  <2>8. QED BY <2>4, <2>5, <2>6, <2>7
<1>6. QED BY <1>2, <1>3, <1>4, <1>5

(* Every step keeps the invariant, those of a column among them.           *)
LEMMA ConvertingKeeps == KInv /\ [CNext]_<<vars, cvars>> => KInv'
<1> SUFFICES ASSUME KInv, [CNext]_<<vars, cvars>> PROVE KInv' OBVIOUS
<1>1. CASE Convert
  <2>1. UNCHANGED cvars /\ myconv_dmap BY <1>1 DEF Convert
  <2>2. call' = call BY <2>1 DEF myconv_dmap, Iterate, Leave, DMAP_U2U
  <2>3. ByItems' <=> ByItems BY <2>1, <2>2, StillConverting
  <2>4. pc' = "converting" => \E d \in Descriptors : call' \in Calls(d)
    BY <2>1, <2>2 DEF KInv, cvars
  <2>5. CASE ~ByItems
    <3>1. Concluded' BY <2>3, <2>5 DEF Concluded, RefusesExactly, SubstitutionCounted
    <3>2. QED BY <2>3, <2>4, <2>5, <3>1 DEF KInv
  <2>6. CASE ByItems
    <3>1. call.schema # "U2U" BY <2>6 DEF ByItems
    <3>2. Iterate \/ Leave BY <2>1, <3>1 DEF myconv_dmap, DMAP_U2U
    <3>3. (Between \/ PastEnd)' /\ Concluded' BY <2>6, <3>1, <3>2, ConvertKeeps
    <3>4. QED BY <2>4, <3>3 DEF KInv
  <2>7. QED BY <2>5, <2>6
<1>2. CASE StoreRow \/ FetchRow
  <2>1. pc' # "converting" BY <1>2 DEF StoreRow, FetchRow, Failed
  <2>2. QED BY <2>1 DEF KInv, ByItems, Concluded, RefusesExactly, SubstitutionCounted
<1>3. CASE UNCHANGED <<vars, cvars>>
  <2>1. UNCHANGED <<pc, call, pIn, inLen, out, numS, result>> BY <1>3 DEF vars, cvars
  <2>2. ByItems' <=> ByItems BY <2>1, SameCall DEF ByItems
  <2>3. Between' <=> Between BY <2>1, SameCall, SameAt DEF Between, AtItem
  <2>4. PastEnd' <=> PastEnd BY <2>1, SameCall DEF PastEnd
  <2>5. RefusesExactly' <=> RefusesExactly BY <2>1, <2>2, SameCall DEF RefusesExactly, HasRoom
  <2>6. SubstitutionCounted' <=> SubstitutionCounted
    BY <2>1, <2>2, SameCall DEF SubstitutionCounted
  <2>7. QED BY <2>1, <2>2, <2>3, <2>4, <2>5, <2>6 DEF KInv, Concluded
<1>4. QED BY <1>1, <1>2, <1>3 DEF CNext

(* The invariant holds of every conversion.                                *)
LEMMA Converting == CSpec => []KInv
BY ConvertingStarts, ConvertingKeeps, PTL DEF CSpec

(* ConvertedSoFar: whatever the descriptor, its tables and the text, at     *)
(* every turn of myconv_dmap's loop what is written is the other encoding's *)
(* forms of the characters read so far, all bytes of them, until a          *)
(* malformed sequence that iconv lets through has been passed.              *)
THEOREM ConvertsSoFar == CSpec => []ConvertedSoFar
<1>1. KInv => ConvertedSoFar
  <2>1. SUFFICES ASSUME Between \/ PastEnd, ByItems, KInv
        PROVE  pIn > Ends(OkCount) \/ \E n \in 0 .. OkCount : pIn = Ends(n) /\ out = Target(First(n))
    BY DEF KInv, ConvertedSoFar
  <2>2. CASE PastEnd BY <2>2 DEF PastEnd
  <2>3. CASE Between BY <2>3 DEF Between, AtItem
  <2>4. QED BY <2>1, <2>2, <2>3
<1>2. QED BY <1>1, Converting, PTL

(* RefusesExactly: every loop returns -1 only at the first malformed        *)
(* sequence of its text, having read just what is in front of it; a text    *)
(* that it does not refuse has no sequence iconv refuses, and is read to    *)
(* its end if there is room.                                                *)
THEOREM ConversionRefusesExactly == CSpec => []RefusesExactly
<1>1. KInv => RefusesExactly BY DEF KInv, Concluded
<1>2. QED BY <1>1, Converting, PTL

(* SubstitutionCounted: a text that is accepted has numSub count the        *)
(* characters that became the substitution, and besides them no more than   *)
(* those a loop is known to count by chance.                                *)
THEOREM ConversionCountsSubstitutions == CSpec => []SubstitutionCounted
<1>1. KInv => SubstitutionCounted BY DEF KInv, Concluded
<1>2. QED BY <1>1, Converting, PTL

-----------------------------------------------------------------------------
(* A column's two conversions.                                             *)

(* What is written for a character are bytes one behind the other.         *)
LEMMA FormsAreSequences ==
  ASSUME NEW d, d.schema \in Schemas, d.schema # "U2U", d.schema # "T2S", TablesFit(d),
         NEW i, IsItem(d, i), i.is = "ok"
  PROVE  IsSequence(i.dst)
<1> DEFINE r == i.src
<1>1. r \in Seq(0 .. 255) /\ r # <<>> BY Zenon DEF IsItem
<1>2. Len(r) \in Nat \ {0} /\ Begins(r, r) BY <1>1 DEF Begins
<1>3. Does(Turn(d, r, 0), Len(i.src), i.dst, i.subs) BY <1>2, OkTurn
<1>4. PICK k \in i.subs : Turn(d, r, 0) = Put(Len(i.src), i.dst, k) BY <1>3 DEF Does
<1>5. Turn(d, r, 0).kind = "go" /\ Turn(d, r, 0).bytes = i.dst BY <1>4, PutFields
<1>6. Shape(Turn(d, r, 0), Len(r)) BY <1>2, TurnShape
<1> HIDE DEF r
<1>7. QED BY <1>5, <1>6 DEF Shape, Short

LEMMA NoBytes == IsSequence(<<>>) /\ Len(<<>>) = 0
<1>1. <<>> \in Seq({}) OBVIOUS
<1>2. QED BY <1>1 DEF IsSequence

LEMMA OnceMore == \A n \in Nat, w \in Nat : (n + 1) * w = n * w + w /\ n * w \in Nat /\ 0 * w = 0
OBVIOUS

(* The length of what becomes of items.                                    *)
LEMMA TargetLengths ==
  ASSUME NEW S, NEW items \in Seq(S), NEW m \in 0 .. Len(items), NEW w \in Nat,
         \A k \in 1 .. m : IsSequence(items[k].dst) /\ Len(items[k].dst) <= w
  PROVE  \A n \in 0 .. m :
           /\ IsSequence(Target(Of(items, n))) /\ Len(Target(Of(items, n))) \in Nat
           /\ Len(Target(Of(items, n))) <= n * w
           /\ (\A k \in 1 .. m : Len(items[k].dst) = w) => Len(Target(Of(items, n))) = n * w
<1> DEFINE T(n) == Target(Of(items, n))
           Fits(n) == /\ IsSequence(T(n)) /\ Len(T(n)) \in Nat
                      /\ Len(T(n)) <= n * w
                      /\ (\A k \in 1 .. m : Len(items[k].dst) = w) => Len(T(n)) = n * w
           P == {n \in 0 .. m : Fits(n)}
<1>1. m \in Nat OBVIOUS
<1>2. 0 \in P
  <2>1. T(0) = <<>> BY NoItems
  <2>2. 0 \in 0 .. m BY <1>1
  <2> HIDE DEF T
  <2>3. Fits(0) BY <2>1, NoBytes, OnceMore
  <2>4. QED BY <2>2, <2>3
<1>3. ASSUME NEW n \in 0 .. m - 1, n \in P PROVE n + 1 \in P
  <2>1. n \in 0 .. Len(items) - 1 /\ n + 1 \in 1 .. m /\ n + 1 \in 0 .. m /\ n \in Nat BY <1>1
  <2>2. T(n + 1) = T(n) \o items[n + 1].dst BY <2>1, ItemsGrow
  <2>3. IsSequence(items[n + 1].dst) /\ Len(items[n + 1].dst) <= w BY <2>1
  <2>4. Fits(n) BY <1>3
  <2> DEFINE b == items[n + 1].dst
  <2>5. (\A k \in 1 .. m : Len(items[k].dst) = w) => Len(b) = w BY <2>1
  <2> HIDE DEF b, T
  <2>6. IsSequence(T(n + 1)) /\ Len(T(n + 1)) = Len(T(n)) + Len(b) /\ Len(b) \in Nat
    <3>1. IsSequence(b) BY <2>3 DEF b
    <3>2. PICK U : b \in Seq(U) BY <3>1 DEF IsSequence
    <3>3. Len(b) \in Nat BY <3>2
    <3>4. QED BY <2>2, <2>4, <3>1, <3>3, Concat DEF b
  <2>7. n * w \in Nat /\ (n + 1) * w = n * w + w BY <2>1, OnceMore
  <2> DEFINE x == Len(T(n))
             y == Len(b)
             z == n * w
  <2>8. x \in Nat /\ x <= z /\ y <= w BY <2>3, <2>4 DEF b
  <2>9. Len(T(n + 1)) = x + y /\ y \in Nat /\ z \in Nat /\ (n + 1) * w = z + w BY <2>6, <2>7
  <2>10. (\A k \in 1 .. m : Len(items[k].dst) = w) => x = z /\ y = w BY <2>4, <2>5
  <2> HIDE DEF x, y, z
  <2>11. x + y <= z + w /\ x + y \in Nat BY <2>8, <2>9
  <2>12. Len(T(n + 1)) <= (n + 1) * w /\ Len(T(n + 1)) \in Nat BY <2>9, <2>11
  <2>13. (\A k \in 1 .. m : Len(items[k].dst) = w) => Len(T(n + 1)) = (n + 1) * w BY <2>9, <2>10
  <2>14. Fits(n + 1) BY <2>6, <2>12, <2>13
  <2>15. QED BY <2>1, <2>14
<1>4. \A n \in 0 .. m : n \in P
  <2> HIDE DEF P
  <2>1. \A n \in 0 .. m - 1 : n \in P => n + 1 \in P BY <1>3
  <2>2. QED BY <1>1, <1>2, <2>1, InductionUpTo
<1>5. QED BY <1>4

(* The length of a text.                                                   *)
LEMMA TextLengths ==
  ASSUME NEW S, NEW items \in Seq(S), HaveBytes(items), NEW w \in Nat,
         \A k \in 1 .. Len(items) : Len(items[k].src) <= w
  PROVE  \A n \in 0 .. Len(items) :
           /\ End(items, n) \in Nat /\ End(items, n) <= n * w /\ n <= End(items, n)
           /\ (\A k \in 1 .. Len(items) : Len(items[k].src) = w) => End(items, n) = n * w
<1> DEFINE N == Len(items)
           E(n) == End(items, n)
           Fits(n) == /\ E(n) \in Nat /\ E(n) <= n * w /\ n <= E(n)
                      /\ (\A k \in 1 .. N : Len(items[k].src) = w) => E(n) = n * w
           P == {n \in 0 .. N : Fits(n)}
<1>1. N \in Nat OBVIOUS
<1>2. 0 \in P
  <2>1. E(0) = 0 BY NoItems
  <2>2. 0 \in 0 .. N BY <1>1
  <2> HIDE DEF E
  <2>3. Fits(0) BY <2>1, OnceMore
  <2>4. QED BY <2>2, <2>3
<1>3. ASSUME NEW n \in 0 .. N - 1, n \in P PROVE n + 1 \in P
  <2>1. n \in 0 .. N - 1 /\ n + 1 \in 1 .. N /\ n + 1 \in 0 .. N /\ n \in Nat BY <1>1
  <2> DEFINE b == items[n + 1].src
  <2>2. E(n + 1) = E(n) + Len(b) /\ Len(b) \in Nat \ {0} BY EndGrows
  <2>3. Len(b) <= w /\ ((\A k \in 1 .. N : Len(items[k].src) = w) => Len(b) = w) BY <2>1
  <2>4. Fits(n) BY <1>3
  <2>7. n * w \in Nat /\ (n + 1) * w = n * w + w BY <2>1, OnceMore
  <2> DEFINE x == E(n)
             y == Len(b)
             z == n * w
  <2>8. x \in Nat /\ x <= z /\ y <= w /\ n <= x BY <2>3, <2>4
  <2>9. E(n + 1) = x + y /\ y \in Nat \ {0} /\ z \in Nat /\ (n + 1) * w = z + w BY <2>2, <2>7
  <2>10. (\A k \in 1 .. N : Len(items[k].src) = w) => x = z /\ y = w BY <2>3, <2>4
  <2> HIDE DEF x, y, z, N
  <2>11. x + y <= z + w /\ x + y \in Nat /\ n + 1 <= x + y BY <2>1, <2>8, <2>9
  <2> HIDE DEF E
  <2>12. E(n + 1) <= (n + 1) * w /\ E(n + 1) \in Nat /\ n + 1 <= E(n + 1) BY <2>9, <2>11
  <2>13. (\A k \in 1 .. N : Len(items[k].src) = w) => E(n + 1) = (n + 1) * w BY <2>9, <2>10
  <2>14. Fits(n + 1) BY <2>12, <2>13
  <2>15. QED BY <2>1, <2>14
<1>4. \A n \in 0 .. N : n \in P
  <2> HIDE DEF P, N
  <2>1. \A n \in 0 .. N - 1 : n \in P => n + 1 \in P BY <1>3
  <2>2. QED BY <1>1, <1>2, <2>1, InductionUpTo
<1>5. QED BY <1>4

(* No substitution for sure: none of the items has to be counted.          *)
LEMMA NoneForSure ==
  ASSUME NEW S, NEW items \in Seq(S), NEW m \in 0 .. Len(items), Surely(Of(items, m)) = 0
  PROVE  \A k \in 1 .. m : 0 \in items[k].subs
<1> DEFINE Q(n) == \A k \in n + 1 .. m : 0 \in items[k].subs
           P == {j \in 0 .. m : Q(m - j) /\ Surely(Of(items, m - j)) = 0}
<1>1. m \in Nat /\ Len(items) \in Nat OBVIOUS
<1>2. 0 \in P
  <2>1. m - 0 = m /\ m + 1 .. m = {} BY <1>1
  <2>2. QED BY <1>1, <2>1
<1>3. ASSUME NEW j \in 0 .. m - 1, j \in P PROVE j + 1 \in P
  <2> DEFINE n == m - (j + 1)
  <2>1. n \in 0 .. Len(items) - 1 /\ n \in 0 .. Len(items) /\ n + 1 = m - j /\ j + 1 \in 0 .. m /\ n + 1 \in 1 .. m /\ n \in Nat BY <1>1
  <2> HIDE DEF n
  <2>2. Q(n + 1) /\ Surely(Of(items, n + 1)) = 0 BY <1>3, <2>1
  <2>3. Surely(Of(items, n + 1)) = Surely(Of(items, n)) + Count(0 \notin items[n + 1].subs)
    BY <2>1, ItemsGrow
  <2>4. Surely(Of(items, n)) \in Nat BY <2>1, CountedSoFar
  <2>5. Count(0 \notin items[n + 1].subs) \in Nat BY CountIsNat
  <2> DEFINE a == Surely(Of(items, n))
             b == Count(0 \notin items[n + 1].subs)
  <2>6. a \in Nat /\ b \in Nat /\ a + b = 0 BY <2>2, <2>3, <2>4, <2>5
  <2> HIDE DEF a, b
  <2>7. a = 0 /\ b = 0 BY <2>6
  <2>8. 0 \in items[n + 1].subs
    <3>1. SUFFICES ASSUME 0 \notin items[n + 1].subs PROVE FALSE OBVIOUS
    <3>2. (0 \notin items[n + 1].subs) = TRUE BY <3>1
    <3>3. b = 1 BY <3>2, Zenon DEF b, Count
    <3>4. QED BY <2>7, <3>3
  <2>9. Q(n)
    <3>1. SUFFICES ASSUME NEW k \in n + 1 .. m PROVE 0 \in items[k].subs OBVIOUS
    <3>2. k = n + 1 \/ k \in (n + 1) + 1 .. m BY <2>1
    <3>3. QED BY <2>2, <2>8, <3>2
  <2>10. n = m - (j + 1) BY DEF n
  <2>11. QED BY <2>1, <2>7, <2>9, <2>10 DEF a
<1>4. \A j \in 0 .. m : j \in P
  <2> HIDE DEF P
  <2>1. \A j \in 0 .. m - 1 : j \in P => j + 1 \in P BY <1>3
  <2>2. QED BY <1>1, <1>2, <2>1, InductionUpTo
<1>5. m \in P BY <1>1, <1>4
<1>6. m - m + 1 .. m = 1 .. m BY <1>1
<1>7. QED BY <1>5, <1>6

LEMMA MaxOfTwo == \A a, b \in Nat : Max({a, b}) = IF a >= b THEN a ELSE b
<1> SUFFICES ASSUME NEW a \in Nat, NEW b \in Nat PROVE Max({a, b}) = IF a >= b THEN a ELSE b OBVIOUS
<1> DEFINE m == IF a >= b THEN a ELSE b
<1>1. m \in {a, b} /\ \A y \in {a, b} : m >= y OBVIOUS
<1>2. \A x \in {a, b} : (\A y \in {a, b} : x >= y) => x = m OBVIOUS
<1> HIDE DEF m
<1>3. Max({a, b}) \in {a, b} /\ \A y \in {a, b} : Max({a, b}) >= y BY <1>1 DEF Max
<1>4. QED BY <1>2, <1>3 DEF m

LEMMA MinOfTwo == \A a, b \in Nat : Min({a, b}) = IF a <= b THEN a ELSE b
<1> SUFFICES ASSUME NEW a \in Nat, NEW b \in Nat PROVE Min({a, b}) = IF a <= b THEN a ELSE b OBVIOUS
<1> DEFINE m == IF a <= b THEN a ELSE b
<1>1. m \in {a, b} /\ \A y \in {a, b} : m <= y OBVIOUS
<1>2. \A x \in {a, b} : (\A y \in {a, b} : x <= y) => x = m OBVIOUS
<1> HIDE DEF m
<1>3. Min({a, b}) \in {a, b} /\ \A y \in {a, b} : Min({a, b}) <= y BY <1>1 DEF Min
<1>4. QED BY <1>2, <1>3 DEF m

(* The least of the numbers with a property.                               *)
LEMMA LeastIs ==
  ASSUME NEW T \in SUBSET Nat, NEW x \in T, \A y \in T : x <= y
  PROVE  Min(T) = x
<1>1. Min(T) \in T /\ \A y \in T : Min(T) <= y BY Zenon DEF Min
<1>2. Min(T) <= x /\ x <= Min(T) /\ x \in Nat /\ Min(T) \in Nat BY <1>1
<1> HIDE DEF Min
<1>3. QED BY <1>2

(* Spaces behind a text.                                                   *)
IsPad(pad) == pad = << 32 >> \/ pad = <<0, 32>>
PadAt(pad, i) == pad[(i % Len(pad)) + 1]

LEMMA Padded ==
  ASSUME NEW S, NEW s \in Seq(S), NEW length \in Nat, length >= Len(s), NEW pad
  PROVE  PaddedTo(s, pad, length)
           = [i \in 1 .. length |-> IF i <= Len(s) THEN s[i] ELSE PadAt(pad, i - Len(s) - 1)]
<1>1. Len(s) \in Nat OBVIOUS
<1>2. Max({Len(s), length}) = length
  <2> DEFINE l == Len(s)
  <2> HIDE DEF l
  <2>1. Max({l, length}) = IF l >= length THEN l ELSE length BY <1>1, MaxOfTwo DEF l
  <2>2. l \in Nat /\ length >= l BY <1>1 DEF l
  <2>3. (IF l >= length THEN l ELSE length) = length BY <2>2
  <2>4. QED BY <2>1, <2>3 DEF l
<1>3. QED BY <1>2, Zenon DEF PaddedTo, PadAt

LEMMA PadsAre == ASSUME NEW pad, IsPad(pad)
  PROVE  Len(pad) \in {1, 2}
BY DEF IsPad

LEMMA PadsAreBytes == ASSUME NEW pad, IsPad(pad), NEW i \in Nat PROVE PadAt(pad, i) \in Octets
<1>1. CASE pad = << 32 >>
  <2>1. Len(pad) = 1 /\ i % 1 = 0 /\ pad[0 + 1] = 32 BY <1>1
  <2>2. PadAt(pad, i) = 32 BY <2>1 DEF PadAt
  <2>3. QED BY <2>2 DEF Octets
<1>2. CASE pad = <<0, 32>>
  <2>1. Len(pad) = 2 /\ i % 2 \in {0, 1} /\ pad[0 + 1] = 0 /\ pad[1 + 1] = 32 BY <1>2
  <2>2. PadAt(pad, i) \in {0, 32} BY <2>1 DEF PadAt
  <2>3. QED BY <2>2 DEF Octets
<1>3. QED BY <1>1, <1>2 DEF IsPad

(* What is cut from the end: pads only.                                    *)
PadsFrom(s, pad, m) ==
  (Len(s) - m) % Len(pad) = 0 /\ \A i \in m + 1 .. Len(s) : s[i] = PadAt(pad, i - m - 1)

LEMMA Cut ==
  ASSUME NEW S, NEW s \in Seq(S), NEW pad
  PROVE  Trimmed(s, pad) = SubSeq(s, 1, Min({m \in 0 .. Len(s) : PadsFrom(s, pad, m)}))
<1>1. ASSUME NEW m \in 0 .. Len(s)
      PROVE  (/\ (Len(s) - m) % Len(pad) = 0
              /\ PaddedTo(SubSeq(s, 1, m), pad, Len(s)) = s) <=> PadsFrom(s, pad, m)
  <2>1. SubSeq(s, 1, m) \in Seq(S) /\ Len(SubSeq(s, 1, m)) = m /\ Len(s) \in Nat /\ m \in Nat /\ Len(s) >= m
    OBVIOUS
  <2>2. \A i \in 1 .. m : SubSeq(s, 1, m)[i] = s[i] OBVIOUS
  <2> DEFINE h == SubSeq(s, 1, m)
             t == PaddedTo(h, pad, Len(s))
             N == Len(s)
  <2> HIDE DEF h
  <2>3. t = [i \in 1 .. N |-> IF i <= m THEN h[i] ELSE PadAt(pad, i - m - 1)]
    <3>1. h \in Seq(S) /\ Len(h) = m /\ N \in Nat /\ N >= Len(h) BY <2>1 DEF h
    <3>2. t = [i \in 1 .. N |-> IF i <= Len(h) THEN h[i] ELSE PadAt(pad, i - Len(h) - 1)]
      BY <3>1, Padded
    <3>3. QED BY <3>1, <3>2
  <2>4. s = [i \in 1 .. N |-> s[i]] OBVIOUS
  <2>5. \A i \in 1 .. m : h[i] = s[i] BY <2>2 DEF h
  <2> HIDE DEF t, N
  <2>6. ASSUME t = s PROVE \A i \in m + 1 .. N : s[i] = PadAt(pad, i - m - 1)
    <3>1. SUFFICES ASSUME NEW i \in m + 1 .. N PROVE s[i] = PadAt(pad, i - m - 1) OBVIOUS
    <3>2. i \in 1 .. N /\ ~(i <= m) BY <2>1 DEF N
    <3>3. QED BY <2>3, <2>6, <3>2
  <2>7. ASSUME \A i \in m + 1 .. N : s[i] = PadAt(pad, i - m - 1) PROVE t = s
    <3>1. ASSUME NEW i \in 1 .. N PROVE (IF i <= m THEN h[i] ELSE PadAt(pad, i - m - 1)) = s[i]
      <4>1. CASE i <= m
        <5>1. i \in 1 .. m BY <2>1, <4>1
        <5>2. QED BY <2>5, <4>1, <5>1
      <4>2. CASE ~(i <= m)
        <5>1. i \in m + 1 .. N BY <2>1, <4>2 DEF N
        <5>2. QED BY <2>7, <4>2, <5>1
      <4>3. QED BY <4>1, <4>2
    <3>2. QED BY <2>3, <2>4, <3>1
  <2>8. QED BY <2>6, <2>7 DEF PadsFrom, t, N, h
<1> DEFINE A == {m \in 0 .. Len(s) : PadsFrom(s, pad, m)}
           B == {m \in 0 .. Len(s) : /\ (Len(s) - m) % Len(pad) = 0
                                     /\ PaddedTo(SubSeq(s, 1, m), pad, Len(s)) = s}
<1>2. A = B BY <1>1
<1>3. Trimmed(s, pad) = SubSeq(s, 1, Min(B)) BY DEF Trimmed
<1>4. QED BY <1>2, <1>3

LEMMA Modulo ==
  \A p \in {1, 2}, a, b, l \in Int :
    /\ (b - a) % p = 0 => ((a - l) % p = 0 <=> (b - l) % p = 0)
    /\ (a - l) % p = 0 => (b - l - 1) % p = (b - a - 1) % p
OBVIOUS

(* Pads behind a text are cut with those at its end.                       *)
LEMMA PadsAreCut ==
  ASSUME NEW s \in Seq(Octets), NEW pad, IsPad(pad), NEW length \in Nat, length >= Len(s),
         (length - Len(s)) % Len(pad) = 0
  PROVE  /\ PaddedTo(s, pad, length) \in Seq(Octets) /\ Len(PaddedTo(s, pad, length)) = length
         /\ Trimmed(PaddedTo(s, pad, length), pad) = Trimmed(s, pad)
<1> DEFINE N == Len(s)
           t == PaddedTo(s, pad, length)
           p == Len(pad)
<1>1. N \in Nat /\ length >= N /\ p \in {1, 2} BY PadsAre
<1>2. t = [i \in 1 .. length |-> IF i <= N THEN s[i] ELSE PadAt(pad, i - N - 1)] BY Padded
<1>3. t \in Seq(Octets) /\ Len(t) = length
  <2>1. ASSUME NEW i \in 1 .. length PROVE (IF i <= N THEN s[i] ELSE PadAt(pad, i - N - 1)) \in Octets
    <3>1. CASE i <= N BY <3>1
    <3>2. CASE ~(i <= N)
      <4>1. i - N - 1 \in Nat BY <1>1, <3>2
      <4>2. QED BY <3>2, <4>1, PadsAreBytes
    <3>3. QED BY <3>1, <3>2
  <2> HIDE DEF N, t
  <2>2. t \in [1 .. length -> Octets] BY <1>2, <2>1
  <2>3. QED BY <2>2
<1> DEFINE A == {m \in 0 .. N : PadsFrom(s, pad, m)}
           B == {m \in 0 .. length : PadsFrom(t, pad, m)}
<1>4. \A m \in 0 .. N : m \in 0 .. length /\ (PadsFrom(t, pad, m) <=> PadsFrom(s, pad, m))
  <2> SUFFICES ASSUME NEW m \in 0 .. N
               PROVE  m \in 0 .. length /\ (PadsFrom(t, pad, m) <=> PadsFrom(s, pad, m))
    OBVIOUS
  <2>1. m \in 0 .. length /\ m \in Nat BY <1>1
  <2> HIDE DEF t
  <2>2. (length - m) % p = 0 <=> (N - m) % p = 0
    <3>1. (length - N) % p = 0 OBVIOUS
    <3> HIDE DEF N, p
    <3>2. QED BY <1>1, <2>1, <3>1, Modulo
  <2>3. \A i \in m + 1 .. N : i \in 1 .. length /\ i <= N /\ i \in m + 1 .. length BY <1>1, <2>1
  <2>4. \A i \in m + 1 .. N : t[i] = s[i] BY <1>2, <2>3
  <2>5. ASSUME (N - m) % p = 0 PROVE \A i \in N + 1 .. length : t[i] = PadAt(pad, i - m - 1)
    <3>1. SUFFICES ASSUME NEW i \in N + 1 .. length PROVE t[i] = PadAt(pad, i - m - 1) OBVIOUS
    <3>2. i \in 1 .. length /\ ~(i <= N) BY <1>1
    <3>3. t[i] = PadAt(pad, i - N - 1) BY <1>2, <3>2
    <3>4. (i - m - 1) % p = (i - N - 1) % p
      <4>1. i \in Int /\ m \in Int /\ N \in Int BY <1>1, <2>1
      <4> HIDE DEF N, p
      <4>2. QED BY <1>1, <2>5, <4>1, Modulo
    <3>5. QED BY <3>3, <3>4 DEF PadAt
  <2>6. \A i \in m + 1 .. length : i \in m + 1 .. N \/ i \in N + 1 .. length BY <1>1, <2>1
  <2>7. PadsFrom(t, pad, m) => PadsFrom(s, pad, m)
    <3>1. SUFFICES ASSUME PadsFrom(t, pad, m) PROVE PadsFrom(s, pad, m) OBVIOUS
    <3>2. (length - m) % p = 0 /\ \A i \in m + 1 .. length : t[i] = PadAt(pad, i - m - 1)
      BY <1>3, <3>1 DEF PadsFrom
    <3>3. \A i \in m + 1 .. N : s[i] = PadAt(pad, i - m - 1) BY <2>3, <2>4, <3>2
    <3>4. QED BY <2>2, <3>2, <3>3 DEF PadsFrom
  <2>8. PadsFrom(s, pad, m) => PadsFrom(t, pad, m)
    <3>1. SUFFICES ASSUME PadsFrom(s, pad, m) PROVE PadsFrom(t, pad, m) OBVIOUS
    <3>2. (N - m) % p = 0 /\ \A i \in m + 1 .. N : s[i] = PadAt(pad, i - m - 1)
      BY <3>1 DEF PadsFrom
    <3>3. \A i \in m + 1 .. length : t[i] = PadAt(pad, i - m - 1) BY <2>4, <2>5, <2>6, <3>2
    <3>4. QED BY <1>3, <2>2, <3>2, <3>3 DEF PadsFrom
  <2>9. QED BY <2>1, <2>7, <2>8
<1>5. N \in A
  <2> HIDE DEF N, p
  <2>1. N - N = 0 /\ 0 % p = 0 /\ N + 1 .. N = {} /\ N \in 0 .. N BY <1>1
  <2>2. PadsFrom(s, pad, N) BY <2>1 DEF PadsFrom, N, p
  <2>3. QED BY <2>1, <2>2
<1>6. A \in SUBSET Nat /\ B \in SUBSET Nat BY <1>1
<1>7. PICK x \in A : \A y \in A : x <= y
  <2> HIDE DEF A
  <2>1. QED BY <1>5, <1>6, MinNat
<1>8. x \in B /\ x \in 0 .. N BY <1>4
<1>9. \A y \in B : x <= y
  <2>1. SUFFICES ASSUME NEW y \in B PROVE x <= y OBVIOUS
  <2>2. CASE y <= N
    <3>1. y \in 0 .. N BY <1>1, <2>2
    <3>2. y \in A BY <1>4, <3>1
    <3>3. QED BY <1>7, <3>2
  <2>3. CASE ~(y <= N)
    <3>1. y \in Nat /\ x \in Nat /\ x <= N BY <1>1, <1>8
    <3>2. QED BY <1>1, <2>3, <3>1
  <2>4. QED BY <2>2, <2>3
<1>10. Min(A) = x /\ Min(B) = x
  <2> HIDE DEF A, B
  <2>1. QED BY <1>6, <1>7, <1>8, <1>9, LeastIs
<1>11. Trimmed(s, pad) = SubSeq(s, 1, x) /\ Trimmed(t, pad) = SubSeq(t, 1, x)
  <2>1. Trimmed(s, pad) = SubSeq(s, 1, Min(A)) BY Cut
  <2>2. Trimmed(t, pad) = SubSeq(t, 1, Min(B))
    <3>1. B = {m \in 0 .. Len(t) : PadsFrom(t, pad, m)} BY <1>3
    <3> HIDE DEF t, B
    <3>2. QED BY <1>3, <3>1, Cut
  <2> HIDE DEF A, B
  <2>3. QED BY <1>10, <2>1, <2>2
<1>12. SubSeq(s, 1, x) = SubSeq(t, 1, x)
  <2>1. \A i \in 1 .. x : i \in 1 .. length /\ i <= N BY <1>1, <1>8
  <2> HIDE DEF t
  <2>2. \A i \in 1 .. x : s[i] = t[i] BY <1>2, <2>1
  <2>3. SubSeq(s, 1, x) = [i \in 1 .. x |-> s[i]] /\ SubSeq(t, 1, x) = [i \in 1 .. x |-> t[i]]
    BY <1>1, <1>3, <1>8
  <2>4. QED BY <2>2, <2>3
<1>13. QED BY <1>3, <1>11, <1>12

(* Spaces that are characters of their own, behind others.                 *)
WithSpaces(items, sp, m) == items \o [i \in 1 .. m |-> sp]

LEMMA SpacesBehind ==
  ASSUME NEW S, NEW items \in Seq(S), HaveBytes(items), NEW sp, sp.src = << 32 >>, NEW m \in Nat
  PROVE  /\ WithSpaces(items, sp, m) \in Seq(S \cup {sp})
         /\ Len(WithSpaces(items, sp, m)) = Len(items) + m
         /\ \A k \in 1 .. Len(items) : WithSpaces(items, sp, m)[k] = items[k]
         /\ \A k \in Len(items) + 1 .. Len(items) + m : WithSpaces(items, sp, m)[k] = sp
         /\ HaveBytes(WithSpaces(items, sp, m))
         /\ Of(WithSpaces(items, sp, m), Len(items)) = items
<1> DEFINE U == S \cup {sp}
           z == [i \in 1 .. m |-> sp]
           big == items \o z
           N == Len(items)
<1>1. z \in Seq(U) /\ Len(z) = m /\ items \in Seq(U) /\ N \in Nat OBVIOUS
<1>2. \A i \in 1 .. m : z[i] = sp OBVIOUS
<1> HIDE DEF z, U
<1>3. big \in Seq(U) /\ Len(big) = N + m BY <1>1
<1>4. \A k \in 1 .. N : big[k] = items[k] BY <1>1
<1>5. \A k \in N + 1 .. N + m : big[k] = sp
  <2>1. SUFFICES ASSUME NEW k \in N + 1 .. N + m PROVE big[k] = sp OBVIOUS
  <2>2. k - N \in 1 .. m BY <1>1
  <2>3. big[k] = z[k - N] BY <1>1, <2>2
  <2>4. QED BY <1>2, <2>2, <2>3
<1>6. HaveBytes(big)
  <2>1. SUFFICES ASSUME NEW k \in 1 .. Len(big) PROVE big[k].src \in Seq(Octets) /\ big[k].src # <<>>
    BY DEF HaveBytes
  <2>2. k \in 1 .. N \/ k \in N + 1 .. N + m BY <1>1, <1>3
  <2>3. CASE k \in 1 .. N BY <1>4, <2>3 DEF HaveBytes
  <2>4. CASE k \in N + 1 .. N + m
    <3>1. big[k].src = << 32 >> BY <1>5, <2>4
    <3>2. << 32 >> \in Seq(Octets) /\ << 32 >> # <<>> BY DEF Octets
    <3>3. QED BY <3>1, <3>2
  <2>5. QED BY <2>2, <2>3, <2>4
<1>7. Of(big, N) = items
  <2>1. N \in 0 .. Len(big) BY <1>1, <1>3
  <2>2. Of(big, N) \in Seq(U) /\ Len(Of(big, N)) = N /\ \A k \in 1 .. N : Of(big, N)[k] = big[k]
    BY <1>3, <2>1, FirstItems
  <2> DEFINE b == Of(big, N)
  <2> HIDE DEF b, big
  <2>3. b = [k \in 1 .. N |-> b[k]] /\ items = [k \in 1 .. N |-> items[k]] BY <1>1, <2>2 DEF b
  <2>4. \A k \in 1 .. N : b[k] = items[k] BY <1>4, <2>2 DEF b
  <2>5. QED BY <2>3, <2>4 DEF b
<1>8. QED BY <1>3, <1>4, <1>5, <1>6, <1>7 DEF WithSpaces, U, z

LEMMA SpaceAt == ASSUME NEW i \in Nat PROVE PadAt(<< 32 >>, i) = 32
<1>1. Len(<< 32 >>) = 1 /\ i % 1 = 0 /\ << 32 >>[0 + 1] = 32 OBVIOUS
<1>2. QED BY <1>1 DEF PadAt

LEMMA Lengthened == ASSUME NEW A, NEW a \in Seq(A), NEW v
  PROVE  a \o <<v>> = [i \in 1 .. Len(a) + 1 |-> IF i <= Len(a) THEN a[i] ELSE v]
<1> DEFINE e == <<v>>
<1>1. e \in Seq({v}) /\ Len(e) = 1 /\ e[1] = v OBVIOUS
<1> HIDE DEF e
<1> DEFINE B == A \cup {v}
           N == Len(a)
           c == a \o e
<1>2. a \in Seq(B) /\ e \in Seq(B) /\ N \in Nat BY <1>1
<1> HIDE DEF B
<1>3. c \in Seq(B) /\ Len(c) = N + 1
  <2>1. c \in Seq(B) /\ Len(c) = Len(a) + Len(e) BY <1>2, ConcatProperties
  <2> HIDE DEF c
  <2>2. QED BY <1>1, <2>1
<1>4. \A i \in 1 .. N + 1 : c[i] = IF i <= N THEN a[i] ELSE v
  <2>1. SUFFICES ASSUME NEW i \in 1 .. N + 1 PROVE c[i] = IF i <= N THEN a[i] ELSE v OBVIOUS
  <2>2. CASE i <= N
    <3>1. i \in 1 .. N BY <1>2, <2>2
    <3>2. c[i] = a[i] BY <1>2, <3>1
    <3>3. QED BY <2>2, <3>2
  <2>3. CASE ~(i <= N)
    <3>1. i = N + 1 /\ 1 \in 1 .. Len(e) BY <1>1, <1>2, <2>3
    <3>2. \A k \in 1 .. Len(a) + Len(e) : c[k] = IF k <= Len(a) THEN a[k] ELSE e[k - Len(a)]
      BY <1>2, ConcatProperties
    <3> HIDE DEF c
    <3>4. N + 1 \in 1 .. Len(a) + Len(e) /\ ~(N + 1 <= Len(a)) /\ (N + 1) - Len(a) = 1
      BY <1>1, <1>2
    <3>5. c[N + 1] = e[1] BY <3>2, <3>4
    <3>6. QED BY <1>1, <2>3, <3>1, <3>5
  <2>4. QED BY <2>2, <2>3
<1> HIDE DEF c
<1>5. c = [i \in 1 .. N + 1 |-> c[i]] BY <1>3
<1> HIDE DEF N
<1>6. c = [i \in 1 .. N + 1 |-> IF i <= N THEN a[i] ELSE v] BY <1>4, <1>5
<1>7. QED BY <1>6 DEF c, e, N

LEMMA OneMoreSpace ==
  ASSUME NEW t \in Seq(Octets), NEW l \in Nat, l >= Len(t)
  PROVE  PaddedTo(t, << 32 >>, l) \o << 32 >> = PaddedTo(t, << 32 >>, l + 1)
<1> DEFINE a == PaddedTo(t, << 32 >>, l)
           b == PaddedTo(t, << 32 >>, l + 1)
           N == Len(t)
           AtMark(i) == IF i <= N THEN t[i] ELSE PadAt(<< 32 >>, i - N - 1)
<1>1. N \in Nat OBVIOUS
<1>2. a = [i \in 1 .. l |-> AtMark(i)] BY Padded
<1>3. b = [i \in 1 .. l + 1 |-> AtMark(i)]
  <2>1. l + 1 \in Nat /\ l + 1 >= Len(t) BY <1>1
  <2>2. QED BY <2>1, Padded
<1>4. AtMark(l + 1) = 32
  <2>1. ~(l + 1 <= N) /\ l + 1 - N - 1 \in Nat BY <1>1
  <2>2. QED BY <2>1, SpaceAt
<1> HIDE DEF a, b, N, AtMark
<1>5. a \in Seq({AtMark(i) : i \in 1 .. l + 1}) /\ Len(a) = l
  <2>1. a \in [1 .. l -> {AtMark(i) : i \in 1 .. l + 1}] BY <1>2
  <2>2. QED BY <2>1
<1>6. a \o << 32 >> = [i \in 1 .. l + 1 |-> IF i <= l THEN a[i] ELSE 32]
  <2> DEFINE A == {AtMark(i) : i \in 1 .. l + 1}
  <2> HIDE DEF A
  <2>1. a \in Seq(A) /\ Len(a) = l BY <1>5 DEF A
  <2>2. a \o << 32 >> = [i \in 1 .. Len(a) + 1 |-> IF i <= Len(a) THEN a[i] ELSE 32]
    BY <2>1, Lengthened
  <2>3. QED BY <2>1, <2>2
<1>7. \A i \in 1 .. l + 1 : (IF i <= l THEN a[i] ELSE 32) = AtMark(i)
  <2>1. SUFFICES ASSUME NEW i \in 1 .. l + 1 PROVE (IF i <= l THEN a[i] ELSE 32) = AtMark(i) OBVIOUS
  <2>2. CASE i <= l
    <3>1. i \in 1 .. l BY <2>2
    <3>2. a[i] = AtMark(i) BY <1>2, <3>1
    <3>3. QED BY <2>2, <3>2
  <2>3. CASE ~(i <= l)
    <3>1. i = l + 1 BY <2>3
    <3>2. QED BY <1>4, <2>3, <3>1
  <2>4. QED BY <2>2, <2>3
<1>8. QED BY <1>3, <1>6, <1>7 DEF a, b

LEMMA NotPadded == ASSUME NEW S, NEW t \in Seq(S), NEW pad PROVE PaddedTo(t, pad, Len(t)) = t
<1> DEFINE N == Len(t)
<1>1. N \in Nat /\ N >= Len(t) OBVIOUS
<1>2. PaddedTo(t, pad, N) = [i \in 1 .. N |-> IF i <= N THEN t[i] ELSE PadAt(pad, i - N - 1)]
  BY <1>1, Padded
<1>3. t = [i \in 1 .. N |-> t[i]] OBVIOUS
<1> HIDE DEF N
<1>4. \A i \in 1 .. N : i <= N BY <1>1
<1>5. QED BY <1>2, <1>3, <1>4 DEF N

LEMMA WholeText ==
  ASSUME NEW S, NEW items \in Seq(S), HaveBytes(items)
  PROVE  Text(items) \in Seq(Octets) /\ Len(Text(items)) = End(items, Len(items)) /\ Len(Text(items)) \in Nat
<1>1. Len(items) \in 0 .. Len(items) OBVIOUS
<1>2. Of(items, Len(items)) = items BY <1>1, FirstItems
<1>3. Text(items) \in Seq(Octets) BY <1>1, <1>2, TextsAreBytes
<1> DEFINE t == Text(items)
<1> HIDE DEF t
<1>4. Len(t) \in Nat BY <1>3 DEF t
<1>5. QED BY <1>2, <1>3, <1>4 DEF End, t

(* A text with spaces behind it is padded with them.                       *)
LEMMA SpacedText ==
  ASSUME NEW S, NEW items \in Seq(S), HaveBytes(items), NEW sp, sp.src = << 32 >>, NEW m \in Nat
  PROVE  \A j \in 0 .. m :
           /\ Len(items) + j \in 0 .. Len(WithSpaces(items, sp, m))
           /\ Text(Of(WithSpaces(items, sp, m), Len(items) + j))
                = PaddedTo(Text(items), << 32 >>, Len(Text(items)) + j)
<1> DEFINE N == Len(items)
           t == Text(items)
           big == WithSpaces(items, sp, m)
           Is(j) == Text(Of(big, N + j)) = PaddedTo(t, << 32 >>, Len(t) + j)
           P == {j \in 0 .. m : Is(j)}
<1>1. t \in Seq(Octets) /\ Len(t) \in Nat /\ N \in Nat BY WholeText
<1>2. big \in Seq(S \cup {sp}) /\ Len(big) = N + m /\ HaveBytes(big) /\ Of(big, N) = items
      /\ \A k \in N + 1 .. N + m : big[k] = sp
  <2>1. /\ WithSpaces(items, sp, m) \in Seq(S \cup {sp})
        /\ Len(WithSpaces(items, sp, m)) = Len(items) + m
        /\ \A k \in 1 .. Len(items) : WithSpaces(items, sp, m)[k] = items[k]
        /\ \A k \in Len(items) + 1 .. Len(items) + m : WithSpaces(items, sp, m)[k] = sp
        /\ HaveBytes(WithSpaces(items, sp, m))
        /\ Of(WithSpaces(items, sp, m), Len(items)) = items
    BY SpacesBehind, Zenon
  <2>2. QED BY <2>1, Zenon
<1> HIDE DEF N, t, big
<1>3. 0 \in P
  <2>1. N + 0 = N /\ Len(t) + 0 = Len(t) /\ 0 \in 0 .. m BY <1>1
  <2>2. PaddedTo(t, << 32 >>, Len(t)) = t BY <1>1, NotPadded
  <2>3. Is(0) BY <1>2, <2>1, <2>2 DEF t
  <2>4. QED BY <2>1, <2>3
<1>4. ASSUME NEW j \in 0 .. m - 1, j \in P PROVE j + 1 \in P
  <2>1. /\ N + j \in 0 .. Len(big) - 1 /\ (N + j) + 1 \in N + 1 .. N + m /\ j + 1 \in 0 .. m
        /\ (N + j) + 1 = N + (j + 1) /\ (Len(t) + j) + 1 = Len(t) + (j + 1)
        /\ Len(t) + j \in Nat /\ Len(t) + j >= Len(t)
    BY <1>1, <1>2
  <2>2. Text(Of(big, N + j + 1)) = Text(Of(big, N + j)) \o big[N + j + 1].src
    BY <1>2, <2>1, ItemsGrow
  <2>3. big[N + j + 1].src = << 32 >> BY <1>2, <2>1
  <2>4. Text(Of(big, N + j)) = PaddedTo(t, << 32 >>, Len(t) + j) BY <1>4
  <2>5. PaddedTo(t, << 32 >>, Len(t) + j) \o << 32 >> = PaddedTo(t, << 32 >>, (Len(t) + j) + 1)
    BY <1>1, <2>1, OneMoreSpace
  <2>6. Is(j + 1) BY <2>1, <2>2, <2>3, <2>4, <2>5
  <2>7. QED BY <2>1, <2>6
<1>5. \A j \in 0 .. m : j \in P
  <2> HIDE DEF P
  <2>1. \A j \in 0 .. m - 1 : j \in P => j + 1 \in P BY <1>4
  <2>2. QED BY <1>3, <2>1, InductionUpTo
<1>6. \A j \in 0 .. m : N + j \in 0 .. Len(big) BY <1>1, <1>2
<1>7. QED BY <1>5, <1>6 DEF N, t, big

(* A text column: the characters that are sent for it, how many of them    *)
(* the row keeps, and how many bytes each takes there.                     *)
IsTextColumn(c) == IsColumn(c) /\ c.toDB2.schema # "U2U"
PadCount(c) == IF c.varying THEN 0 ELSE MaxDisplayLength(c) - Len(Text(c.items))
SentItems(c) == WithSpaces(c.items, Space(c), PadCount(c))
KeptCount(c) == IF c.varying THEN Len(c.items) ELSE c.n
BytesPer(c) == IF MultiByte(c) THEN 2 ELSE 1
ColumnItems(c) == {c.items[k] : k \in DOMAIN c.items}

LEMMA ColumnHas ==
  ASSUME NEW c, IsTextColumn(c)
  PROVE  /\ c.n \in Nat \ {0} /\ c.mbmaxlen \in Nat \ {0} /\ Len(c.items) \in Nat /\ Len(c.items) <= c.n
         /\ c.items \in Seq(ColumnItems(c))
         /\ <<c.toDB2.schema, c.toMySQL.schema>> \in ColumnSchemas
         /\ c.mbminlen = 1 /\ MultiByte(c) = (c.toDB2.schema # "S2S")
         /\ c.pad = << 32 >> /\ ComesBack(c, Space(c))
         /\ TablesFit(c.toDB2) /\ TablesFit(c.toMySQL)
         /\ \A k \in 1 .. Len(c.items) : ComesBack(c, c.items[k]) \/ Undefined(c, c.items[k])
<1>1. /\ c.n \in Nat \ {0} /\ c.mbmaxlen \in Nat \ {0} /\ Len(c.items) <= c.n
      /\ c.items \in Seq(ColumnItems(c))
  BY DEF IsTextColumn, IsColumn, ColumnItems
<1>2. /\ <<c.toDB2.schema, c.toMySQL.schema>> \in ColumnSchemas
      /\ c.mbminlen = 1 /\ MultiByte(c) = (c.toDB2.schema # "S2S")
      /\ c.pad = << 32 >> /\ ComesBack(c, Space(c))
      /\ TablesFit(c.toDB2) /\ TablesFit(c.toMySQL)
      /\ \A k \in 1 .. Len(c.items) : ComesBack(c, c.items[k]) \/ Undefined(c, c.items[k])
  BY Zenon DEF IsTextColumn, IsColumn
<1>3. Len(c.items) \in Nat BY <1>1
<1>4. QED BY <1>1, <1>2, <1>3

(* Its descriptors are text's.                                             *)
LEMMA ColumnsSchemas ==
  ASSUME NEW c, IsTextColumn(c)
  PROVE  /\ c.toDB2.schema \in {"S2S", "D2U", "E2U", "82U"}
         /\ c.toMySQL.schema \in {"S2S", "T2D", "T2E", "T28"}
         /\ c.toDB2.schema \in Schemas /\ c.toMySQL.schema \in Schemas
         /\ c.toDB2.schema # "T2S" /\ c.toMySQL.schema # "U2U" /\ c.toMySQL.schema # "T2S"
<1>1. <<c.toDB2.schema, c.toMySQL.schema>> \in ColumnSchemas BY ColumnHas
<1>2. QED BY <1>1 DEF ColumnSchemas, Schemas

LEMMA ItemsFit ==
  ASSUME NEW c, IsTextColumn(c), NEW i, ComesBack(c, i) \/ Undefined(c, i)
  PROVE  i.src \in Seq(Octets) /\ i.src # <<>> /\ Len(i.src) <= c.mbmaxlen
<1>1. CASE ComesBack(c, i)
  <2>1. IsItem(c.toDB2, i) /\ Len(i.src) <= c.mbmaxlen BY <1>1 DEF ComesBack
  <2>2. QED BY <2>1, Zenon DEF IsItem, Octets
<1>2. CASE Undefined(c, i)
  <2>1. /\ i.src \in Seq(Octets) /\ Len(i.src) <= c.mbmaxlen /\ c.toDB2.schema \in {"S2S", "D2U", "E2U"}
        /\ Len(i.src) = CASE c.toDB2.schema = "S2S" -> 1
                     [] c.toDB2.schema = "D2U" -> 2
                     [] c.toDB2.schema = "E2U" -> IF i.src[1] \in Shifts THEN 3 ELSE 2
    BY <1>2 DEF Undefined, Octets
  <2>2. Len(i.src) \in {1, 2, 3} BY <2>1
  <2>3. i.src # <<>> BY <2>2
  <2>4. QED BY <2>1, <2>3
<1>3. QED BY <1>1, <1>2

LEMMA ColumnsBytes ==
  ASSUME NEW c, IsTextColumn(c)
  PROVE  HaveBytes(c.items) /\ \A k \in 1 .. Len(c.items) : Len(c.items[k].src) <= c.mbmaxlen
<1>1. \A k \in 1 .. Len(c.items) : ComesBack(c, c.items[k]) \/ Undefined(c, c.items[k])
  BY ColumnHas
<1>2. QED BY <1>1, ItemsFit DEF HaveBytes

LEMMA Product == \A a, b, w \in Nat : a <= b => a * w <= b * w
OBVIOUS
LEMMA ProductGrows == \A a, b \in Nat : b # 0 => a <= a * b /\ a * b \in Nat
OBVIOUS
(* As many spaces as there is room for are at least those that are kept.   *)
LEMMA SpacesReach ==
  \A m, n, l, w \in Nat : w # 0 /\ m <= n /\ l <= m * w => n * w - l \in Nat /\ n <= m + (n * w - l)
<1> SUFFICES ASSUME NEW m \in Nat, NEW n \in Nat, NEW l \in Nat, NEW w \in Nat, w # 0, m <= n, l <= m * w
             PROVE  n * w - l \in Nat /\ n <= m + (n * w - l)
  OBVIOUS
<1>1. PICK e \in Nat : n = m + e
  <2>1. n - m \in Nat /\ n = m + (n - m) OBVIOUS
  <2>2. QED BY <2>1
<1>2. n * w = m * w + e * w BY <1>1
<1>3. e <= e * w /\ e * w \in Nat /\ m * w \in Nat BY ProductGrows
<1> DEFINE a == m * w
           b == e * w
           d == n * w
<1> HIDE DEF a, b, d
<1>4. d = a + b /\ e <= b /\ a \in Nat /\ b \in Nat /\ l <= a BY <1>2, <1>3 DEF a, b, d
<1>5. d - l \in Nat /\ n <= m + (d - l) BY <1>1, <1>4
<1>6. QED BY <1>5 DEF d

(* The characters that are sent.                                           *)
LEMMA TextSent ==
  ASSUME NEW c, IsTextColumn(c)
  PROVE  LET its == SentItems(c) IN
         /\ its \in Seq(ColumnItems(c) \cup {Space(c)}) /\ HaveBytes(its) /\ Len(its) \in Nat
         /\ DataToStore(c) = Text(its)
         /\ KeptCount(c) \in Nat /\ KeptCount(c) <= Len(its)
         /\ c.varying => its = c.items /\ KeptCount(c) = Len(its)
         /\ Len(c.items) <= KeptCount(c) /\ KeptCount(c) <= c.n
         /\ \A k \in 1 .. Len(its) : \/ ComesBack(c, its[k])
                                     \/ Undefined(c, its[k]) /\ k <= Len(c.items)
         /\ ~c.varying => /\ Len(DataToStore(c)) = c.n * c.mbmaxlen
                          /\ Text(Of(its, KeptCount(c)))
                               = PaddedTo(Text(c.items), << 32 >>, Len(Text(c.items)) + (c.n - Len(c.items)))
<1> DEFINE its == SentItems(c)
           S == ColumnItems(c)
           sp == Space(c)
           m == Len(c.items)
           w == c.mbmaxlen
           L == Len(Text(c.items))
           p == PadCount(c)
<1>1. /\ c.n \in Nat \ {0} /\ w \in Nat \ {0} /\ m \in Nat /\ m <= c.n /\ c.items \in Seq(S) /\ c.pad = << 32 >>
      /\ ComesBack(c, sp) /\ \A k \in 1 .. m : ComesBack(c, c.items[k]) \/ Undefined(c, c.items[k])
  BY ColumnHas
<1>2. HaveBytes(c.items) /\ \A k \in 1 .. m : Len(c.items[k].src) <= w BY ColumnsBytes
<1>3. sp.src = << 32 >> BY <1>1 DEF Space
<1>4. L \in Nat /\ L <= m * w
  <2>1. L = End(c.items, m) BY <1>1, <1>2, WholeText
  <2>2. m \in 0 .. m BY <1>1
  <2> HIDE DEF L
  <2>3. End(c.items, m) \in Nat /\ End(c.items, m) <= m * w BY <1>1, <1>2, <2>2, TextLengths
  <2>4. QED BY <2>1, <2>3
<1> HIDE DEF L, m, w, sp, S
<1>5. c.n * w - L \in Nat /\ c.n <= m + (c.n * w - L) BY <1>1, <1>4, SpacesReach
<1>6. p = IF c.varying THEN 0 ELSE c.n * w - L BY DEF PadCount, MaxDisplayLength, w, L
<1> HIDE DEF p
<1>7. p \in Nat BY <1>5, <1>6
<1>8. /\ its \in Seq(S \cup {sp}) /\ Len(its) = m + p
      /\ \A k \in 1 .. m : its[k] = c.items[k]
      /\ \A k \in m + 1 .. m + p : its[k] = sp
      /\ HaveBytes(its) /\ Of(its, m) = c.items
  <2> DEFINE i == c.items
             big == WithSpaces(i, sp, p)
  <2>1. i \in Seq(S) /\ HaveBytes(i) /\ sp.src = << 32 >> /\ p \in Nat BY <1>1, <1>2, <1>3, <1>7
  <2>2. its = big BY DEF SentItems, sp, p
  <2>3. m = Len(i) BY DEF m
  <2> HIDE DEF i, its
  <2>4. /\ big \in Seq(S \cup {sp})
        /\ Len(big) = Len(i) + p
        /\ \A k \in 1 .. Len(i) : big[k] = i[k]
        /\ \A k \in Len(i) + 1 .. Len(i) + p : big[k] = sp
        /\ HaveBytes(big)
        /\ Of(big, Len(i)) = i
    BY <2>1, SpacesBehind
  <2> HIDE DEF big
  <2>5. QED BY <2>2, <2>3, <2>4, Zenon DEF i
<1>9. \A j \in 0 .. p : m + j \in 0 .. Len(its) /\ Text(Of(its, m + j)) = PaddedTo(Text(c.items), << 32 >>, L + j)
  <2> DEFINE big == WithSpaces(c.items, sp, p)
  <2>1. \A j \in 0 .. p : /\ Len(c.items) + j \in 0 .. Len(big)
                         /\ Text(Of(big, Len(c.items) + j)) = PaddedTo(Text(c.items), << 32 >>, Len(Text(c.items)) + j)
    <3>1. c.items \in Seq(S) /\ HaveBytes(c.items) /\ sp.src = << 32 >> /\ p \in Nat
      BY <1>1, <1>2, <1>3, <1>7
    <3>2. QED BY <3>1, SpacedText, Zenon
  <2>2. its = big BY DEF SentItems, sp, p
  <2> HIDE DEF big, its
  <2>3. QED BY <2>1, <2>2, Zenon DEF m, L
<1> HIDE DEF its
<1>10. Of(its, Len(its)) = its
  <2>1. Len(its) \in 0 .. Len(its) BY <1>1, <1>7, <1>8
  <2>2. QED BY <1>8, <2>1, FirstItems
<1>11. c.varying => its = c.items
  <2>1. c.varying => Len(its) = m BY <1>1, <1>6, <1>8
  <2>2. QED BY <1>8, <1>10, <2>1
<1>12. KeptCount(c) = IF c.varying THEN m ELSE c.n BY DEF KeptCount, m
<1>13. /\ KeptCount(c) \in Nat /\ KeptCount(c) <= Len(its) /\ m <= KeptCount(c) /\ KeptCount(c) <= c.n
       /\ (c.varying => KeptCount(c) = Len(its))
  <2>1. CASE c.varying BY <1>1, <1>6, <1>8, <1>12, <2>1
  <2>2. CASE ~c.varying
    <3>1. p = c.n * w - L /\ Len(its) = m + p /\ KeptCount(c) = c.n BY <1>6, <1>8, <1>12, <2>2
    <3>2. c.n <= m + p BY <1>5, <3>1
    <3>3. QED BY <1>1, <2>2, <3>1, <3>2
  <2>3. QED BY <2>1, <2>2
<1>14. \A k \in 1 .. Len(its) : ComesBack(c, its[k]) \/ (Undefined(c, its[k]) /\ k <= m)
  <2>1. SUFFICES ASSUME NEW k \in 1 .. Len(its)
                 PROVE  ComesBack(c, its[k]) \/ (Undefined(c, its[k]) /\ k <= m)
    OBVIOUS
  <2>2. k \in 1 .. m \/ k \in m + 1 .. m + p BY <1>1, <1>7, <1>8
  <2>3. CASE k \in 1 .. m
    <3>1. its[k] = c.items[k] /\ k <= m BY <1>1, <1>8, <2>3
    <3>2. QED BY <1>1, <2>3, <3>1
  <2>4. CASE k \in m + 1 .. m + p BY <1>1, <1>8, <2>4
  <2>5. QED BY <2>2, <2>3, <2>4
<1>15. DataToStore(c) = Text(its)
  <2>1. CASE c.varying BY <1>11, <2>1 DEF DataToStore
  <2>2. CASE ~c.varying
    <3>1. p = c.n * w - L /\ p \in 0 .. p /\ L + p = c.n * w
      BY <1>1, <1>4, <1>5, <1>6, <1>7, <2>2
    <3>2. DataToStore(c) = PaddedTo(Text(c.items), << 32 >>, c.n * w)
      BY <1>1, <2>2 DEF DataToStore, MaxDisplayLength, w
    <3>3. QED BY <1>8, <1>9, <1>10, <3>1, <3>2
  <2>3. QED BY <2>1, <2>2
<1>16. ASSUME ~c.varying PROVE Len(DataToStore(c)) = c.n * w
  <2>1. c.n * w \in Nat /\ c.n * w >= L BY <1>1, <1>4, <1>5
  <2>2. DataToStore(c) = PaddedTo(Text(c.items), << 32 >>, c.n * w)
    BY <1>1, <1>16 DEF DataToStore, MaxDisplayLength, w
  <2>3. Text(c.items) \in Seq(Octets) BY <1>1, <1>2, WholeText
  <2>4. c.n * w >= Len(Text(c.items)) BY <2>1 DEF L
  <2> DEFINE t == Text(c.items)
             d == c.n * w
             q == PaddedTo(t, << 32 >>, d)
  <2> HIDE DEF t, d
  <2>5. q = [i \in 1 .. d |-> IF i <= Len(t) THEN t[i] ELSE PadAt(<< 32 >>, i - Len(t) - 1)]
    BY <2>1, <2>3, <2>4, Padded DEF t, d
  <2>6. d \in Nat BY <2>1 DEF d
  <2> HIDE DEF q
  <2>7. Len(q) = d BY <2>5, <2>6
  <2>8. QED BY <2>2, <2>7 DEF q, d, t
<1>17. ASSUME ~c.varying
       PROVE  Text(Of(its, KeptCount(c))) = PaddedTo(Text(c.items), << 32 >>, L + (c.n - m))
  <2>1. p = c.n * w - L BY <1>6, <1>17
  <2>2. c.n - m \in 0 .. p /\ m + (c.n - m) = c.n BY <1>1, <1>5, <1>7, <2>1
  <2>3. QED BY <1>9, <1>12, <1>17, <2>2
<1>18. Len(its) \in Nat BY <1>1, <1>7, <1>8
<1>19. QED BY <1>8, <1>11, <1>13, <1>14, <1>15, <1>16, <1>17, <1>18 DEF its, S, sp, m, w, L

(* A code point that is not defined stops the loop, whatever is behind it. *)
LEMMA FirstBytes ==
  ASSUME NEW r \in Seq(Octets), NEW s \in Seq(Octets), Begins(r, s)
  PROVE  \A n \in 1 .. Len(s) : SubSeq(r, 1, n) = SubSeq(s, 1, n)
<1>1. Len(r) \in Nat /\ Len(s) \in Nat /\ Len(r) >= Len(s) /\ \A i \in 1 .. Len(s) : r[i] = s[i]
  BY DEF Begins
<1>2. SUFFICES ASSUME NEW n \in 1 .. Len(s) PROVE SubSeq(r, 1, n) = SubSeq(s, 1, n) OBVIOUS
<1>3. SubSeq(r, 1, n) = [i \in 1 .. n |-> r[i]] BY <1>1
<1>4. SubSeq(s, 1, n) = [i \in 1 .. n |-> s[i]] BY <1>1
<1>5. \A i \in 1 .. n : r[i] = s[i] BY <1>1
<1>6. QED BY <1>3, <1>4, <1>5

LEMMA UndefinedIs ==
  ASSUME NEW c, NEW i, Undefined(c, i)
  PROVE  /\ i.src \in Seq(Octets) /\ c.toDB2.schema \in {"S2S", "D2U", "E2U"}
         /\ c.toDB2.schema = "S2S" => Len(i.src) = 1
         /\ c.toDB2.schema = "D2U" => Len(i.src) = 2
         /\ c.toDB2.schema = "E2U" => Len(i.src) = IF i.src[1] \in Shifts THEN 3 ELSE 2
         /\ NoCharacter(c.toDB2, i.src)
<1>1. i.src \in Seq(Octets) /\ c.toDB2.schema \in {"S2S", "D2U", "E2U"} /\ NoCharacter(c.toDB2, i.src)
  BY DEF Undefined, Octets
<1>2. Len(i.src) = CASE c.toDB2.schema = "S2S" -> 1
                     [] c.toDB2.schema = "D2U" -> 2
                     [] c.toDB2.schema = "E2U" -> IF i.src[1] \in Shifts THEN 3 ELSE 2
  BY DEF Undefined
<1>3. QED BY <1>1, <1>2

LEMMA NoCharacterInPage ==
  ASSUME NEW d, d.schema \in {"D2U", "E2U"}, NEW s
  PROVE  NoCharacter(d, s) <=> \A n \in 1 .. Len(s) : ~InPage(d, SubSeq(s, 1, n))
<1>1. d.schema # "S2S" /\ d.schema \in SourcePage /\ d.schema \notin SourceU /\ d.schema \notin SourceT
      /\ d.schema \notin Source8
  BY DEF SourcePage, SourceS, SourceD, SourceE, SourceU, SourceT, Source8
<1>2. QED BY <1>1, Zenon DEF NoCharacter

LEMMA NoCharacterS2S ==
  ASSUME NEW d, d.schema = "S2S", NEW s
  PROVE  NoCharacter(d, s) <=> s[1] # 0 /\ S2S(d.cd, s[1]) = 0
<1>1. d.schema \notin SourcePage /\ d.schema \notin SourceU /\ d.schema \notin SourceT
      /\ d.schema \notin Source8
  BY DEF SourcePage, SourceS, SourceD, SourceE, SourceU, SourceT, Source8
<1>2. QED BY <1>1, Zenon DEF NoCharacter

LEMMA PageOf ==
  ASSUME NEW d, NEW s
  PROVE  /\ d.schema = "D2U" => (InPage(d, s) <=> InD(d.cd, s))
         /\ d.schema = "E2U" => (InPage(d, s) <=> InE(d.cd, s))
<1>1. CASE d.schema = "D2U"
  <2>1. d.schema \notin SourceS /\ d.schema \in SourceD /\ d.schema \notin SourceE
    BY <1>1 DEF SourceS, SourceD, SourceE
  <2>2. InPage(d, s) <=> InD(d.cd, s) BY <2>1, Zenon DEF InPage
  <2>3. QED BY <1>1, <2>2
<1>2. CASE d.schema = "E2U"
  <2>1. d.schema \notin SourceS /\ d.schema \notin SourceD /\ d.schema \in SourceE
    BY <1>2 DEF SourceS, SourceD, SourceE
  <2>2. InPage(d, s) <=> InE(d.cd, s) BY <2>1, Zenon DEF InPage
  <2>3. QED BY <1>2, <2>2
<1>3. QED BY <1>1, <1>2

LEMMA StillNoCharacter ==
  ASSUME NEW c, NEW i, Undefined(c, i), i.src # <<>>, NEW r \in Seq(Octets), Begins(r, i.src)
  PROVE  NoCharacter(c.toDB2, r)
<1> DEFINE s == i.src
           d == c.toDB2
<1>1. /\ s \in Seq(Octets) /\ d.schema \in {"S2S", "D2U", "E2U"} /\ NoCharacter(d, s)
      /\ (d.schema = "S2S" => Len(s) = 1) /\ (d.schema = "D2U" => Len(s) = 2)
      /\ (d.schema = "E2U" => Len(s) = IF s[1] \in Shifts THEN 3 ELSE 2)
  BY UndefinedIs
<1>2. s # <<>> /\ Begins(r, s) OBVIOUS
<1> HIDE DEF s, d
<1>3. Len(s) \in Nat \ {0} /\ Len(r) \in Nat /\ Len(r) >= Len(s) /\ r[1] = s[1] /\ 1 \in 1 .. Len(s)
  BY <1>1, <1>2 DEF Begins
<1>4. \A n \in 1 .. Len(s) : SubSeq(r, 1, n) = SubSeq(s, 1, n) BY <1>1, <1>2, FirstBytes
<1>5. CASE d.schema = "S2S" BY <1>1, <1>3, <1>5, NoCharacterS2S DEF d
<1>6. CASE d.schema = "D2U"
  <2>1. \A n \in 1 .. Len(s) : ~InPage(d, SubSeq(s, 1, n)) BY <1>1, <1>6, NoCharacterInPage
  <2>2. SUFFICES ASSUME NEW n \in 1 .. Len(r) PROVE ~InPage(d, SubSeq(r, 1, n))
    BY <1>6, NoCharacterInPage DEF d
  <2>3. CASE n \in 1 .. Len(s) BY <1>4, <2>1, <2>3
  <2>4. CASE n > 2
    <3>1. Len(SubSeq(r, 1, n)) = n BY <1>3
    <3> DEFINE q == SubSeq(r, 1, n)
    <3> HIDE DEF q
    <3>2. Len(q) # 1 /\ Len(q) # 2 BY <2>4, <3>1 DEF q
    <3>3. ~InD(d.cd, q) BY <3>2 DEF InD, InS
    <3>4. QED BY <1>6, <3>3, PageOf DEF q
  <2>5. n \in 1 .. Len(s) \/ n > 2
    <3>1. Len(s) = 2 BY <1>1, <1>6
    <3>2. n \in 1 .. 2 \/ n > 2 BY <1>3
    <3>3. QED BY <3>1, <3>2
  <2>6. QED BY <2>3, <2>4, <2>5
<1>7. CASE d.schema = "E2U"
  <2>1. \A n \in 1 .. Len(s) : ~InPage(d, SubSeq(s, 1, n)) BY <1>1, <1>7, NoCharacterInPage
  <2>2. SUFFICES ASSUME NEW n \in 1 .. Len(r) PROVE ~InPage(d, SubSeq(r, 1, n))
    BY <1>7, NoCharacterInPage DEF d
  <2>3. CASE n \in 1 .. Len(s) BY <1>4, <2>1, <2>3
  <2>4. CASE n > Len(s)
    <3>1. Len(SubSeq(r, 1, n)) = n /\ SubSeq(r, 1, n)[1] = r[1] BY <1>3
    <3> DEFINE q == SubSeq(r, 1, n)
    <3> HIDE DEF q
    <3>2. Len(q) = n /\ q[1] = s[1] BY <1>3, <3>1 DEF q
    <3>3. Len(s) = IF s[1] \in Shifts THEN 3 ELSE 2 BY <1>1, <1>7
    <3>4. Len(q) \notin (IF s[1] \in Shifts THEN {2, 3} ELSE {1, 2}) BY <2>4, <3>2, <3>3
    <3>5. q # << 0 >>
      <4>1. Len(<< 0 >>) = 1 OBVIOUS
      <4>2. Len(q) # 1 BY <2>4, <3>2, <3>3
      <4>3. QED BY <4>1, <4>2
    <3>6. ~InE(d.cd, q) BY <3>2, <3>4, <3>5, Zenon DEF InE
    <3>7. QED BY <1>7, <3>6, PageOf DEF q
  <2>5. n \in 1 .. Len(s) \/ n > Len(s) BY <1>3
  <2>6. QED BY <2>3, <2>4, <2>5
<1>8. QED BY <1>1, <1>5, <1>6, <1>7 DEF d

LEMMA UndefinedStops ==
  ASSUME NEW c, IsTextColumn(c), NEW i, Undefined(c, i), NEW r \in Seq(Octets), Begins(r, i.src),
         NEW k, k.schema = c.toDB2.schema, k.cd = c.toDB2.cd, NEW x
  PROVE  Turn(k, r, x).kind = "error"
<1>1. i.src \in Seq(Octets) /\ i.src # <<>> BY ItemsFit
<1>2. NoCharacter(c.toDB2, r) BY <1>1, StillNoCharacter
<1>3. r # <<>> BY <1>1 DEF Begins
<1> DEFINE j == [src |-> r, is |-> "bad", subs |-> {0}]
<1>4. j.src = r /\ j.is = "bad" /\ j.subs = {0} OBVIOUS
<1> HIDE DEF j
<1>5. IsItem(c.toDB2, j)
  <2>1. j.src \in Seq(0 .. 255) /\ j.src # <<>> /\ j.subs \in {{0}, {1}, {0, 1}} /\ j.is \in {"ok", "bad", "lenient"}
    BY <1>3, <1>4 DEF Octets
  <2>2. j.is # "ok" /\ j.is # "lenient" BY <1>4
  <2>3. /\ CASE j.is = "ok"      -> Converts(c.toDB2, j)
             [] j.is = "bad"     -> NoCharacter(c.toDB2, j.src)
             [] j.is = "lenient" -> Tolerated(c.toDB2, j.src)
    BY <1>2, <1>4, <2>2, Zenon
  <2>4. QED BY <2>1, <2>3, Zenon DEF IsItem
<1>6. c.toDB2.schema \in Schemas /\ c.toDB2.schema # "U2U" BY ColumnsSchemas
<1>7. Turn(k, j.src, x).kind = "error"
  <2> DEFINE d == c.toDB2
  <2>1. /\ d.schema \in Schemas /\ d.schema # "U2U" /\ k.schema = d.schema /\ k.cd = d.cd
        /\ IsItem(d, j) /\ j.is = "bad"
    BY <1>4, <1>5, <1>6
  <2> HIDE DEF d
  <2>2. QED BY <2>1, BadTurn, Zenon
<1>8. QED BY <1>4, <1>7

LEMMA DividedBy == \A q \in Nat, w \in Nat \ {0} : (w * q) \div w = q
OBVIOUS
LEMMA Doubled == \A n \in Nat, w \in Nat : (n * w) * 2 = w * (2 * n) /\ 2 * n \in Nat /\ n * w \in Nat
OBVIOUS
LEMMA OverOne == \A k \in Nat : k \div 1 = k
OBVIOUS
LEMMA NoLess == \A n \in Nat, w \in Nat \ {0} : n <= n * w
OBVIOUS
LEMMA ByOne == \A n \in Nat : n * 1 = n /\ 1 * n = n
OBVIOUS

(* The room that the row has for a column is a whole number of its         *)
(* characters: all that a VARCHAR has, and the whole of a CHAR.            *)
LEMMA Room ==
  ASSUME NEW c, IsTextColumn(c)
  PROVE  \E q \in Nat : /\ RoomInRow(c) = BytesPer(c) * q /\ KeptCount(c) <= q /\ q <= c.n
                        /\ c.varying => KeptCount(c) = Len(SentItems(c))
                        /\ ~c.varying => q = KeptCount(c)
<1> DEFINE w == c.mbmaxlen
           m == Len(c.items)
           D == Len(DataToStore(c))
           L == Len(Text(c.items))
           K == KeptCount(c)
           n == c.n
           N == Len(SentItems(c))
<1>1. /\ n \in Nat \ {0} /\ w \in Nat \ {0} /\ m \in Nat /\ m <= n /\ c.items \in Seq(ColumnItems(c))
      /\ c.mbminlen = 1
  BY ColumnHas
<1>2. HaveBytes(c.items) /\ \A k \in 1 .. m : Len(c.items[k].src) <= w BY ColumnsBytes
<1>3. L \in Nat /\ L <= m * w /\ m <= L
  <2>1. L = End(c.items, m) BY <1>1, <1>2, WholeText
  <2>2. m \in 0 .. m BY <1>1
  <2> HIDE DEF L
  <2>3. End(c.items, m) \in Nat /\ End(c.items, m) <= m * w /\ m <= End(c.items, m)
    BY <1>1, <1>2, <2>2, TextLengths
  <2>4. QED BY <2>1, <2>3
<1>4. /\ c.varying => K = m /\ K = N
      /\ ~c.varying => K = n
  <2>1. c.varying => K = N BY TextSent
  <2>2. QED BY <2>1 DEF KeptCount
<1>5. /\ c.varying => D = L
      /\ ~c.varying => D = n * w
  <2>1. ~c.varying => D = n * w BY TextSent
  <2>2. c.varying => D = L BY DEF DataToStore
  <2>3. QED BY <2>1, <2>2
<1>6. /\ MultiByte(c) => RoomInRow(c) = Min({(D * 2) \div 1, ((n * w) * 2) \div w}) /\ BytesPer(c) = 2
      /\ ~MultiByte(c) => RoomInRow(c) = D /\ BytesPer(c) = 1 /\ w = 1
  <2>1. MultiByte(c) => RoomInRow(c) = Min({(D * 2) \div 1, ((n * w) * 2) \div w}) /\ BytesPer(c) = 2
    BY <1>1 DEF RoomInRow, MaxDisplayLength, BytesPer
  <2>2. ~MultiByte(c) => RoomInRow(c) = D /\ BytesPer(c) = 1 BY DEF RoomInRow, BytesPer
  <2>3. ~MultiByte(c) => w = 1 BY <1>1 DEF MultiByte
  <2>4. QED BY <2>1, <2>2, <2>3
<1> HIDE DEF w, m, D, L, K, n, N
<1>7. D \in Nat
  <2>1. n * w \in Nat BY <1>1, Doubled
  <2>2. QED BY <1>3, <1>5, <2>1
<1>8. CASE ~MultiByte(c)
  <2>1. m * w = m /\ n * w = n BY <1>1, <1>6, <1>8, ByOne
  <2>2. L = m BY <1>1, <1>3, <2>1
  <2>3. D = K /\ D <= n /\ D \in Nat BY <1>1, <1>4, <1>5, <2>1, <2>2
  <2>4. BytesPer(c) * D = D BY <1>6, <1>8, <2>3, ByOne
  <2>5. /\ RoomInRow(c) = BytesPer(c) * D /\ K <= D /\ D <= n
        /\ c.varying => K = N
        /\ ~c.varying => D = K
    BY <1>4, <1>6, <1>8, <2>3, <2>4
  <2>6. QED BY <2>3, <2>5, Zenon DEF K, n, N
<1>9. CASE MultiByte(c)
  <2> DEFINE q == IF D <= n THEN D ELSE n
  <2>1. ((n * w) * 2) \div w = 2 * n
    <3>1. (n * w) * 2 = w * (2 * n) /\ 2 * n \in Nat BY <1>1, Doubled
    <3>2. (w * (2 * n)) \div w = 2 * n
      <4> DEFINE b == 2 * n
      <4>1. b \in Nat BY <3>1
      <4> HIDE DEF b
      <4>2. (w * b) \div w = b BY <1>1, <4>1, DividedBy
      <4>3. QED BY <4>2 DEF b
    <3>3. QED BY <3>1, <3>2
  <2>2. D * 2 \in Nat /\ (D * 2) \div 1 = D * 2 BY <1>7, OverOne
  <2>3. RoomInRow(c) = IF D * 2 <= 2 * n THEN D * 2 ELSE 2 * n
    <3> DEFINE a == D * 2
               b == 2 * n
    <3>1. a \in Nat /\ b \in Nat BY <1>1, <2>2
    <3>2. RoomInRow(c) = Min({a, b}) BY <1>6, <1>9, <2>1, <2>2
    <3> HIDE DEF a, b
    <3>3. RoomInRow(c) = IF a <= b THEN a ELSE b BY <3>1, <3>2, MinOfTwo
    <3>4. QED BY <3>3 DEF a, b
  <2>4. RoomInRow(c) = BytesPer(c) * q /\ q \in Nat /\ q <= n BY <1>1, <1>6, <1>7, <1>9, <2>3
  <2>5. K <= q /\ (~c.varying => q = K)
    <3>1. n <= n * w /\ n * w \in Nat BY <1>1, NoLess, Doubled
    <3>2. QED BY <1>1, <1>3, <1>4, <1>5, <3>1
  <2> HIDE DEF q
  <2>6. /\ RoomInRow(c) = BytesPer(c) * q /\ K <= q /\ q <= n
        /\ c.varying => K = N
        /\ ~c.varying => q = K
    BY <1>4, <2>4, <2>5
  <2>7. QED BY <2>4, <2>6, Zenon DEF K, n, N
<1>10. QED BY <1>8, <1>9

LEMMA ComesBackIs ==
  ASSUME NEW c, IsTextColumn(c), NEW i, ComesBack(c, i)
  PROVE  /\ IsItem(c.toDB2, i) /\ i.is = "ok" /\ Len(i.dst) = BytesPer(c) /\ IsSequence(i.dst)
         /\ IsItem(c.toMySQL, Back(c, i)) /\ Back(c, i).is = "ok" /\ Back(c, i).src = i.dst
         /\ Len(Back(c, i).dst) <= c.mbmaxlen /\ IsSequence(Back(c, i).dst)
         /\ i.dst \in Seq(Octets) /\ i.dst # <<>>
         /\ 0 \in i.subs /\ 0 \in Back(c, i).subs => Back(c, i).dst = i.src
<1> DEFINE b == Back(c, i)
           t == c.toDB2
           f == c.toMySQL
<1>1. IsItem(t, i) /\ i.is = "ok" /\ Len(i.dst) = BytesPer(c) BY DEF ComesBack, BytesPer
<1>2. IsItem(f, b) /\ Len(b.dst) <= c.mbmaxlen /\ (0 \in i.subs \cap b.subs => b.dst = i.src)
  BY Zenon DEF ComesBack
<1>3. b.is = "ok" /\ b.src = i.dst
  <2>1. CASE c.toMySQL.schema = "S2S" BY <2>1 DEF Back
  <2>2. CASE c.toMySQL.schema # "S2S" BY <2>2 DEF Back
  <2>3. QED BY <2>1, <2>2
<1>4. /\ t.schema \in Schemas /\ f.schema \in Schemas /\ t.schema # "U2U" /\ t.schema # "T2S"
      /\ f.schema # "U2U" /\ f.schema # "T2S" /\ TablesFit(t) /\ TablesFit(f)
  <2>1. t.schema # "U2U" /\ t.schema # "T2S" /\ f.schema # "U2U" /\ f.schema # "T2S"
    BY ColumnsSchemas
  <2>2. QED BY <2>1, ColumnsSchemas, ColumnHas
<1> HIDE DEF b, t, f
<1>5. IsSequence(i.dst) BY <1>1, <1>4, FormsAreSequences
<1>6. IsSequence(b.dst) BY <1>2, <1>3, <1>4, FormsAreSequences
<1>7. b.src \in Seq(Octets) /\ b.src # <<>> BY <1>2, Zenon DEF IsItem, Octets
<1>8. 0 \in i.subs /\ 0 \in b.subs => b.dst = i.src BY <1>2
<1>9. QED BY <1>1, <1>2, <1>3, <1>5, <1>6, <1>7, <1>8 DEF b, t, f

(* What the row keeps, and the characters it is made of.                   *)
Stored(c) == Target(Of(SentItems(c), KeptCount(c)))
BackItems(c) == [k \in 1 .. KeptCount(c) |-> Back(c, SentItems(c)[k])]
AllComeBack(c) == \A k \in 1 .. KeptCount(c) : ComesBack(c, SentItems(c)[k])
Sendable(c) == {SentItems(c)[k] : k \in DOMAIN SentItems(c)}

LEMMA WidthIs == ASSUME NEW c PROVE BytesPer(c) \in {1, 2} /\ BytesPer(c) \in Nat \ {0}
BY DEF BytesPer

LEMMA SentIs ==
  ASSUME NEW c, IsTextColumn(c)
  PROVE  /\ SentItems(c) \in Seq(ColumnItems(c) \cup {Space(c)}) /\ HaveBytes(SentItems(c))
         /\ Len(SentItems(c)) \in Nat
         /\ DataToStore(c) = Text(SentItems(c))
         /\ KeptCount(c) \in Nat /\ KeptCount(c) <= Len(SentItems(c)) /\ KeptCount(c) <= c.n
         /\ KeptCount(c) \in 0 .. Len(SentItems(c))
<1>1. /\ SentItems(c) \in Seq(ColumnItems(c) \cup {Space(c)}) /\ HaveBytes(SentItems(c))
      /\ Len(SentItems(c)) \in Nat
      /\ DataToStore(c) = Text(SentItems(c))
      /\ KeptCount(c) \in Nat /\ KeptCount(c) <= Len(SentItems(c)) /\ KeptCount(c) <= c.n
  BY TextSent, Zenon
<1> DEFINE K == KeptCount(c)
           N == Len(SentItems(c))
<1>2. K \in Nat /\ N \in Nat /\ K <= N BY <1>1
<1> HIDE DEF K, N
<1>3. K \in 0 .. N BY <1>2
<1>4. QED BY <1>1, <1>3 DEF K, N

LEMMA StoredLength ==
  ASSUME NEW c, IsTextColumn(c), NEW m \in 0 .. KeptCount(c), \A k \in 1 .. m : ComesBack(c, SentItems(c)[k])
  PROVE  /\ IsSequence(Target(Of(SentItems(c), m)))
         /\ Len(Target(Of(SentItems(c), m))) = m * BytesPer(c)
<1> DEFINE its == SentItems(c)
           w == BytesPer(c)
           S == ColumnItems(c) \cup {Space(c)}
<1>1. its \in Seq(S) /\ Len(its) \in Nat /\ KeptCount(c) \in Nat /\ KeptCount(c) <= Len(its)
  BY SentIs
<1>2. w \in Nat BY WidthIs
<1>3. \A k \in 1 .. m : ComesBack(c, its[k]) OBVIOUS
<1>4. \A k \in 1 .. m : IsSequence(its[k].dst) /\ Len(its[k].dst) = w
  BY <1>3, ComesBackIs
<1> HIDE DEF its, w, S
<1>5. m \in 0 .. Len(its) /\ m \in 0 .. m BY <1>1
<1>6. \A k \in 1 .. m : IsSequence(its[k].dst) /\ Len(its[k].dst) <= w BY <1>2, <1>4
<1>7. IsSequence(Target(Of(its, m))) /\ ((\A k \in 1 .. m : Len(its[k].dst) = w) => Len(Target(Of(its, m))) = m * w)
  BY <1>1, <1>2, <1>5, <1>6, TargetLengths
<1>8. QED BY <1>4, <1>7 DEF its, w

LEMMA BackIs ==
  ASSUME NEW c, IsTextColumn(c), AllComeBack(c)
  PROVE  LET its == BackItems(c) IN
         /\ its \in Seq({Back(c, SentItems(c)[k]) : k \in 1 .. KeptCount(c)})
         /\ Len(its) = KeptCount(c) /\ HaveBytes(its) /\ Text(its) = Stored(c)
         /\ \A k \in 1 .. KeptCount(c) :
              /\ its[k] = Back(c, SentItems(c)[k])
              /\ IsItem(c.toMySQL, its[k]) /\ its[k].is = "ok"
              /\ IsSequence(its[k].dst) /\ Len(its[k].dst) <= c.mbmaxlen
<1> DEFINE its == BackItems(c)
           K == KeptCount(c)
           S == {Back(c, SentItems(c)[k]) : k \in 1 .. K}
           a == SentItems(c)
<1>1. K \in Nat /\ a \in Seq(ColumnItems(c) \cup {Space(c)}) /\ K \in 0 .. Len(a) BY SentIs
<1>2. its \in Seq(S) /\ Len(its) = K /\ \A k \in 1 .. K : its[k] = Back(c, a[k])
  <2>1. its = [k \in 1 .. K |-> Back(c, a[k])] BY DEF BackItems
  <2>2. QED BY <1>1, <2>1
<1>3. ASSUME NEW k \in 1 .. K
      PROVE  /\ its[k].src = a[k].dst /\ its[k].src \in Seq(Octets) /\ its[k].src # <<>>
             /\ IsItem(c.toMySQL, its[k]) /\ its[k].is = "ok"
             /\ IsSequence(its[k].dst) /\ Len(its[k].dst) <= c.mbmaxlen
  <2>1. ComesBack(c, a[k]) BY <1>3 DEF AllComeBack
  <2>2. its[k] = Back(c, a[k]) BY <1>2, <1>3
  <2> DEFINE i == a[k]
  <2> HIDE DEF its, a, i
  <2>3. ComesBack(c, i) /\ its[k] = Back(c, i) BY <2>1, <2>2 DEF i
  <2>4. QED BY <2>3, ComesBackIs DEF i
<1> HIDE DEF its, a, K, S
<1>4. HaveBytes(its) BY <1>2, <1>3 DEF HaveBytes
<1>5. Text(its) = Stored(c)
  <2> DEFINE g == Of(a, K)
             p == [k \in 1 .. Len(its) |-> its[k].src]
             q == [k \in 1 .. Len(g) |-> g[k].dst]
  <2>1. Len(g) = K /\ \A k \in 1 .. K : g[k] = a[k] BY <1>1, FirstItems
  <2> HIDE DEF g
  <2>2. \A k \in 1 .. K : its[k].src = g[k].dst BY <1>3, <2>1
  <2>3. p = q BY <1>2, <2>1, <2>2
  <2>4. Text(its) = Joined(p) BY DEF Text
  <2>5. Target(g) = Joined(q) BY DEF Target
  <2>6. Stored(c) = Target(g) BY DEF Stored, g, a, K
  <2> HIDE DEF p, q
  <2>7. QED BY <2>3, <2>4, <2>5, <2>6
<1>6. QED BY <1>2, <1>3, <1>4, <1>5 DEF its, K, S, a

LEMMA AllOfSequence == ASSUME NEW S, NEW s \in Seq(S) PROVE SubSeq(s, 1, Len(s)) = s
OBVIOUS

(* StoreRow's row is what the loop has written: a CHAR is filled by it.    *)
LEMMA RowIs ==
  ASSUME NEW c, IsTextColumn(c), AllComeBack(c)
  PROVE  (IF ~MultiByte(c) \/ c.varying THEN Stored(c)
          ELSE SubSeq(PaddedTo(Stored(c), <<0, 32>>, RoomInRow(c)), 1, 2 * c.n)) = Stored(c)
<1> DEFINE s == Stored(c)
           K == KeptCount(c)
<1>1. K \in Nat /\ K \in 0 .. K
  <2>1. KeptCount(c) \in Nat BY SentIs
  <2>2. QED BY <2>1
<1>2. IsSequence(s) /\ Len(s) = K * BytesPer(c) BY <1>1, StoredLength DEF AllComeBack, Stored
<1>3. CASE MultiByte(c) /\ ~c.varying
  <2>1. PICK q \in Nat : RoomInRow(c) = BytesPer(c) * q /\ q = K BY <1>3, Room
  <2>2. BytesPer(c) = 2 /\ K = c.n BY <1>3 DEF BytesPer, KeptCount
  <2> HIDE DEF s, K
  <2>3. RoomInRow(c) = Len(s) /\ 2 * c.n = Len(s)
    <3>1. K * BytesPer(c) = 2 * K /\ BytesPer(c) * q = 2 * K BY <1>1, <2>1, <2>2
    <3>2. QED BY <1>2, <2>1, <2>2, <3>1
  <2>4. PICK S : s \in Seq(S) BY <1>2 DEF IsSequence
  <2>5. PaddedTo(s, <<0, 32>>, Len(s)) = s BY <2>4, NotPadded
  <2>6. SubSeq(s, 1, Len(s)) = s BY <2>4, AllOfSequence
  <2>7. SubSeq(PaddedTo(s, <<0, 32>>, RoomInRow(c)), 1, 2 * c.n) = s BY <2>3, <2>5, <2>6
  <2>8. QED BY <2>7 DEF s
<1>4. CASE ~MultiByte(c) \/ c.varying BY <1>4
<1>5. QED BY <1>3, <1>4

(* The buffer made for a fetched column has room for as many of the        *)
(* longest characters.                                                     *)
LEMMA FieldRoom ==
  ASSUME NEW c, IsTextColumn(c), AllComeBack(c)
  PROVE  RoomInField(c, Stored(c)) = KeptCount(c) * c.mbmaxlen
<1> DEFINE s == Stored(c)
           K == KeptCount(c)
           w == c.mbmaxlen
<1>1. K \in Nat /\ K \in 0 .. K
  <2>1. KeptCount(c) \in Nat BY SentIs
  <2>2. QED BY <2>1
<1>2. Len(s) = K * BytesPer(c) BY <1>1, StoredLength DEF AllComeBack, Stored
<1>3. w \in Nat \ {0} BY ColumnHas
<1>4. ~MultiByte(c) => w = 1 BY <1>3 DEF MultiByte
<1> HIDE DEF s, K, w
<1>5. CASE MultiByte(c)
  <2>1. Len(s) = 2 * K
    <3>1. BytesPer(c) = 2 BY <1>5 DEF BytesPer
    <3>2. QED BY <1>1, <1>2, <3>1
  <2>2. (2 * K) \div 2 = K BY <1>1, DividedBy
  <2>3. RoomInField(c, s) = (Len(s) \div 2) * w BY <1>5 DEF RoomInField, w
  <2>4. QED BY <2>1, <2>2, <2>3 DEF s, K, w
<1>6. CASE ~MultiByte(c)
  <2>1. BytesPer(c) = 1 BY <1>6 DEF BytesPer
  <2>2. K * 1 = K BY <1>1, ByOne
  <2>3. RoomInField(c, s) = Len(s) BY <1>6 DEF RoomInField
  <2>4. QED BY <1>2, <1>4, <1>6, <2>1, <2>2, <2>3 DEF s, K, w
<1>7. QED BY <1>5, <1>6

-----------------------------------------------------------------------------
(* A column written and read, step by step.                                *)

(* The loop is behind the first n characters.                              *)
ReadItems(its, n) ==
  /\ pIn = End(its, n) /\ inLen = Len(call.text) - End(its, n) /\ out = Target(Of(its, n))
  /\ numS \in Surely(Of(its, n)) .. Possibly(Of(its, n))

(* What the loop has returned when it stops behind n of m characters.      *)
Returned(n, m) ==
  \/ result = NotYet
  \/ result.rc = 0 /\ n = m /\ result.numSub = numS

StoringAt(c, n) ==
  /\ call = StoreCall(c) /\ n \in 0 .. KeptCount(c) /\ ReadItems(SentItems(c), n)
  /\ \A k \in 1 .. n : ComesBack(c, SentItems(c)[k])
  /\ Returned(n, KeptCount(c)) \/ result.rc = -1

LEMMA MoreItems == \A n, m \in Nat : n < m => n \in 0 .. m - 1 /\ n + 1 \in 1 .. m /\ n + 1 \in 0 .. m
OBVIOUS
LEMMA UpToNext == \A n \in Nat : \A k \in 1 .. n + 1 : k \in 1 .. n \/ k = n + 1
OBVIOUS
LEMMA Scaled == \A n, q \in Nat, w \in Nat \ {0} : n * w < w * q => n < q
<1> SUFFICES ASSUME NEW n \in Nat, NEW q \in Nat, NEW w \in Nat \ {0}, n >= q PROVE n * w >= w * q
  <2>1. \A n, q \in Nat, w \in Nat \ {0} : n * w \in Nat /\ w * q \in Nat OBVIOUS
  <2>2. QED BY <2>1
<1>1. PICK e \in Nat : n = q + e
  <2>1. n - q \in Nat /\ n = q + (n - q) OBVIOUS
  <2>2. QED BY <2>1
<1>2. n * w = w * q + e * w BY <1>1
<1>3. e * w \in Nat /\ w * q \in Nat OBVIOUS
<1>4. QED BY <1>2, <1>3
LEMMA ScaledMore == \A n, q \in Nat, w \in Nat \ {0} : n < q => n * w < w * q
<1> SUFFICES ASSUME NEW n \in Nat, NEW q \in Nat, NEW w \in Nat \ {0}, n < q PROVE n * w < w * q
  OBVIOUS
<1>1. PICK e \in Nat : q = n + 1 + e
  <2>1. q - n - 1 \in Nat /\ q = n + 1 + (q - n - 1) OBVIOUS
  <2>2. QED BY <2>1
<1>2. w * q = n * w + w + e * w BY <1>1
<1>3. e * w \in Nat /\ n * w \in Nat OBVIOUS
<1>4. QED BY <1>2, <1>3
LEMMA ScaledEven == \A n, q, w \in Nat : n <= q => n * w <= w * q
<1> SUFFICES ASSUME NEW n \in Nat, NEW q \in Nat, NEW w \in Nat, n <= q PROVE n * w <= w * q
  OBVIOUS
<1>1. PICK e \in Nat : q = n + e
  <2>1. q - n \in Nat /\ q = n + (q - n) OBVIOUS
  <2>2. QED BY <2>1
<1>2. w * q = n * w + e * w BY <1>1
<1>3. e * w \in Nat /\ n * w \in Nat OBVIOUS
<1>4. QED BY <1>2, <1>3

(* Text is left as long as there are characters.                           *)
LEMMA LeftIs ==
  ASSUME NEW S, NEW its \in Seq(S), HaveBytes(its), call.text = Text(its), NEW n \in 0 .. Len(its), ReadItems(its, n)
  PROVE  /\ inLen > 0 <=> n < Len(its)
         /\ inLen \in Nat
<1>1. Len(its) \in Nat OBVIOUS
<1>2. CASE n < Len(its)
  <2>1. n \in 0 .. Len(its) - 1 BY <1>1, <1>2
  <2>2. pIn = End(its, n) /\ inLen = Len(call.text) - End(its, n) BY DEF ReadItems
  <2>3. inLen \in Nat /\ inLen > 0 BY <2>1, <2>2, RestHas
  <2>4. QED BY <1>2, <2>3
<1>3. CASE n = Len(its)
  <2>1. Of(its, Len(its)) = its BY FirstItems
  <2>2. End(its, n) = Len(call.text) BY <1>3, <2>1 DEF End
  <2>3. End(its, n) \in Nat BY TextsAreBytes
  <2> DEFINE e == End(its, n)
  <2>4. e \in Nat /\ inLen = e - e BY <2>2, <2>3 DEF ReadItems
  <2> HIDE DEF e
  <2>5. inLen = 0 BY <2>4
  <2>6. ~(n < Len(its)) BY <1>1, <1>3
  <2>7. ~(inLen > 0) BY <2>5
  <2>8. QED BY <2>5, <2>6, <2>7
<1>4. QED BY <1>1, <1>2, <1>3

LEMMA StoringHas ==
  ASSUME NEW c, IsTextColumn(c), NEW n, StoringAt(c, n)
  PROVE  /\ call.schema = c.toDB2.schema /\ call.cd = c.toDB2.cd /\ call.room = RoomInRow(c)
         /\ call.text = Text(SentItems(c)) /\ ~FromUnits
         /\ Len(out) = n * BytesPer(c) /\ n \in Nat
<1>1. call = StoreCall(c) /\ n \in 0 .. KeptCount(c) /\ ReadItems(SentItems(c), n)
      /\ \A k \in 1 .. n : ComesBack(c, SentItems(c)[k])
  BY DEF StoringAt
<1>2. call.schema = c.toDB2.schema /\ call.cd = c.toDB2.cd /\ call.room = RoomInRow(c)
      /\ call.text = DataToStore(c)
  BY <1>1 DEF StoreCall
<1>3. call.text = Text(SentItems(c)) BY <1>2, SentIs
<1>4. Len(out) = n * BytesPer(c) BY <1>1, StoredLength DEF ReadItems
<1>5. ~FromUnits
  <2>1. c.toDB2.schema \in {"S2S", "D2U", "E2U", "82U"} BY ColumnsSchemas
  <2>2. QED BY <1>2, <2>1 DEF FromUnits
<1>6. n \in Nat
  <2>1. KeptCount(c) \in Nat BY SentIs
  <2>2. QED BY <1>1, <2>1
<1>7. QED BY <1>2, <1>3, <1>4, <1>5, <1>6

(* A turn while a column is stored.                                        *)
LEMMA StoreTurn ==
  ASSUME NEW c, IsTextColumn(c), NEW n, StoringAt(c, n), Iterate
  PROVE  StoringAt(c, n)' \/ StoringAt(c, n + 1)'
<1> DEFINE its == SentItems(c)
           S == ColumnItems(c) \cup {Space(c)}
           K == KeptCount(c)
           d == c.toDB2
           i == its[n + 1]
<1>1. /\ its \in Seq(S) /\ HaveBytes(its) /\ Len(its) \in Nat /\ K \in Nat /\ K <= Len(its)
  BY SentIs
<1>2. /\ call.schema = d.schema /\ call.cd = d.cd /\ call.room = RoomInRow(c)
      /\ call.text = Text(its) /\ ~FromUnits /\ Len(out) = n * BytesPer(c) /\ n \in Nat
  BY StoringHas
<1>3. call = StoreCall(c) /\ n \in 0 .. K /\ ReadItems(its, n) /\ \A k \in 1 .. n : ComesBack(c, its[k])
  BY DEF StoringAt
<1>4. Looping /\ result = NotYet BY DEF Iterate
<1>5. inLen > 0 /\ HasRoom BY <1>2, <1>4 DEF Looping
<1>6. n < K
  <2>1. PICK q \in Nat : /\ RoomInRow(c) = BytesPer(c) * q
                         /\ (c.varying => K = Len(its))
                         /\ (~c.varying => q = K)
    BY Room
  <2>2. n * BytesPer(c) < BytesPer(c) * q BY <1>2, <1>5, <2>1 DEF HasRoom
  <2>3. n < q BY <1>2, <2>2, WidthIs, Scaled
  <2>4. n < Len(its)
    <3>1. n \in 0 .. Len(its) BY <1>1, <1>3
    <3> HIDE DEF its, S
    <3>2. QED BY <1>1, <1>2, <1>3, <1>5, <3>1, LeftIs
  <2>5. QED BY <2>1, <2>3, <2>4
<1>7. n \in 0 .. Len(its) - 1 /\ n + 1 \in 1 .. Len(its) /\ n + 1 \in 0 .. K /\ n + 1 \in 1 .. K
  BY <1>1, <1>2, <1>6
<1>8. /\ d.schema \in Schemas /\ d.schema # "U2U" /\ d.schema # "T2S" /\ TablesFit(d)
  BY ColumnsSchemas, ColumnHas
<1>9. ComesBack(c, i) \/ Undefined(c, i)
  <2>1. \A k \in 1 .. Len(its) : ComesBack(c, its[k]) \/ Undefined(c, its[k]) BY TextSent
  <2>2. QED BY <1>7, <2>1
<1>10. CASE ComesBack(c, i)
  <2>1. IsItem(d, i) /\ i.is = "ok" BY <1>10 DEF ComesBack
  <2> HIDE DEF its, S, K, d
  <2>2. IsItem(d, its[n + 1]) /\ its[n + 1].is = "ok" /\ (d.schema = "T2S" => Len(its[n + 1].src) # 4) BY <1>8, <2>1
  <2>3. /\ pIn = End(its, n) /\ inLen = Len(call.text) - End(its, n) /\ out = Target(Of(its, n))
        /\ numS \in Surely(Of(its, n)) .. Possibly(Of(its, n))
    BY <1>3 DEF ReadItems
  <2>4. /\ pIn' = End(its, n + 1) /\ inLen' = Len(call.text) - End(its, n + 1)
        /\ out' = Target(Of(its, n + 1)) /\ numS' \in Surely(Of(its, n + 1)) .. Possibly(Of(its, n + 1))
        /\ result' = NotYet /\ call' = call
    BY <1>1, <1>2, <1>7, <1>8, <2>2, <2>3, TakesItem
  <2>5. ReadItems(its, n + 1)' BY <2>4 DEF ReadItems
  <2>6. \A k \in 1 .. n + 1 : ComesBack(c, its[k]) BY <1>2, <1>3, <1>10, UpToNext
  <2>7. QED BY <1>3, <1>7, <2>4, <2>5, <2>6 DEF StoringAt, Returned, its, K
<1>11. CASE Undefined(c, i)
  <2>1. PICK x : LET o == Turn(call, Rest(x), x) IN
           /\ result = NotYet /\ call' = call /\ Looping
           /\ \/ /\ o.kind = "go" /\ pIn' = pIn + o.move /\ inLen' = inLen - o.less /\ result' = result
              \/ /\ o.kind = "error" /\ result' = Result(-1, o.errno, o.move, o.less, 0)
                 /\ pIn' = pIn /\ inLen' = inLen /\ out' = out /\ numS' = numS
              \/ /\ o.kind = "end" /\ result' = Result(0, "none", o.move, o.less, numS + o.subs)
                 /\ pIn' = pIn /\ inLen' = inLen /\ out' = out /\ numS' = numS
    BY TurnOutcomes
  <2> DEFINE o == Turn(call, Rest(x), x)
  <2>2. Begins(Rest(x), i.src) /\ Rest(x) \in Seq(Octets)
    <3>1. pIn = End(its, n) /\ inLen = Len(call.text) - End(its, n) BY <1>3 DEF ReadItems
    <3> HIDE DEF its, S
    <3>2. /\ Begins(Rest(x), its[n + 1].src) /\ inLen \in Nat
          /\ \A k \in 1 .. inLen : Rest(x)[k] = call.text[pIn + k]
          /\ call.text \in Seq(Octets) /\ pIn + inLen = Len(call.text) /\ pIn \in Nat
      BY <1>1, <1>2, <1>7, <3>1, RestHas
    <3>3. \A k \in 1 .. inLen : Rest(x)[k] \in Octets
      <4>1. SUFFICES ASSUME NEW k \in 1 .. inLen PROVE Rest(x)[k] \in Octets OBVIOUS
      <4>2. pIn + k \in 1 .. Len(call.text) BY <3>2
      <4>3. QED BY <3>2, <4>2
    <3>4. Rest(x) = [k \in 1 .. inLen |-> Rest(x)[k]] BY DEF Rest
    <3> DEFINE r == Rest(x)
    <3> HIDE DEF r
    <3>5. r = [k \in 1 .. inLen |-> r[k]] /\ \A k \in 1 .. inLen : r[k] \in Octets
      BY <3>3, <3>4 DEF r
    <3>6. r \in [1 .. inLen -> Octets] BY <3>5
    <3>7. r \in Seq(Octets) BY <3>2, <3>6
    <3>8. QED BY <3>2, <3>7 DEF r
  <2>3. o.kind = "error"
    <3> DEFINE r == Rest(x)
    <3>1. r \in Seq(Octets) /\ Begins(r, i.src) /\ Undefined(c, i) /\ call.schema = c.toDB2.schema /\ call.cd = c.toDB2.cd
      BY <1>2, <1>11, <2>2
    <3> HIDE DEF r, i
    <3>2. Turn(call, r, x).kind = "error" BY <3>1, UndefinedStops
    <3>3. QED BY <3>2 DEF r
  <2>4. /\ result' = Result(-1, o.errno, o.move, o.less, 0)
        /\ pIn' = pIn /\ inLen' = inLen /\ out' = out /\ numS' = numS /\ call' = call
    BY <2>1, <2>3, Zenon
  <2>5. result'.rc = -1 BY <2>4 DEF Result
  <2> HIDE DEF its, K
  <2>6. ReadItems(its, n)' BY <1>3, <2>4 DEF ReadItems
  <2>7. QED BY <1>3, <2>4, <2>5, <2>6 DEF StoringAt, its, K
<1>12. QED BY <1>9, <1>10, <1>11

(* The end of the loop while a column is stored: all that the row keeps is *)
(* converted.                                                              *)
LEMMA StoreLeave ==
  ASSUME NEW c, IsTextColumn(c), NEW n, StoringAt(c, n), Leave
  PROVE  StoringAt(c, n)'
<1> DEFINE its == SentItems(c)
           S == ColumnItems(c) \cup {Space(c)}
           K == KeptCount(c)
<1>1. /\ its \in Seq(S) /\ HaveBytes(its) /\ Len(its) \in Nat /\ K \in Nat /\ K <= Len(its)
  BY SentIs
<1>2. /\ call.room = RoomInRow(c) /\ call.text = Text(its) /\ Len(out) = n * BytesPer(c) /\ n \in Nat
  BY StoringHas
<1>3. call = StoreCall(c) /\ n \in 0 .. K /\ ReadItems(its, n) /\ \A k \in 1 .. n : ComesBack(c, its[k])
  BY DEF StoringAt
<1>4. /\ ~Looping /\ result' = Result(0, "none", 0, 0, numS)
      /\ call' = call /\ pIn' = pIn /\ inLen' = inLen /\ out' = out /\ numS' = numS
  BY DEF Leave
<1>5. n = K
  <2>1. SUFFICES ASSUME n < K PROVE FALSE BY <1>1, <1>3
  <2>2. inLen > 0
    <3>1. n \in 0 .. Len(its) /\ n < Len(its) BY <1>1, <1>3, <2>1
    <3> HIDE DEF its, S
    <3>2. QED BY <1>1, <1>2, <1>3, <3>1, LeftIs
  <2>3. PICK q \in Nat : RoomInRow(c) = BytesPer(c) * q /\ K <= q BY Room
  <2>4. n < q BY <1>1, <1>2, <2>1, <2>3
  <2>5. n * BytesPer(c) < BytesPer(c) * q BY <1>2, <2>4, WidthIs, ScaledMore
  <2>6. HasRoom BY <1>2, <2>3, <2>5 DEF HasRoom
  <2>7. QED BY <1>4, <2>2, <2>6 DEF Looping
<1>6. result'.rc = 0 /\ result'.numSub = numS BY <1>4 DEF Result
<1> HIDE DEF its, K
<1>7. ReadItems(its, n)' BY <1>3, <1>4 DEF ReadItems
<1>8. QED BY <1>3, <1>4, <1>5, <1>6, <1>7 DEF StoringAt, Returned, its, K

FetchingAt(c, n) ==
  /\ call = FetchCall(c, Stored(c)) /\ n \in 0 .. KeptCount(c) /\ ReadItems(BackItems(c), n)
  /\ Returned(n, KeptCount(c))

BackSet(c) == {Back(c, SentItems(c)[k]) : k \in 1 .. KeptCount(c)}

LEMMA FetchingHas ==
  ASSUME NEW c, IsTextColumn(c), AllComeBack(c), NEW n, FetchingAt(c, n)
  PROVE  /\ BackItems(c) \in Seq(BackSet(c)) /\ HaveBytes(BackItems(c)) /\ Len(BackItems(c)) = KeptCount(c)
         /\ KeptCount(c) \in Nat /\ n \in 0 .. KeptCount(c) /\ n \in Nat
         /\ call.schema = c.toMySQL.schema /\ call.cd = c.toMySQL.cd
         /\ call.room = KeptCount(c) * c.mbmaxlen
         /\ call.text = Text(BackItems(c))
         /\ Len(out) \in Nat /\ Len(out) <= n * c.mbmaxlen
<1> DEFINE its == BackItems(c)
           K == KeptCount(c)
           S == BackSet(c)
           w == c.mbmaxlen
<1>1. /\ its \in Seq(S) /\ Len(its) = K /\ HaveBytes(its) /\ Text(its) = Stored(c)
      /\ \A k \in 1 .. K : IsSequence(its[k].dst) /\ Len(its[k].dst) <= w
  BY BackIs DEF BackSet
<1>2. K \in Nat BY SentIs
<1>3. call = FetchCall(c, Stored(c)) /\ n \in 0 .. K /\ ReadItems(its, n) BY DEF FetchingAt
<1>4. /\ call.schema = c.toMySQL.schema /\ call.cd = c.toMySQL.cd
      /\ call.room = RoomInField(c, Stored(c)) /\ call.text = Stored(c)
  BY <1>3 DEF FetchCall
<1>5. RoomInField(c, Stored(c)) = K * w BY FieldRoom
<1>6. w \in Nat BY ColumnHas
<1>7. out = Target(Of(its, n)) BY <1>3 DEF ReadItems
<1> HIDE DEF its, K, S, w
<1>8. K \in 0 .. Len(its) /\ n \in Nat BY <1>1, <1>2, <1>3
<1>9. Len(Target(Of(its, n))) \in Nat /\ Len(Target(Of(its, n))) <= n * w
  BY <1>1, <1>3, <1>6, <1>8, TargetLengths
<1>10. QED BY <1>1, <1>2, <1>3, <1>4, <1>5, <1>7, <1>8, <1>9 DEF its, K, S, w

(* A turn while a column is fetched.                                       *)
LEMMA FetchTurn ==
  ASSUME NEW c, IsTextColumn(c), AllComeBack(c), NEW n, FetchingAt(c, n), Iterate
  PROVE  FetchingAt(c, n + 1)'
<1> DEFINE its == BackItems(c)
           K == KeptCount(c)
           S == BackSet(c)
           d == c.toMySQL
<1>1. /\ its \in Seq(S) /\ HaveBytes(its) /\ Len(its) = K /\ K \in Nat /\ n \in 0 .. K /\ n \in Nat
      /\ call.schema = d.schema /\ call.cd = d.cd /\ call.text = Text(its)
  BY FetchingHas
<1>2. call = FetchCall(c, Stored(c)) /\ ReadItems(its, n) BY DEF FetchingAt
<1>3. inLen > 0 BY DEF Iterate, Looping
<1>4. /\ d.schema \in Schemas /\ d.schema # "U2U" /\ d.schema # "T2S" /\ TablesFit(d)
  BY ColumnsSchemas, ColumnHas
<1>5. \A k \in 1 .. K : IsItem(d, its[k]) /\ its[k].is = "ok" BY BackIs
<1> HIDE DEF its, K, S, d
<1>6. n < K BY <1>1, <1>2, <1>3, LeftIs
<1>7. n \in 0 .. Len(its) - 1 /\ n + 1 \in 1 .. K /\ n + 1 \in 0 .. K BY <1>1, <1>6
<1>8. IsItem(d, its[n + 1]) /\ its[n + 1].is = "ok" /\ (d.schema = "T2S" => Len(its[n + 1].src) # 4)
  BY <1>4, <1>5, <1>7
<1>9. /\ pIn = End(its, n) /\ inLen = Len(call.text) - End(its, n) /\ out = Target(Of(its, n))
      /\ numS \in Surely(Of(its, n)) .. Possibly(Of(its, n))
  BY <1>2 DEF ReadItems
<1>10. /\ pIn' = End(its, n + 1) /\ inLen' = Len(call.text) - End(its, n + 1)
       /\ out' = Target(Of(its, n + 1)) /\ numS' \in Surely(Of(its, n + 1)) .. Possibly(Of(its, n + 1))
       /\ result' = NotYet /\ call' = call
  BY <1>1, <1>4, <1>7, <1>8, <1>9, TakesItem
<1>11. ReadItems(its, n + 1)' BY <1>10 DEF ReadItems
<1>12. QED BY <1>2, <1>7, <1>10, <1>11 DEF FetchingAt, Returned, its, K

(* The end of the loop while a column is fetched: the whole row is read.   *)
LEMMA FetchLeave ==
  ASSUME NEW c, IsTextColumn(c), AllComeBack(c), NEW n, FetchingAt(c, n), Leave
  PROVE  FetchingAt(c, n)'
<1> DEFINE its == BackItems(c)
           K == KeptCount(c)
           S == BackSet(c)
           w == c.mbmaxlen
<1>1. /\ its \in Seq(S) /\ HaveBytes(its) /\ Len(its) = K /\ K \in Nat /\ n \in 0 .. K /\ n \in Nat
      /\ call.text = Text(its) /\ call.room = K * w /\ Len(out) \in Nat /\ Len(out) <= n * w
  BY FetchingHas
<1>2. call = FetchCall(c, Stored(c)) /\ ReadItems(its, n) BY DEF FetchingAt
<1>3. /\ ~Looping /\ result' = Result(0, "none", 0, 0, numS)
      /\ call' = call /\ pIn' = pIn /\ inLen' = inLen /\ out' = out /\ numS' = numS
  BY DEF Leave
<1>4. w \in Nat \ {0} BY ColumnHas
<1> HIDE DEF its, S, K, w
<1>5. n = K
  <2>1. SUFFICES ASSUME n < K PROVE FALSE BY <1>1
  <2>2. inLen > 0 BY <1>1, <1>2, <2>1, LeftIs
  <2>3. n * w < w * K BY <1>1, <1>4, <2>1, ScaledMore
  <2>4. n * w \in Nat /\ K * w \in Nat /\ w * K = K * w BY <1>1, <1>4
  <2>5. HasRoom BY <1>1, <2>3, <2>4 DEF HasRoom
  <2>6. QED BY <1>3, <2>2, <2>5 DEF Looping
<1>6. result'.rc = 0 /\ result'.numSub = numS BY <1>3 DEF Result
<1>7. ReadItems(its, n)' BY <1>2, <1>3 DEF ReadItems
<1>8. QED BY <1>1, <1>2, <1>3, <1>5, <1>6, <1>7 DEF FetchingAt, Returned, its, K

(* Without a substitution for sure, the bytes that come back are those     *)
(* that were sent.                                                         *)
LEMMA ComesRound ==
  ASSUME NEW c, IsTextColumn(c), AllComeBack(c), Surely(Of(SentItems(c), KeptCount(c))) = 0,
         Surely(Of(BackItems(c), KeptCount(c))) = 0
  PROVE  Target(Of(BackItems(c), KeptCount(c))) = Text(Of(SentItems(c), KeptCount(c)))
<1> DEFINE a == SentItems(c)
           b == BackItems(c)
           K == KeptCount(c)
           S == ColumnItems(c) \cup {Space(c)}
           T == {Back(c, SentItems(c)[k]) : k \in 1 .. KeptCount(c)}
<1>1. a \in Seq(S) /\ K \in Nat /\ K \in 0 .. Len(a) BY SentIs
<1>2. b \in Seq(T) /\ Len(b) = K /\ \A k \in 1 .. K : b[k] = Back(c, a[k]) BY BackIs
<1>3. \A k \in 1 .. K : ComesBack(c, a[k]) BY DEF AllComeBack
<1>4. Surely(Of(a, K)) = 0 /\ Surely(Of(b, K)) = 0 OBVIOUS
<1> HIDE DEF a, b, K, S, T
<1>5. K \in 0 .. Len(b) BY <1>1, <1>2
<1>6. \A k \in 1 .. K : 0 \in a[k].subs /\ 0 \in b[k].subs
  <2>1. \A k \in 1 .. K : 0 \in a[k].subs BY <1>1, <1>4, NoneForSure
  <2>2. \A k \in 1 .. K : 0 \in b[k].subs BY <1>2, <1>4, <1>5, NoneForSure
  <2>3. QED BY <2>1, <2>2
<1>7. ASSUME NEW k \in 1 .. K PROVE b[k].dst = a[k].src
  <2>1. ComesBack(c, a[k]) /\ b[k] = Back(c, a[k]) /\ 0 \in a[k].subs /\ 0 \in b[k].subs
    BY <1>2, <1>3, <1>6
  <2> DEFINE i == a[k]
  <2>2. ComesBack(c, i) /\ b[k] = Back(c, i) /\ 0 \in i.subs /\ 0 \in b[k].subs BY <2>1
  <2> HIDE DEF i
  <2>3. 0 \in i.subs /\ 0 \in Back(c, i).subs => Back(c, i).dst = i.src BY <2>2, ComesBackIs
  <2>4. b[k].dst = i.src BY <2>2, <2>3
  <2>5. QED BY <2>4 DEF i
<1> DEFINE f == Of(a, K)
           g == Of(b, K)
           p == [k \in 1 .. Len(g) |-> g[k].dst]
           q == [k \in 1 .. Len(f) |-> f[k].src]
<1>8. Len(f) = K /\ (\A k \in 1 .. K : f[k] = a[k]) BY <1>1, FirstItems
<1>9. Len(g) = K /\ (\A k \in 1 .. K : g[k] = b[k]) BY <1>2, <1>5, FirstItems
<1>10. Target(g) = Joined(p) /\ Text(f) = Joined(q) BY DEF Target, Text
<1> HIDE DEF f, g
<1>11. p = q BY <1>7, <1>8, <1>9
<1> HIDE DEF p, q
<1>12. Target(g) = Text(f) BY <1>10, <1>11
<1>13. QED BY <1>12 DEF f, g, a, b, K

(* What of a value must come back: not the spaces at the end of a CHAR.    *)
Normal(c, s) == IF c.varying THEN s ELSE Trimmed(s, c.pad)

LEMMA SentNormal ==
  ASSUME NEW c, IsTextColumn(c)
  PROVE  Normal(c, Text(Of(SentItems(c), KeptCount(c)))) = Normal(c, Text(c.items))
<1> DEFINE t == Text(c.items)
           n == c.n
           m == Len(c.items)
<1>1. c.pad = << 32 >> /\ c.items \in Seq(ColumnItems(c)) /\ n \in Nat /\ m \in Nat /\ m <= n
  BY ColumnHas
<1>2. HaveBytes(c.items) BY ColumnsBytes
<1>3. t \in Seq(Octets) /\ Len(t) \in Nat BY <1>1, <1>2, WholeText
<1>4. CASE c.varying
  <2>1. SentItems(c) = c.items /\ KeptCount(c) = m BY <1>4, TextSent DEF KeptCount
  <2>2. m \in 0 .. m BY <1>1
  <2>3. Of(c.items, m) = c.items BY <1>1, <2>2, FirstItems
  <2>4. Text(Of(SentItems(c), KeptCount(c))) = t BY <2>1, <2>3
  <2>5. QED BY <2>4
<1>5. CASE ~c.varying
  <2>1. Text(Of(SentItems(c), KeptCount(c))) = PaddedTo(t, << 32 >>, Len(t) + (n - m))
    BY <1>5, TextSent
  <2>2. IsPad(<< 32 >>) /\ Len(<< 32 >>) = 1 BY DEF IsPad
  <2> DEFINE l == Len(t) + (n - m)
  <2>3. l \in Nat /\ l >= Len(t) /\ (l - Len(t)) % 1 = 0 BY <1>1, <1>3
  <2> HIDE DEF l, t, n, m
  <2>4. (l - Len(t)) % Len(<< 32 >>) = 0 BY <2>2, <2>3
  <2>5. Trimmed(PaddedTo(t, << 32 >>, l), << 32 >>) = Trimmed(t, << 32 >>)
    BY <1>3, <2>2, <2>3, <2>4, PadsAreCut
  <2>6. QED BY <1>1, <1>5, <2>1, <2>5 DEF Normal, l, t
<1>6. QED BY <1>4, <1>5

(* A column in UCS-2 or UTF-16: bytes are copied.                          *)
IsUnitColumn(c) == IsColumn(c) /\ c.toDB2.schema = "U2U"
UnitRow(c) == IF c.varying THEN Text(c.items) ELSE PaddedTo(Text(c.items), <<0, 32>>, 2 * c.n)

LEMMA UnitHas ==
  ASSUME NEW c, IsUnitColumn(c)
  PROVE  /\ c.n \in Nat \ {0} /\ Len(c.items) \in Nat /\ Len(c.items) <= c.n
         /\ c.items \in Seq(ColumnItems(c)) /\ HaveBytes(c.items)
         /\ \A k \in 1 .. Len(c.items) : Len(c.items[k].src) = 2
         /\ c.toDB2.schema = "U2U" /\ c.toMySQL.schema = "U2U" /\ c.mbminlen = 2 /\ c.mbmaxlen = 4
         /\ c.pad = <<0, 32>> /\ MultiByte(c)
<1>1. /\ c.n \in Nat \ {0} /\ Len(c.items) <= c.n /\ c.items \in Seq(ColumnItems(c)) /\ c.toDB2.schema = "U2U"
  BY DEF IsUnitColumn, IsColumn, ColumnItems
<1>2. <<c.toDB2.schema, c.toMySQL.schema>> \notin ColumnSchemas BY <1>1 DEF ColumnSchemas
<1>3. /\ c.toDB2.schema = "U2U" /\ c.toMySQL.schema = "U2U"
      /\ c.mbminlen = 2 /\ c.mbmaxlen = 4 /\ c.pad = <<0, 32>>
      /\ \A k \in 1 .. Len(c.items) : c.items[k].src \in Seq(0 .. 255) /\ Len(c.items[k].src) = 2
  BY <1>2, Zenon DEF IsUnitColumn, IsColumn
<1>4. MultiByte(c) BY <1>3 DEF MultiByte
<1>5. HaveBytes(c.items)
  <2>1. SUFFICES ASSUME NEW k \in 1 .. Len(c.items)
                 PROVE  c.items[k].src \in Seq(Octets) /\ c.items[k].src # <<>>
    BY DEF HaveBytes
  <2>2. c.items[k].src \in Seq(0 .. 255) /\ Len(c.items[k].src) = 2 BY <1>3
  <2> DEFINE s == c.items[k].src
  <2>3. s \in Seq(Octets) /\ Len(s) = 2 BY <2>2 DEF Octets
  <2> HIDE DEF s
  <2>4. s # <<>> BY <2>3
  <2>5. QED BY <2>3, <2>4 DEF s
<1>6. Len(c.items) \in Nat BY <1>1
<1>7. QED BY <1>1, <1>3, <1>4, <1>5, <1>6

LEMMA UnitText ==
  ASSUME NEW c, IsUnitColumn(c)
  PROVE  Text(c.items) \in Seq(Octets) /\ Len(Text(c.items)) = 2 * Len(c.items)
<1> DEFINE i == c.items
           m == Len(i)
<1>1. i \in Seq(ColumnItems(c)) /\ HaveBytes(i) /\ m \in Nat /\ \A k \in 1 .. m : Len(i[k].src) = 2
  BY UnitHas
<1>2. Text(i) \in Seq(Octets) /\ Len(Text(i)) = End(i, m) BY <1>1, WholeText
<1> HIDE DEF i
<1>3. m \in 0 .. m /\ 2 \in Nat /\ \A k \in 1 .. Len(i) : Len(i[k].src) <= 2
  <2>1. m \in 0 .. m /\ 2 \in Nat BY <1>1
  <2>2. ASSUME NEW k \in 1 .. Len(i) PROVE Len(i[k].src) <= 2
    <3>1. Len(i[k].src) = 2 BY <1>1, <2>2
    <3>2. 2 <= 2 OBVIOUS
    <3>3. QED BY <3>1, <3>2
  <2>3. QED BY <2>1, <2>2
<1>4. (\A k \in 1 .. Len(i) : Len(i[k].src) = 2) => End(i, m) = m * 2 BY <1>1, <1>3, TextLengths
<1>5. End(i, m) = m * 2 BY <1>1, <1>4
<1>6. m * 2 = 2 * m BY <1>1
<1>7. QED BY <1>2, <1>5, <1>6 DEF i

LEMMA UnitArithmetic ==
  \A m \in Nat : /\ ((2 * m) * 2) \div 2 = 2 * m /\ ((m * 4) * 2) \div 4 = 2 * m /\ ((m * 4) * 2) \div 2 = m * 4
                 /\ (2 * m) \div 2 = m
OBVIOUS

LEMMA UnitPads ==
  ASSUME NEW c, IsUnitColumn(c), NEW j \in Nat, 2 * j >= Len(Text(c.items))
  PROVE  /\ PaddedTo(Text(c.items), <<0, 32>>, 2 * j) \in Seq(Octets)
         /\ Len(PaddedTo(Text(c.items), <<0, 32>>, 2 * j)) = 2 * j
         /\ Trimmed(PaddedTo(Text(c.items), <<0, 32>>, 2 * j), <<0, 32>>) = Trimmed(Text(c.items), <<0, 32>>)
<1> DEFINE t == Text(c.items)
           m == Len(c.items)
           l == 2 * j
<1>1. t \in Seq(Octets) /\ Len(t) = 2 * m /\ m \in Nat BY UnitText, UnitHas
<1>2. l \in Nat /\ l >= Len(t) OBVIOUS
<1>3. (2 * j - 2 * m) % 2 = 0
  <2>1. 2 * j - 2 * m = 2 * (j - m) BY <1>1
  <2>2. \A k \in Int : (2 * k) % 2 = 0 OBVIOUS
  <2>3. j - m \in Int BY <1>1
  <2>4. QED BY <2>1, <2>2, <2>3
<1>4. IsPad(<<0, 32>>) /\ Len(<<0, 32>>) = 2 BY DEF IsPad
<1> HIDE DEF t, m
<1>5. (l - Len(t)) % Len(<<0, 32>>) = 0 BY <1>1, <1>3, <1>4
<1> HIDE DEF l
<1>6. /\ PaddedTo(t, <<0, 32>>, l) \in Seq(Octets) /\ Len(PaddedTo(t, <<0, 32>>, l)) = l
      /\ Trimmed(PaddedTo(t, <<0, 32>>, l), <<0, 32>>) = Trimmed(t, <<0, 32>>)
  BY <1>1, <1>2, <1>4, <1>5, PadsAreCut
<1>7. QED BY <1>6 DEF t, l

(* The beginning of a text that is padded further.                         *)
LEMMA LessPadding ==
  ASSUME NEW t \in Seq(Octets), NEW pad, NEW l \in Nat, NEW h \in Nat, l >= Len(t), h >= l
  PROVE  SubSeq(PaddedTo(t, pad, h), 1, l) = PaddedTo(t, pad, l)
<1> DEFINE a == PaddedTo(t, pad, h)
           b == PaddedTo(t, pad, l)
           AtMark(i) == IF i <= Len(t) THEN t[i] ELSE PadAt(pad, i - Len(t) - 1)
<1>1. h >= Len(t)
  <2>1. Len(t) \in Nat OBVIOUS
  <2>2. QED BY <2>1
<1>2. a = [i \in 1 .. h |-> AtMark(i)] BY <1>1, Padded
<1>3. b = [i \in 1 .. l |-> AtMark(i)] BY Padded
<1> HIDE DEF a, b, AtMark
<1>4. SubSeq(a, 1, l) = [i \in 1 .. l |-> a[i]]
  <2> DEFINE A == {AtMark(i) : i \in 1 .. h}
  <2>1. a \in [1 .. h -> A] BY <1>2
  <2> HIDE DEF A
  <2>2. a \in Seq(A) /\ Len(a) = h BY <2>1
  <2>3. QED BY <2>2
<1>5. \A i \in 1 .. l : a[i] = AtMark(i)
  <2>1. \A i \in 1 .. l : i \in 1 .. h OBVIOUS
  <2>2. QED BY <1>2, <2>1
<1>6. QED BY <1>3, <1>4, <1>5 DEF a, b

LEMMA LeastOfTwo == \A a, b \in Nat : a <= b => Min({a, b}) = a /\ Min({b, a}) = a
BY MinOfTwo

LEMMA TwiceAtMost == \A a, b \in Nat : a <= b => 2 * a <= 2 * b /\ 2 * a \in Nat /\ 2 * b <= b * 4 /\ b * 4 \in Nat
OBVIOUS

(* What is copied into the row.                                            *)
LEMMA UnitRowIs ==
  ASSUME NEW c, IsUnitColumn(c)
  PROVE  /\ DataToStore(c) \in Seq(Octets) /\ RoomInRow(c) \in Nat /\ RoomInRow(c) <= Len(DataToStore(c))
         /\ SubSeq(DataToStore(c), 1, RoomInRow(c)) = UnitRow(c)
         /\ UnitRow(c) \in Seq(Octets)
         /\ \E j \in Nat : Len(UnitRow(c)) = 2 * j /\ RoomInRow(c) = 2 * j /\ j <= c.n /\ (~c.varying => j = c.n)
         /\ Normal(c, UnitRow(c)) = Normal(c, Text(c.items))
<1> DEFINE t == Text(c.items)
           m == Len(c.items)
           n == c.n
           D == DataToStore(c)
<1>1. /\ n \in Nat \ {0} /\ m \in Nat /\ m <= n /\ c.mbminlen = 2 /\ c.mbmaxlen = 4 /\ c.pad = <<0, 32>>
      /\ MultiByte(c)
  BY UnitHas
<1>2. t \in Seq(Octets) /\ Len(t) = 2 * m BY UnitText
<1>3. RoomInRow(c) = Min({(Len(D) * 2) \div 2, ((n * 4) * 2) \div 4})
  BY <1>1 DEF RoomInRow, MaxDisplayLength
<1>4. ((n * 4) * 2) \div 4 = 2 * n BY <1>1, UnitArithmetic
<1>5. 2 * m <= 2 * n /\ 2 * m \in Nat /\ 2 * n \in Nat /\ 2 * n <= n * 4 /\ n * 4 \in Nat
  BY <1>1, TwiceAtMost
<1>6. CASE c.varying
  <2>1. D = t /\ UnitRow(c) = t BY <1>6 DEF DataToStore, UnitRow
  <2>2. (Len(D) * 2) \div 2 = 2 * m BY <1>1, <1>2, <2>1, UnitArithmetic
  <2>3. RoomInRow(c) = 2 * m BY <1>3, <1>4, <1>5, <2>2, LeastOfTwo
  <2>4. SubSeq(t, 1, Len(t)) = t BY <1>2, AllOfSequence
  <2>5. SubSeq(D, 1, RoomInRow(c)) = UnitRow(c) BY <1>2, <2>1, <2>3, <2>4
  <2>6. RoomInRow(c) \in Nat /\ RoomInRow(c) <= Len(D) /\ Len(UnitRow(c)) = 2 * m
    BY <1>2, <1>5, <2>1, <2>3
  <2>7. D \in Seq(Octets) /\ UnitRow(c) \in Seq(Octets) BY <1>2, <2>1
  <2>8. Normal(c, UnitRow(c)) = Normal(c, t) BY <2>1
  <2>9. \E j \in Nat : Len(UnitRow(c)) = 2 * j /\ RoomInRow(c) = 2 * j /\ j <= n /\ (~c.varying => j = n)
    BY <1>1, <1>6, <2>3, <2>6
  <2>10. QED BY <2>5, <2>6, <2>7, <2>8, <2>9
<1>7. CASE ~c.varying
  <2> DEFINE u == PaddedTo(t, <<0, 32>>, 2 * n)
  <2>1. D = PaddedTo(t, <<0, 32>>, n * 4) /\ UnitRow(c) = u
    BY <1>1, <1>7 DEF DataToStore, UnitRow, MaxDisplayLength
  <2>2. 2 * (2 * n) = n * 4 /\ 2 * n \in Nat /\ n \in Nat BY <1>1
  <2>3. /\ PaddedTo(t, <<0, 32>>, 2 * (2 * n)) \in Seq(Octets)
        /\ Len(PaddedTo(t, <<0, 32>>, 2 * (2 * n))) = 2 * (2 * n)
    <3> DEFINE j == 2 * n
    <3>1. j \in Nat /\ 2 * j >= Len(t) BY <1>2, <1>5, <2>2
    <3> HIDE DEF j
    <3>2. /\ PaddedTo(t, <<0, 32>>, 2 * j) \in Seq(Octets)
          /\ Len(PaddedTo(t, <<0, 32>>, 2 * j)) = 2 * j
      BY <3>1, UnitPads
    <3>3. QED BY <3>2 DEF j
  <2>4. D \in Seq(Octets) /\ Len(D) = n * 4 BY <2>1, <2>2, <2>3
  <2>5. /\ u \in Seq(Octets) /\ Len(u) = 2 * n /\ Trimmed(u, <<0, 32>>) = Trimmed(t, <<0, 32>>)
    <3>1. 2 * n >= Len(t) BY <1>2, <1>5
    <3>2. QED BY <2>2, <3>1, UnitPads
  <2>6. (Len(D) * 2) \div 2 = n * 4 BY <1>1, <2>4, UnitArithmetic
  <2>7. RoomInRow(c) = 2 * n BY <1>3, <1>4, <1>5, <2>6, LeastOfTwo
  <2>8. SubSeq(D, 1, RoomInRow(c)) = UnitRow(c)
    <3> DEFINE l == 2 * n
               h == n * 4
    <3>1. l \in Nat /\ h \in Nat /\ l >= Len(t) /\ h >= l BY <1>2, <1>5
    <3> HIDE DEF l, h, t
    <3>2. SubSeq(PaddedTo(t, <<0, 32>>, h), 1, l) = PaddedTo(t, <<0, 32>>, l)
      BY <1>2, <3>1, LessPadding
    <3>3. QED BY <2>1, <2>7, <3>2 DEF l, h, t
  <2>9. RoomInRow(c) \in Nat /\ RoomInRow(c) <= Len(D) BY <1>5, <2>4, <2>7
  <2>10. Normal(c, UnitRow(c)) = Normal(c, t) BY <1>1, <1>7, <2>1, <2>5 DEF Normal
  <2>11. \E j \in Nat : Len(UnitRow(c)) = 2 * j /\ RoomInRow(c) = 2 * j /\ j <= n /\ (~c.varying => j = n)
    BY <1>1, <2>1, <2>5, <2>7
  <2>12. QED BY <2>1, <2>4, <2>5, <2>8, <2>9, <2>10, <2>11
<1>8. QED BY <1>6, <1>7

LEMMA UnitRowKept ==
  ASSUME NEW c, IsUnitColumn(c)
  PROVE  /\ (IF ~MultiByte(c) \/ c.varying THEN UnitRow(c)
             ELSE SubSeq(PaddedTo(UnitRow(c), <<0, 32>>, RoomInRow(c)), 1, 2 * c.n)) = UnitRow(c)
         /\ RoomInField(c, UnitRow(c)) \in Nat /\ Len(UnitRow(c)) <= RoomInField(c, UnitRow(c))
<1> DEFINE r == UnitRow(c)
<1>1. r \in Seq(Octets) BY UnitRowIs
<1>2. PICK j \in Nat : Len(r) = 2 * j /\ RoomInRow(c) = 2 * j /\ j <= c.n /\ (~c.varying => j = c.n)
  BY UnitRowIs
<1>3. MultiByte(c) /\ c.mbmaxlen = 4 BY UnitHas
<1> HIDE DEF r
<1>4. PaddedTo(r, <<0, 32>>, Len(r)) = r /\ SubSeq(r, 1, Len(r)) = r
  BY <1>1, NotPadded, AllOfSequence
<1>5. ~c.varying => SubSeq(PaddedTo(r, <<0, 32>>, RoomInRow(c)), 1, 2 * c.n) = r BY <1>2, <1>4
<1>6. RoomInField(c, r) = ((2 * j) \div 2) * 4 BY <1>2, <1>3 DEF RoomInField
<1>7. (2 * j) \div 2 = j /\ 2 * j <= j * 4 /\ j * 4 \in Nat BY UnitArithmetic, TwiceAtMost
<1>8. RoomInField(c, r) \in Nat /\ Len(r) <= RoomInField(c, r) BY <1>2, <1>6, <1>7
<1>9. (IF ~MultiByte(c) \/ c.varying THEN r
       ELSE SubSeq(PaddedTo(r, <<0, 32>>, RoomInRow(c)), 1, 2 * c.n)) = r
  BY <1>5
<1>10. QED BY <1>8, <1>9 DEF r

(* A conversion that copies bytes, before and after.                       *)
Copying(k, r) ==
  /\ call = k
  /\ \/ result = NotYet /\ inLen = Len(call.text) /\ out = <<>>
     \/ result.rc = 0 /\ out = r

LEMMA CopyStep ==
  ASSUME NEW k, k.schema = "U2U", NEW r, Copying(k, r), DMAP_U2U,
         SubSeq(k.text, 1, IF Len(k.text) <= k.room THEN Len(k.text) ELSE k.room) = r
  PROVE  Copying(k, r)'
<1> DEFINE n == IF inLen <= call.room THEN inLen ELSE call.room
<1>1. /\ result = NotYet /\ out' = SubSeq(call.text, 1, n) /\ result' = Result(0, "none", n, n, 0) /\ call' = call
  BY DEF DMAP_U2U
<1>2. call = k BY DEF Copying
<1>3. result'.rc = 0 BY <1>1 DEF Result
<1>4. inLen = Len(k.text)
  <2>1. NotYet.rc = 1 BY DEF NotYet
  <2>2. result.rc # 0 BY <1>1, <2>1
  <2>3. QED BY <1>2, <2>2 DEF Copying
<1>5. out' = r BY <1>1, <1>2, <1>4
<1>6. QED BY <1>1, <1>2, <1>3, <1>5 DEF Copying

LEMMA CopiesWithRoom ==
  ASSUME NEW S, NEW s \in Seq(S), NEW l \in Nat
  PROVE  /\ l <= Len(s) => SubSeq(s, 1, IF Len(s) <= l THEN Len(s) ELSE l) = SubSeq(s, 1, l)
         /\ Len(s) <= l => SubSeq(s, 1, IF Len(s) <= l THEN Len(s) ELSE l) = s
<1>1. SubSeq(s, 1, Len(s)) = s /\ Len(s) \in Nat BY AllOfSequence
<1> DEFINE N == Len(s)
           u == IF N <= l THEN N ELSE l
<1>2. N \in Nat /\ SubSeq(s, 1, N) = s BY <1>1
<1> HIDE DEF N
<1>3. (l <= N => u = l) /\ (N <= l => u = N) BY <1>2
<1> HIDE DEF u
<1>4. (l <= N => SubSeq(s, 1, u) = SubSeq(s, 1, l)) /\ (N <= l => SubSeq(s, 1, u) = s)
  BY <1>2, <1>3
<1>5. QED BY <1>4 DEF u, N

LEMMA StoreCopies ==
  ASSUME NEW c, IsUnitColumn(c), Copying(StoreCall(c), UnitRow(c)), DMAP_U2U
  PROVE  Copying(StoreCall(c), UnitRow(c))'
<1> DEFINE k == StoreCall(c)
           r == UnitRow(c)
<1>1. k.schema = "U2U" /\ k.text = DataToStore(c) /\ k.room = RoomInRow(c)
  BY UnitHas DEF StoreCall
<1>2. /\ k.text \in Seq(Octets) /\ k.room \in Nat /\ k.room <= Len(k.text) /\ SubSeq(k.text, 1, k.room) = r
  BY <1>1, UnitRowIs
<1>3. Copying(k, r) OBVIOUS
<1> HIDE DEF k, r
<1>4. SubSeq(k.text, 1, IF Len(k.text) <= k.room THEN Len(k.text) ELSE k.room) = r
  BY <1>2, CopiesWithRoom
<1>5. Copying(k, r)' BY <1>1, <1>3, <1>4, CopyStep
<1>6. QED BY <1>5 DEF k, r

LEMMA FetchCopies ==
  ASSUME NEW c, IsUnitColumn(c), Copying(FetchCall(c, UnitRow(c)), UnitRow(c)), DMAP_U2U
  PROVE  Copying(FetchCall(c, UnitRow(c)), UnitRow(c))'
<1> DEFINE r == UnitRow(c)
           k == FetchCall(c, r)
<1>1. k.schema = "U2U" /\ k.text = r /\ k.room = RoomInField(c, r) BY UnitHas DEF FetchCall
<1>2. k.text \in Seq(Octets) /\ k.room \in Nat /\ Len(k.text) <= k.room
  BY <1>1, UnitRowIs, UnitRowKept
<1>3. Copying(k, r) OBVIOUS
<1> HIDE DEF k, r
<1>4. SubSeq(k.text, 1, IF Len(k.text) <= k.room THEN Len(k.text) ELSE k.room) = r
  BY <1>1, <1>2, CopiesWithRoom
<1>5. Copying(k, r)' BY <1>1, <1>3, <1>4, CopyStep
<1>6. QED BY <1>5 DEF k, r

(* The invariant of a column: the loop is behind the first characters of   *)
(* the value, all of which come back; or it has copied the bytes.          *)
Storing(c) ==
  \/ IsTextColumn(c) /\ ~warned /\ \E n : StoringAt(c, n)
  \/ IsUnitColumn(c) /\ Copying(StoreCall(c), UnitRow(c))
Fetching(c) ==
  \/ /\ IsTextColumn(c) /\ AllComeBack(c)
     /\ ~warned => Surely(Of(SentItems(c), KeptCount(c))) = 0
     /\ \E n : FetchingAt(c, n)
  \/ IsUnitColumn(c) /\ Copying(FetchCall(c, UnitRow(c)), UnitRow(c))

RInv ==
  /\ pc = "storing" => Storing(column)
  /\ pc = "fetching" => Fetching(column)
  /\ pc = "done" => RoundTrip

LEMMA ErrorsAre == ASSUME Failed PROVE status' # "none" /\ pc' = "done"
BY DEF Failed, ErrorsOf

LEMMA NoneCounted == \A s \in Nat, k \in Int : s <= k /\ ~(k > 0) => s = 0
OBVIOUS

LEMMA SurelyNone ==
  ASSUME NEW S, NEW its \in Seq(S), NEW n \in 0 .. Len(its), numS \in Surely(Of(its, n)) .. Possibly(Of(its, n)),
         ~(numS > 0)
  PROVE  Surely(Of(its, n)) = 0
<1> DEFINE s == Surely(Of(its, n))
           p == Possibly(Of(its, n))
<1>1. s \in Nat /\ p \in Nat BY CountedSoFar
<1>2. numS \in s .. p OBVIOUS
<1> HIDE DEF s, p
<1>3. numS \in Int /\ s <= numS BY <1>1, <1>2
<1>4. s = 0 BY <1>1, <1>3, NoneCounted
<1>5. QED BY <1>4 DEF s

(* The fetch begins in front of the first character.                       *)
LEMMA FetchBegins ==
  ASSUME NEW c, IsTextColumn(c), AllComeBack(c), Begin(FetchCall(c, Stored(c)))
  PROVE  FetchingAt(c, 0)'
<1> DEFINE its == BackItems(c)
           S == {Back(c, SentItems(c)[k]) : k \in 1 .. KeptCount(c)}
           k == FetchCall(c, Stored(c))
<1>1. call' = k /\ pIn' = 0 /\ inLen' = Len(k.text) /\ out' = <<>> /\ numS' = 0 /\ result' = NotYet
  BY DEF Begin
<1>2. its \in Seq(S) /\ HaveBytes(its) /\ Text(its) = Stored(c) BY BackIs
<1>3. k.text = Text(its) BY <1>2 DEF FetchCall
<1>4. 0 \in 0 .. KeptCount(c)
  <2>1. KeptCount(c) \in Nat BY SentIs
  <2>2. QED BY <2>1
<1> HIDE DEF its, S, k
<1>5. /\ Target(Of(its, 0)) = <<>> /\ Surely(Of(its, 0)) = 0 /\ Possibly(Of(its, 0)) = 0 /\ End(its, 0) = 0
  BY <1>2, NoItems
<1>6. Len(k.text) \in Nat BY <1>2, <1>3, WholeText
<1>7. inLen' = Len(call'.text) - End(its, 0) BY <1>1, <1>5, <1>6
<1>8. numS' \in Surely(Of(its, 0)) .. Possibly(Of(its, 0)) BY <1>1, <1>5
<1>9. ReadItems(its, 0)' BY <1>1, <1>5, <1>7, <1>8 DEF ReadItems
<1>10. QED BY <1>1, <1>4, <1>9 DEF FetchingAt, Returned, its, k

LEMMA StoreRowText ==
  ASSUME NEW c, column = c, IsTextColumn(c), ~warned, NEW n, StoringAt(c, n), StoreRow
  PROVE  \/ pc' = "done" /\ status' # "none"
         \/ pc' = "fetching" /\ column' = c /\ Fetching(c)'
<1> DEFINE K == KeptCount(c)
           its == SentItems(c)
           S == ColumnItems(c) \cup {Space(c)}
<1>1. result # NotYet /\ pc = "storing" BY DEF StoreRow
<1>2. CASE Failed BY <1>2, ErrorsAre
<1>3. CASE ~Failed
  <2>1. /\ Converted
        /\ row' = IF ~MultiByte(c) \/ c.varying THEN out
                  ELSE SubSeq(PaddedTo(out, <<0, 32>>, RoomInRow(c)), 1, 2 * c.n)
        /\ pc' = "fetching"
        /\ Begin(FetchCall(c, row'))
    BY <1>3 DEF StoreRow
  <2>2. result.rc >= 0 /\ warned' = (warned \/ result.numSub > 0) /\ column' = c
    BY <2>1 DEF Converted
  <2>3. result.rc # -1 BY <2>2
  <2>4. n = K /\ result.numSub = numS BY <1>1, <2>3 DEF StoringAt, Returned
  <2>5. ReadItems(its, n) /\ \A k \in 1 .. n : ComesBack(c, its[k]) BY DEF StoringAt
  <2>6. AllComeBack(c) BY <2>4, <2>5 DEF AllComeBack
  <2>7. out = Stored(c) BY <2>4, <2>5 DEF ReadItems, Stored
  <2>8. row' = Stored(c) BY <2>1, <2>6, <2>7, RowIs
  <2>9. FetchingAt(c, 0)' BY <2>1, <2>6, <2>8, FetchBegins
  <2>10. ~warned' => Surely(Of(its, K)) = 0
    <3>1. SUFFICES ASSUME ~warned' PROVE Surely(Of(its, K)) = 0 OBVIOUS
    <3>2. ~(numS > 0)
      <4>1. ~(result.numSub > 0) BY <2>2, <3>1, Zenon
      <4>2. QED BY <2>4, <4>1
    <3>3. its \in Seq(S) /\ K \in 0 .. Len(its) BY SentIs
    <3>4. numS \in Surely(Of(its, K)) .. Possibly(Of(its, K)) BY <2>4, <2>5 DEF ReadItems
    <3> HIDE DEF its, S, K
    <3>5. QED BY <3>2, <3>3, <3>4, SurelyNone
  <2>11. Fetching(c)' BY <2>6, <2>9, <2>10, Zenon DEF Fetching
  <2>12. QED BY <2>1, <2>2, <2>11
<1>4. QED BY <1>2, <1>3

LEMMA RoundTripIs ==
  ASSUME NEW c, column' = c, pc' = "done" /\ status' = "none" /\ ~warned' => Normal(c, value') = Normal(c, Text(c.items))
  PROVE  RoundTrip'
<1>1. column'.varying = c.varying /\ column'.pad = c.pad /\ Text(column'.items) = Text(c.items) OBVIOUS
<1>2. SUFFICES ASSUME pc' = "done" /\ status' = "none" /\ ~warned'
               PROVE  (IF column'.varying THEN value' ELSE Trimmed(value', column'.pad))
                      = (IF column'.varying THEN Text(column'.items) ELSE Trimmed(Text(column'.items), column'.pad))
  BY Zenon DEF RoundTrip
<1>3. Normal(c, value') = Normal(c, Text(c.items)) BY <1>2
<1>4. QED BY <1>1, <1>3 DEF Normal

LEMMA FailsRound ==
  ASSUME status' # "none"
  PROVE  RoundTrip'
BY Zenon DEF RoundTrip

LEMMA FetchRowText ==
  ASSUME NEW c, column = c, IsTextColumn(c), AllComeBack(c),
         ~warned => Surely(Of(SentItems(c), KeptCount(c))) = 0, NEW n, FetchingAt(c, n), FetchRow
  PROVE  pc' = "done" /\ RoundTrip'
<1> DEFINE K == KeptCount(c)
           its == BackItems(c)
           S == BackSet(c)
<1>1. result # NotYet BY DEF FetchRow
<1>2. CASE Failed BY <1>2, ErrorsAre, FailsRound
<1>3. CASE ~Failed
  <2>1. Converted /\ value' = out /\ pc' = "done" BY <1>3 DEF FetchRow
  <2>2. warned' = (warned \/ result.numSub > 0) /\ column' = c BY <2>1 DEF Converted
  <2>3. n = K /\ result.numSub = numS BY <1>1 DEF FetchingAt, Returned
  <2>4. ReadItems(its, K) BY <2>3 DEF FetchingAt
  <2>5. value' = Target(Of(its, K)) BY <2>1, <2>4 DEF ReadItems
  <2>6. ASSUME ~warned' PROVE Normal(c, value') = Normal(c, Text(c.items))
    <3>1. ~warned /\ ~(result.numSub > 0) BY <2>2, <2>6, Zenon
    <3>2. ~(numS > 0) BY <2>3, <3>1
    <3>3. Surely(Of(SentItems(c), K)) = 0 BY <3>1
    <3>4. its \in Seq(S) /\ Len(its) = K /\ K \in Nat BY FetchingHas
    <3>5. numS \in Surely(Of(its, K)) .. Possibly(Of(its, K)) BY <2>4 DEF ReadItems
    <3>6. Surely(Of(its, K)) = 0
      <4> HIDE DEF its, S, K
      <4>1. K \in 0 .. Len(its) BY <3>4
      <4>2. QED BY <3>2, <3>4, <3>5, <4>1, SurelyNone
    <3>7. Target(Of(its, K)) = Text(Of(SentItems(c), K)) BY <3>3, <3>6, ComesRound
    <3>8. value' = Text(Of(SentItems(c), K)) BY <2>5, <3>7
    <3>9. QED BY <3>8, SentNormal
  <2>7. RoundTrip' BY <2>2, <2>6, RoundTripIs, Zenon
  <2>8. QED BY <2>1, <2>7
<1>4. QED BY <1>2, <1>3

LEMMA StoreRowUnits ==
  ASSUME NEW c, column = c, IsUnitColumn(c), Copying(StoreCall(c), UnitRow(c)), StoreRow
  PROVE  \/ pc' = "done" /\ status' # "none"
         \/ pc' = "fetching" /\ column' = c /\ Fetching(c)'
<1> DEFINE r == UnitRow(c)
           k == FetchCall(c, r)
<1>1. result # NotYet BY DEF StoreRow
<1>2. CASE Failed BY <1>2, ErrorsAre
<1>3. CASE ~Failed
  <2>1. /\ Converted
        /\ row' = IF ~MultiByte(c) \/ c.varying THEN out
                  ELSE SubSeq(PaddedTo(out, <<0, 32>>, RoomInRow(c)), 1, 2 * c.n)
        /\ pc' = "fetching"
        /\ Begin(FetchCall(c, row'))
    BY <1>3 DEF StoreRow
  <2>2. column' = c BY <2>1 DEF Converted
  <2>3. out = r BY <1>1 DEF Copying
  <2>4. row' = r BY <2>1, <2>3, UnitRowKept
  <2>5. call' = k /\ inLen' = Len(k.text) /\ out' = <<>> /\ result' = NotYet
    BY <2>1, <2>4 DEF Begin
  <2> HIDE DEF r, k
  <2>6. Copying(k, r)' BY <2>5 DEF Copying
  <2>7. Fetching(c)' BY <2>6, Zenon DEF Fetching, k, r
  <2>8. QED BY <2>1, <2>2, <2>7
<1>4. QED BY <1>2, <1>3

LEMMA FetchRowUnits ==
  ASSUME NEW c, column = c, IsUnitColumn(c), Copying(FetchCall(c, UnitRow(c)), UnitRow(c)), FetchRow
  PROVE  pc' = "done" /\ RoundTrip'
<1>1. result # NotYet BY DEF FetchRow
<1>2. CASE Failed BY <1>2, ErrorsAre, FailsRound
<1>3. CASE ~Failed
  <2>1. Converted /\ value' = out /\ pc' = "done" BY <1>3 DEF FetchRow
  <2>2. column' = c BY <2>1 DEF Converted
  <2>3. out = UnitRow(c) BY <1>1 DEF Copying
  <2>4. Normal(c, value') = Normal(c, Text(c.items)) BY <2>1, <2>3, UnitRowIs
  <2>5. RoundTrip' BY <2>2, <2>4, RoundTripIs
  <2>6. QED BY <2>1, <2>5
<1>4. QED BY <1>2, <1>3

(* A step of the loop.                                                     *)
LEMMA StoreConverts ==
  ASSUME NEW c, column = c, Storing(c), Convert
  PROVE  Storing(c)'
<1>1. myconv_dmap /\ warned' = warned BY DEF Convert, cvars
<1>2. ASSUME IsTextColumn(c), ~warned, NEW n, StoringAt(c, n) PROVE Storing(c)'
  <2>1. call.schema # "U2U"
    <3>1. call.schema = c.toDB2.schema BY <1>2, StoringHas
    <3>2. QED BY <1>2, <3>1 DEF IsTextColumn
  <2>2. Iterate \/ Leave BY <1>1, <2>1 DEF myconv_dmap, DMAP_U2U
  <2>3. CASE Iterate
    <3>1. StoringAt(c, n)' \/ StoringAt(c, n + 1)' BY <1>2, <2>3, StoreTurn
    <3>2. QED BY <1>1, <1>2, <3>1, Zenon DEF Storing
  <2>4. CASE Leave
    <3>1. StoringAt(c, n)' BY <1>2, <2>4, StoreLeave
    <3>2. QED BY <1>1, <1>2, <3>1, Zenon DEF Storing
  <2>5. QED BY <2>2, <2>3, <2>4
<1>3. ASSUME IsUnitColumn(c), Copying(StoreCall(c), UnitRow(c)) PROVE Storing(c)'
  <2>1. call.schema = "U2U" BY <1>3, UnitHas DEF Copying, StoreCall
  <2>2. DMAP_U2U BY <1>1, <2>1 DEF myconv_dmap, Iterate, Leave
  <2>3. Copying(StoreCall(c), UnitRow(c))' BY <1>3, <2>2, StoreCopies
  <2>4. QED BY <1>3, <2>3, Zenon DEF Storing
<1>4. QED BY <1>2, <1>3, Zenon DEF Storing

LEMMA FetchConverts ==
  ASSUME NEW c, column = c, Fetching(c), Convert
  PROVE  Fetching(c)'
<1>1. myconv_dmap /\ warned' = warned BY DEF Convert, cvars
<1>2. ASSUME IsTextColumn(c), AllComeBack(c), ~warned => Surely(Of(SentItems(c), KeptCount(c))) = 0,
             NEW n, FetchingAt(c, n)
      PROVE  Fetching(c)'
  <2>1. call.schema # "U2U"
    <3>1. call.schema = c.toMySQL.schema BY <1>2, FetchingHas
    <3>2. QED BY <1>2, <3>1, ColumnsSchemas
  <2>2. Iterate \/ Leave BY <1>1, <2>1 DEF myconv_dmap, DMAP_U2U
  <2>3. ~warned' => Surely(Of(SentItems(c), KeptCount(c))) = 0 BY <1>1, <1>2, Zenon
  <2>4. CASE Iterate
    <3>1. FetchingAt(c, n + 1)' BY <1>2, <2>4, FetchTurn
    <3>2. QED BY <1>2, <2>3, <3>1, Zenon DEF Fetching
  <2>5. CASE Leave
    <3>1. FetchingAt(c, n)' BY <1>2, <2>5, FetchLeave
    <3>2. QED BY <1>2, <2>3, <3>1, Zenon DEF Fetching
  <2>6. QED BY <2>2, <2>4, <2>5
<1>3. ASSUME IsUnitColumn(c), Copying(FetchCall(c, UnitRow(c)), UnitRow(c)) PROVE Fetching(c)'
  <2>1. call.schema = "U2U" BY <1>3, UnitHas DEF Copying, FetchCall
  <2>2. DMAP_U2U BY <1>1, <2>1 DEF myconv_dmap, Iterate, Leave
  <2>3. Copying(FetchCall(c, UnitRow(c)), UnitRow(c))' BY <1>3, <2>2, FetchCopies
  <2>4. QED BY <1>3, <2>3, Zenon DEF Fetching
<1>4. QED BY <1>2, <1>3, Zenon DEF Fetching

LEMMA KindsOfColumn == ASSUME NEW c, IsColumn(c) PROVE IsTextColumn(c) \/ IsUnitColumn(c)
BY Zenon DEF IsTextColumn, IsUnitColumn

(* A column begins in front of the first character of its value.           *)
LEMMA StoreBegins ==
  ASSUME NEW c, IsColumn(c), call = StoreCall(c), pIn = 0, inLen = Len(call.text), out = <<>>, numS = 0,
         result = NotYet, ~warned
  PROVE  Storing(c)
<1>1. CASE IsUnitColumn(c)
  <2>1. Copying(StoreCall(c), UnitRow(c)) BY DEF Copying
  <2>2. QED BY <1>1, <2>1, Zenon DEF Storing
<1>2. CASE IsTextColumn(c)
  <2> DEFINE its == SentItems(c)
             S == ColumnItems(c) \cup {Space(c)}
  <2>1. its \in Seq(S) /\ HaveBytes(its) /\ KeptCount(c) \in Nat /\ DataToStore(c) = Text(its)
    BY <1>2, SentIs
  <2>2. call.text = Text(its) BY <2>1 DEF StoreCall
  <2> HIDE DEF its, S
  <2>3. /\ Target(Of(its, 0)) = <<>> /\ Surely(Of(its, 0)) = 0 /\ Possibly(Of(its, 0)) = 0 /\ End(its, 0) = 0
    BY <2>1, NoItems
  <2>4. Len(Text(its)) \in Nat BY <2>1, WholeText
  <2>5. inLen = Len(call.text) - End(its, 0) BY <2>2, <2>3, <2>4
  <2>6. numS \in Surely(Of(its, 0)) .. Possibly(Of(its, 0)) BY <2>3
  <2>7. ReadItems(its, 0) BY <2>3, <2>5, <2>6 DEF ReadItems
  <2>8. 0 \in 0 .. KeptCount(c) /\ 1 .. 0 = {} BY <2>1
  <2>9. StoringAt(c, 0) BY <2>7, <2>8 DEF StoringAt, Returned, its
  <2>10. QED BY <1>2, <2>9, Zenon DEF Storing
<1>3. QED BY <1>1, <1>2, KindsOfColumn

LEMMA ColumnStarts == ASSUME ~StoresPairs PROVE CInit => RInv
<1> SUFFICES ASSUME CInit PROVE RInv OBVIOUS
<1>1. /\ pIn = 0 /\ out = <<>> /\ numS = 0 /\ result = NotYet /\ inLen = Len(call.text) /\ ~warned
      /\ pc = "converting" \/ (column \in Columns /\ pc = "storing" /\ call = StoreCall(column))
  BY DEF CInit
<1>2. CASE pc = "converting"
  <2>1. pc # "storing" /\ pc # "fetching" /\ pc # "done" BY <1>2
  <2>2. QED BY <2>1, Zenon DEF RInv
<1>3. CASE column \in Columns /\ pc = "storing" /\ call = StoreCall(column)
  <2>1. IsColumn(column) BY <1>3, ColumnsAssumption
  <2>2. Storing(column) BY <1>1, <1>3, <2>1, StoreBegins
  <2>3. pc # "fetching" /\ pc # "done" BY <1>3
  <2>4. QED BY <2>2, <2>3, Zenon DEF RInv
<1>4. QED BY <1>1, <1>2, <1>3

LEMMA GoesOnFetching == ASSUME NEW c, column = c, pc' = "fetching", column' = c, Fetching(c)' PROVE RInv'
<1>1. Fetching(column)' BY DEF Fetching, FetchingAt, ReadItems, Returned, Copying
<1>2. pc' # "storing" /\ pc' # "done" OBVIOUS
<1>3. QED BY <1>1, <1>2, Zenon DEF RInv

LEMMA ColumnKeeps == RInv /\ [CNext]_<<vars, cvars>> => RInv'
<1> SUFFICES ASSUME RInv, [CNext]_<<vars, cvars>> PROVE RInv' OBVIOUS
<1>1. PICK c : c = column OBVIOUS
<1>2. CASE Convert
  <2>1. pc # "done" /\ pc' = pc /\ column' = column BY <1>2 DEF Convert, cvars
  <2>2. CASE pc = "storing"
    <3>1. Storing(c) BY <1>1, <2>2 DEF RInv
    <3>2. Storing(c)' BY <1>1, <1>2, <3>1, StoreConverts
    <3>3. Storing(column)'
      BY <1>1, <2>1, <3>2 DEF Storing, StoringAt, ReadItems, Returned, Copying
    <3>4. pc' # "fetching" /\ pc' # "done" BY <2>1, <2>2
    <3>5. QED BY <3>3, <3>4, Zenon DEF RInv
  <2>3. CASE pc = "fetching"
    <3>1. Fetching(c) BY <1>1, <2>3 DEF RInv
    <3>2. Fetching(c)' BY <1>1, <1>2, <3>1, FetchConverts
    <3>3. QED BY <1>1, <2>1, <2>3, <3>2, GoesOnFetching
  <2>4. CASE pc # "storing" /\ pc # "fetching"
    <3>1. pc' # "storing" /\ pc' # "fetching" /\ pc' # "done" BY <2>1, <2>4
    <3>2. QED BY <3>1, Zenon DEF RInv
  <2>5. QED BY <2>2, <2>3, <2>4
<1>3. CASE StoreRow
  <2>1. pc = "storing" BY <1>3 DEF StoreRow
  <2>2. Storing(c) BY <1>1, <2>1 DEF RInv
  <2>3. \/ pc' = "done" /\ status' # "none"
        \/ pc' = "fetching" /\ column' = c /\ Fetching(c)'
    <3>1. CASE IsUnitColumn(c) /\ Copying(StoreCall(c), UnitRow(c))
      BY <1>1, <1>3, <3>1, StoreRowUnits
    <3>2. CASE IsTextColumn(c) /\ ~warned /\ \E n : StoringAt(c, n)
      <4>1. PICK n : StoringAt(c, n) BY <3>2
      <4>2. IsTextColumn(c) /\ ~warned BY <3>2
      <4>3. QED BY <1>1, <1>3, <4>1, <4>2, StoreRowText
    <3>3. QED BY <2>2, <3>1, <3>2, Zenon DEF Storing
  <2>4. CASE pc' = "done" /\ status' # "none"
    <3>1. RoundTrip' BY <2>4, FailsRound
    <3>2. pc' # "storing" /\ pc' # "fetching" BY <2>4
    <3>3. QED BY <3>1, <3>2, Zenon DEF RInv
  <2>5. CASE pc' = "fetching" /\ column' = c /\ Fetching(c)' BY <1>1, <2>5, GoesOnFetching
  <2>6. QED BY <2>3, <2>4, <2>5
<1>4. CASE FetchRow
  <2>1. pc = "fetching" BY <1>4 DEF FetchRow
  <2>2. Fetching(c) BY <1>1, <2>1 DEF RInv
  <2>3. pc' = "done" /\ RoundTrip'
    <3>1. CASE IsUnitColumn(c) /\ Copying(FetchCall(c, UnitRow(c)), UnitRow(c))
      BY <1>1, <1>4, <3>1, FetchRowUnits
    <3>2. CASE /\ IsTextColumn(c) /\ AllComeBack(c)
               /\ ~warned => Surely(Of(SentItems(c), KeptCount(c))) = 0
               /\ \E n : FetchingAt(c, n)
      <4>1. PICK n : FetchingAt(c, n) BY <3>2
      <4>2. IsTextColumn(c) /\ AllComeBack(c) /\ (~warned => Surely(Of(SentItems(c), KeptCount(c))) = 0) BY <3>2
      <4>3. QED BY <1>1, <1>4, <4>1, <4>2, FetchRowText
    <3>3. QED BY <2>2, <3>1, <3>2, Zenon DEF Fetching
  <2>4. pc' # "storing" /\ pc' # "fetching" BY <2>3
  <2>5. QED BY <2>3, <2>4, Zenon DEF RInv
<1>5. CASE UNCHANGED <<vars, cvars>>
  <2>1. /\ pc' = pc /\ column' = column /\ call' = call /\ pIn' = pIn /\ inLen' = inLen /\ out' = out
        /\ numS' = numS /\ result' = result /\ value' = value /\ status' = status /\ warned' = warned
    BY <1>5 DEF vars, cvars
  <2>2. Storing(column)' <=> Storing(column)
    BY <2>1 DEF Storing, StoringAt, ReadItems, Returned, Copying
  <2>3. Fetching(column)' <=> Fetching(column)
    BY <2>1 DEF Fetching, FetchingAt, ReadItems, Returned, Copying
  <2>4. RoundTrip' <=> RoundTrip BY <2>1 DEF RoundTrip
  <2>5. QED BY <2>1, <2>2, <2>3, <2>4, Zenon DEF RInv
<1>6. QED BY <1>2, <1>3, <1>4, <1>5 DEF CNext

(* What is converted for a column stays in its room.                       *)
LEMMA StoringInside ==
  ASSUME NEW c, column = c, Storing(c)
  PROVE  Len(out) <= (IF MultiByte(c) THEN 2 ELSE 1) * c.n
<1>1. ASSUME IsTextColumn(c), NEW n, StoringAt(c, n) PROVE Len(out) <= BytesPer(c) * c.n
  <2>1. Len(out) = n * BytesPer(c) /\ n \in Nat BY <1>1, StoringHas
  <2>2. n <= c.n
    <3>1. n \in 0 .. KeptCount(c) BY <1>1 DEF StoringAt
    <3>2. KeptCount(c) \in Nat /\ KeptCount(c) <= c.n /\ c.n \in Nat BY <1>1, SentIs, ColumnHas
    <3>3. QED BY <2>1, <3>1, <3>2
  <2>3. c.n \in Nat /\ BytesPer(c) \in Nat BY <1>1, ColumnHas, WidthIs
  <2>4. n * BytesPer(c) <= BytesPer(c) * c.n BY <2>1, <2>2, <2>3, ScaledEven
  <2>5. QED BY <2>1, <2>4
<1>2. ASSUME IsUnitColumn(c), Copying(StoreCall(c), UnitRow(c)) PROVE Len(out) <= BytesPer(c) * c.n
  <2>1. out = <<>> \/ out = UnitRow(c) BY <1>2 DEF Copying
  <2>2. BytesPer(c) = 2 /\ c.n \in Nat BY <1>2, UnitHas DEF BytesPer
  <2>3. PICK j \in Nat : Len(UnitRow(c)) = 2 * j /\ j <= c.n BY <1>2, UnitRowIs
  <2>4. Len(<<>>) = 0 BY NoBytes
  <2>5. 0 <= 2 * c.n /\ 2 * j <= 2 * c.n BY <2>2, <2>3
  <2>6. QED BY <2>1, <2>2, <2>3, <2>4, <2>5
<1>3. Len(out) <= BytesPer(c) * c.n BY <1>1, <1>2, Zenon DEF Storing
<1>4. QED BY <1>3 DEF BytesPer

LEMMA FetchingInside ==
  ASSUME NEW c, column = c, Fetching(c)
  PROVE  Len(out) <= call.room
<1>1. ASSUME IsTextColumn(c), AllComeBack(c), NEW n, FetchingAt(c, n) PROVE Len(out) <= call.room
  <2> DEFINE w == c.mbmaxlen
             K == KeptCount(c)
  <2>1. /\ K \in Nat /\ n \in 0 .. K /\ n \in Nat /\ call.room = K * w
        /\ Len(out) \in Nat /\ Len(out) <= n * w
    BY <1>1, FetchingHas
  <2>2. w \in Nat BY <1>1, ColumnHas
  <2> HIDE DEF w, K
  <2>3. n <= K BY <2>1
  <2>4. n * w <= K * w BY <2>1, <2>2, <2>3, Product
  <2>5. n * w \in Nat /\ K * w \in Nat BY <2>1, <2>2, Doubled
  <2>6. QED BY <2>1, <2>4, <2>5
<1>2. ASSUME IsUnitColumn(c), Copying(FetchCall(c, UnitRow(c)), UnitRow(c)) PROVE Len(out) <= call.room
  <2>1. call.room = RoomInField(c, UnitRow(c)) /\ (out = <<>> \/ out = UnitRow(c))
    BY <1>2 DEF Copying, FetchCall
  <2>2. RoomInField(c, UnitRow(c)) \in Nat /\ Len(UnitRow(c)) <= RoomInField(c, UnitRow(c))
    BY <1>2, UnitRowKept
  <2>3. Len(<<>>) = 0 BY NoBytes
  <2>4. QED BY <2>1, <2>2, <2>3
<1>3. QED BY <1>1, <1>2, Zenon DEF Fetching

LEMMA ColumnsInvariant == ASSUME ~StoresPairs PROVE CSpec => []RInv
BY ColumnStarts, ColumnKeeps, PTL DEF CSpec

(* InColumn: for every column of a table, its character set and its value, *)
(* what convertMySQLtoDB2 has written at any turn of the loop is within    *)
(* the column's bytes in the row, and what convertDB2toMySQL has written   *)
(* within the buffer made for the field; columns of UTF-16 hold no         *)
(* supplementary characters.                                               *)
THEOREM ColumnsStayInside == ASSUME ~StoresPairs PROVE CSpec => []InColumn
<1>1. RInv => InColumn
  <2> SUFFICES ASSUME RInv PROVE InColumn OBVIOUS
  <2>1. pc = "storing" => Len(out) <= (IF MultiByte(column) THEN 2 ELSE 1) * column.n
    BY StoringInside DEF RInv
  <2>2. pc = "fetching" => Len(out) <= call.room BY FetchingInside DEF RInv
  <2>3. QED BY <2>1, <2>2 DEF InColumn
<1>2. CSpec => []RInv BY ColumnsInvariant
<1>3. QED BY <1>1, <1>2, PTL

(* RoundTrip: a value that was stored and fetched again without an error   *)
(* and without the warning of substitutions is the value as it was, but    *)
(* for the spaces at the end of a CHAR.                                    *)
THEOREM ColumnsRoundTrip == ASSUME ~StoresPairs PROVE CSpec => []RoundTrip
<1>1. RInv => RoundTrip
  <2> SUFFICES ASSUME RInv PROVE RoundTrip OBVIOUS
  <2>1. pc = "done" => RoundTrip BY DEF RInv
  <2>2. pc # "done" => RoundTrip BY Zenon DEF RoundTrip
  <2>3. QED BY <2>1, <2>2
<1>2. CSpec => []RInv BY ColumnsInvariant
<1>3. QED BY <1>1, <1>2, PTL
=============================================================================
