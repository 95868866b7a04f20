---------------------------- MODULE RowValuesProofs ----------------------------
(***************************************************************************)
(* What is true of the values of a row on their way to DB2 and back, for   *)
(* every table and value; for text, CharColumnProofs says it.              *)
(*                                                                         *)
(* All other values (FieldConversion, KeyAccess): what was written is what *)
(* is fetched, and a read by a key finds the row that MySQL means.  Type   *)
(* by type, EveryValueSurvives says that one conversion undoes the other,  *)
(* and OrderKept that DB2 has what it is sent in the order in which MySQL  *)
(* has the values; RowsAgree carries that over to rows and keys, and the   *)
(* invariant AccessInv, that DB2's row is what was made of MySQL's, to the *)
(* states of KSpec.  A range's bounds are built part by part (BoundsBuilt).*)
(* As the parts of a field stand in a line (PartsOrdered), a row is inside *)
(* the range if it has what the ends have in common and is between their   *)
(* last parts (InsideIs), and CommonPart and LastPart show that this is    *)
(* what the bounds say.                                                    *)
(***************************************************************************)
EXTENDS CharColumnProofs, KeyAccess

(* Bytes, turned round and widened.                                        *)
LEMMA Reversed ==
  ASSUME NEW S, NEW v \in Seq(S)
  PROVE  /\ Reverse(v) \in Seq(S) /\ Len(Reverse(v)) = Len(v)
         /\ \A i \in 1..Len(v) : Reverse(v)[i] = v[Len(v) - i + 1]
         /\ Reverse(Reverse(v)) = v
<1> DEFINE r == Reverse(v)
<1>1. \A i \in 1..Len(v) : Len(v) - i + 1 \in 1..Len(v) /\ Len(v) - (Len(v) - i + 1) + 1 = i OBVIOUS
<1>2. r = [i \in 1..Len(v) |-> v[Len(v) - i + 1]] BY DEF Reverse
<1>3. r \in Seq(S) /\ Len(r) = Len(v) /\ \A i \in 1..Len(v) : r[i] = v[Len(v) - i + 1]
  BY <1>1, <1>2
<1>4. Reverse(r) = [i \in 1..Len(r) |-> r[Len(r) - i + 1]] BY DEF Reverse
<1> HIDE DEF r
<1>8. \A i \in 1..Len(v) : r[Len(v) - i + 1] = v[i] BY <1>1, <1>3
<1>5. Reverse(r) = [i \in 1..Len(v) |-> v[i]] BY <1>3, <1>4, <1>8
<1>6. Reverse(r) = v BY <1>5
<1>7. QED BY <1>3, <1>6 DEF r

(* Wider puts its bytes in front.                                          *)
LEMMA Widened ==
  ASSUME NEW S, NEW be \in Seq(S), NEW n \in Nat, NEW b \in S, n >= Len(be)
  PROVE  /\ Wider(be, n, b) \in Seq(S) /\ Len(Wider(be, n, b)) = n
         /\ \A i \in 1..n : Wider(be, n, b)[i] = IF i <= n - Len(be) THEN b ELSE be[i - (n - Len(be))]
<1>1. Few(n - Len(be), b) \in Seq(S) /\ Len(Few(n - Len(be), b)) = n - Len(be) BY DEF Few
<1>2. \A i \in 1..n - Len(be) : Few(n - Len(be), b)[i] = b BY DEF Few
<1>3. QED BY <1>1, <1>2 DEF Wider

(* Sequences of three.                                                     *)
LEMMA Triple ==
  ASSUME NEW S, NEW s \in Seq(S), Len(s) = 3
  PROVE  s = <<s[1], s[2], s[3]>>
OBVIOUS

(* A sequence cut in two.                                                  *)
LEMMA SecondPart ==
  ASSUME NEW S, NEW s \in Seq(S), NEW t \in Seq(S)
  PROVE  \A i \in 1..Len(t) : (s \o t)[Len(s) + i] = t[i]
OBVIOUS

(* An integer comes back, if its bytes are not shifted.                    *)
Plain(f) == f.type \in Integers_ /\ ~Packed(f)
Byte == 0..255

(* DB2's integers are as wide as MySQL's or wider, unsigned ones wider.    *)
LEMMA Widths ==
  ASSUME NEW f, IsField(f), Plain(f)
  PROVE  /\ Width[f.type] \in 1..8 /\ db2Width(f) \in 1..8 /\ db2Width(f) >= Width[f.type]
         /\ f.unsigned => db2Width(f) > Width[f.type]
         /\ f.type \in {"TINY", "SHORT", "INT24", "LONG", "LONGLONG", "ENUM"}
BY DEF IsField, Plain, Width, Integers_, db2Width, Packed

(* The bytes DB2 is given: those of the sign, and MySQL's from the last.   *)
WidenedRight(f, v) ==
  /\ v \in Seq(Byte) /\ Len(v) = Width[f.type] /\ signByte(f, v) \in {0, 255}
  /\ toInteger(f, v) \in Seq(Byte) /\ Len(toInteger(f, v)) = db2Width(f)
  /\ \A i \in 1..db2Width(f) : toInteger(f, v)[i] =
       IF i <= db2Width(f) - Width[f.type] THEN signByte(f, v)
       ELSE v[db2Width(f) - i + 1]
LEMMA Given ==
  ASSUME NEW f, IsField(f), Plain(f), ~Shifted(f), NEW v, IsValue(f, v)
  PROVE  WidenedRight(f, v)
<1> DEFINE w == Width[f.type]
           n == db2Width(f)
<1>1. w \in 1..8 /\ n \in 1..8 /\ n >= w BY Widths
<1>2. v \in Seq(Byte) /\ Len(v) = w
  <2>1. IsBytes(v, Width[f.type])
    BY DEF Plain, IsValue, Integers_, Width
  <2>2. QED BY <2>1 DEF IsBytes, Byte
<1>3. signByte(f, v) \in Byte /\ signByte(f, v) \in {0, 255} BY DEF signByte, Byte
<1>4. toInteger(f, v) = Wider(Reverse(v), n, signByte(f, v)) BY DEF toInteger, Shifted
<1>5. Reverse(v) \in Seq(Byte) /\ Len(Reverse(v)) = w
      /\ \A i \in 1..w : Reverse(v)[i] = v[w - i + 1]
  BY <1>2, Reversed
<1> HIDE DEF w, n
<1>6. /\ toInteger(f, v) \in Seq(Byte) /\ Len(toInteger(f, v)) = n
      /\ \A i \in 1..n : toInteger(f, v)[i] =
           IF i <= n - w THEN signByte(f, v) ELSE Reverse(v)[i - (n - w)]
  <2>1. n \in Nat /\ n >= Len(Reverse(v)) BY <1>1, <1>5
  <2>2. QED BY <1>3, <1>4, <1>5, <2>1, Widened, SMTT(30)
<1>7. ASSUME NEW i \in 1..n, ~(i <= n - w) PROVE Reverse(v)[i - (n - w)] = v[n - i + 1]
  <2>1. i - (n - w) \in 1..w /\ w - (i - (n - w)) + 1 = n - i + 1 BY <1>1, <1>7
  <2>2. QED BY <1>5, <2>1
<1>8. \A i \in 1..n : toInteger(f, v)[i] = IF i <= n - w THEN signByte(f, v) ELSE v[n - i + 1]
  BY <1>6, <1>7
<1>9. QED BY <1>2, <1>3, <1>6, <1>8 DEF w, n, WidenedRight

(* The store finds that the integer fits, and takes back MySQL's bytes.    *)
LEMMA IntegerSurvives ==
  ASSUME NEW f, IsField(f), Plain(f), ~Shifted(f), NEW v, IsValue(f, v)
  PROVE  fromInteger(f, toInteger(f, v)) = v
<1> DEFINE w == Width[f.type]
           n == db2Width(f)
           d == toInteger(f, v)
           high == SubSeq(d, 1, Len(d) - w)
           low == SubSeq(d, Len(d) - w + 1, Len(d))
           sign == IF ~f.unsigned /\ d[1] > 127 THEN 255 ELSE 0
<1>1. w \in 1..8 /\ n \in 1..8 /\ n >= w /\ (f.unsigned => n > w) BY Widths
<1>2. /\ v \in Seq(Byte) /\ Len(v) = w /\ d \in Seq(Byte) /\ Len(d) = n
      /\ \A i \in 1..n : d[i] = IF i <= n - w THEN signByte(f, v) ELSE v[n - i + 1]
  <2>1. WidenedRight(f, v) BY Given
  <2>2. QED BY <2>1 DEF WidenedRight
<1>3. sign = signByte(f, v)
  <2>1. CASE n > w
    <3>1. 1 \in 1..n /\ 1 <= n - w BY <1>1, <2>1
    <3>3. d[1] = signByte(f, v) BY <1>2, <3>1
    <3>2. QED BY <3>3 DEF signByte
  <2>2. CASE n = w
    <3>1. 1 \in 1..n /\ ~(1 <= n - w) /\ n - 1 + 1 = Len(v) BY <1>1, <1>2, <2>2, SMTT(30)
    <3>2. d[1] = v[Len(v)] BY <1>2, <3>1
    <3>3. QED BY <3>2 DEF signByte
  <2>3. QED BY <1>1, <2>1, <2>2
<1>4. Len(high) = n - w /\ \A i \in 1..n - w : high[i] = sign
  <2> HIDE DEF w, n, d, sign
  <2>1. Len(high) = n - w /\ \A i \in 1..n - w : high[i] = d[i] BY <1>1, <1>2
  <2>2. QED BY <1>1, <1>2, <1>3, <2>1
<1>5. low \in Seq(Byte) /\ Len(low) = w /\ \A i \in 1..w : low[i] = v[w - i + 1]
  <2> HIDE DEF w, n, d, sign
  <2>1. low \in Seq(Byte) /\ Len(low) = w /\ \A i \in 1..w : low[i] = d[n - w + i] BY <1>1, <1>2
  <2>2. ASSUME NEW i \in 1..w PROVE d[n - w + i] = v[w - i + 1]
    <3>1. n - w + i \in 1..n /\ ~(n - w + i <= n - w) /\ n - (n - w + i) + 1 = w - i + 1 BY <1>1
    <3>2. QED BY <1>2, <3>1
  <2>3. QED BY <2>1, <2>2
<1>6. f.unsigned \/ (low[1] > 127) = (sign = 255)
  <2>1. 1 \in 1..w /\ w - 1 + 1 = Len(v) BY <1>1, <1>2
  <2>2. low[1] = v[Len(v)] BY <1>5, <2>1
  <2> HIDE DEF low, sign
  <2>3. QED BY <1>3, <2>2 DEF signByte
<1>7. Reverse(low) = v
  <2> HIDE DEF w, low
  <2>1. /\ Reverse(low) \in Seq(Byte) /\ Len(Reverse(low)) = w
        /\ \A i \in 1..w : Reverse(low)[i] = low[w - i + 1]
    BY <1>5, Reversed
  <2>2. ASSUME NEW i \in 1..w PROVE Reverse(low)[i] = v[i]
    <3>1. w - i + 1 \in 1..w /\ w - (w - i + 1) + 1 = i BY <1>1
    <3>2. QED BY <1>5, <2>1, <3>1
  <2>3. QED BY <1>2, <2>1, <2>2
<1>8. QED
  <2>1. \A i \in 1..Len(high) : high[i] = sign BY <1>4
  <2> HIDE DEF high, low, sign
  <2>2. (/\ \A i \in 1..Len(high) : high[i] = sign
         /\ f.unsigned \/ (low[1] > 127) = (sign = 255)) BY <2>1, <1>6
  <2>3. fromInteger(f, d) = Reverse(low) BY <2>2 DEF fromInteger, high, low, sign
  <2>4. QED BY <1>7, <2>3

-----------------------------------------------------------------------------
(* Packed decimals: what fits of the digits comes back.                    *)
Digits == 0..9

(* A number has the digits of its field, those for DB2 and those beyond.   *)
LEMMA NumberTypes ==
  ASSUME NEW f, IsField(f), Packed(f), Supported(f), NEW v, IsValue(f, v)
  PROVE  /\ v = [neg |-> v.neg, digits |-> v.digits] /\ v.neg \in BOOLEAN
         /\ v.digits \in Seq(Digits) /\ Len(v.digits) = f.precision
         /\ f.precision \in Nat \ {0} /\ f.scale \in 0..f.precision
         /\ truncationAmount(f) \in Nat /\ db2Precision(f) \in Nat \ {0}
         /\ db2Precision(f) + truncationAmount(f) = f.precision
         /\ truncationAmount(f) = 0 \/ truncationAmount(f) < f.scale
         /\ v.neg => \E i \in 1..f.precision : v.digits[i] # 0
<1>1. IsNumber(f, v) BY DEF IsValue, Packed, Integers_, Width
<1>2. /\ v \in [neg : BOOLEAN, digits : Seq(Digits)] /\ Len(v.digits) = f.precision
      /\ v.neg => \E i \in 1..f.precision : v.digits[i] # 0
  BY <1>1 DEF IsNumber, Digits
<1>3. f.precision \in Nat \ {0} /\ f.scale \in 0..f.precision
  BY DEF IsField, Packed
<1>4. /\ truncationAmount(f) \in Nat /\ db2Precision(f) \in Nat \ {0}
      /\ db2Precision(f) + truncationAmount(f) = f.precision
      /\ truncationAmount(f) = 0 \/ truncationAmount(f) < f.scale
  <2>1. CASE f.type = "NEWDECIMAL"
    BY <2>1, <1>3, ConversionAssumption DEF truncationAmount, db2Precision, Supported
  <2>2. CASE f.type # "NEWDECIMAL"
    BY <2>2, <1>3 DEF truncationAmount, db2Precision, Packed, IsField
  <2>3. QED BY <2>1, <2>2
<1>5. QED BY <1>2, <1>3, <1>4

(* val_str leaves out zeros in front of the point, and no other digits.    *)
LEMMA Shown ==
  ASSUME NEW f, NEW v, v.digits \in Seq(Digits), f.scale \in 0..Len(v.digits)
  PROVE  /\ shownDigits(f, v) \in Seq(Digits)
         /\ Len(shownDigits(f, v)) >= f.scale + 1
         /\ \A back \in 0..Len(v.digits) - 1 :
              v.digits[Len(v.digits) - back] =
                IF back <= Len(shownDigits(f, v)) - 1
                THEN shownDigits(f, v)[Len(shownDigits(f, v)) - back] ELSE 0
<1> DEFINE ds == v.digits
           L == Len(ds)
           whole == L - f.scale
           IsFirst(n) == (\A i \in 1..(n - 1) : ds[i] = 0) /\ (n = whole + 1 \/ ds[n] # 0)
           first == CHOOSE n \in 1..(whole + 1) : IsFirst(n)
           front == IF first > whole THEN <<0>> ELSE <<>>
           rest == SubSeq(ds, first, L)
           shown == shownDigits(f, v)
<1>1. ds \in Seq(Digits) /\ L \in Nat /\ whole \in 0..L /\ L - whole = f.scale /\ f.scale \in Nat OBVIOUS
<1>2. \E n \in 1..(whole + 1) : IsFirst(n)
  <2>1. CASE \A i \in 1..whole : ds[i] = 0
    <3>1. IsFirst(whole + 1) BY <1>1, <2>1
    <3>2. QED BY <1>1, <3>1
  <2>2. CASE \E i \in 1..whole : ds[i] # 0
    <3> DEFINE T == {i \in 1..whole : ds[i] # 0}
    <3>1. T \in SUBSET Nat /\ T # {} BY <2>2, <1>1
    <3>2. PICK m \in T : \A k \in T : m <= k
      <4> HIDE DEF T
      <4>1. QED BY <3>1, MinNat
    <3>3. IsFirst(m) /\ m \in 1..(whole + 1) BY <1>1, <3>2
    <3>4. QED BY <3>3
  <2>3. QED BY <2>1, <2>2
<1>3. first \in 1..(whole + 1) /\ IsFirst(first) BY <1>2
<1>4. shown = front \o rest BY DEF shownDigits
<1> HIDE DEF first, shown, ds, L, whole
<1>5. rest \in Seq(Digits) /\ Len(rest) = L - first + 1 /\ \A i \in 1..L - first + 1 : rest[i] = ds[first + i - 1]
  BY <1>1, <1>3 DEF L
<1>6. front \in Seq(Digits) /\ Len(front) = IF first > whole THEN 1 ELSE 0
  <2>1. <<0>> \in Seq(Digits) /\ <<>> \in Seq(Digits) /\ Len(<<0>>) = 1 /\ Len(<<>>) = 0 BY DEF Digits
  <2>2. QED BY <2>1
<1> HIDE DEF rest
<1>7. /\ shown \in Seq(Digits) /\ Len(shown) = Len(front) + L - first + 1
      /\ \A i \in 1..Len(front) : shown[i] = 0
      /\ \A i \in 1..L - first + 1 : shown[Len(front) + i] = rest[i]
  <2>1. shown \in Seq(Digits) /\ Len(shown) = Len(front) + Len(rest) BY <1>4, <1>5, <1>6
  <2>2. \A i \in 1..Len(front) : shown[i] = 0 BY <1>4, <1>5, <1>6
  <2>3. \A i \in 1..Len(rest) : shown[Len(front) + i] = rest[i]
    <3> HIDE DEF front
    <3>1. \A i \in 1..Len(rest) : (front \o rest)[Len(front) + i] = rest[i]
      <4>1. front \in Seq(Digits) /\ rest \in Seq(Digits) BY <1>5, <1>6
      <4>2. QED BY <4>1, SecondPart, Zenon
    <3>2. QED BY <1>4, <3>1
  <2>4. QED BY <1>1, <1>3, <1>5, <1>6, <2>1, <2>2, <2>3
<1>8. Len(shown) >= f.scale + 1 BY <1>1, <1>3, <1>6, <1>7
<1>9. ASSUME NEW back \in 0..L - 1
      PROVE  ds[L - back] = IF back <= Len(shown) - 1 THEN shown[Len(shown) - back] ELSE 0
  <2>1. CASE L - back >= first
    <3>1. L - back - first + 1 \in 1..L - first + 1 /\ back <= Len(shown) - 1
      BY <1>1, <1>3, <1>6, <1>7, <2>1
    <3>2. Len(front) + (L - back - first + 1) = Len(shown) - back
          /\ first + (L - back - first + 1) - 1 = L - back
      BY <1>1, <1>3, <1>6, <1>7, <2>1
    <3>3. QED BY <1>5, <1>7, <3>1, <3>2
  <2>2. CASE L - back < first
    <3>1. ds[L - back] = 0
      <4>1. L - back \in 1..first - 1 BY <1>1, <1>3, <2>2
      <4>2. QED BY <1>3, <4>1
    <3>2. ASSUME back <= Len(shown) - 1 PROVE Len(shown) - back \in 1..Len(front)
      BY <1>1, <1>3, <1>6, <1>7, <2>2, <3>2
    <3>3. QED BY <1>7, <3>1, <3>2
  <2>3. QED BY <1>1, <1>3, <2>1, <2>2
<1>10. QED BY <1>7, <1>8, <1>9 DEF ds, L, shown

(* What is packed is unpacked again, but for the sign of a zero.           *)
LEMMA Unpacked ==
  ASSUME NEW f, IsField(f), Packed(f), Supported(f), NEW v, IsValue(f, v)
  PROVE  unpack(db2Precision(f), packedFrom(f, v)) =
           [neg |-> v.neg /\ \E i \in 1..db2Precision(f) : v.digits[i] # 0,
            digits |-> SubSeq(v.digits, 1, db2Precision(f))]
<1> DEFINE p == db2Precision(f)
           t == truncationAmount(f)
           ds == v.digits
           shown == shownDigits(f, v)
           sent == SubSeq(shown, 1, Len(shown) - t)
           N == p + ((p + 1) % 2)
           size == 2 * ((p \div 2) + 1)
           Nibble(back) == CASE back < 0 -> IF v.neg THEN 13 ELSE 15
                          [] back \in 0..(Len(sent) - 1) -> sent[Len(sent) - back]
                          [] OTHER -> 0
           nibble(n) == Nibble(N - 1 - (n - 1))
           nibbles == packedFrom(f, v)
           digits == SubSeq(nibbles, N - p + 1, N)
<1>1. /\ ds \in Seq(Digits) /\ Len(ds) = p + t /\ p \in Nat \ {0} /\ t \in Nat
      /\ f.scale \in 0..Len(ds) /\ v.neg \in BOOLEAN /\ (t = 0 \/ t < f.scale)
  BY NumberTypes
<1>2. /\ shown \in Seq(Digits) /\ Len(shown) >= f.scale + 1
      /\ \A back \in 0..Len(ds) - 1 : ds[Len(ds) - back] =
           IF back <= Len(shown) - 1 THEN shown[Len(shown) - back] ELSE 0
  BY <1>1, Shown
<1>3. N \in Nat /\ size = N + 1 /\ N >= p /\ p - (p % 2) = N - 1
  <2>1. p \in Nat BY <1>1
  <2> HIDE DEF p
  <2>2. N \in Nat /\ size = N + 1 /\ N >= p BY <2>1
  <2>3. p - (p % 2) = N - 1 BY <2>1
  <2>4. QED BY <2>2, <2>3
<1>4. nibbles = [n \in 1..size |-> nibble(n)]
  <2>1. nibbles = pack(p, v.neg, sent) BY DEF packedFrom
  <2> HIDE DEF p, sent
  <2>2. pack(p, v.neg, sent) = [n \in 1..size |->
          LET back == (p - (p % 2)) - (n - 1)
          IN CASE back < 0 -> IF v.neg THEN 13 ELSE 15
               [] back \in 0..(Len(sent) - 1) -> sent[Len(sent) - back]
               [] OTHER -> 0] BY DEF pack
  <2> HIDE DEF N
  <2>3. QED BY <1>3, <2>1, <2>2
<1>5. sent \in Seq(Digits) /\ Len(sent) = Len(shown) - t /\ \A i \in 1..Len(sent) : sent[i] = shown[i]
  BY <1>1, <1>2
<1> HIDE DEF p, t, shown, N, size, sent, nibbles
<1>6. nibbles[N + 1] = IF v.neg THEN 13 ELSE 15
  BY <1>3, <1>4
<1>7. ASSUME NEW i \in 1..p PROVE nibbles[N - p + i] = ds[i]
  <2> DEFINE back == p - i
  <2>1. N - p + i \in 1..size /\ N - 1 - (N - p + i - 1) = back /\ back \in 0..p - 1 /\ ~(back < 0)
    BY <1>1, <1>3
  <2>2. nibbles[N - p + i] = IF back \in 0..(Len(sent) - 1) THEN sent[Len(sent) - back] ELSE 0
    <3>1. nibbles[N - p + i] = nibble(N - p + i) BY <1>4, <2>1
    <3> HIDE DEF Nibble
    <3>2. N - 1 - ((N - p + i) - 1) = p - i BY <1>1, <1>3
    <3> HIDE DEF nibbles
    <3>3. nibbles[N - p + i] = Nibble(N - 1 - ((N - p + i) - 1)) BY <3>1
    <3>4. nibbles[N - p + i] = Nibble(p - i) BY <3>2, <3>3
    <3>5. Nibble(back) = IF back \in 0..(Len(sent) - 1) THEN sent[Len(sent) - back] ELSE 0
      BY <2>1 DEF Nibble
    <3>6. QED BY <3>4, <3>5
  <2>3. back + t \in 0..Len(ds) - 1 /\ Len(ds) - (back + t) = i BY <1>1, <2>1
  <2>4. ds[i] = IF back + t <= Len(shown) - 1 THEN shown[Len(shown) - (back + t)] ELSE 0
    BY <1>2, <2>3
  <2>5. (back \in 0..(Len(sent) - 1)) <=> (back + t <= Len(shown) - 1) BY <1>1, <1>2, <1>5, <2>1
  <2>6. ASSUME back \in 0..(Len(sent) - 1) PROVE sent[Len(sent) - back] = shown[Len(shown) - (back + t)]
    <3>1. Len(sent) - back \in 1..Len(sent) /\ Len(sent) - back = Len(shown) - (back + t)
      BY <1>1, <1>2, <1>5, <2>1, <2>6
    <3>2. QED BY <1>5, <3>1
  <2>7. QED BY <2>2, <2>4, <2>5, <2>6
<1>8. \A n \in 1..size : nibbles[n] \in Nat
  <2> SUFFICES ASSUME NEW n \in 1..size PROVE nibbles[n] \in Nat OBVIOUS
  <2> DEFINE back == N - 1 - (n - 1)
  <2>1. ASSUME back \in 0..(Len(sent) - 1) PROVE sent[Len(sent) - back] \in Nat
    <3>1. Len(sent) - back \in 1..Len(sent) BY <1>3, <1>5, <2>1
    <3>2. QED BY <1>5, <3>1 DEF Digits
  <2>2. QED BY <1>3, <1>4, <2>1
<1>9. nibbles \in Seq(Nat) /\ Len(nibbles) = size
  <2>1. size \in Nat BY <1>3
  <2>2. QED BY <1>4, <1>8, <2>1
<1>10. digits \in Seq(Nat) /\ Len(digits) = p /\ \A i \in 1..p : digits[i] = nibbles[N - p + i]
  BY <1>1, <1>3, <1>9
<1>11. digits = SubSeq(ds, 1, p)
  <2>1. SubSeq(ds, 1, p) \in Seq(Digits) /\ Len(SubSeq(ds, 1, p)) = p
        /\ \A i \in 1..p : SubSeq(ds, 1, p)[i] = ds[i]
    BY <1>1
  <2>2. \A i \in 1..p : digits[i] = SubSeq(ds, 1, p)[i] BY <1>7, <1>10, <2>1
  <2> HIDE DEF digits, ds
  <2>3. SubSeq(ds, 1, p) = [i \in 1..p |-> SubSeq(ds, 1, p)[i]] BY <2>1
  <2>4. digits = [i \in 1..p |-> digits[i]] BY <1>10
  <2>5. QED BY <2>2, <2>3, <2>4
<1>12. (nibbles[N + 1] = 13) = v.neg BY <1>1, <1>6
<1>13. (\E i \in 1..p : digits[i] # 0) <=> (\E i \in 1..p : ds[i] # 0) BY <1>7, <1>10
<1>14. unpack(p, nibbles) = [neg |-> nibbles[N + 1] = 13 /\ \E i \in 1..p : digits[i] # 0, digits |-> digits]
  BY DEF unpack, N
<1> HIDE DEF digits
<1>15. QED
  <2>1. (nibbles[N + 1] = 13 /\ \E i \in 1..p : digits[i] # 0) = (v.neg /\ \E i \in 1..p : ds[i] # 0)
    BY <1>12, <1>13
  <2>2. QED BY <1>11, <1>14, <2>1 DEF p, nibbles

-----------------------------------------------------------------------------
(* Which of its branches a conversion takes for a type.                    *)
LEMMA OfPacked ==
  ASSUME NEW f, IsField(f), Packed(f), NEW v, NEW d
  PROVE  /\ convertMySQLtoDB2(f, v) = packedFrom(f, v) /\ convertDB2toMySQL(f, d) = unpackedInto(f, d)
         /\ myOrder(f, v) = ofDecimal([v EXCEPT !.digits = SubSeq(@, 1, Len(@) - truncationAmount(f))])
         /\ db2Order(f, d) = ofDecimal(unpack(db2Precision(f), d))
BY DEF IsField, Packed, Integers_, Width, convertMySQLtoDB2, convertDB2toMySQL, myOrder, db2Order

LEMMA OfInteger ==
  ASSUME NEW f, IsField(f), Plain(f), NEW v, NEW d
  PROVE  /\ convertMySQLtoDB2(f, v) = toInteger(f, v) /\ convertDB2toMySQL(f, d) = fromInteger(f, d)
         /\ myOrder(f, v) = IF f.unsigned THEN Reverse(v) ELSE flipped(Reverse(v))
         /\ db2Order(f, d) = flipped(d)
BY DEF IsField, Plain, Packed, Integers_, Width, convertMySQLtoDB2, convertDB2toMySQL, myOrder, db2Order

LEMMA OfFloat ==
  ASSUME NEW f, IsField(f), f.type \in {"FLOAT", "DOUBLE"}, NEW v, NEW d
  PROVE  /\ convertMySQLtoDB2(f, v) = Reverse(v) /\ convertDB2toMySQL(f, d) = Reverse(d)
         /\ myOrder(f, v) = floating(Reverse(v))
         /\ db2Order(f, d) = floating(d)
BY DEF IsField, Packed, Integers_, Width, convertMySQLtoDB2, convertDB2toMySQL, myOrder, db2Order

LEMMA OfDate ==
  ASSUME NEW f, IsField(f), f.type \in {"DATE", "DATETIME", "TIME"}, NEW v, NEW d
  PROVE  /\ convertMySQLtoDB2(f, v) = toDate(f, v) /\ convertDB2toMySQL(f, d) = fromDate(f, d)
         /\ myOrder(f, v) = v
         /\ db2Order(f, d) = d
BY DEF IsField, Packed, Integers_, Width, convertMySQLtoDB2, convertDB2toMySQL, myOrder, db2Order

LEMMA OfYear ==
  ASSUME NEW f, IsField(f), f.type = "YEAR", NEW v, NEW d
  PROVE  /\ convertMySQLtoDB2(f, v) = toYear(f, v) /\ convertDB2toMySQL(f, d) = fromYear(f, d)
         /\ myOrder(f, v) = <<v>>
         /\ db2Order(f, d) = d
BY DEF IsField, Packed, Integers_, Width, convertMySQLtoDB2, convertDB2toMySQL, myOrder, db2Order

LEMMA OfBits ==
  ASSUME NEW f, IsField(f), f.type = "BIT", NEW v, NEW d
  PROVE  /\ convertMySQLtoDB2(f, v) = bitsOfRow(f, v) /\ convertDB2toMySQL(f, d) = fromBits(f, d)
         /\ myOrder(f, v) = v
         /\ db2Order(f, d) = d
BY DEF IsField, Packed, Integers_, Width, convertMySQLtoDB2, convertDB2toMySQL, myOrder, db2Order

(* There is no other kind of field.                                        *)
LEMMA Kinds ==
  ASSUME NEW f, IsField(f)
  PROVE  \/ Packed(f) \/ Plain(f) \/ f.type \in {"FLOAT", "DOUBLE"}
         \/ f.type \in {"DATE", "DATETIME", "TIME"} \/ f.type = "YEAR" \/ f.type = "BIT"
BY DEF IsField, Plain, Packed, Integers_, Width

(* What is a value of which kind.                                          *)
LEMMA KindOfValue ==
  ASSUME NEW f, IsField(f), NEW v, IsValue(f, v)
  PROVE  /\ f.type \in {"FLOAT", "DOUBLE"} => v \in Seq(Byte)
         /\ f.type \in {"DATE", "DATETIME", "TIME"} => IsDate(f, v)
         /\ f.type = "YEAR" => v \in Byte
         /\ f.type = "BIT" => v \in Seq(Byte) /\ Len(v) = (f.bits + 7) \div 8
<1>1. ASSUME f.type \in {"FLOAT", "DOUBLE", "DATE", "DATETIME", "TIME", "YEAR", "BIT"}
      PROVE  ~Packed(f) /\ f.type \notin Integers_
  BY <1>1 DEF Packed, Integers_, Width
<1>2. CASE f.type \in {"FLOAT", "DOUBLE"}
  <2>1. IsBytes(v, IF f.type = "FLOAT" THEN 4 ELSE 8) BY <1>1, <1>2 DEF IsValue
  <2>2. QED BY <1>2, <2>1 DEF IsBytes, Byte
<1>3. CASE f.type \in {"DATE", "DATETIME", "TIME"}
  <2>1. IsDate(f, v) BY <1>1, <1>3 DEF IsValue
  <2>2. QED BY <1>3, <2>1
<1>4. CASE f.type = "YEAR"
  <2>1. v \in 0..255 BY <1>1, <1>4 DEF IsValue
  <2>2. QED BY <1>4, <2>1 DEF Byte
<1>5. CASE f.type = "BIT"
  <2>1. IsBytes(v, (f.bits + 7) \div 8) BY <1>1, <1>5 DEF IsValue
  <2>2. QED BY <1>5, <2>1 DEF IsBytes, Byte
<1>6. CASE f.type \notin {"FLOAT", "DOUBLE", "DATE", "DATETIME", "TIME", "YEAR", "BIT"} BY <1>6
<1>7. QED BY <1>2, <1>3, <1>4, <1>5, <1>6

-----------------------------------------------------------------------------
(* Every value comes back.                                                 *)
LEMMA DecimalSurvives ==
  ASSUME NEW f, IsField(f), Packed(f), Supported(f), NEW v, IsValue(f, v)
  PROVE  unpackedInto(f, packedFrom(f, v)) = kept(f, v)
<1> DEFINE p == db2Precision(f)
           t == truncationAmount(f)
           shown == SubSeq(v.digits, 1, p)
           nonzero == \E i \in 1..p : v.digits[i] # 0
<1>1. /\ v = [neg |-> v.neg, digits |-> v.digits] /\ v.neg \in BOOLEAN
      /\ v.digits \in Seq(Digits) /\ Len(v.digits) = p + t
      /\ t \in Nat /\ p \in Nat \ {0}
      /\ v.neg => \E i \in 1..(p + t) : v.digits[i] # 0
  BY NumberTypes
<1>2. unpackedInto(f, packedFrom(f, v)) = [neg |-> v.neg /\ nonzero, digits |-> shown \o Few(t, 0)]
  <2> DEFINE number == unpack(p, packedFrom(f, v))
  <2>1. number = [neg |-> v.neg /\ nonzero, digits |-> shown] BY Unpacked
  <2>2. unpackedInto(f, packedFrom(f, v)) = [number EXCEPT !.digits = @ \o Few(t, 0)]
    BY DEF unpackedInto
  <2> HIDE DEF p, t, shown, number
  <2>3. /\ number = [neg |-> number.neg, digits |-> number.digits]
        /\ number.neg = (v.neg /\ nonzero) /\ number.digits = shown
    BY <2>1
  <2>4. unpackedInto(f, packedFrom(f, v)) = [neg |-> number.neg, digits |-> number.digits \o Few(t, 0)]
    BY <2>2, <2>3
  <2>5. QED BY <2>3, <2>4
<1>3. shown \in Seq(Digits) /\ Len(shown) = p /\ \A i \in 1..p : shown[i] = v.digits[i]
  BY <1>1
<1>4. CASE t > 0
  <2>1. f.type = "NEWDECIMAL" BY <1>4 DEF truncationAmount
  <2>2. kept(f, v) = [neg |-> v.neg /\ \E i \in DOMAIN shown : shown[i] # 0, digits |-> shown \o Few(t, 0)]
    BY <1>4, <2>1 DEF kept
  <2>3. (\E i \in DOMAIN shown : shown[i] # 0) <=> nonzero
    <3>1. DOMAIN shown = 1..p BY <1>3
    <3> HIDE DEF shown
    <3>2. QED BY <1>3, <3>1
  <2>4. (v.neg /\ \E i \in DOMAIN shown : shown[i] # 0) = (v.neg /\ nonzero) BY <2>3
  <2> HIDE DEF shown, nonzero
  <2>5. QED BY <1>2, <2>2, <2>4
<1>5. CASE t = 0
  <2>1. kept(f, v) = v BY <1>5 DEF kept
  <2>2. Few(t, 0) = <<>> BY <1>5 DEF Few
  <2>3. shown \o Few(t, 0) = shown BY <1>3, <2>2
  <2>4. shown = v.digits BY <1>1, <1>5
  <2>5. (v.neg /\ nonzero) = v.neg BY <1>1, <1>5
  <2> HIDE DEF shown, nonzero
  <2>6. QED BY <1>1, <1>2, <2>1, <2>3, <2>4, <2>5
<1>6. QED BY <1>1, <1>4, <1>5

(* The zero date goes as the first day there is, which no other date is.   *)
DateBack(f, v) == fromDate(f, toDate(f, v)) = v
LEMMA DateParts ==
  ASSUME NEW f, f.type \in {"DATE", "DATETIME", "TIME"}, NEW v, IsDate(f, v)
  PROVE  /\ v \in Seq(Nat) /\ Len(v) \in {3, 6}
         /\ date(v) = <<v[1], v[2], v[3]>>
         /\ isZeroDate(f, v) => f.type # "TIME" /\ \A i \in 1..Len(v) : v[i] = 0
         /\ ~isZeroDate(f, v) => f.type = "TIME" \/ v[1] > 1
         /\ isZeroDate(f, v) => /\ toDate(f, v) \in Seq(Nat) /\ Len(toDate(f, v)) = Len(v)
                                /\ \A i \in 1..Len(v) : toDate(f, v)[i] = IF i <= 3 THEN 1 ELSE 0
         /\ ~isZeroDate(f, v) => toDate(f, v) = v
<1>1. v \in Seq(Nat) /\ Len(v) \in {3, 6} /\ (f.type \in {"DATE", "DATETIME"} => isZeroDate(f, v) \/ v[1] > 1)
  BY SMTT(30) DEF IsDate
<1> DEFINE n == Len(v)
<1>0. n \in Nat /\ n >= 3 /\ v \in Seq(Nat) BY <1>1, SMTT(30)
<1>2. date(v) = <<v[1], v[2], v[3]>>
  <2>1. \A i \in 1..3 : v[i] \in Nat BY <1>0
  <2>2. /\ SubSeq(v, 1, 3) \in Seq(Nat) /\ Len(SubSeq(v, 1, 3)) = 3
        /\ \A i \in 1..3 : SubSeq(v, 1, 3)[i] = v[i]
    BY <2>1
  <2>3. /\ SubSeq(v, 1, 3)[1] = v[1] /\ SubSeq(v, 1, 3)[2] = v[2] /\ SubSeq(v, 1, 3)[3] = v[3]
        /\ v[1] \in Nat /\ v[2] \in Nat /\ v[3] \in Nat
    BY <2>1, <2>2
  <2>4. <<v[1], v[2], v[3]>> \in Seq(Nat) /\ Len(<<v[1], v[2], v[3]>>) = 3 BY <2>3
  <2>5. date(v) = SubSeq(v, 1, 3) BY DEF date
  <2> DEFINE three == SubSeq(v, 1, 3)
  <2>6. three = <<three[1], three[2], three[3]>>
    <3> HIDE DEF three
    <3>1. QED BY <2>2, Triple DEF three
  <2>7. QED BY <2>3, <2>5, <2>6
<1>3. ASSUME isZeroDate(f, v) PROVE f.type # "TIME" /\ \A i \in 1..Len(v) : v[i] = 0
  <2>1. <<v[1], v[2], v[3]>> = <<0, 0, 0>> /\ f.type \in {"DATE", "DATETIME"} /\ midnight(v)
    BY <1>2, <1>3 DEF isZeroDate, ZERO_DATE_VALUE
  <2>2. v[1] = 0 /\ v[2] = 0 /\ v[3] = 0 BY <2>1
  <2>3. QED BY <1>1, <2>1, <2>2 DEF midnight
<1>4. ASSUME isZeroDate(f, v)
      PROVE  /\ toDate(f, v) \in Seq(Nat) /\ Len(toDate(f, v)) = Len(v)
             /\ \A i \in 1..Len(v) : toDate(f, v)[i] = IF i <= 3 THEN 1 ELSE 0
  <2> DEFINE rest == SubSeq(v, 4, Len(v))
  <2>1. rest \in Seq(Nat) /\ Len(rest) = Len(v) - 3 /\ \A i \in 1..Len(v) - 3 : rest[i] = v[i + 3]
    <3>1. \A i \in 4..n : v[i] \in Nat BY <1>0
    <3>2. /\ rest \in Seq(Nat) /\ Len(rest) = IF 4 <= n THEN n - 4 + 1 ELSE 0
          /\ \A i \in 1..n - 4 + 1 : rest[i] = v[4 + i - 1]
      BY <1>0, <3>1, SubSeqProperties
    <3> HIDE DEF rest
    <3> HIDE DEF n
    <3>3. n - 4 + 1 = n - 3 /\ Len(rest) = n - 3
      <4>1. Len(rest) = IF 4 <= n THEN n - 4 + 1 ELSE 0 BY <3>2
      <4>2. n - 4 + 1 = n - 3 BY <1>0
      <4>3. ~(4 <= n) => n - 3 = 0 BY <1>0
      <4>4. QED BY <4>1, <4>2, <4>3
    <3>4. ASSUME NEW i \in 1..n - 3 PROVE rest[i] = v[i + 3]
      <4>1. 4 + i - 1 = i + 3 OBVIOUS
      <4>2. QED BY <3>2, <3>3, <4>1
    <3>5. QED BY <3>2, <3>3, <3>4 DEF n
  <2>2. toDate(f, v) = <<1, 1, 1>> \o rest BY <1>4 DEF toDate, ZERO_DATE_VALUE_SUBST
  <2> HIDE DEF rest
  <2>3. <<1, 1, 1>> \in Seq(Nat) /\ Len(<<1, 1, 1>>) = 3 /\ \A i \in 1..3 : <<1, 1, 1>>[i] = 1 OBVIOUS
  <2>4. toDate(f, v) \in Seq(Nat) /\ Len(toDate(f, v)) = Len(v)
        /\ \A i \in 1..Len(v) : toDate(f, v)[i] = IF i <= 3 THEN 1 ELSE rest[i - 3]
    BY <1>1, <2>1, <2>2, <2>3, SMTT(30)
  <2>5. \A i \in 4..Len(v) : rest[i - 3] = 0 BY <1>1, <1>3, <1>4, <2>1
  <2>6. QED BY <1>1, <2>4, <2>5
<1>5. QED BY <1>1, <1>2, <1>3, <1>4 DEF toDate

(* A date comes back, the zero date by way of the first day there is.      *)
LEMMA DateSurvives ==
  ASSUME NEW f, IsField(f), f.type \in {"DATE", "DATETIME", "TIME"}, NEW v, IsDate(f, v), ~Refuses(f, v)
  PROVE  fromDate(f, toDate(f, v)) = v
<1> DEFINE d == toDate(f, v)
           n == Len(v)
<1>1. v \in Seq(Nat) /\ n \in {3, 6} /\ n \in Nat BY DateParts
<1>2. CASE isZeroDate(f, v)
  <2>1. /\ f.type # "TIME" /\ \A i \in 1..n : v[i] = 0
        /\ d \in Seq(Nat) /\ Len(d) = n /\ \A i \in 1..n : d[i] = IF i <= 3 THEN 1 ELSE 0
    BY <1>2, DateParts
  <2>2. f.zero = "SUBSTITUTE_0001_01_01" BY <1>2, <2>1 DEF Refuses, IsField
  <2> HIDE DEF d, n
  <2>3. SubSeq(d, 1, 3) \in Seq(Nat) /\ Len(SubSeq(d, 1, 3)) = 3 /\ \A i \in 1..3 : SubSeq(d, 1, 3)[i] = 1
    <3>1. \A i \in 1..3 : d[i] = 1 BY <1>1, <2>1
    <3>2. QED BY <3>1, SubSeqProperties
  <2>4. date(d) = ZERO_DATE_VALUE_SUBST
    <3>1. date(d) = <<date(d)[1], date(d)[2], date(d)[3]>> BY <2>3, Triple DEF date
    <3>2. date(d)[1] = 1 /\ date(d)[2] = 1 /\ date(d)[3] = 1 BY <2>3 DEF date
    <3>3. QED BY <3>1, <3>2 DEF ZERO_DATE_VALUE_SUBST
  <2>5. midnight(d) BY <1>1, <2>1 DEF midnight
  <2> DEFINE rest == SubSeq(d, 4, Len(d))
  <2>6. rest \in Seq(Nat) /\ Len(rest) = n - 3 /\ \A i \in 1..n - 3 : rest[i] = 0
    <3>1. \A i \in 4..n : d[i] = 0 BY <1>1, <2>1
    <3>2. /\ rest \in Seq(Nat) /\ Len(rest) = IF 4 <= n THEN n - 4 + 1 ELSE 0
          /\ \A i \in 1..n - 4 + 1 : rest[i] = d[4 + i - 1]
      BY <1>1, <2>1, <3>1, SubSeqProperties
    <3> HIDE DEF rest
    <3>3. n - 4 + 1 = n - 3 /\ Len(rest) = n - 3
      <4>1. Len(rest) = IF 4 <= n THEN n - 4 + 1 ELSE 0 BY <3>2
      <4>2. n - 4 + 1 = n - 3 BY <1>1
      <4>3. ~(4 <= n) => n - 3 = 0 BY <1>1
      <4>4. QED BY <4>1, <4>2, <4>3
    <3>4. ASSUME NEW i \in 1..n - 3 PROVE rest[i] = 0
      <4>1. 4 + i - 1 \in 4..n BY <1>1
      <4>2. QED BY <3>1, <3>2, <3>3, <4>1
    <3>5. QED BY <3>2, <3>3, <3>4
  <2>7. fromDate(f, d) = ZERO_DATE_VALUE \o rest BY <2>1, <2>2, <2>4, <2>5 DEF fromDate
  <2> HIDE DEF rest
  <2>8. ZERO_DATE_VALUE \in Seq(Nat) /\ Len(ZERO_DATE_VALUE) = 3 /\ \A i \in 1..3 : ZERO_DATE_VALUE[i] = 0
    BY DEF ZERO_DATE_VALUE
  <2>9. /\ ZERO_DATE_VALUE \o rest \in Seq(Nat) /\ Len(ZERO_DATE_VALUE \o rest) = n
        /\ \A i \in 1..n : (ZERO_DATE_VALUE \o rest)[i] = 0
    <3> DEFINE zero == ZERO_DATE_VALUE
    <3> HIDE DEF zero
    <3>1. /\ zero \o rest \in Seq(Nat) /\ Len(zero \o rest) = Len(zero) + Len(rest)
          /\ \A i \in 1..Len(zero) + Len(rest) :
               (zero \o rest)[i] = IF i <= Len(zero) THEN zero[i] ELSE rest[i - Len(zero)]
      BY <2>6, <2>8, ConcatProperties DEF zero
    <3>2. Len(zero) = 3 /\ Len(rest) = n - 3 /\ Len(zero) + Len(rest) = n BY <1>1, <2>6, <2>8 DEF zero
    <3>3. ASSUME NEW i \in 1..n PROVE (zero \o rest)[i] = 0
      <4>1. CASE i <= 3 BY <2>8, <3>1, <3>2, <4>1 DEF zero
      <4>2. CASE ~(i <= 3)
        <5>1. i - 3 \in 1..n - 3 BY <1>1, <4>2
        <5>2. QED BY <2>6, <3>1, <3>2, <4>2, <5>1
      <4>3. QED BY <4>1, <4>2
    <3>4. QED BY <3>1, <3>2, <3>3 DEF zero
  <2>10. v \in Seq(Nat) /\ Len(v) = n /\ \A i \in 1..n : v[i] = 0 BY <1>1, <2>1 DEF n
  <2> DEFINE back == ZERO_DATE_VALUE \o rest
  <2>11. back = v
    <3> HIDE DEF back
    <3>1. back \in Seq(Nat) /\ Len(back) = n /\ \A i \in 1..n : back[i] = 0 BY <2>9, SMTT(30) DEF back
    <3>2. back = [i \in 1..n |-> back[i]] /\ v = [i \in 1..n |-> v[i]] BY <2>10, <3>1
    <3>3. QED BY <2>10, <3>1, <3>2
  <2>12. QED BY <2>7, <2>11 DEF d
<1>3. CASE ~isZeroDate(f, v)
  <2>1. d = v /\ date(v) = <<v[1], v[2], v[3]>> /\ (f.type = "TIME" \/ v[1] > 1) BY <1>3, DateParts
  <2>2. f.type # "TIME" => date(v) # ZERO_DATE_VALUE_SUBST
    <3> SUFFICES ASSUME f.type # "TIME", date(v) = ZERO_DATE_VALUE_SUBST PROVE FALSE OBVIOUS
    <3>1. <<v[1], v[2], v[3]>> = <<1, 1, 1>> BY <2>1 DEF ZERO_DATE_VALUE_SUBST
    <3>2. v[1] = 1 BY <3>1
    <3>3. QED BY <2>1, <3>2
  <2>3. QED BY <2>1, <2>2 DEF fromDate
<1>4. QED BY <1>2, <1>3

(* The four digits, or the two bytes, of a year.                           *)
(* Years, their digits and their bytes.                                    *)
Years == 0..2155
LEMMA YearParts ==
  ASSUME NEW v \in Byte
  PROVE  /\ year(v) \in Years /\ (IF year(v) = 0 THEN 0 ELSE year(v) - 1900) = v
         /\ \A u \in Byte : (v < u <=> year(v) < year(u)) /\ (v = u <=> year(v) = year(u))
BY DEF year, Byte, Years

HaveDigits(y) ==
  /\ (y \div 1000) \in 0..9 /\ ((y \div 100) % 10) \in 0..9
  /\ ((y \div 10) % 10) \in 0..9 /\ (y % 10) \in 0..9
  /\ (y \div 1000) * 1000 + ((y \div 100) % 10) * 100 + ((y \div 10) % 10) * 10 + (y % 10) = y
LEMMA FourDigits ==
  ASSUME NEW y \in Years
  PROVE  HaveDigits(y)
<1>0. y \in 0..2155 BY DEF Years
<1>1. y = 10 * (y \div 10) + (y % 10) /\ (y % 10) \in 0..9 /\ (y \div 10) \in 0..215 BY <1>0, SMTT(30)
<1>2. (y \div 100) = ((y \div 10) \div 10) /\ (y \div 100) \in 0..21 BY <1>0, SMTT(30)
<1>3. (y \div 10) = 10 * (y \div 100) + ((y \div 10) % 10) /\ ((y \div 10) % 10) \in 0..9 BY <1>1, <1>2, SMTT(30)
<1>4. (y \div 1000) = ((y \div 100) \div 10) /\ (y \div 1000) \in 0..2
  <2> DEFINE q3 == y \div 1000
             q2 == y \div 100
             e == q2 \div 10
  <2>1. q3 \in Int /\ 1000 * q3 <= y /\ y < 1000 * q3 + 1000 BY <1>0
  <2>2. q2 \in Int /\ 100 * q2 <= y /\ y < 100 * q2 + 100 BY <1>0
  <2> HIDE DEF q2, q3
  <2>3. e \in Int /\ 10 * e <= q2 /\ q2 < 10 * e + 10 BY <2>2
  <2> HIDE DEF e
  <2>6. y \in Int /\ 0 <= y /\ y <= 2155 BY <1>0
  <2>7. 1000 * e <= y /\ y < 1000 * e + 1000 BY <2>2, <2>3, <2>6
  <2>4. e = q3 /\ q3 \in 0..2 BY <2>1, <2>3, <2>6, <2>7
  <2>5. QED BY <2>4 DEF q2, q3, e
<1>5. (y \div 100) = 10 * (y \div 1000) + ((y \div 100) % 10) /\ ((y \div 100) % 10) \in 0..9 BY <1>2, <1>4
<1>6. QED BY <1>1, <1>3, <1>4, <1>5 DEF HaveDigits

LEMMA TwoBytes ==
  ASSUME NEW y \in Years
  PROVE  /\ (y \div 256) \in Byte /\ (y % 256) \in Byte /\ (y \div 256) * 256 + (y % 256) = y
BY DEF Byte, Years

(* A year comes back from its digits and from its bytes.                   *)
LEMMA YearSurvives ==
  ASSUME NEW f, NEW v \in Byte
  PROVE  fromYear(f, toYear(f, v)) = v
<1>1. year(v) \in Years /\ (IF year(v) = 0 THEN 0 ELSE year(v) - 1900) = v BY YearParts
<1>2. CASE f.db2 = "CHAR4"
  <2> DEFINE a == year(v) \div 1000
             b == (year(v) \div 100) % 10
             c == (year(v) \div 10) % 10
             d == year(v) % 10
  <2>1. toYear(f, v) = <<a, b, c, d>> BY <1>2 DEF toYear
  <2>2. a * 1000 + b * 100 + c * 10 + d = year(v)
    <3>1. HaveDigits(year(v)) BY <1>1, FourDigits
    <3>2. QED BY <3>1 DEF HaveDigits
  <2> DEFINE y == <<a, b, c, d>>
  <2> HIDE DEF a, b, c, d
  <2>3. y[1] = a /\ y[2] = b /\ y[3] = c /\ y[4] = d OBVIOUS
  <2> HIDE DEF y
  <2> DEFINE m == IF f.db2 = "CHAR4" THEN y[1] * 1000 + y[2] * 100 + y[3] * 10 + y[4]
                  ELSE y[1] * 256 + y[2]
  <2>4. fromYear(f, y) = IF m = 0 THEN 0 ELSE m - 1900 BY DEF fromYear
  <2>7. m = y[1] * 1000 + y[2] * 100 + y[3] * 10 + y[4] BY <1>2
  <2>8. y[1] * 1000 + y[2] * 100 + y[3] * 10 + y[4] = a * 1000 + b * 100 + c * 10 + d BY <2>3
  <2> HIDE DEF m
  <2>9. m = year(v) BY <2>2, <2>7, <2>8
  <2>5. fromYear(f, y) = IF year(v) = 0 THEN 0 ELSE year(v) - 1900 BY <2>4, <2>9
  <2>6. QED BY <1>1, <2>1, <2>5 DEF y
<1>3. CASE f.db2 # "CHAR4"
  <2> DEFINE a == year(v) \div 256
             b == year(v) % 256
  <2>1. toYear(f, v) = <<a, b>> BY <1>3 DEF toYear
  <2>2. a * 256 + b = year(v) BY <1>1, TwoBytes
  <2> DEFINE y == <<a, b>>
  <2> HIDE DEF a, b
  <2>3. y[1] = a /\ y[2] = b OBVIOUS
  <2> HIDE DEF y
  <2> DEFINE m == IF f.db2 = "CHAR4" THEN y[1] * 1000 + y[2] * 100 + y[3] * 10 + y[4]
                  ELSE y[1] * 256 + y[2]
  <2>4. fromYear(f, y) = IF m = 0 THEN 0 ELSE m - 1900 BY DEF fromYear
  <2>7. m = y[1] * 256 + y[2] BY <1>3
  <2>8. y[1] * 256 + y[2] = a * 256 + b BY <2>3
  <2> HIDE DEF m
  <2>9. m = year(v) BY <2>2, <2>7, <2>8
  <2>5. fromYear(f, y) = IF year(v) = 0 THEN 0 ELSE year(v) - 1900 BY <2>4, <2>9
  <2>6. QED BY <1>1, <2>1, <2>5 DEF y
<1>4. QED BY <1>2, <1>3

(* Bits in a row, where there may be a byte too many in front.             *)
LEMMA BytesOfBits ==
  ASSUME NEW k \in 1..63
  PROVE  /\ (k + 7) \div 8 \in 1..8 /\ (k \div 8) + 1 \in {(k + 7) \div 8, ((k + 7) \div 8) + 1}
         /\ (k \div 8) + 1 \in 1..8
         /\ (k \div 8) + 1 = ((k + 7) \div 8) + 1 <=> k % 8 = 0
OBVIOUS

(* The last bytes of a widened number are the number's.                    *)
LEMMA LastBytes ==
  ASSUME NEW v \in Seq(Byte), NEW b \in Nat, Len(v) >= 1, b \in {Len(v), Len(v) + 1}, b <= 8
  PROVE  LET d == SubSeq(Wider(v, 8, 0), 9 - b, 8)
         IN d \in Seq(Byte) /\ Len(d) = b /\ \A i \in 1..Len(v) : d[b - Len(v) + i] = v[i]
<1> DEFINE n == Len(v)
           number == Wider(v, 8, 0)
<1>1. n \in Nat /\ n <= 8 /\ n >= 1 OBVIOUS
<1>2. number \in Seq(Byte) /\ Len(number) = 8
      /\ \A i \in 1..8 : number[i] = IF i <= 8 - n THEN 0 ELSE v[i - (8 - n)]
  <2>1. PICK N \in Nat : N = 8 OBVIOUS
  <2>2. PICK z \in Byte : z = 0 BY DEF Byte
  <2>3. N >= Len(v) BY <1>1, <2>1
  <2>4. /\ Wider(v, N, z) \in Seq(Byte) /\ Len(Wider(v, N, z)) = N
        /\ \A i \in 1..N : Wider(v, N, z)[i] = IF i <= N - Len(v) THEN z ELSE v[i - (N - Len(v))]
    BY <2>3, Widened
  <2>5. QED BY <2>1, <2>2, <2>4
<1> HIDE DEF n, number
<1>3. SubSeq(number, 9 - b, 8) \in Seq(Byte) /\ Len(SubSeq(number, 9 - b, 8)) = b
      /\ \A i \in 1..b : SubSeq(number, 9 - b, 8)[i] = number[8 - b + i]
  <2>1. \A i \in 9 - b..8 : number[i] \in Byte
    <3>1. 9 - b \in Nat /\ 9 - b >= 1 BY <1>1 DEF n
    <3>2. number \in Seq(Byte) /\ Len(number) = 8 BY <1>2
    <3>3. \A i \in 9 - b..8 : i \in 1..8 BY <3>1
    <3>4. \A i \in 1..8 : number[i] \in Byte
      <4>1. \A i \in 1..Len(number) : number[i] \in Byte
        <5>1. number \in Seq(Byte) BY <3>2
        <5>2. QED BY <5>1, ElementOfSeq, Zenon
      <4>2. QED BY <3>2, <4>1
    <3>5. QED BY <3>3, <3>4
  <2>2. /\ SubSeq(number, 9 - b, 8) \in Seq(Byte)
        /\ Len(SubSeq(number, 9 - b, 8)) = IF 9 - b <= 8 THEN 8 - (9 - b) + 1 ELSE 0
        /\ \A i \in 1..8 - (9 - b) + 1 : SubSeq(number, 9 - b, 8)[i] = number[9 - b + i - 1]
    BY <1>1, <2>1, SubSeqProperties
  <2>3. 9 - b <= 8 /\ 8 - (9 - b) + 1 = b /\ \A i \in 1..b : 9 - b + i - 1 = 8 - b + i BY <1>1 DEF n
  <2>4. QED BY <2>2, <2>3
<1>4. ASSUME NEW i \in 1..n PROVE number[8 - b + (b - n + i)] = v[i] /\ b - n + i \in 1..b
  <2>1. 8 - b + (b - n + i) \in 1..8 /\ ~(8 - b + (b - n + i) <= 8 - n)
        /\ 8 - b + (b - n + i) - (8 - n) = i /\ b - n + i \in 1..b BY <1>1 DEF n
  <2> DEFINE j == 8 - b + (b - n + i)
  <2>2. j \in 1..8 /\ ~(j <= 8 - n) /\ j - (8 - n) = i BY <1>1, <2>1
  <2> HIDE DEF j
  <2>3. number[j] = v[j - (8 - n)] BY <1>2, <2>2
  <2>4. number[j] = v[i] BY <2>2, <2>3
  <2>5. QED BY <2>1, <2>4 DEF j
<1>5. QED BY <1>3, <1>4 DEF n, number

(* A row's bits are the value's bytes, behind one more if the bits fill    *)
(* their bytes.                                                            *)
LEMMA RowBits ==
  ASSUME NEW f, f.bits \in 1..63, NEW v \in Seq(Byte), Len(v) = (f.bits + 7) \div 8
  PROVE  /\ bitsOfRow(f, v) \in Seq(Byte) /\ Len(bitsOfRow(f, v)) = bytesToCopy(f)
         /\ Len(v) \in 1..8 /\ bytesToCopy(f) \in {Len(v), Len(v) + 1} /\ bytesToCopy(f) <= 8
         /\ bytesToCopy(f) = Len(v) + 1 <=> f.bits % 8 = 0
         /\ \A i \in 1..Len(v) : bitsOfRow(f, v)[bytesToCopy(f) - Len(v) + i] = v[i]
<1>1. PICK k \in 1..63 : k = f.bits OBVIOUS
<1>2. bytesToCopy(f) = (k \div 8) + 1 /\ Len(v) = (k + 7) \div 8 BY <1>1 DEF bytesToCopy
<1>3. PICK b \in Nat : b = bytesToCopy(f) BY <1>2, BytesOfBits
<1>4. Len(v) \in 1..8 /\ b \in {Len(v), Len(v) + 1} /\ b <= 8 /\ (b = Len(v) + 1 <=> f.bits % 8 = 0)
  <2>1. (k + 7) \div 8 \in 1..8 /\ b \in {(k + 7) \div 8, ((k + 7) \div 8) + 1} /\ b \in 1..8
        /\ (b = ((k + 7) \div 8) + 1 <=> k % 8 = 0)
    BY <1>2, <1>3, BytesOfBits
  <2>2. QED BY <1>1, <1>2, <2>1
<1>5. bitsOfRow(f, v) = SubSeq(Wider(v, 8, 0), 9 - b, 8) BY <1>3 DEF bitsOfRow
<1> DEFINE d == SubSeq(Wider(v, 8, 0), 9 - b, 8)
<1>6. d \in Seq(Byte) /\ Len(d) = b /\ \A i \in 1..Len(v) : d[b - Len(v) + i] = v[i]
  <2>1. Len(v) >= 1 /\ b \in {Len(v), Len(v) + 1} /\ b <= 8 BY <1>4
  <2>2. QED BY <2>1, LastBytes
<1> HIDE DEF d
<1>7. bitsOfRow(f, v) = d BY <1>5 DEF d
<1>8. QED BY <1>3, <1>4, <1>6, <1>7

(* Bits come back from a row.                                              *)
LEMMA BitsSurvive ==
  ASSUME NEW f, f.bits \in 1..63, NEW v \in Seq(Byte), Len(v) = (f.bits + 7) \div 8
  PROVE  fromBits(f, bitsOfRow(f, v)) = v
<1> DEFINE n == Len(v)
           b == bytesToCopy(f)
           d == bitsOfRow(f, v)
           back == SubSeq(d, b - n + 1, b)
<1>1. /\ d \in Seq(Byte) /\ Len(d) = b /\ n \in 1..8 /\ b \in {n, n + 1}
      /\ \A i \in 1..n : d[b - n + i] = v[i]
  BY RowBits
<1>2. fromBits(f, d) = back BY <1>1 DEF fromBits
<1> HIDE DEF n, b, d
<1>3. back \in Seq(Byte) /\ Len(back) = n /\ \A i \in 1..n : back[i] = d[b - n + i]
  BY <1>1
<1>4. v \in Seq(Byte) /\ Len(v) = n BY DEF n
<1> HIDE DEF back
<1>5. QED BY <1>1, <1>2, <1>3, <1>4 DEF d

(* What MySQL wrote is what it reads, for every type.                      *)
LEMMA EveryValueSurvives ==
  ASSUME NEW f, IsField(f), Supported(f), ~Shifted(f), NEW v, IsValue(f, v), ~Refuses(f, v)
  PROVE  convertDB2toMySQL(f, convertMySQLtoDB2(f, v)) = kept(f, v)
<1>1. CASE Packed(f) BY <1>1, OfPacked, DecimalSurvives
<1>2. ASSUME ~Packed(f) PROVE kept(f, v) = v BY <1>2 DEF kept, Packed
<1>3. CASE Plain(f) BY <1>2, <1>3, OfInteger, IntegerSurvives DEF Plain
<1>4. CASE f.type \in {"FLOAT", "DOUBLE"}
  <2>1. ~Packed(f) BY <1>4 DEF Packed
  <2>2. Reverse(Reverse(v)) = v BY <1>4, KindOfValue, Reversed
  <2>3. QED BY <1>2, <1>4, <2>1, <2>2, OfFloat
<1>5. CASE f.type \in {"DATE", "DATETIME", "TIME"}
  <2>1. ~Packed(f) BY <1>5 DEF Packed
  <2>2. IsDate(f, v) BY <1>5, KindOfValue
  <2>3. fromDate(f, toDate(f, v)) = v BY <1>5, <2>2, DateSurvives
  <2>4. QED BY <1>2, <1>5, <2>1, <2>3, OfDate
<1>6. CASE f.type = "YEAR"
  <2>1. ~Packed(f) BY <1>6 DEF Packed
  <2>2. fromYear(f, toYear(f, v)) = v BY <1>6, KindOfValue, YearSurvives
  <2>3. QED BY <1>2, <1>6, <2>1, <2>2, OfYear
<1>7. CASE f.type = "BIT"
  <2>1. ~Packed(f) BY <1>7 DEF Packed
  <2>2. f.bits \in 1..63 BY <1>7 DEF IsField
  <2>3. fromBits(f, bitsOfRow(f, v)) = v BY <1>7, <2>2, KindOfValue, BitsSurvive
  <2>4. QED BY <1>2, <1>7, <2>1, <2>3, OfBits
<1>8. QED BY <1>1, <1>3, <1>4, <1>5, <1>6, <1>7, Kinds

-----------------------------------------------------------------------------
(* The order of values.  Two pairs of sequences are alike in order if one  *)
(* pair goes on, behind equal parts in front, as the other does.           *)
SameOrder(a, b, x, y) == (Before(a, b) <=> Before(x, y)) /\ (a = b <=> x = y)

(* Nothing is before itself.                                               *)
LEMMA SameItself ==
  ASSUME NEW a \in Seq(Int), NEW x \in Seq(Int)
  PROVE  SameOrder(a, a, x, x)
<1>1. Before(a, a) <=> Before(x, x)
  <2>1. ASSUME NEW s \in Seq(Int), Before(s, s) PROVE FALSE
    <3>1. PICK i \in 1..Len(s) : s[i] < s[i] BY <2>1 DEF Before, Min2
    <3>2. QED BY <3>1
  <2>2. QED BY <2>1
<1>2. QED BY <1>1 DEF SameOrder

(* Pairs that are alike number by number, behind what the two of one pair  *)
(* have in common, are alike in order.                                     *)
LEMMA Behind ==
  ASSUME NEW a \in Seq(Int), NEW b \in Seq(Int), NEW x \in Seq(Int), NEW y \in Seq(Int),
         NEW k \in Nat, Len(a) = Len(b), Len(x) = Len(a) + k, Len(y) = Len(x),
         \A i \in 1..k : x[i] = y[i],
         \A i \in 1..Len(a) : (a[i] < b[i] <=> x[k + i] < y[k + i]) /\ (a[i] = b[i] <=> x[k + i] = y[k + i])
  PROVE  SameOrder(a, b, x, y)
<1> DEFINE n == Len(a)
<1>1. n \in Nat /\ Len(b) = n /\ Len(x) = n + k /\ Len(y) = n + k OBVIOUS
<1>2. Min2(Len(a), Len(b)) = n /\ Min2(Len(x), Len(y)) = n + k BY <1>1 DEF Min2
<1>3. ASSUME Before(a, b) PROVE Before(x, y)
  <2>1. PICK i \in 1..n : a[i] < b[i] /\ \A j \in 1..(i - 1) : a[j] = b[j] BY <1>2, <1>3 DEF Before
  <2> DEFINE m == k + i
  <2>2. m \in 1..(n + k) /\ x[m] < y[m] BY <1>1, <2>1
  <2>3. ASSUME NEW j \in 1..(m - 1) PROVE x[j] = y[j]
    <3>1. CASE j <= k BY <3>1
    <3>2. CASE j > k
      <4>1. j - k \in 1..(i - 1) /\ j - k \in 1..n /\ k + (j - k) = j BY <1>1, <2>1, <3>2
      <4>2. QED BY <2>1, <4>1
    <3>3. QED BY <3>1, <3>2
  <2> HIDE DEF m
  <2>4. QED BY <1>2, <2>2, <2>3 DEF Before
<1>4. ASSUME Before(x, y) PROVE Before(a, b)
  <2>1. PICK j \in 1..(n + k) : x[j] < y[j] /\ \A i \in 1..(j - 1) : x[i] = y[i] BY <1>2, <1>4 DEF Before
  <2>2. j > k
    <3>1. ASSUME j <= k PROVE FALSE
      <4>1. x[j] = y[j] /\ x[j] \in Int BY <1>1, <2>1, <3>1
      <4>2. QED BY <2>1, <4>1
    <3>2. QED BY <3>1
  <2> DEFINE i == j - k
  <2>3. i \in 1..n /\ k + i = j BY <1>1, <2>1, <2>2
  <2>4. a[i] < b[i] BY <2>1, <2>3
  <2>5. ASSUME NEW m \in 1..(i - 1) PROVE a[m] = b[m]
    <3>1. k + m \in 1..(j - 1) /\ m \in 1..n BY <1>1, <2>1, <2>3
    <3>2. QED BY <2>1, <3>1
  <2>6. QED BY <1>2, <2>3, <2>4, <2>5 DEF Before
<1>5. ASSUME a = b PROVE x = y
  <2>1. ASSUME NEW j \in 1..(n + k) PROVE x[j] = y[j]
    <3>1. CASE j <= k BY <3>1
    <3>2. CASE j > k
      <4>1. j - k \in 1..n /\ k + (j - k) = j BY <1>1, <3>2
      <4>2. QED BY <1>5, <4>1
    <3>3. QED BY <3>1, <3>2
  <2>2. x = [j \in 1..(n + k) |-> x[j]] /\ y = [j \in 1..(n + k) |-> y[j]] BY <1>1
  <2>3. QED BY <2>1, <2>2
<1>6. ASSUME x = y PROVE a = b
  <2>1. \A i \in 1..n : a[i] = b[i] BY <1>6
  <2>2. a = [i \in 1..n |-> a[i]] /\ b = [i \in 1..n |-> b[i]] BY <1>1
  <2>3. QED BY <2>1, <2>2
<1>7. QED BY <1>3, <1>4, <1>5, <1>6 DEF SameOrder

(* ... and alike if they differ at the first place, the same way.          *)
LEMMA FirstDecides ==
  ASSUME NEW a \in Seq(Int), NEW b \in Seq(Int), Len(a) > 0, Len(b) > 0, a[1] < b[1]
  PROVE  Before(a, b) /\ ~Before(b, a) /\ a # b
<1>1. 1 \in 1..Min2(Len(a), Len(b)) /\ Min2(Len(a), Len(b)) \in Nat /\ Min2(Len(b), Len(a)) \in Nat
      /\ a[1] \in Int /\ b[1] \in Int
  BY DEF Min2
<1>2. Before(a, b) BY <1>1 DEF Before
<1>3. ASSUME NEW i \in 1..Min2(Len(b), Len(a)), b[i] < a[i], \A j \in 1..(i - 1) : b[j] = a[j]
      PROVE  FALSE
  <2>1. CASE i = 1 BY <1>1, <1>3, <2>1
  <2>2. CASE i # 1
    <3>1. 1 \in 1..(i - 1) BY <1>1, <2>2
    <3>2. QED BY <1>1, <1>3, <3>1
  <2>3. QED BY <2>1, <2>2
<1>4. QED BY <1>1, <1>2, <1>3 DEF Before

(* Sequences that differ at once are in the order of their first numbers.  *)
LEMMA FirstDiffers ==
  ASSUME NEW a \in Seq(Int), NEW b \in Seq(Int), NEW x \in Seq(Int), NEW y \in Seq(Int),
         Len(a) > 0, Len(b) > 0, Len(x) > 0, Len(y) > 0,
         (a[1] < b[1] /\ x[1] < y[1]) \/ (b[1] < a[1] /\ y[1] < x[1])
  PROVE  SameOrder(a, b, x, y)
<1>1. CASE a[1] < b[1] /\ x[1] < y[1]
  <2>1. Before(a, b) /\ a # b BY <1>1, FirstDecides
  <2>2. Before(x, y) /\ x # y BY <1>1, FirstDecides
  <2>3. QED BY <2>1, <2>2 DEF SameOrder
<1>2. CASE b[1] < a[1] /\ y[1] < x[1]
  <2>1. ~Before(a, b) /\ a # b BY <1>2, FirstDecides
  <2>2. ~Before(x, y) /\ x # y BY <1>2, FirstDecides
  <2>3. QED BY <2>1, <2>2 DEF SameOrder
<1>3. QED BY <1>1, <1>2

(* Bytes with the first one's sign turned round.                           *)
LEMMA ByteFlipped ==
  ASSUME NEW c \in Byte
  PROVE  /\ (c + 128) % 256 = IF c > 127 THEN c - 128 ELSE c + 128
         /\ (c + 128) % 256 \in Byte
<1>1. c \in Int /\ 0 <= c /\ c <= 255 BY DEF Byte
<1>2. (c + 128) % 256 = IF c > 127 THEN c - 128 ELSE c + 128 BY <1>1
<1>3. QED BY <1>1, <1>2 DEF Byte

(* The first bit is turned round, and the rest is left.                    *)
LEMMA Flipped ==
  ASSUME NEW be \in Seq(Byte), Len(be) > 0
  PROVE  /\ flipped(be) \in Seq(Byte) /\ Len(flipped(be)) = Len(be)
         /\ flipped(be)[1] = IF be[1] > 127 THEN be[1] - 128 ELSE be[1] + 128
         /\ \A i \in 2..Len(be) : flipped(be)[i] = be[i]
         /\ flipped(be)[1] \in Byte
<1>1. 1 \in DOMAIN be /\ be[1] \in Byte OBVIOUS
<1>2. (be[1] + 128) % 256 = IF be[1] > 127 THEN be[1] - 128 ELSE be[1] + 128
  BY <1>1, ByteFlipped
<1>3. (be[1] + 128) % 256 \in Byte BY <1>1, ByteFlipped
<1>4. flipped(be) = [be EXCEPT ![1] = (be[1] + 128) % 256] BY DEF flipped
<1>5. flipped(be) \in Seq(Byte) /\ Len(flipped(be)) = Len(be) BY <1>1, <1>3, <1>4
<1>6. flipped(be)[1] = (be[1] + 128) % 256 /\ \A i \in 2..Len(be) : flipped(be)[i] = be[i]
  BY <1>1, <1>4
<1>7. QED BY <1>2, <1>3, <1>5, <1>6

LEMMA BytesAreNumbers == ASSUME NEW s \in Seq(Byte) PROVE s \in Seq(Int)
<1>1. \A i \in 1..Len(s) : s[i] \in Byte BY ElementOfSeq
<1>2. Byte \subseteq Int BY DEF Byte
<1>3. \A i \in 1..Len(s) : s[i] \in Int BY <1>1, <1>2
<1>4. QED BY <1>3

(* An unsigned integer has zeros in front of its bytes.                    *)
LEMMA UnsignedOrder ==
  ASSUME NEW f, IsField(f), Plain(f), ~Shifted(f), f.unsigned,
         NEW v, IsValue(f, v), NEW u, IsValue(f, u)
  PROVE  SameOrder(Reverse(v), Reverse(u), flipped(toInteger(f, v)), flipped(toInteger(f, u)))
<1> DEFINE w == Width[f.type]
           n == db2Width(f)
           x == flipped(toInteger(f, v))
           y == flipped(toInteger(f, u))
           a == Reverse(v)
           b == Reverse(u)
<1>1. w \in 1..8 /\ n \in 1..8 /\ n > w BY Widths
<1>2. ASSUME NEW z, IsValue(f, z)
      PROVE  /\ flipped(toInteger(f, z)) \in Seq(Int) /\ Len(flipped(toInteger(f, z))) = n
             /\ Reverse(z) \in Seq(Int) /\ Len(Reverse(z)) = w
             /\ \A i \in 1..(n - w) : flipped(toInteger(f, z))[i] = IF i = 1 THEN 128 ELSE 0
             /\ \A i \in 1..w : flipped(toInteger(f, z))[(n - w) + i] = Reverse(z)[i]
  <2> DEFINE d == toInteger(f, z)
  <2>1. /\ z \in Seq(Byte) /\ Len(z) = w /\ d \in Seq(Byte) /\ Len(d) = n
        /\ \A i \in 1..n : d[i] = IF i <= n - w THEN signByte(f, z) ELSE z[n - i + 1]
    <3>1. WidenedRight(f, z) BY <1>2, Given
    <3>2. QED BY <3>1 DEF WidenedRight
  <2>2. signByte(f, z) = 0 BY DEF signByte
  <2>3. Reverse(z) \in Seq(Byte) /\ Len(Reverse(z)) = w /\ \A i \in 1..w : Reverse(z)[i] = z[w - i + 1]
    BY <2>1, Reversed
  <2> HIDE DEF d, w, n
  <2>4. d[1] = 0 BY <1>1, <2>1, <2>2
  <2>5. /\ flipped(d) \in Seq(Byte) /\ Len(flipped(d)) = n /\ flipped(d)[1] = 128
        /\ \A i \in 2..n : flipped(d)[i] = d[i]
    <3>1. Len(d) > 0 BY <1>1, <2>1
    <3>2. /\ flipped(d) \in Seq(Byte) /\ Len(flipped(d)) = Len(d)
          /\ flipped(d)[1] = IF d[1] > 127 THEN d[1] - 128 ELSE d[1] + 128
          /\ \A i \in 2..Len(d) : flipped(d)[i] = d[i]
      BY <2>1, <3>1, Flipped
    <3>3. QED BY <2>1, <2>4, <3>2
  <2>6. \A i \in 1..(n - w) : flipped(d)[i] = IF i = 1 THEN 128 ELSE 0
    BY <1>1, <2>1, <2>2, <2>5
  <2>7. ASSUME NEW i \in 1..w PROVE flipped(d)[(n - w) + i] = Reverse(z)[i]
    <3> DEFINE j == (n - w) + i
    <3>1. j \in 2..n /\ ~(j <= n - w) /\ n - j + 1 = w - i + 1 BY <1>1
    <3> HIDE DEF j
    <3>2. flipped(d)[j] = z[n - j + 1] BY <2>1, <2>5, <3>1
    <3>3. QED BY <2>3, <3>1, <3>2 DEF j
  <2>8. flipped(d) \in Seq(Int) /\ Reverse(z) \in Seq(Int) BY <2>3, <2>5, BytesAreNumbers
  <2>9. QED BY <2>3, <2>5, <2>6, <2>7, <2>8 DEF d
<1>3. /\ x \in Seq(Int) /\ Len(x) = n /\ y \in Seq(Int) /\ Len(y) = n
      /\ a \in Seq(Int) /\ Len(a) = w /\ b \in Seq(Int) /\ Len(b) = w
      /\ \A i \in 1..(n - w) : x[i] = y[i]
      /\ \A i \in 1..w : x[(n - w) + i] = a[i] /\ y[(n - w) + i] = b[i]
  BY <1>2
<1> HIDE DEF w, n, x, y, a, b
<1>4. PICK k \in Nat : k = n - w BY <1>1
<1>5. Len(a) = Len(b) /\ Len(x) = Len(a) + k /\ Len(y) = Len(x) BY <1>1, <1>3, <1>4
<1>6. \A i \in 1..Len(a) : (a[i] < b[i] <=> x[k + i] < y[k + i]) /\ (a[i] = b[i] <=> x[k + i] = y[k + i])
  BY <1>3, <1>4
<1>7. SameOrder(a, b, x, y) BY <1>3, <1>4, <1>5, <1>6, Behind
<1>8. QED BY <1>7 DEF a, b, x, y

(* A signed integer has its sign in front, in the first byte of each.      *)
LEMMA SignedOrder ==
  ASSUME NEW f, IsField(f), Plain(f), ~Shifted(f), ~f.unsigned,
         NEW v, IsValue(f, v), NEW u, IsValue(f, u)
  PROVE  SameOrder(flipped(Reverse(v)), flipped(Reverse(u)),
                   flipped(toInteger(f, v)), flipped(toInteger(f, u)))
<1> DEFINE w == Width[f.type]
           n == db2Width(f)
           x == flipped(toInteger(f, v))
           y == flipped(toInteger(f, u))
           a == flipped(Reverse(v))
           b == flipped(Reverse(u))
<1>1. w \in 1..8 /\ n \in 1..8 /\ n >= w BY Widths
<1>2. ASSUME NEW z, IsValue(f, z)
      PROVE  LET d == flipped(toInteger(f, z))
                 m == flipped(Reverse(z))
                 front == IF z[w] > 127 THEN 127 ELSE 128
                 next == IF z[w] > 127 THEN 255 ELSE 0
             IN /\ d \in Seq(Int) /\ Len(d) = n /\ m \in Seq(Int) /\ Len(m) = w /\ z[w] \in Byte
                /\ \A i \in 1..(n - w) : d[i] = IF i = 1 THEN front ELSE next
                /\ m[1] = IF z[w] > 127 THEN z[w] - 128 ELSE z[w] + 128
                /\ d[(n - w) + 1] = IF n = w THEN m[1] ELSE z[w]
                /\ \A i \in 2..w : d[(n - w) + i] = m[i]
  <2> DEFINE e == toInteger(f, z)
             r == Reverse(z)
  <2>1. /\ z \in Seq(Byte) /\ Len(z) = w /\ e \in Seq(Byte) /\ Len(e) = n
        /\ \A i \in 1..n : e[i] = IF i <= n - w THEN signByte(f, z) ELSE z[n - i + 1]
    <3>1. WidenedRight(f, z) BY <1>2, Given
    <3>2. QED BY <3>1 DEF WidenedRight
  <2>2. signByte(f, z) = IF z[w] > 127 THEN 255 ELSE 0 BY <2>1 DEF signByte
  <2>3. r \in Seq(Byte) /\ Len(r) = w /\ \A i \in 1..w : r[i] = z[w - i + 1]
    BY <2>1, Reversed
  <2> HIDE DEF e, r, w, n
  <2>4. r[1] = z[w] /\ z[w] \in Byte
    <3>1. 1 \in 1..w /\ w - 1 + 1 = w /\ w \in 1..w BY <1>1
    <3>2. QED BY <2>1, <2>3, <3>1
  <2>5. /\ flipped(e) \in Seq(Byte) /\ Len(flipped(e)) = n
        /\ flipped(e)[1] = (IF e[1] > 127 THEN e[1] - 128 ELSE e[1] + 128)
        /\ \A i \in 2..n : flipped(e)[i] = e[i]
    <3>1. Len(e) > 0 BY <1>1, <2>1
    <3>2. QED BY <2>1, <3>1, Flipped
  <2>6. /\ flipped(r) \in Seq(Byte) /\ Len(flipped(r)) = w
        /\ flipped(r)[1] = (IF z[w] > 127 THEN z[w] - 128 ELSE z[w] + 128)
        /\ \A i \in 2..w : flipped(r)[i] = r[i]
    <3>1. Len(r) > 0 BY <1>1, <2>3
    <3>2. QED BY <2>3, <2>4, <3>1, Flipped
  <2>7. ASSUME NEW i \in 1..(n - w)
        PROVE  flipped(e)[i] = IF i = 1 THEN (IF z[w] > 127 THEN 127 ELSE 128)
                               ELSE (IF z[w] > 127 THEN 255 ELSE 0)
    <3>1. e[i] = (IF z[w] > 127 THEN 255 ELSE 0) /\ i \in 1..n BY <1>1, <2>1, <2>2
    <3>2. CASE i = 1 BY <2>4, <2>5, <3>1, <3>2 DEF Byte
    <3>3. CASE i # 1
      <4>1. i \in 2..n BY <3>1, <3>3
      <4>2. QED BY <2>5, <3>1, <3>3, <4>1
    <3>4. QED BY <3>2, <3>3
  <2>8. ASSUME NEW i \in 1..w PROVE (n - w) + i \in 1..n /\ e[(n - w) + i] = r[i]
    <3> DEFINE j == (n - w) + i
    <3>1. j \in 1..n /\ ~(j <= n - w) /\ n - j + 1 = w - i + 1 BY <1>1
    <3> HIDE DEF j
    <3>2. e[j] = z[n - j + 1] BY <2>1, <3>1
    <3>3. QED BY <2>3, <3>1, <3>2 DEF j
  <2>9. flipped(e)[(n - w) + 1] = IF n = w THEN flipped(r)[1] ELSE z[w]
    <3>1. e[(n - w) + 1] = z[w] /\ (n - w) + 1 \in 1..n BY <1>1, <2>4, <2>8
    <3>2. CASE n = w
      <4>1. (n - w) + 1 = 1 BY <1>1, <3>2
      <4>2. QED BY <2>5, <2>6, <3>1, <3>2, <4>1
    <3>3. CASE n # w
      <4>1. (n - w) + 1 \in 2..n BY <1>1, <3>1, <3>3
      <4>2. QED BY <2>5, <3>1, <3>3, <4>1
    <3>4. QED BY <3>2, <3>3
  <2>10. ASSUME NEW i \in 2..w PROVE flipped(e)[(n - w) + i] = flipped(r)[i]
    <3>1. i \in 1..w /\ (n - w) + i \in 2..n BY <1>1
    <3>2. QED BY <2>5, <2>6, <2>8, <3>1
  <2>11. flipped(e) \in Seq(Int) /\ flipped(r) \in Seq(Int) BY <2>5, <2>6, BytesAreNumbers
  <2>12. QED BY <2>4, <2>5, <2>6, <2>7, <2>9, <2>10, <2>11 DEF e, r
<1>3. /\ x \in Seq(Int) /\ Len(x) = n /\ y \in Seq(Int) /\ Len(y) = n
      /\ a \in Seq(Int) /\ Len(a) = w /\ b \in Seq(Int) /\ Len(b) = w
      /\ v[w] \in Byte /\ u[w] \in Byte
      /\ \A i \in 1..(n - w) : x[i] = IF i = 1 THEN (IF v[w] > 127 THEN 127 ELSE 128)
                                      ELSE (IF v[w] > 127 THEN 255 ELSE 0)
      /\ \A i \in 1..(n - w) : y[i] = IF i = 1 THEN (IF u[w] > 127 THEN 127 ELSE 128)
                                      ELSE (IF u[w] > 127 THEN 255 ELSE 0)
      /\ a[1] = (IF v[w] > 127 THEN v[w] - 128 ELSE v[w] + 128)
      /\ b[1] = (IF u[w] > 127 THEN u[w] - 128 ELSE u[w] + 128)
      /\ x[(n - w) + 1] = (IF n = w THEN a[1] ELSE v[w])
      /\ y[(n - w) + 1] = (IF n = w THEN b[1] ELSE u[w])
      /\ \A i \in 2..w : x[(n - w) + i] = a[i] /\ y[(n - w) + i] = b[i]
  BY <1>2
<1> HIDE DEF w, n, x, y, a, b
<1>4. PICK k \in Nat : k = n - w BY <1>1
<1>5. CASE v[w] > 127 <=> u[w] > 127
  <2>1. Len(a) = Len(b) /\ Len(x) = Len(a) + k /\ Len(y) = Len(x) BY <1>1, <1>3, <1>4
  <2>2. \A i \in 1..k : x[i] = y[i] BY <1>3, <1>4, <1>5
  <2>3. /\ a[1] \in Int /\ b[1] \in Int /\ v[w] \in Int /\ u[w] \in Int
        /\ (a[1] < b[1] <=> v[w] < u[w]) /\ (a[1] = b[1] <=> v[w] = u[w])
    <3>1. v[w] \in 0..255 /\ u[w] \in 0..255 BY <1>3 DEF Byte
    <3>2. /\ a[1] = (IF v[w] > 127 THEN v[w] - 128 ELSE v[w] + 128)
          /\ b[1] = (IF u[w] > 127 THEN u[w] - 128 ELSE u[w] + 128)
      BY <1>3
    <3>3. PICK p \in 0..255 : p = v[w] BY <3>1
    <3>4. PICK q \in 0..255 : q = u[w] BY <3>1
    <3>5. /\ a[1] = (IF p > 127 THEN p - 128 ELSE p + 128)
          /\ b[1] = (IF q > 127 THEN q - 128 ELSE q + 128)
      BY <3>2, <3>3, <3>4
    <3>6. QED BY <1>5, <3>3, <3>4, <3>5
  <2>4. (a[1] < b[1] <=> x[k + 1] < y[k + 1]) /\ (a[1] = b[1] <=> x[k + 1] = y[k + 1])
    BY <1>3, <1>4, <2>3
  <2>5. ASSUME NEW i \in 1..Len(a)
        PROVE (a[i] < b[i] <=> x[k + i] < y[k + i]) /\ (a[i] = b[i] <=> x[k + i] = y[k + i])
    <3>1. CASE i = 1 BY <2>4, <3>1
    <3>2. CASE i # 1
      <4>1. i \in 2..w BY <1>3, <3>2
      <4>2. x[k + i] = a[i] /\ y[k + i] = b[i] BY <1>3, <1>4, <4>1
      <4>3. QED BY <4>2
    <3>3. QED BY <3>1, <3>2
  <2>8. a \in Seq(Int) /\ b \in Seq(Int) /\ x \in Seq(Int) /\ y \in Seq(Int) BY <1>3
  <2>6. SameOrder(a, b, x, y)
    <3>1. k \in Nat /\ Len(a) = Len(b) /\ Len(x) = Len(a) + k /\ Len(y) = Len(x) BY <2>1
    <3>2. \A i \in 1..Len(a) : (a[i] < b[i] <=> x[k + i] < y[k + i]) /\ (a[i] = b[i] <=> x[k + i] = y[k + i])
      BY <2>5
    <3>3. QED BY <2>2, <2>8, <3>1, <3>2, Behind
  <2>7. QED BY <2>6 DEF a, b, x, y
<1>6. CASE ~(v[w] > 127 <=> u[w] > 127)
  <2>1. (v[w] > 127 /\ a[1] < b[1] /\ ~(u[w] > 127)) \/ (u[w] > 127 /\ b[1] < a[1] /\ ~(v[w] > 127))
    <3>1. v[w] \in 0..255 /\ u[w] \in 0..255 BY <1>3 DEF Byte
    <3>2. /\ a[1] = (IF v[w] > 127 THEN v[w] - 128 ELSE v[w] + 128)
          /\ b[1] = (IF u[w] > 127 THEN u[w] - 128 ELSE u[w] + 128)
      BY <1>3
    <3>3. PICK p \in 0..255 : p = v[w] BY <3>1
    <3>4. PICK q \in 0..255 : q = u[w] BY <3>1
    <3>5. /\ a[1] = (IF p > 127 THEN p - 128 ELSE p + 128)
          /\ b[1] = (IF q > 127 THEN q - 128 ELSE q + 128)
      BY <3>2, <3>3, <3>4
    <3>6. QED BY <1>6, <3>3, <3>4, <3>5
  <2>2. (v[w] > 127 /\ x[1] < y[1]) \/ (u[w] > 127 /\ y[1] < x[1])
    <3>1. CASE n = w
      <4>1. (n - w) + 1 = 1 BY <1>1, <3>1
      <4>2. x[1] = a[1] /\ y[1] = b[1] BY <1>3, <3>1, <4>1
      <4>3. QED BY <2>1, <4>2
    <3>2. CASE n # w
      <4>1. 1 \in 1..(n - w) BY <1>1, <3>2
      <4>2. x[1] = (IF v[w] > 127 THEN 127 ELSE 128) /\ y[1] = (IF u[w] > 127 THEN 127 ELSE 128)
        BY <1>3, <4>1
      <4>3. QED BY <2>1, <4>2
    <3>3. QED BY <3>1, <3>2
  <2>3. (a[1] < b[1] /\ x[1] < y[1]) \/ (b[1] < a[1] /\ y[1] < x[1])
    BY <1>6, <2>1, <2>2
  <2>4. Len(a) > 0 /\ Len(b) > 0 /\ Len(x) > 0 /\ Len(y) > 0 BY <1>1, <1>3
  <2>5. SameOrder(a, b, x, y) BY <1>3, <2>3, <2>4, FirstDiffers
  <2>6. QED BY <2>5 DEF a, b, x, y
<1>7. QED BY <1>5, <1>6

(* The zero date's substitute is before all other dates, as it is itself.  *)
LEMMA DateOrder ==
  ASSUME NEW f, f.type \in {"DATE", "DATETIME", "TIME"}, NEW v, IsDate(f, v), NEW u, IsDate(f, u)
  PROVE  SameOrder(v, u, toDate(f, v), toDate(f, u))
<1>1. Len(v) = Len(u) BY DEF IsDate
<1>2. CASE ~isZeroDate(f, v) /\ ~isZeroDate(f, u)
  <2>1. toDate(f, v) = v
    <3>1. ~isZeroDate(f, v) BY <1>2
    <3>2. QED BY <3>1 DEF toDate
  <2>3. toDate(f, u) = u
    <3>1. ~isZeroDate(f, u) BY <1>2
    <3>2. QED BY <3>1 DEF toDate
  <2>2. QED BY <2>1, <2>3 DEF SameOrder
<1>3. CASE isZeroDate(f, v) /\ isZeroDate(f, u)
  <2>1. \A i \in 1..Len(v) : v[i] = u[i] BY <1>1, <1>3, DateParts
  <2>2. v \in Seq(Nat) /\ u \in Seq(Nat) BY DateParts
  <2>3. v = [i \in 1..Len(v) |-> v[i]] /\ u = [i \in 1..Len(v) |-> u[i]] BY <1>1, <2>2
  <2>4. v = u BY <2>1, <2>3
  <2>5. v \in Seq(Int) /\ toDate(f, v) \in Seq(Int)
    <3>1. toDate(f, v) \in Seq(Nat) BY <1>3, DateParts
    <3>2. QED BY <2>2, <3>1
  <2>6. QED BY <2>4, <2>5, SameItself
<1>4. ASSUME NEW a, IsDate(f, a), NEW b, IsDate(f, b), isZeroDate(f, a), ~isZeroDate(f, b)
      PROVE  /\ a \in Seq(Int) /\ b \in Seq(Int) /\ toDate(f, a) \in Seq(Int) /\ toDate(f, b) \in Seq(Int)
             /\ Len(a) > 0 /\ Len(b) > 0 /\ Len(toDate(f, a)) > 0 /\ Len(toDate(f, b)) > 0
             /\ a[1] < b[1] /\ toDate(f, a)[1] < toDate(f, b)[1]
  <2>1. /\ a \in Seq(Nat) /\ b \in Seq(Nat) /\ Len(a) \in {3, 6} /\ Len(b) \in {3, 6}
        /\ \A i \in 1..Len(a) : a[i] = 0 
        /\ toDate(f, a) \in Seq(Nat) /\ Len(toDate(f, a)) = Len(a)
        /\ \A i \in 1..Len(a) : toDate(f, a)[i] = IF i <= 3 THEN 1 ELSE 0
        /\ b[1] > 1 /\ toDate(f, b) = b
    BY <1>4, DateParts
  <2>2. 1 \in 1..Len(a) /\ Len(a) > 0 /\ Len(b) > 0 /\ b[1] \in Nat BY <2>1
  <2>3. a[1] = 0 /\ toDate(f, a)[1] = 1 BY <2>1, <2>2
  <2>4. a \in Seq(Int) /\ b \in Seq(Int) /\ toDate(f, a) \in Seq(Int) BY <2>1
  <2>5. QED BY <2>1, <2>2, <2>3, <2>4
<1>5. CASE isZeroDate(f, v) /\ ~isZeroDate(f, u) BY <1>4, <1>5, FirstDiffers
<1>6. CASE ~isZeroDate(f, v) /\ isZeroDate(f, u) BY <1>4, <1>6, FirstDiffers
<1>7. QED BY <1>2, <1>3, <1>5, <1>6

(* The digits of a year, and its bytes, are ordered as the years are.      *)
LEMMA FourBefore ==
  ASSUME NEW s \in Seq(Int), NEW t \in Seq(Int), Len(s) = 4, Len(t) = 4
  PROVE  Before(s, t) <=> \/ s[1] < t[1]
                          \/ s[1] = t[1] /\ s[2] < t[2]
                          \/ s[1] = t[1] /\ s[2] = t[2] /\ s[3] < t[3]
                          \/ s[1] = t[1] /\ s[2] = t[2] /\ s[3] = t[3] /\ s[4] < t[4]
<1>1. Min2(Len(s), Len(t)) = 4 BY DEF Min2
<1>2. Before(s, t) <=> \E i \in {1, 2, 3, 4} : s[i] < t[i] /\ \A j \in 1..(i - 1) : s[j] = t[j]
  <2>1. Before(s, t) <=> \E i \in 1..4 : s[i] < t[i] /\ \A j \in 1..(i - 1) : s[j] = t[j]
    BY <1>1 DEF Before
  <2>2. 1..4 = {1, 2, 3, 4} OBVIOUS
  <2>3. QED BY <2>1, <2>2
<1>3. /\ \A j \in 1..(1 - 1) : s[j] = t[j]
      /\ (\A j \in 1..(2 - 1) : s[j] = t[j]) <=> s[1] = t[1]
      /\ (\A j \in 1..(3 - 1) : s[j] = t[j]) <=> s[1] = t[1] /\ s[2] = t[2]
      /\ (\A j \in 1..(4 - 1) : s[j] = t[j]) <=> s[1] = t[1] /\ s[2] = t[2] /\ s[3] = t[3]
  OBVIOUS
<1>4. QED BY <1>2, <1>3

LEMMA TwoBefore ==
  ASSUME NEW s \in Seq(Int), NEW t \in Seq(Int), Len(s) = 2, Len(t) = 2
  PROVE  Before(s, t) <=> s[1] < t[1] \/ (s[1] = t[1] /\ s[2] < t[2])
<1>1. Min2(Len(s), Len(t)) = 2 BY DEF Min2
<1>2. Before(s, t) <=> \E i \in {1, 2} : s[i] < t[i] /\ \A j \in 1..(i - 1) : s[j] = t[j]
  BY <1>1 DEF Before
<1>3. (\A j \in 1..(1 - 1) : s[j] = t[j]) /\ ((\A j \in 1..(2 - 1) : s[j] = t[j]) <=> s[1] = t[1])
  OBVIOUS
<1>4. QED BY <1>2, <1>3

LEMMA OneBefore ==
  ASSUME NEW v \in Int, NEW u \in Int
  PROVE  (Before(<<v>>, <<u>>) <=> v < u) /\ (<<v>> = <<u>> <=> v = u)
<1> DEFINE s == <<v>>
           t == <<u>>
<1>1. Len(s) = 1 /\ Len(t) = 1 /\ s[1] = v /\ t[1] = u /\ (s = t <=> v = u) OBVIOUS
<1> HIDE DEF s, t
<1>2. Min2(Len(s), Len(t)) = 1 BY <1>1 DEF Min2
<1>3. Before(s, t) <=> \E i \in {1} : s[i] < t[i] /\ \A j \in 1..(i - 1) : s[j] = t[j]
  <2>1. Before(s, t) <=> \E i \in 1..1 : s[i] < t[i] /\ \A j \in 1..(i - 1) : s[j] = t[j]
    BY <1>2 DEF Before
  <2>2. 1..1 = {1} OBVIOUS
  <2>3. QED BY <2>1, <2>2
<1>4. \A j \in 1..(1 - 1) : s[j] = t[j] OBVIOUS
<1>5. Before(s, t) <=> v < u BY <1>1, <1>3, <1>4
<1>6. QED BY <1>1, <1>5 DEF s, t

DigitsOf(y) == <<y \div 1000, (y \div 100) % 10, (y \div 10) % 10, y % 10>>
BytesOf(y) == <<y \div 256, y % 256>>
SameAs(s, t, y, z) == (Before(s, t) <=> y < z) /\ (s = t <=> y = z)
LEMMA DigitsOrder ==
  ASSUME NEW y \in Years, NEW z \in Years
  PROVE  SameAs(DigitsOf(y), DigitsOf(z), y, z)
<1> DEFINE a == y \div 1000
           b == (y \div 100) % 10
           c == (y \div 10) % 10
           d == y % 10
           e == z \div 1000
           f == (z \div 100) % 10
           g == (z \div 10) % 10
           h == z % 10
<1>1. /\ a * 1000 + b * 100 + c * 10 + d = y
      /\ a \in 0..9 /\ b \in 0..9 /\ c \in 0..9 /\ d \in 0..9
  <2>1. HaveDigits(y) BY FourDigits
  <2>2. QED BY <2>1 DEF HaveDigits
<1>2. /\ e * 1000 + f * 100 + g * 10 + h = z
      /\ e \in 0..9 /\ f \in 0..9 /\ g \in 0..9 /\ h \in 0..9
  <2>1. HaveDigits(z) BY FourDigits
  <2>2. QED BY <2>1 DEF HaveDigits
<1>9. DigitsOf(y) = <<a, b, c, d>> /\ DigitsOf(z) = <<e, f, g, h>> BY DEF DigitsOf
<1> HIDE DEF a, b, c, d, e, f, g, h
<1> DEFINE s == <<a, b, c, d>>
           t == <<e, f, g, h>>
<1>3. /\ s \in Seq(Int) /\ t \in Seq(Int) /\ Len(s) = 4 /\ Len(t) = 4
      /\ s[1] = a /\ s[2] = b /\ s[3] = c /\ s[4] = d /\ t[1] = e /\ t[2] = f /\ t[3] = g /\ t[4] = h
  BY <1>1, <1>2
<1>4. s = t <=> a = e /\ b = f /\ c = g /\ d = h BY <1>3
<1> HIDE DEF s, t
<1>5. Before(s, t) <=> a < e \/ (a = e /\ b < f) \/ (a = e /\ b = f /\ c < g)
                       \/ (a = e /\ b = f /\ c = g /\ d < h)
  <2>1. Before(s, t) <=> \/ s[1] < t[1]
                         \/ s[1] = t[1] /\ s[2] < t[2]
                         \/ s[1] = t[1] /\ s[2] = t[2] /\ s[3] < t[3]
                         \/ s[1] = t[1] /\ s[2] = t[2] /\ s[3] = t[3] /\ s[4] < t[4]
    BY <1>3, FourBefore
  <2>2. QED BY <1>3, <2>1
<1>6. (a < e \/ (a = e /\ b < f) \/ (a = e /\ b = f /\ c < g) \/ (a = e /\ b = f /\ c = g /\ d < h)) <=> y < z
  BY <1>1, <1>2
<1>7. (a = e /\ b = f /\ c = g /\ d = h) <=> y = z BY <1>1, <1>2
<1>8. QED BY <1>4, <1>5, <1>6, <1>7, <1>9 DEF s, t, SameAs

LEMMA BytesOrder ==
  ASSUME NEW y \in Years, NEW z \in Years
  PROVE  SameAs(BytesOf(y), BytesOf(z), y, z)
<1> DEFINE a == y \div 256
           b == y % 256
           c == z \div 256
           d == z % 256
<1>1. BytesOf(y) = <<a, b>> /\ a * 256 + b = y /\ a \in 0..255 /\ b \in 0..255
  BY TwoBytes DEF BytesOf, Byte
<1>2. BytesOf(z) = <<c, d>> /\ c * 256 + d = z /\ c \in 0..255 /\ d \in 0..255
  BY TwoBytes DEF BytesOf, Byte
<1> HIDE DEF a, b, c, d
<1> DEFINE s == <<a, b>>
           t == <<c, d>>
<1>3. /\ s \in Seq(Int) /\ t \in Seq(Int) /\ Len(s) = 2 /\ Len(t) = 2
      /\ s[1] = a /\ s[2] = b /\ t[1] = c /\ t[2] = d
  BY <1>1, <1>2
<1>4. s = t <=> a = c /\ b = d BY <1>3
<1> HIDE DEF s, t
<1>5. Before(s, t) <=> a < c \/ (a = c /\ b < d) BY <1>3, TwoBefore
<1>6. (a < c \/ (a = c /\ b < d)) <=> y < z BY <1>1, <1>2
<1>7. (a = c /\ b = d) <=> y = z BY <1>1, <1>2
<1>8. QED BY <1>1, <1>2, <1>4, <1>5, <1>6, <1>7 DEF s, t, SameAs

(* Years are in order for DB2, as digits and as bytes.                     *)
LEMMA YearOrder ==
  ASSUME NEW f, NEW v \in Byte, NEW u \in Byte
  PROVE  SameOrder(<<v>>, <<u>>, toYear(f, v), toYear(f, u))
<1> DEFINE y == year(v)
           z == year(u)
<1>1. y \in Years /\ z \in Years /\ (v < u <=> y < z) /\ (v = u <=> y = z)
  BY YearParts
<1>2. v \in Int /\ u \in Int BY DEF Byte
<1>3. (Before(<<v>>, <<u>>) <=> v < u) /\ (<<v>> = <<u>> <=> v = u) BY <1>2, OneBefore
<1>4. toYear(f, v) = (IF f.db2 = "CHAR4" THEN DigitsOf(y) ELSE BytesOf(y))
  BY DEF toYear, DigitsOf, BytesOf
<1>5. toYear(f, u) = (IF f.db2 = "CHAR4" THEN DigitsOf(z) ELSE BytesOf(z))
  BY DEF toYear, DigitsOf, BytesOf
<1> HIDE DEF y, z
<1>10. y \in Years /\ z \in Years BY <1>1
<1>6. SameAs(DigitsOf(y), DigitsOf(z), y, z) BY <1>10, DigitsOrder
<1>7. SameAs(BytesOf(y), BytesOf(z), y, z) BY <1>10, BytesOrder
<1>8. SameAs(toYear(f, v), toYear(f, u), y, z) BY <1>4, <1>5, <1>6, <1>7
<1>9. QED BY <1>1, <1>3, <1>8 DEF SameOrder, SameAs

(* Bits that end within a byte go as they are, in a row and in a key.      *)
LEMMA WholeBits ==
  ASSUME NEW f, IsField(f), f.type = "BIT", ~TooFar(f), NEW v, IsValue(f, v)
  PROVE  bitsOfRow(f, v) = v /\ \A behind : bitsOfKey(f, v, behind) = v
<1> DEFINE n == Len(v)
           d == bitsOfRow(f, v)
<1>1. f.bits \in 1..63 /\ v \in Seq(Byte) /\ n = (f.bits + 7) \div 8 BY KindOfValue DEF IsField
<1>2. /\ d \in Seq(Byte) /\ Len(d) = bytesToCopy(f) /\ n \in 1..8
      /\ bytesToCopy(f) \in {n, n + 1} /\ (bytesToCopy(f) = n + 1 <=> f.bits % 8 = 0)
      /\ \A i \in 1..n : d[bytesToCopy(f) - n + i] = v[i]
  BY <1>1, RowBits
<1>3. bytesToCopy(f) = n BY <1>2 DEF TooFar
<1> HIDE DEF d
<1>4. d = v
  <2>1. \A i \in 1..n : d[i] = v[i]
    <3>1. \A i \in 1..n : n - n + i = i BY <1>2
    <3>2. QED BY <1>2, <1>3, <3>1
  <2>2. d = [i \in 1..n |-> d[i]] /\ v = [i \in 1..n |-> v[i]] BY <1>1, <1>2, <1>3
  <2>3. QED BY <2>1, <2>2
<1>5. ASSUME NEW behind PROVE SubSeq(Append(v, behind), 1, n) = v BY <1>1
<1>6. QED BY <1>3, <1>4, <1>5 DEF bitsOfKey, d

(* Packed decimals are in order for DB2.                                   *)
LEMMA PackedOrder ==
  ASSUME NEW f, IsField(f), Packed(f), Supported(f), NEW v, IsValue(f, v)
  PROVE  db2Order(f, packedFrom(f, v)) = myOrder(f, v)
<1> DEFINE p == db2Precision(f)
           t == truncationAmount(f)
           shown == SubSeq(v.digits, 1, p)
           sent == unpack(p, packedFrom(f, v))
           mine == [v EXCEPT !.digits = SubSeq(@, 1, Len(@) - t)]
           Negative(d) == d.neg /\ \E i \in DOMAIN d.digits : d.digits[i] # 0
<1>1. /\ v = [neg |-> v.neg, digits |-> v.digits] /\ v.neg \in BOOLEAN
      /\ v.digits \in Seq(Digits) /\ Len(v.digits) = p + t /\ t \in Nat /\ p \in Nat \ {0}
  BY NumberTypes
<1>2. sent = [neg |-> v.neg /\ \E i \in 1..p : v.digits[i] # 0, digits |-> shown] BY Unpacked
<1>3. sent.digits = shown /\ sent.neg = (v.neg /\ \E i \in 1..p : v.digits[i] # 0)
  <2> HIDE DEF sent, shown, p
  <2>1. QED BY <1>2
<1>4. Len(v.digits) - t = p BY <1>1
<1>5. mine.neg = v.neg /\ mine.digits = shown BY <1>1, <1>4
<1>6. DOMAIN shown = 1..p /\ \A i \in 1..p : shown[i] = v.digits[i] BY <1>1
<1> HIDE DEF sent, mine, shown
<1>7. (sent.neg /\ \E i \in DOMAIN sent.digits : sent.digits[i] # 0)
      <=> (mine.neg /\ \E i \in DOMAIN mine.digits : mine.digits[i] # 0)
  BY <1>3, <1>5, <1>6
<1>8. ofDecimal(sent) = ofDecimal(mine) BY <1>3, <1>5, <1>7 DEF ofDecimal
<1>9. QED BY <1>8, OfPacked DEF sent, mine

(* What a key's or a row's part is to DB2 stands for what it is to MySQL.  *)
LEMMA OrderKept ==
  ASSUME NEW f, IsField(f), Supported(f), ~Shifted(f), ~TooFar(f),
         NEW v, IsValue(f, v), NEW u, IsValue(f, u)
  PROVE  SameOrder(myOrder(f, v), myOrder(f, u),
                   db2Order(f, convertMySQLtoDB2(f, v)), db2Order(f, convertMySQLtoDB2(f, u)))
<1>1. CASE Packed(f)
  <2>1. \A x : convertMySQLtoDB2(f, x) = packedFrom(f, x) BY <1>1, OfPacked
  <2>2. QED BY <1>1, <2>1, PackedOrder DEF SameOrder
<1>2. CASE Plain(f)
  <2>1. \A x : convertMySQLtoDB2(f, x) = toInteger(f, x) /\ db2Order(f, x) = flipped(x)
    BY <1>2, OfInteger
  <2>2. CASE f.unsigned
    <3>1. \A x : myOrder(f, x) = Reverse(x) BY <1>2, <2>2, OfInteger
    <3>2. QED BY <1>2, <2>1, <2>2, <3>1, UnsignedOrder
  <2>3. CASE ~f.unsigned
    <3>1. \A x : myOrder(f, x) = flipped(Reverse(x)) BY <1>2, <2>3, OfInteger
    <3>2. QED BY <1>2, <2>1, <2>3, <3>1, SignedOrder
  <2>4. QED BY <2>2, <2>3
<1>3. CASE f.type \in {"FLOAT", "DOUBLE"}
  <2>1. \A x : db2Order(f, convertMySQLtoDB2(f, x)) = myOrder(f, x) BY <1>3, OfFloat
  <2>2. QED BY <2>1 DEF SameOrder
<1>4. CASE f.type \in {"DATE", "DATETIME", "TIME"}
  <2>1. \A x : myOrder(f, x) = x /\ db2Order(f, convertMySQLtoDB2(f, x)) = toDate(f, x) BY <1>4, OfDate
  <2>2. IsDate(f, v) /\ IsDate(f, u) BY <1>4, KindOfValue
  <2>3. QED BY <1>4, <2>1, <2>2, DateOrder
<1>5. CASE f.type = "YEAR"
  <2>1. \A x : myOrder(f, x) = <<x>> /\ db2Order(f, convertMySQLtoDB2(f, x)) = toYear(f, x) BY <1>5, OfYear
  <2>2. v \in Byte /\ u \in Byte BY <1>5, KindOfValue
  <2>3. QED BY <2>1, <2>2, YearOrder
<1>6. CASE f.type = "BIT"
  <2>1. \A x : myOrder(f, x) = x /\ db2Order(f, convertMySQLtoDB2(f, x)) = bitsOfRow(f, x) BY <1>6, OfBits
  <2>2. bitsOfRow(f, v) = v /\ bitsOfRow(f, u) = u BY <1>6, WholeBits
  <2>3. QED BY <2>1, <2>2 DEF SameOrder
<1>7. QED BY <1>1, <1>2, <1>3, <1>4, <1>5, <1>6, Kinds

-----------------------------------------------------------------------------
(* A key's part is sent as a row's.                                        *)
LEMMA KeyAsRow ==
  ASSUME NEW f, IsField(f), ~TooFar(f), NEW v, IsValue(f, v), NEW behind
  PROVE  convertKey(f, v, behind) = convertMySQLtoDB2(f, v)
<1>1. CASE f.type = "BIT"
  <2>1. convertKey(f, v, behind) = bitsOfKey(f, v, behind) BY <1>1 DEF convertKey
  <2>2. convertMySQLtoDB2(f, v) = bitsOfRow(f, v) BY <1>1, OfBits
  <2>3. QED BY <1>1, <2>1, <2>2, WholeBits
<1>2. CASE f.type # "BIT" BY <1>2 DEF convertKey
<1>3. QED BY <1>1, <1>2

(* A part of a row or of a key, NULL or a value, and its place in MySQL's  *)
(* and in DB2's order.                                                     *)
IsPart(f, p) == p = <<>> \/ (p = <<p[1]>> /\ IsValue(f, p[1]))
myRank(f, p) == IF p = <<>> THEN <<>> ELSE <<myOrder(f, p[1])>>
sentPart(f, p) == IF p = <<>> THEN <<>> ELSE <<convertMySQLtoDB2(f, p[1])>>
db2Rank(f, p) == IF p = <<>> THEN <<>> ELSE <<db2Order(f, p[1])>>
Faithful(f) == IsField(f) /\ Supported(f) /\ ~Shifted(f) /\ ~TooFar(f)
SamePart(a, b, x, y) == (PartBefore(a, b) <=> PartBefore(x, y)) /\ (a = b <=> x = y)

LEMMA PartsAgree ==
  ASSUME NEW f, Faithful(f), NEW p, IsPart(f, p), NEW q, IsPart(f, q)
  PROVE  SamePart(myRank(f, p), myRank(f, q),
                  db2Rank(f, sentPart(f, p)), db2Rank(f, sentPart(f, q)))
<1> DEFINE m(x) == myOrder(f, x[1])
           d(x) == db2Order(f, convertMySQLtoDB2(f, x[1]))
<1>1. \A x : x = <<>> => myRank(f, x) = <<>> /\ db2Rank(f, sentPart(f, x)) = <<>>
  BY DEF myRank, db2Rank, sentPart
<1>2. ASSUME NEW x, x # <<>> PROVE myRank(f, x) = <<m(x)>> /\ db2Rank(f, sentPart(f, x)) = <<d(x)>>
  <2> DEFINE c == convertMySQLtoDB2(f, x[1])
  <2> HIDE DEF c
  <2>1. <<c>> # <<>> /\ <<c>>[1] = c OBVIOUS
  <2>2. sentPart(f, x) = <<c>> BY <1>2 DEF sentPart, c
  <2>3. db2Rank(f, sentPart(f, x)) = <<db2Order(f, c)>> BY <2>1, <2>2 DEF db2Rank
  <2>4. QED BY <1>2, <2>3 DEF myRank, c
<1>3. ASSUME p # <<>>, q # <<>> PROVE SameOrder(m(p), m(q), d(p), d(q))
  <2>1. IsValue(f, p[1]) /\ IsValue(f, q[1]) BY <1>3 DEF IsPart
  <2>2. QED BY <2>1, OrderKept DEF Faithful
<1> HIDE DEF m, d
<1>4. \A x, y : /\ <<x>> # <<>> /\ <<y>> # <<>> /\ (<<x>> = <<y>> <=> x = y)
                /\ (PartBefore(<<x>>, <<y>>) <=> Before(x, y))
                /\ PartBefore(<<>>, <<y>>) /\ ~PartBefore(<<x>>, <<>>) /\ ~PartBefore(<<>>, <<>>)
  <2> SUFFICES ASSUME NEW x, NEW y
               PROVE  /\ <<x>> # <<>> /\ <<y>> # <<>> /\ (<<x>> = <<y>> <=> x = y)
                      /\ (PartBefore(<<x>>, <<y>>) <=> Before(x, y))
                      /\ PartBefore(<<>>, <<y>>) /\ ~PartBefore(<<x>>, <<>>) /\ ~PartBefore(<<>>, <<>>)
    OBVIOUS
  <2>1. <<x>> # <<>> /\ <<y>> # <<>> /\ (<<x>> = <<y>> <=> x = y) /\ <<x>>[1] = x /\ <<y>>[1] = y
    OBVIOUS
  <2>2. QED BY <2>1 DEF PartBefore
<1>5. CASE p = <<>> /\ q = <<>> BY <1>1, <1>5, <1>4 DEF SamePart
<1>6. CASE p = <<>> /\ q # <<>> BY <1>1, <1>2, <1>4, <1>6 DEF SamePart
<1>7. CASE p # <<>> /\ q = <<>> BY <1>1, <1>2, <1>4, <1>7 DEF SamePart
<1>8. CASE p # <<>> /\ q # <<>> BY <1>2, <1>3, <1>4, <1>8 DEF SamePart, SameOrder
<1>9. QED BY <1>5, <1>6, <1>7, <1>8

(* So it is with whole rows and keys, one table's at a time.               *)
IsRow(c, v) == v = [k \in DOMAIN c |-> v[k]] /\ \A k \in DOMAIN c : IsPart(c[k].field, v[k])
myRanksOf(c, v) == [k \in DOMAIN v |-> myRank(c[k].field, v[k])]
db2RanksOf(c, v) == [k \in DOMAIN v |-> db2Rank(c[k].field, v[k])]
sentOf(c, v) == [k \in DOMAIN v |-> sentPart(c[k].field, v[k])]

LEMMA RowsAgree ==
  ASSUME NEW c, \A k \in DOMAIN c : Faithful(c[k].field), DOMAIN c = 1..Len(c), Len(c) \in Nat,
         NEW v, IsRow(c, v), NEW u, IsRow(c, u)
  PROVE  /\ KeyBefore(myRanksOf(c, v), myRanksOf(c, u))
              <=> KeyBefore(db2RanksOf(c, sentOf(c, v)), db2RanksOf(c, sentOf(c, u)))
         /\ (myRanksOf(c, v) = myRanksOf(c, u))
              <=> (db2RanksOf(c, sentOf(c, v)) = db2RanksOf(c, sentOf(c, u)))
<1> DEFINE a == myRanksOf(c, v)
           b == myRanksOf(c, u)
           x == db2RanksOf(c, sentOf(c, v))
           y == db2RanksOf(c, sentOf(c, u))
           n == Len(c)
<1>1. /\ DOMAIN a = 1..n /\ DOMAIN b = 1..n /\ DOMAIN x = 1..n /\ DOMAIN y = 1..n
      /\ a = [k \in 1..n |-> a[k]] /\ b = [k \in 1..n |-> b[k]]
      /\ x = [k \in 1..n |-> x[k]] /\ y = [k \in 1..n |-> y[k]]
  BY DEF myRanksOf, db2RanksOf, sentOf, IsRow
<1>2. ASSUME NEW k \in 1..n PROVE SamePart(a[k], b[k], x[k], y[k])
  <2>1. /\ a[k] = myRank(c[k].field, v[k]) /\ b[k] = myRank(c[k].field, u[k])
        /\ x[k] = db2Rank(c[k].field, sentPart(c[k].field, v[k]))
        /\ y[k] = db2Rank(c[k].field, sentPart(c[k].field, u[k]))
    BY DEF myRanksOf, db2RanksOf, sentOf, IsRow
  <2>2. Faithful(c[k].field) /\ IsPart(c[k].field, v[k]) /\ IsPart(c[k].field, u[k]) BY DEF IsRow
  <2>3. QED BY <2>1, <2>2, PartsAgree
<1> HIDE DEF a, b, x, y
<1>3. \A k \in 1..n : (PartBefore(a[k], b[k]) <=> PartBefore(x[k], y[k])) /\ (a[k] = b[k] <=> x[k] = y[k])
  BY <1>2 DEF SamePart
<1>4. a = b <=> x = y
  <2>1. a = b <=> \A k \in 1..n : a[k] = b[k] BY <1>1
  <2>2. x = y <=> \A k \in 1..n : x[k] = y[k] BY <1>1
  <2>3. QED BY <1>3, <2>1, <2>2
<1>5. \A k \in 1..n : \A j \in 1..(k - 1) : j \in 1..n OBVIOUS
<1>6. KeyBefore(a, b) <=> \E k \in 1..n : PartBefore(a[k], b[k]) /\ \A j \in 1..(k - 1) : a[j] = b[j]
  BY <1>1 DEF KeyBefore
<1>7. KeyBefore(x, y) <=> \E k \in 1..n : PartBefore(x[k], y[k]) /\ \A j \in 1..(k - 1) : x[j] = y[j]
  BY <1>1 DEF KeyBefore
<1>8. KeyBefore(a, b) <=> KeyBefore(x, y) BY <1>3, <1>5, <1>6, <1>7
<1>9. QED BY <1>4, <1>8 DEF a, b, x, y

-----------------------------------------------------------------------------
(* What is true of every state: the table is one of the tables and has no  *)
(* column that DB2 has no type for, the row is a row of it, and DB2 has    *)
(* what was made of MySQL's row.                                           *)
IsTable(c) == c \in Tables /\ \A k \in DOMAIN c : Supported(c[k].field)
RowAsSent(c, m, d) == IsRow(c, m) /\ (\A k \in DOMAIN c : m[k] # <<>> => ~Refuses(c[k].field, m[k][1]))
                 /\ d = sentOf(c, m)
Survived(c, m, a) ==
  a.call = "fetch" =>
    \A k \in DOMAIN c : ~Shifted(c[k].field) =>
      a.row[k] = IF m[k] = <<>> THEN <<>> ELSE <<kept(c[k].field, m[k][1])>>
Found(c, m, a) ==
  a.call = "read" /\ a.found # "not understood"
  /\ (\A k \in DOMAIN c : ~Shifted(c[k].field) /\ ~TooFar(c[k].field))
  => (a.found = "row") =
       isMeant(a.flag, myRanksOf(c, SubSeq(m, 1, Len(a.key))), myRanksOf(c, a.key))

TableKept == cols = <<>> \/ IsTable(cols)
RowKept == (my = <<>> /\ db2Row = <<>>) \/ (cols # <<>> /\ RowAsSent(cols, my, db2Row))
NothingYet == cols = <<>> => answer.call = "none"
AccessInv == TableKept /\ RowKept /\ NothingYet /\ ValueSurvives

(* The columns of a table, and the parts they hold.                        *)
LEMMA TableColumns ==
  ASSUME NEW c, IsTable(c)
  PROVE  /\ DOMAIN c = 1..Len(c) /\ Len(c) \in Nat \ {0}
         /\ \A k \in DOMAIN c : IsField(c[k].field) /\ Supported(c[k].field)
         /\ \A k \in DOMAIN c : \A q \in c[k].values : IsPart(c[k].field, q)
<1>1. /\ DOMAIN c = 1..Len(c) /\ Len(c) \in Nat \ {0}
      /\ \A k \in DOMAIN c :
           /\ IsField(c[k].field)
           /\ \A q \in c[k].values :
                q = <<>> \/ \E v \in {q[1]} : q = <<v>> /\ IsValue(c[k].field, v)
  BY TablesAssumption DEF IsTable
<1>2. QED BY <1>1 DEF IsTable, IsPart

(* The state's operators, as functions of the state.                       *)
LEMMA Spelled ==
  /\ \A key : myRanks(key) = myRanksOf(cols, key) /\ db2Ranks(key) = db2RanksOf(cols, key)
  /\ ValueSurvives <=> Survived(cols, my, answer)
  /\ ReadFinds <=> Found(cols, my, answer)
<1>1. \A key : myRanks(key) = myRanksOf(cols, key)
  BY DEF myRanks, myRanksOf, myRank, fieldOf
<1>2. \A key : db2Ranks(key) = db2RanksOf(cols, key)
  BY DEF db2Ranks, db2RanksOf, db2Rank, fieldOf
<1>3. ValueSurvives <=> Survived(cols, my, answer)
  BY DEF ValueSurvives, Survived, columns, fieldOf
<1>4. ReadFinds <=> Found(cols, my, answer)
  BY <1>1 DEF ReadFinds, Found, columns, fieldOf
<1>5. QED BY <1>1, <1>2, <1>3, <1>4

(* What is written is a row.                                               *)
LEMMA RowOfTable ==
  ASSUME IsTable(cols), NEW v \in values
  PROVE  IsRow(cols, v) /\ v \in Seq(UNION {cols[k].values : k \in columns}) /\ Len(v) = Len(cols)
<1> DEFINE S == UNION {cols[k].values : k \in columns}
<1>1. v \in [columns -> S] /\ \A k \in columns : v[k] \in cols[k].values BY DEF values
<1> HIDE DEF S
<1>2. columns = 1..Len(cols) /\ Len(cols) \in Nat BY TableColumns DEF columns
<1>3. IsRow(cols, v)
  <2>1. v = [k \in columns |-> v[k]] BY <1>1
  <2>2. QED BY <1>1, <2>1, TableColumns DEF IsRow, columns
<1>4. v \in Seq(S) /\ Len(v) = Len(cols) BY <1>1, <1>2
<1>5. QED BY <1>3, <1>4 DEF S

(* A written row is with DB2 as it should be.                              *)
LEMMA WriteKeeps ==
  ASSUME IsTable(cols), cols # <<>>, NEW v \in values, ~refused(v)
  PROVE  RowAsSent(cols, v, prepareRowForWrite(v))
<1>1. IsRow(cols, v) BY RowOfTable
<1>2. \A k \in DOMAIN cols : v[k] # <<>> => ~Refuses(cols[k].field, v[k][1])
  BY <1>1 DEF refused, fieldOf, IsRow
<1>3. prepareRowForWrite(v) = sentOf(cols, v)
  BY <1>1 DEF prepareRowForWrite, sentOf, sentPart, columns, fieldOf, IsRow
<1>4. QED BY <1>1, <1>2, <1>3 DEF RowAsSent

(* What is fetched from it is what was written.                            *)
LEMMA FetchSurvives ==
  ASSUME IsTable(cols), RowAsSent(cols, my, db2Row)
  PROVE  Survived(cols, my, [call |-> "fetch", row |-> mungeDB2row])
<1> DEFINE a == [call |-> "fetch", row |-> mungeDB2row]
<1>1. ASSUME NEW k \in DOMAIN cols, ~Shifted(cols[k].field)
      PROVE  mungeDB2row[k] = IF my[k] = <<>> THEN <<>> ELSE <<kept(cols[k].field, my[k][1])>>
  <2> DEFINE f == cols[k].field
             d == convertMySQLtoDB2(f, my[k][1])
  <2>1. IsField(f) /\ Supported(f) BY TableColumns
  <2>2. IsPart(f, my[k]) /\ (my[k] # <<>> => ~Refuses(f, my[k][1])) /\ k \in DOMAIN my
    BY DEF RowAsSent, IsRow
  <2>3. db2Row[k] = sentPart(f, my[k]) BY <2>2 DEF RowAsSent, sentOf
  <2>4. mungeDB2row[k] = IF db2Row[k] = <<>> THEN <<>> ELSE <<convertDB2toMySQL(f, db2Row[k][1])>>
    BY DEF mungeDB2row, columns, fieldOf
  <2>5. CASE my[k] = <<>> BY <2>3, <2>4, <2>5 DEF sentPart
  <2>6. CASE my[k] # <<>>
    <3>1. IsValue(f, my[k][1]) /\ ~Refuses(f, my[k][1]) BY <2>2, <2>6 DEF IsPart
    <3>2. convertDB2toMySQL(f, d) = kept(f, my[k][1]) BY <1>1, <2>1, <3>1, EveryValueSurvives
    <3>3. sentPart(f, my[k]) = <<d>> BY <2>6 DEF sentPart
    <3> HIDE DEF d, f
    <3>4. <<d>> # <<>> /\ <<d>>[1] = d OBVIOUS
    <3>5. mungeDB2row[k] = <<kept(f, my[k][1])>> BY <2>3, <2>4, <3>2, <3>3, <3>4
    <3>6. QED BY <2>6, <3>5 DEF f
  <2>7. QED BY <2>5, <2>6
<1>2. a.row = mungeDB2row OBVIOUS
<1>3. QED BY <1>1, <1>2 DEF Survived

(* A whole key is sent as the row of its values would be.                  *)
LEMMA Whole ==
  ASSUME NEW n \in Nat, NEW v, v = [k \in 1..n |-> v[k]]
  PROVE  Len(v) = n /\ SubSeq(v, 1, n) = v /\ SubSeq(v, n + 1, n) = <<>> /\ v \o <<>> = v
<1> DEFINE S == {v[k] : k \in 1..n}
<1>1. v \in Seq(S) /\ Len(v) = n OBVIOUS
<1> HIDE DEF S
<1>2. SubSeq(v, 1, n) = v
  <2> DEFINE u == SubSeq(v, 1, n)
  <2>1. u \in Seq(S) /\ Len(u) = n /\ \A i \in 1..n : u[i] = v[i] BY <1>1
  <2>2. u = [i \in 1..n |-> u[i]] BY <2>1
  <2> HIDE DEF u
  <2>3. u = v BY <2>1, <2>2
  <2>4. QED BY <2>3 DEF u
<1>3. SubSeq(v, n + 1, n) = <<>> BY <1>1
<1>4. v \o <<>> = v BY <1>1
<1>5. QED BY <1>1, <1>2, <1>3, <1>4

(* A whole key is a row's values, with nothing behind.                     *)
LEMMA WholeKey ==
  ASSUME IsTable(cols), NEW key \in Keys, Len(key) = Len(cols),
         NEW rest \in {SubSeq(v, Len(key) + 1, Len(cols)) : v \in values}
  PROVE  key \in values /\ key \o rest = key
<1> DEFINE n == Len(cols)
<1>1. n \in Nat /\ columns = 1..n BY TableColumns DEF columns
<1>2. PICK v \in values, m \in columns : key = SubSeq(v, 1, m) BY DEF Keys
<1>3. PICK u \in values : rest = SubSeq(u, Len(key) + 1, n) OBVIOUS
<1>4. v = [k \in 1..n |-> v[k]] /\ u = [k \in 1..n |-> u[k]] BY RowOfTable, <1>1 DEF IsRow, columns
<1>5. m = n
  <2>1. v \in Seq(UNION {cols[k].values : k \in columns}) /\ Len(v) = n BY RowOfTable
  <2>2. Len(SubSeq(v, 1, m)) = m BY <1>1, <2>1
  <2>3. QED BY <1>2, <2>2
<1>6. key = v BY <1>1, <1>2, <1>4, <1>5, Whole
<1>7. rest = <<>> BY <1>1, <1>3, <1>4, Whole
<1>8. key \o <<>> = key BY <1>1, <1>4, <1>6, Whole
<1>9. QED BY <1>6, <1>7, <1>8

(* The buffer of a whole key is the row that would be sent.                *)
LEMMA KeySent ==
  ASSUME IsTable(cols), \A k \in DOMAIN cols : ~TooFar(cols[k].field), NEW key \in values, NEW behind
  PROVE  keyBuf(key, behind) = sentOf(cols, key)
<1>1. IsRow(cols, key) BY RowOfTable
<1>2. ASSUME NEW k \in DOMAIN key, key[k] # <<>>
      PROVE  convertKey(cols[k].field, key[k][1], behind) = convertMySQLtoDB2(cols[k].field, key[k][1])
  <2>1. k \in DOMAIN cols /\ IsPart(cols[k].field, key[k]) BY <1>1 DEF IsRow
  <2>2. IsField(cols[k].field) /\ ~TooFar(cols[k].field) /\ IsValue(cols[k].field, key[k][1])
    BY <1>2, <2>1, TableColumns DEF IsPart
  <2>3. QED BY <2>2, KeyAsRow
<1>3. \A k \in DOMAIN key :
        (IF key[k] = <<>> THEN <<>> ELSE <<convertKey(cols[k].field, key[k][1], behind)>>)
          = sentPart(cols[k].field, key[k])
  BY <1>2 DEF sentPart
<1>4. QED BY <1>3 DEF keyBuf, sentOf, fieldOf

(* DB2 finds the row with the orientation if MySQL means it by the flag.   *)
RanksAlike(a, b, x, y) == /\ KeyBefore(a, b) <=> KeyBefore(x, y)
                          /\ KeyBefore(b, a) <=> KeyBefore(y, x)
                          /\ a = b <=> x = y
FindsMeant(flag, a, b, x, y) ==
  /\ db2Finds(orientation(flag), x, y) <=> isMeant(flag, a, b)
  /\ db2Finds(orientation(flag), x, y) \in BOOLEAN /\ isMeant(flag, a, b) \in BOOLEAN

LEMMA FindsTheMeant ==
  ASSUME NEW flag \in Flags, NEW a, NEW b, NEW x, NEW y, RanksAlike(a, b, x, y)
  PROVE  FindsMeant(flag, a, b, x, y)
<1>0. /\ KeyBefore(a, b) <=> KeyBefore(x, y)
      /\ KeyBefore(b, a) <=> KeyBefore(y, x)
      /\ a = b <=> x = y
      /\ KeyBefore(a, b) \in BOOLEAN /\ KeyBefore(b, a) \in BOOLEAN
      /\ KeyBefore(x, y) \in BOOLEAN /\ KeyBefore(y, x) \in BOOLEAN
  <2>1. \A p, q : KeyBefore(p, q) \in BOOLEAN BY DEF KeyBefore
  <2>2. QED BY <2>1 DEF RanksAlike
<1>1. CASE flag = "HA_READ_KEY_EXACT" BY <1>0, <1>1 DEF orientation, db2Finds, isMeant, FindsMeant
<1>2. CASE flag = "HA_READ_KEY_OR_NEXT" BY <1>0, <1>2 DEF orientation, db2Finds, isMeant, FindsMeant
<1>3. CASE flag = "HA_READ_AFTER_KEY" BY <1>0, <1>3 DEF orientation, db2Finds, isMeant, FindsMeant
<1>4. CASE flag = "HA_READ_BEFORE_KEY" BY <1>0, <1>4 DEF orientation, db2Finds, isMeant, FindsMeant
<1>5. CASE flag = "HA_READ_PREFIX_LAST" BY <1>0, <1>5 DEF orientation, db2Finds, isMeant, FindsMeant
<1>6. CASE flag = "HA_READ_PREFIX_LAST_OR_PREV" BY <1>0, <1>6 DEF orientation, db2Finds, isMeant, FindsMeant
<1>7. QED BY <1>1, <1>2, <1>3, <1>4, <1>5, <1>6 DEF Flags

(* A read by a whole key finds the row if it is meant.                     *)
LEMMA ReadIsRight ==
  ASSUME IsTable(cols), RowAsSent(cols, my, db2Row), NEW key \in Keys, Len(key) = Len(cols),
         NEW rest \in {SubSeq(v, Len(key) + 1, Len(cols)) : v \in values},
         NEW behind, NEW flag \in Flags, NEW a,
         a.call = "read", a.key = key, a.flag = flag,
         a.found = IF refused(key \o rest) THEN "not understood"
                   ELSE IF db2Finds(orientation(flag), db2Ranks(SubSeq(db2Row, 1, Len(key \o rest))),
                                    db2Ranks(keyBuf(key \o rest, behind)))
                        THEN "row" ELSE "none"
  PROVE  Found(cols, my, a)
<1> SUFFICES ASSUME a.found # "not understood",
                    \A k \in DOMAIN cols : ~Shifted(cols[k].field) /\ ~TooFar(cols[k].field)
             PROVE  (a.found = "row") = isMeant(flag, myRanksOf(cols, SubSeq(my, 1, Len(key))),
                                                myRanksOf(cols, key))
  BY DEF Found
<1> DEFINE n == Len(cols)
           mine == myRanksOf(cols, my)
           its == myRanksOf(cols, key)
           sentRow == db2RanksOf(cols, sentOf(cols, my))
           sent == db2RanksOf(cols, sentOf(cols, key))
<1>1. n \in Nat /\ DOMAIN cols = 1..n BY TableColumns
<1>2. key \in values /\ key \o rest = key /\ Len(key) = n BY WholeKey
<1>3. IsRow(cols, my) /\ IsRow(cols, key) BY <1>2, RowOfTable DEF RowAsSent
<1>4. SubSeq(my, 1, n) = my BY <1>1, <1>3, Whole DEF IsRow
<1>5. db2Row = sentOf(cols, my) /\ SubSeq(db2Row, 1, n) = db2Row
  <2>1. DOMAIN my = 1..n BY <1>1, <1>3 DEF IsRow
  <2>2. db2Row = sentOf(cols, my) BY DEF RowAsSent
  <2>3. db2Row = [k \in 1..n |-> db2Row[k]] BY <2>1, <2>2 DEF sentOf
  <2>4. QED BY <1>1, <2>2, <2>3, Whole
<1>6. \A k \in DOMAIN cols : Faithful(cols[k].field) BY TableColumns DEF Faithful
<1>7. (KeyBefore(mine, its) <=> KeyBefore(sentRow, sent)) /\ (mine = its <=> sentRow = sent)
  BY <1>1, <1>3, <1>6, RowsAgree
<1>8. KeyBefore(its, mine) <=> KeyBefore(sent, sentRow) BY <1>1, <1>3, <1>6, RowsAgree
<1>9. keyBuf(key \o rest, behind) = sentOf(cols, key) BY <1>2, KeySent
<1>10. db2Ranks(SubSeq(db2Row, 1, Len(key \o rest))) = sentRow BY <1>2, <1>5, Spelled
<1>11. db2Ranks(keyBuf(key \o rest, behind)) = sent BY <1>9, Spelled
<1> DEFINE finds == db2Finds(orientation(flag), sentRow, sent)
           meant == isMeant(flag, mine, its)
<1>12. (finds <=> meant) /\ finds \in BOOLEAN /\ meant \in BOOLEAN
  <2> HIDE DEF mine, its, sentRow, sent
  <2>1. RanksAlike(mine, its, sentRow, sent) BY <1>7, <1>8 DEF RanksAlike
  <2>2. FindsMeant(flag, mine, its, sentRow, sent) BY <2>1, FindsTheMeant
  <2>3. QED BY <2>2 DEF FindsMeant
<1>13. a.found = IF finds THEN "row" ELSE "none" BY <1>10, <1>11
<1>14. isMeant(flag, myRanksOf(cols, SubSeq(my, 1, Len(key))), myRanksOf(cols, key)) = meant
  BY <1>2, <1>4
<1> HIDE DEF finds, meant
<1>15. (a.found = "row") <=> finds BY <1>13
<1>16. QED BY <1>12, <1>14, <1>15

-----------------------------------------------------------------------------
(* It is true at the start, and of every step.                             *)
LEMMA AccessStarts == KInit => AccessInv /\ ReadFinds
<1> SUFFICES ASSUME KInit PROVE AccessInv /\ ReadFinds OBVIOUS
<1>1. cols = <<>> /\ my = <<>> /\ db2Row = <<>> /\ answer.call = "none" BY DEF KInit, NoAnswer
<1>2. ValueSurvives /\ ReadFinds BY <1>1 DEF ValueSurvives, ReadFinds
<1>3. QED BY <1>1, <1>2 DEF AccessInv, TableKept, RowKept, NothingYet

(* Reading leaves all but the answer, and needs a row.                     *)
LEMMA AnsweringKeeps ==
  ASSUME AccessInv, UNCHANGED <<cols, my, db2Row>>, db2Row # <<>>
  PROVE  /\ TableKept' /\ RowKept' /\ NothingYet'
         /\ cols' = cols /\ my' = my /\ IsTable(cols) /\ RowAsSent(cols, my, db2Row)
<1>1. /\ cols' = cols /\ my' = my /\ IsTable(cols) /\ RowAsSent(cols, my, db2Row) /\ cols # <<>>
  BY DEF AccessInv, TableKept, RowKept
<1>2. TableKept' /\ RowKept' BY DEF AccessInv, TableKept, RowKept
<1>3. QED BY <1>1, <1>2 DEF NothingYet

(* The two properties, now and after a step.                               *)
LEMMA SpelledNow ==
  (ValueSurvives <=> Survived(cols, my, answer)) /\ (ReadFinds <=> Found(cols, my, answer))
BY Spelled

LEMMA SpelledNext ==
  /\ ValueSurvives' <=> Survived(cols', my', answer')
  /\ ReadFinds' <=> Found(cols', my', answer')
<1>1. ((ValueSurvives <=> Survived(cols, my, answer)) /\ (ReadFinds <=> Found(cols, my, answer)))'
  BY SpelledNow, PTL
<1>2. QED BY <1>1

LEMMA CreateKeeps ==
  ASSUME AccessInv, NEW t \in Tables, create(t)
  PROVE  AccessInv' /\ ReadFinds'
<1>1. /\ cols = <<>> /\ cols' = t /\ my' = my /\ db2Row' = db2Row /\ answer' = answer
      /\ \A k \in DOMAIN t : Supported(t[k].field)
  BY DEF create
<1>2. my = <<>> /\ db2Row = <<>> /\ answer.call = "none"
  BY <1>1 DEF AccessInv, RowKept, NothingYet
<1>3. IsTable(cols') BY <1>1 DEF IsTable
<1>4. Survived(cols', my', answer') /\ Found(cols', my', answer') BY <1>1, <1>2 DEF Survived, Found
<1>5. QED BY <1>1, <1>2, <1>3, <1>4, SpelledNext DEF AccessInv, TableKept, RowKept, NothingYet

LEMMA WritingKeeps ==
  ASSUME AccessInv, NEW v \in values, write_row(v)
  PROVE  AccessInv' /\ ReadFinds'
<1>1. cols # <<>> /\ cols' = cols /\ IsTable(cols) BY DEF write_row, AccessInv, TableKept
<1>2. answer'.call \in {"none", "write"} BY DEF write_row, NoAnswer
<1>3. Survived(cols', my', answer') /\ Found(cols', my', answer') BY <1>2 DEF Survived, Found
<1>4. RowKept'
  <2>1. CASE refused(v)
    <3>1. my' = my /\ db2Row' = db2Row BY <2>1 DEF write_row
    <3>2. QED BY <1>1, <3>1 DEF AccessInv, RowKept
  <2>2. CASE ~refused(v)
    <3>1. my' = v /\ db2Row' = prepareRowForWrite(v) BY <2>2 DEF write_row
    <3>2. RowAsSent(cols, v, prepareRowForWrite(v)) BY <1>1, <2>2, WriteKeeps
    <3>3. QED BY <1>1, <3>1, <3>2 DEF RowKept
  <2>3. QED BY <2>1, <2>2
<1>5. TableKept' /\ NothingYet' BY <1>1 DEF AccessInv, TableKept, NothingYet
<1>6. QED BY <1>3, <1>4, <1>5, SpelledNext DEF AccessInv

LEMMA FetchingKeeps ==
  ASSUME AccessInv, rnd_next
  PROVE  AccessInv' /\ ReadFinds'
<1>1. /\ UNCHANGED <<cols, my, db2Row>> /\ db2Row # <<>>
      /\ answer' = [call |-> "fetch", row |-> mungeDB2row]
  BY DEF rnd_next
<1>2. /\ TableKept' /\ RowKept' /\ NothingYet'
      /\ cols' = cols /\ my' = my /\ IsTable(cols) /\ RowAsSent(cols, my, db2Row)
  BY <1>1, AnsweringKeeps
<1>3. Survived(cols', my', answer') BY <1>1, <1>2, FetchSurvives
<1>4. answer'.call = "fetch" BY <1>1
<1>5. Found(cols', my', answer') BY <1>4 DEF Found
<1>6. QED BY <1>2, <1>3, <1>5, SpelledNext DEF AccessInv

LEMMA ReadingKeeps ==
  ASSUME AccessInv, NEW key \in Keys, NEW flag \in Flags, NEW behind,
         NEW rest \in {SubSeq(v, Len(key) + 1, Len(cols)) : v \in values},
         index_read(key, rest, behind, flag)
  PROVE  AccessInv' /\ (PrefixReads = FALSE => ReadFinds')
<1> DEFINE found == IF refused(key \o rest) THEN "not understood"
                    ELSE IF db2Finds(orientation(flag), db2Ranks(SubSeq(db2Row, 1, Len(key \o rest))),
                                     db2Ranks(keyBuf(key \o rest, behind)))
                         THEN "row" ELSE "none"
<1>1. /\ UNCHANGED <<cols, my, db2Row>> /\ db2Row # <<>> /\ (Len(key) = Len(cols) \/ PrefixReads)
      /\ answer' = [call |-> "read", key |-> key, flag |-> flag, found |-> found]
  BY DEF index_read
<1>2. /\ TableKept' /\ RowKept' /\ NothingYet'
      /\ cols' = cols /\ my' = my /\ IsTable(cols) /\ RowAsSent(cols, my, db2Row)
  BY <1>1, AnsweringKeeps
<1> HIDE DEF found
<1>3. /\ answer'.call = "read" /\ answer'.key = key /\ answer'.flag = flag /\ answer'.found = found
  BY <1>1
<1>4. Survived(cols', my', answer') BY <1>3 DEF Survived
<1>5. ASSUME PrefixReads = FALSE PROVE Found(cols', my', answer')
  <2>1. Len(key) = Len(cols) BY <1>1, <1>5
  <2>2. Found(cols, my, answer') BY <1>2, <1>3, <2>1, ReadIsRight DEF found
  <2>3. QED BY <1>2, <2>2
<1>6. QED BY <1>2, <1>4, <1>5, SpelledNext DEF AccessInv

LEMMA RangingKeeps ==
  ASSUME AccessInv, NEW min, NEW max, NEW equal, records_in_range(min, max, equal)
  PROVE  AccessInv' /\ ReadFinds'
<1>1. /\ UNCHANGED <<cols, my, db2Row>> /\ db2Row # <<>> BY DEF records_in_range
<1>2. answer'.call \in {"range", "empty range", "no estimate"}
  <2> DEFINE b == boundsOf(min, max, equal)
             unsendable == \/ min # NoLimit /\ refused(min[1].key)
                           \/ max # NoLimit /\ refused(max[1].key)
             range == [call |-> "range", min |-> min, max |-> max,
                       bounds |-> b.bounds, literals |-> b.literals]
             over == lessThanNull(min, max)
             none == b.failed \/ unsendable
  <2>1. answer' = CASE over -> [range EXCEPT !.call = "empty range"]
                    [] ~over /\ none -> [range EXCEPT !.call = "no estimate"]
                    [] OTHER -> range
    BY DEF records_in_range
  <2>2. /\ range.call = "range" /\ [range EXCEPT !.call = "empty range"].call = "empty range"
        /\ [range EXCEPT !.call = "no estimate"].call = "no estimate"
    OBVIOUS
  <2> HIDE DEF range, over, none
  <2>3. QED BY <2>1, <2>2
<1>3. /\ TableKept' /\ RowKept' /\ NothingYet' BY <1>1, AnsweringKeeps
<1>4. Survived(cols', my', answer') /\ Found(cols', my', answer') BY <1>2 DEF Survived, Found
<1>5. QED BY <1>3, <1>4, SpelledNext DEF AccessInv

LEMMA AccessStep ==
  ASSUME AccessInv, [KNext]_kvars
  PROVE  AccessInv' /\ (PrefixReads = FALSE /\ ReadFinds => ReadFinds')
<1>1. CASE UNCHANGED kvars
  <2>1. cols' = cols /\ my' = my /\ db2Row' = db2Row /\ answer' = answer BY <1>1 DEF kvars
  <2>2. ValueSurvives' /\ (ReadFinds => ReadFinds') BY <2>1, Spelled, SpelledNext DEF AccessInv
  <2>3. QED BY <2>1, <2>2 DEF AccessInv, TableKept, RowKept, NothingYet
<1>2. CASE \E t \in Tables : create(t) BY <1>2, CreateKeeps
<1>3. CASE \E v \in values : write_row(v) BY <1>3, WritingKeeps
<1>4. CASE rnd_next BY <1>4, FetchingKeeps
<1>5. CASE \E key \in Keys, flag \in Flags, behind \in {0, 255} :
             \E rest \in {SubSeq(v, Len(key) + 1, Len(cols)) : v \in values} :
                index_read(key, rest, behind, flag)
  BY <1>5, ReadingKeeps
<1>6. CASE \E min, max, equal : records_in_range(min, max, equal) BY <1>6, RangingKeeps
<1>7. QED BY <1>1, <1>2, <1>3, <1>4, <1>5, <1>6 DEF KNext

(* A value comes back from DB2 as it was written, whatever the column's    *)
(* type, the value's sign, its bytes and the digits DB2 has no room for,   *)
(* but for the types that are shifted (convertMySQLtoDB2,                  *)
(* convertDB2toMySQL).                                                     *)
THEOREM ValueAlwaysSurvives == KSpec => []ValueSurvives
<1>1. KInit => AccessInv BY AccessStarts
<1>2. AccessInv /\ [KNext]_kvars => AccessInv' BY AccessStep
<1>3. AccessInv => ValueSurvives BY DEF AccessInv
<1>4. QED BY <1>1, <1>2, <1>3, PTL DEF KSpec

(* A read by a whole key finds the row if and only if MySQL means it: for  *)
(* every type of column, DB2 has the bytes of the key in the order MySQL   *)
(* has the values in, and the orientation says what the flag says          *)
(* (index_read, convertMySQLtoDB2).                                        *)
THEOREM ReadAlwaysFinds ==
  ASSUME PrefixReads = FALSE
  PROVE  KSpec => []ReadFinds
<1>1. KInit => AccessInv /\ ReadFinds BY AccessStarts
<1>2. AccessInv /\ ReadFinds /\ [KNext]_kvars => AccessInv' /\ ReadFinds' BY AccessStep
<1>3. QED BY <1>1, <1>2, PTL DEF KSpec

-----------------------------------------------------------------------------
(* The bounds of a range, part by part.                                    *)

LEMMA Longer ==
  ASSUME NEW s, IsSequence(s), NEW e
  PROVE  /\ IsSequence(Append(s, e)) /\ Len(Append(s, e)) = Len(s) + 1 /\ Len(s) \in Nat
         /\ Append(s, e)[Len(s) + 1] = e /\ \A i \in 1..Len(s) : Append(s, e)[i] = s[i]
<1>1. PICK S : s \in Seq(S) BY DEF IsSequence
<1>2. s \in Seq(S \cup {e}) /\ e \in S \cup {e} BY <1>1
<1>3. Append(s, e) \in Seq(S \cup {e}) /\ Len(s) \in Nat BY <1>2
<1>4. QED BY <1>2, <1>3, AppendProperties DEF IsSequence

(* A limit has as many parts as its key, and the larger one counts.        *)
Sizes(min, max) == sizeOf(min) \in Nat /\ sizeOf(max) \in Nat
LEMMA Largest ==
  ASSUME NEW min, NEW max, Sizes(min, max)
  PROVE  /\ keyCnt(min, max) \in Nat \ {0}
         /\ keyCnt(min, max) \in {sizeOf(min), sizeOf(max), 1}
         /\ keyCnt(min, max) >= sizeOf(min) /\ keyCnt(min, max) >= sizeOf(max)
<1> DEFINE a == sizeOf(min)
           b == sizeOf(max)
           S == {a, b, 1}
<1>1. a \in Nat /\ b \in Nat BY DEF Sizes
<1> HIDE DEF a, b
<1>2. \E x \in S : \A y \in S : x >= y
  <2>1. CASE a >= b /\ a >= 1 BY <1>1, <2>1
  <2>2. CASE b >= a /\ b >= 1 BY <1>1, <2>2
  <2>3. CASE 1 >= a /\ 1 >= b BY <1>1, <2>3
  <2>4. QED BY <1>1, <2>1, <2>2, <2>3
<1>3. Max(S) \in S /\ \A y \in S : Max(S) >= y BY <1>2 DEF Max
<1>4. keyCnt(min, max) = Max(S) BY DEF keyCnt, a, b
<1> HIDE DEF S
<1>5. \A x \in S : x \in Nat BY <1>1 DEF S
<1>6. a \in S /\ b \in S /\ 1 \in S BY DEF S
<1>7. Max(S) >= 1 /\ Max(S) >= a /\ Max(S) >= b /\ Max(S) \in Nat BY <1>3, <1>5, <1>6
<1>8. QED BY <1>3, <1>4, <1>7 DEF S, a, b

(* What the loop has put together for the part j.                          *)
Placed(b, literals, j, limit) ==
  b.to = "literal" => b.at \in 1..Len(literals) /\ literals[b.at] = [part |-> j, value |-> partOf(limit, j)]
PartBound(min, max, equal, so, j) ==
  /\ \E n \in Nat : so.bounds[j].lo = LoBound(min, max, j, equal, n)
  /\ \E n \in Nat : so.bounds[j].hi = HiBound(min, max, j, equal, n)
  /\ Placed(so.bounds[j].lo, so.literals, j, min)
  /\ Placed(so.bounds[j].hi, so.literals, j, max)
  /\ so.bounds[j].lo = IsNull /\ so.bounds[j].hi.to = "literal" => so.failed
BoundsSoFar(min, max, equal, so, k) ==
  /\ IsSequence(so.bounds) /\ Len(so.bounds) = k /\ IsSequence(so.literals)
  /\ \A j \in 1..k : PartBound(min, max, equal, so, j)

(* A list of literals that goes on from another.                           *)
GoesOn(s, t) == /\ IsSequence(t) /\ Len(s) \in Nat /\ Len(t) \in Nat /\ Len(s) <= Len(t)
                /\ \A i \in 1..Len(s) : t[i] = s[i]
LEMMA LiteralGoesOn ==
  ASSUME NEW b, NEW limit, NEW k, NEW s, IsSequence(s), b.to = "literal" => b.at \in Nat
  PROVE  /\ GoesOn(s, Literal(b, limit, k, s))
         /\ b.to = "literal" /\ b.at = Len(s) + 1 => Placed(b, Literal(b, limit, k, s), k, limit)
<1> DEFINE e == [part |-> k, value |-> partOf(limit, k)]
           t == Literal(b, limit, k, s)
<1> HIDE DEF e
<1>1. t = IF b.to = "literal" /\ b.at > Len(s) THEN Append(s, e) ELSE s BY DEF Literal, e
<1>2. /\ IsSequence(Append(s, e)) /\ Len(Append(s, e)) = Len(s) + 1 /\ Len(s) \in Nat
      /\ Append(s, e)[Len(s) + 1] = e /\ \A i \in 1..Len(s) : Append(s, e)[i] = s[i]
  BY Longer
<1> HIDE DEF t
<1>3. GoesOn(s, t)
  <2>1. CASE t = s BY <1>2, <2>1 DEF GoesOn
  <2>2. CASE t = Append(s, e)
    <3>1. Len(t) = Len(s) + 1 /\ IsSequence(t) /\ \A i \in 1..Len(s) : t[i] = s[i] BY <1>2, <2>2
    <3>2. QED BY <1>2, <3>1 DEF GoesOn
  <2>3. QED BY <1>1, <2>1, <2>2
<1>4. ASSUME b.to = "literal", b.at = Len(s) + 1 PROVE Placed(b, t, k, limit)
  <2>1. t = Append(s, e) BY <1>1, <1>2, <1>4
  <2>2. Len(t) = Len(s) + 1 /\ t[b.at] = e BY <1>2, <1>4, <2>1
  <2>3. b.at \in 1..Len(t) BY <1>2, <1>4, <2>2
  <2>4. QED BY <2>2, <2>3 DEF Placed, e
<1>5. QED BY <1>3, <1>4 DEF t

LEMMA PlacedStill ==
  ASSUME NEW b, NEW s, NEW t, GoesOn(s, t), NEW k, NEW limit, Placed(b, s, k, limit)
  PROVE  Placed(b, t, k, limit)
<1>1. CASE b.to = "literal"
  <2>1. b.at \in 1..Len(s) /\ s[b.at] = [part |-> k, value |-> partOf(limit, k)] BY <1>1 DEF Placed
  <2>2. b.at \in 1..Len(t) /\ t[b.at] = s[b.at] BY <2>1 DEF GoesOn
  <2>3. QED BY <2>1, <2>2 DEF Placed
<1>2. CASE b.to # "literal" BY <1>2 DEF Placed
<1>3. QED BY <1>1, <1>2

(* The bounds of a part, whatever number their literals have.              *)
LEMMA LoKinds ==
  ASSUME NEW min, NEW max, Sizes(min, max), NEW k \in Nat, NEW equal, NEW n
  PROVE  /\ k > sizeOf(min) => LoBound(min, max, k, equal, n) = Infinity
         /\ k <= sizeOf(min) /\ partOf(min, k) # <<>> =>
              LoBound(min, max, k, equal, n) =
                At(n + 1, flagOf(min) # "HA_READ_KEY_EXACT" /\ ~samePart(min, max, k, equal))
         /\ k <= sizeOf(min) /\ partOf(min, k) = <<>> =>
              LoBound(min, max, k, equal, n) =
                IF k <= sizeOf(max) /\ (flagOf(min) = "HA_READ_KEY_EXACT" \/ partOf(max, k) = <<>>)
                THEN IsNull ELSE Infinity
<1>1. sizeOf(min) \in Nat BY DEF Sizes
<1>2. CASE k > sizeOf(min) BY <1>1, <1>2 DEF LoBound
<1>3. CASE k <= sizeOf(min)
  <2>1. ~(k > sizeOf(min)) BY <1>1, <1>3
  <2>2. QED BY <2>1 DEF LoBound
<1>4. QED BY <1>1, <1>2, <1>3
LEMMA HiKinds ==
  ASSUME NEW min, NEW max, Sizes(min, max), NEW k \in Nat, NEW equal, NEW n
  PROVE  /\ k > sizeOf(max) => HiBound(min, max, k, equal, n) = Infinity
         /\ k <= sizeOf(max) /\ partOf(max, k) = <<>> =>
              HiBound(min, max, k, equal, n) = IF min = NoLimit THEN Infinity ELSE IsNull
         /\ k <= sizeOf(max) /\ partOf(max, k) # <<>> =>
              HiBound(min, max, k, equal, n) =
                At(IF reuseLiteral(min, max, k) THEN n ELSE n + 1,
                   flagOf(max) = "HA_READ_BEFORE_KEY" /\ ~overrideInclusion(min, max, k, equal))
<1>1. sizeOf(max) \in Nat BY DEF Sizes
<1>2. CASE k > sizeOf(max) BY <1>1, <1>2 DEF HiBound
<1>3. CASE k <= sizeOf(max)
  <2>1. ~(k > sizeOf(max)) BY <1>1, <1>3
  <2>2. QED BY <2>1 DEF HiBound
<1>4. QED BY <1>1, <1>2, <1>3

LEMMA BoundKinds ==
  /\ Infinity.to = "infinity" /\ IsNull.to = "null" /\ IsNull # Infinity
  /\ \A n, x : At(n, x).to = "literal" /\ At(n, x).at = n /\ At(n, x).excluded = x
               /\ At(n, x) # IsNull /\ At(n, x) # Infinity
<1>1. Infinity.to = "infinity" /\ IsNull.to = "null" BY DEF Infinity, IsNull
<1>2. ASSUME NEW n, NEW x PROVE At(n, x).to = "literal" /\ At(n, x).at = n /\ At(n, x).excluded = x
  BY DEF At
<1>3. QED BY <1>1, <1>2

LEMMA LoPlaced ==
  ASSUME NEW min, NEW max, Sizes(min, max), NEW k \in Nat, NEW equal, NEW s, IsSequence(s)
  PROVE  LET lo == LoBound(min, max, k, equal, Len(s))
             t == Literal(lo, min, k, s)
         IN /\ GoesOn(s, t) /\ Placed(lo, t, k, min)
            /\ k <= sizeOf(min) /\ partOf(min, k) # <<>> =>
                 Len(t) \in 1..Len(t) /\ t[Len(t)] = [part |-> k, value |-> partOf(min, k)]
<1> DEFINE lo == LoBound(min, max, k, equal, Len(s))
           t == Literal(lo, min, k, s)
           x == flagOf(min) # "HA_READ_KEY_EXACT" /\ ~samePart(min, max, k, equal)
<1>1. Len(s) \in Nat BY Longer
<1>2. CASE k <= sizeOf(min) /\ partOf(min, k) # <<>>
  <2>1. lo = At(Len(s) + 1, x) BY <1>2, LoKinds
  <2> HIDE DEF lo, x
  <2>2. lo.to = "literal" /\ lo.at = Len(s) + 1 BY <2>1, BoundKinds
  <2>3. GoesOn(s, t) /\ Placed(lo, t, k, min) BY <1>1, <2>2, LiteralGoesOn
  <2>4. t = Append(s, [part |-> k, value |-> partOf(min, k)]) BY <1>1, <2>2 DEF Literal
  <2> HIDE DEF t
  <2>5. Len(t) = Len(s) + 1 /\ t[Len(s) + 1] = [part |-> k, value |-> partOf(min, k)] BY <2>4, Longer
  <2>6. QED BY <1>1, <2>3, <2>5 DEF lo, t
<1>3. CASE ~(k <= sizeOf(min) /\ partOf(min, k) # <<>>)
  <2>1. lo \in {Infinity, IsNull}
    <3>1. k > sizeOf(min) \/ (k <= sizeOf(min) /\ partOf(min, k) = <<>>) BY <1>3 DEF Sizes
    <3>2. QED BY <3>1, LoKinds
  <2> HIDE DEF lo
  <2>2. lo.to # "literal" BY <2>1, BoundKinds
  <2>3. t = s /\ Placed(lo, t, k, min) BY <2>2 DEF Literal, Placed
  <2>4. GoesOn(s, t) BY <1>1, <2>3 DEF GoesOn
  <2>5. QED BY <1>3, <2>3, <2>4 DEF lo
<1>4. QED BY <1>2, <1>3

LEMMA HiPlaced ==
  ASSUME NEW min, NEW max, Sizes(min, max), NEW k \in Nat, NEW equal, NEW s, IsSequence(s),
         k <= sizeOf(min) /\ partOf(min, k) # <<>> =>
           Len(s) \in 1..Len(s) /\ s[Len(s)] = [part |-> k, value |-> partOf(min, k)]
  PROVE  LET hi == HiBound(min, max, k, equal, Len(s))
             t == Literal(hi, max, k, s)
         IN GoesOn(s, t) /\ Placed(hi, t, k, max)
<1> DEFINE hi == HiBound(min, max, k, equal, Len(s))
           t == Literal(hi, max, k, s)
           x == flagOf(max) = "HA_READ_BEFORE_KEY" /\ ~overrideInclusion(min, max, k, equal)
<1>1. Len(s) \in Nat /\ sizeOf(min) \in Nat /\ sizeOf(max) \in Nat BY Longer DEF Sizes
<1>2. CASE k <= sizeOf(max) /\ partOf(max, k) # <<>> /\ ~reuseLiteral(min, max, k)
  <2>1. hi = At(Len(s) + 1, x) BY <1>2, HiKinds
  <2> HIDE DEF hi, x
  <2>2. hi.to = "literal" /\ hi.at = Len(s) + 1 BY <2>1, BoundKinds
  <2>3. GoesOn(s, t) /\ Placed(hi, t, k, max) BY <1>1, <2>2, LiteralGoesOn
  <2>4. QED BY <2>3 DEF hi
<1>3. CASE k <= sizeOf(max) /\ partOf(max, k) # <<>> /\ reuseLiteral(min, max, k)
  <2>1. hi = At(Len(s), x) BY <1>3, HiKinds
  <2> HIDE DEF hi, x
  <2>2. hi.to = "literal" /\ hi.at = Len(s) BY <2>1, BoundKinds
  <2>3. t = s BY <1>1, <2>2 DEF Literal
  <2>4. k <= sizeOf(min) /\ partOf(min, k) = partOf(max, k) BY <1>1, <1>3 DEF reuseLiteral, Min2
  <2>5. Len(s) \in 1..Len(s) /\ s[Len(s)] = [part |-> k, value |-> partOf(max, k)] BY <1>3, <2>4
  <2>6. Placed(hi, s, k, max) BY <2>2, <2>5 DEF Placed
  <2>7. GoesOn(s, s) BY <1>1 DEF GoesOn
  <2>8. QED BY <2>3, <2>6, <2>7 DEF hi
<1>4. CASE ~(k <= sizeOf(max) /\ partOf(max, k) # <<>>)
  <2>1. hi \in {Infinity, IsNull}
    <3>1. k > sizeOf(max) \/ (k <= sizeOf(max) /\ partOf(max, k) = <<>>) BY <1>1, <1>4
    <3>2. QED BY <3>1, HiKinds
  <2> HIDE DEF hi
  <2>2. hi.to # "literal" BY <2>1, BoundKinds
  <2>3. t = s /\ Placed(hi, t, k, max) BY <2>2 DEF Literal, Placed
  <2>4. GoesOn(s, t) BY <1>1, <2>3 DEF GoesOn
  <2>5. QED BY <2>3, <2>4 DEF hi
<1>5. QED BY <1>2, <1>3, <1>4

(* A part more.                                                            *)
LEMMA PartAdded ==
  ASSUME NEW min, NEW max, Sizes(min, max), NEW equal, NEW k \in Nat \ {0}, NEW so,
         BoundsSoFar(min, max, equal, so, k - 1)
  PROVE  BoundsSoFar(min, max, equal, boundPart(min, max, equal, so, k), k)
<1> DEFINE s == so.literals
           lo == LoBound(min, max, k, equal, Len(s))
           t == Literal(lo, min, k, s)
           hi == HiBound(min, max, k, equal, Len(t))
           u == Literal(hi, max, k, t)
           new == boundPart(min, max, equal, so, k)
<1>1. /\ IsSequence(so.bounds) /\ Len(so.bounds) = k - 1 /\ IsSequence(s)
      /\ \A j \in 1..(k - 1) : PartBound(min, max, equal, so, j)
  BY DEF BoundsSoFar
<1>2. /\ new.bounds = Append(so.bounds, [lo |-> lo, hi |-> hi]) /\ new.literals = u
      /\ new.failed = (so.failed \/ (lo = IsNull /\ hi.to = "literal"))
  BY DEF boundPart
<1>3. /\ GoesOn(s, t) /\ Placed(lo, t, k, min)
      /\ k <= sizeOf(min) /\ partOf(min, k) # <<>> =>
           Len(t) \in 1..Len(t) /\ t[Len(t)] = [part |-> k, value |-> partOf(min, k)]
  BY <1>1, LoPlaced
<1>4. IsSequence(t) /\ Len(s) \in Nat /\ Len(t) \in Nat BY <1>3 DEF GoesOn
<1> HIDE DEF t
<1>5. GoesOn(t, u) /\ Placed(hi, u, k, max) BY <1>3, <1>4, HiPlaced
<1>6. GoesOn(s, u)
  <2> HIDE DEF u, s
  <2>1. \A i \in 1..Len(s) : i \in 1..Len(t) BY <1>3 DEF GoesOn
  <2>2. QED BY <1>3, <1>5, <2>1 DEF GoesOn
<1>7. Placed(lo, u, k, min) BY <1>3, <1>5, PlacedStill
<1>8. (\E n \in Nat : lo = LoBound(min, max, k, equal, n)) /\ (\E n \in Nat : hi = HiBound(min, max, k, equal, n))
  BY <1>4
<1> HIDE DEF lo, hi, u, new, s
<1>9. /\ IsSequence(new.bounds) /\ Len(new.bounds) = k /\ new.bounds[k] = [lo |-> lo, hi |-> hi]
      /\ \A j \in 1..(k - 1) : new.bounds[j] = so.bounds[j]
  <2> DEFINE e == [lo |-> lo, hi |-> hi]
             b == so.bounds
  <2> HIDE DEF e, b
  <2>1. IsSequence(b) /\ Len(b) = k - 1 /\ new.bounds = Append(b, e) BY <1>1, <1>2 DEF e, b
  <2>2. /\ IsSequence(Append(b, e)) /\ Len(Append(b, e)) = Len(b) + 1
        /\ Append(b, e)[Len(b) + 1] = e /\ \A i \in 1..Len(b) : Append(b, e)[i] = b[i]
    BY <2>1, Longer
  <2>3. (k - 1) + 1 = k OBVIOUS
  <2>4. QED BY <2>1, <2>2, <2>3 DEF e, b
<1>10. IsSequence(new.literals) BY <1>2, <1>5 DEF GoesOn
<1>11. ASSUME NEW j \in 1..k PROVE PartBound(min, max, equal, new, j)
  <2>1. CASE j = k
    <3>1. new.bounds[j].lo = lo /\ new.bounds[j].hi = hi BY <1>9, <2>1
    <3>2. lo = IsNull /\ hi.to = "literal" => new.failed BY <1>2
    <3>3. QED BY <1>2, <1>5, <1>7, <1>8, <2>1, <3>1, <3>2 DEF PartBound
  <2>2. CASE j # k
    <3>1. j \in 1..(k - 1) BY <2>2
    <3>2. PartBound(min, max, equal, so, j) /\ new.bounds[j] = so.bounds[j] BY <1>1, <1>9, <3>1
    <3>3. /\ Placed(so.bounds[j].lo, new.literals, j, min)
          /\ Placed(so.bounds[j].hi, new.literals, j, max)
      <4>1. Placed(so.bounds[j].lo, s, j, min) /\ Placed(so.bounds[j].hi, s, j, max)
        BY <3>2 DEF PartBound, s
      <4>2. QED BY <1>2, <1>6, <4>1, PlacedStill
    <3>4. so.failed => new.failed BY <1>2
    <3>5. QED BY <3>2, <3>3, <3>4 DEF PartBound
  <2>3. QED BY <2>1, <2>2
<1>12. QED BY <1>9, <1>10, <1>11 DEF BoundsSoFar, new

Nothing == [bounds |-> <<>>, literals |-> <<>>, failed |-> FALSE]
Built(min, max, equal, so, k) ==
  IF k = 0 THEN Nothing ELSE boundPart(min, max, equal, so[k - 1], k)

LEMMA BuiltStepByStep ==
  ASSUME NEW min, NEW max, Sizes(min, max), NEW equal
  PROVE  \E so : /\ boundsOf(min, max, equal) = so[keyCnt(min, max)]
                 /\ \A k \in 0..keyCnt(min, max) : so[k] = Built(min, max, equal, so, k)
<1> DEFINE N == keyCnt(min, max)
           P == {m \in Nat : \E u : u = [k \in 0..m |-> Built(min, max, equal, u, k)]}
<1>1. N \in Nat BY Largest
<1> HIDE DEF N
<1>2. 0 \in P
  <2>1. [k \in 0..0 |-> Nothing] = [k \in 0..0 |-> Built(min, max, equal, [l \in 0..0 |-> Nothing], k)]
    BY DEF Built
  <2>2. QED BY <2>1
<1>3. ASSUME NEW m \in 0..N - 1, m \in P PROVE m + 1 \in P
  <2>1. PICK u : u = [k \in 0..m |-> Built(min, max, equal, u, k)] BY <1>3
  <2> DEFINE v == [k \in 0..m + 1 |-> IF k <= m THEN u[k] ELSE Built(min, max, equal, u, k)]
  <2>2. ASSUME NEW k \in 0..m + 1 PROVE v[k] = Built(min, max, equal, v, k)
    <3>1. k # 0 => k - 1 \in 0..m /\ v[k - 1] = u[k - 1] BY <1>1
    <3>2. Built(min, max, equal, v, k) = Built(min, max, equal, u, k) BY <3>1 DEF Built
    <3>3. k <= m => u[k] = Built(min, max, equal, u, k) BY <2>1
    <3>4. QED BY <3>2, <3>3
  <2>3. v = [k \in 0..m + 1 |-> Built(min, max, equal, v, k)] BY <2>2
  <2> HIDE DEF v
  <2>4. QED BY <2>3, <1>1
<1>4. N \in P
  <2> HIDE DEF P
  <2>1. \A m \in 0..N - 1 : m \in P => m + 1 \in P BY <1>3
  <2>2. \A m \in 0..N : m \in P BY <1>1, <1>2, <2>1, InductionUpTo
  <2>3. QED BY <1>1, <2>2
<1> DEFINE so == CHOOSE so : so = [k \in 0..N |-> Built(min, max, equal, so, k)]
<1>5. so = [k \in 0..N |-> Built(min, max, equal, so, k)] BY <1>4
<1>6. boundsOf(min, max, equal) = so[N] BY DEF boundsOf, Built, Nothing, N
<1> HIDE DEF so
<1>7. \A k \in 0..N : so[k] = Built(min, max, equal, so, k) BY <1>5
<1>8. QED BY <1>6, <1>7 DEF N

LEMMA BoundsBuilt ==
  ASSUME NEW min, NEW max, Sizes(min, max), NEW equal
  PROVE  BoundsSoFar(min, max, equal, boundsOf(min, max, equal), keyCnt(min, max))
<1> DEFINE N == keyCnt(min, max)
<1>1. N \in Nat BY Largest
<1> HIDE DEF N
<1>2. PICK so : /\ boundsOf(min, max, equal) = so[N]
                /\ \A k \in 0..N : so[k] = Built(min, max, equal, so, k)
  BY BuiltStepByStep DEF N
<1> DEFINE P == {m \in Nat : BoundsSoFar(min, max, equal, so[m], m)}
<1>3. 0 \in P
  <2>1. so[0] = Nothing BY <1>1, <1>2 DEF Built
  <2>2. <<>> \in Seq({}) /\ Len(<<>>) = 0 OBVIOUS
  <2>3. IsSequence(<<>>) BY <2>2 DEF IsSequence
  <2>4. BoundsSoFar(min, max, equal, Nothing, 0) BY <2>2, <2>3 DEF BoundsSoFar, Nothing
  <2>5. QED BY <2>1, <2>4
<1>4. ASSUME NEW m \in 0..N - 1, m \in P PROVE m + 1 \in P
  <2>1. m \in Nat /\ m + 1 \in 0..N /\ (m + 1) - 1 = m /\ m + 1 \in Nat \ {0} BY <1>1
  <2>2. so[m + 1] = boundPart(min, max, equal, so[m], m + 1)
    <3>1. so[m + 1] = Built(min, max, equal, so, m + 1) BY <1>2, <2>1
    <3>2. QED BY <2>1, <3>1 DEF Built
  <2>3. BoundsSoFar(min, max, equal, so[m], (m + 1) - 1) BY <1>4, <2>1
  <2>4. BoundsSoFar(min, max, equal, so[m + 1], m + 1) BY <2>1, <2>2, <2>3, PartAdded
  <2>5. QED BY <2>1, <2>4
<1>5. N \in P
  <2> HIDE DEF P
  <2>1. \A m \in 0..N - 1 : m \in P => m + 1 \in P BY <1>4
  <2>2. \A m \in 0..N : m \in P BY <1>1, <1>3, <2>1, InductionUpTo
  <2>3. QED BY <1>1, <2>2
<1>6. QED BY <1>2, <1>5 DEF N

-----------------------------------------------------------------------------
(* The values of a field stand in a line.                                  *)

(* One of two sequences is in front of the other, unless they are the same.*)
OneFirst(a, b) == /\ ~(Before(a, b) /\ Before(b, a))
                  /\ a = b => ~Before(a, b)
                  /\ Before(a, b) \/ Before(b, a) \/ a = b
LEMMA SequencesOrdered ==
  ASSUME NEW a \in Seq(Int), NEW b \in Seq(Int), Len(a) = Len(b)
  PROVE  OneFirst(a, b)
<1> DEFINE n == Len(a)
<1>1. n \in Nat /\ Len(b) = n /\ Min2(Len(a), Len(b)) = n /\ Min2(Len(b), Len(a)) = n BY DEF Min2
<1>2. \A i \in 1..n : a[i] \in Int /\ b[i] \in Int BY <1>1
<1>3. Before(a, b) <=> \E i \in 1..n : a[i] < b[i] /\ \A j \in 1..(i - 1) : a[j] = b[j] BY <1>1 DEF Before
<1>4. Before(b, a) <=> \E i \in 1..n : b[i] < a[i] /\ \A j \in 1..(i - 1) : b[j] = a[j] BY <1>1 DEF Before
<1>5. a = [i \in 1..n |-> a[i]] /\ b = [i \in 1..n |-> b[i]] BY <1>1
<1> HIDE DEF n
<1>6. ASSUME NEW i \in 1..n, a[i] < b[i], \A j \in 1..(i - 1) : a[j] = b[j],
             NEW k \in 1..n, b[k] < a[k], \A j \in 1..(k - 1) : b[j] = a[j]
      PROVE  FALSE
  <2>1. a[i] \in Int /\ b[i] \in Int /\ a[k] \in Int /\ b[k] \in Int BY <1>2
  <2>2. CASE i < k
    <3>1. i \in 1..(k - 1) BY <1>1, <2>2
    <3>2. QED BY <1>6, <2>1, <3>1
  <2>3. CASE k < i
    <3>1. k \in 1..(i - 1) BY <1>1, <2>3
    <3>2. QED BY <1>6, <2>1, <3>1
  <2>4. CASE i = k BY <1>6, <2>1, <2>4
  <2>5. QED BY <1>1, <2>2, <2>3, <2>4
<1>7. ~(Before(a, b) /\ Before(b, a)) BY <1>3, <1>4, <1>6
<1>8. a = b => ~Before(a, b) BY <1>7
<1>9. ASSUME a # b PROVE Before(a, b) \/ Before(b, a)
  <2> DEFINE T == {i \in 1..n : a[i] # b[i]}
  <2>1. T # {} /\ T \in SUBSET Nat BY <1>1, <1>5, <1>9
  <2>2. PICK i \in T : \A j \in T : i <= j BY <2>1, MinNat
  <2>3. i \in 1..n /\ a[i] # b[i] OBVIOUS
  <2>4. ASSUME NEW j \in 1..(i - 1) PROVE a[j] = b[j]
    <3>1. j \in 1..n /\ j < i BY <1>1, <2>3
    <3>2. j \notin T BY <1>1, <2>2, <2>3, <3>1
    <3>3. QED BY <3>1, <3>2
  <2>5. a[i] < b[i] \/ b[i] < a[i] BY <1>2, <2>3
  <2>6. QED BY <1>3, <1>4, <2>3, <2>4, <2>5
<1>10. QED BY <1>7, <1>8, <1>9 DEF OneFirst

(* The places of a field's values are sequences of numbers of one length.  *)
Long(s, n) == s \in Seq(Int) /\ Len(s) = n
LEMMA FloatingBytes ==
  ASSUME NEW be \in Seq(Byte), Len(be) > 0
  PROVE  Long(floating(be), Len(be))
<1>1. flipped(be) \in Seq(Byte) /\ Len(flipped(be)) = Len(be) BY Flipped
<1>2. flipped(be) \in Seq(Int) BY <1>1, BytesAreNumbers
<1> DEFINE t == [i \in DOMAIN be |-> 255 - be[i]]
<1>3. t \in Seq(Int) /\ Len(t) = Len(be)
  <2>1. \A i \in 1..Len(be) : be[i] \in Byte BY ElementOfSeq
  <2>2. \A x \in Byte : 255 - x \in Int BY DEF Byte
  <2>3. \A i \in 1..Len(be) : 255 - be[i] \in Int BY <2>1, <2>2
  <2>4. DOMAIN be = 1..Len(be) /\ Len(be) \in Nat OBVIOUS
  <2>5. t = [i \in 1..Len(be) |-> 255 - be[i]] BY <2>4
  <2>6. QED BY <2>3, <2>4, <2>5
<1>4. floating(be) = t \/ floating(be) = flipped(be) BY DEF floating
<1> HIDE DEF t
<1>5. QED BY <1>1, <1>2, <1>3, <1>4 DEF Long

LEMMA DecimalLong ==
  ASSUME NEW d, d.digits \in Seq(Digits)
  PROVE  Long(ofDecimal(d), Len(d.digits) + 1)
<1> DEFINE s == d.digits
           t == [i \in DOMAIN s |-> 9 - s[i]]
<1>1. s \in Seq(Int) /\ t \in Seq(Int) /\ Len(t) = Len(s) /\ Len(s) \in Nat
  <2>1. \A i \in 1..Len(s) : s[i] \in Digits BY ElementOfSeq
  <2>2. \A x \in Digits : x \in Int /\ 9 - x \in Int BY DEF Digits
  <2>3. \A i \in 1..Len(s) : s[i] \in Int /\ 9 - s[i] \in Int BY <2>1, <2>2
  <2>4. DOMAIN s = 1..Len(s) /\ Len(s) \in Nat /\ s = [i \in 1..Len(s) |-> s[i]] OBVIOUS
  <2>5. t = [i \in 1..Len(s) |-> 9 - s[i]] BY <2>4
  <2> HIDE DEF s, t
  <2>6. s \in Seq(Int) BY <2>3, <2>4
  <2>7. t \in Seq(Int) /\ Len(t) = Len(s) BY <2>3, <2>4, <2>5
  <2>8. QED BY <2>4, <2>6, <2>7
<1>2. ofDecimal(d) = <<0>> \o t \/ ofDecimal(d) = <<1>> \o s BY DEF ofDecimal
<1> HIDE DEF s, t
<1>3. <<0>> \in Seq(Int) /\ <<1>> \in Seq(Int) /\ Len(<<0>>) = 1 /\ Len(<<1>>) = 1 OBVIOUS
<1>4. Long(<<0>> \o t, Len(s) + 1) BY <1>1, <1>3 DEF Long
<1>5. Long(<<1>> \o s, Len(s) + 1) BY <1>1, <1>3 DEF Long
<1>6. QED BY <1>2, <1>4, <1>5 DEF s

LEMMA BytesLong == ASSUME NEW s \in Seq(Byte) PROVE Long(s, Len(s))
BY BytesAreNumbers DEF Long

LEMMA OneLength ==
  ASSUME NEW f, IsField(f), Supported(f)
  PROVE  \E n : \A v : IsValue(f, v) => Long(myOrder(f, v), n)
<1>1. CASE Packed(f)
  <2> SUFFICES ASSUME NEW v, IsValue(f, v) PROVE Long(myOrder(f, v), db2Precision(f) + 1) OBVIOUS
  <2> DEFINE d == [v EXCEPT !.digits = SubSeq(@, 1, Len(@) - truncationAmount(f))]
             p == db2Precision(f)
             t == truncationAmount(f)
  <2>1. /\ v = [neg |-> v.neg, digits |-> v.digits] /\ v.digits \in Seq(Digits)
        /\ Len(v.digits) = f.precision /\ t \in Nat /\ p \in Nat \ {0} /\ p + t = f.precision
    BY <1>1, NumberTypes
  <2>2. d.digits = SubSeq(v.digits, 1, Len(v.digits) - t) BY <2>1
  <2>3. Len(v.digits) = p + t BY <2>1
  <2> HIDE DEF d, p, t
  <2>4. Len(v.digits) - t = p BY <2>1, <2>3
  <2>5. d.digits \in Seq(Digits) /\ Len(d.digits) = p BY <2>1, <2>2, <2>3, <2>4
  <2>6. myOrder(f, v) = ofDecimal(d) BY <1>1, OfPacked DEF d, t
  <2>7. QED BY <2>5, <2>6, DecimalLong DEF p
<1>2. CASE Plain(f)
  <2> SUFFICES ASSUME NEW v, IsValue(f, v) PROVE Long(myOrder(f, v), Width[f.type]) OBVIOUS
  <2>1. v \in Seq(Byte) /\ Len(v) = Width[f.type] /\ Len(v) > 0
    <3>1. IsBytes(v, Width[f.type]) BY <1>2 DEF Plain, IsValue, Integers_, Width
    <3>2. Width[f.type] \in 1..8 BY <1>2, Widths
    <3>3. QED BY <3>1, <3>2 DEF IsBytes, Byte
  <2> DEFINE r == Reverse(v)
  <2>2. r \in Seq(Byte) /\ Len(r) = Len(v) BY <2>1, Reversed
  <2>3. myOrder(f, v) = r \/ myOrder(f, v) = flipped(r) BY <1>2, OfInteger
  <2> HIDE DEF r
  <2>4. flipped(r) \in Seq(Byte) /\ Len(flipped(r)) = Len(v) BY <2>1, <2>2, Flipped
  <2>5. QED BY <2>1, <2>2, <2>3, <2>4, BytesLong
<1>3. CASE f.type \in {"FLOAT", "DOUBLE"}
  <2> DEFINE n == IF f.type = "FLOAT" THEN 4 ELSE 8
  <2> SUFFICES ASSUME NEW v, IsValue(f, v) PROVE Long(myOrder(f, v), n) OBVIOUS
  <2>1. v \in Seq(Byte) /\ Len(v) = n
    <3>1. ~Packed(f) /\ f.type \notin Integers_ BY <1>3 DEF Packed, Integers_, Width
    <3>2. IsBytes(v, n) BY <1>3, <3>1 DEF IsValue
    <3>3. QED BY <3>2 DEF IsBytes, Byte
  <2>2. n > 0 OBVIOUS
  <2> HIDE DEF n
  <2>3. Reverse(v) \in Seq(Byte) /\ Len(Reverse(v)) = n BY <2>1, Reversed
  <2>4. myOrder(f, v) = floating(Reverse(v)) BY <1>3, OfFloat
  <2>5. QED BY <2>2, <2>3, <2>4, FloatingBytes
<1>4. CASE f.type \in {"DATE", "DATETIME", "TIME"}
  <2> DEFINE n == IF f.type = "DATETIME" THEN 6 ELSE 3
  <2> SUFFICES ASSUME NEW v, IsValue(f, v) PROVE Long(myOrder(f, v), n) OBVIOUS
  <2>1. IsDate(f, v) BY <1>4, KindOfValue
  <2>2. v \in Seq(Nat) /\ Len(v) = n BY <2>1 DEF IsDate
  <2>3. v \in Seq(Int) BY <2>2
  <2>4. myOrder(f, v) = v BY <1>4, OfDate
  <2>5. QED BY <2>2, <2>3, <2>4 DEF Long
<1>5. CASE f.type = "YEAR"
  <2> SUFFICES ASSUME NEW v, IsValue(f, v) PROVE Long(myOrder(f, v), 1) OBVIOUS
  <2>1. v \in Byte BY <1>5, KindOfValue
  <2>2. myOrder(f, v) = <<v>> BY <1>5, OfYear
  <2>3. v \in Int BY <2>1 DEF Byte
  <2>4. QED BY <2>2, <2>3 DEF Long
<1>6. CASE f.type = "BIT"
  <2> SUFFICES ASSUME NEW v, IsValue(f, v) PROVE Long(myOrder(f, v), (f.bits + 7) \div 8) OBVIOUS
  <2>1. v \in Seq(Byte) /\ Len(v) = (f.bits + 7) \div 8 BY <1>6, KindOfValue
  <2>2. myOrder(f, v) = v BY <1>6, OfBits
  <2>3. Long(v, Len(v)) BY <2>1, BytesLong
  <2>4. QED BY <2>1, <2>2, <2>3
<1>7. QED BY <1>1, <1>2, <1>3, <1>4, <1>5, <1>6, Kinds

(* So do the parts of a row or a key, NULL in front of all others.         *)
OnePartFirst(p, q) == /\ ~(PartBefore(p, q) /\ PartBefore(q, p))
                      /\ p = q => ~PartBefore(p, q)
                      /\ PartBefore(p, q) \/ PartBefore(q, p) \/ p = q
LEMMA PartsOrdered ==
  ASSUME NEW f, IsField(f), Supported(f), NEW p, IsPart(f, p), NEW q, IsPart(f, q)
  PROVE  OnePartFirst(myRank(f, p), myRank(f, q))
<1>1. \A x, y : /\ <<x>> # <<>> /\ (<<x>> = <<y>> <=> x = y)
                /\ (PartBefore(<<x>>, <<y>>) <=> Before(x, y))
                /\ PartBefore(<<>>, <<y>>) /\ ~PartBefore(<<x>>, <<>>) /\ ~PartBefore(<<>>, <<>>)
  <2> SUFFICES ASSUME NEW x, NEW y
               PROVE  /\ <<x>> # <<>> /\ (<<x>> = <<y>> <=> x = y)
                      /\ (PartBefore(<<x>>, <<y>>) <=> Before(x, y))
                      /\ PartBefore(<<>>, <<y>>) /\ ~PartBefore(<<x>>, <<>>) /\ ~PartBefore(<<>>, <<>>)
    OBVIOUS
  <2>1. <<x>> # <<>> /\ <<y>> # <<>> /\ (<<x>> = <<y>> <=> x = y) /\ <<x>>[1] = x /\ <<y>>[1] = y
    OBVIOUS
  <2>2. QED BY <2>1 DEF PartBefore
<1>2. p = <<>> => myRank(f, p) = <<>> BY DEF myRank
<1>3. q = <<>> => myRank(f, q) = <<>> BY DEF myRank
<1>4. p # <<>> => myRank(f, p) = <<myOrder(f, p[1])>> BY DEF myRank
<1>5. q # <<>> => myRank(f, q) = <<myOrder(f, q[1])>> BY DEF myRank
<1>6. CASE p = <<>> /\ q = <<>> BY <1>1, <1>2, <1>3, <1>6 DEF OnePartFirst
<1>7. CASE p = <<>> /\ q # <<>>
  <2>1. myRank(f, p) = <<>> /\ myRank(f, q) = <<myOrder(f, q[1])>> BY <1>2, <1>5, <1>7
  <2>2. QED BY <1>1, <2>1 DEF OnePartFirst
<1>8. CASE p # <<>> /\ q = <<>>
  <2>1. myRank(f, q) = <<>> /\ myRank(f, p) = <<myOrder(f, p[1])>> BY <1>3, <1>4, <1>8
  <2>2. QED BY <1>1, <2>1 DEF OnePartFirst
<1>9. CASE p # <<>> /\ q # <<>>
  <2>1. PICK n : \A v : IsValue(f, v) => Long(myOrder(f, v), n) BY OneLength
  <2>2. IsValue(f, p[1]) /\ IsValue(f, q[1]) BY <1>9 DEF IsPart
  <2>3. Long(myOrder(f, p[1]), n) /\ Long(myOrder(f, q[1]), n) BY <2>1, <2>2
  <2>4. OneFirst(myOrder(f, p[1]), myOrder(f, q[1])) BY <2>3, SequencesOrdered DEF Long
  <2>5. QED BY <1>1, <1>4, <1>5, <1>9, <2>4 DEF OnePartFirst, OneFirst
<1>10. QED BY <1>6, <1>7, <1>8, <1>9

-----------------------------------------------------------------------------
(* A row between the ends of a range has what the ends have in common, and *)
(* is between their last parts.                                            *)

Ahead(a, b, n) == \E k \in 1..n : PartBefore(a[k], b[k]) /\ \A j \in 1..(k - 1) : a[j] = b[j]
Alike(a, b, n) == \A k \in 1..n : a[k] = b[k]
Upwards(a, n, b, closed) == Ahead(a, b, n) \/ (Alike(a, b, n) /\ closed)
Above(p, q, closed) == PartBefore(p, q) \/ (p = q /\ closed)

(* The row is ahead of the end or like it at all parts but the last.       *)
LEMMA InCommon ==
  ASSUME NEW n \in Nat \ {0}, NEW a, NEW r, NEW b, NEW na \in {n - 1, n}, NEW nb \in {n - 1, n},
         NEW lo, NEW hi, \A k \in 1..(n - 1) : a[k] = b[k],
         \A k \in 1..(n - 1) : OnePartFirst(a[k], r[k]),
         Upwards(a, na, r, lo), Upwards(r, nb, b, hi)
  PROVE  Alike(a, r, n - 1)
<1>1. \A j \in 1..(n - 1) : j \in 1..na /\ j \in 1..nb OBVIOUS
<1>2. CASE Alike(a, r, na) BY <1>1, <1>2 DEF Alike
<1>3. CASE Alike(r, b, nb) BY <1>1, <1>3 DEF Alike
<1>4. CASE Ahead(a, r, na) /\ Ahead(r, b, nb)
  <2>1. PICK k \in 1..na : PartBefore(a[k], r[k]) /\ \A j \in 1..(k - 1) : a[j] = r[j]
    BY <1>4 DEF Ahead
  <2>2. PICK l \in 1..nb : PartBefore(r[l], b[l]) /\ \A j \in 1..(l - 1) : r[j] = b[j]
    BY <1>4 DEF Ahead
  <2>3. CASE k = n BY <2>1, <2>3 DEF Alike
  <2>4. CASE l = n BY <2>2, <2>4 DEF Alike
  <2>5. CASE k \in 1..(n - 1) /\ l \in 1..(n - 1)
    <3>1. OnePartFirst(a[k], r[k]) /\ OnePartFirst(a[l], r[l]) /\ a[k] = b[k] /\ a[l] = b[l] BY <2>5
    <3>2. CASE k < l
      <4>1. k \in 1..(l - 1) BY <2>5, <3>2
      <4>2. r[k] = a[k] BY <2>2, <3>1, <4>1
      <4>3. QED BY <2>1, <3>1, <4>2 DEF OnePartFirst
    <3>3. CASE l < k
      <4>1. l \in 1..(k - 1) BY <2>5, <3>3
      <4>2. r[l] = a[l] /\ PartBefore(a[l], r[l]) BY <2>1, <2>2, <3>1, <4>1
      <4>3. QED BY <3>1, <4>2 DEF OnePartFirst
    <3>4. CASE k = l
      <4>1. PartBefore(a[k], r[k]) /\ PartBefore(r[k], a[k]) BY <2>1, <2>2, <3>1, <3>4
      <4>2. QED BY <3>1, <4>1 DEF OnePartFirst
    <3>5. QED BY <2>5, <3>2, <3>3, <3>4
  <2>6. QED BY <2>1, <2>2, <2>3, <2>4, <2>5
<1>5. QED BY <1>2, <1>3, <1>4 DEF Upwards

(* Then the last parts decide, if there are any.                           *)
LEMMA LastDecides ==
  ASSUME NEW n \in Nat \ {0}, NEW a, NEW b, NEW m \in {n - 1, n}, NEW closed,
         Alike(a, b, n - 1), \A k \in 1..(n - 1) : ~PartBefore(a[k], b[k]), m = n - 1 => closed
  PROVE  Upwards(a, m, b, closed) <=> (m = n => Above(a[n], b[n], closed))
<1>1. CASE m = n - 1
  <2>1. Alike(a, b, m) /\ closed BY <1>1
  <2>2. m # n BY <1>1
  <2>3. QED BY <2>1, <2>2 DEF Upwards
<1>2. CASE m = n
  <2>1. Ahead(a, b, n) <=> PartBefore(a[n], b[n])
    <3>1. ASSUME PartBefore(a[n], b[n]) PROVE Ahead(a, b, n)
      <4>1. n \in 1..n OBVIOUS
      <4>2. QED BY <3>1, <4>1 DEF Ahead, Alike
    <3>2. ASSUME Ahead(a, b, n) PROVE PartBefore(a[n], b[n])
      <4>1. PICK k \in 1..n : PartBefore(a[k], b[k]) BY <3>2 DEF Ahead
      <4>2. k \notin 1..(n - 1) BY <4>1
      <4>3. k = n BY <4>2
      <4>4. QED BY <4>1, <4>3
    <3>3. QED BY <3>1, <3>2
  <2>2. Alike(a, b, n) <=> a[n] = b[n]
    <3>1. \A k \in 1..n : k \in 1..(n - 1) \/ k = n OBVIOUS
    <3>2. n \in 1..n OBVIOUS
    <3>3. QED BY <3>1, <3>2 DEF Alike
  <2>3. QED BY <1>2, <2>1, <2>2 DEF Upwards, Above
<1>3. QED BY <1>1, <1>2

(* The ranks of a table's key, and of the row's first columns.             *)
IsKey(c, key) == /\ Len(key) \in 1..Len(c) /\ key = [k \in 1..Len(key) |-> key[k]]
                 /\ \A k \in 1..Len(key) : IsPart(c[k].field, key[k])
LEMMA KeysOfTable ==
  ASSUME IsTable(cols), NEW key \in Keys
  PROVE  IsKey(cols, key)
<1> DEFINE n == Len(cols)
           S == UNION {cols[k].values : k \in columns}
<1>1. n \in Nat \ {0} /\ columns = 1..n BY TableColumns DEF columns
<1>2. PICK v \in values, m \in columns : key = SubSeq(v, 1, m) BY DEF Keys
<1>3. IsRow(cols, v) /\ v \in Seq(S) /\ Len(v) = n BY RowOfTable
<1> HIDE DEF S, n
<1>4. m \in 1..n /\ m \in Nat BY <1>1
<1>5. Len(key) = m /\ key \in Seq(S) /\ \A k \in 1..m : key[k] = v[k] BY <1>1, <1>2, <1>3, <1>4
<1>6. key = [k \in 1..m |-> key[k]] BY <1>5
<1>7. \A k \in 1..m : IsPart(cols[k].field, key[k])
  <2>1. \A k \in 1..m : k \in DOMAIN cols BY <1>1, <1>4 DEF columns
  <2>2. QED BY <1>3, <1>5, <2>1 DEF IsRow
<1>8. QED BY <1>4, <1>5, <1>6, <1>7 DEF IsKey, n

LEMMA KeyRanks ==
  ASSUME NEW c, DOMAIN c = 1..Len(c), Len(c) \in Nat, NEW m, IsRow(c, m), NEW key, IsKey(c, key)
  PROVE  LET n == Len(key)
             a == myRanksOf(c, key)
             r == myRanksOf(c, m)
             s == myRanksOf(c, SubSeq(m, 1, n))
         IN /\ KeyBefore(a, s) <=> Ahead(a, r, n)
            /\ KeyBefore(s, a) <=> Ahead(r, a, n)
            /\ s = a <=> Alike(a, r, n)
            /\ s = a <=> Alike(r, a, n)
<1> DEFINE n == Len(key)
           a == myRanksOf(c, key)
           r == myRanksOf(c, m)
           S == {m[k] : k \in DOMAIN c}
           u == SubSeq(m, 1, n)
           s == myRanksOf(c, u)
<1>1. n \in 1..Len(c) /\ n \in Nat /\ DOMAIN key = 1..n BY DEF IsKey
<1>2. m \in Seq(S) /\ Len(m) = Len(c) /\ DOMAIN m = 1..Len(c) BY DEF IsRow
<1> HIDE DEF n, S
<1>3. u \in Seq(S) /\ Len(u) = n /\ \A k \in 1..n : u[k] = m[k] BY <1>1, <1>2
<1>4. DOMAIN u = 1..n BY <1>1, <1>3
<1> HIDE DEF u
<1>5. DOMAIN s = 1..n /\ DOMAIN a = 1..n /\ s = [k \in 1..n |-> s[k]] /\ a = [k \in 1..n |-> a[k]]
  BY <1>1, <1>4 DEF myRanksOf
<1>6. \A k \in 1..n : s[k] = r[k]
  <2>1. \A k \in 1..n : k \in DOMAIN m BY <1>1, <1>2
  <2>2. QED BY <1>3, <1>4, <2>1 DEF myRanksOf
<1> HIDE DEF s, a, r
<1>7. \A k \in 1..n : \A j \in 1..(k - 1) : j \in 1..n BY <1>1
<1>8. KeyBefore(a, s) <=> \E k \in 1..n : PartBefore(a[k], s[k]) /\ \A j \in 1..(k - 1) : a[j] = s[j]
  BY <1>5 DEF KeyBefore
<1>9. KeyBefore(s, a) <=> \E k \in 1..n : PartBefore(s[k], a[k]) /\ \A j \in 1..(k - 1) : s[j] = a[j]
  BY <1>5 DEF KeyBefore
<1>10. KeyBefore(a, s) <=> Ahead(a, r, n) BY <1>6, <1>7, <1>8 DEF Ahead
<1>11. KeyBefore(s, a) <=> Ahead(r, a, n) BY <1>6, <1>7, <1>9 DEF Ahead
<1>12. s = a <=> \A k \in 1..n : s[k] = a[k] BY <1>5
<1>13. (s = a <=> Alike(a, r, n)) /\ (s = a <=> Alike(r, a, n)) BY <1>6, <1>12 DEF Alike
<1>14. QED BY <1>10, <1>11, <1>13 DEF n, a, r, s, u

(* The limits of a range: what IsRange says of them.                       *)
IsLimit(c, l, flags) ==
  l = NoLimit \/ \E key, flag : l = <<[key |-> key, flag |-> flag]>> /\ IsKey(c, key) /\ flag \in flags
MinFlags == {"HA_READ_KEY_EXACT", "HA_READ_AFTER_KEY"}
MaxFlags == {"HA_READ_BEFORE_KEY", "HA_READ_AFTER_KEY"}
RangeEnds(c, min, max) ==
  LET n == keyCnt(min, max)
  IN /\ IsLimit(c, min, MinFlags) /\ IsLimit(c, max, MaxFlags)
     /\ sizeOf(min) \in {n - 1, n} /\ sizeOf(max) \in {n - 1, n}
     /\ \A k \in 1..(n - 1) : partOf(min, k) = partOf(max, k)
     /\ min # NoLimit /\ sizeOf(min) = n - 1 => flagOf(min) = "HA_READ_KEY_EXACT"
     /\ max # NoLimit /\ sizeOf(max) = n - 1 => flagOf(max) = "HA_READ_AFTER_KEY"
     /\ sizeOf(max) = n /\ partOf(max, n) = <<>> => sizeOf(min) = n

LEMMA LimitIs ==
  ASSUME NEW c, NEW flags, NEW l, IsLimit(c, l, flags), l # NoLimit
  PROVE  /\ IsKey(c, l[1].key) /\ l[1].flag \in flags /\ sizeOf(l) = Len(l[1].key) /\ flagOf(l) = l[1].flag
<1>1. PICK key, flag : l = <<[key |-> key, flag |-> flag]>> /\ IsKey(c, key) /\ flag \in flags BY DEF IsLimit
<1> DEFINE x == [key |-> key, flag |-> flag]
<1>2. x.key = key /\ x.flag = flag OBVIOUS
<1> HIDE DEF x
<1>3. l[1] = x BY <1>1 DEF x
<1>4. l[1].key = key /\ l[1].flag = flag BY <1>2, <1>3
<1>5. QED BY <1>1, <1>4 DEF sizeOf, flagOf

LEMMA EndsOfRange ==
  ASSUME IsTable(cols), NEW min \in limits(MinFlags), NEW max \in limits(MaxFlags), IsRange(min, max)
  PROVE  RangeEnds(cols, min, max)
<1> DEFINE n == keyCnt(min, max)
           a == IF min = NoLimit THEN <<>> ELSE min[1].key
           b == IF max = NoLimit THEN <<>> ELSE max[1].key
<1>1. IsLimit(cols, min, MinFlags)
  <2>1. min = NoLimit \/ \E key \in Keys, flag \in MinFlags : min = <<[key |-> key, flag |-> flag]>>
    BY DEF limits
  <2>2. QED BY <2>1, KeysOfTable DEF IsLimit
<1>2. IsLimit(cols, max, MaxFlags)
  <2>1. max = NoLimit \/ \E key \in Keys, flag \in MaxFlags : max = <<[key |-> key, flag |-> flag]>>
    BY DEF limits
  <2>2. QED BY <2>1, KeysOfTable DEF IsLimit
<1>3. sizeOf(min) = Len(a) /\ sizeOf(max) = Len(b)
  <2>1. Len(<<>>) = 0 OBVIOUS
  <2>2. QED BY <2>1 DEF sizeOf
<1>4. sizeOf(min) \in Nat /\ sizeOf(max) \in Nat
  <2>1. ASSUME NEW key, IsKey(cols, key) PROVE Len(key) \in Nat
    BY <2>1, TableColumns DEF IsKey
  <2>2. QED BY <1>1, <1>2, <2>1, LimitIs DEF sizeOf
<1>5. n \in Nat \ {0} BY <1>4, Largest DEF Sizes
<1>6. /\ Len(a) \in {n - 1, n} /\ Len(b) \in {n - 1, n}
      /\ \A k \in 1..(n - 1) : a[k] = b[k]
      /\ min # NoLimit /\ Len(a) = n - 1 => flagOf(min) = "HA_READ_KEY_EXACT"
      /\ max # NoLimit /\ Len(b) = n - 1 => flagOf(max) = "HA_READ_AFTER_KEY"
      /\ Len(b) = n /\ b[n] = <<>> => Len(a) = n
  BY DEF IsRange
<1>7. \A k \in 1..(n - 1) : partOf(min, k) = a[k] /\ partOf(max, k) = b[k]
  <2> SUFFICES ASSUME NEW k \in 1..(n - 1) PROVE partOf(min, k) = a[k] /\ partOf(max, k) = b[k] OBVIOUS
  <2>1. sizeOf(min) # 0 /\ sizeOf(max) # 0 BY <1>3, <1>5, <1>6
  <2>2. min # NoLimit /\ max # NoLimit BY <2>1 DEF sizeOf
  <2>3. QED BY <2>2 DEF partOf
<1>8. sizeOf(max) = n => partOf(max, n) = b[n]
  <2>1. max = NoLimit => sizeOf(max) = 0 BY DEF sizeOf
  <2>2. QED BY <1>5, <2>1 DEF partOf
<1> HIDE DEF n, a, b
<1>9. QED BY <1>1, <1>2, <1>3, <1>6, <1>7, <1>8 DEF RangeEnds, n

(* The places of a limit's parts, and of a row's.                          *)
ranksOf(c, l) == IF l = NoLimit THEN <<>> ELSE myRanksOf(c, l[1].key)
LEMMA LimitRank ==
  ASSUME NEW c, IsTable(c), NEW flags, NEW l, IsLimit(c, l, flags)
  PROVE  /\ sizeOf(l) \in Nat /\ sizeOf(l) <= Len(c) /\ (sizeOf(l) = 0 <=> l = NoLimit)
         /\ \A k \in 1..sizeOf(l) : /\ ranksOf(c, l)[k] = myRank(c[k].field, partOf(l, k))
                                    /\ IsPart(c[k].field, partOf(l, k))
<1>1. Len(c) \in Nat \ {0} BY TableColumns
<1>2. CASE l = NoLimit BY <1>1, <1>2 DEF sizeOf
<1>3. CASE l # NoLimit
  <2> DEFINE key == l[1].key
  <2>1. IsKey(c, key) /\ sizeOf(l) = Len(key) BY <1>3, LimitIs
  <2>2. sizeOf(l) \in 1..Len(c) /\ DOMAIN key = 1..sizeOf(l) BY <2>1 DEF IsKey
  <2>3. ranksOf(c, l) = myRanksOf(c, key) /\ \A k : partOf(l, k) = key[k] BY <1>3 DEF ranksOf, partOf
  <2> HIDE DEF key
  <2>4. \A k \in 1..sizeOf(l) : ranksOf(c, l)[k] = myRank(c[k].field, key[k])
    BY <2>2, <2>3 DEF myRanksOf
  <2>5. \A k \in 1..sizeOf(l) : IsPart(c[k].field, key[k]) BY <2>1 DEF IsKey
  <2>6. QED BY <1>1, <1>3, <2>2, <2>3, <2>4, <2>5
<1>4. QED BY <1>2, <1>3

LEMMA RowRank ==
  ASSUME NEW c, IsTable(c), NEW m, IsRow(c, m), NEW k \in 1..Len(c)
  PROVE  myRanksOf(c, m)[k] = myRank(c[k].field, m[k]) /\ IsPart(c[k].field, m[k]) /\ k \in DOMAIN c
<1>1. k \in DOMAIN c BY TableColumns
<1>2. QED BY <1>1 DEF IsRow, myRanksOf

(* The sizes of the ends, and their order against a row.                   *)
LEMMA EndRanks ==
  ASSUME NEW c, IsTable(c), NEW m, IsRow(c, m), NEW min, NEW max, RangeEnds(c, min, max),
         NEW n, n = keyCnt(min, max)
  PROVE  /\ n \in Nat \ {0} /\ Sizes(min, max)
         /\ n = 1 \/ (min # NoLimit /\ max # NoLimit)
         /\ min = NoLimit => sizeOf(min) # n
         /\ max = NoLimit => sizeOf(max) # n
         /\ \A k \in 1..(n - 1) : k \in 1..sizeOf(min) /\ k \in 1..sizeOf(max)
         /\ \A k \in 1..(n - 1) : ranksOf(c, min)[k] = ranksOf(c, max)[k]
         /\ \A k \in 1..sizeOf(min) : OnePartFirst(ranksOf(c, min)[k], myRanksOf(c, m)[k])
         /\ \A k \in 1..sizeOf(max) : OnePartFirst(ranksOf(c, max)[k], myRanksOf(c, m)[k])
<1>1. /\ IsLimit(c, min, MinFlags) /\ IsLimit(c, max, MaxFlags)
      /\ sizeOf(min) \in {n - 1, n} /\ sizeOf(max) \in {n - 1, n}
      /\ \A k \in 1..(n - 1) : partOf(min, k) = partOf(max, k)
  BY DEF RangeEnds
<1>2. /\ sizeOf(min) \in Nat /\ sizeOf(min) <= Len(c) /\ (sizeOf(min) = 0 <=> min = NoLimit)
      /\ \A k \in 1..sizeOf(min) : /\ ranksOf(c, min)[k] = myRank(c[k].field, partOf(min, k))
                                   /\ IsPart(c[k].field, partOf(min, k))
  BY <1>1, LimitRank
<1>3. /\ sizeOf(max) \in Nat /\ sizeOf(max) <= Len(c) /\ (sizeOf(max) = 0 <=> max = NoLimit)
      /\ \A k \in 1..sizeOf(max) : /\ ranksOf(c, max)[k] = myRank(c[k].field, partOf(max, k))
                                   /\ IsPart(c[k].field, partOf(max, k))
  BY <1>1, LimitRank
<1>4. n \in Nat \ {0} /\ Sizes(min, max) BY <1>2, <1>3, Largest DEF Sizes
<1>5. /\ n = 1 \/ (min # NoLimit /\ max # NoLimit)
      /\ min = NoLimit => sizeOf(min) # n
      /\ max = NoLimit => sizeOf(max) # n
  BY <1>1, <1>2, <1>3, <1>4
<1>6. \A k \in 1..(n - 1) : k \in 1..sizeOf(min) /\ k \in 1..sizeOf(max) BY <1>1, <1>2, <1>3, <1>4
<1>7. \A k \in 1..(n - 1) : ranksOf(c, min)[k] = ranksOf(c, max)[k] BY <1>1, <1>2, <1>3, <1>6
<1>8. Len(c) \in Nat BY TableColumns
<1>9. ASSUME NEW k \in 1..sizeOf(min) PROVE OnePartFirst(ranksOf(c, min)[k], myRanksOf(c, m)[k])
  <2>1. k \in 1..Len(c) BY <1>2, <1>8
  <2>2. myRanksOf(c, m)[k] = myRank(c[k].field, m[k]) /\ IsPart(c[k].field, m[k]) /\ k \in DOMAIN c
    BY <2>1, RowRank
  <2>3. IsField(c[k].field) /\ Supported(c[k].field) BY <2>2, TableColumns
  <2>4. IsPart(c[k].field, partOf(min, k)) BY <1>2
  <2>5. OnePartFirst(myRank(c[k].field, partOf(min, k)), myRank(c[k].field, m[k]))
    BY <2>2, <2>3, <2>4, PartsOrdered
  <2>6. QED BY <1>2, <2>2, <2>5
<1>10. ASSUME NEW k \in 1..sizeOf(max) PROVE OnePartFirst(ranksOf(c, max)[k], myRanksOf(c, m)[k])
  <2>1. k \in 1..Len(c) BY <1>3, <1>8
  <2>2. myRanksOf(c, m)[k] = myRank(c[k].field, m[k]) /\ IsPart(c[k].field, m[k]) /\ k \in DOMAIN c
    BY <2>1, RowRank
  <2>3. IsField(c[k].field) /\ Supported(c[k].field) BY <2>2, TableColumns
  <2>4. IsPart(c[k].field, partOf(max, k)) BY <1>3
  <2>5. OnePartFirst(myRank(c[k].field, partOf(max, k)), myRank(c[k].field, m[k]))
    BY <2>2, <2>3, <2>4, PartsOrdered
  <2>6. QED BY <1>3, <2>2, <2>5
<1>11. QED BY <1>4, <1>5, <1>6, <1>7, <1>9, <1>10

(* inside, as a function of the state.                                     *)
insideOf(c, m, min, max, closed) ==
  LET r(limit) == myRanksOf(c, SubSeq(m, 1, sizeOf(limit)))
  IN /\ min # NoLimit => \/ KeyBefore(myRanksOf(c, min[1].key), r(min))
                      \/ /\ r(min) = myRanksOf(c, min[1].key)
                         /\ closed \/ flagOf(min) = "HA_READ_KEY_EXACT"
     /\ max # NoLimit => \/ KeyBefore(r(max), myRanksOf(c, max[1].key))
                      \/ /\ r(max) = myRanksOf(c, max[1].key)
                         /\ closed \/ flagOf(max) = "HA_READ_AFTER_KEY"

LEMMA InsideUpwards ==
  ASSUME NEW c, IsTable(c), NEW m, IsRow(c, m), NEW min, NEW max,
         IsLimit(c, min, MinFlags), IsLimit(c, max, MaxFlags), NEW closed
  PROVE  insideOf(c, m, min, max, closed) <=>
           /\ min # NoLimit => Upwards(ranksOf(c, min), sizeOf(min), myRanksOf(c, m),
                                       closed \/ flagOf(min) = "HA_READ_KEY_EXACT")
           /\ max # NoLimit => Upwards(myRanksOf(c, m), sizeOf(max), ranksOf(c, max),
                                       closed \/ flagOf(max) = "HA_READ_AFTER_KEY")
<1> DEFINE r == myRanksOf(c, m)
           s(l) == myRanksOf(c, SubSeq(m, 1, sizeOf(l)))
<1>1. ASSUME NEW flags, NEW l, IsLimit(c, l, flags), l # NoLimit
      PROVE  /\ KeyBefore(myRanksOf(c, l[1].key), s(l)) <=> Ahead(ranksOf(c, l), r, sizeOf(l))
             /\ KeyBefore(s(l), myRanksOf(c, l[1].key)) <=> Ahead(r, ranksOf(c, l), sizeOf(l))
             /\ s(l) = myRanksOf(c, l[1].key) <=> Alike(ranksOf(c, l), r, sizeOf(l))
             /\ s(l) = myRanksOf(c, l[1].key) <=> Alike(r, ranksOf(c, l), sizeOf(l))
  <2> DEFINE key == l[1].key
  <2>1. IsKey(c, key) /\ sizeOf(l) = Len(key) BY <1>1, LimitIs
  <2>2. ranksOf(c, l) = myRanksOf(c, key) BY <1>1 DEF ranksOf
  <2>3. DOMAIN c = 1..Len(c) /\ Len(c) \in Nat BY TableColumns
  <2> HIDE DEF key
  <2>4. /\ KeyBefore(myRanksOf(c, key), s(l)) <=> Ahead(myRanksOf(c, key), r, Len(key))
        /\ KeyBefore(s(l), myRanksOf(c, key)) <=> Ahead(r, myRanksOf(c, key), Len(key))
        /\ s(l) = myRanksOf(c, key) <=> Alike(myRanksOf(c, key), r, Len(key))
        /\ s(l) = myRanksOf(c, key) <=> Alike(r, myRanksOf(c, key), Len(key))
    BY <2>1, <2>3, KeyRanks
  <2>5. QED BY <2>1, <2>2, <2>4 DEF key
<1> HIDE DEF r
<1>2. insideOf(c, m, min, max, closed) <=>
        /\ min # NoLimit => \/ KeyBefore(myRanksOf(c, min[1].key), s(min))
                         \/ /\ s(min) = myRanksOf(c, min[1].key)
                            /\ closed \/ flagOf(min) = "HA_READ_KEY_EXACT"
        /\ max # NoLimit => \/ KeyBefore(s(max), myRanksOf(c, max[1].key))
                         \/ /\ s(max) = myRanksOf(c, max[1].key)
                            /\ closed \/ flagOf(max) = "HA_READ_AFTER_KEY"
  BY DEF insideOf
<1> HIDE DEF s
<1>3. min # NoLimit =>
        ((\/ KeyBefore(myRanksOf(c, min[1].key), s(min))
          \/ /\ s(min) = myRanksOf(c, min[1].key)
             /\ closed \/ flagOf(min) = "HA_READ_KEY_EXACT")
         <=> Upwards(ranksOf(c, min), sizeOf(min), r, closed \/ flagOf(min) = "HA_READ_KEY_EXACT"))
  BY <1>1 DEF Upwards
<1>4. max # NoLimit =>
        ((\/ KeyBefore(s(max), myRanksOf(c, max[1].key))
          \/ /\ s(max) = myRanksOf(c, max[1].key)
             /\ closed \/ flagOf(max) = "HA_READ_AFTER_KEY")
         <=> Upwards(r, sizeOf(max), ranksOf(c, max), closed \/ flagOf(max) = "HA_READ_AFTER_KEY"))
  BY <1>1 DEF Upwards
<1>5. QED BY <1>2, <1>3, <1>4 DEF r

(* A row inside a range is like its ends but for the last part.            *)
AtLeast(c, m, min, n, closed) ==
  sizeOf(min) = n => Above(ranksOf(c, min)[n], myRanksOf(c, m)[n], closed \/ flagOf(min) = "HA_READ_KEY_EXACT")
AtMost(c, m, max, n, closed) ==
  sizeOf(max) = n => Above(myRanksOf(c, m)[n], ranksOf(c, max)[n], closed \/ flagOf(max) = "HA_READ_AFTER_KEY")
LEMMA InsideIs ==
  ASSUME NEW c, IsTable(c), NEW m, IsRow(c, m), NEW min, NEW max, RangeEnds(c, min, max), NEW closed,
         NEW n, n = keyCnt(min, max)
  PROVE  insideOf(c, m, min, max, closed) <=>
           /\ Alike(ranksOf(c, min), myRanksOf(c, m), n - 1)
           /\ AtLeast(c, m, min, n, closed) /\ AtMost(c, m, max, n, closed)
<1> DEFINE a == ranksOf(c, min)
           b == ranksOf(c, max)
           r == myRanksOf(c, m)
           na == sizeOf(min)
           nb == sizeOf(max)
           lo == closed \/ flagOf(min) = "HA_READ_KEY_EXACT"
           hi == closed \/ flagOf(max) = "HA_READ_AFTER_KEY"
<1>1. /\ n \in Nat \ {0} /\ (n = 1 \/ (min # NoLimit /\ max # NoLimit))
      /\ (min = NoLimit => na # n) /\ (max = NoLimit => nb # n)
      /\ \A k \in 1..(n - 1) : k \in 1..na /\ k \in 1..nb
      /\ \A k \in 1..(n - 1) : a[k] = b[k]
      /\ \A k \in 1..na : OnePartFirst(a[k], r[k])
  BY EndRanks
<1>2. /\ IsLimit(c, min, MinFlags) /\ IsLimit(c, max, MaxFlags) /\ na \in {n - 1, n} /\ nb \in {n - 1, n}
      /\ (min # NoLimit /\ na = n - 1 => lo) /\ (max # NoLimit /\ nb = n - 1 => hi)
  BY DEF RangeEnds
<1>3. insideOf(c, m, min, max, closed) <=>
        (min # NoLimit => Upwards(a, na, r, lo)) /\ (max # NoLimit => Upwards(r, nb, b, hi))
  BY <1>2, InsideUpwards
<1>4. (AtLeast(c, m, min, n, closed) <=> (na = n => Above(a[n], r[n], lo)))
      /\ (AtMost(c, m, max, n, closed) <=> (nb = n => Above(r[n], b[n], hi)))
  BY DEF AtLeast, AtMost
<1> HIDE DEF a, b, r, na, nb, lo, hi
<1>5. ASSUME min # NoLimit => Upwards(a, na, r, lo), max # NoLimit => Upwards(r, nb, b, hi)
      PROVE  Alike(a, r, n - 1)
  <2>1. CASE n = 1 BY <2>1 DEF Alike
  <2>2. CASE n # 1
    <3>1. Upwards(a, na, r, lo) /\ Upwards(r, nb, b, hi) BY <1>1, <1>5, <2>2
    <3>2. \A k \in 1..(n - 1) : OnePartFirst(a[k], r[k]) BY <1>1
    <3>3. n \in Nat \ {0} /\ \A k \in 1..(n - 1) : a[k] = b[k] BY <1>1
    <3>4. na \in {n - 1, n} /\ nb \in {n - 1, n} BY <1>2
    <3>5. QED BY <3>1, <3>2, <3>3, <3>4, InCommon
  <2>3. QED BY <2>1, <2>2
<1>6. ASSUME Alike(a, r, n - 1)
      PROVE  /\ (min # NoLimit => Upwards(a, na, r, lo)) <=> (na = n => Above(a[n], r[n], lo))
             /\ (max # NoLimit => Upwards(r, nb, b, hi)) <=> (nb = n => Above(r[n], b[n], hi))
  <2>1. \A k \in 1..(n - 1) : a[k] = r[k] /\ r[k] = b[k] /\ OnePartFirst(a[k], r[k])
    BY <1>1, <1>6 DEF Alike
  <2>2. \A k \in 1..(n - 1) : ~PartBefore(a[k], r[k]) /\ ~PartBefore(r[k], b[k])
    BY <2>1 DEF OnePartFirst
  <2>3. Alike(r, b, n - 1) BY <2>1 DEF Alike
  <2>4. ASSUME min # NoLimit PROVE Upwards(a, na, r, lo) <=> (na = n => Above(a[n], r[n], lo))
    <3>1. n \in Nat \ {0} /\ na \in {n - 1, n} /\ (na = n - 1 => lo) BY <1>1, <1>2, <2>4
    <3>2. QED BY <1>6, <2>2, <3>1, LastDecides
  <2>5. ASSUME max # NoLimit PROVE Upwards(r, nb, b, hi) <=> (nb = n => Above(r[n], b[n], hi))
    <3>1. n \in Nat \ {0} /\ nb \in {n - 1, n} /\ (nb = n - 1 => hi) BY <1>1, <1>2, <2>5
    <3>2. QED BY <2>2, <2>3, <3>1, LastDecides
  <2>6. QED BY <1>1, <2>4, <2>5
<1>7. QED BY <1>3, <1>4, <1>5, <1>6 DEF a, r

-----------------------------------------------------------------------------
(* What DB2 makes of a part's bounds, in MySQL's order.                    *)
literalIn(c, literals, bound) ==
  LET l == literals[bound.at] IN <<convertKey(c[l.part].field, l.value[1], 0)>>
withinOf(c, d, bounds, literals, k) ==
  LET lo == bounds[k].lo
      hi == bounds[k].hi
      r == db2Rank(c[k].field, d[k])
      misplaced(b) == b.to = "literal" /\ literals[b.at].part # k
  IN /\ ~misplaced(lo) /\ ~misplaced(hi)
     /\ lo = IsNull \/ hi = IsNull => d[k] = <<>>
     /\ lo.to = "literal" =>
          LET b == db2Rank(c[k].field, literalIn(c, literals, lo))
          IN IF lo.excluded THEN PartBefore(b, r) ELSE ~PartBefore(r, b)
     /\ hi.to = "literal" =>
          LET b == db2Rank(c[k].field, literalIn(c, literals, hi))
          IN IF hi.excluded THEN PartBefore(r, b) ELSE ~PartBefore(b, r)

LoMeets(lo, p, r) ==
  /\ lo = IsNull => r = <<>>
  /\ lo.to = "literal" => IF lo.excluded THEN PartBefore(p, r) ELSE ~PartBefore(r, p)
HiMeets(hi, p, r) ==
  /\ hi = IsNull => r = <<>>
  /\ hi.to = "literal" => IF hi.excluded THEN PartBefore(r, p) ELSE ~PartBefore(p, r)

(* A literal is the part it was made of.                                   *)
LEMMA LiteralIs ==
  ASSUME NEW c, IsTable(c), NEW flags, NEW l, IsLimit(c, l, flags), NEW k \in 1..sizeOf(l),
         Faithful(c[k].field), partOf(l, k) # <<>>,
         NEW bound, bound.to = "literal", NEW literals, Placed(bound, literals, k, l)
  PROVE  /\ literals[bound.at].part = k
         /\ literalIn(c, literals, bound) = sentPart(c[k].field, partOf(l, k))
<1> DEFINE f == c[k].field
           v == partOf(l, k)
           x == [part |-> k, value |-> v]
<1>1. literals[bound.at] = x BY DEF Placed
<1>2. x.part = k /\ x.value = v OBVIOUS
<1> HIDE DEF x, v
<1>3. literals[bound.at].part = k /\ literals[bound.at].value = v BY <1>1, <1>2
<1>4. literalIn(c, literals, bound) = <<convertKey(f, v[1], 0)>> BY <1>3 DEF literalIn
<1>5. IsPart(f, v) BY LimitRank DEF v
<1>6. IsField(f) /\ ~TooFar(f) /\ IsValue(f, v[1]) BY <1>5 DEF Faithful, IsPart, v
<1>7. convertKey(f, v[1], 0) = convertMySQLtoDB2(f, v[1]) BY <1>6, KeyAsRow
<1>8. sentPart(f, v) = <<convertMySQLtoDB2(f, v[1])>> BY DEF sentPart, v
<1>9. QED BY <1>3, <1>4, <1>7, <1>8 DEF v

(* A bound that points at a literal belongs to a part with a value.        *)
LEMMA LiteralsOfParts ==
  ASSUME NEW min, NEW max, Sizes(min, max), NEW k \in Nat \ {0}, NEW equal, NEW n
  PROVE  /\ LoBound(min, max, k, equal, n).to = "literal" => k \in 1..sizeOf(min) /\ partOf(min, k) # <<>>
         /\ HiBound(min, max, k, equal, n).to = "literal" => k \in 1..sizeOf(max) /\ partOf(max, k) # <<>>
<1>1. sizeOf(min) \in Nat /\ sizeOf(max) \in Nat BY DEF Sizes
<1>2. ASSUME ~(k \in 1..sizeOf(min) /\ partOf(min, k) # <<>>)
      PROVE  LoBound(min, max, k, equal, n).to # "literal"
  <2>1. k > sizeOf(min) \/ (k <= sizeOf(min) /\ partOf(min, k) = <<>>) BY <1>1, <1>2
  <2>2. LoBound(min, max, k, equal, n) \in {Infinity, IsNull} BY <2>1, LoKinds
  <2>3. QED BY <2>2, BoundKinds
<1>3. ASSUME ~(k \in 1..sizeOf(max) /\ partOf(max, k) # <<>>)
      PROVE  HiBound(min, max, k, equal, n).to # "literal"
  <2>1. k > sizeOf(max) \/ (k <= sizeOf(max) /\ partOf(max, k) = <<>>) BY <1>1, <1>3
  <2>2. HiBound(min, max, k, equal, n) \in {Infinity, IsNull} BY <2>1, HiKinds
  <2>3. QED BY <2>2, BoundKinds
<1>4. QED BY <1>2, <1>3

LEMMA WithinIs ==
  ASSUME NEW c, IsTable(c), \A k \in DOMAIN c : Faithful(c[k].field), NEW m, NEW d, RowAsSent(c, m, d),
         NEW min, NEW max, IsLimit(c, min, MinFlags), IsLimit(c, max, MaxFlags), NEW equal,
         NEW k \in 1..Len(c), NEW so, PartBound(min, max, equal, so, k)
  PROVE  withinOf(c, d, so.bounds, so.literals, k) <=>
           /\ LoMeets(so.bounds[k].lo, ranksOf(c, min)[k], myRanksOf(c, m)[k])
           /\ HiMeets(so.bounds[k].hi, ranksOf(c, max)[k], myRanksOf(c, m)[k])
<1> DEFINE f == c[k].field
           lo == so.bounds[k].lo
           hi == so.bounds[k].hi
           s == so.literals
           p == ranksOf(c, min)[k]
           q == ranksOf(c, max)[k]
           r == myRanksOf(c, m)[k]
           sentRow == db2Rank(f, d[k])
           low == db2Rank(f, literalIn(c, s, lo))
           high == db2Rank(f, literalIn(c, s, hi))
<1>1. k \in Nat \ {0} /\ k \in DOMAIN c
  <2>1. Len(c) \in Nat BY TableColumns
  <2>2. QED BY <2>1, TableColumns
<1>2. Faithful(f) BY <1>1
<1>3. IsRow(c, m) /\ d = sentOf(c, m) BY DEF RowAsSent
<1>4. r = myRank(f, m[k]) /\ IsPart(f, m[k]) BY <1>3, RowRank
<1>5. d[k] = sentPart(f, m[k]) BY <1>1, <1>3 DEF sentOf, IsRow
<1>6. d[k] = <<>> <=> r = <<>>
  <2>1. \A x : <<x>> # <<>> OBVIOUS
  <2>2. QED BY <1>4, <1>5, <2>1 DEF sentPart, myRank
<1>7. Sizes(min, max) BY LimitRank DEF Sizes
<1>8. Placed(lo, s, k, min) /\ Placed(hi, s, k, max) BY DEF PartBound
<1>9. /\ lo.to = "literal" => k \in 1..sizeOf(min) /\ partOf(min, k) # <<>>
      /\ hi.to = "literal" => k \in 1..sizeOf(max) /\ partOf(max, k) # <<>>
  <2>1. PICK n : lo = LoBound(min, max, k, equal, n) BY DEF PartBound
  <2>2. PICK w : hi = HiBound(min, max, k, equal, w) BY DEF PartBound
  <2>3. lo.to = "literal" => k \in 1..sizeOf(min) /\ partOf(min, k) # <<>>
    BY <1>1, <1>7, <2>1, LiteralsOfParts
  <2>4. hi.to = "literal" => k \in 1..sizeOf(max) /\ partOf(max, k) # <<>>
    BY <1>1, <1>7, <2>2, LiteralsOfParts
  <2>5. QED BY <2>3, <2>4
<1> HIDE DEF f, lo, hi, s, sentRow, r, p, q
<1>10. ASSUME lo.to = "literal"
       PROVE  s[lo.at].part = k /\ (PartBefore(p, r) <=> PartBefore(low, sentRow))
                                /\ (PartBefore(r, p) <=> PartBefore(sentRow, low))
  <2>1. k \in 1..sizeOf(min) /\ partOf(min, k) # <<>> BY <1>9, <1>10
  <2>2. s[lo.at].part = k /\ literalIn(c, s, lo) = sentPart(f, partOf(min, k))
    BY <1>2, <1>8, <1>10, <2>1, LiteralIs DEF f
  <2>3. p = myRank(f, partOf(min, k)) /\ IsPart(f, partOf(min, k)) BY <2>1, LimitRank DEF f, p
  <2>4. low = db2Rank(f, sentPart(f, partOf(min, k))) /\ sentRow = db2Rank(f, sentPart(f, m[k]))
    BY <1>5, <2>2 DEF sentRow
  <2>5. SamePart(p, r, low, sentRow) BY <1>2, <1>4, <2>3, <2>4, PartsAgree
  <2>6. SamePart(r, p, sentRow, low) BY <1>2, <1>4, <2>3, <2>4, PartsAgree
  <2>7. QED BY <2>2, <2>5, <2>6 DEF SamePart
<1>11. ASSUME hi.to = "literal"
       PROVE  s[hi.at].part = k /\ (PartBefore(q, r) <=> PartBefore(high, sentRow))
                                /\ (PartBefore(r, q) <=> PartBefore(sentRow, high))
  <2>1. k \in 1..sizeOf(max) /\ partOf(max, k) # <<>> BY <1>9, <1>11
  <2>2. s[hi.at].part = k /\ literalIn(c, s, hi) = sentPart(f, partOf(max, k))
    BY <1>2, <1>8, <1>11, <2>1, LiteralIs DEF f
  <2>3. q = myRank(f, partOf(max, k)) /\ IsPart(f, partOf(max, k)) BY <2>1, LimitRank DEF f, q
  <2>4. high = db2Rank(f, sentPart(f, partOf(max, k))) /\ sentRow = db2Rank(f, sentPart(f, m[k]))
    BY <1>5, <2>2 DEF sentRow
  <2>5. SamePart(q, r, high, sentRow) BY <1>2, <1>4, <2>3, <2>4, PartsAgree
  <2>6. SamePart(r, q, sentRow, high) BY <1>2, <1>4, <2>3, <2>4, PartsAgree
  <2>7. QED BY <2>2, <2>5, <2>6 DEF SamePart
<1>12. withinOf(c, d, so.bounds, s, k) <=>
         /\ ~(lo.to = "literal" /\ s[lo.at].part # k) /\ ~(hi.to = "literal" /\ s[hi.at].part # k)
         /\ lo = IsNull \/ hi = IsNull => d[k] = <<>>
         /\ lo.to = "literal" => IF lo.excluded THEN PartBefore(low, sentRow) ELSE ~PartBefore(sentRow, low)
         /\ hi.to = "literal" => IF hi.excluded THEN PartBefore(sentRow, high) ELSE ~PartBefore(high, sentRow)
  BY DEF withinOf, lo, hi, sentRow, f
<1> HIDE DEF low, high
<1>13. withinOf(c, d, so.bounds, s, k) <=> LoMeets(lo, p, r) /\ HiMeets(hi, q, r)
  BY <1>6, <1>10, <1>11, <1>12 DEF LoMeets, HiMeets
<1>14. QED BY <1>13 DEF lo, hi, s, p, q, r

-----------------------------------------------------------------------------
(* A part that the ends have in common is let in if it is the same.        *)
NullFirst(p) == ~PartBefore(p, <<>>) /\ (p # <<>> => PartBefore(<<>>, p))
LEMMA NullIsFirst == ASSUME NEW p PROVE NullFirst(p)
BY DEF PartBefore, NullFirst

(* What a limit's part is to MySQL's order; NULL is the first of all.      *)
LEMMA NullRanks ==
  ASSUME NEW c, IsTable(c), NEW flags, NEW l, IsLimit(c, l, flags), NEW k \in 1..sizeOf(l)
  PROVE  ranksOf(c, l)[k] = <<>> <=> partOf(l, k) = <<>>
<1>1. ranksOf(c, l)[k] = myRank(c[k].field, partOf(l, k)) BY LimitRank
<1>2. \A x : <<x>> # <<>> OBVIOUS
<1>3. QED BY <1>1, <1>2 DEF myRank

LEMMA CommonPart ==
  ASSUME NEW c, IsTable(c), NEW m, IsRow(c, m), NEW min, NEW max, RangeEnds(c, min, max), NEW equal,
         NEW k \in 1..(keyCnt(min, max) - 1), NEW so, PartBound(min, max, equal, so, k)
  PROVE  /\ LoMeets(so.bounds[k].lo, ranksOf(c, min)[k], myRanksOf(c, m)[k])
         /\ HiMeets(so.bounds[k].hi, ranksOf(c, max)[k], myRanksOf(c, m)[k])
         <=> ranksOf(c, min)[k] = myRanksOf(c, m)[k]
<1> DEFINE lo == so.bounds[k].lo
           hi == so.bounds[k].hi
           p == ranksOf(c, min)[k]
           r == myRanksOf(c, m)[k]
           part == partOf(min, k)
<1>1. /\ keyCnt(min, max) \in Nat \ {0} /\ Sizes(min, max) /\ min # NoLimit
      /\ k \in 1..sizeOf(min) /\ k \in 1..sizeOf(max)
      /\ ranksOf(c, max)[k] = p /\ OnePartFirst(p, r)
  <2> DEFINE n == keyCnt(min, max)
  <2>1. /\ n \in Nat \ {0} /\ Sizes(min, max)
        /\ n = 1 \/ (min # NoLimit /\ max # NoLimit)
        /\ \A j \in 1..(n - 1) : j \in 1..sizeOf(min) /\ j \in 1..sizeOf(max)
        /\ \A j \in 1..(n - 1) : ranksOf(c, min)[j] = ranksOf(c, max)[j]
        /\ \A j \in 1..sizeOf(min) : OnePartFirst(ranksOf(c, min)[j], myRanksOf(c, m)[j])
    BY EndRanks
  <2> HIDE DEF n
  <2>2. k \in 1..(n - 1) BY DEF n
  <2>3. n # 1 BY <2>1, <2>2
  <2>4. QED BY <2>1, <2>2, <2>3 DEF n
<1>2. partOf(max, k) = part /\ IsLimit(c, min, MinFlags) BY DEF RangeEnds
<1>3. k \in Nat /\ k <= sizeOf(min) /\ k <= sizeOf(max) BY <1>1 DEF Sizes
<1>4. samePart(min, max, k, equal) /\ (part # <<>> => overrideInclusion(min, max, k, equal))
  BY <1>2, <1>3 DEF samePart, overrideInclusion
<1>5. p = <<>> <=> part = <<>> BY <1>1, <1>2, NullRanks
<1>6. PICK u : lo = LoBound(min, max, k, equal, u) BY DEF PartBound
<1>7. PICK w : hi = HiBound(min, max, k, equal, w) BY DEF PartBound
<1> HIDE DEF lo, hi, p, r, part
<1>8. CASE part = <<>>
  <2>1. lo = IsNull /\ hi = IsNull
    <3>1. partOf(min, k) = <<>> /\ partOf(max, k) = <<>> BY <1>2, <1>8 DEF part
    <3>2. lo = IsNull BY <1>1, <1>3, <1>6, <3>1, LoKinds
    <3>3. hi = IsNull BY <1>1, <1>3, <1>7, <3>1, HiKinds
    <3>4. QED BY <3>2, <3>3
  <2>2. lo.to # "literal" /\ hi.to # "literal" BY <2>1, BoundKinds
  <2>3. LoMeets(lo, p, r) /\ HiMeets(hi, p, r) <=> r = <<>> BY <2>1, <2>2 DEF LoMeets, HiMeets
  <2>4. p = <<>> BY <1>5, <1>8
  <2>5. LoMeets(lo, p, r) /\ HiMeets(hi, p, r) <=> p = r BY <2>3, <2>4
  <2>6. QED BY <1>1, <2>5 DEF lo, hi, p, r
<1>9. CASE part # <<>>
  <2>1. partOf(min, k) # <<>> /\ partOf(max, k) # <<>> BY <1>2, <1>9 DEF part
  <2>2. \E at : lo = At(at, FALSE)
    <3>1. lo = At(u + 1, flagOf(min) # "HA_READ_KEY_EXACT" /\ ~samePart(min, max, k, equal))
      BY <1>1, <1>3, <1>6, <2>1, LoKinds
    <3>2. (flagOf(min) # "HA_READ_KEY_EXACT" /\ ~samePart(min, max, k, equal)) = FALSE BY <1>4
    <3>3. QED BY <3>1, <3>2
  <2>3. \E at : hi = At(at, FALSE)
    <3>1. hi = At(IF reuseLiteral(min, max, k) THEN w ELSE w + 1,
                  flagOf(max) = "HA_READ_BEFORE_KEY" /\ ~overrideInclusion(min, max, k, equal))
      BY <1>1, <1>3, <1>7, <2>1, HiKinds
    <3>2. (flagOf(max) = "HA_READ_BEFORE_KEY" /\ ~overrideInclusion(min, max, k, equal)) = FALSE
      BY <1>4, <1>9
    <3>3. QED BY <3>1, <3>2
  <2>4. /\ lo.to = "literal" /\ lo.excluded = FALSE /\ lo # IsNull
        /\ hi.to = "literal" /\ hi.excluded = FALSE /\ hi # IsNull
    <3>1. PICK x : lo = At(x, FALSE) BY <2>2
    <3>2. PICK y : hi = At(y, FALSE) BY <2>3
    <3>3. QED BY <3>1, <3>2, BoundKinds
  <2>5. LoMeets(lo, p, r) /\ HiMeets(hi, p, r) <=> ~PartBefore(r, p) /\ ~PartBefore(p, r)
    BY <2>4 DEF LoMeets, HiMeets
  <2>6. LoMeets(lo, p, r) /\ HiMeets(hi, p, r) <=> p = r BY <1>1, <2>5 DEF OnePartFirst, p, r
  <2>7. QED BY <1>1, <2>6 DEF lo, hi, p, r
<1>10. QED BY <1>8, <1>9

(* The last part's bounds let in what is between the ends, and but for     *)
(* NULL and the ends themselves nothing else.                              *)
LEMMA LastPart ==
  ASSUME NEW c, IsTable(c), NEW m, IsRow(c, m), NEW min, NEW max, RangeEnds(c, min, max), NEW equal,
         NEW n, n = keyCnt(min, max), NEW so, PartBound(min, max, equal, so, n), ~so.failed
  PROVE  /\ AtLeast(c, m, min, n, FALSE) /\ AtMost(c, m, max, n, FALSE) =>
              /\ LoMeets(so.bounds[n].lo, ranksOf(c, min)[n], myRanksOf(c, m)[n])
              /\ HiMeets(so.bounds[n].hi, ranksOf(c, max)[n], myRanksOf(c, m)[n])
         /\ /\ LoMeets(so.bounds[n].lo, ranksOf(c, min)[n], myRanksOf(c, m)[n])
            /\ HiMeets(so.bounds[n].hi, ranksOf(c, max)[n], myRanksOf(c, m)[n])
            /\ myRanksOf(c, m)[n] # <<>>
            => AtLeast(c, m, min, n, TRUE) /\ AtMost(c, m, max, n, TRUE)
<1> DEFINE lo == so.bounds[n].lo
           hi == so.bounds[n].hi
           p == ranksOf(c, min)[n]
           q == ranksOf(c, max)[n]
           r == myRanksOf(c, m)[n]
           na == sizeOf(min)
           nb == sizeOf(max)
           exact == flagOf(min) = "HA_READ_KEY_EXACT"
           after == flagOf(max) = "HA_READ_AFTER_KEY"
           before == flagOf(max) = "HA_READ_BEFORE_KEY"
<1>1. /\ n \in Nat \ {0} /\ Sizes(min, max)
      /\ min = NoLimit => na # n
      /\ \A k \in 1..na : OnePartFirst(ranksOf(c, min)[k], myRanksOf(c, m)[k])
      /\ \A k \in 1..nb : OnePartFirst(ranksOf(c, max)[k], myRanksOf(c, m)[k])
  BY EndRanks
<1>2. /\ IsLimit(c, min, MinFlags) /\ IsLimit(c, max, MaxFlags) /\ na \in {n - 1, n} /\ nb \in {n - 1, n}
      /\ nb = n /\ partOf(max, n) = <<>> => na = n
  BY DEF RangeEnds
<1>3. (na = n => OnePartFirst(p, r)) /\ (nb = n => OnePartFirst(q, r)) BY <1>1
<1>4. (na = n => (p = <<>> <=> partOf(min, n) = <<>>)) /\ (nb = n => (q = <<>> <=> partOf(max, n) = <<>>))
  <2>1. na = n => n \in 1..sizeOf(min) BY <1>1
  <2>2. nb = n => n \in 1..sizeOf(max) BY <1>1
  <2>3. QED BY <1>2, <2>1, <2>2, NullRanks
<1>5. PICK u : lo = LoBound(min, max, n, equal, u) BY DEF PartBound
<1>6. PICK w : hi = HiBound(min, max, n, equal, w) BY DEF PartBound
<1>7. ~(lo = IsNull /\ hi.to = "literal") BY DEF PartBound
<1>8. /\ AtLeast(c, m, min, n, FALSE) <=> (na = n => Above(p, r, exact))
      /\ AtMost(c, m, max, n, FALSE) <=> (nb = n => Above(r, q, after))
      /\ AtLeast(c, m, min, n, TRUE) <=> (na = n => Above(p, r, TRUE))
      /\ AtMost(c, m, max, n, TRUE) <=> (nb = n => Above(r, q, TRUE))
  BY DEF AtLeast, AtMost, Above
<1>9. before => ~after OBVIOUS
<1>10. NullFirst(p) /\ NullFirst(q) /\ NullFirst(r) BY NullIsFirst
<1>11. \/ lo = Infinity /\ (na = n => p = <<>>)
       \/ lo = IsNull /\ na = n /\ nb = n /\ p = <<>> /\ (exact \/ q = <<>>)
       \/ na = n /\ p # <<>> /\ \E at, x : lo = At(at, x) /\ x \in BOOLEAN /\ (x => ~exact)
  <2>1. CASE na # n
    <3>1. n > sizeOf(min) BY <1>1, <1>2, <2>1 DEF Sizes
    <3>2. lo = Infinity BY <1>1, <1>5, <3>1, LoKinds
    <3>3. QED BY <2>1, <3>2
  <2>2. CASE na = n /\ partOf(min, n) # <<>>
    <3> DEFINE x == flagOf(min) # "HA_READ_KEY_EXACT" /\ ~samePart(min, max, n, equal)
    <3>1. n <= sizeOf(min) BY <1>1, <2>2
    <3>2. lo = At(u + 1, x) BY <1>1, <1>5, <2>2, <3>1, LoKinds
    <3>3. x \in BOOLEAN /\ (x => ~exact) OBVIOUS
    <3>4. QED BY <1>4, <2>2, <3>2, <3>3
  <2>3. CASE na = n /\ partOf(min, n) = <<>>
    <3>1. n <= sizeOf(min) BY <1>1, <2>3
    <3>2. lo = IF n <= sizeOf(max) /\ (flagOf(min) = "HA_READ_KEY_EXACT" \/ partOf(max, n) = <<>>)
               THEN IsNull ELSE Infinity
      BY <1>1, <1>5, <2>3, <3>1, LoKinds
    <3>3. n <= sizeOf(max) => nb = n BY <1>1, <1>2 DEF Sizes
    <3>4. p = <<>> BY <1>4, <2>3
    <3>5. QED BY <1>4, <2>3, <3>2, <3>3, <3>4
  <2>4. QED BY <2>1, <2>2, <2>3
<1>12. \/ hi = Infinity /\ nb # n
       \/ hi = IsNull /\ nb = n /\ q = <<>>
       \/ nb = n /\ q # <<>> /\ \E at, x : hi = At(at, x) /\ x \in BOOLEAN /\ (x => before)
  <2>1. CASE nb # n
    <3>1. n > sizeOf(max) BY <1>1, <1>2, <2>1 DEF Sizes
    <3>2. hi = Infinity BY <1>1, <1>6, <3>1, HiKinds
    <3>3. QED BY <2>1, <3>2
  <2>2. CASE nb = n /\ partOf(max, n) # <<>>
    <3> DEFINE x == flagOf(max) = "HA_READ_BEFORE_KEY" /\ ~overrideInclusion(min, max, n, equal)
    <3>1. n <= sizeOf(max) BY <1>1, <2>2
    <3>2. hi = At(IF reuseLiteral(min, max, n) THEN w ELSE w + 1, x) BY <1>1, <1>6, <2>2, <3>1, HiKinds
    <3>3. x \in BOOLEAN /\ (x => before) OBVIOUS
    <3>4. QED BY <1>4, <2>2, <3>2, <3>3
  <2>3. CASE nb = n /\ partOf(max, n) = <<>>
    <3>1. n <= sizeOf(max) BY <1>1, <2>3
    <3>2. min # NoLimit BY <1>1, <1>2, <2>3
    <3>3. hi = IsNull BY <1>1, <1>6, <2>3, <3>1, <3>2, HiKinds
    <3>4. QED BY <1>4, <2>3, <3>3
  <2>4. QED BY <2>1, <2>2, <2>3
<1> HIDE DEF lo, hi, p, q, r, na, nb, exact, after, before
(* The bounds in their three forms.                                        *)
<1>13. /\ LoMeets(Infinity, p, r) /\ HiMeets(Infinity, q, r)
       /\ LoMeets(IsNull, p, r) <=> r = <<>>
       /\ HiMeets(IsNull, q, r) <=> r = <<>>
  BY BoundKinds DEF LoMeets, HiMeets
<1>14. ASSUME NEW at, NEW x \in BOOLEAN
       PROVE  /\ At(at, x).to = "literal"
              /\ LoMeets(At(at, x), p, r) <=> IF x THEN PartBefore(p, r) ELSE ~PartBefore(r, p)
              /\ HiMeets(At(at, x), q, r) <=> IF x THEN PartBefore(r, q) ELSE ~PartBefore(q, r)
  <2> DEFINE b == At(at, x)
  <2>1. b.to = "literal" /\ b.excluded = x /\ b # IsNull BY BoundKinds
  <2> HIDE DEF b
  <2>2. QED BY <2>1 DEF LoMeets, HiMeets, b
(* What is between the ends is let in.                                     *)
<1>15. ASSUME na = n => Above(p, r, exact), nb = n => Above(r, q, after)
       PROVE  LoMeets(lo, p, r) /\ HiMeets(hi, q, r)
  <2>1. HiMeets(hi, q, r)
    <3>1. CASE hi = Infinity BY <1>13, <3>1
    <3>2. CASE hi = IsNull /\ nb = n /\ q = <<>>
      <4>1. r = <<>> BY <1>10, <1>15, <3>2 DEF Above, NullFirst
      <4>2. QED BY <1>13, <3>2, <4>1
    <3>3. CASE nb = n /\ q # <<>> /\ \E at, x : hi = At(at, x) /\ x \in BOOLEAN /\ (x => before)
      <4>1. PICK at, x : hi = At(at, x) /\ x \in BOOLEAN /\ (x => before) BY <3>3
      <4>2. Above(r, q, after) /\ OnePartFirst(q, r) BY <1>3, <1>15, <3>3
      <4>3. x => PartBefore(r, q) BY <1>9, <4>1, <4>2 DEF Above
      <4>4. ~PartBefore(q, r) BY <4>2 DEF Above, OnePartFirst
      <4>5. QED BY <1>14, <4>1, <4>3, <4>4
    <3>4. QED BY <1>12, <3>1, <3>2, <3>3
  <2>2. LoMeets(lo, p, r)
    <3>1. CASE lo = Infinity BY <1>13, <3>1
    <3>2. CASE lo = IsNull /\ na = n /\ nb = n /\ p = <<>> /\ (exact \/ q = <<>>)
      <4>1. ASSUME q # <<>> PROVE FALSE
        <5>1. PICK at, x : hi = At(at, x) /\ x \in BOOLEAN BY <1>12, <3>2, <4>1
        <5>2. hi.to = "literal" BY <1>14, <5>1
        <5>3. QED BY <1>7, <3>2, <5>2
      <4>2. Above(r, q, after) /\ q = <<>> BY <1>15, <3>2, <4>1
      <4>3. r = <<>> BY <1>10, <4>2 DEF Above, NullFirst
      <4>4. QED BY <1>13, <3>2, <4>3
    <3>3. CASE na = n /\ p # <<>> /\ \E at, x : lo = At(at, x) /\ x \in BOOLEAN /\ (x => ~exact)
      <4>1. PICK at, x : lo = At(at, x) /\ x \in BOOLEAN /\ (x => ~exact) BY <3>3
      <4>2. Above(p, r, exact) /\ OnePartFirst(p, r) BY <1>3, <1>15, <3>3
      <4>3. x => PartBefore(p, r) BY <4>1, <4>2 DEF Above
      <4>4. ~PartBefore(r, p) BY <4>2 DEF Above, OnePartFirst
      <4>5. QED BY <1>14, <4>1, <4>3, <4>4
    <3>4. QED BY <1>11, <3>1, <3>2, <3>3
  <2>3. QED BY <2>1, <2>2
(* Nothing else is, but for NULL and the ends.                             *)
<1>16. ASSUME LoMeets(lo, p, r), HiMeets(hi, q, r), r # <<>>
       PROVE  (na = n => Above(p, r, TRUE)) /\ (nb = n => Above(r, q, TRUE))
  <2>1. ASSUME na = n PROVE Above(p, r, TRUE)
    <3>1. CASE p = <<>> BY <1>10, <1>16, <3>1 DEF Above, NullFirst
    <3>2. CASE p # <<>>
      <4>1. PICK at, x : lo = At(at, x) /\ x \in BOOLEAN BY <1>11, <2>1, <3>2
      <4>2. IF x THEN PartBefore(p, r) ELSE ~PartBefore(r, p) BY <1>14, <1>16, <4>1
      <4>3. OnePartFirst(p, r) BY <1>3, <2>1
      <4>4. QED BY <4>2, <4>3 DEF Above, OnePartFirst
    <3>3. QED BY <3>1, <3>2
  <2>2. ASSUME nb = n PROVE Above(r, q, TRUE)
    <3>1. CASE q = <<>> BY <1>12, <1>13, <1>16, <2>2, <3>1
    <3>2. CASE q # <<>>
      <4>1. PICK at, x : hi = At(at, x) /\ x \in BOOLEAN BY <1>12, <2>2, <3>2
      <4>2. IF x THEN PartBefore(r, q) ELSE ~PartBefore(q, r) BY <1>14, <1>16, <4>1
      <4>3. OnePartFirst(q, r) BY <1>3, <2>2
      <4>4. QED BY <4>2, <4>3 DEF Above, OnePartFirst
    <3>3. QED BY <3>1, <3>2
  <2>3. QED BY <2>1, <2>2
<1>17. QED BY <1>8, <1>15, <1>16 DEF lo, hi, p, q, r

-----------------------------------------------------------------------------
(* The answer to a range, as a function of the state.                      *)
Meant(c, m, d, a) ==
  /\ a.call = "range" /\ (\A k \in DOMAIN c : ~Shifted(c[k].field) /\ ~TooFar(c[k].field)) =>
       /\ insideOf(c, m, a.min, a.max, FALSE) =>
            \A k \in DOMAIN a.bounds : withinOf(c, d, a.bounds, a.literals, k)
       /\ /\ \A k \in DOMAIN a.bounds : withinOf(c, d, a.bounds, a.literals, k)
          /\ \A k \in DOMAIN c : m[k] # <<>>
          => insideOf(c, m, a.min, a.max, TRUE)
  /\ a.call = "empty range" => ~insideOf(c, m, a.min, a.max, FALSE)

LEMMA BoundsMean ==
  ASSUME NEW c, IsTable(c), \A k \in DOMAIN c : Faithful(c[k].field), NEW m, NEW d, RowAsSent(c, m, d),
         NEW min, NEW max, RangeEnds(c, min, max), NEW equal, NEW so, so = boundsOf(min, max, equal), ~so.failed
  PROVE  /\ insideOf(c, m, min, max, FALSE) =>
              \A k \in DOMAIN so.bounds : withinOf(c, d, so.bounds, so.literals, k)
         /\ /\ \A k \in DOMAIN so.bounds : withinOf(c, d, so.bounds, so.literals, k)
            /\ \A k \in DOMAIN c : m[k] # <<>>
            => insideOf(c, m, min, max, TRUE)
<1> DEFINE n == keyCnt(min, max)
           a == ranksOf(c, min)
           b == ranksOf(c, max)
           r == myRanksOf(c, m)
           In(k) == withinOf(c, d, so.bounds, so.literals, k)
<1>1. IsRow(c, m) /\ IsLimit(c, min, MinFlags) /\ IsLimit(c, max, MaxFlags) BY DEF RowAsSent, RangeEnds
<1>2. n \in Nat \ {0} /\ Sizes(min, max) BY <1>1, EndRanks
<1>3. n \in 1..Len(c) /\ Len(c) \in Nat /\ DOMAIN c = 1..Len(c)
  <2>1. Len(c) \in Nat \ {0} /\ DOMAIN c = 1..Len(c) BY TableColumns
  <2>2. sizeOf(min) <= Len(c) /\ sizeOf(max) <= Len(c) BY <1>1, LimitRank
  <2>3. n \in {sizeOf(min), sizeOf(max), 1} BY <1>2, Largest
  <2>4. QED BY <1>2, <2>1, <2>2, <2>3 DEF Sizes
<1>4. BoundsSoFar(min, max, equal, so, n) BY <1>2, BoundsBuilt
<1>5. DOMAIN so.bounds = 1..n
  <2>1. IsSequence(so.bounds) /\ Len(so.bounds) = n BY <1>4 DEF BoundsSoFar
  <2>2. QED BY <2>1 DEF IsSequence
<1>6. \A k \in 1..n : PartBound(min, max, equal, so, k) BY <1>4 DEF BoundsSoFar
<1> HIDE DEF n
<1>7. ASSUME NEW k \in 1..n
      PROVE  In(k) <=> LoMeets(so.bounds[k].lo, a[k], r[k]) /\ HiMeets(so.bounds[k].hi, b[k], r[k])
  <2>1. k \in 1..Len(c) BY <1>3
  <2>2. QED BY <1>1, <1>6, <2>1, WithinIs
<1>8. ASSUME NEW k \in 1..(n - 1) PROVE In(k) <=> a[k] = r[k]
  <2>1. k \in 1..n BY <1>2
  <2>2. PartBound(min, max, equal, so, k) BY <1>6, <2>1
  <2>3. LoMeets(so.bounds[k].lo, a[k], r[k]) /\ HiMeets(so.bounds[k].hi, b[k], r[k]) <=> a[k] = r[k]
    BY <1>1, <2>2, CommonPart DEF n
  <2>4. QED BY <1>7, <2>1, <2>3
<1>9. n \in 1..n BY <1>2
<1>10. /\ AtLeast(c, m, min, n, FALSE) /\ AtMost(c, m, max, n, FALSE) => In(n)
       /\ In(n) /\ r[n] # <<>> => AtLeast(c, m, min, n, TRUE) /\ AtMost(c, m, max, n, TRUE)
  <2>1. PartBound(min, max, equal, so, n) BY <1>6, <1>9
  <2> DEFINE L == LoMeets(so.bounds[n].lo, a[n], r[n])
             H == HiMeets(so.bounds[n].hi, b[n], r[n])
  <2>2. /\ AtLeast(c, m, min, n, FALSE) /\ AtMost(c, m, max, n, FALSE) => L /\ H
        /\ L /\ H /\ r[n] # <<>> => AtLeast(c, m, min, n, TRUE) /\ AtMost(c, m, max, n, TRUE)
    BY <1>1, <2>1, LastPart DEF n
  <2>3. In(n) <=> L /\ H BY <1>7, <1>9
  <2> HIDE DEF L, H, In
  <2>4. QED BY <2>2, <2>3
<1>11. ASSUME NEW closed
       PROVE  insideOf(c, m, min, max, closed) <=>
                Alike(a, r, n - 1) /\ AtLeast(c, m, min, n, closed) /\ AtMost(c, m, max, n, closed)
  BY <1>1, InsideIs DEF n
<1>12. \A k \in 1..n : k \in 1..(n - 1) \/ k = n BY <1>2
<1>13. \A k \in 1..(n - 1) : k \in 1..n BY <1>2
<1>14. (\A k \in DOMAIN c : m[k] # <<>>) => r[n] # <<>>
  <2>1. r[n] = myRank(c[n].field, m[n]) BY <1>1, <1>3, RowRank
  <2>2. \A x : <<x>> # <<>> OBVIOUS
  <2>3. QED BY <1>3, <2>1, <2>2 DEF myRank
<1> HIDE DEF a, b, r, In
<1>15. ASSUME insideOf(c, m, min, max, FALSE) PROVE \A k \in 1..n : In(k)
  <2>1. Alike(a, r, n - 1) /\ In(n) BY <1>10, <1>11, <1>15
  <2>2. \A k \in 1..(n - 1) : In(k) BY <1>8, <2>1 DEF Alike
  <2>3. QED BY <1>12, <2>1, <2>2
<1>16. ASSUME \A k \in 1..n : In(k), \A k \in DOMAIN c : m[k] # <<>>
       PROVE  insideOf(c, m, min, max, TRUE)
  <2>1. Alike(a, r, n - 1) BY <1>8, <1>13, <1>16 DEF Alike
  <2>2. In(n) /\ r[n] # <<>> BY <1>9, <1>14, <1>16
  <2>3. QED BY <1>10, <1>11, <2>1, <2>2
<1>17. QED BY <1>5, <1>15, <1>16 DEF In

(* No row is behind a key and in front of it.                              *)
LEMMA NoneBetween ==
  ASSUME NEW c, IsTable(c), NEW m, IsRow(c, m), NEW min, NEW max, RangeEnds(c, min, max), lessThanNull(min, max)
  PROVE  ~insideOf(c, m, min, max, FALSE)
<1> SUFFICES ASSUME insideOf(c, m, min, max, FALSE) PROVE FALSE OBVIOUS
<1> DEFINE n == keyCnt(min, max)
           a == ranksOf(c, min)
           b == ranksOf(c, max)
           r == myRanksOf(c, m)
<1>1. /\ flagOf(min) = "HA_READ_AFTER_KEY" /\ flagOf(max) = "HA_READ_BEFORE_KEY"
      /\ min[1].key = max[1].key
  BY DEF lessThanNull
<1>2. min # NoLimit /\ max # NoLimit
  <2>1. flagOf(NoLimit) = "none" BY DEF flagOf
  <2>2. QED BY <1>1, <2>1
<1>3. a = b /\ sizeOf(min) = sizeOf(max) BY <1>1, <1>2 DEF ranksOf, sizeOf
<1>4. AtLeast(c, m, min, n, FALSE) /\ AtMost(c, m, max, n, FALSE) BY InsideIs
<1>5. /\ n \in Nat \ {0} /\ Sizes(min, max)
      /\ \A k \in 1..sizeOf(min) : OnePartFirst(a[k], r[k])
  BY EndRanks
<1>6. sizeOf(min) = n
  <2>1. sizeOf(min) \in {n - 1, n} /\ (min # NoLimit /\ sizeOf(min) = n - 1 => flagOf(min) = "HA_READ_KEY_EXACT")
    BY DEF RangeEnds
  <2>2. QED BY <1>1, <1>2, <2>1
<1>7. PartBefore(a[n], r[n]) /\ PartBefore(r[n], b[n])
  BY <1>1, <1>3, <1>4, <1>6 DEF AtLeast, AtMost, Above
<1>8. OnePartFirst(a[n], r[n]) BY <1>5, <1>6
<1> HIDE DEF a, b, r
<1>9. QED BY <1>3, <1>7, <1>8 DEF OnePartFirst

(* The answer's three forms.                                               *)
LEMMA RangeAnswers ==
  ASSUME NEW min, NEW max, NEW equal, records_in_range(min, max, equal)
  PROVE  LET b == boundsOf(min, max, equal)
         IN \/ answer'.call = "no estimate"
            \/ /\ answer'.call = "empty range" /\ lessThanNull(min, max)
               /\ answer'.min = min /\ answer'.max = max
            \/ /\ answer'.call = "range" /\ ~b.failed
               /\ answer'.min = min /\ answer'.max = max
               /\ answer'.bounds = b.bounds /\ answer'.literals = b.literals
<1> DEFINE b == boundsOf(min, max, equal)
           unsendable == \/ min # NoLimit /\ refused(min[1].key)
                         \/ max # NoLimit /\ refused(max[1].key)
           range == [call |-> "range", min |-> min, max |-> max,
                     bounds |-> b.bounds, literals |-> b.literals]
           over == lessThanNull(min, max)
           none == b.failed \/ unsendable
<1>1. answer' = CASE over -> [range EXCEPT !.call = "empty range"]
                  [] ~over /\ none -> [range EXCEPT !.call = "no estimate"]
                  [] OTHER -> range
  BY DEF records_in_range
<1>2. /\ range.call = "range" /\ range.min = min /\ range.max = max
      /\ range.bounds = b.bounds /\ range.literals = b.literals
  OBVIOUS
<1>3. /\ [range EXCEPT !.call = "empty range"].call = "empty range"
      /\ [range EXCEPT !.call = "empty range"].min = min
      /\ [range EXCEPT !.call = "empty range"].max = max
      /\ [range EXCEPT !.call = "no estimate"].call = "no estimate"
  OBVIOUS
<1>4. ~none => ~b.failed OBVIOUS
<1> HIDE DEF range, over, none, b
<1>5. CASE over BY <1>1, <1>3, <1>5 DEF over
<1>6. CASE ~over /\ none BY <1>1, <1>3, <1>6
<1>7. CASE ~over /\ ~none
  <2>1. answer' = range BY <1>1, <1>7
  <2>2. QED BY <1>2, <1>4, <1>7, <2>1 DEF b
<1>8. QED BY <1>5, <1>6, <1>7

LEMMA RangeIsRight ==
  ASSUME IsTable(cols), RowAsSent(cols, my, db2Row), NEW min \in limits(MinFlags),
         NEW max \in limits(MaxFlags), IsRange(min, max), NEW equal, records_in_range(min, max, equal)
  PROVE  Meant(cols, my, db2Row, answer')
<1> DEFINE b == boundsOf(min, max, equal)
<1>1. RangeEnds(cols, min, max) /\ IsRow(cols, my) BY EndsOfRange DEF RowAsSent
<1>2. \/ answer'.call = "no estimate"
      \/ /\ answer'.call = "empty range" /\ lessThanNull(min, max)
         /\ answer'.min = min /\ answer'.max = max
      \/ /\ answer'.call = "range" /\ ~b.failed
         /\ answer'.min = min /\ answer'.max = max
         /\ answer'.bounds = b.bounds /\ answer'.literals = b.literals
  BY RangeAnswers
<1>3. CASE answer'.call = "no estimate" BY <1>3 DEF Meant
<1>4. CASE answer'.call = "empty range" /\ lessThanNull(min, max) /\ answer'.min = min /\ answer'.max = max
  BY <1>1, <1>4, NoneBetween DEF Meant
<1>5. CASE /\ answer'.call = "range" /\ ~b.failed
           /\ answer'.min = min /\ answer'.max = max
           /\ answer'.bounds = b.bounds /\ answer'.literals = b.literals
  <2> SUFFICES ASSUME \A k \in DOMAIN cols : ~Shifted(cols[k].field) /\ ~TooFar(cols[k].field)
               PROVE  /\ insideOf(cols, my, min, max, FALSE) =>
                           \A k \in DOMAIN b.bounds : withinOf(cols, db2Row, b.bounds, b.literals, k)
                      /\ /\ \A k \in DOMAIN b.bounds : withinOf(cols, db2Row, b.bounds, b.literals, k)
                         /\ \A k \in DOMAIN cols : my[k] # <<>>
                         => insideOf(cols, my, min, max, TRUE)
    BY <1>5 DEF Meant
  <2>1. \A k \in DOMAIN cols : Faithful(cols[k].field) BY TableColumns DEF Faithful
  <2> HIDE DEF b
  <2>2. b = boundsOf(min, max, equal) /\ ~b.failed BY <1>5 DEF b
  <2>3. QED BY <1>1, <2>1, <2>2, BoundsMean
<1>6. QED BY <1>2, <1>3, <1>4, <1>5

(* The property, now and after a step.                                     *)
LEMMA RangeSpelled == RangeMeant <=> Meant(cols, my, db2Row, answer)
<1>1. \A key : myRanks(key) = myRanksOf(cols, key) BY Spelled
<1>2. \A min, max, closed : inside(min, max, closed) <=> insideOf(cols, my, min, max, closed)
  BY <1>1 DEF inside, insideOf
<1>3. \A k, part : rankOf(k, part) = db2Rank(cols[k].field, part) BY DEF rankOf, db2Rank, fieldOf
<1>4. \A b, k : literalOf(b, k) = literalIn(cols, answer.literals, b) BY DEF literalOf, literalIn, fieldOf
<1>5. \A k : within(k) <=> withinOf(cols, db2Row, answer.bounds, answer.literals, k)
  BY <1>3, <1>4 DEF within, withinOf
<1>6. QED BY <1>2, <1>5 DEF RangeMeant, Meant, columns, fieldOf

LEMMA RangeSpelledNext == RangeMeant' <=> Meant(cols', my', db2Row', answer')
<1>1. (RangeMeant <=> Meant(cols, my, db2Row, answer))' BY RangeSpelled, PTL
<1>2. QED BY <1>1

LEMMA OtherAnswers ==
  ASSUME answer'.call \in {"none", "write", "fetch", "read"}
  PROVE  RangeMeant'
<1>1. Meant(cols', my', db2Row', answer') BY DEF Meant
<1>2. QED BY <1>1, RangeSpelledNext

LEMMA RangeStep ==
  ASSUME AccessInv, RangeMeant, [KNext]_kvars
  PROVE  RangeMeant'
<1>1. CASE UNCHANGED kvars
  <2>1. cols' = cols /\ my' = my /\ db2Row' = db2Row /\ answer' = answer BY <1>1 DEF kvars
  <2>2. QED BY <2>1, RangeSpelled, RangeSpelledNext
<1>2. ASSUME NEW t \in Tables, create(t) PROVE RangeMeant'
  <2>1. answer'.call = "none" BY <1>2 DEF create, AccessInv, NothingYet
  <2>2. QED BY <2>1, OtherAnswers
<1>3. ASSUME NEW v \in values, write_row(v) PROVE RangeMeant'
  <2>1. answer'.call \in {"none", "write"} BY <1>3 DEF write_row, NoAnswer
  <2>2. QED BY <2>1, OtherAnswers
<1>4. CASE rnd_next
  <2>1. answer'.call = "fetch" BY <1>4 DEF rnd_next
  <2>2. QED BY <2>1, OtherAnswers
<1>5. ASSUME NEW key, NEW flag, NEW behind, NEW rest, index_read(key, rest, behind, flag)
      PROVE  RangeMeant'
  <2>1. answer'.call = "read" BY <1>5 DEF index_read
  <2>2. QED BY <2>1, OtherAnswers
<1>6. ASSUME NEW min \in limits(MinFlags), NEW max \in limits(MaxFlags), IsRange(min, max), NEW equal,
             records_in_range(min, max, equal)
      PROVE  RangeMeant'
  <2>1. UNCHANGED <<cols, my, db2Row>> /\ db2Row # <<>> BY <1>6 DEF records_in_range
  <2>2. cols' = cols /\ my' = my /\ db2Row' = db2Row /\ IsTable(cols) /\ RowAsSent(cols, my, db2Row)
    BY <2>1, AnsweringKeeps
  <2>3. Meant(cols, my, db2Row, answer') BY <1>6, <2>2, RangeIsRight
  <2>4. QED BY <2>2, <2>3, RangeSpelledNext
<1>7. QED BY <1>1, <1>2, <1>3, <1>4, <1>5, <1>6 DEF KNext, MinFlags, MaxFlags

(* The bounds sent for a range let in every row that MySQL means, and none *)
(* but NULLs and rows at its ends otherwise, whatever the columns' types,  *)
(* however many parts the keys have, and with the literals shared between  *)
(* the bounds; a range answered without asking DB2 has no row              *)
(* (records_in_range).                                                     *)
THEOREM RangeAlwaysMeant == KSpec => []RangeMeant
<1>1. KInit => AccessInv /\ RangeMeant
  <2>1. KInit => answer.call = "none" BY DEF KInit, NoAnswer
  <2>2. KInit => RangeMeant BY <2>1 DEF RangeMeant
  <2>3. QED BY <2>2, AccessStarts
<1>2. AccessInv /\ RangeMeant /\ [KNext]_kvars => AccessInv' /\ RangeMeant' BY AccessStep, RangeStep
<1>3. QED BY <1>1, <1>2, PTL DEF KSpec
=============================================================================
