--------------------------- MODULE FieldConversion ---------------------------
(***************************************************************************)
(* How the value of a column that is not text is turned into DB2's and     *)
(* back (CharColumn has the text): the type DB2 gives the column, what is  *)
(* put into a row or a key, and what MySQL stores when the row comes back. *)
(*                                                                         *)
(* MySQL keeps an integer as bytes, least significant first; DB2 and the   *)
(* host, an IBM i, want the most significant first.  DB2 has no unsigned   *)
(* integers, so the next longer type, or a packed decimal, takes their     *)
(* place.  A packed decimal is a sequence of nibbles: an even number of    *)
(* them, the last one the sign.  A number of the SQL layer is              *)
(* [neg, digits], a BIT value its bytes, most significant first, a date    *)
(* or a time its parts; the separators and the EBCDIC digits between the   *)
(* parts are left out, for they are put in and taken out one for one.      *)
(* A field is a record: its type, whether it is unsigned, the precision    *)
(* and scale of a decimal, the bits of a BIT, what becomes of a zero date  *)
(* (zero, cachedZeroDateOption) and DB2's type for a year (db2).           *)
(*                                                                         *)
(* A definition named Name_Variant is Name with a plausible mistake in it. *)
(***************************************************************************)
EXTENDS Integers, Sequences, SequencesExt

CONSTANT
  MaxDecPrecision (* MAX_DEC_PRECISION: digits of DB2's longest decimal    *)

ASSUME ConversionAssumption == MaxDecPrecision \in Nat \ {0}

Width == [TINY |-> 1, SHORT |-> 2, INT24 |-> 3, LONG |-> 4, LONGLONG |-> 8, ENUM |-> 1]
Integers_ == DOMAIN Width
Few(n, b) == [i \in 1..n |-> b]
Wider(be, n, b) == Few(n - Len(be), b) \o be

Packed(f) == f.type = "NEWDECIMAL" \/ (f.type = "LONGLONG" /\ f.unsigned)

-----------------------------------------------------------------------------
(* getFieldTypeMapping: DB2's type for a field, and whether there is one.  *)
truncationAmount(f) ==
  IF f.type = "NEWDECIMAL" /\ f.precision > MaxDecPrecision
  THEN f.precision - MaxDecPrecision ELSE 0
Supported(f) == f.type = "NEWDECIMAL" => truncationAmount(f) = 0 \/ f.scale > truncationAmount(f)

db2Width(f) ==
  CASE f.type = "TINY" -> 2
    [] f.type = "INT24" -> 4
    [] f.type = "ENUM" -> 8
    [] f.type \in {"SHORT", "LONG"} /\ f.unsigned -> 2 * Width[f.type]
    [] OTHER -> Width[f.type]
db2Precision(f) == IF f.type = "LONGLONG" THEN 20 ELSE f.precision - truncationAmount(f)
bytesToCopy(f) == (f.bits \div 8) + 1

-----------------------------------------------------------------------------
(* Packed decimals.                                                        *)

(* The digits val_str shows: at least one in front of the point.           *)
shownDigits(f, v) ==
  LET whole == Len(v.digits) - f.scale
      first == CHOOSE n \in 1..(whole + 1) :
                 /\ \A i \in 1..(n - 1) : v.digits[i] = 0
                 /\ n = whole + 1 \/ v.digits[n] # 0
  IN (IF first > whole THEN <<0>> ELSE <<>>) \o SubSeq(v.digits, first, Len(v.digits))

(* Filled from the last digit towards the first nibble (bcdAssign).        *)
pack_Sign(p, neg, shown) ==
  LET last == p - 1
  IN [n \in 1..(2 * ((p \div 2) + 1)) |->
        LET back == last - (n - 1)
        IN CASE back < 0 -> IF neg THEN 13 ELSE 15
             [] back \in 0..(Len(shown) - 1) -> shown[Len(shown) - back]
             [] OTHER -> 0]
pack(p, neg, shown) ==
  LET last == p - (p % 2)
  IN [n \in 1..(2 * ((p \div 2) + 1)) |->
        LET back == last - (n - 1)
        IN CASE back < 0 -> IF neg THEN 13 ELSE 15
             [] back \in 0..(Len(shown) - 1) -> shown[Len(shown) - back]
             [] OTHER -> 0]
packedFrom(f, v) ==
  LET shown == shownDigits(f, v)
  IN pack(db2Precision(f), v.neg, SubSeq(shown, 1, Len(shown) - truncationAmount(f)))

(* Read from the first digit (bcdGet); the store gives the fraction the    *)
(* digits that DB2 has no room for.                                        *)
unpack(p, nibbles) ==
  LET numNibbles == p + ((p + 1) % 2)
      digits == SubSeq(nibbles, numNibbles - p + 1, numNibbles)
  IN [neg |-> nibbles[numNibbles + 1] = 13 /\ \E i \in 1..p : digits[i] # 0, digits |-> digits]
unpackedInto(f, nibbles) ==
  LET number == unpack(db2Precision(f), nibbles)
  IN [number EXCEPT !.digits = @ \o Few(truncationAmount(f), 0)]

-----------------------------------------------------------------------------
(* Integers.                                                               *)

signByte(f, le) == IF ~f.unsigned /\ le[Len(le)] > 127 THEN 255 ELSE 0

(* db2i_beint32_from_ptr2leuint16 and db2i_beint64_from_ptr2leuint32 widen *)
(* the bytes as if they were the host's and reverse the result.            *)
reversedWide(f, le) == Reverse(Wider(le, db2Width(f), 0))

toInteger(f, le) ==
  IF f.type \in {"SHORT", "LONG"} /\ f.unsigned
  THEN reversedWide(f, le)
  ELSE Wider(Reverse(le), db2Width(f), signByte(f, le))

(* The store into the field, which keeps what fits.                        *)
fromInteger(f, be) ==
  LET w == Width[f.type]
      high == SubSeq(be, 1, Len(be) - w)
      low == SubSeq(be, Len(be) - w + 1, Len(be))
      sign == IF ~f.unsigned /\ be[1] > 127 THEN 255 ELSE 0
      fits == /\ \A i \in 1..Len(high) : high[i] = sign
              /\ f.unsigned \/ (low[1] > 127) = (sign = 255)
  IN CASE fits -> Reverse(low)
       [] ~fits /\ f.unsigned -> Few(w, 255)
       [] OTHER -> IF sign = 255 THEN Few(w - 1, 0) \o <<128>> ELSE Few(w - 1, 255) \o <<127>>

-----------------------------------------------------------------------------
(* Dates, times, years and bits.                                           *)

ZERO_DATE_VALUE == <<0, 0, 0>>
ZERO_DATE_VALUE_SUBST == <<1, 1, 1>>
date(v) == SubSeq(v, 1, 3)
midnight(v) == \A i \in 4..Len(v) : v[i] = 0

(* A zero date is refused or sent as the first day there is.               *)
isZeroDate(f, v) == f.type \in {"DATE", "DATETIME"} /\ date(v) = ZERO_DATE_VALUE /\ midnight(v)
Refuses(f, v) == isZeroDate(f, v) /\ f.zero = "NO_SUBSTITUTION"
toDate(f, v) == IF isZeroDate(f, v) THEN ZERO_DATE_VALUE_SUBST \o SubSeq(v, 4, Len(v)) ELSE v
fromDate(f, d) ==
  IF f.type # "TIME" /\ f.zero = "SUBSTITUTE_0001_01_01"
     /\ date(d) = ZERO_DATE_VALUE_SUBST /\ midnight(d)
  THEN ZERO_DATE_VALUE \o SubSeq(d, 4, Len(d)) ELSE d

year(v) == IF v = 0 THEN 0 ELSE v + 1900
toYear(f, v) ==
  IF f.db2 = "CHAR4"
  THEN <<year(v) \div 1000, (year(v) \div 100) % 10, (year(v) \div 10) % 10, year(v) % 10>>
  ELSE <<year(v) \div 256, year(v) % 256>>
fromYear(f, y) ==
  LET n == IF f.db2 = "CHAR4" THEN y[1] * 1000 + y[2] * 100 + y[3] * 10 + y[4]
           ELSE y[1] * 256 + y[2]
  IN IF n = 0 THEN 0 ELSE n - 1900

(* A row's bits come from the end of a 64-bit number, a key's from the     *)
(* start of the key, whatever lies behind them (behind).                   *)
bitsOfRow(f, v) ==
  LET number == Wider(v, 8, 0) IN SubSeq(number, 9 - bytesToCopy(f), 8)
bitsOfKey(f, v, behind) == SubSeq(Append(v, behind), 1, bytesToCopy(f))
fromBits(f, b) == SubSeq(b, Len(b) - ((f.bits + 7) \div 8) + 1, Len(b))

-----------------------------------------------------------------------------
(* convertMySQLtoDB2 for a row and for a part of a key, where Refuses does *)
(* not hold, and convertDB2toMySQL.                                        *)

convertMySQLtoDB2(f, v) ==
  CASE Packed(f) -> packedFrom(f, v)
    [] f.type \in Integers_ /\ ~Packed(f) -> toInteger(f, v)
    [] f.type \in {"FLOAT", "DOUBLE"} -> Reverse(v)
    [] f.type \in {"DATE", "DATETIME", "TIME"} -> toDate(f, v)
    [] f.type = "YEAR" -> toYear(f, v)
    [] f.type = "BIT" -> bitsOfRow(f, v)
convertKey(f, v, behind) ==
  IF f.type = "BIT" THEN bitsOfKey(f, v, behind) ELSE convertMySQLtoDB2(f, v)

convertDB2toMySQL(f, d) ==
  CASE Packed(f) -> unpackedInto(f, d)
    [] f.type \in Integers_ /\ ~Packed(f) -> fromInteger(f, d)
    [] f.type \in {"FLOAT", "DOUBLE"} -> Reverse(d)
    [] f.type \in {"DATE", "DATETIME", "TIME"} -> fromDate(f, d)
    [] f.type = "YEAR" -> fromYear(f, d)
    [] f.type = "BIT" -> fromBits(f, d)

-----------------------------------------------------------------------------
(* MySQL's fields and values (external).  A BIT(64), of which the engine   *)
(* copies nine bytes out of a number of eight, is left out, and so are     *)
(* dates of the years 0 and 1, which DB2 does not have or which stand for  *)
(* the zero date.  No decimal is a negative zero.                          *)
IsField(f) ==
  /\ f.type \in Integers_ \cup {"NEWDECIMAL", "FLOAT", "DOUBLE", "DATE", "DATETIME", "TIME",
                              "YEAR", "BIT"}
  /\ f.unsigned \in BOOLEAN
  /\ f.type = "ENUM" => f.unsigned
  /\ f.type = "NEWDECIMAL" => f.precision \in Nat \ {0} /\ f.scale \in 0..f.precision
  /\ f.type = "LONGLONG" /\ f.unsigned => f.precision = 20 /\ f.scale = 0
  /\ f.type = "BIT" => f.bits \in 1..63
  /\ f.type \in {"DATE", "DATETIME"} => f.zero \in {"NO_SUBSTITUTION", "SUBSTITUTE_0001_01_01"}

IsBytes(v, n) == v \in Seq(0..255) /\ Len(v) = n
IsNumber(f, v) ==
  /\ v \in [neg : BOOLEAN, digits : Seq(0..9)] /\ Len(v.digits) = f.precision
  /\ v.neg => \E i \in 1..f.precision : v.digits[i] # 0
IsDate(f, v) ==
  /\ v \in Seq(Nat) /\ Len(v) = (IF f.type = "DATETIME" THEN 6 ELSE 3)
  /\ f.type \in {"DATE", "DATETIME"} => isZeroDate(f, v) \/ v[1] > 1
IsValue(f, v) ==
  CASE Packed(f) -> IsNumber(f, v)
    [] f.type \in Integers_ /\ ~Packed(f) -> IsBytes(v, Width[f.type])
    [] f.type \in {"FLOAT", "DOUBLE"} -> IsBytes(v, IF f.type = "FLOAT" THEN 4 ELSE 8)
    [] f.type \in {"DATE", "DATETIME", "TIME"} -> IsDate(f, v)
    [] f.type = "YEAR" -> v \in 0..255
    [] f.type = "BIT" -> IsBytes(v, (f.bits + 7) \div 8)
=============================================================================
