------------------------------ MODULE KeyAccess ------------------------------
(***************************************************************************)
(* A row of a table with an index on all its columns: written, fetched,    *)
(* looked for by a key, and counted in a range of keys.  The columns'      *)
(* values go through FieldConversion; a key or a range says by its parts   *)
(* and their flags which rows are meant, and the engine says it again in   *)
(* DB2's terms: an orientation with the key's bytes (index_read), or a     *)
(* pair of bounds for each part with the literals they point at            *)
(* (records_in_range).                                                     *)
(*                                                                         *)
(* A value is <<v>>, or <<>> for NULL; a key is the values of the first    *)
(* columns.  One row at a time is in the table, so that what is found, or  *)
(* counted, is whether DB2 takes it for one of the rows meant.             *)
(* External: MySQL's keys and ranges, and DB2, which compares a row with a *)
(* key part by part, NULL before every value, and counts the rows whose    *)
(* every part lies within its bounds.                                      *)
(*                                                                         *)
(* A definition named Name_Variant is Name with a plausible mistake in it; *)
(* no specification uses it.                                               *)
(***************************************************************************)
EXTENDS FieldConversion, FiniteSetsExt

CONSTANTS
  Tables,     (* the tables: sequences of [field, values], NULL one of the *)
              (* values if the column may be NULL                          *)
  PrefixReads (* does MySQL read with keys shorter than the index?         *)

ASSUME AccessAssumption == PrefixReads \in BOOLEAN
ASSUME TablesAssumption ==
  \A t \in Tables : /\ DOMAIN t = 1..Len(t) /\ Len(t) \in Nat \ {0}
                    /\ \A k \in DOMAIN t :
                         /\ IsField(t[k].field)
                         /\ \A p \in t[k].values :
                              p = <<>> \/ \E v \in {p[1]} : p = <<v>> /\ IsValue(t[k].field, v)

VARIABLES
  cols,       (* the columns of the table, <<>> before it is created       *)
  my,         (* MySQL's row, <<>> if none has been written                *)
  db2Row,     (* DB2's row: the parts it was given, <<>> if there is none  *)
  answer      (* the last call and what came of it                         *)

kvars == <<cols, my, db2Row, answer>>

NoAnswer == [call |-> "none"]
NoLimit == <<>>
columns == DOMAIN cols
fieldOf(k) == cols[k].field
Min2(a, b) == IF a < b THEN a ELSE b

-----------------------------------------------------------------------------
(* How MySQL orders the values of a field, and DB2 what it holds, as       *)
(* sequences to be compared number by number (external); a key is compared *)
(* part by part.                                                           *)
flipped(be) == [be EXCEPT ![1] = (@ + 128) % 256]
floating(be) == IF be[1] > 127 THEN [i \in DOMAIN be |-> 255 - be[i]] ELSE flipped(be)
ofDecimal(d) ==
  IF d.neg /\ \E i \in DOMAIN d.digits : d.digits[i] # 0
  THEN <<0>> \o [i \in DOMAIN d.digits |-> 9 - d.digits[i]] ELSE <<1>> \o d.digits

myOrder(f, v) ==
  CASE Packed(f) -> ofDecimal([v EXCEPT !.digits = SubSeq(@, 1, Len(@) - truncationAmount(f))])
    [] f.type \in Integers_ /\ ~Packed(f) -> IF f.unsigned THEN Reverse(v) ELSE flipped(Reverse(v))
    [] f.type \in {"FLOAT", "DOUBLE"} -> floating(Reverse(v))
    [] f.type = "YEAR" -> <<v>>
    [] OTHER -> v
db2Order(f, d) ==
  CASE Packed(f) -> ofDecimal(unpack(db2Precision(f), d))
    [] f.type \in Integers_ /\ ~Packed(f) -> flipped(d)
    [] f.type \in {"FLOAT", "DOUBLE"} -> floating(d)
    [] OTHER -> d

myRanks(key) == [k \in DOMAIN key |->
  IF key[k] = <<>> THEN <<>> ELSE <<myOrder(fieldOf(k), key[k][1])>>]
db2Ranks(key) == [k \in DOMAIN key |->
  IF key[k] = <<>> THEN <<>> ELSE <<db2Order(fieldOf(k), key[k][1])>>]

Before(s, t) == \E i \in 1..Min2(Len(s), Len(t)) :
                  s[i] < t[i] /\ \A j \in 1..(i - 1) : s[j] = t[j]
PartBefore(p, q) == q # <<>> /\ (p = <<>> \/ Before(p[1], q[1]))
KeyBefore(a, b) == \E k \in DOMAIN a \cap DOMAIN b :
                     PartBefore(a[k], b[k]) /\ \A j \in 1..(k - 1) : a[j] = b[j]

-----------------------------------------------------------------------------
create(t) ==
  /\ cols = <<>> /\ \A k \in DOMAIN t : Supported(t[k].field)
  /\ cols' = t /\ UNCHANGED <<my, db2Row, answer>>

(* write_row, or update_row, through prepareRowForWrite.                   *)
values ==
  {v \in [columns -> UNION {cols[k].values : k \in columns}] : \A k \in columns : v[k] \in cols[k].values}
refused(v) == \E k \in DOMAIN v : v[k] # <<>> /\ Refuses(fieldOf(k), v[k][1])
prepareRowForWrite(v) ==
  [k \in columns |-> IF v[k] = <<>> THEN <<>> ELSE <<convertMySQLtoDB2(fieldOf(k), v[k][1])>>]
write_row(v) ==
  /\ cols # <<>>
  /\ IF refused(v)
     THEN UNCHANGED <<my, db2Row>> /\ answer' = [call |-> "write", rc |-> "DB2I_ERR_INVALID_COL_VALUE"]
     ELSE my' = v /\ db2Row' = prepareRowForWrite(v) /\ answer' = NoAnswer
  /\ UNCHANGED cols

(* A row that was read is handed to MySQL (mungeDB2row).                   *)
mungeDB2row ==
  [k \in columns |-> IF db2Row[k] = <<>> THEN <<>> ELSE <<convertDB2toMySQL(fieldOf(k), db2Row[k][1])>>]
rnd_next ==
  /\ db2Row # <<>> /\ answer' = [call |-> "fetch", row |-> mungeDB2row]
  /\ UNCHANGED <<cols, my, db2Row>>

-----------------------------------------------------------------------------
(* index_read.                                                             *)

Flags == {"HA_READ_KEY_EXACT", "HA_READ_KEY_OR_NEXT", "HA_READ_AFTER_KEY", "HA_READ_BEFORE_KEY",
          "HA_READ_PREFIX_LAST", "HA_READ_PREFIX_LAST_OR_PREV"}
orientation_Loose(flag) ==
  CASE flag = "HA_READ_AFTER_KEY" -> "QMY_AFTER_OR_EQUAL"
    [] flag = "HA_READ_BEFORE_KEY" -> "QMY_BEFORE_EQUAL"
    [] flag = "HA_READ_KEY_OR_NEXT" -> "QMY_AFTER_OR_EQUAL"
    [] flag = "HA_READ_PREFIX_LAST_OR_PREV" -> "QMY_LAST_PREVIOUS"
    [] flag = "HA_READ_PREFIX_LAST" -> "QMY_PREFIX_LAST"
    [] flag = "HA_READ_KEY_EXACT" -> "QMY_EQUAL"
orientation(flag) ==
  CASE flag = "HA_READ_AFTER_KEY" -> "QMY_AFTER_EQUAL"
    [] flag = "HA_READ_BEFORE_KEY" -> "QMY_BEFORE_EQUAL"
    [] flag = "HA_READ_KEY_OR_NEXT" -> "QMY_AFTER_OR_EQUAL"
    [] flag = "HA_READ_PREFIX_LAST_OR_PREV" -> "QMY_LAST_PREVIOUS"
    [] flag = "HA_READ_PREFIX_LAST" -> "QMY_PREFIX_LAST"
    [] flag = "HA_READ_KEY_EXACT" -> "QMY_EQUAL"

(* DB2 finds the row, and MySQL expects it to.                             *)
db2Finds(way, r, k) ==
  CASE way \in {"QMY_EQUAL", "QMY_PREFIX_LAST"} -> r = k
    [] way = "QMY_AFTER_EQUAL" -> KeyBefore(k, r)
    [] way = "QMY_BEFORE_EQUAL" -> KeyBefore(r, k)
    [] way = "QMY_AFTER_OR_EQUAL" -> ~KeyBefore(r, k)
    [] way = "QMY_LAST_PREVIOUS" -> ~KeyBefore(k, r)
isMeant(flag, r, k) ==
  CASE flag \in {"HA_READ_KEY_EXACT", "HA_READ_PREFIX_LAST"} -> r = k
    [] flag = "HA_READ_AFTER_KEY" -> KeyBefore(k, r)
    [] flag = "HA_READ_BEFORE_KEY" -> KeyBefore(r, k)
    [] flag = "HA_READ_KEY_OR_NEXT" -> ~KeyBefore(r, k)
    [] flag = "HA_READ_PREFIX_LAST_OR_PREV" -> ~KeyBefore(k, r)

(* The loop over the parts ends only when both the columns of the index    *)
(* and the bytes of the key are used up: for a shorter key it goes on in   *)
(* what lies behind (rest, and behind for a part that is read too far).    *)
(* That a value cannot be converted goes unnoticed, and DB2 is sent what   *)
(* it cannot understand.                                                   *)
Keys == {SubSeq(v, 1, n) : v \in values, n \in columns}
keyBuf(parts, behind) ==
  [k \in DOMAIN parts |-> IF parts[k] = <<>> THEN <<>> ELSE <<convertKey(fieldOf(k), parts[k][1], behind)>>]
index_read(key, rest, behind, flag) ==
  LET parts == key \o rest
      r == SubSeq(db2Row, 1, Len(parts))
  IN /\ db2Row # <<>> /\ (Len(key) = Len(cols) \/ PrefixReads)
     /\ answer' = [call |-> "read", key |-> key, flag |-> flag,
                   found |-> IF refused(parts) THEN "not understood"
                             ELSE IF db2Finds(orientation(flag), db2Ranks(r), db2Ranks(keyBuf(parts, behind)))
                             THEN "row" ELSE "none"]
     /\ UNCHANGED <<cols, my, db2Row>>

-----------------------------------------------------------------------------
(* records_in_range: a range is [min, max], each NoLimit or <<[key, flag]>>*)

sizeOf(limit) == IF limit = NoLimit THEN 0 ELSE Len(limit[1].key)
flagOf(limit) == IF limit = NoLimit THEN "none" ELSE limit[1].flag
partOf(limit, k) == limit[1].key[k]

Infinity == [to |-> "infinity"]
IsNull == [to |-> "null"]
At(position, excluded) == [to |-> "literal", at |-> position, excluded |-> excluded]

(* The part's images are compared as far as MySQL's key goes; behind the   *)
(* end of max, equal is what the comparison happens to give.               *)
samePart(min, max, k, equal) ==
  IF k <= sizeOf(max) THEN partOf(min, k) = partOf(max, k) ELSE max # NoLimit /\ equal

LoBound_Strict(min, max, k, equal, literals) ==
  IF k > sizeOf(min) THEN Infinity
  ELSE IF partOf(min, k) # <<>>
       THEN At(literals + 1, flagOf(min) # "HA_READ_KEY_EXACT")
       ELSE IF k <= sizeOf(max) /\ (flagOf(min) = "HA_READ_KEY_EXACT" \/ partOf(max, k) = <<>>)
            THEN IsNull ELSE Infinity
LoBound(min, max, k, equal, literals) ==
  IF k > sizeOf(min) THEN Infinity
  ELSE IF partOf(min, k) # <<>>
       THEN At(literals + 1, flagOf(min) # "HA_READ_KEY_EXACT" /\ ~samePart(min, max, k, equal))
       ELSE IF k <= sizeOf(max) /\ (flagOf(min) = "HA_READ_KEY_EXACT" \/ partOf(max, k) = <<>>)
            THEN IsNull ELSE Infinity

overrideInclusion(min, max, k, equal) ==
  k <= sizeOf(min) /\ partOf(min, k) # <<>> /\ samePart(min, max, k, equal)
reuseLiteral(min, max, k) == k <= Min2(sizeOf(min), sizeOf(max)) /\ partOf(min, k) = partOf(max, k)
HiBound(min, max, k, equal, literals) ==
  IF k > sizeOf(max) THEN Infinity
  ELSE IF partOf(max, k) = <<>>
       THEN IF min = NoLimit THEN Infinity ELSE IsNull
       ELSE At(IF reuseLiteral(min, max, k) THEN literals ELSE literals + 1,
               flagOf(max) = "HA_READ_BEFORE_KEY" /\ ~overrideInclusion(min, max, k, equal))

(* The bounds of the parts, one after the other, with the literals so far. *)
Literal(bound, limit, k, literals) ==
  IF bound.to = "literal" /\ bound.at > Len(literals)
  THEN Append(literals, [part |-> k, value |-> partOf(limit, k)]) ELSE literals
boundPart(min, max, equal, so, k) ==
  LET lo == LoBound(min, max, k, equal, Len(so.literals))
      withLo == Literal(lo, min, k, so.literals)
      hi == HiBound(min, max, k, equal, Len(withLo))
  IN [bounds |-> Append(so.bounds, [lo |-> lo, hi |-> hi]),
      literals |-> Literal(hi, max, k, withLo),
      failed |-> so.failed \/ (lo = IsNull /\ hi.to = "literal")]
keyCnt(min, max) == Max({sizeOf(min), sizeOf(max), 1})
boundsOf(min, max, equal) ==
  LET so[k \in 0..keyCnt(min, max)] ==
        IF k = 0 THEN [bounds |-> <<>>, literals |-> <<>>, failed |-> FALSE]
        ELSE boundPart(min, max, equal, so[k - 1], k)
  IN so[keyCnt(min, max)]

(* The special case of 'x < null' needs no bounds.                         *)
lessThanNull(min, max) ==
  /\ flagOf(min) = "HA_READ_AFTER_KEY" /\ flagOf(max) = "HA_READ_BEFORE_KEY"
  /\ min[1].key = max[1].key

records_in_range(min, max, equal) ==
  LET b == boundsOf(min, max, equal)
      unsendable == \/ min # NoLimit /\ refused(min[1].key)
                    \/ max # NoLimit /\ refused(max[1].key)
      range == [call |-> "range", min |-> min, max |-> max, bounds |-> b.bounds, literals |-> b.literals]
  IN /\ db2Row # <<>>
     /\ answer' = CASE lessThanNull(min, max) -> [range EXCEPT !.call = "empty range"]
                    [] ~lessThanNull(min, max) /\ (b.failed \/ unsendable) ->
                         [range EXCEPT !.call = "no estimate"]
                    [] OTHER -> range
     /\ UNCHANGED <<cols, my, db2Row>>

(* The ranges MySQL asks for: the limits agree on all parts but the last,  *)
(* and are in order.                                                       *)
limits(flags) == {NoLimit} \cup {<<[key |-> key, flag |-> flag]>> : key \in Keys, flag \in flags}
IsRange(min, max) ==
  LET n == keyCnt(min, max)
      limit(l) == IF l = NoLimit THEN <<>> ELSE l[1].key
      a == limit(min)
      b == limit(max)
  IN /\ Len(a) \in {n - 1, n} /\ Len(b) \in {n - 1, n}
     /\ \A k \in 1..(n - 1) : a[k] = b[k]
     /\ min # NoLimit /\ Len(a) = n - 1 => flagOf(min) = "HA_READ_KEY_EXACT"
     /\ max # NoLimit /\ Len(b) = n - 1 => flagOf(max) = "HA_READ_AFTER_KEY"
     /\ Len(b) = n /\ b[n] = <<>> => Len(a) = n
     /\ Len(a) = n /\ Len(b) = n =>
          /\ ~KeyBefore(myRanks(b), myRanks(a))
          /\ a = b => \/ flagOf(min) = "HA_READ_KEY_EXACT" /\ flagOf(max) = "HA_READ_AFTER_KEY"
                      \/ a[n] = <<>> /\ flagOf(min) = "HA_READ_AFTER_KEY"
                                     /\ flagOf(max) = "HA_READ_BEFORE_KEY"

-----------------------------------------------------------------------------
KInit == cols = <<>> /\ my = <<>> /\ db2Row = <<>> /\ answer = NoAnswer

(* A row is asked for what it answers right after it was written; calls    *)
(* leave all but the answer as it is, so that no order of them is missed.  *)
KNext ==
  \/ \E t \in Tables : create(t)
  \/ \E v \in values : write_row(v)
  \/ /\ answer = NoAnswer
     /\ \/ rnd_next
        \/ \E key \in Keys, flag \in Flags, behind \in {0, 255} :
             \E rest \in {SubSeq(v, Len(key) + 1, Len(cols)) : v \in values} :
                index_read(key, rest, behind, flag)
        \/ \E min \in limits({"HA_READ_KEY_EXACT", "HA_READ_AFTER_KEY"}),
              max \in limits({"HA_READ_BEFORE_KEY", "HA_READ_AFTER_KEY"}) :
             /\ IsRange(min, max)
             /\ \E equal \in IF sizeOf(max) \in 1..(sizeOf(min) - 1) THEN BOOLEAN ELSE {FALSE} :
                  records_in_range(min, max, equal)

KSpec == KInit /\ [][KNext]_kvars

-----------------------------------------------------------------------------
(* Properties.                                                             *)

(* What does not hold, and is left out below: an unsigned SMALLINT or      *)
(* INTEGER is given to DB2 shifted by its width (reversedWide), and a key  *)
(* of whole bytes of bits goes a byte too far (bitsOfKey).                 *)
Shifted(f) == f.type \in {"SHORT", "LONG"} /\ f.unsigned
TooFar(f) == f.type = "BIT" /\ f.bits % 8 = 0

(* A value comes back from DB2 as it was written, whatever its type, its   *)
(* sign and the digits DB2 has no room for (convertMySQLtoDB2,             *)
(* convertDB2toMySQL, getFieldTypeMapping).                                *)
kept(f, v) ==
  IF f.type = "NEWDECIMAL" /\ truncationAmount(f) > 0
  THEN LET shown == SubSeq(v.digits, 1, db2Precision(f))
       IN [neg |-> v.neg /\ \E i \in DOMAIN shown : shown[i] # 0,
           digits |-> shown \o Few(truncationAmount(f), 0)]
  ELSE v
ValueSurvives ==
  answer.call = "fetch" =>
    \A k \in {c \in columns : ~Shifted(fieldOf(c))} :
      answer.row[k] = IF my[k] = <<>> THEN <<>> ELSE <<kept(fieldOf(k), my[k][1])>>

(* A read by a key finds the row if and only if MySQL means it: the bytes  *)
(* of a key match those of a row, DB2 orders them as MySQL orders the      *)
(* values, and the orientation says what the flag says (index_read).       *)
ReadFinds ==
  /\ answer.call = "read" /\ answer.found # "not understood"
  /\ \A k \in columns : ~Shifted(fieldOf(k)) /\ ~TooFar(fieldOf(k))
  => (answer.found = "row") =
        isMeant(answer.flag, myRanks(SubSeq(my, 1, Len(answer.key))), myRanks(answer.key))

(* The bounds sent for a range let in every row that MySQL means, and none *)
(* but rows at its ends otherwise; a range answered without asking DB2     *)
(* has none (records_in_range).                                            *)
rankOf(k, part) == IF part = <<>> THEN <<>> ELSE <<db2Order(fieldOf(k), part[1])>>
literalOf(bound, k) ==
  LET l == answer.literals[bound.at] IN <<convertKey(fieldOf(l.part), l.value[1], 0)>>
within(k) ==
  LET lo == answer.bounds[k].lo
      hi == answer.bounds[k].hi
      r == rankOf(k, db2Row[k])
      misplaced(b) == b.to = "literal" /\ answer.literals[b.at].part # k
  IN /\ ~misplaced(lo) /\ ~misplaced(hi)
     /\ lo = IsNull \/ hi = IsNull => db2Row[k] = <<>>
     /\ lo.to = "literal" =>
          LET b == rankOf(k, literalOf(lo, k))
          IN IF lo.excluded THEN PartBefore(b, r) ELSE ~PartBefore(r, b)
     /\ hi.to = "literal" =>
          LET b == rankOf(k, literalOf(hi, k))
          IN IF hi.excluded THEN PartBefore(r, b) ELSE ~PartBefore(b, r)
inside(min, max, closed) ==
  LET r(limit) == myRanks(SubSeq(my, 1, sizeOf(limit)))
  IN /\ min # NoLimit => \/ KeyBefore(myRanks(min[1].key), r(min))
                      \/ /\ r(min) = myRanks(min[1].key)
                         /\ closed \/ flagOf(min) = "HA_READ_KEY_EXACT"
     /\ max # NoLimit => \/ KeyBefore(r(max), myRanks(max[1].key))
                      \/ /\ r(max) = myRanks(max[1].key)
                         /\ closed \/ flagOf(max) = "HA_READ_AFTER_KEY"
RangeMeant ==
  /\ answer.call = "range" /\ (\A k \in columns : ~Shifted(fieldOf(k)) /\ ~TooFar(fieldOf(k))) =>
       /\ inside(answer.min, answer.max, FALSE) => \A k \in DOMAIN answer.bounds : within(k)
       /\ (\A k \in DOMAIN answer.bounds : within(k)) /\ (\A k \in columns : my[k] # <<>>) =>
            inside(answer.min, answer.max, TRUE)
  /\ answer.call = "empty range" => ~inside(answer.min, answer.max, FALSE)
=============================================================================
