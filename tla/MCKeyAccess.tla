----------------------------- MODULE MCKeyAccess -----------------------------
(* KeyAccess for TLC: a column of each type with the values at which a     *)
(* conversion may go wrong, and keys of two parts, with and without NULL.  *)
EXTENDS KeyAccess

Integer(type, unsigned) == [type |-> type, unsigned |-> unsigned]
Decimal(precision, scale) ==
  [type |-> "NEWDECIMAL", unsigned |-> FALSE, precision |-> precision, scale |-> scale]
Other(type) == [type |-> type, unsigned |-> TRUE]
Dated(type, zero) == [type |-> type, unsigned |-> TRUE, zero |-> zero]
Year(db2) == [type |-> "YEAR", unsigned |-> TRUE, db2 |-> db2]
Bit(bits) == [type |-> "BIT", unsigned |-> TRUE, bits |-> bits]
BigUnsigned == [type |-> "LONGLONG", unsigned |-> TRUE, precision |-> 20, scale |-> 0]

Of(S) == {<<v>> : v \in S}
Column(field, S) == [field |-> field, values |-> Of(S)]
Nullable(field, S) == [field |-> field, values |-> Of(S) \cup {<<>>}]

Corners(n) == {Few(n, 0), Few(n, 255), Few(n - 1, 255) \o <<127>>, Few(n - 1, 0) \o <<128>>,
             <<1>> \o Few(n - 1, 0), <<254>> \o Few(n - 1, 255)}
Number(neg, digits) == [neg |-> neg, digits |-> digits]
Twenty(a, b) == <<a>> \o Few(18, b) \o <<b>>

OneColumn ==
  {<<Column(Integer(type, FALSE), Corners(Width[type]))>> : type \in {"TINY", "SHORT", "INT24", "LONG", "LONGLONG"}}
  \cup {<<Column(Integer(type, TRUE), Corners(Width[type]))>> : type \in {"TINY", "SHORT", "INT24", "LONG"}}
  \cup {<<Column(BigUnsigned, {Number(FALSE, Twenty(0, 0)), Number(FALSE, Twenty(1, 8)), Number(FALSE, Twenty(0, 9))})>>,
        <<Column(Decimal(3, 1), {Number(FALSE, <<0, 0, 0>>), Number(TRUE, <<0, 0, 5>>), Number(FALSE, <<9, 9, 9>>), Number(TRUE, <<9, 0, 1>>)})>>,
        <<Column(Decimal(2, 2), {Number(FALSE, <<0, 0>>), Number(TRUE, <<5, 0>>), Number(FALSE, <<0, 7>>), Number(TRUE, <<9, 9>>)})>>,
        <<Column(Decimal(4, 0), {Number(FALSE, <<0, 0, 0, 0>>), Number(TRUE, <<1, 0, 0, 0>>), Number(FALSE, <<0, 0, 3, 4>>)})>>,
        <<Column(Decimal(6, 3), {Number(TRUE, <<0, 0, 0, 0, 0, 1>>), Number(FALSE, <<1, 2, 3, 4, 5, 6>>), Number(FALSE, <<1, 2, 3, 4, 5, 0>>), Number(TRUE, <<0, 0, 0, 0, 2, 0>>)})>>,
        <<Column(Integer("ENUM", TRUE), {<<0>>, <<1>>, <<255>>})>>,
        <<Column(Other("DOUBLE"), {Few(8, 0), <<1, 2, 3, 4, 5, 6, 7, 8>>, <<0, 0, 0, 0, 0, 0, 240, 191>>})>>,
        <<Column(Other("TIME"), {<<0, 0, 0>>, <<23, 59, 59>>})>>,
        <<Column(Bit(5), {<<0>>, <<31>>, <<16>>})>>,
        <<Column(Bit(8), {<<0>>, <<255>>})>>,
        <<Column(Bit(12), {<<0, 0>>, <<15, 255>>, <<1, 128>>})>>}
  \cup UNION {{<<Column(Dated("DATE", zero), {<<0, 0, 0>>, <<2012, 12, 31>>, <<9999, 1, 1>>})>>,
                <<Column(Dated("DATETIME", zero), {Few(6, 0), <<2012, 12, 31, 0, 0, 0>>, <<2012, 12, 31, 23, 59, 59>>})>>} :
              zero \in {"SUBSTITUTE_0001_01_01", "NO_SUBSTITUTION"}}
  \cup {<<Column(Year(db2), {0, 1, 255})>> : db2 \in {"CHAR4", "SMALLINT"}}

Small == Integer("SHORT", FALSE)
TwoColumns == {<<Nullable(Small, {<<0, 0>>, <<255, 255>>, <<1, 0>>}), Nullable(Small, {<<0, 0>>, <<255, 255>>})>>,
               <<Column(Small, {<<0, 0>>, <<1, 0>>}), Nullable(Dated("DATE", "NO_SUBSTITUTION"), {<<0, 0, 0>>, <<2012, 12, 31>>})>>}
TheTables == OneColumn \cup TwoColumns
=============================================================================
