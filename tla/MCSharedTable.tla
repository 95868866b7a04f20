---------------------------- MODULE MCSharedTable ----------------------------
(***************************************************************************)
(* An instance of SharedTable: two connections with two handlers on two    *)
(* names, two readers of a column of LOBs, two connections that ask for    *)
(* the statistics of a table with up to two rows, the least number that    *)
(* info takes from the cache.  Nothing tells one of these connections, or  *)
(* one row, from another.  Tables with indexes have names that end in each *)
(* other, or match each other as patterns; keys of different tables may    *)
(* make the same name; one definition has key columns of two sort          *)
(* sequences and one a character set that has none; a name is too long for *)
(* a rename, and some are too long for DB2.                                *)
(***************************************************************************)
EXTENDS SharedTable, TLC

Symmetry == Permutations(Clients) \cup Permutations(Rows)

Path(lib, file) == [lib |-> lib, file |-> file]
ThePaths == {Path("db", <<"t">>), Path("db", <<"x", "_", "_", "_", "t">>), Path("db", <<"_", "t">>),
             Path("other", <<"t">>), Path("temp", <<"t">>)}
Key(name, columns) == [name |-> name, columns |-> columns]
Short == Key(<<"i">>, <<"latin1">>)
Long == Key(<<"i", "_", "_", "_", "x">>, <<"binary", "utf8">>)
TooLong == Key(<<"l", "l", "l", "l", "l", "l">>, <<"utf8">>)
Primary == Key(<<"P">>, <<"binary", "latin1">>)
Definition(primary, keys, references) ==
  [primary |-> primary, keys |-> keys, references |-> references]
TheDefinitions ==
  {Definition(Primary, {Short}, <<"binary">>), Definition(None, {Short, Long}, <<"latin1">>),
   Definition(Primary, {Long}, <<"utf8">>), Definition(Primary, {Long}, <<"latin1">>),
   Definition(None, {TooLong}, <<>>), Definition(None, {Key(<<"j">>, <<"utf8_bin", "utf8">>)}, <<>>),
   Definition(None, {Key(<<"j">>, <<"unknown">>)}, <<>>)}
TheMap == "latin1" :> "QCLA101F4S" @@ "utf8" :> "I34AEN" @@ "utf8_bin" :> "*HEX"
=============================================================================
