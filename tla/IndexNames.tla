----------------------------- MODULE IndexNames ------------------------------
(***************************************************************************)
(* The indexes of MySQL's tables in DB2, where an index is a file of the   *)
(* library with a name of its own.  The engine keeps no record of them: it *)
(* makes the name of an index from those of the key and the table          *)
(* (index___table) when the table is created, makes it again when a        *)
(* handler opens the index, and a rename of the table finds the indexes of *)
(* the old name by a pattern and gives them the new one.                   *)
(*                                                                         *)
(* A name is a sequence of characters, unquoted, of which only the         *)
(* underscore matters.  A table is defined by its primary key (None if it  *)
(* has none), its other keys and the columns of its foreign keys; a column *)
(* is its character set.  Temporary tables are those of the library Temp.  *)
(* External: MySQL gives no name twice, and does not rename temporary      *)
(* tables; DB2 gives no name twice in a library, to files or indexes,      *)
(* takes none longer than MaxName, drops the indexes of a table with it,   *)
(* and executes all statements of an execSQL or none.  A refused call      *)
(* leaves everything as it was, and is no step here.                       *)
(*                                                                         *)
(* A definition named Name_Variant is Name with a plausible mistake in it. *)
(***************************************************************************)
EXTENDS Naturals, Sequences, FiniteSets

CONSTANTS
  Paths,         (* bound: the tables' [lib, file]                         *)
  Definitions,   (* bound: [primary, keys, references] of tables           *)
  Temp,          (* DB2I_TEMP_TABLE_SCHEMA                                 *)
  Preserved,     (* DB2I_INDEX_NAME_LENGTH_TO_PRESERVE                     *)
  MaxName,       (* DB2's longest name                                     *)
  collation_map  (* the DB2 sort sequence of a character set, if it has one*)

ASSUME NamesAssumption == Preserved \in Nat /\ MaxName \in Nat
ASSUME PathsAssumption ==
  \A p \in Paths : p = [lib |-> p.lib, file |-> p.file] /\ p.file \in Seq(STRING)

VARIABLES
  defined,       (* MySQL's tables: the definition of each path in use     *)
  sorted,        (* DB2's tables: the sort sequence of each file           *)
  indexes        (* DB2's indexes: [lib, name, on, key, sort]              *)

ivars == <<defined, sorted, indexes>>

None == [name |-> <<>>]
isKey(k) == k.name \in Seq(STRING) /\ k.columns \in Seq(STRING)
ASSUME DefinitionsAssumption ==
  \A d \in Definitions :
    /\ d.primary = None \/ isKey(d.primary)
    /\ \A k \in d.keys : isKey(k) /\ k # d.primary
    /\ d.references \in Seq(STRING)

Delimiter == <<"_", "_", "_">>
Shorter(s, n) == SubSeq(s, 1, IF Len(s) < n THEN Len(s) ELSE n)

isTemporary(path) == path.lib = Temp
ownIndexes(path, def) ==
  IF isTemporary(path) /\ def.primary # None THEN def.keys \cup {def.primary} ELSE def.keys

-----------------------------------------------------------------------------
(* appendQualifiedIndexFileName: with the delimiter (typeDefault), or      *)
(* without (typeNone), for a name that ends in it already.                 *)
appendQualifiedIndexFileName(name, table, delimiter) ==
  Shorter(name, Preserved) \o delimiter \o table
indexFile(path, key) == appendQualifiedIndexFileName(key.name, path.file, Delimiter)

(* The file db2i_file's constructor names for a key, to be opened.         *)
openedFile(path, def, key) ==
  IF key = def.primary /\ ~isTemporary(path) THEN path.file ELSE indexFile(path, key)

-----------------------------------------------------------------------------
(* The sort sequence of a file: that of its columns which are not binary.  *)
(* A character set without sequence, or a second sequence, is refused.     *)
Unsorted == "none yet" (* fileSortSequenceType ' ', and sorted as *HEX is  *)
Refused == "refused"
ASSUME SequencesAssumption ==
  \A c \in DOMAIN collation_map : collation_map[c] \notin {Unsorted, Refused}
updateAssociatedSortSequence(charset, sort) ==
  CASE charset = "binary" \/ sort = Refused -> sort
    [] charset # "binary" /\ charset \notin DOMAIN collation_map -> Refused
    [] OTHER -> IF sort \in {Unsorted, collation_map[charset]} THEN collation_map[charset] ELSE Refused

buildIndexFieldList(columns, sort) ==
  LET upto[k \in 0..Len(columns)] ==
        IF k = 0 THEN sort ELSE updateAssociatedSortSequence(columns[k], upto[k - 1])
  IN  upto[Len(columns)]

(* The primary key of a table that is not temporary, and, since DB2 wants  *)
(* the sort sequence of a child table to be its parent's, the columns of   *)
(* the foreign keys (buildDB2ConstraintString).                            *)
tableSort(path, def) ==
  buildIndexFieldList(def.references,
    IF def.primary # None /\ ~isTemporary(path)
    THEN buildIndexFieldList(def.primary.columns, Unsorted) ELSE Unsorted)

buildCreateIndexStatement(path, key) ==
  [lib |-> path.lib, name |-> indexFile(path, key), on |-> path, key |-> key,
   sort |-> buildIndexFieldList(key.columns, Unsorted)]

-----------------------------------------------------------------------------
(* DB2's names.                                                            *)
Taken(lib) == {p.file : p \in {q \in DOMAIN sorted : q.lib = lib}}
              \cup {i.name : i \in {j \in indexes : j.lib = lib}}
Acceptable(names, taken) == \A n \in names : Len(n) <= MaxName /\ n \notin taken

(* create: the table and all its indexes in one request.  Should the       *)
(* definition file not be written afterwards, the table is deleted again.  *)
createTable(path, def) ==
  LET created == {buildCreateIndexStatement(path, key) : key \in ownIndexes(path, def)}
      names == {i.name : i \in created}
  IN  /\ path \notin DOMAIN defined
      /\ tableSort(path, def) # Refused /\ \A i \in created : i.sort # Refused
      /\ Cardinality(names) = Cardinality(created)
      /\ Acceptable(names \cup {path.file}, Taken(path.lib)) /\ path.file \notin names
      /\ defined' = [p \in DOMAIN defined \cup {path} |-> IF p = path THEN def ELSE defined[p]]
      /\ sorted' = [p \in DOMAIN sorted \cup {path} |->
                      IF p = path THEN tableSort(path, def) ELSE sorted[p]]
      /\ indexes' = indexes \cup created

(* delete_table.                                                           *)
Other(f, path) == [p \in DOMAIN f \ {path} |-> f[p]]
dropTable(path) ==
  /\ path \in DOMAIN defined
  /\ defined' = Other(defined, path) /\ sorted' = Other(sorted, path)
  /\ indexes' = {i \in indexes : i.on # path}

-----------------------------------------------------------------------------
(* rename_table.  It may refuse any name: appendQualifiedIndexFileName     *)
(* compares the length of the table's name with a variable that typeNone   *)
(* leaves unset.                                                           *)

(* LIKE '%+_+_+_%<table>': underscores of the table's name stand for any   *)
(* character.                                                              *)
matches(name, table) ==
  LET front == Len(name) - Len(table)
  IN  /\ Len(name) >= Len(table) + Len(Delimiter)
      /\ \A k \in 1..Len(table) : table[k] \in {"_", name[front + k]}
      /\ \E k \in 1..(front - 2) : SubSeq(name, k, k + 2) = Delimiter

indexQuery_ByName(path) ==
  {i \in indexes : matches(i.name, path.file) /\ i.lib = path.lib}
indexQuery(path) ==
  {i \in indexes : matches(i.name, path.file) /\ i.on.file = path.file /\ i.lib = path.lib}

bytesToRetain(name, table) == Len(name) - Len(table)
renamed(i, from, to) ==
  appendQualifiedIndexFileName(
    SubSeq(i.name, 1, bytesToRetain(i.name, from.file)), to.file, <<>>)

renameTable(from, to) ==
  LET found == indexQuery(from)
      names == {renamed(i, from, to) : i \in found}
      moved(i) == [i EXCEPT !.name = IF i \in found THEN renamed(i, from, to) ELSE @,
                            !.on = IF @ = from THEN to ELSE @]
  IN  /\ from \in DOMAIN defined /\ to \notin DOMAIN defined
      /\ from.lib = to.lib /\ ~isTemporary(from)
      /\ Cardinality(names) = Cardinality(found)
      /\ Acceptable(names \cup {to.file}, Taken(from.lib) \ {i.name : i \in found})
      /\ to.file \notin names
      /\ defined' = [p \in (DOMAIN defined \ {from}) \cup {to} |->
                       IF p = to THEN defined[from] ELSE defined[p]]
      /\ sorted' = [p \in (DOMAIN sorted \ {from}) \cup {to} |->
                       IF p = to THEN sorted[from] ELSE sorted[p]]
      /\ indexes' = {moved(i) : i \in indexes}

-----------------------------------------------------------------------------
IInit == defined = <<>> /\ sorted = <<>> /\ indexes = {}
INext ==
  \/ \E path \in Paths, def \in Definitions : createTable(path, def)
  \/ \E path \in Paths : dropTable(path)
  \/ \E from, to \in Paths : renameTable(from, to)
ISpec == IInit /\ [][INext]_ivars

-----------------------------------------------------------------------------
(* What does not hold, and is left out below: a rename takes the delimiter *)
(* for a part of the key's name, and cuts both to Preserved characters.    *)
KeptWithDelimiter(key) == Len(key.name) + Len(Delimiter) <= Preserved

(* Whatever tables were created, renamed and dropped, and however their    *)
(* names resemble each other: the file a handler opens for a key is that   *)
(* key's index on that table, sorted as all of its text columns are        *)
(* (db2i_file, rename_table, create).                                      *)
sequences(columns) == {collation_map[columns[k]] : k \in {n \in DOMAIN columns : columns[n] # "binary"}}
SortedAs(columns, sort) == \A s \in sequences(columns) : s = sort
IndexesServe ==
  \A path \in DOMAIN defined :
    LET def == defined[path] IN
    /\ \A key \in {k \in ownIndexes(path, def) : KeptWithDelimiter(k)} :
         \E i \in indexes :
           /\ i.lib = path.lib /\ i.name = openedFile(path, def, key)
           /\ i.on = path /\ i.key = key /\ SortedAs(key.columns, i.sort)
    /\ SortedAs(def.references, sorted[path])
    /\ def.primary # None /\ ~isTemporary(path) =>
         /\ openedFile(path, def, def.primary) = path.file
         /\ SortedAs(def.primary.columns, sorted[path])
=============================================================================
