----------------------------- MODULE TableShare -----------------------------
(***************************************************************************)
(* What the connections of a server know about the tables: the shares in   *)
(* ibmdb2i_open_tables, counted by the handlers that are open, the handles *)
(* of file instances the handlers have allocated, the handles a bridge     *)
(* preserves because DB2 would not take them back at close, and the .FID   *)
(* file that ties a name to the DB2 file it was created for.               *)
(*                                                                         *)
(* A DB2 file is a number, given once; an instance is known by its file    *)
(* and by whether it is the table (data) or one of its indexes.  A share   *)
(* is known by its name in the hash.  ibmdb2i_mutex makes get_share and    *)
(* free_share atomic, MySQL's metadata locks keep a table from being used  *)
(* while it is defined, and MySQL commits before it defines a table.       *)
(* External: MySQL (which calls the handlers, and keeps the .frm files)    *)
(* and DB2 (the catalog, the instances, the locks of transactions).        *)
(*                                                                         *)
(* A definition named Name_Variant is Name with a plausible mistake in it; *)
(* no specification uses it.                                               *)
(***************************************************************************)
EXTENDS NamedLists, FiniteSets

CONSTANTS
  Conns,                 (* bound: connections                             *)
  Handlers,              (* bound: handler instances                       *)
  Names,                 (* bound: names of tables                         *)
  MaxFile,               (* bound: files created                           *)
  MaxPreserved,          (* bound: handles preserved by a connection       *)
  ChangeKinds,           (* the instances through which rows are changed   *)
  EndsPreserving,        (* do connections end with handles preserved?     *)
  RenamesUnderHandles,   (* does DB2 rename a file the connection has      *)
                         (* instances of, as it drops one?                 *)
  Crashes                (* bound: crashes of the server                   *)

Kinds == {"data", "index"}
Files == 1..MaxFile
NoFile == 0
NoName == "none"

ASSUME ShareAssumption ==
  /\ MaxFile \in Nat /\ MaxPreserved \in Nat /\ Crashes \in Nat
  /\ ChangeKinds \subseteq Kinds
  /\ EndsPreserving \in BOOLEAN /\ RenamesUnderHandles \in BOOLEAN
  /\ NoName \notin Names

VARIABLES
  tables,       (* DB2: the file a name stands for, NoFile for none        *)
  created,      (* DB2: files created so far                               *)
  allocated,    (* DB2: instances allocated, per file and kind             *)
  locks,        (* DB2: per connection, the instances its transaction has  *)
                (* changed rows through                                    *)
  frm,          (* MySQL: names that have a definition                     *)
  fid,          (* contents of the name's .FID file, NoFile if none        *)
  defn,         (* ibmdb2i_open_tables: the file a share describes         *)
  use_count,    (* ... and its use count                                   *)
  handlers,     (* per handler: name of the table it is open on, the files *)
                (* of dataHandle and of an index handle                    *)
  preserved,    (* per connection: pendingLockedHandles, newest first      *)
  ddl,          (* per connection: a definition that DB2 has executed      *)
  crashed       (* crashes so far                                          *)

db2Vars == <<tables, created, allocated, locks>>
shareVars == <<defn, use_count>>
vars == <<db2Vars, frm, fid, shareVars, handlers, preserved, ddl, crashed>>

Closed == [name |-> NoName, data |-> NoFile, index |-> NoFile]
NoDdl == [op |-> "none", name |-> NoName, to |-> NoName]

TypeOK ==
  /\ tables \in [Names -> Files \cup {NoFile}] /\ created \in 0..MaxFile
  /\ allocated \in [Files -> [Kinds -> 0..(Cardinality(Handlers)
                                           + MaxPreserved * Cardinality(Conns))]]
  /\ locks \in [Conns -> SUBSET (Files \X Kinds)]
  /\ frm \subseteq Names /\ fid \in [Names -> Files \cup {NoFile}]
  /\ defn \in [Names -> Files \cup {NoFile}]
  /\ use_count \in [Names -> 0..(Cardinality(Handlers) + MaxPreserved * Cardinality(Conns))]
  /\ handlers \in [Handlers -> [name : Names \cup {NoName}, data : Files \cup {NoFile},
                                index : Files \cup {NoFile}]]
  /\ \A c \in Conns : /\ Len(preserved[c]) <= MaxPreserved
                      /\ \A i \in DOMAIN preserved[c] :
                           preserved[c][i] \in [name : Names, file : Files]
  /\ crashed \in 0..Crashes

-----------------------------------------------------------------------------
(* DB2 and MySQL (external).                                               *)

IsLocked(f, k) == \E c \in Conns : <<f, k>> \in locks[c]

PreservedOn(c, f) == {i \in DOMAIN preserved[c] : preserved[c][i].file = f}
PreservedAs(c, n) == {i \in DOMAIN preserved[c] : preserved[c][i].name = n}

(* A file is dropped when the only instances of it are those that the      *)
(* connection itself has preserved: delete_table takes them back after it. *)
MayDrop(c, f) == /\ allocated[f]["data"] = Cardinality(PreservedOn(c, f))
                 /\ allocated[f]["index"] = 0
MayRename(c, f) == MayDrop(c, f) /\ (RenamesUnderHandles \/ PreservedOn(c, f) = {})

(* MySQL's exclusive metadata lock on n: no handler is open on it, no      *)
(* other transaction has changed it, the connection's own is committed.    *)
Exclusive(c, n) ==
  /\ ddl[c] = NoDdl /\ locks[c] = {}
  /\ \A h \in Handlers : handlers[h].name # n
  /\ \A d \in Conns : \A k \in Kinds : <<tables[n], k>> \notin locks[d]
  /\ \A d \in Conns : ddl[d] = NoDdl \/ n \notin {ddl[d].name, ddl[d].to}

Usable(n) == \A c \in Conns : ddl[c] = NoDdl \/ n \notin {ddl[c].name, ddl[c].to}

-----------------------------------------------------------------------------
(* Shares.                                                                 *)

(* get_share of a share that is in the hash.                               *)
get_share_Found(n) == use_count' = [use_count EXCEPT ![n] = @ + 1] /\ UNCHANGED defn

(* free_share, k times: the last user frees the share.                     *)
free_share_Kept(n, k) == use_count' = [use_count EXCEPT ![n] = @ - k] /\ UNCHANGED defn
free_share(n, k) ==
  /\ use_count' = [use_count EXCEPT ![n] = @ - k]
  /\ defn' = [defn EXCEPT ![n] = IF use_count[n] = k THEN NoFile ELSE @]

(* doFileIDsMatch: a missing .FID file is written.                         *)
doFileIDsMatch(n, f) == fid[n] \in {NoFile, f}
fidWritten(n, f) == [fid EXCEPT ![n] = IF @ = NoFile THEN f ELSE @]

(* db2i_table::initDB2Objects: the files are found by name and described.  *)
initDB2Objects(n) ==
  /\ tables[n] # NoFile /\ doFileIDsMatch(n, tables[n])
  /\ fid' = fidWritten(n, tables[n])
  /\ defn' = [defn EXCEPT ![n] = tables[n]]

-----------------------------------------------------------------------------
(* Handlers.                                                               *)

Without(s, i) == SubSeq(s, 1, i - 1) \o SubSeq(s, i + 1, Len(s))

(* findAndRemovePreservedHandle finds the newest handle with the name; its *)
(* use of the share becomes the handler's.                                 *)
Found(c, n) == CHOOSE i \in PreservedAs(c, n) : \A j \in PreservedAs(c, n) : i <= j
removed(c, n) == [preserved EXCEPT ![c] = Without(@, Found(c, n))]

open(c, h, n) ==
  /\ n \in frm /\ Usable(n) /\ handlers[h] = Closed
  /\ \/ /\ PreservedAs(c, n) # {}
        /\ handlers' = [handlers EXCEPT ![h].name = n,
                                        ![h].data = preserved[c][Found(c, n)].file]
        /\ preserved' = removed(c, n)
        /\ UNCHANGED <<shareVars, fid>>
     \/ /\ PreservedAs(c, n) = {}
        /\ handlers' = [handlers EXCEPT ![h].name = n]
        /\ IF defn[n] # NoFile
           THEN get_share_Found(n) /\ UNCHANGED fid
           ELSE initDB2Objects(n) /\ use_count' = [use_count EXCEPT ![n] = 1]
        /\ UNCHANGED preserved
  /\ UNCHANGED <<db2Vars, frm, ddl, crashed>>

(* close, in any connection: the handler is one that no statement uses,    *)
(* taken from MySQL's table cache.  Instances that have pending locks stay *)
(* allocated; the handle of the data file is preserved, with the use of    *)
(* the share.                                                              *)
preserveShare(h) == handlers[h].data # NoFile /\ IsLocked(handlers[h].data, "data")

givenBack(h) ==
  [f \in Files |-> [k \in Kinds |->
     IF f = handlers[h][k] /\ ~IsLocked(f, k) THEN allocated[f][k] - 1 ELSE allocated[f][k]]]

pair(h) == [name |-> handlers[h].name, file |-> handlers[h].data]
preservedAfterClose_Lost(c, h) == preserved
preservedAfterClose(c, h) ==
  IF preserveShare(h) THEN [preserved EXCEPT ![c] = <<pair(h)>> \o @] ELSE preserved

close(c, h) ==
  /\ handlers[h] # Closed /\ ddl[c] = NoDdl
  /\ preserveShare(h) => Len(preserved[c]) < MaxPreserved
  /\ allocated' = givenBack(h)
  /\ preserved' = preservedAfterClose(c, h)
  /\ IF preserveShare(h) THEN UNCHANGED shareVars ELSE free_share(handlers[h].name, 1)
  /\ handlers' = [handlers EXCEPT ![h] = Closed]
  /\ UNCHANGED <<tables, created, locks, frm, fid, ddl, crashed>>

(* A statement of connection c uses handler h: it allocates an instance of *)
(* the file the share describes, unless there is one, and may change rows  *)
(* through it.                                                             *)
fileUsed(h, k) == IF handlers[h][k] = NoFile THEN defn[handlers[h].name] ELSE handlers[h][k]

use(c, h, k) ==
  /\ handlers[h] # Closed /\ ddl[c] = NoDdl
  /\ \E n \in Names : tables[n] = fileUsed(h, k)
  /\ handlers' = [handlers EXCEPT ![h][k] = fileUsed(h, k)]
  /\ allocated' = [allocated EXCEPT ![fileUsed(h, k)][k] =
                     IF handlers[h][k] = NoFile THEN @ + 1 ELSE @]
  /\ \/ UNCHANGED locks
     \/ k \in ChangeKinds /\ locks' = [locks EXCEPT ![c] = @ \cup {<<fileUsed(h, k), k>>}]
  /\ UNCHANGED <<tables, created, frm, fid, shareVars, preserved, ddl, crashed>>

(* COMMIT or ROLLBACK of connection c.                                     *)
endTransaction(c) ==
  /\ locks[c] # {} /\ locks' = [locks EXCEPT ![c] = {}]
  /\ UNCHANGED <<tables, created, allocated, frm, fid, shareVars, handlers, preserved, ddl,
                 crashed>>

(* ibmdb2i_close_connection: the connection's transaction is rolled back,  *)
(* closeConnection gives its instances back, destroyBridge forgets what it *)
(* has preserved.                                                          *)
close_connection(c) ==
  /\ ddl[c] = NoDdl
  /\ EndsPreserving \/ preserved[c] = <<>>
  /\ locks' = [locks EXCEPT ![c] = {}]
  /\ allocated' = [f \in Files |->
                     [allocated[f] EXCEPT !["data"] = @ - Cardinality(PreservedOn(c, f))]]
  /\ preserved' = [preserved EXCEPT ![c] = <<>>]
  /\ UNCHANGED <<tables, created, frm, fid, shareVars, handlers, ddl, crashed>>

-----------------------------------------------------------------------------
(* Definition of tables.  First DB2 executes the statement, then the       *)
(* engine does the rest; the server may crash between the two.             *)

create(c, n) ==
  /\ Exclusive(c, n) /\ n \notin frm /\ tables[n] = NoFile /\ created < MaxFile
  /\ frm' = frm \cup {n}
  /\ created' = created + 1
  /\ tables' = [tables EXCEPT ![n] = created + 1]
  /\ ddl' = [ddl EXCEPT ![c] = [op |-> "create", name |-> n, to |-> n]]
  /\ UNCHANGED <<allocated, locks, fid, shareVars, handlers, preserved, crashed>>

(* fastInitForCreate; what doFileIDsMatch answers is not looked at.        *)
create_Described(c) ==
  /\ ddl[c].op = "create"
  /\ fid' = fidWritten(ddl[c].name, tables[ddl[c].name])
  /\ ddl' = [ddl EXCEPT ![c] = NoDdl]
  /\ UNCHANGED <<db2Vars, frm, shareVars, handlers, preserved, crashed>>

(* The description fails, and create calls delete_table.                   *)
create_Failed(c) ==
  /\ ddl[c].op = "create"
  /\ tables' = [tables EXCEPT ![ddl[c].name] = NoFile]
  /\ ddl' = [ddl EXCEPT ![c] = [@ EXCEPT !.op = "delete"]]
  /\ UNCHANGED <<created, allocated, locks, frm, fid, shareVars, handlers, preserved, crashed>>

(* DROP TABLE.  A table that DB2 does not have counts as dropped.          *)
delete_table(c, n) ==
  /\ Exclusive(c, n) /\ n \in frm
  /\ \/ /\ tables[n] # NoFile => MayDrop(c, tables[n])
        /\ tables' = [tables EXCEPT ![n] = NoFile]
        /\ ddl' = [ddl EXCEPT ![c] = [op |-> "delete", name |-> n, to |-> n]]
     \/ /\ tables[n] # NoFile
        /\ ddl' = [ddl EXCEPT ![c] = [op |-> "keep", name |-> n, to |-> n]]
        /\ UNCHANGED tables
  /\ UNCHANGED <<created, allocated, locks, frm, fid, shareVars, handlers, preserved, crashed>>

deleteAssocFiles_Forgotten(n) == fid
deleteAssocFiles(n) == [fid EXCEPT ![n] = NoFile]

(* The preserved handles that delete_table looks for.                      *)
stillPreserved_None(c, n) == {}
stillPreserved(c, n) == PreservedAs(c, n)

(* The rest of delete_table, after which MySQL deletes its definition if   *)
(* the table has been dropped: the handles that the connection has         *)
(* preserved under the name are deallocated, with their uses of the share. *)
delete_table_Done(c) ==
  LET n == ddl[c].name
      gone == stillPreserved(c, n)
  IN /\ ddl[c].op \in {"delete", "keep"}
     /\ IF ddl[c].op = "delete"
        THEN fid' = deleteAssocFiles(n) /\ frm' = frm \ {n}
        ELSE UNCHANGED <<fid, frm>>
     /\ allocated' = [f \in Files |-> [allocated[f] EXCEPT !["data"] =
                        @ - Cardinality(gone \cap PreservedOn(c, f))]]
     /\ IF gone = {}
        THEN UNCHANGED <<preserved, shareVars>>
        ELSE /\ preserved' = [preserved EXCEPT ![c] = WithoutName(@, n)]
             /\ free_share(n, Cardinality(gone))
     /\ ddl' = [ddl EXCEPT ![c] = NoDdl]
     /\ UNCHANGED <<tables, created, locks, handlers, crashed>>

rename_table(c, n, m) ==
  /\ Exclusive(c, n) /\ Exclusive(c, m) /\ n \in frm /\ m \notin frm
  /\ tables[n] # NoFile /\ tables[m] = NoFile /\ MayRename(c, tables[n])
  /\ tables' = [tables EXCEPT ![n] = NoFile, ![m] = tables[n]]
  /\ ddl' = [ddl EXCEPT ![c] = [op |-> "rename", name |-> n, to |-> m]]
  /\ UNCHANGED <<created, allocated, locks, frm, fid, shareVars, handlers, preserved, crashed>>

(* renameAssocFiles; then MySQL renames its definition.                    *)
renameAssocFiles(n, m) ==
  IF fid[n] = NoFile THEN fid ELSE [fid EXCEPT ![n] = NoFile, ![m] = fid[n]]

rename_table_Done(c) ==
  /\ ddl[c].op = "rename"
  /\ fid' = renameAssocFiles(ddl[c].name, ddl[c].to)
  /\ frm' = (frm \ {ddl[c].name}) \cup {ddl[c].to}
  /\ ddl' = [ddl EXCEPT ![c] = NoDdl]
  /\ UNCHANGED <<db2Vars, shareVars, handlers, preserved, crashed>>

(* The server crashes: what is on disk and what DB2 has committed stays.   *)
crash ==
  /\ crashed < Crashes /\ crashed' = crashed + 1
  /\ allocated' = [f \in Files |-> [k \in Kinds |-> 0]]
  /\ locks' = [c \in Conns |-> {}]
  /\ defn' = [n \in Names |-> NoFile] /\ use_count' = [n \in Names |-> 0]
  /\ handlers' = [h \in Handlers |-> Closed]
  /\ preserved' = [c \in Conns |-> <<>>] /\ ddl' = [c \in Conns |-> NoDdl]
  /\ UNCHANGED <<tables, created, frm, fid>>

-----------------------------------------------------------------------------
Init ==
  /\ tables = [n \in Names |-> NoFile] /\ created = 0
  /\ allocated = [f \in Files |-> [k \in Kinds |-> 0]]
  /\ locks = [c \in Conns |-> {}]
  /\ frm = {} /\ fid = [n \in Names |-> NoFile]
  /\ defn = [n \in Names |-> NoFile] /\ use_count = [n \in Names |-> 0]
  /\ handlers = [h \in Handlers |-> Closed]
  /\ preserved = [c \in Conns |-> <<>>]
  /\ ddl = [c \in Conns |-> NoDdl]
  /\ crashed = 0

Next ==
  \/ \E c \in Conns :
       \/ \E h \in Handlers : \/ \E n \in Names : open(c, h, n)
                              \/ close(c, h)
                              \/ \E k \in Kinds : use(c, h, k)
       \/ endTransaction(c) \/ close_connection(c)
       \/ \E n \in Names : create(c, n) \/ delete_table(c, n)
       \/ create_Described(c) \/ create_Failed(c)
       \/ delete_table_Done(c)
       \/ \E n, m \in Names : rename_table(c, n, m)
       \/ rename_table_Done(c)
  \/ crash

Spec == Init /\ [][Next]_vars

-----------------------------------------------------------------------------
(* A share counts exactly the handlers that are open on its name and the   *)
(* handles that are preserved under it, and is in the hash as long as one  *)
(* of them is left (get_share, free_share, close's preserveShare).         *)
Users(n) == Cardinality({h \in Handlers : handlers[h].name = n})
            + Cardinality({p \in Conns \X (1..MaxPreserved) : p[2] \in PreservedAs(p[1], n)})
UseCountExact ==
  \A n \in Names : use_count[n] = Users(n) /\ (defn[n] = NoFile <=> use_count[n] = 0)

(* Every instance that DB2 has allocated is known to an open handler or is *)
(* preserved, so that somebody can give it back.                           *)
Holders(f, k) ==
  Cardinality({h \in Handlers : handlers[h][k] = f})
  + (IF k = "data"
     THEN Cardinality({p \in Conns \X (1..MaxPreserved) : p[2] \in PreservedOn(p[1], f)})
     ELSE 0)
HandlesAccounted == \A f \in Files : \A k \in Kinds : allocated[f][k] = Holders(f, k)

(* An open handler describes the file that its table's name stands for and *)
(* holds instances of no other, whatever was closed, preserved, dropped    *)
(* and created again before.                                               *)
RightFile ==
  \A h \in Handlers : handlers[h] # Closed =>
    /\ defn[handlers[h].name] = tables[handlers[h].name]
    /\ {handlers[h].data, handlers[h].index} \subseteq {NoFile, tables[handlers[h].name]}

(* A table that MySQL and DB2 both know is never refused for its .FID      *)
(* file, unless it is being defined, even after a crash in the middle of a *)
(* definition.                                                             *)
FidMatches ==
  \A n \in frm : (Usable(n) /\ tables[n] # NoFile) => fid[n] \in {NoFile, tables[n]}
=============================================================================
