-------------------------- MODULE ConversionCache --------------------------
(***************************************************************************)
(* How connections come by a conversion between a MySQL character set and  *)
(* a CCSID of DB2.  getConversion (db2i_charsetSupport.cc) looks in a hash *)
(* all connections share and opens the conversion it does not find;        *)
(* myconv_open (db2i_myconv.cc) takes a record of a static array and fills *)
(* it; on the way the encoding scheme of both code pages is looked up in   *)
(* another shared list.  Only the insertion in the hash holds a mutex.     *)
(*                                                                         *)
(* A descriptor is the number of its record in myconv_rec: records are     *)
(* never closed.  A record of the hash is the number of the block of       *)
(* iconvMapMemroot it lies in, so that two threads which allocate at the   *)
(* same time may be given the same one.                                    *)
(*                                                                         *)
(* A definition named Name_Variant is Name with a plausible mistake in it; *)
(* the specification does not use them.                                    *)
(***************************************************************************)
EXTENDS Naturals, FiniteSets

CONSTANTS
  Threads,          \* connections that convert
  Charsets,         \* MySQL's character sets: one per collation
  Ccsids,           \* DB2's code pages
  NoPage,           \* no code page
  EncodingMap,      \* encoding_map: the code page of a character set, if it has one
  Scheme,           \* what DB2 says of a code page
  MaxConverter,     \* records of myconv_rec (128)
  MaxCcsid,         \* entries of the list of encoding schemes (256)
  MaxBlocks,        \* bound: blocks iconvMapMemroot can hand out
  LookupsMayFail,   \* TRUE: DB2 may fail to answer getEncodingScheme
  OneOpener         \* TRUE: no two threads are between the miss and the insertion

Schemes == {"SBCS", "DBCS", "EUC", "Unicode2", "UTF8", "none"}

Pages == Ccsids \cup {EncodingMap[cs] : cs \in Charsets}

Keys == [direction : {"toMySQL", "toDB2"}, myCharset : Charsets, db2CCSID : Ccsids]

ASSUME SizesAssumption ==
  /\ MaxConverter \in Nat \ {0}
  /\ MaxCcsid \in Nat \ {0}
  /\ MaxBlocks \in Nat \ {0}
  /\ LookupsMayFail \in BOOLEAN /\ OneOpener \in BOOLEAN

\* A code page the map names has a scheme; the absence of one has none.
ASSUME PagesAssumption ==
  /\ Charsets # {} /\ Ccsids # {} /\ NoPage \notin Ccsids
  /\ DOMAIN EncodingMap = Charsets
  /\ Scheme \in [Pages \cup {NoPage} -> Schemes]

Slots == 1..MaxConverter
Blocks == 1..MaxBlocks
Entries == 1..MaxCcsid

VARIABLES
  call,             \* what each thread is at in getConversion, with its locals
  taken,            \* myconv_rec[i].converterType is set
  conv,             \* what the tables of a record convert: code pages and schemes
  ccsidList,        \* code pages of known scheme
  esList,           \* and their schemes
  freeBlock,        \* the next block of iconvMapMemroot
  mapping,          \* the contents of the blocks: hashKey and iconvDesc
  iconvMapHash,     \* blocks in the hash
  holder,           \* the thread that holds iconvMapHashMutex, as a set
  given,            \* answers so far: conversion asked for and descriptor
  refused           \* conversions refused as unsupported

lists == <<ccsidList, esList>>
hash == <<freeBlock, mapping, iconvMapHash, holder>>
answers == <<given, refused>>
vars == <<call, taken, conv, lists, hash, answers>>

Unset == [pages |-> <<NoPage, NoPage>>, schemes |-> <<"none", "none">>]
Opening == {"claim", "from", "putFrom", "fillFrom", "to", "putTo", "fillTo", "build", "alloc", "take"}
Labels == Opening \cup {"idle", "open", "lock", "insert"}

SomeKey == CHOOSE k \in Keys : TRUE

Idle == [at |-> "idle", key |-> SomeKey, slot |-> 1, entry |-> 1,
         from |-> "none", to |-> "none", block |-> 1]

TypeOK ==
  /\ call \in [Threads -> [at : Labels, key : Keys, slot : Slots, entry : Entries,
                           from : Schemes, to : Schemes, block : Blocks]]
  /\ taken \in [Slots -> BOOLEAN]
  /\ conv \in [Slots -> [pages : (Pages \cup {NoPage}) \X (Pages \cup {NoPage}),
                         schemes : Schemes \X Schemes]]
  /\ ccsidList \in [Entries -> Pages \cup {NoPage}]
  /\ esList \in [Entries -> Schemes]
  /\ freeBlock \in 1..(MaxBlocks + 1)
  /\ mapping \in [Blocks -> [hashKey : Keys, iconvDesc : Slots]]
  /\ iconvMapHash \subseteq Blocks
  /\ holder \subseteq Threads
  /\ given \subseteq Keys \X Slots
  /\ refused \subseteq Keys
----------------------------------------------------------------------------
(* Code pages and the conversions between them. *)

\* The arguments of iconv_open: source and target code page.
FromPage(k) == IF k.direction = "toDB2" THEN EncodingMap[k.myCharset] ELSE k.db2CCSID
ToPage(k) == IF k.direction = "toDB2" THEN k.db2CCSID ELSE EncodingMap[k.myCharset]

\* The pairs of schemes dmap_open has tables for.
HasTables(f, t) ==
  \/ f = "SBCS" /\ t \in {"SBCS", "Unicode2", "UTF8"}
  \/ f \in {"DBCS", "EUC"} /\ t \in {"Unicode2", "UTF8"}
  \/ f = "Unicode2" /\ t # "none"
  \/ f = "UTF8" /\ t \in {"SBCS", "DBCS", "EUC", "Unicode2"}

Supported(k) ==
  /\ EncodingMap[k.myCharset] # NoPage
  /\ HasTables(Scheme[FromPage(k)], Scheme[ToPage(k)])

\* A record whose tables convert what was asked for.
Converts(d, k) ==
  conv[d] = [pages |-> <<FromPage(k), ToPage(k)>>,
             schemes |-> <<Scheme[FromPage(k)], Scheme[ToPage(k)]>>]
----------------------------------------------------------------------------
Init ==
  /\ call = [t \in Threads |-> Idle]
  /\ taken = [i \in Slots |-> FALSE]
  /\ conv = [i \in Slots |-> Unset]
  /\ ccsidList = [i \in Entries |-> NoPage]
  /\ esList = [i \in Entries |-> "none"]
  /\ freeBlock = 1
  /\ mapping = [b \in Blocks |-> [hashKey |-> SomeKey, iconvDesc |-> 1]]
  /\ iconvMapHash = {} /\ holder = {}
  /\ given = {} /\ refused = {}

At(t, label) == call[t].at = label

Goto(t, label) == call' = [call EXCEPT ![t].at = label]

\* getConversion returns DB2I_ERR_UNSUPP_CHARSET.
Refuse(t) ==
  /\ call' = [call EXCEPT ![t] = Idle]
  /\ refused' = refused \cup {call[t].key}
  /\ UNCHANGED given

\* As Hit, with a key that forgets the direction.
Hit_BothWays(t, k) ==
  /\ At(t, "idle")
  /\ \E b \in iconvMapHash :
       /\ mapping[b].hashKey = [k EXCEPT !.direction = mapping[b].hashKey.direction]
       /\ given' = given \cup {<<k, mapping[b].iconvDesc>>}
  /\ UNCHANGED <<call, refused, lists, taken, conv, hash>>

\* getConversion finds the conversion in the hash.
Hit(t, k) ==
  /\ At(t, "idle")
  /\ \E b \in iconvMapHash :
       /\ mapping[b].hashKey = k
       /\ given' = given \cup {<<k, mapping[b].iconvDesc>>}
  /\ UNCHANGED <<call, refused, lists, taken, conv, hash>>

\* It does not find it: because it is not there, or because a thread is just
\* moving the records of the hash to insert one.
Miss(t, k) ==
  /\ At(t, "idle")
  /\ holder # {} \/ \A b \in iconvMapHash : mapping[b].hashKey # k
  /\ IF EncodingMap[k.myCharset] = NoPage
       THEN refused' = refused \cup {k} /\ UNCHANGED call
       ELSE call' = [call EXCEPT ![t].at = "open", ![t].key = k] /\ UNCHANGED refused
  /\ UNCHANGED <<given, lists, taken, conv, hash>>
----------------------------------------------------------------------------
(* myconv_open and dmap_open. *)

\* As ScanRecords, with the last record left out of the scan.
ScanRecords_Short(t) ==
  /\ At(t, "open")
  /\ OneOpener => \A u \in Threads : call[u].at \notin Opening
  /\ \/ (\A i \in 1..(MaxConverter - 1) : taken[i]) /\ Refuse(t)
     \/ /\ \E i \in 1..(MaxConverter - 1) :
             /\ ~taken[i] /\ \A j \in 1..(i - 1) : taken[j]
             /\ call' = [call EXCEPT ![t].at = "claim", ![t].slot = i]
        /\ UNCHANGED answers
  /\ UNCHANGED <<lists, taken, conv, hash>>

\* myconv_open looks for a record nobody has.
ScanRecords(t) ==
  /\ At(t, "open")
  /\ OneOpener => \A u \in Threads : call[u].at \notin Opening
  /\ \/ (\A i \in Slots : taken[i]) /\ Refuse(t)
     \/ /\ \E i \in Slots :
             /\ ~taken[i] /\ \A j \in 1..(i - 1) : taken[j]
             /\ call' = [call EXCEPT ![t].at = "claim", ![t].slot = i]
        /\ UNCHANGED answers
  /\ UNCHANGED <<lists, taken, conv, hash>>

\* It makes the record its own.
ClaimRecord(t) ==
  /\ At(t, "claim")
  /\ taken' = [taken EXCEPT ![call[t].slot] = TRUE]
  /\ Goto(t, "from")
  /\ UNCHANGED <<lists, answers, conv, hash>>

\* myconvGetES stops at the entry of the code page or the first free one; in
\* a full list without the code page it takes the last.
StopsAt(i, p) ==
  \/ /\ ccsidList[i] \in {p, NoPage}
     /\ \A j \in 1..(i - 1) : ccsidList[j] \notin {p, NoPage}
  \/ /\ i = MaxCcsid
     /\ \A j \in Entries : ccsidList[j] \notin {p, NoPage}

\* dmap_open asks for the scheme of the source code page ...
FindFrom(t) ==
  LET p == FromPage(call[t].key) IN
  /\ At(t, "from")
  /\ \E i \in Entries :
       /\ StopsAt(i, p)
       /\ call' = IF ccsidList[i] = p
                    THEN [call EXCEPT ![t].at = "to", ![t].from = esList[i]]
                    ELSE [call EXCEPT ![t].at = "putFrom", ![t].entry = i]
  /\ UNCHANGED <<lists, answers, taken, conv, hash>>

\* ... and of the target.
FindTo(t) ==
  LET p == ToPage(call[t].key) IN
  /\ At(t, "to")
  /\ \E i \in Entries :
       /\ StopsAt(i, p)
       /\ call' = IF ccsidList[i] = p
                    THEN [call EXCEPT ![t].at = "build", ![t].to = esList[i]]
                    ELSE [call EXCEPT ![t].at = "putTo", ![t].entry = i]
  /\ UNCHANGED <<lists, answers, taken, conv, hash>>

\* The code page is put in the list before its scheme is known.
PutPage(t) ==
  /\ \/ /\ At(t, "putFrom") /\ Goto(t, "fillFrom")
        /\ ccsidList' = [ccsidList EXCEPT ![call[t].entry] = FromPage(call[t].key)]
     \/ /\ At(t, "putTo") /\ Goto(t, "fillTo")
        /\ ccsidList' = [ccsidList EXCEPT ![call[t].entry] = ToPage(call[t].key)]
  /\ UNCHANGED <<esList, answers, taken, conv, hash>>

\* getEncodingScheme stores the scheme, which myconvGetES returns.
FillScheme(t) ==
  /\ \/ LET es == Scheme[FromPage(call[t].key)] IN
          /\ At(t, "fillFrom")
          /\ esList' = [esList EXCEPT ![call[t].entry] = es]
          /\ call' = [call EXCEPT ![t].at = "to", ![t].from = es]
     \/ LET es == Scheme[ToPage(call[t].key)] IN
          /\ At(t, "fillTo")
          /\ esList' = [esList EXCEPT ![call[t].entry] = es]
          /\ call' = [call EXCEPT ![t].at = "build", ![t].to = es]
  /\ UNCHANGED <<ccsidList, answers, taken, conv, hash>>

\* getEncodingScheme stores nothing; myconvGetES drops its return code, leaves
\* the code page in the list and returns what the entry holds.
FailScheme(t) ==
  /\ LookupsMayFail
  /\ \/ /\ At(t, "fillFrom")
        /\ call' = [call EXCEPT ![t].at = "to", ![t].from = esList[call[t].entry]]
     \/ /\ At(t, "fillTo")
        /\ call' = [call EXCEPT ![t].at = "build", ![t].to = esList[call[t].entry]]
  /\ UNCHANGED <<lists, answers, taken, conv, hash>>

\* A source in Unicode is known by its CCSID, whatever the list says.
SourceScheme(c) == IF Scheme[FromPage(c.key)] = "Unicode2" THEN "Unicode2" ELSE c.from

\* dmap_open builds the tables the two schemes call for, if there are any.
\* Where there are none the record stays taken.
BuildTables(t) ==
  LET c == call[t]
      from == SourceScheme(c)
  IN
  /\ At(t, "build")
  /\ IF HasTables(from, c.to)
       THEN /\ conv' = [conv EXCEPT ![c.slot] =
                          [pages |-> <<FromPage(c.key), ToPage(c.key)>>,
                           schemes |-> <<from, c.to>>]]
            /\ Goto(t, "alloc") /\ UNCHANGED answers
       ELSE Refuse(t) /\ UNCHANGED conv
  /\ UNCHANGED <<lists, taken, hash>>
----------------------------------------------------------------------------
(* The new conversion becomes known to the others. *)

\* As FindBlock, with one block too many.
\* alloc_root looks at the next block; without one getConversion returns
\* HA_ERR_OUT_OF_MEM.
FindBlock(t) ==
  /\ At(t, "alloc")
  /\ call' = IF freeBlock > MaxBlocks
               THEN [call EXCEPT ![t] = Idle]
               ELSE [call EXCEPT ![t].at = "take", ![t].block = freeBlock]
  /\ UNCHANGED <<lists, answers, taken, conv, hash>>

\* alloc_root takes it and getConversion fills it.
FillBlock(t) ==
  LET c == call[t] IN
  /\ At(t, "take")
  /\ freeBlock' = c.block + 1
  /\ mapping' = [mapping EXCEPT ![c.block] = [hashKey |-> c.key, iconvDesc |-> c.slot]]
  /\ Goto(t, "lock")
  /\ UNCHANGED <<lists, answers, taken, conv, iconvMapHash, holder>>

LockHash(t) ==
  /\ At(t, "lock")
  /\ holder = {}
  /\ holder' = {t}
  /\ Goto(t, "insert")
  /\ UNCHANGED <<lists, answers, taken, conv, freeBlock, mapping, iconvMapHash>>

\* As InsertConversion, with a hash that takes a key twice.
InsertConversion_Twice(t) ==
  LET c == call[t] IN
  /\ At(t, "insert")
  /\ iconvMapHash' = iconvMapHash \cup {c.block}
  /\ holder' = {}
  /\ given' = given \cup {<<c.key, mapping[c.block].iconvDesc>>}
  /\ call' = [call EXCEPT ![t] = Idle]
  /\ UNCHANGED <<refused, lists, taken, conv, freeBlock, mapping>>

\* my_hash_insert refuses a key that is there already, and nobody asks; the
\* thread converts with its own descriptor.
InsertConversion(t) ==
  LET c == call[t] IN
  /\ At(t, "insert")
  /\ iconvMapHash' = IF \E b \in iconvMapHash : mapping[b].hashKey = mapping[c.block].hashKey
                       THEN iconvMapHash
                       ELSE iconvMapHash \cup {c.block}
  /\ holder' = {}
  /\ given' = given \cup {<<c.key, mapping[c.block].iconvDesc>>}
  /\ call' = [call EXCEPT ![t] = Idle]
  /\ UNCHANGED <<refused, lists, taken, conv, freeBlock, mapping>>

Step(t) ==
  \/ \E k \in Keys : Hit(t, k) \/ Miss(t, k)
  \/ ScanRecords(t) \/ ClaimRecord(t)
  \/ FindFrom(t) \/ FindTo(t) \/ PutPage(t) \/ FillScheme(t) \/ FailScheme(t)
  \/ BuildTables(t)
  \/ FindBlock(t) \/ FillBlock(t) \/ LockHash(t) \/ InsertConversion(t)

Next == \E t \in Threads : Step(t)

Spec == Init /\ [][Next]_vars
----------------------------------------------------------------------------
(* Properties. *)

\* A connection converts with a descriptor for as long as its table is open:
\* every descriptor getConversion ever returned converts between the code
\* pages it was asked for, with the tables of their schemes, and goes on doing
\* so while others open theirs.
GivenConverts == \A g \in given : Converts(g[2], g[1])

\* The hash is a map: one record for each conversion, in a block of its own,
\* under the key it was opened for.
HashIsMap ==
  /\ \A b, c \in iconvMapHash : mapping[b].hashKey = mapping[c].hashKey => b = c
  /\ \A b \in iconvMapHash : Converts(mapping[b].iconvDesc, mapping[b].hashKey)

\* A conversion getConversion can do is refused as unsupported only when no
\* record of myconv_rec is left or DB2 once failed to tell the scheme of one of
\* its code pages.  (Records are lost to conversions opened twice and to those
\* that could not be opened; a failure is never made good.)
RefusedWhenFull ==
  \A k \in refused : Supported(k) =>
    \/ \A i \in Slots : taken[i]
    \/ \E i \in Entries : ccsidList[i] \in {FromPage(k), ToPage(k)} /\ esList[i] = "none"
=============================================================================
