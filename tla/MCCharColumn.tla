---------------------------- MODULE MCCharColumn ----------------------------
(***************************************************************************)
(* Instances of CharColumn for TLC: small code pages, their tables as      *)
(* dmap_open fills them, the texts the conversions are given, and what the *)
(* encodings say each character becomes.                                   *)
(***************************************************************************)
EXTENDS CharColumn, TLC

CONSTANTS
  MaxItems,       (* bound: characters of a text                           *)
  Rooms           (* bound: room that another user gives                   *)

-----------------------------------------------------------------------------
(* Code pages, as pairs of bytes and unit; NUL is in all of them.  A byte  *)
(* sequence of "decodes" is only converted from the page, to a             *)
(* substitution character.                                                 *)

Latin  == [both |-> {<<<<65>>, 65>>, <<<<32>>, 32>>, <<<<233>>, 233>>, <<<<26>>, 26>>},
           decodes |-> {<<<<144>>, 26>>}]
Ebcdic == [both |-> {<<<<193>>, 65>>, <<<<64>>, 32>>, <<<<63>>, 26>>},
           decodes |-> {<<<<159>>, 26>>}]
Sjis   == [both |-> {<<<<65>>, 65>>, <<<<32>>, 32>>, <<<<26>>, 26>>, <<<<177>>, 65393>>,
                     <<<<136, 234>>, 19968>>, <<<<252, 252>>, 65533>>},
           decodes |-> {<<<<136, 235>>, 65533>>}]
EucJp  == [both |-> {<<<<65>>, 65>>, <<<<32>>, 32>>, <<<<26>>, 26>>, <<<<126>>, 8254>>,
                     <<<<176, 236>>, 19968>>, <<<<142, 177>>, 65393>>,
                     <<<<143, 176, 161>>, 19970>>, <<<<175, 254>>, 65533>>},
           decodes |-> {<<<<176, 237>>, 65533>>, <<<<143, 254, 254>>, 65533>>}]
EucTw  == [both |-> {<<<<65>>, 65>>, <<<<142, 161, 161>>, 19970>>, <<<<175, 254>>, 65533>>},
           decodes |-> {<<<<142, 254, 254>>, 65533>>}]

Pages == (819 :> Latin) @@ (1148 :> Ebcdic) @@ (943 :> Sjis) @@ (33722 :> EucJp) @@ (964 :> EucTw)
KindOf(ccsid) ==
  CASE ccsid \in {819, 1148}   -> "S"
    [] ccsid = 943             -> "D"
    [] ccsid \in {33722, 964}  -> "E"
    [] ccsid = 13488           -> "U"
    [] ccsid = 1200            -> "T"
    [] ccsid = 1208            -> "8"

Units(page) == {p[2] : p \in page.both}
Encode(page, u) == (CHOOSE p \in page.both : p[2] = u)[1]
Decode(page, bytes) ==
  LET P == {p \in page.both \cup page.decodes : p[1] = bytes}
  IN  IF P = {} THEN 0 ELSE (CHOOSE p \in P : TRUE)[2]
Lengths(page, u, n) == u \in Units(page) /\ Len(Encode(page, u)) = n

(* The substitution characters: of a target page, and of a source page.    *)
SubS(ccsid) == IF KindOf(ccsid) \in {"S", "D", "E"} /\ 26 \in Units(Pages[ccsid])
               THEN Encode(Pages[ccsid], 26)[1] ELSE 26
SubD(ccsid) ==
  IF KindOf(ccsid) \in {"D", "E"}
  THEN LET b == Encode(Pages[ccsid], 65533) IN b[1] * 256 + b[2]
  ELSE 65533

(* A table from a single-byte page to Unicode has no source substitution   *)
(* character: dmap_open looks for it in a table of another kind.           *)
Cd(from, to) ==
  [fromCcsid |-> from, toCcsid |-> to, subS |-> SubS(to), subD |-> SubD(to),
   srcSubS |-> IF KindOf(from) = "S" /\ KindOf(to) # "S" THEN 0 ELSE SubS(from),
   srcSubD |-> SubD(from)]

-----------------------------------------------------------------------------
(* The tables.                                                             *)

From(cd) == Pages[cd.fromCcsid]
To(cd) == Pages[cd.toCcsid]

TheS2S(cd, b) ==
  LET u == Decode(From(cd), <<b>>)
  IN  IF u = 0 THEN 0 ELSE IF u \in Units(To(cd)) THEN Encode(To(cd), u)[1] ELSE cd.subS
TheD12U(cd, b) == Decode(From(cd), <<b>>)
TheD22U(cd, b, c) == Decode(From(cd), <<b, c>>)
TheE02U(cd, b) == Decode(From(cd), <<b>>)
TheE12U(cd, b, c) == Decode(From(cd), <<b, c>>)
TheE22U1(cd, b) == Decode(From(cd), <<142, b>>)
TheE22U(cd, b, c) == Decode(From(cd), <<142, b, c>>)
TheE32U1(cd, b) == Decode(From(cd), <<143, b>>)
TheE32U(cd, b, c) == Decode(From(cd), <<143, b, c>>)
TheU2S(cd, u) ==
  IF Lengths(To(cd), u, 1) THEN Encode(To(cd), u)[1]
  ELSE IF KindOf(cd.toCcsid) = "S" THEN cd.subS ELSE 0
(* U+0080 becomes the single-byte substitution character of a D page.      *)
TheU2D(cd, u) ==
  IF Lengths(To(cd), u, 1) THEN Encode(To(cd), u) \o <<0>>
  ELSE IF Lengths(To(cd), u, 2) THEN Encode(To(cd), u)
  ELSE IF u = 128 THEN <<cd.subS, 0>> ELSE Unit(cd.subD)
TheU2M2(cd, u) ==
  IF u >= 256 /\ Lengths(To(cd), u, 1) THEN Encode(To(cd), u) \o <<0>>
  ELSE IF Lengths(To(cd), u, 2) THEN Encode(To(cd), u) ELSE <<0, 0>>
TheU2M3(cd, u) == IF Lengths(To(cd), u, 3) THEN Encode(To(cd), u) ELSE <<0, 0, 0>>

-----------------------------------------------------------------------------
(* The items of texts.                                                     *)

Item(src, dst, subs) == [src |-> src, dst |-> dst, subs |-> subs, is |-> "ok"]
Bad(src) == [src |-> src, dst |-> <<>>, subs |-> {0}, is |-> "bad"]
Lenient(src) == [src |-> src, dst |-> <<>>, subs |-> {0, 1}, is |-> "lenient"]

InForm(kind, u) == IF kind = "8" THEN Utf8(u) ELSE Utf16(u)
Emoji == 128512

(* A character of a page in Unicode.  The source's own substitution        *)
(* character is no substitution, but S2U, S28 and D28 may count it.        *)
FromPage(from, kind) ==
  LET Own(p) == p \in Pages[from].both
      Subs(p) == IF p[2] \notin {26, 65533} THEN {0}
                 ELSE IF ~Own(p) THEN {1}
                 ELSE IF KindOf(from) = "S" \/ (KindOf(from) = "D" /\ kind = "8") THEN {0, 1}
                 ELSE {0}
  IN  {Item(p[1], InForm(kind, p[2]), Subs(p)) : p \in Pages[from].both \cup Pages[from].decodes}

(* A Unicode character in a page.  Single bytes are counted by chance by   *)
(* U2D and T2D, and by the EUC loops those of the second table.            *)
Substitute(to, u) ==
  IF KindOf(to) = "S" \/ (KindOf(to) = "D" /\ u = 128) \/ u >= 65536
  THEN <<SubS(to)>> ELSE Unit(SubD(to))
ToPage(kind, to) ==
  LET page == Pages[to]
      Chance(u) == \/ KindOf(to) = "D" /\ kind # "8" /\ (Lengths(page, u, 1) \/ u = 128)
                   \/ KindOf(to) = "E" /\ u >= 256 /\ Lengths(page, u, 1)
      Subs(u) == IF Chance(u) THEN {0, 1} ELSE IF u \in Units(page) THEN {0} ELSE {1}
      Dst(u) == IF u \in Units(page) THEN Encode(page, u) ELSE Substitute(to, u)
      Pairs == CASE kind = "U" -> {}
                 [] kind = "T" -> IF KindOf(to) = "S" THEN {Item(Utf16(Emoji), Dst(Emoji), {1})}
                                                      ELSE {Bad(Utf16(Emoji))}
                 [] kind = "8" -> {Item(Utf8(Emoji), Dst(Emoji), {1})}
  IN  Pairs \cup
      {Item(InForm(kind, u), Dst(u), Subs(u)) : u \in {65, 128, 233, 8364} \cup Units(page)}

(* A character of a single-byte page in another; U+001A is no substitution. *)
BetweenPages(from, to) ==
  {Item(p[1], IF p[2] \in Units(Pages[to]) THEN Encode(Pages[to], p[2]) ELSE <<SubS(to)>>,
        IF p[2] \in Units(Pages[to]) /\ p \in Pages[from].both THEN {0} ELSE {1})
     : p \in Pages[from].both \cup Pages[from].decodes}

Unicode(kind, to) ==
  LET both == {Item(InForm(kind, u), InForm(KindOf(to), u), {0})
                 : u \in {65, 233, 2047, 2048, 19968}}
  IN  both \cup CASE kind = "U" -> {}
                  [] to = 13488 /\ kind = "8" -> {Bad(Utf8(Emoji))}
                  [] OTHER -> {Item(InForm(kind, Emoji), InForm(KindOf(to), Emoji), {0})}

(* Malformed and incomplete text.                                          *)
Malformed(ccsid) ==
  LET kind == KindOf(ccsid) IN
  CASE kind = "S" -> {Bad(<<128>>)}
    [] kind = "D" -> {Bad(s) : s \in {<<128>>, <<136>>, <<136, 129>>}}
    [] kind = "E" -> {Bad(s) : s \in
         {<<142>>, <<142, 65>>, <<142, 223>>, <<142, 223, 223>>, <<143>>, <<143, 65>>,
          <<143, 65, 65>>, <<143, 176>>, <<143, 176, 65>>, <<143, 200, 200>>,
          <<160>>, <<176>>, <<176, 65>>, <<176, 200>>, <<144, 176>>}}
    [] kind = "U" -> {Bad(<<0>>), Lenient(<<216, 61>>), Lenient(Utf16(Emoji))}
    [] kind = "T" -> {Lenient(<<0>>)} \cup
                     {Bad(s) : s \in {<<216, 61>>, <<216, 61, 0, 65>>, <<222, 0>>}}
    [] kind = "8" ->
         {Bad(s) : s \in
            {<<128>>, <<192, 128>>, <<195>>, <<195, 65>>, <<224>>, <<226, 130>>,
             <<224, 128, 128>>, <<226, 65, 128>>, <<240, 159, 152>>,
             <<240, 128, 128, 128>>, <<240, 159, 65, 128>>, <<245>>}}
         \cup {Lenient(s) : s \in
            {<<237, 160, 128>>, <<244, 144, 128, 128>>, <<245, 128, 128, 128>>,
             <<248, 159, 152, 128>>}}

Items(from, to) ==
  LET f == KindOf(from)
      t == KindOf(to)
      Page(k) == k \in {"S", "D", "E"}
      Nul(k) == IF k \in {"U", "T"} THEN <<0, 0>> ELSE <<0>>
  IN  Malformed(from) \cup {Item(Nul(f), Nul(t), {0})} \cup
      (IF Page(f) /\ Page(t) THEN BetweenPages(from, to)
       ELSE IF Page(f) THEN FromPage(from, t)
       ELSE IF Page(t) THEN ToPage(f, to)
       ELSE Unicode(f, to))

(* Nothing but the end may be malformed: the loop goes no further.         *)
Ok(items) == {i \in items : i.is = "ok"}
Sequences(items, n) ==
  LET upto[k \in 0 .. n] ==
        IF k = 0 THEN {<<>>} ELSE {<<>>} \cup {s \o <<i>> : s \in upto[k - 1], i \in items}
  IN  upto[n]
Texts(items) ==
  Sequences(Ok(items), MaxItems)
  \cup {s \o <<i>> : s \in Sequences(Ok(items), 1), i \in items \ Ok(items)}

SchemaOf(from, to) ==
  LET f == KindOf(from)
      t == KindOf(to)
      Unicode2 == {"U", "T"}
  IN  IF f \in Unicode2 /\ t \in Unicode2 THEN "U2U"
      ELSE f \o "2" \o (IF t = "T" THEN "U" ELSE t)

(* The pairs of code pages: one for each schema, two for EUC pages and for *)
(* the targets of UTF-8.                                                   *)
CodePages ==
  {<<819, 1148>>, <<1148, 819>>, <<819, 1200>>, <<819, 1208>>, <<943, 1200>>, <<943, 1208>>,
   <<33722, 1200>>, <<33722, 1208>>, <<964, 1200>>, <<13488, 1148>>, <<1200, 1148>>,
   <<1208, 1148>>, <<13488, 943>>, <<1200, 943>>, <<1208, 943>>, <<13488, 33722>>,
   <<1200, 33722>>, <<1200, 964>>, <<1208, 33722>>, <<1208, 1200>>, <<1208, 13488>>,
   <<13488, 1208>>, <<1200, 1208>>, <<1200, 13488>>}

Descriptor(from, to) == [schema |-> SchemaOf(from, to), cd |-> Cd(from, to)]
TheDescriptors == {Descriptor(p[1], p[2]) : p \in CodePages}

TheCalls(d) ==
  {[schema |-> d.schema, cd |-> d.cd, text |-> Text(t), room |-> room, items |-> t]
     : t \in Texts(Items(d.cd.fromCcsid, d.cd.toCcsid)), room \in Rooms}

-----------------------------------------------------------------------------
(* Columns: the character set's code page, its shortest and longest        *)
(* character, and its space; the CCSID in DB2 is 1200 or 1148.             *)

CharacterSets ==
  {[page |-> 819,   mbminlen |-> 1, mbmaxlen |-> 1, pad |-> <<32>>],
   [page |-> 943,   mbminlen |-> 1, mbmaxlen |-> 2, pad |-> <<32>>],
   [page |-> 33722, mbminlen |-> 1, mbmaxlen |-> 3, pad |-> <<32>>],
   [page |-> 1208,  mbminlen |-> 1, mbmaxlen |-> 3, pad |-> <<32>>],
   [page |-> 1208,  mbminlen |-> 1, mbmaxlen |-> 4, pad |-> <<32>>],
   [page |-> 1200,  mbminlen |-> 2, mbmaxlen |-> 4, pad |-> <<0, 32>>]}

TheCharacters ==
  {0, 26, 65, 128, 233, 2047, 2048, 8364, 19968, Emoji}
  \cup UNION {Units(Pages[c]) : c \in DOMAIN Pages}

(* MySQL stores well-formed text of at most n characters.  A code point    *)
(* that is not defined in the page is well-formed.                         *)
Storable(cs, db2) ==
  {i \in Items(cs.page, db2) :
     /\ \/ i.is = "ok"
        \/ i.src = (CASE KindOf(cs.page) = "S" -> <<128>>
                   [] KindOf(cs.page) = "D" -> <<136, 129>>
                   [] KindOf(cs.page) = "E" -> <<176, 200>>
                   [] OTHER -> <<>>)
     /\ i.src \in {Utf8(Emoji), Utf16(Emoji)} => StoresPairs /\ cs.mbmaxlen = 4}

TheColumns ==
  UNION {LET db2 == IF cs.mbmaxlen > 1 THEN 1200 ELSE 1148 IN
         UNION {{[mbminlen |-> cs.mbminlen, mbmaxlen |-> cs.mbmaxlen, pad |-> cs.pad,
                  n |-> n, varying |-> varying, items |-> items,
                  toDB2 |-> Descriptor(cs.page, db2), toMySQL |-> Descriptor(db2, cs.page)]
                   : items \in Sequences(Storable(cs, db2), n)}
                   : n \in 1 .. MaxItems, varying \in BOOLEAN}
           : cs \in CharacterSets}
=============================================================================
