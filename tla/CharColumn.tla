----------------------------- MODULE CharColumn -----------------------------
(***************************************************************************)
(* Users of the conversions.  One is a text column: storing a row converts *)
(* the value to DB2's character set, within the length that the column has *)
(* in the row, and fetching the row converts it back.  The others convert  *)
(* with any descriptor into any room.                                      *)
(*                                                                         *)
(* A multi-byte character set is stored as (VAR)GRAPHIC in UTF-16, so many *)
(* units as the column has characters; a single-byte one is stored as      *)
(* (VAR)CHAR in an EBCDIC page.  Columns that are stored without           *)
(* conversion (binary, UCS-2 with its own CCSID, UTF-8) are left out.      *)
(* From outside the source come MySQL's padding of CHAR values with spaces *)
(* and the trimming of what it reads; DB2 returns what it was given, cut   *)
(* to the length of a CHAR or GRAPHIC column.                              *)
(***************************************************************************)
EXTENDS Characters, FiniteSetsExt

CONSTANTS
  Columns,    (* bound: the columns and their values                       *)
  StoresPairs (* do columns hold supplementary characters?                 *)

(* All that a descriptor other than U2U is given is text.                  *)
ASSUME TextsAssumption ==
  \A d \in Descriptors : d.schema # "U2U" =>
    /\ TablesFit(d)
    /\ \A c \in Calls(d) : IsText(d, c.items) /\ c.text = Text(c.items)

VARIABLES
  column,     (* the column and the value stored, None for another user    *)
  pc,         (* "converting" for another user; "storing" and "fetching"   *)
              (* for a column; "done"                                      *)
  row,        (* the column's bytes in the row that DB2 keeps              *)
  value,      (* the bytes that field->store is given                      *)
  status,     (* what store or fetch returned: an error, or "none"         *)
  warned      (* DB2I_ERR_SUB_CHARS has been pushed                        *)

cvars == <<column, pc, row, value, status, warned>>

(* A column: mbminlen, mbmaxlen, n (its length in characters), varying,    *)
(* pad (the character set's space), the descriptors and schemas toDB2 and  *)
(* toMySQL, and items, the characters of the value.                        *)
None == [n |-> 0]
MultiByte(c) == c.mbmaxlen > 1

PaddedTo(s, pad, length) ==
  [i \in 1 .. Max({Len(s), length}) |->
     IF i <= Len(s) THEN s[i] ELSE pad[((i - Len(s) - 1) % Len(pad)) + 1]]

Trimmed(s, pad) ==
  LET OnlyPads(m) == /\ (Len(s) - m) % Len(pad) = 0
                     /\ PaddedTo(SubSeq(s, 1, m), pad, Len(s)) = s
  IN  SubSeq(s, 1, Min({m \in 0 .. Len(s) : OnlyPads(m)}))

(* field->max_display_length(), and the bytes convertMySQLtoDB2 converts:  *)
(* a CHAR value is the whole of the field, with its padding.               *)
MaxDisplayLength(c) == c.n * c.mbmaxlen
DataToStore(c) ==
  IF c.varying THEN Text(c.items)
               ELSE PaddedTo(Text(c.items), c.pad, MaxDisplayLength(c))

(* maxDb2BytesToStore, storing and fetching.                               *)
RoomInRow_Worst(c) == (Len(DataToStore(c)) * 2) \div c.mbminlen
RoomInRow(c) ==
  IF MultiByte(c)
  THEN Min({(Len(DataToStore(c)) * 2) \div c.mbminlen,
             (MaxDisplayLength(c) * 2) \div c.mbmaxlen})
  ELSE Len(DataToStore(c))
RoomInField(c, bytes) == IF MultiByte(c) THEN (Len(bytes) \div 2) * c.mbmaxlen ELSE Len(bytes)

(* The characters of a column, and its space, come back from DB2 as they   *)
(* were, unless a substitution is counted for them.                        *)
Back(c, i) ==
  IF c.toMySQL.schema = "S2S"
  THEN LET b == i.dst[1]
           to == IF b = 0 THEN 0 ELSE S2S(c.toMySQL.cd, b)
       IN  [src |-> i.dst, dst |-> <<to>>, is |-> "ok",
            subs |-> {Count(b # 0 /\ to = c.toMySQL.cd.subS /\ b # c.toMySQL.cd.srcSubS)}]
  ELSE LET u == UnitAt(i.dst, 1)
       IN  [src |-> i.dst, dst |-> Form(c.toMySQL, u), is |-> "ok",
            subs |-> Counts(c.toMySQL, i.dst, u)]

ComesBack(c, i) ==
  /\ IsItem(c.toDB2, i) /\ i.is = "ok" /\ Len(i.src) <= c.mbmaxlen
  /\ Len(i.dst) = IF MultiByte(c) THEN 2 ELSE 1
  /\ IsItem(c.toMySQL, Back(c, i)) /\ Len(Back(c, i).dst) <= c.mbmaxlen
  /\ 0 \in i.subs \cap Back(c, i).subs => Back(c, i).dst = i.src

(* A code point of a page that is not defined, whatever is behind it.      *)
Undefined(c, i) ==
  /\ i.is = "bad" /\ i.src \in Seq(0 .. 255) /\ Len(i.src) <= c.mbmaxlen
  /\ c.toDB2.schema \in {"S2S", "D2U", "E2U"}
  /\ Len(i.src) = CASE c.toDB2.schema = "S2S" -> 1
                     [] c.toDB2.schema = "D2U" -> 2
                     [] c.toDB2.schema = "E2U" -> IF i.src[1] \in Shifts THEN 3 ELSE 2
  /\ NoCharacter(c.toDB2, i.src)

Space(c) ==
  [src |-> c.pad, subs |-> {0}, is |-> "ok",
   dst |-> IF MultiByte(c) THEN <<0, 32>> ELSE <<S2S(c.toDB2.cd, 32)>>]

ColumnSchemas == {<<"S2S", "S2S">>, <<"D2U", "T2D">>, <<"E2U", "T2E">>, <<"82U", "T28">>}
IsColumn(c) ==
  /\ c.n \in Nat \ {0} /\ c.mbmaxlen \in Nat \ {0} /\ Len(c.items) <= c.n
  /\ c.items \in Seq({c.items[k] : k \in DOMAIN c.items})
  /\ \/ /\ <<c.toDB2.schema, c.toMySQL.schema>> \in ColumnSchemas
        /\ c.mbminlen = 1 /\ MultiByte(c) = (c.toDB2.schema # "S2S")
        /\ c.pad = <<32>> /\ ComesBack(c, Space(c))
        /\ TablesFit(c.toDB2) /\ TablesFit(c.toMySQL)
        /\ \A k \in 1 .. Len(c.items) : ComesBack(c, c.items[k]) \/ Undefined(c, c.items[k])
     \/ /\ c.toDB2.schema = "U2U" /\ c.toMySQL.schema = "U2U"
        /\ c.mbminlen = 2 /\ c.mbmaxlen = 4 /\ c.pad = <<0, 32>>
        /\ \A k \in 1 .. Len(c.items) : c.items[k].src \in Seq(0 .. 255) /\ Len(c.items[k].src) = 2

ASSUME ColumnsAssumption == ~StoresPairs => \A c \in Columns : IsColumn(c)

StoreCall(c) ==
  [schema |-> c.toDB2.schema, cd |-> c.toDB2.cd, text |-> DataToStore(c),
   room |-> RoomInRow(c), items |-> c.items]
FetchCall(c, bytes) ==
  [schema |-> c.toMySQL.schema, cd |-> c.toMySQL.cd, text |-> bytes,
   room |-> RoomInField(c, bytes), items |-> c.items]

(* convertFieldChars makes an error of -1, and a warning of substitutions. *)
(* It does not look at what is left of the text.                           *)
ErrorsOf(errno) ==
  CASE errno = "EILSEQ" -> {"DB2I_ERR_ILL_CHAR"}
    [] errno = "EINVAL" -> {"DB2I_ERR_ICONV"}
    [] OTHER            -> {"DB2I_ERR_ILL_CHAR", "DB2I_ERR_ICONV"}

Failed ==
  /\ result.rc < 0
  /\ \E e \in ErrorsOf(result.errno) : status' = e
  /\ pc' = "done"
  /\ UNCHANGED <<vars, column, row, value, warned>>

Converted ==
  /\ result.rc >= 0
  /\ warned' = (warned \/ result.numSub > 0)
  /\ UNCHANGED <<column, status>>

(* The rest of convertMySQLtoDB2: padding with U+0020, and the length of a *)
(* VARGRAPHIC, which leaves the padding out.  DB2 keeps the row, and it is *)
(* fetched again.                                                          *)
StoreRow_Padded ==
  /\ pc = "storing" /\ result # NotYet
  /\ \/ Failed
     \/ /\ Converted
        /\ row' = IF ~MultiByte(column) THEN out
                  ELSE PaddedTo(out, <<0, 32>>, RoomInRow(column))
        /\ pc' = "fetching"
        /\ Begin(FetchCall(column, row'))
        /\ UNCHANGED value

StoreRow ==
  /\ pc = "storing" /\ result # NotYet
  /\ \/ Failed
     \/ /\ Converted
        /\ row' = IF ~MultiByte(column) \/ column.varying THEN out
                  ELSE SubSeq(PaddedTo(out, <<0, 32>>, RoomInRow(column)), 1, 2 * column.n)
        /\ pc' = "fetching"
        /\ Begin(FetchCall(column, row'))
        /\ UNCHANGED value

FetchRow ==
  /\ pc = "fetching" /\ result # NotYet
  /\ \/ Failed
     \/ /\ Converted
        /\ value' = out
        /\ pc' = "done"
        /\ UNCHANGED <<vars, row>>

Convert ==
  /\ pc # "done"
  /\ myconv_dmap
  /\ UNCHANGED cvars

CInit ==
  /\ pIn = 0 /\ out = <<>> /\ numS = 0 /\ result = NotYet
  /\ row = <<>> /\ value = <<>> /\ status = "none" /\ warned = FALSE
  /\ \/ column = None /\ pc = "converting" /\ \E d \in Descriptors : call \in Calls(d)
     \/ column \in Columns /\ pc = "storing" /\ call = StoreCall(column)
  /\ inLen = Len(call.text)

CNext == Convert \/ StoreRow \/ FetchRow

CSpec == CInit /\ [][CNext]_<<vars, cvars>>

-----------------------------------------------------------------------------
(* Properties of a conversion.                                             *)

First(n) == SubSeq(call.items, 1, n)
Ends(n) == Len(Text(First(n)))
MalformedEnd(items) == items # <<>> /\ items[Len(items)].is # "ok"
OkCount == Len(call.items) - Count(MalformedEnd(call.items))
EndsIn(is) == OkCount < Len(call.items) /\ call.items[Len(call.items)].is = is

(* Conversions of a text that is made of call.items, of which the last one *)
(* may be malformed.  U2U copies bytes and may cut a character, and T2S    *)
(* loses its place behind a surrogate pair.                                *)
ByItems ==
  /\ pc = "converting" /\ call.schema # "U2U"
  /\ ~(call.schema = "T2S" /\ \E i \in 1 .. OkCount : Len(call.items[i].src) = 4)

(* At every turn some characters of the text have been read, all of their  *)
(* bytes, and what has been written is their forms in the other encoding;  *)
(* nothing is said behind a malformed sequence that is let through.        *)
ConvertedSoFar ==
  ByItems => \/ pIn > Ends(OkCount)
             \/ \E n \in 0 .. OkCount : pIn = Ends(n) /\ out = Target(First(n))

(* A conversion fails only at a malformed sequence, and does not pass one; *)
(* it stops before the end of the text only for lack of room.              *)
RefusesExactly ==
  ByItems /\ result # NotYet =>
    /\ result.rc < 0 => pIn = Ends(OkCount) /\ (EndsIn("bad") \/ EndsIn("lenient"))
    /\ result.rc >= 0 /\ HasRoom => ~EndsIn("bad") /\ result.inBytesLeft = 0

(* The caller is told of substitutions exactly when characters have been   *)
(* substituted, but for those that a loop is known to count by chance.     *)
SubstitutionCounted ==
  ByItems /\ result # NotYet /\ result.rc >= 0 /\ result.inBytesLeft = inLen =>
    \A n \in 0 .. OkCount : pIn = Ends(n) =>
      result.numSub \in Surely(First(n)) .. Possibly(First(n))

-----------------------------------------------------------------------------
(* Properties of a column.                                                 *)

(* What is stored for a column stays within the column's bytes in the row  *)
(* that DB2 is given, and what is fetched in the buffer made for it.       *)
InColumn ==
  /\ pc = "storing" => Len(out) <= (IF MultiByte(column) THEN 2 ELSE 1) * column.n
  /\ pc = "fetching" => Len(out) <= call.room

(* A value that was stored without error or warning comes back as it was,  *)
(* but for the spaces at the end of a CHAR.                                *)
RoundTrip ==
  pc = "done" /\ status = "none" /\ ~warned =>
    LET Normal(s) == IF column.varying THEN s ELSE Trimmed(s, column.pad)
    IN  Normal(value) = Normal(Text(column.items))
=============================================================================
