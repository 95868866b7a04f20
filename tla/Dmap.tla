-------------------------------- MODULE Dmap --------------------------------
(***************************************************************************)
(* myconv_dmap, the engine's replacement for iconv: twenty loops, one for  *)
(* each pair of kinds of encoding, that convert a text between MySQL's     *)
(* character set and DB2's.  A step of the model is one turn of the loop,  *)
(* which converts one character.                                           *)
(*                                                                         *)
(* In the name of a loop, S is a single-byte code page, D a double-byte    *)
(* one, E an EUC one (with the single shifts 0x8E and 0x8F), U is UCS-2, T *)
(* UTF-16 and 8 UTF-8.  Bytes are numbers and 16-bit units are two bytes,  *)
(* the high one first; char is unsigned, as it is on IBM i.  The tables    *)
(* that dmap_open fills with the help of the system's iconv are operators, *)
(* whose first argument is the descriptor they belong to.                  *)
(*                                                                         *)
(* Left out: the count of substitutions of a conversion that fails, which  *)
(* no caller looks at, and how large a positive return value is, which no  *)
(* caller tells from 0.  A definition named Name_Variant is Name with a    *)
(* plausible mistake in it; no specification uses it.                      *)
(***************************************************************************)
EXTENDS Integers, Sequences

CONSTANTS
  S2S(_, _),      (* byte -> byte, 0 if undefined                          *)
  D12U(_, _),     (* byte -> unit (as a number), 0 if a lead or undefined  *)
  D22U(_, _, _),  (* lead and second byte -> unit, 0 if undefined          *)
  E02U(_, _),     (* byte without a shift -> unit, 0 if a lead             *)
  E12U(_, _, _),  (* two bytes -> unit                                     *)
  E22U1(_, _), E22U(_, _, _),   (* one or two bytes after 0x8E -> unit     *)
  E32U1(_, _), E32U(_, _, _),   (* one or two bytes after 0x8F -> unit     *)
  U2S(_, _),      (* unit -> byte, 0 if undefined                          *)
  U2D(_, _),      (* unit -> two bytes, the second 0 if there is only one  *)
  U2M2(_, _),     (* the same for an EUC page, <<0, 0>> if there is none   *)
  U2M3(_, _),     (* unit -> three bytes of an EUC page, or <<0, 0, 0>>    *)
  Descriptors,    (* bound: the conversions opened, schema and cd          *)
  Calls(_)        (* bound: the calls with a descriptor                    *)

Schemas == {"S2S", "S2U", "S28", "D2U", "D28", "E2U", "E28",
            "U2S", "T2S", "82S", "U2D", "T2D", "82D", "U2E", "T2E", "82E",
            "82U", "U28", "T28", "U2U"}

ASSUME DescriptorsAssumption == \A d \in Descriptors : d.schema \in Schemas
ASSUME CallsAssumption ==
  \A d \in Descriptors : \A c \in Calls(d) :
    c.text \in Seq(0 .. 255) /\ c.room \in Nat /\ c.schema = d.schema /\ c.cd = d.cd

VARIABLES
  call,      (* the descriptor and the arguments                           *)
  pIn,       (* bytes of the text that pIn has passed                      *)
  inLen,     (* inLen: bytes that are left, by the loop's count            *)
  out,       (* bytes written between *outBuf and pOut                     *)
  numS,      (* characters substituted                                     *)
  result     (* what the call returned, NotYet inside the loop             *)

vars == <<call, pIn, inLen, out, numS, result>>

(* A call: schema, the descriptor cd (subS, subD, srcSubS, srcSubD,        *)
(* fromCcsid, toCcsid), the text, the room behind *outBuf, and for the     *)
(* properties the characters the text is made of (items).                  *)
NotYet == [rc |-> 1]

-----------------------------------------------------------------------------
(* What a turn of the loop does.  "go": pIn moves on by move, inLen falls  *)
(* by less, bytes are written and subs substitutions counted.  "error" and *)
(* "end" leave the loop with -1 and 0; the text that is reported as left   *)
(* begins at pIn + move and has inLen - less bytes.                        *)

Put(n, bytes, subs) ==
  [kind |-> "go", move |-> n, less |-> n, bytes |-> bytes, subs |-> subs, errno |-> "none"]
StopAfter(move, less, e) ==
  [kind |-> "error", move |-> move, less |-> less, bytes |-> <<>>, subs |-> 0, errno |-> e]
Stop(e) == StopAfter(0, 0, e)
EndAfter(less, subs) ==
  [kind |-> "end", move |-> 0, less |-> less, bytes |-> <<>>, subs |-> subs, errno |-> "none"]

Count(P) == IF P THEN 1 ELSE 0
Either(P, e, f) == IF P THEN e ELSE f
Ucs2 == 13488            (* CCSIDs                                           *)
EucJP == 33722
EucTW == 964
EucKR == 970
EucCN == 1383
Replacement == 65533
Lead(u) == u \in 55296 .. 56319
Trailing(u) == u \in 56320 .. 57343
Bytes(u) == <<u \div 256, u % 256>>

(* The outcome o with its unit converted by To, an operator on units that  *)
(* gives an outcome; what o has counted is counted too.                    *)
Then(o, To(_)) ==
  IF o.kind # "go" THEN o
  ELSE LET p == To(o.bytes[1] * 256 + o.bytes[2])
       IN  Put(o.move, p.bytes, o.subs + p.subs)

-----------------------------------------------------------------------------
(* Single-byte code pages.  r is the text from pIn on.                     *)

DMAP_S2S(cd, r) ==
  IF r[1] = 0 THEN Put(1, <<0>>, 0)
  ELSE IF S2S(cd, r[1]) = 0 THEN Stop("EILSEQ")
  ELSE Put(1, <<S2S(cd, r[1])>>, Count(S2S(cd, r[1]) = cd.subS /\ r[1] # cd.srcSubS))

(* An undefined byte is refused without setting errno.                     *)
DMAP_S2U(cd, r) ==
  IF r[1] = 0 THEN Put(1, <<0, 0>>, 0)
  ELSE IF D12U(cd, r[1]) = 0 THEN Stop("unset")
  ELSE Put(1, Bytes(D12U(cd, r[1])), Count(D12U(cd, r[1]) = 26 /\ r[1] # cd.srcSubS))

(* A unit in UTF-8; a lead surrogate becomes U+FFFD except in U28 and T28. *)
To8(u) ==
  LET hi == u \div 256
      lo == u % 256
  IN  IF u < 128 THEN <<u>>
      ELSE IF u < 2048 THEN <<((u \div 64) % 32) + 192, (lo % 64) + 128>>
      ELSE <<hi \div 16 + 224, ((((hi * 4) % 256) + lo \div 64) % 64) + 128, (lo % 64) + 128>>
PutPlain8(u) == Put(0, To8(u), 0)
PutUtf8(u) == Put(0, IF Lead(u) THEN <<239, 191, 189>> ELSE To8(u), 0)

DMAP_S28(cd, r) ==
  IF r[1] # 0 /\ D12U(cd, r[1]) = 0 THEN Stop("EILSEQ") ELSE Then(DMAP_S2U(cd, r), PutUtf8)

-----------------------------------------------------------------------------
(* Double-byte code pages.                                                 *)

(* Bytes that begin no character, so that more text would not help.        *)
NeverLeadD(ccsid) ==
  {128, 255} \cup
  CASE ccsid = 943  -> {133, 134, 160, 235, 236, 239, 253, 254}
    [] ccsid = 932  -> {133, 134, 135} \cup 235 .. 239
    [] ccsid = 1381 -> (133 .. 139) \cup (170 .. 175) \cup (248 .. 254)
    [] OTHER        -> {}

FromD(cd, r, oneByte, twoBytes) ==
  IF r[1] = 0 THEN Put(1, <<0, 0>>, 0)
  ELSE IF D12U(cd, r[1]) # 0
       THEN Put(1, Bytes(D12U(cd, r[1])), Count(D12U(cd, r[1]) = 26 /\ oneByte # cd.srcSubS))
  ELSE IF Len(r) < 2
       THEN Stop(Either(r[1] \in NeverLeadD(cd.fromCcsid), "EILSEQ", "EINVAL"))
  ELSE IF D22U(cd, r[1], r[2]) = 0 THEN Stop("EILSEQ")
  ELSE Put(2, Bytes(D22U(cd, r[1], r[2])),
           Count(D22U(cd, r[1], r[2]) = Replacement /\ twoBytes # cd.srcSubD))

DMAP_D2U(cd, r) == FromD(cd, r, r[1], IF Len(r) < 2 THEN 0 ELSE r[1] * 256 + r[2])

(* D28 compares the converted unit, not the source, with the source's      *)
(* substitution characters.                                                *)
DMAP_D28(cd, r) == Then(FromD(cd, r, 26, Replacement), PutUtf8)

-----------------------------------------------------------------------------
(* EUC code pages.                                                         *)

NeverLeadE(ccsid) ==
  CASE ccsid = EucJP -> {160, 255} \cup (169 .. 175)
    [] ccsid = EucKR -> {160, 173, 174, 175, 255}
    [] ccsid = EucTW -> {160, 195, 254, 255} \cup (170 .. 193)
    [] ccsid = EucCN -> {160, 255}
    [] OTHER         -> {}

(* After a single shift the source's substitution character is compared    *)
(* with the shift and the byte behind it.                                  *)
PutShifted(cd, r, u) == Put(3, Bytes(u), Count(u = Replacement /\ r[1] * 256 + r[2] # cd.srcSubD))

InEuc(b) == b >= 160

AfterSS2(cd) == Either(cd.fromCcsid = EucTW, "EINVAL", "EILSEQ")
E2U_SS2(cd, r) ==
  IF Len(r) < 2 THEN Stop(Either(cd.fromCcsid \in {EucJP, EucTW}, "EINVAL", "EILSEQ"))
  ELSE IF ~InEuc(r[2]) THEN Stop(AfterSS2(cd))
  ELSE IF E22U1(cd, r[2]) # 0 THEN Put(2, Bytes(E22U1(cd, r[2])), 0)
  ELSE IF Len(r) < 3 \/ ~InEuc(r[3]) \/ E22U(cd, r[2], r[3]) = 0 THEN Stop(AfterSS2(cd))
  ELSE PutShifted(cd, r, E22U(cd, r[2], r[3]))

AfterSS3(cd) == Either(cd.fromCcsid = EucJP, "EINVAL", "EILSEQ")
E2U_SS3(cd, r) ==
  IF Len(r) < 2 THEN Stop(AfterSS3(cd))
  ELSE IF ~InEuc(r[2])
       THEN Stop(Either(\/ cd.fromCcsid \in {EucKR, EucTW, EucCN}
                        \/ (cd.fromCcsid = EucJP /\ Len(r) >= 3), "EILSEQ", "EINVAL"))
  ELSE IF E32U1(cd, r[2]) # 0 THEN Put(2, Bytes(E32U1(cd, r[2])), 0)
  ELSE IF Len(r) < 3 THEN Stop(AfterSS3(cd))
  ELSE IF ~InEuc(r[3]) \/ E32U(cd, r[2], r[3]) = 0 THEN Stop("EILSEQ")
  ELSE PutShifted(cd, r, E32U(cd, r[2], r[3]))

E2U_SS1(cd, r) ==
  IF Len(r) < 2 THEN Stop(Either(r[1] \in NeverLeadE(cd.fromCcsid), "EILSEQ", "EINVAL"))
  ELSE IF ~InEuc(r[1]) \/ ~InEuc(r[2]) \/ E12U(cd, r[1], r[2]) = 0 THEN Stop("EILSEQ")
  ELSE Put(2, Bytes(E12U(cd, r[1], r[2])),
           Count(E12U(cd, r[1], r[2]) = Replacement /\ r[1] * 256 + r[2] # cd.srcSubD))

DMAP_E2U(cd, r) ==
  IF r[1] = 0 THEN Put(1, <<0, 0>>, 0)
  ELSE IF r[1] = 142 THEN E2U_SS2(cd, r)
  ELSE IF r[1] = 143 THEN E2U_SS3(cd, r)
  ELSE IF E02U(cd, r[1]) = 0 THEN E2U_SS1(cd, r)
  ELSE Put(1, Bytes(E02U(cd, r[1])), Count(E02U(cd, r[1]) = 26 /\ r[1] # cd.srcSubS))

DMAP_E28(cd, r) == Then(DMAP_E2U(cd, r), PutUtf8)

-----------------------------------------------------------------------------
(* From units to code pages.  beyond is what the memory holds behind the   *)
(* bytes written so far, which is read by mistake where it is named.       *)

ToS_Uncounted(cd, u) ==
  IF u = 0 THEN Put(0, <<0>>, 0)
  ELSE IF U2S(cd, u) = 0 THEN Put(0, <<cd.subS>>, 1)
  ELSE Put(0, <<U2S(cd, u)>>, 0)

ToS(cd, u) ==
  IF u = 0 THEN Put(0, <<0>>, 0)
  ELSE IF U2S(cd, u) = 0 THEN Put(0, <<cd.subS>>, 1)
  ELSE Put(0, <<U2S(cd, u)>>, Count(U2S(cd, u) = cd.subS /\ u # cd.srcSubS))

(* 82D compares the byte it has written and the unit with the substitution *)
(* characters; U2D and T2D the byte behind it and twice the unit.          *)
ToD(cd, u, single, unit) ==
  LET d == U2D(cd, u) IN
  IF u = 0 THEN Put(0, <<0>>, 0)
  ELSE IF d[2] = 0 THEN Put(0, <<d[1]>>, Count(single = cd.subS /\ unit # cd.srcSubS))
  ELSE Put(0, <<d[1], d[2]>>, Count(d = Bytes(cd.subD) /\ u # cd.srcSubD))

ToDShifted(cd, u, beyond) == ToD(cd, u, beyond, 2 * u)

(* Only the table of single bytes below 0x100 is asked first.  The counts  *)
(* of single bytes of the second table compare the byte behind.            *)
ToE(cd, u, beyond) ==
  LET two == U2M2(cd, u)
      three == U2M3(cd, u)
  IN  IF u = 0 THEN Put(0, <<0>>, 0)
      ELSE IF u < 256 /\ U2S(cd, u) # 0
           THEN Put(0, <<U2S(cd, u)>>, Count(U2S(cd, u) = cd.subS /\ u # cd.srcSubS))
      ELSE IF two[1] # 0
           THEN IF two[2] = 0 THEN Put(0, <<two[1]>>, Count(beyond = cd.subS /\ u # cd.srcSubS))
                ELSE Put(0, <<two[1], two[2]>>, Count(two = Bytes(cd.subD) /\ u # cd.srcSubD))
      ELSE IF three[1] # 0 THEN Put(0, <<three[1], three[2], three[3]>>, 0)
      ELSE Put(0, Bytes(cd.subD), 1)

-----------------------------------------------------------------------------
(* From UCS-2 and UTF-16.  A single byte at the end is no unit.            *)

PutUnit(r) == Put(2, <<r[1], r[2]>>, 0)
UnitAt(r, i) == r[i] * 256 + r[i + 1]

FromU(r, To(_)) == IF Len(r) = 1 THEN Stop("EINVAL") ELSE Then(PutUnit(r), To)

DMAP_U2S(cd, r) == FromU(r, LAMBDA u : ToS(cd, u))
DMAP_U2D(cd, r, beyond) == FromU(r, LAMBDA u : ToDShifted(cd, u, beyond))
DMAP_U2E(cd, r, beyond) == FromU(r, LAMBDA u : ToE(cd, u, beyond))
DMAP_U28(r) == FromU(r, PutPlain8)

(* UTF-16 to a double-byte or EUC page: surrogates are refused, and a      *)
(* single byte at the end counts as substituted.                           *)
FromT(r, To(_)) ==
  IF Len(r) = 1 THEN EndAfter(1, 1)
  ELSE IF Lead(UnitAt(r, 1)) THEN StopAfter(2, 2, "EINVAL")
  ELSE IF Trailing(UnitAt(r, 1)) THEN StopAfter(0, 1, "EINVAL")
  ELSE Then(PutUnit(r), To)

DMAP_T2D(cd, r, beyond) == FromT(r, LAMBDA u : ToDShifted(cd, u, beyond))
DMAP_T2E(cd, r, beyond) == FromT(r, LAMBDA u : ToE(cd, u, beyond))

(* To a single-byte page a pair is substituted.  pIn moves on by four and  *)
(* again by two, inLen falls only once.                                    *)
DMAP_T2S(cd, r) ==
  IF Len(r) = 1 THEN EndAfter(1, 1)
  ELSE IF Trailing(UnitAt(r, 1)) THEN StopAfter(0, 1, "EINVAL")
  ELSE IF Lead(UnitAt(r, 1))
       THEN IF Len(r) < 4 THEN StopAfter(2, 2, "EINVAL")
            ELSE IF Trailing(UnitAt(r, 3)) THEN [Put(6, <<cd.subS>>, 1) EXCEPT !.less = 2]
            ELSE StopAfter(0, 1, "EINVAL")
  ELSE Then(PutUnit(r), LAMBDA u : ToS(cd, u))

(* A pair in UTF-8: uuuuu is the plane, wwww is uuuuu - 1.                 *)
PairTo8_Plane(r) ==
  LET wwww == ((r[1] * 256 + r[2]) \div 64) % 16
  IN  <<wwww \div 4 + 240,
        (wwww % 4) * 16 + 128 + (r[2] % 64) \div 4,
        (r[2] % 4) * 16 + 128 + (r[3] % 4) * 4 + r[4] \div 64,
        (r[4] % 64) + 128>>

PairTo8(r) ==
  LET uuuuu == (((r[1] * 256 + r[2]) \div 64) % 16) + 1
  IN  <<uuuuu \div 4 + 240,
        (uuuuu % 4) * 16 + 128 + (r[2] % 64) \div 4,
        (r[2] % 4) * 16 + 128 + (r[3] % 4) * 4 + r[4] \div 64,
        (r[4] % 64) + 128>>

DMAP_T28_CountsOnce(r) ==
  IF Len(r) = 1 THEN EndAfter(1, 0)
  ELSE IF Lead(UnitAt(r, 1)) /\ Len(r) >= 4 /\ Trailing(UnitAt(r, 3))
       THEN [Put(4, PairTo8(r), 0) EXCEPT !.less = 2]
  ELSE Then(PutUnit(r), PutPlain8)

DMAP_T28(r) ==
  IF Len(r) = 1 THEN EndAfter(1, 0)
  ELSE IF Lead(UnitAt(r, 1))
       THEN IF Len(r) < 4 \/ ~Trailing(UnitAt(r, 3)) THEN StopAfter(2, 2, "EINVAL")
            ELSE Put(4, PairTo8(r), 0)
  ELSE IF Trailing(UnitAt(r, 1)) THEN StopAfter(0, 1, "EINVAL")
  ELSE Then(PutUnit(r), PutPlain8)

-----------------------------------------------------------------------------
(* From UTF-8.                                                             *)

Trail(b) == b \in 128 .. 191
TrailsUpto(r, n) == \A i \in 2 .. n : i <= Len(r) => Trail(r[i])

(* The first byte tells one, two or three bytes; a unit in two bytes.      *)
Ascii(b) == b < 128
LeadOf2(b) == b \in 192 .. 223
LeadOf3(b) == b \in 224 .. 239
Unit2(r) == <<(r[1] % 32) \div 4, ((r[1] * 64) % 256) + (r[2] % 64)>>
Unit3(r) == <<((r[1] * 16) % 256) + (r[2] % 64) \div 4, ((r[2] * 64) % 256) + (r[3] % 64)>>
Overlong2(r) == r[1] \in {192, 193}
Overlong3_Allowed(r) == FALSE
Overlong3(r) == r[1] = 224 /\ r[2] < 160

From8(r) ==
  IF Ascii(r[1]) THEN Put(1, <<0, r[1]>>, 0)
  ELSE IF LeadOf2(r[1])
       THEN IF Len(r) < 2 THEN Stop("EINVAL")
            ELSE IF Overlong2(r) \/ ~Trail(r[2]) THEN Stop("EILSEQ")
            ELSE Put(2, Unit2(r), 0)
  ELSE IF LeadOf3(r[1])
       THEN IF Len(r) < 3 THEN Stop(Either(TrailsUpto(r, 2), "EINVAL", "EILSEQ"))
            ELSE IF ~TrailsUpto(r, 3) \/ Overlong3(r) THEN Stop("EILSEQ")
            ELSE Put(3, Unit3(r), 0)
  ELSE Stop("EILSEQ")

(* Four bytes as a pair of surrogates; b1 is the first byte.               *)
PairOf8(b1, r) ==
  LET wwww == (b1 % 8) * 4 + (r[2] % 64) \div 16 - 1
  IN  <<(wwww % 16) \div 4 + 216,
        ((wwww * 64) % 256) + (r[2] % 16) * 4 + ((r[3] \div 16) % 4),
        ((r[3] \div 4) % 4) + 220,
        ((r[3] * 64) % 256) + (r[4] % 64)>>

(* 0xF8 to 0xFC are taken for 0xF0 to 0xF4 by 82S and 82U.                 *)
Masked(b) == IF b >= 248 THEN b - 8 ELSE b

TooShort(r) == Stop(Either(TrailsUpto(r, 3), "EINVAL", "EILSEQ"))
NoSequence(r) == Stop(Either(Len(r) > 1 /\ ~TrailsUpto(r, 4), "EILSEQ", "EINVAL"))

(* Four bytes that begin with 0xF0 to 0xF4, or are taken for such.         *)
Four8(b1, r, outcome) ==
  IF Len(r) < 4 THEN TooShort(r)
  ELSE IF ~TrailsUpto(r, 4) \/ (b1 = 240 /\ r[2] < 144) THEN Stop("EILSEQ")
  ELSE outcome

DMAP_82U(cd, r) ==
  LET b1 == Masked(r[1]) IN
  IF r[1] < 240 THEN From8(r)
  ELSE IF cd.toCcsid = Ucs2 THEN Stop("EILSEQ")
  ELSE IF b1 > 244 THEN NoSequence(r)
  ELSE Four8(b1, r, IF b1 = 244 /\ r[2] > 143 THEN Stop("EINVAL") ELSE Put(4, PairOf8(b1, r), 0))

(* Of the pair only the lead is looked up.                                 *)
DMAP_82S(cd, r) ==
  LET b1 == Masked(r[1])
      Convert(o) == Then(o, LAMBDA u : ToS(cd, u))
  IN  IF r[1] < 240 THEN Convert(From8(r))
      ELSE IF b1 > 244
           THEN IF Len(r) < 4 \/ ~TrailsUpto(r, 4) THEN NoSequence(r)
                ELSE Put(4, <<cd.subS>>, 1)
      ELSE Four8(b1, r, Convert(Put(4, PairOf8(b1, r), 0)))

(* The first byte is 0xF5 or above: some sequences become one substitution *)
(* character, some the other, as iconv has it.                             *)
Strange8(cd, r) ==
  IF Len(r) < 4 \/ ~TrailsUpto(r, 4) \/ (r[1] = 248 /\ r[2] < 144)
  THEN IF r[1] = 248 /\ Len(r) >= 4 THEN Stop("EILSEQ") ELSE NoSequence(r)
  ELSE IF r[2] \in {128, 144, 160, 176} /\ r[3] < 130 THEN Put(4, <<cd.subS>>, 1)
  ELSE Put(4, Bytes(cd.subD), 1)

FourToPage(cd, r) ==
  IF r[1] > 244 THEN Strange8(cd, r) ELSE Four8(r[1], r, Put(4, <<cd.subS>>, 1))

DMAP_82D(cd, r) ==
  IF r[1] < 240 THEN Then(From8(r), LAMBDA u : ToD(cd, u, U2D(cd, u)[1], u))
                ELSE FourToPage(cd, r)

DMAP_82E(cd, r, beyond) ==
  IF r[1] < 240 THEN Then(From8(r), LAMBDA u : ToE(cd, u, beyond)) ELSE FourToPage(cd, r)

-----------------------------------------------------------------------------
(* The loop.                                                               *)

Turn(c, r, beyond) ==
  LET cd == c.cd IN
  CASE c.schema = "S2S" -> DMAP_S2S(cd, r)
    [] c.schema = "S2U" -> DMAP_S2U(cd, r)
    [] c.schema = "S28" -> DMAP_S28(cd, r)
    [] c.schema = "D2U" -> DMAP_D2U(cd, r)
    [] c.schema = "D28" -> DMAP_D28(cd, r)
    [] c.schema = "E2U" -> DMAP_E2U(cd, r)
    [] c.schema = "E28" -> DMAP_E28(cd, r)
    [] c.schema = "U2S" -> DMAP_U2S(cd, r)
    [] c.schema = "T2S" -> DMAP_T2S(cd, r)
    [] c.schema = "82S" -> DMAP_82S(cd, r)
    [] c.schema = "U2D" -> DMAP_U2D(cd, r, beyond)
    [] c.schema = "T2D" -> DMAP_T2D(cd, r, beyond)
    [] c.schema = "82D" -> DMAP_82D(cd, r)
    [] c.schema = "U2E" -> DMAP_U2E(cd, r, beyond)
    [] c.schema = "T2E" -> DMAP_T2E(cd, r, beyond)
    [] c.schema = "82E" -> DMAP_82E(cd, r, beyond)
    [] c.schema = "82U" -> DMAP_82U(cd, r)
    [] c.schema = "U28" -> DMAP_U28(r)
    [] c.schema = "T28" -> DMAP_T28(r)

(* The text from pIn on, inLen bytes by the loop's count: bytes that are   *)
(* not the text's hold anything.                                           *)
Rest(beyond) ==
  [i \in 1 .. inLen |-> IF pIn + i <= Len(call.text) THEN call.text[pIn + i] ELSE beyond]

(* The loops over 16-bit units look for a lonely byte before they look for *)
(* room.  One byte of room is enough to begin a character.                 *)
FromUnits == call.schema \in {"U2S", "U2D", "U2E", "U28", "T2S", "T2D", "T2E", "T28"}
HasRoom_OneMore == Len(out) <= call.room
HasRoom == Len(out) < call.room
Looping == inLen > 0 /\ (HasRoom \/ (FromUnits /\ inLen = 1))

Result(rc, errno, move, less, subs) ==
  [rc |-> rc, errno |-> errno, inBuf |-> pIn + move, inBytesLeft |-> inLen - less,
   numSub |-> subs]

Iterate ==
  /\ result = NotYet /\ call.schema # "U2U" /\ Looping
  /\ \E beyond \in {0, call.cd.subS} :
       LET o == Turn(call, Rest(beyond), beyond) IN
       \/ /\ o.kind = "go"
          /\ pIn' = pIn + o.move
          /\ inLen' = inLen - o.less
          /\ out' = out \o o.bytes
          /\ numS' = numS + o.subs
          /\ UNCHANGED result
       \/ /\ o.kind = "error"
          /\ result' = Result(-1, o.errno, o.move, o.less, 0)
          /\ UNCHANGED <<pIn, inLen, out, numS>>
       \/ /\ o.kind = "end"
          /\ result' = Result(0, "none", o.move, o.less, numS + o.subs)
          /\ UNCHANGED <<pIn, inLen, out, numS>>
  /\ UNCHANGED call

(* Behind the loop: the text is converted, or there is no room.            *)
Leave ==
  /\ result = NotYet /\ call.schema # "U2U" /\ ~Looping
  /\ result' = Result(0, "none", 0, 0, numS)
  /\ UNCHANGED <<call, pIn, inLen, out, numS>>

(* Between UCS-2 and UTF-16 as many bytes are copied as there is room for. *)
DMAP_U2U ==
  LET n == IF inLen <= call.room THEN inLen ELSE call.room IN
  /\ result = NotYet /\ call.schema = "U2U"
  /\ out' = SubSeq(call.text, 1, n)
  /\ pIn' = n
  /\ inLen' = inLen - n
  /\ result' = Result(0, "none", n, n, 0)
  /\ UNCHANGED <<call, numS>>

Begin(c) ==
  /\ call' = c /\ pIn' = 0 /\ inLen' = Len(c.text)
  /\ out' = <<>> /\ numS' = 0 /\ result' = NotYet

myconv_dmap == Iterate \/ Leave \/ DMAP_U2U

Init ==
  /\ \E d \in Descriptors : call \in Calls(d)
  /\ pIn = 0 /\ inLen = Len(call.text) /\ out = <<>> /\ numS = 0 /\ result = NotYet

Next == myconv_dmap

Spec == Init /\ [][Next]_vars

-----------------------------------------------------------------------------

TypeOK ==
  /\ pIn \in Nat /\ inLen \in 0 .. Len(call.text)
  /\ out \in Seq(0 .. 255)
  /\ numS \in Nat
  /\ result = NotYet \/ (/\ result.rc \in {-1, 0}
                        /\ result.errno \in {"none", "unset", "EILSEQ", "EINVAL"}
                        /\ result.inBytesLeft \in 0 .. inLen)

(* The loop's pointer and its count agree, so that no byte is read that is *)
(* not the text's: but for T2S, which moves pIn too far behind a pair.     *)
ReadsInside == call.schema # "T2S" => pIn + inLen = Len(call.text)

(* A character is begun when there is room for a byte of it, so that the   *)
(* last one may run over the end of the room, by three bytes at most.      *)
OverrunBounded == Len(out) <= call.room + 3
=============================================================================
