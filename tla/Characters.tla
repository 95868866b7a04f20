----------------------------- MODULE Characters -----------------------------
(***************************************************************************)
(* What the texts are made of that myconv_dmap converts, and what each     *)
(* character should become, after the code pages' tables and Encodings.    *)
(* The loops of Dmap are compared with these definitions.                  *)
(*                                                                         *)
(* An item of a text has the bytes of a character (src), what they become  *)
(* (dst), and how many substitutions may be counted (subs).  "is" tells    *)
(* what must happen: "ok", "bad" (refused), or "lenient" (malformed, but   *)
(* treated as iconv treats it, of which nothing is asked).                 *)
(***************************************************************************)
EXTENDS Dmap, Encodings

CONSTANT Characters   (* bound: the characters of texts, as scalar values  *)

ASSUME CharactersAssumption == \A u \in Characters : IsScalar(u)

(* The bytes of all parts.  (A recursive function: proofs can unfold it.)  *)
Joined(parts) ==
  LET upto[n \in 0 .. Len(parts)] == IF n = 0 THEN <<>> ELSE upto[n - 1] \o parts[n]
  IN  upto[Len(parts)]
Total(counts) ==
  LET upto[n \in 0 .. Len(counts)] == IF n = 0 THEN 0 ELSE upto[n - 1] + counts[n]
  IN  upto[Len(counts)]

Text(items) == Joined([i \in 1 .. Len(items) |-> items[i].src])
Target(items) == Joined([i \in 1 .. Len(items) |-> items[i].dst])
Surely(items) == Total([i \in 1 .. Len(items) |-> Count(0 \notin items[i].subs)])
Possibly(items) == Total([i \in 1 .. Len(items) |-> Count(1 \in items[i].subs)])

-----------------------------------------------------------------------------
(* Characters of code pages: is s one, and which unit is it?               *)

SourceS == {"S2U", "S28"}
SourceD == {"D2U", "D28"}
SourceE == {"E2U", "E28"}
SourceU == {"U2S", "U2D", "U2E", "U28"}
SourceT == {"T2S", "T2D", "T2E", "T28"}
Source8 == {"82S", "82D", "82E", "82U"}
SourcePage == SourceS \cup SourceD \cup SourceE

InS(cd, s) == Len(s) = 1 /\ (s[1] = 0 \/ D12U(cd, s[1]) # 0)
InD(cd, s) == \/ InS(cd, s)
              \/ Len(s) = 2 /\ s[1] # 0 /\ D12U(cd, s[1]) = 0 /\ D22U(cd, s[1], s[2]) # 0

Shifts == {142, 143}
unitOfE(cd, s) ==
  CASE s[1] = 142 -> IF Len(s) = 2 THEN E22U1(cd, s[2]) ELSE E22U(cd, s[2], s[3])
    [] s[1] = 143 -> IF Len(s) = 2 THEN E32U1(cd, s[2]) ELSE E32U(cd, s[2], s[3])
    [] OTHER      -> IF Len(s) = 1 THEN E02U(cd, s[1]) ELSE E12U(cd, s[1], s[2])
InE(cd, s) ==
  \/ s = <<0>>
  \/ /\ s[1] # 0 /\ Len(s) \in (IF s[1] \in Shifts THEN {2, 3} ELSE {1, 2})
     /\ unitOfE(cd, s) # 0
     /\ \A i \in 2 .. Len(s) : InEuc(s[i])
     /\ s[1] \notin Shifts /\ Len(s) = 2 => InEuc(s[1]) /\ E02U(cd, s[1]) = 0
     /\ Len(s) = 3 => unitOfE(cd, SubSeq(s, 1, 2)) = 0

InPage(d, s) ==
  CASE d.schema \in SourceS -> InS(d.cd, s)
    [] d.schema \in SourceD -> InD(d.cd, s)
    [] d.schema \in SourceE -> InE(d.cd, s)
unitOf(d, s) ==
  CASE s = <<0>>          -> 0
    [] s # <<0>> /\ d.schema \in SourceE -> unitOfE(d.cd, s)
    [] s # <<0>> /\ d.schema \notin SourceE ->
         IF Len(s) = 1 THEN D12U(d.cd, s[1]) ELSE D22U(d.cd, s[1], s[2])

(* s is the character u for the descriptor d.  UCS-2 has no supplementary  *)
(* characters, and the loops from UTF-16 to double-byte and EUC pages      *)
(* refuse them.                                                            *)
IsCharacter(d, s, u) ==
  /\ CASE d.schema \in SourcePage      -> InPage(d, s) /\ u = unitOf(d, s)
       [] d.schema \in SourceU \cup SourceT -> s = Utf16(u)
       [] d.schema \in Source8        -> s = Utf8(u)
  /\ Supplementary(u) => /\ d.schema \in {"T2S", "T28"} \cup Source8
                         /\ ~(d.schema = "82U" /\ d.cd.toCcsid = Ucs2)

-----------------------------------------------------------------------------
(* What u becomes: its form in Unicode, or that of whichever table of the  *)
(* page has one, or a substitution character.                              *)

TargetU == {"S2U", "D2U", "E2U", "82U"}
Target8 == {"S28", "D28", "E28", "U28", "T28"}
TargetS == {"U2S", "T2S", "82S"}
TargetD == {"U2D", "T2D", "82D"}
TargetE == {"U2E", "T2E", "82E"}

TableOf(cd, u) ==
  IF u < 256 /\ U2S(cd, u) # 0 THEN "single"
  ELSE IF U2M2(cd, u)[1] # 0 THEN "double"
  ELSE IF U2M3(cd, u)[1] # 0 THEN "triple"
  ELSE "none"

Missing(d, u) ==
  \/ Supplementary(u)
  \/ d.schema \in TargetS /\ U2S(d.cd, u) = 0
  \/ d.schema \in TargetE /\ TableOf(d.cd, u) = "none"

InTwo(b) == IF b[2] = 0 THEN <<b[1]>> ELSE <<b[1], b[2]>>
FormInE(cd, u) ==
  CASE TableOf(cd, u) = "single" -> <<U2S(cd, u)>>
    [] TableOf(cd, u) = "double" -> InTwo(U2M2(cd, u))
    [] TableOf(cd, u) = "triple" -> <<U2M3(cd, u)[1], U2M3(cd, u)[2], U2M3(cd, u)[3]>>
FormInPage(d, u) ==
  IF u = 0 THEN <<0>>
  ELSE IF Missing(d, u)
       THEN IF d.schema \in TargetE /\ ~Supplementary(u) THEN Unit(d.cd.subD) ELSE <<d.cd.subS>>
  ELSE CASE d.schema \in TargetS -> <<U2S(d.cd, u)>>
         [] d.schema \in TargetD -> InTwo(U2D(d.cd, u))
         [] d.schema \in TargetE -> FormInE(d.cd, u)

Form(d, u) ==
  CASE d.schema \in TargetU -> Utf16(u)
    [] d.schema \in Target8    -> Utf8(u)
    [] OTHER                -> FormInPage(d, u)

(* A substitution: the target's substitution character for a character     *)
(* that is not the source's own.                                           *)
Substituted(d, s, u) ==
  IF d.schema \in SourcePage
  THEN IF Len(s) = 1 THEN u = 26 /\ s # <<d.cd.srcSubS>>
                     ELSE u = Replacement /\ s # Unit(d.cd.srcSubD)
  ELSE /\ d.schema \in TargetS \cup TargetD \cup TargetE /\ u # 0
       /\ \/ Missing(d, u)
          \/ Form(d, u) = <<d.cd.subS>> /\ u # d.cd.srcSubS
          \/ Form(d, u) = Unit(d.cd.subD) /\ u # d.cd.srcSubD

(* Where a loop is known to count by chance: D28 compares the unit with    *)
(* the source's substitution characters; behind a single shift, the shift  *)
(* is compared as well, or nothing; U2D and T2D look behind the single     *)
(* byte they have written, and so do the EUC loops for those of the second *)
(* table.                                                                  *)
ByChance(d, s, u) ==
  \/ d.schema = "D28" /\ (u = 26 \/ s = Unit(d.cd.srcSubD))
  \/ /\ d.schema \in SourceE /\ s[1] \in Shifts /\ u = Replacement
     /\ Len(s) = 2 \/ SubSeq(s, 1, 2) = Unit(d.cd.srcSubD)
  \/ d.schema \in {"U2D", "T2D"} /\ u # 0 /\ U2D(d.cd, u)[2] = 0
  \/ /\ d.schema \in TargetE /\ u # 0 /\ ~Supplementary(u)
     /\ TableOf(d.cd, u) = "double" /\ U2M2(d.cd, u)[2] = 0

Counts(d, s, u) == IF ByChance(d, s, u) THEN {0, 1} ELSE {Count(Substituted(d, s, u))}

Converts(d, i) ==
  IF d.schema = "S2S"
  THEN /\ Len(i.src) = 1
       /\ LET b == i.src[1]
              to == IF b = 0 THEN 0 ELSE S2S(d.cd, b)
          IN  /\ b # 0 => to # 0
              /\ i.dst = <<to>>
              /\ Count(b # 0 /\ to = d.cd.subS /\ b # d.cd.srcSubS) \in i.subs
  ELSE \E u \in Characters : /\ IsCharacter(d, i.src, u)
                             /\ i.dst = Form(d, u)
                             /\ Counts(d, i.src, u) \subseteq i.subs

-----------------------------------------------------------------------------
(* Malformed ends of a text.                                               *)

(* What iconv lets through: half a unit at the end of UTF-16, units that   *)
(* are surrogates in UCS-2, and in UTF-8 surrogates in three bytes and     *)
(* four bytes of which the first is too large.                             *)
Tolerated(d, s) ==
  CASE d.schema \in SourceU -> Len(s) % 2 = 0
    [] d.schema \in SourceT -> Len(s) = 1
    [] d.schema \in Source8 ->
         /\ \A i \in 3 .. Len(s) : Continues(s[i])
         /\ \/ Len(s) = 3 /\ s[1] = 237 /\ s[2] \in 160 .. 191
            \/ Len(s) = 4 /\ s[1] = 244 /\ s[2] \in 144 .. 191
            \/ Len(s) = 4 /\ s[1] >= 245 /\ Continues(s[2])
    [] OTHER -> FALSE

(* No beginning of s is a character, nor tolerated; in UTF-16 it begins    *)
(* with a surrogate that has no other, or with any one where pairs are     *)
(* refused; in UCS-2 it is half a unit.                                    *)
NoCharacter(d, s) ==
  CASE d.schema = "S2S" -> s[1] # 0 /\ S2S(d.cd, s[1]) = 0
    [] d.schema \in SourcePage -> \A n \in 1 .. Len(s) : ~InPage(d, SubSeq(s, 1, n))
    [] d.schema \in SourceU -> Len(s) = 1
    [] d.schema \in SourceT ->
         /\ Len(s) >= 2
         /\ \/ Trailing(UnitAt(s, 1))
            \/ /\ Lead(UnitAt(s, 1))
               /\ d.schema \in {"T2D", "T2E"} \/ Len(s) < 4 \/ ~Trailing(UnitAt(s, 3))
    [] d.schema \in Source8 ->
         \/ ~BeginsWellFormed(s) /\ \A n \in 1 .. Len(s) : ~Tolerated(d, SubSeq(s, 1, n))
         \/ d.schema = "82U" /\ d.cd.toCcsid = Ucs2 /\ s[1] >= 240

IsItem(d, i) ==
  /\ i.src \in Seq(0 .. 255) /\ i.src # <<>> /\ i.subs \in {{0}, {1}, {0, 1}}
  /\ i.is \in {"ok", "bad", "lenient"}
  /\ CASE i.is = "ok"      -> Converts(d, i)
       [] i.is = "bad"     -> NoCharacter(d, i.src)
       [] i.is = "lenient" -> Tolerated(d, i.src)

(* Nothing but the end may be malformed: the loop goes no further.         *)
IsText(d, items) ==
  /\ items \in Seq({items[k] : k \in DOMAIN items})
  /\ \A k \in 1 .. Len(items) : IsItem(d, items[k]) /\ (k < Len(items) => items[k].is = "ok")

(* What the proofs take from the tables of a descriptor: entries of two    *)
(* bytes, no double-byte page that has 0xFFFD for its substitution         *)
(* character, and no page with a character for a surrogate.                *)
IsPair(b) == b = <<b[1], b[2]>>
Leads == 55296 .. 56319
TablesFit(d) ==
  /\ d.schema \in SourcePage => d.cd.srcSubD \in Nat
  /\ d.schema = "D28" => d.cd.srcSubD # Replacement
  /\ d.schema \in TargetD => \A u \in Characters : IsPair(U2D(d.cd, u))
  /\ d.schema \in TargetE => \A u \in Characters : IsPair(U2M2(d.cd, u))
  /\ d.schema = "82S" => \A u \in Leads : u # d.cd.srcSubS /\ U2S(d.cd, u) \in {0, d.cd.subS}
=============================================================================
