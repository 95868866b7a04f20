----------------------------- MODULE Encodings -----------------------------
(***************************************************************************)
(* What the Unicode encodings are, independently of the engine's code:     *)
(* the forms of a scalar value in UTF-16 (big-endian, as on IBM i) and in  *)
(* UTF-8 in its shortest form, after the Unicode standard's corrigendum 1, *)
(* to which db2i_myconv.cc refers.  The conversions of Dmap are compared   *)
(* with these definitions.                                                 *)
(***************************************************************************)
EXTENDS Integers, Sequences

IsScalar(u) == u \in Nat /\ u <= 1114111 /\ u \notin 55296 .. 57343
Supplementary(u) == u >= 65536

(* A 16-bit unit as two bytes.                                             *)
Unit(u) == <<u \div 256, u % 256>>

Utf16(u) ==
  IF Supplementary(u)
  THEN Unit(55296 + (u - 65536) \div 1024) \o Unit(56320 + ((u - 65536) % 1024))
  ELSE Unit(u)

(* Six bits of u as a continuation byte, those in front of the last n.     *)
Continuation(u, n) == 128 + ((u \div n) % 64)

Utf8(u) ==
  IF u < 128 THEN <<u>>
  ELSE IF u < 2048 THEN <<192 + u \div 64, Continuation(u, 1)>>
  ELSE IF ~Supplementary(u)
       THEN <<224 + u \div 4096, Continuation(u, 64), Continuation(u, 1)>>
  ELSE <<240 + u \div 262144, Continuation(u, 4096), Continuation(u, 64), Continuation(u, 1)>>

(* s begins with a well-formed sequence (the standard's table 3-7).        *)
Continues(b) == b \in 128 .. 191
BeginsWellFormed(s) ==
  \/ s[1] < 128
  \/ Len(s) >= 2 /\ s[1] \in 194 .. 223 /\ Continues(s[2])
  \/ /\ Len(s) >= 3 /\ Continues(s[3])
     /\ \/ s[1] = 224 /\ s[2] \in 160 .. 191
        \/ s[1] \in (225 .. 236) \cup {238, 239} /\ Continues(s[2])
        \/ s[1] = 237 /\ s[2] \in 128 .. 159
  \/ /\ Len(s) >= 4 /\ Continues(s[3]) /\ Continues(s[4])
     /\ \/ s[1] = 240 /\ s[2] \in 144 .. 191
        \/ s[1] \in 241 .. 243 /\ Continues(s[2])
        \/ s[1] = 244 /\ s[2] \in 128 .. 143
=============================================================================
