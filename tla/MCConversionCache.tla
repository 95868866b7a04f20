------------------------- MODULE MCConversionCache -------------------------
(* A small instance: two character sets and one that is not in the map, of *)
(* which one has tables to and from the CCSID and one, of double-byte      *)
(* characters, has not.                                                    *)
EXTENDS ConversionCache, TLC

CONSTANTS latin1, sjis, swe7, IBM37, ISO8859, IBM943

MCCharsets == {latin1, sjis, swe7}
MCCcsids == {IBM37}
MCEncodingMap ==
  [cs \in MCCharsets |-> IF cs = latin1 THEN ISO8859 ELSE IF cs = sjis THEN IBM943 ELSE NoPage]
MCScheme ==
  [p \in {IBM37, ISO8859, IBM943, NoPage} |->
     IF p = NoPage THEN "none" ELSE IF p = IBM943 THEN "DBCS" ELSE "SBCS"]

ThreadSymmetry == Permutations(Threads)
=============================================================================
