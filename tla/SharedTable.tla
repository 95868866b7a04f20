----------------------------- MODULE SharedTable -----------------------------
(***************************************************************************)
(* All that the connections of a server share of their tables: the shares  *)
(* with the files and handles behind them (TableShare), the indexes DB2    *)
(* has for them (IndexNames), and, in the share of a table that stays      *)
(* open, the greatest length of a LOB so far (LobRead) and the cached      *)
(* statistics (TableStats).                                                *)
(*                                                                         *)
(* The four read and write nothing of each other, so that a behaviour of   *)
(* all of them shows each a behaviour of its own with pauses in it: one of *)
(* them moves in a behaviour here, and the choice is made at the start.    *)
(***************************************************************************)
EXTENDS TableShare, LobRead, TableStats, IndexNames

VARIABLE part (* the one that moves *)

svars == <<vars, lvars, tvars, ivars, part>>

SInit ==
  /\ part \in {"handles", "LOBs", "statistics", "indexes"}
  /\ Init /\ LInit /\ TInit /\ IInit
  /\ part # "LOBs" => length = 0

SNext ==
  \/ part = "handles" /\ Next /\ UNCHANGED <<lvars, tvars, ivars, part>>
  \/ part = "LOBs" /\ LNext /\ UNCHANGED <<vars, tvars, ivars, part>>
  \/ part = "statistics" /\ TNext /\ UNCHANGED <<vars, lvars, ivars, part>>
  \/ part = "indexes" /\ INext /\ UNCHANGED <<vars, lvars, tvars, part>>

SSpec == SInit /\ [][SNext]_svars
=============================================================================
