---------------------------- MODULE ForeignKeys ------------------------------
(***************************************************************************)
(* How the foreign keys of a table are read back from DB2, as a list       *)
(* (get_foreign_key_list) or as text for SHOW CREATE TABLE                 *)
(* (get_foreign_key_create_info).  DB2 describes all constraints of the    *)
(* table in a space the engine gives it; if they do not fit, it refuses    *)
(* and the engine asks once more with another space.  Nobody keeps the     *)
(* constraints from changing between the two.                              *)
(*                                                                         *)
(* One handler is modelled: calls of several share nothing but the count   *)
(* of uses of the table's share.  The text of a foreign key is as long as  *)
(* its description here; a text that is full may end in the middle of one. *)
(* External: DB2's constraints, in its order, and the programs that change *)
(* them.                                                                   *)
(***************************************************************************)
EXTENDS Naturals, Sequences, FiniteSets

CONSTANTS
  Constraints,   (* bound: constraints there may be                        *)
  Foreign,       (* those which are foreign keys                           *)
  KeyLength,     (* the length of a foreign key; others have length 1      *)
  FirstSpace,    (* the space given first, 5000 bytes                      *)
  MaxText,       (* MAX_FOREIGN_LEN                                        *)
  Lengths        (* bound: what is found in a variable that was not set    *)

VARIABLES
  held,          (* DB2's constraints of the table                         *)
  call,          (* where a call is: [of, at, space]                       *)
  reply,         (* what DB2 answered last: [rc, csts]                     *)
  listed,        (* what the call returned: [keys, full]                    *)
  uses,          (* uses of the share, by the table's open and the call    *)
  disturbed      (* constraints were added between the call's two requests *)

fvars == <<held, call, reply, listed, uses, disturbed>>

ForeignOf(csts) == SelectSeq(csts, LAMBDA c : c \in Foreign)
LengthOf(csts) ==
  LET keys == Len(ForeignOf(csts)) IN keys * KeyLength + (Len(csts) - keys)

Nothing == [keys |-> <<>>, full |-> FALSE]
Replies(space) ==
  {[rc |-> "refused", csts |-> <<>>],
   IF LengthOf(held) <= space THEN [rc |-> "ok", csts |-> held]
   ELSE [rc |-> "QMY_ERR_NEED_MORE_SPACE", csts |-> <<>>]}

-----------------------------------------------------------------------------
FInit ==
  /\ held = <<>> /\ reply = [rc |-> "ok", csts |-> <<>>] /\ listed = Nothing
  /\ call = [of |-> "none", at |-> "idle", space |-> 0]
  /\ uses = 1 /\ disturbed = FALSE

(* get_share, and the space for the first request.                         *)
get_foreign_key(of) ==
  /\ call.at = "idle"
  /\ call' = [of |-> of, at |-> "first", space |-> FirstSpace]
  /\ uses' = uses + 1 /\ disturbed' = FALSE
  /\ UNCHANGED <<held, reply, listed>>

(* db2i_ileBridge::constraints.  It hands the length that is needed on     *)
(* only if DB2 did not refuse.                                             *)
constraints ==
  /\ call.at = "first"
  /\ \E r \in Replies(call.space) :
       /\ reply' = r
       /\ call' = [call EXCEPT !.at = IF r.rc = "QMY_ERR_NEED_MORE_SPACE" THEN "more" ELSE "replied"]
  /\ UNCHANGED <<held, listed, uses, disturbed>>

(* The second request.  neededLen, the length of its space, was set by     *)
(* nobody; a space there is no memory for is refused.                      *)
constraintsAgain ==
  /\ call.at = "more"
  /\ \E neededLen \in Lengths :
       /\ call' = [call EXCEPT !.at = "replied", !.space = neededLen]
       /\ reply' \in Replies(neededLen)
  /\ UNCHANGED <<held, listed, uses, disturbed>>

(* The foreign keys among the constraints: all of them as a list; as text, *)
(* until the text is full.                                                 *)
firstOf(csts) ==
  LET keys == ForeignOf(csts)
      upto(n) == LengthOf(SubSeq(keys, 1, n))
  IN  [keys |-> SubSeq(keys, 1, Cardinality({n \in DOMAIN keys : upto(n) <= MaxText})),
       full |-> \E n \in DOMAIN keys : upto(n) >= MaxText]

(* An answer is given, and free_share.                                     *)
answerCall ==
  /\ call.at = "replied"
  /\ listed' = CASE reply.rc # "ok" -> Nothing
                 [] reply.rc = "ok" /\ call.of = "list" -> [keys |-> ForeignOf(reply.csts), full |-> FALSE]
                 [] OTHER -> firstOf(reply.csts)
  /\ call' = [call EXCEPT !.at = "answered"] /\ uses' = uses - 1
  /\ UNCHANGED <<held, reply, disturbed>>
nextCall ==
  /\ call.at = "answered" /\ call' = [call EXCEPT !.at = "idle"]
  /\ UNCHANGED <<held, reply, listed, uses, disturbed>>

AddConstraint(c) ==
  /\ c \notin {held[k] : k \in DOMAIN held}
  /\ held' = Append(held, c) /\ disturbed' = (disturbed \/ call.at = "more")
  /\ UNCHANGED <<call, reply, listed, uses>>
DropConstraint(c) ==
  /\ c \in {held[k] : k \in DOMAIN held}
  /\ held' = SelectSeq(held, LAMBDA d : d # c)
  /\ UNCHANGED <<call, reply, listed, uses, disturbed>>

FNext ==
  \/ \E of \in {"list", "text"} : get_foreign_key(of)
  \/ constraints \/ constraintsAgain \/ answerCall \/ nextCall
  \/ \E c \in Constraints : AddConstraint(c) \/ DropConstraint(c)

FSpec == FInit /\ [][FNext]_fvars

-----------------------------------------------------------------------------
(* A call whose first space was too small gets the constraints with the    *)
(* second one, unless DB2 refuses or there are more of them meanwhile: the *)
(* comment says of the second space that its length is what is needed      *)
(* (get_foreign_key_create_info, get_foreign_key_list).                    *)
SecondSpaceSuffices ==
  call.at \in {"replied", "answered"} /\ reply.rc = "QMY_ERR_NEED_MORE_SPACE" => disturbed
=============================================================================
