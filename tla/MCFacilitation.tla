--------------------------- MODULE MCFacilitation ---------------------------
(***************************************************************************)
(* Instances of Facilitation for TLC.                                      *)
(***************************************************************************)
EXTENDS Facilitation, FiniteSetsExt, TLC

CONSTANTS u1, u2, u3, o1, o2, o3, hearth, porch

MCUsers == {u1, u2, u3}
MCChannels == {hearth, porch}
MCOffshootIds == {o1, o2, o3}

In(channels, facility) == [c \in MCChannels |-> IF c \in channels THEN {facility} ELSE {}]

(* One facility at a time: they share nothing but the room.  The lantern and the
   stage belong to a room, so one room has them; an assignment to a side fire is
   per user, so both rooms do.  Two waiting handlers let an announcement fall into
   the wait of a join, three users make a queue behind a holder. *)
MCScopes ==
  { [uses |-> In({hearth}, "lantern"), users |-> MCUsers, tasks |-> 1, modeChanges |-> 0],
    [uses |-> In(MCChannels, "offshoot"), users |-> MCUsers, tasks |-> 2, modeChanges |-> 0],
    [uses |-> In({hearth}, "stage"), users |-> MCUsers, tasks |-> 1, modeChanges |-> 0] }
  \cup { [uses |-> In({hearth}, "stage"), users |-> pair, tasks |-> 2, modeChanges |-> 1] :
           pair \in kSubset(2, MCUsers) }
  \cup { [uses |-> In({hearth}, "lantern"), users |-> pair, tasks |-> 2, modeChanges |-> 0] :
           pair \in kSubset(2, MCUsers) }

(* The closed forms of Lists select what the definitions by recursion do. *)
ASSUME ListsAgree ==
  \A n \in 0..3, S \in SUBSET MCUsers : \A s \in [1..n -> MCUsers] :
    /\ Dropping(s, S) = SelectSeq(s, LAMBDA u : u \notin S)
    /\ Only(s, S) = SelectSeq(s, LAMBDA u : u \in S)
    /\ FirstPlace(s, S) = SelectInSeq(s, LAMBDA u : u \in S)

MCSymmetry == Permutations(MCUsers) \cup Permutations(MCOffshootIds)
=============================================================================
