---------------------------- MODULE MCIdentities ----------------------------
(* Small instances of Identities for TLC.                                    *)
EXTENDS Identities

B1 == [uid |-> "u1", key |-> "k1", insert |-> TRUE, whole |-> FALSE, valid |-> TRUE,
       force |-> FALSE]
Bodies1 == {B1, [B1 EXCEPT !.uid = "u2", !.insert = FALSE, !.force = TRUE],
            [B1 EXCEPT !.whole = TRUE, !.valid = FALSE]}

FirstUids == [i \in Id |-> IF i = 2 THEN "u2" ELSE "u1"]

OneType == [n \in Number |-> "A"]
TwoTypes == [n \in Number |-> IF n = 2 THEN "B" ELSE "A"]
ThreeTypes == [n \in Number |-> IF n = 1 THEN "A" ELSE IF n = 2 THEN "B" ELSE "LOCAL"]
Homes == {OneType, TwoTypes, ThreeTypes}
BornAll == [i \in Id |-> IF i \in Number THEN i ELSE None]
BornSome == [i \in Id |-> IF i \in Number \ {3} THEN i ELSE None]

Mix(ops, requests, typed, born) ==
    {[ops |-> ops, requests |-> requests, typed |-> t, home |-> h, born |-> born] :
       t \in typed, h \in Homes}

Mixes == Mix({"upsert", "fusion", "edit"}, 3, BOOLEAN, BornAll)
         \cup Mix({"upsert", "fusion", "cancel"}, 3, BOOLEAN, BornSome)
         \cup Mix({"fusion", "cancel"}, 4, {TRUE}, BornAll)
         \cup Mix({"fusion", "ignore", "unignore", "cancel"}, 3, {TRUE}, BornAll)
         \cup Mix({"edit", "delete", "upsert", "ignore"}, 3, {TRUE}, BornSome)
=============================================================================
