---------------------------- MODULE MCHouseEvents ----------------------------
(* Instances of HouseEvents for TLC. *)
EXTENDS HouseEvents, TLC

CONSTANTS u1, w1, w2, w3, c1, c2

OneUser == [c \in Clients |-> u1]
OneOfEach == w1 :> "locked" @@ w2 :> "shared" @@ w3 :> "bare"
=============================================================================
