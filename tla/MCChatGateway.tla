--------------------------- MODULE MCChatGateway ---------------------------
(***************************************************************************)
(* The small gateway TLC explores: two instances, the two seeded users,    *)
(* and one message of the first user to the second.                        *)
(***************************************************************************)
EXTENDS ChatGateway

MCUsers == {"david", "contact"}
MCMessages == {"m1"}
MCSenderOf == [m \in MCMessages |-> "david"]

=============================================================================
