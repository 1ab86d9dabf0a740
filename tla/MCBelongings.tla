---- MODULE MCBelongings ----
(* A potion and a sword, both taken in the hand. *)
EXTENDS Belongings
CONSTANTS potion, sword
MCTypes == {potion, sword}
MCUsable == {potion}
MCPart == [t \in MCTypes |-> "hand"]
MCPrice == [t \in MCTypes |-> 1]
MCOffer == [t \in MCTypes |-> 1]
====
