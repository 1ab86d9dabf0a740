------------------------------ MODULE MCSessions ------------------------------
(* Constants of the safety run: connections and users can be exchanged.    *)
EXTENDS Sessions, TLC

\* Bound: once a login was not clean the run goes on only as long as nobody in
\* the game holds an item and none is handed out; of such sessions the property
\* says nothing about items.
ItemsWhileClean ==
  \/ clean
  \/ /\ given = {}
     /\ \A c \in Conns : player[c] # Nobody => bag[c] = {} /\ box[player[c]] = {}

Symmetry == Permutations(Users) \union Permutations(Conns) \union Permutations(Items)
=============================================================================
