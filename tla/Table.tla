-------------------------------- MODULE Table --------------------------------
(***************************************************************************)
(* What the server relies on when it uses src/src/server/arraylist.h: a    *)
(* finite map from keys to elements.  arraylist.h describes list_append,   *)
(* list_remove ("If no such data exists, do nothing") and list_lookup      *)
(* ("Return NULL if no such data exists") on it.                           *)
(***************************************************************************)
CONSTANTS Key, Elt, NoDatum

VARIABLES map,      \* key -> element, NoDatum for a key that is not in the table
          found     \* what the last list_lookup returned

vars == <<map, found>>

Init == map = [k \in Key |-> NoDatum] /\ found = NoDatum

Put(k, e) ==
  /\ map[k] = NoDatum
  /\ map' = [map EXCEPT ![k] = e]
  /\ UNCHANGED found

Remove(k) == map' = [map EXCEPT ![k] = NoDatum] /\ UNCHANGED found

Lookup(k) == found' = map[k] /\ UNCHANGED map

Next == \E k \in Key : Remove(k) \/ Lookup(k) \/ \E e \in Elt : Put(k, e)

Spec == Init /\ [][Next]_vars
=============================================================================
