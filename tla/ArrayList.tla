------------------------------ MODULE ArrayList ------------------------------
(***************************************************************************)
(* The keyed array list of src/src/server/arraylist.c, which holds the     *)
(* clients (by descriptor) and the processes (by pid) of the server: two   *)
(* parallel arrays that double when full; removal moves the last element   *)
(* into the hole.  Array indices are 1-based here.                         *)
(***************************************************************************)
EXTENDS Integers, Sequences

CONSTANTS
  Key, Elt,     \* keys, and pointers to elements
  NoDatum,         \* NULL
  Junk,         \* the contents of memory that was allocated and not written
  InitCap,      \* init_list's argument: `parallel', at least 1
  MaxLen        \* bound on the length

\* What the model takes for granted of its constants.
ArrayListAssumption ==
  /\ InitCap \in Nat \ {0} /\ MaxLen \in Nat
  /\ NoDatum \notin Elt /\ Junk \notin Key

VARIABLES
  key, data, len, capacity,   \* the fields of t_list
  found                       \* what the last list_lookup returned

vars == <<key, data, len, capacity, found>>

init_list ==
  /\ capacity = InitCap
  /\ len = 0
  /\ key = [i \in 1 .. InitCap |-> Junk]
  /\ data = [i \in 1 .. InitCap |-> Junk]

Init == init_list /\ found = NoDatum

\* list_lookup_index: the indices that hold k; the code returns the first.
Indices(k) == {i \in 1 .. len : key[i] = k}

IsFirst(i, k) == i \in Indices(k) /\ \A j \in Indices(k) : i <= j

list_lookup(k) ==
  /\ \/ \E i \in 1 .. len : IsFirst(i, k) /\ found' = data[i]
     \/ Indices(k) = {} /\ found' = NoDatum
  /\ UNCHANGED <<key, data, len, capacity>>

\* Faulty variant: the hole is filled with the key of the last element only.
RemoveKeyOnly(k) ==
  /\ \/ \E i \in 1 .. len :
          /\ IsFirst(i, k)
          /\ len' = len - 1
          /\ key' = [key EXCEPT ![i] = key[len]]
          /\ UNCHANGED data
     \/ Indices(k) = {} /\ UNCHANGED <<key, data, len>>
  /\ UNCHANGED <<capacity, found>>

list_remove(k) ==
  /\ \/ \E i \in 1 .. len :
          /\ IsFirst(i, k)
          /\ len' = len - 1
          /\ key' = [key EXCEPT ![i] = key[len]]
          /\ data' = [data EXCEPT ![i] = data[len]]
     \/ Indices(k) = {} /\ UNCHANGED <<key, data, len>>
  /\ UNCHANGED <<capacity, found>>

\* list_resize doubles the arrays; realloc keeps their contents.
NewCap == IF len = capacity THEN capacity * 2 ELSE capacity

Grown(a) == [i \in 1 .. NewCap |-> IF i <= capacity THEN a[i] ELSE Junk]

\* The callers append a key only while it is not in the list: a descriptor or a
\* pid is not given out again before it is released.
list_append(k, e) ==
  /\ len < MaxLen
  /\ Indices(k) = {}
  /\ capacity' = NewCap
  /\ key' = [Grown(key) EXCEPT ![len + 1] = k]
  /\ data' = [Grown(data) EXCEPT ![len + 1] = e]
  /\ len' = len + 1
  /\ UNCHANGED found

Next == \E k \in Key : list_lookup(k) \/ list_remove(k) \/ \E e \in Elt : list_append(k, e)

Spec == Init /\ [][Next]_vars

-----------------------------------------------------------------------------
\* The arrays have capacity slots, of which the first len hold keys and elements.
TypeOK ==
  /\ capacity \in Nat \ {0}
  /\ len \in 0 .. capacity
  /\ key \in [1 .. capacity -> Key \cup {Junk}]
  /\ data \in [1 .. capacity -> Elt \cup {Junk}]
  /\ found \in Elt \cup {NoDatum}
  /\ \A i \in 1 .. len : key[i] \in Key /\ data[i] \in Elt

\* No key is in the list twice, so that list_remove leaves none behind.
KeysDistinct == \A i, j \in 1 .. len : key[i] = key[j] => i = j

\* The map the arrays stand for.
Map == [k \in Key |-> IF \E i \in 1 .. len : key[i] = k
                        THEN data[CHOOSE i \in 1 .. len : key[i] = k] ELSE NoDatum]

Abstract == INSTANCE Table WITH map <- Map

\* The list is a map: a removal loses no other element, wherever the hole is.
ImplementsTable == Abstract!Spec
=============================================================================
