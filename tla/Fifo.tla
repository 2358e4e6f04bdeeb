-------------------------------- MODULE Fifo --------------------------------
(***************************************************************************)
(* What a client of src/src/server/queue.h may rely on: a first-in         *)
(* first-out queue.  queue.h describes it as "push a new element to the    *)
(* end of the queue" and "remove the first element of the queue and return *)
(* it".  Queue.tla, the circular array of queue.c, is shown to implement   *)
(* this specification.                                                     *)
(***************************************************************************)
EXTENDS Sequences

CONSTANT Elt          \* the elements that may be pushed

VARIABLES items,      \* the elements of the queue, oldest first
          popped      \* the element the last queue_pop returned

vars == <<items, popped>>

Init == items = << >> /\ popped \notin Elt

Push(elt) == items' = Append(items, elt) /\ UNCHANGED popped

Pop ==
  /\ items # << >>
  /\ popped' = Head(items)
  /\ items' = Tail(items)

Next == Pop \/ \E elt \in Elt : Push(elt)

Spec == Init /\ [][Next]_vars
=============================================================================
