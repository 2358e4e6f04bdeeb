------------------------------- MODULE Queue --------------------------------
(***************************************************************************)
(* The resizable circular queue of src/src/server/queue.c.  It holds the   *)
(* run requests waiting for a free slot (request.c) and, for every client, *)
(* the messages waiting to be written (writebuf.c).                        *)
(*                                                                         *)
(* The C fields are unsigned ints: every sum is taken modulo UIntMod       *)
(* (2^32 in the build).  MaxLen bounds the number of elements, as memory   *)
(* does; QueueAssumption says how much room that has to leave below        *)
(* UIntMod for the index computations not to wrap.                         *)
(***************************************************************************)
EXTENDS Integers, Sequences

CONSTANTS Elt,        \* the elements that may be pushed
          Junk,       \* what malloc and realloc leave in a slot
          InitCap,    \* the argument of init_queue
          MaxLen,     \* the number of elements at which pushing stops
          UIntMod     \* 2 to the width of an unsigned int

ASSUME QueueAssumption ==
  /\ Junk \notin Elt
  /\ InitCap \in Nat \ {0}
  /\ MaxLen \in Nat
  /\ UIntMod \in Nat \ {0}
  /\ 2 * InitCap <= UIntMod
  /\ 4 * MaxLen <= UIntMod

VARIABLES data, pointer, len, capacity,   \* the fields of t_queue
          popped                          \* what the last queue_pop returned

vars == <<data, pointer, len, capacity, popped>>

\* Unsigned addition and multiplication.
UAdd(a, b) == (a + b) % UIntMod
UMul(a, b) == (a * b) % UIntMod

(***************************************************************************)
(* init_queue: an empty queue over uninitialised storage.                  *)
(***************************************************************************)
Init ==
  /\ data = [i \in 0 .. InitCap - 1 |-> Junk]
  /\ pointer = 0
  /\ len = 0
  /\ capacity = InitCap
  /\ popped = Junk

\* Faulty variant: the element is read after the pointer has moved.
PopAfterMove ==
  /\ len > 0
  /\ popped' = data[UAdd(pointer, 1) % capacity]
  /\ len' = len - 1
  /\ pointer' = UAdd(pointer, 1) % capacity
  /\ UNCHANGED <<data, capacity>>

Pop ==
  /\ len > 0
  /\ popped' = data[pointer]
  /\ len' = len - 1
  /\ pointer' = UAdd(pointer, 1) % capacity
  /\ UNCHANGED <<data, capacity>>

\* simple_push stores elt behind the last element of the array d, with first
\* element p and room for c.
Stored(d, p, c, elt) == [d EXCEPT ![UAdd(p, len) % c] = elt]

(***************************************************************************)
(* resize_queue: double the storage and move the elements between pointer  *)
(* and the old end of the array to the new end.                            *)
(***************************************************************************)
NewCap == UMul(2, capacity)

NewPointer == UAdd(NewCap - capacity, pointer)

ResizedData ==
  [i \in 0 .. NewCap - 1 |->
     IF i \in NewPointer .. NewPointer + (capacity - pointer) - 1
     THEN data[pointer + (i - NewPointer)]
     ELSE IF i < capacity THEN data[i] ELSE Junk]

Push(elt) ==
  /\ len < MaxLen
  /\ IF len = capacity
     THEN /\ capacity' = NewCap
          /\ pointer' = NewPointer
          /\ data' = Stored(ResizedData, NewPointer, NewCap, elt)
     ELSE /\ data' = Stored(data, pointer, capacity, elt)
          /\ UNCHANGED <<pointer, capacity>>
  /\ len' = len + 1
  /\ UNCHANGED popped

Next == Pop \/ \E elt \in Elt : Push(elt)

Spec == Init /\ [][Next]_vars
-----------------------------------------------------------------------------
TypeOK ==
  /\ capacity \in Nat \ {0}
  /\ data \in [0 .. capacity - 1 -> Elt \cup {Junk}]
  /\ pointer \in 0 .. capacity - 1
  /\ len \in 0 .. capacity
  /\ popped \in Elt \cup {Junk}

\* The position in data of the i-th element of the queue (from 0).
Slot(i) == (pointer + i) % capacity

\* The queue the fields stand for, oldest element first.
Items == [i \in 1 .. len |-> data[Slot(i - 1)]]

(***************************************************************************)
(* No slot the queue counts as one of its elements is uninitialised, across*)
(* any number of wrap-arounds and of calls of resize_queue: queue_pop      *)
(* never returns memory that was not pushed.                               *)
(***************************************************************************)
LiveSlotsDefined == \A i \in 0 .. len - 1 : data[Slot(i)] \in Elt

(***************************************************************************)
(* The index arithmetic of queue_pop, simple_push and resize_queue stays   *)
(* below UIntMod: the queue never grows past what memory allows and        *)
(* pointer + len never wraps.                                              *)
(***************************************************************************)
NoWrap == 2 * capacity <= UIntMod

(***************************************************************************)
(* The circular array implements the first-in first-out queue that queue.h *)
(* documents: elements come out in the order they went in, none is lost,   *)
(* duplicated or overwritten, whatever the position of pointer when        *)
(* resize_queue moves the tail of the array.                               *)
(***************************************************************************)
Abstract == INSTANCE Fifo WITH items <- Items

ImplementsFifo == Abstract!Spec
=============================================================================
