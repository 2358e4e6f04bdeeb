---------------------------- MODULE QueueProofs -----------------------------
(***************************************************************************)
(* Proofs that the circular queue of queue.c implements a first-in         *)
(* first-out queue, for every initial capacity and every length.           *)
(***************************************************************************)
EXTENDS Queue, SequenceTheorems, TLAPS

(***************************************************************************)
(* Reduction modulo c of a number below 2 * c, the only kind of number     *)
(* queue.c reduces.                                                        *)
(***************************************************************************)
\* A number below the divisor is its own remainder.
LEMMA ModSmall ==
  ASSUME NEW c \in Nat \ {0}, NEW x \in 0 .. c - 1
  PROVE  x % c = x
OBVIOUS

\* Wrapping around once.
LEMMA ModOnce ==
  ASSUME NEW c \in Nat \ {0}, NEW x \in Nat, c <= x, x < c + c
  PROVE  x % c = x - c
OBVIOUS

(***************************************************************************)
(* The inductive invariant.  LiveSlotsDefined alone is not inductive: that *)
(* resize_queue keeps the live slots needs pointer and len to be in range  *)
(* (TypeOK) and its sums not to wrap (NoWrap).                             *)
(***************************************************************************)
IInv == TypeOK /\ LiveSlotsDefined /\ NoWrap

\* The slot of an element, with the modulo resolved.
LEMMA SlotValue ==
  ASSUME TypeOK, NEW i \in 0 .. capacity
  PROVE  /\ Slot(i) = IF pointer + i < capacity THEN pointer + i
                                               ELSE pointer + i - capacity
         /\ Slot(i) \in 0 .. capacity - 1
<1>1. CASE pointer + i < capacity
  BY <1>1, ModSmall DEF TypeOK, Slot
<1>2. CASE ~(pointer + i < capacity)
  <2>1. pointer + i \in Nat /\ capacity <= pointer + i /\ pointer + i < capacity + capacity
    BY <1>2 DEF TypeOK
  <2>2. (pointer + i) % capacity = (pointer + i) - capacity
    BY <2>1, ModOnce, ZenonT(40) DEF TypeOK
  <2> QED
    BY <1>2, <2>1, <2>2 DEF TypeOK, Slot
<1> QED
  BY <1>1, <1>2

\* What the arithmetic of resize_queue computes when the queue may still grow.
LEMMA ResizeValues ==
  ASSUME TypeOK, NoWrap, len = capacity, len < MaxLen
  PROVE  NewCap = 2 * capacity /\ NewPointer = capacity + pointer
<1>1. 2 * capacity \in 0 .. UIntMod - 1 /\ 2 * capacity - capacity = capacity
  BY QueueAssumption DEF TypeOK
<1>2. NewCap = 2 * capacity
  BY <1>1, ModSmall, QueueAssumption DEF NewCap, UMul
<1>3. capacity + pointer \in 0 .. UIntMod - 1
  BY <1>1, QueueAssumption DEF TypeOK
<1> QED
  BY <1>1, <1>2, <1>3, ModSmall, QueueAssumption DEF NewPointer, UAdd

\* Pushing on a queue that is not full.
LEMMA PushRoom ==
  ASSUME IInv, NEW elt \in Elt, Push(elt), len # capacity
  PROVE  /\ IInv'
         /\ \A i \in 0 .. len - 1 : data'[Slot(i)'] = data[Slot(i)]
         /\ \A i \in Nat : i = len => data'[Slot(i)'] = elt
<1> USE DEF IInv
<1>1. /\ len \in 0 .. capacity - 1 /\ pointer' = pointer
      /\ capacity' = capacity /\ len' = len + 1 /\ popped' = popped
      /\ data' = Stored(data, pointer, capacity, elt)
  BY DEF Push, TypeOK
<1>2. UAdd(pointer, len) = pointer + len
  <2>1. pointer + len \in 0 .. UIntMod - 1
    BY <1>1, QueueAssumption DEF TypeOK, NoWrap
  <2> QED
    BY <2>1, ModSmall, QueueAssumption DEF UAdd
<1>3. data' = [data EXCEPT ![Slot(len)] = elt]
  BY <1>1, <1>2 DEF Stored, Slot
<1>4. \A i \in Nat : Slot(i)' = Slot(i)
  BY <1>1 DEF Slot
<1>5. Slot(len) \in 0 .. capacity - 1
  BY <1>1, SlotValue, SMTT(20) DEF TypeOK
<1>6. ASSUME NEW i \in 0 .. len - 1
      PROVE  Slot(i) # Slot(len) /\ Slot(i) \in 0 .. capacity - 1
  <2>1. i \in 0 .. capacity /\ len \in 0 .. capacity
    BY <1>1 DEF TypeOK
  <2>2. /\ Slot(i) = IF pointer + i < capacity THEN pointer + i
                                               ELSE pointer + i - capacity
        /\ Slot(i) \in 0 .. capacity - 1
    BY <2>1, SlotValue
  <2>3. Slot(len) = IF pointer + len < capacity THEN pointer + len
                                               ELSE pointer + len - capacity
    BY <2>1, SlotValue
  <2> QED
    BY <1>1, <2>2, <2>3 DEF TypeOK
<1>7. \A i \in 0 .. len - 1 : data'[Slot(i)'] = data[Slot(i)]
  BY <1>1, <1>3, <1>4, <1>5, <1>6 DEF TypeOK
<1>8. \A i \in Nat : i = len => data'[Slot(i)'] = elt
  BY <1>3, <1>4, <1>5 DEF TypeOK
<1>9. TypeOK'
  BY <1>1, <1>3, <1>5 DEF TypeOK
<1>10. LiveSlotsDefined'
  <2> SUFFICES ASSUME NEW i \in 0 .. len
               PROVE  data'[Slot(i)'] \in Elt
    BY <1>1 DEF LiveSlotsDefined, TypeOK
  <2> QED
    BY <1>1, <1>7, <1>8 DEF LiveSlotsDefined, TypeOK
<1>11. NoWrap'
  BY <1>1 DEF NoWrap
<1> QED
  BY <1>7, <1>8, <1>9, <1>10, <1>11

\* Pushing on a full queue: resize_queue, then the store.
LEMMA PushFull ==
  ASSUME IInv, NEW elt \in Elt, Push(elt), len = capacity
  PROVE  /\ IInv'
         /\ \A i \in 0 .. len - 1 : data'[Slot(i)'] = data[Slot(i)]
         /\ \A i \in Nat : i = len => data'[Slot(i)'] = elt
<1> USE DEF IInv
<1>1. NewCap = 2 * capacity /\ NewPointer = capacity + pointer
  BY ResizeValues DEF Push
<1>2. /\ pointer' = capacity + pointer /\ capacity' = 2 * capacity
      /\ len' = capacity + 1 /\ popped' = popped
      /\ data' = Stored(ResizedData, capacity + pointer, 2 * capacity, elt)
  BY <1>1 DEF Push
<1>3. capacity + pointer + len \in 2 * capacity .. 3 * capacity - 1
  BY DEF TypeOK
<1>4. UAdd(capacity + pointer, len) = capacity + pointer + len
  <2>1. capacity + pointer + len \in 0 .. UIntMod - 1
    BY <1>3, QueueAssumption DEF TypeOK, Push
  <2> QED
    BY <2>1, ModSmall, QueueAssumption DEF UAdd
<1>5. (capacity + pointer + len) % (2 * capacity) = pointer
  <2>1. /\ 2 * capacity \in Nat \ {0} /\ capacity + pointer + len \in Nat
        /\ 2 * capacity <= capacity + pointer + len
        /\ capacity + pointer + len < 2 * capacity + 2 * capacity
    BY <1>3 DEF TypeOK
  <2> QED
    BY <2>1, ModOnce DEF TypeOK
<1>6. data' = [ResizedData EXCEPT ![pointer] = elt]
  BY <1>2, <1>4, <1>5, ZenonT(40) DEF Stored
<1>7. ResizedData = [i \in 0 .. 2 * capacity - 1 |->
                       IF i \in capacity + pointer .. 2 * capacity - 1
                       THEN data[i - capacity]
                       ELSE IF i < capacity THEN data[i] ELSE Junk]
  BY <1>1 DEF ResizedData, TypeOK
<1>8. TypeOK'
  <2>1. ResizedData \in [0 .. 2 * capacity - 1 -> Elt \cup {Junk}]
    BY <1>7 DEF TypeOK
  <2> QED
    BY <1>2, <1>6, <2>1 DEF TypeOK
<1>9. \A i \in Nat : i = len => Slot(i)' = pointer
  BY <1>2, <1>5 DEF Slot
<1>10. \A i \in Nat : i = len => data'[Slot(i)'] = elt
  BY <1>6, <1>7, <1>9 DEF TypeOK
<1>11. ASSUME NEW i \in 0 .. len - 1
       PROVE  data'[Slot(i)'] = data[Slot(i)]
  <2>1. CASE pointer + i < capacity
    <3>1. Slot(i)' = capacity + pointer + i
      BY <1>2, <2>1, ModSmall DEF Slot, TypeOK
    <3>2. Slot(i) = pointer + i
      BY <2>1, SlotValue DEF TypeOK
    <3> QED
      BY <1>6, <1>7, <2>1, <3>1, <3>2 DEF TypeOK
  <2>2. CASE ~(pointer + i < capacity)
    <3>1. /\ 2 * capacity \in Nat \ {0} /\ capacity + pointer + i \in Nat
          /\ 2 * capacity <= capacity + pointer + i
          /\ capacity + pointer + i < 2 * capacity + 2 * capacity
      BY <2>2 DEF TypeOK
    <3>2. Slot(i)' = pointer + i - capacity
      <4>1. (capacity + pointer + i) % (2 * capacity)
              = (capacity + pointer + i) - 2 * capacity
        BY <3>1, ModOnce
      <4> QED
        BY <1>2, <4>1 DEF Slot, TypeOK
    <3>3. Slot(i) = pointer + i - capacity
      BY <2>2, SlotValue DEF TypeOK
    <3> QED
      BY <1>6, <1>7, <2>2, <3>2, <3>3 DEF TypeOK
  <2> QED
    BY <2>1, <2>2
<1>12. LiveSlotsDefined'
  <2> SUFFICES ASSUME NEW i \in 0 .. len
               PROVE  data'[Slot(i)'] \in Elt
    BY <1>2 DEF LiveSlotsDefined, TypeOK
  <2> QED
    BY <1>10, <1>11 DEF LiveSlotsDefined, TypeOK
<1>13. NoWrap'
  BY <1>2, QueueAssumption DEF NoWrap, Push, TypeOK
<1> QED
  BY <1>8, <1>10, <1>11, <1>12, <1>13
\* queue_pop moves every remaining element one place forward.
LEMMA PopKeeps ==
  ASSUME IInv, Pop
  PROVE  /\ IInv'
         /\ popped' = data[Slot(0)]
         /\ \A i \in 0 .. len - 2 : data'[Slot(i)'] = data[Slot(i + 1)]
<1> USE DEF IInv
<1>1. /\ len \in 1 .. capacity /\ len' = len - 1 /\ data' = data
      /\ capacity' = capacity /\ popped' = data[pointer]
      /\ pointer' = UAdd(pointer, 1) % capacity
  BY DEF Pop, TypeOK
<1>2. UAdd(pointer, 1) = pointer + 1
  <2>1. pointer + 1 \in 0 .. UIntMod - 1
    BY QueueAssumption DEF TypeOK, NoWrap
  <2> QED
    BY <2>1, ModSmall, QueueAssumption DEF UAdd
<1>3. pointer' = Slot(1) /\ pointer' \in 0 .. capacity - 1
  BY <1>1, <1>2, SlotValue DEF Slot, TypeOK
<1>4. pointer' = IF pointer + 1 < capacity THEN pointer + 1
                                           ELSE pointer + 1 - capacity
  <2>1. 1 \in 0 .. capacity
    BY DEF TypeOK
  <2> QED
    BY <2>1, <1>3, SlotValue
<1>5. Slot(0) = pointer
  BY SlotValue DEF TypeOK
<1>6. TypeOK'
  BY <1>1, <1>3 DEF TypeOK
<1>7. ASSUME NEW i \in 0 .. len - 2
      PROVE  Slot(i)' = Slot(i + 1)
  <2>1. i \in 0 .. capacity' /\ i + 1 \in 0 .. capacity
    BY <1>1 DEF TypeOK
  <2>2. Slot(i + 1) = IF pointer + (i + 1) < capacity
                      THEN pointer + (i + 1)
                      ELSE pointer + (i + 1) - capacity
    BY <2>1, SlotValue
  <2>3. /\ i \in Nat /\ i < capacity /\ pointer' \in Nat /\ pointer' < capacity
        /\ pointer \in Nat /\ pointer < capacity /\ capacity \in Nat \ {0}
        /\ len \in Nat
    BY <1>1, <1>3 DEF TypeOK
  <2>4. CASE pointer' + i < capacity
    <3>1. (pointer' + i) % capacity = pointer' + i
      <4>1. pointer' + i \in 0 .. capacity - 1
        BY <1>4, <2>3, <2>4
      <4> QED
        BY <2>3, <4>1, ModSmall, ZenonT(40)
    <3>2. Slot(i)' = pointer' + i
      BY <1>1, <3>1 DEF Slot
    <3> QED
      BY <1>4, <2>2, <2>3, <2>4, <3>2
  <2>5. CASE ~(pointer' + i < capacity)
    <3>1. (pointer' + i) % capacity = (pointer' + i) - capacity
      <4>1. /\ pointer' + i \in Nat /\ capacity <= pointer' + i
            /\ pointer' + i < capacity + capacity
        BY <1>4, <2>3, <2>5
      <4> QED
        BY <2>3, <4>1, ModOnce, ZenonT(40)
    <3>2. Slot(i)' = (pointer' + i) - capacity
      BY <1>1, <3>1 DEF Slot
    <3> QED
      BY <1>4, <2>2, <2>3, <2>5, <3>2
  <2> QED
    BY <2>4, <2>5
<1>8. LiveSlotsDefined'
  <2> SUFFICES ASSUME NEW i \in 0 .. len - 2
               PROVE  data'[Slot(i)'] \in Elt
    BY <1>1 DEF LiveSlotsDefined, TypeOK
  <2> QED
    BY <1>1, <1>7 DEF LiveSlotsDefined, TypeOK
<1>9. NoWrap'
  BY <1>1 DEF NoWrap
<1> QED
  BY <1>1, <1>5, <1>6, <1>7, <1>8, <1>9

\* init_queue establishes the invariant.
LEMMA InitIInv == Init => IInv
BY QueueAssumption DEF Init, IInv, TypeOK, LiveSlotsDefined, NoWrap

\* The invariant is inductive.
LEMMA NextIInv == IInv /\ [Next]_vars => IInv'
<1>1. ASSUME IInv, NEW elt \in Elt, Push(elt)
      PROVE  IInv'
  BY <1>1, PushRoom, PushFull
<1>2. ASSUME IInv, Pop
      PROVE  IInv'
  BY <1>2, PopKeeps
<1>3. ASSUME IInv, UNCHANGED vars
      PROVE  IInv'
  BY <1>3 DEF IInv, TypeOK, LiveSlotsDefined, NoWrap, Slot, vars
<1> QED
  BY <1>1, <1>2, <1>3 DEF Next

(***************************************************************************)
(* The fields of t_queue stay in range: pointer below capacity, len at     *)
(* most capacity (queue_push and queue_pop of queue.c).                    *)
(***************************************************************************)
THEOREM QueueTypeOK == Spec => []TypeOK
<1>1. IInv => TypeOK
  BY DEF IInv
<1> QED
  BY <1>1, InitIInv, NextIInv, PTL DEF Spec

(***************************************************************************)
(* queue_pop never returns an uninitialised slot, for every initial        *)
(* capacity and however often the queue was resized.                       *)
(***************************************************************************)
THEOREM QueueLiveSlotsDefined == Spec => []LiveSlotsDefined
<1>1. IInv => LiveSlotsDefined
  BY DEF IInv
<1> QED
  BY <1>1, InitIInv, NextIInv, PTL DEF Spec

(***************************************************************************)
(* The unsigned index arithmetic of queue.c never wraps while the queue    *)
(* holds at most UIntMod / 4 elements.                                     *)
(***************************************************************************)
THEOREM QueueNoWrap == Spec => []NoWrap
<1>1. IInv => NoWrap
  BY DEF IInv
<1> QED
  BY <1>1, InitIInv, NextIInv, PTL DEF Spec

\* Append and Tail, element by element.
LEMMA AppendValue ==
  ASSUME NEW S, NEW s \in Seq(S), NEW e \in S
  PROVE  Append(s, e) = [i \in 1 .. Len(s) + 1 |-> IF i = Len(s) + 1 THEN e ELSE s[i]]
<1> DEFINE t == [i \in 1 .. Len(s) + 1 |-> IF i = Len(s) + 1 THEN e ELSE s[i]]
<1>1. Len(s) \in Nat /\ \A i \in 1 .. Len(s) : s[i] \in S
  BY LenProperties
<1>2. t \in Seq(S) /\ Len(t) = Len(s) + 1
  BY <1>1
<1>3. \A i \in 1 .. Len(s) + 1 : Append(s, e)[i] = t[i]
  BY <1>1, AppendProperties
<1> HIDE DEF t
<1>4. Append(s, e) = t
  BY <1>1, <1>2, <1>3, AppendProperties, SeqEqual
<1> QED
  BY <1>4 DEF t

\* The tail of a sequence, element by element.
LEMMA TailValue ==
  ASSUME NEW S, NEW s \in Seq(S), s # << >>
  PROVE  Tail(s) = [i \in 1 .. Len(s) - 1 |-> s[i + 1]]
<1> DEFINE t == [i \in 1 .. Len(s) - 1 |-> s[i + 1]]
<1>1. Len(s) \in Nat \ {0} /\ \A i \in 1 .. Len(s) : s[i] \in S
  BY LenProperties, EmptySeq
<1>2. t \in Seq(S) /\ Len(t) = Len(s) - 1
  BY <1>1
<1>3. \A i \in 1 .. Len(s) - 1 : Tail(s)[i] = t[i]
  BY <1>1, HeadTailProperties
<1> HIDE DEF t
<1>4. Tail(s) = t
  BY <1>1, <1>2, <1>3, HeadTailProperties, SeqEqual
<1> QED
  BY <1>4 DEF t

\* The abstract queue: a sequence of the pushed elements.
LEMMA ItemsSeq ==
  ASSUME IInv
  PROVE  /\ Items \in Seq(Elt) /\ Len(Items) = len
         /\ \A i \in 1 .. len : Items[i] = data[Slot(i - 1)]
<1>1. len \in Nat
  BY DEF IInv, TypeOK
<1>2. \A i \in 1 .. len : data[Slot(i - 1)] \in Elt
  BY <1>1 DEF IInv, LiveSlotsDefined
<1> QED
  BY <1>1, <1>2 DEF Items

\* queue_push is Push of the abstract queue.
LEMMA PushAppends ==
  ASSUME IInv, NEW elt \in Elt, Push(elt)
  PROVE  Items' = Append(Items, elt)
<1>1. /\ IInv' /\ len' = len + 1 /\ len \in Nat
      /\ \A i \in 0 .. len - 1 : data'[Slot(i)'] = data[Slot(i)]
      /\ \A i \in Nat : i = len => data'[Slot(i)'] = elt
  BY PushRoom, PushFull DEF Push, IInv, TypeOK
<1>2. Items' = [i \in 1 .. len + 1 |-> data'[Slot(i - 1)']]
  BY <1>1 DEF Items
<1>3. Append(Items, elt) =
        [i \in 1 .. len + 1 |-> IF i = len + 1 THEN elt ELSE Items[i]]
  <2>1. Items \in Seq(Elt) /\ Len(Items) = len
    BY ItemsSeq
  <2>2. Append(Items, elt) = [i \in 1 .. Len(Items) + 1 |->
                                IF i = Len(Items) + 1 THEN elt ELSE Items[i]]
    BY <2>1, AppendValue
  <2> QED
    BY <2>1, <2>2
<1>4. ASSUME NEW i \in 1 .. len + 1
      PROVE  data'[Slot(i - 1)'] = IF i = len + 1 THEN elt ELSE Items[i]
  <2>1. CASE i = len + 1
    BY <1>1, <2>1
  <2>2. CASE i # len + 1
    <3>1. i \in 1 .. len /\ i - 1 \in 0 .. len - 1
      BY <1>1, <2>2
    <3>2. data'[Slot(i - 1)'] = data[Slot(i - 1)]
      BY <1>1, <3>1
    <3> QED
      BY <2>2, <3>1, <3>2, ItemsSeq
  <2> QED
    BY <2>1, <2>2
<1> QED
  BY <1>2, <1>3, <1>4

\* queue_pop is Pop of the abstract queue.
LEMMA PopTakesHead ==
  ASSUME IInv, Pop
  PROVE  /\ Items # << >> /\ popped' = Head(Items)
         /\ Items' = Tail(Items)
<1>1. /\ len' = len - 1 /\ len \in Nat /\ len > 0
      /\ popped' = data[Slot(0)]
      /\ \A i \in 0 .. len - 2 : data'[Slot(i)'] = data[Slot(i + 1)]
  BY PopKeeps DEF Pop, IInv, TypeOK
<1>2. /\ Items \in Seq(Elt) /\ Len(Items) = len
      /\ \A i \in 1 .. len : Items[i] = data[Slot(i - 1)]
  BY ItemsSeq
<1>3. Items # << >> /\ Head(Items) = data[Slot(0)]
  BY <1>1, <1>2
<1>4. Items' = [i \in 1 .. len - 1 |-> data'[Slot(i - 1)']]
  BY <1>1 DEF Items
<1>5. Tail(Items) = [i \in 1 .. len - 1 |-> Items[i + 1]]
  BY <1>1, <1>2, <1>3, TailValue, ZenonT(40)
<1>6. ASSUME NEW i \in 1 .. len - 1
      PROVE  data'[Slot(i - 1)'] = Items[i + 1]
  <2>1. i - 1 \in 0 .. len - 2 /\ i + 1 \in 1 .. len
        /\ (i - 1) + 1 = i /\ (i + 1) - 1 = i
    BY <1>1
  <2>2. data'[Slot(i - 1)'] = data[Slot(i)]
    BY <1>1, <2>1
  <2> QED
    BY <1>2, <2>1, <2>2
<1> QED
  BY <1>1, <1>3, <1>4, <1>5, <1>6, ZenonT(40)

(***************************************************************************)
(* queue.c implements the first-in first-out queue of queue.h: every       *)
(* queue_push is an append and every queue_pop takes the head, for every   *)
(* initial capacity and every number of resizes.                           *)
(***************************************************************************)
THEOREM QueueImplementsFifo == Spec => ImplementsFifo
<1>1. Init => Abstract!Init
  BY QueueAssumption DEF Init, Abstract!Init, Items
<1>2. IInv /\ [Next]_vars => [Abstract!Next]_(Abstract!vars)
  <2>1. ASSUME IInv, NEW elt \in Elt, Push(elt)
        PROVE  Abstract!Next
    BY <2>1, PushAppends DEF Push, Abstract!Next, Abstract!Push
  <2>2. ASSUME IInv, Pop
        PROVE  Abstract!Next
    BY <2>2, PopTakesHead DEF Abstract!Next, Abstract!Pop
  <2>3. ASSUME UNCHANGED vars
        PROVE  UNCHANGED Abstract!vars
    BY <2>3 DEF vars, Abstract!vars, Items, Slot
  <2> QED
    BY <2>1, <2>2, <2>3 DEF Next
<1> QED
  BY <1>1, <1>2, InitIInv, NextIInv, PTL DEF Spec, ImplementsFifo, Abstract!Spec
=============================================================================
