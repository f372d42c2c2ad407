----------------------- MODULE CallbackQueue_proofs -----------------------
(***************************************************************************)
(* Theorems about the callback queue, for every capacity and every set of  *)
(* items: its slots are accounted for, and it implements BoundedFifo.      *)
(***************************************************************************)
EXTENDS CallbackQueue, TLAPS

(* & @max_mask steps to the next slot, and from the last to the first.     *)
LEMMA MaskStep ==
  ASSUME NEW i \in Slot
  PROVE  /\ Mask(i + 1) \in Slot
         /\ Mask(i + 1) = IF i + 1 = Max THEN 0 ELSE i + 1
<1>1. CASE i + 1 = Max
  BY <1>1, MaxAssumption DEF Mask, Slot
<1>2. CASE i + 1 # Max
  BY <1>2, MaxAssumption DEF Mask, Slot
<1> QED
  BY <1>1, <1>2

(* Slot s lies from the head h up to the tail t, around the end.           *)
Between(s, h, t) == IF h <= t THEN h <= s /\ s < t ELSE h <= s \/ s < t

(* The occupied slots are those between head and tail.                     *)
LEMMA OccupiedIsBetween ==
  ASSUME head \in Slot, tail \in Slot, NEW s \in Slot
  PROVE  s \in OccupiedSlots <=> Between(s, head, tail)
<1> USE MaxAssumption DEF Slot, SlotAt, Size, Between
<1>1. ASSUME s \in OccupiedSlots
      PROVE  Between(s, head, tail)
  BY <1>1 DEF OccupiedSlots
<1>2. ASSUME Between(s, head, tail)
      PROVE  s \in OccupiedSlots
  <2> DEFINE i == IF head <= s THEN s - head ELSE s - head + Max
  <2>1. i \in 0..(Size - 1) /\ SlotAt(i) = s
    BY <1>2
  <2> QED
    BY <2>1 DEF OccupiedSlots
<1> QED
  BY <1>1, <1>2

(* What an operation returns is a queued block, not an empty slot, only    *)
(* because the slots are accounted for: the two are one invariant.         *)
Inv ==
  /\ TypeOK
  /\ \A s \in Slot : slots[s] # Nil <=> Between(s, head, tail)

(* TypeOK and SlotsAccounted are Inv.                                      *)
LEMMA InvIs == Inv <=> TypeOK /\ SlotsAccounted
  BY OccupiedIsBetween DEF Inv, TypeOK, SlotsAccounted

(* Inv holds when the queue is made, and every call preserves it.          *)
LEMMA InvInductive == Inv /\ [Next]_vars => Inv'
<1> SUFFICES ASSUME Inv, [Next]_vars
             PROVE  Inv'
  OBVIOUS
<1> USE DEF Inv, TypeOK
<1>1. ASSUME NEW x \in Item, Enqueue(x)
      PROVE  Inv'
  <2>1. Mask(tail + 1) = (IF tail + 1 = Max THEN 0 ELSE tail + 1) /\ tail' \in Slot
    BY <1>1, MaskStep DEF Enqueue
  <2>2. TypeOK'
    BY <1>1, <2>1 DEF Enqueue
  <2>3. ASSUME NEW s \in Slot
        PROVE  Between(s, head, tail)' <=> Between(s, head, tail) \/ s = tail
    BY <1>1, <2>1, MaxAssumption DEF Enqueue, Between, Slot
  <2>4. ASSUME NEW s \in Slot
        PROVE  slots'[s] # Nil <=> slots[s] # Nil \/ s = tail
    BY <1>1, NilAssumption DEF Enqueue
  <2> QED
    BY <2>2, <2>3, <2>4
<1>2. CASE EnqueueFull
  BY <1>2 DEF EnqueueFull, Between
<1>3. CASE Dequeue
  <2>1. Mask(head + 1) = (IF head + 1 = Max THEN 0 ELSE head + 1) /\ head' \in Slot
    BY <1>3, MaskStep DEF Dequeue
  <2>2. Between(head, head, tail)
    BY <1>3, MaxAssumption DEF Dequeue, Between, Slot
  <2>3. out' \in Item
    BY <1>3, <2>2 DEF Dequeue
  <2>4. TypeOK'
    BY <1>3, <2>1, <2>3 DEF Dequeue
  <2>5. ASSUME NEW s \in Slot
        PROVE  Between(s, head, tail)' <=> Between(s, head, tail) /\ s # head
    BY <1>3, <2>1, MaxAssumption DEF Dequeue, Between, Slot
  <2>6. ASSUME NEW s \in Slot
        PROVE  slots'[s] # Nil <=> slots[s] # Nil /\ s # head
    BY <1>3 DEF Dequeue
  <2> QED
    BY <2>4, <2>5, <2>6
<1>4. CASE DequeueEmpty
  BY <1>4 DEF DequeueEmpty, Between
<1>5. CASE Empty
  BY <1>5 DEF Empty, Between
<1>6. CASE UNCHANGED vars
  BY <1>6 DEF vars, Between
<1> QED
  BY <1>1, <1>2, <1>3, <1>4, <1>5, <1>6 DEF Next

(* Inv holds when the queue is made.                                       *)
LEMMA InvInitial == Init => Inv
  BY MaxAssumption DEF Init, Inv, TypeOK, Slot, Between

(* Whatever calls are made, the fields of PennJSON_Queue keep their types  *)
(* and dequeue never returns the nil of an empty slot for a block.         *)
THEOREM TypeCorrect == Spec => []TypeOK
<1>1. Inv => TypeOK
  BY DEF Inv
<1> QED
  BY <1>1, InvInitial, InvInductive, PTL DEF Spec

(* Exactly the slots from head up to tail hold blocks.                     *)
THEOREM SlotsAreAccounted == Spec => []SlotsAccounted
<1>1. Inv => SlotsAccounted
  BY InvIs
<1> QED
  BY <1>1, InvInitial, InvInductive, PTL DEF Spec

-----------------------------------------------------------------------------
(* The queued blocks, oldest first: what Abstract takes for its fifo.      *)
Queued == [i \in 1..Size |-> slots[SlotAt(i - 1)]]

(* Queued is a sequence of Size slots' contents, and it is empty or full   *)
(* exactly when the comparisons of head and tail say so.                   *)
LEMMA QueuedIsSeq ==
  ASSUME Inv
  PROVE  /\ Size \in 0..(Max - 1)
         /\ Queued \in Seq(Item \cup {Nil})
         /\ Len(Queued) = Size
         /\ \A i \in 1..Size : Queued[i] = slots[SlotAt(i - 1)] /\ SlotAt(i - 1) \in Slot
         /\ Queued = <<>> <=> head = tail
         /\ Mask(tail + 1) = head <=> Size = Max - 1
<1> USE MaxAssumption DEF Inv, TypeOK, Slot
<1>1. Size \in 0..(Max - 1) /\ (Size = 0 <=> head = tail)
  BY DEF Size
<1>2. ASSUME NEW i \in 1..Size
      PROVE  SlotAt(i - 1) \in Slot
  BY <1>1 DEF SlotAt
<1>3. Queued \in Seq(Item \cup {Nil}) /\ Len(Queued) = Size
  <2>1. \A i \in 1..Size : slots[SlotAt(i - 1)] \in Item \cup {Nil}
    BY <1>2
  <2> QED
    BY <1>1, <2>1 DEF Queued
<1>4. Mask(tail + 1) = head <=> Size = Max - 1
  <2>1. Mask(tail + 1) = IF tail + 1 = Max THEN 0 ELSE tail + 1
    BY MaskStep
  <2> QED
    BY <2>1 DEF Size
<1> QED
  BY <1>1, <1>2, <1>3, <1>4 DEF Queued

(* A block that is put in comes after all the others.                      *)
LEMMA EnqueueAppends ==
  ASSUME Inv, Inv', NEW x \in Item, Enqueue(x)
  PROVE  Queued' = Append(Queued, x)
<1> USE MaxAssumption DEF Slot
<1>1. Mask(tail + 1) = IF tail + 1 = Max THEN 0 ELSE tail + 1
  BY MaskStep DEF Inv, TypeOK
<1>2. Size' = Size + 1 /\ Size \in Nat /\ SlotAt(Size) = tail
  BY <1>1 DEF Enqueue, Inv, TypeOK, Size, SlotAt
<1>3. ASSUME NEW i \in 1..Size
      PROVE  SlotAt(i - 1)' = SlotAt(i - 1) /\ SlotAt(i - 1) # tail
  BY <1>1 DEF Enqueue, Inv, TypeOK, Size, SlotAt
<1>4. Queued' \in Seq(Item \cup {Nil}) /\ Len(Queued') = Size + 1
  <2>1. ASSUME NEW i \in 1..(Size + 1)
        PROVE  slots'[SlotAt(i - 1)'] \in Item \cup {Nil}
    <3>1. SlotAt(i - 1)' \in Slot
      BY <1>2, QueuedIsSeq DEF Enqueue, Inv, TypeOK, SlotAt
    <3> QED
      BY <3>1 DEF Inv, TypeOK
  <2> QED
    BY <1>2, <2>1 DEF Queued
<1>5. ASSUME NEW i \in 1..(Size + 1)
      PROVE  Queued'[i] = Append(Queued, x)[i]
  <2>1. CASE i = Size + 1
    BY <2>1, <1>2, QueuedIsSeq DEF Enqueue, Inv, TypeOK, Queued, SlotAt
  <2>2. CASE i # Size + 1
    BY <2>2, <1>2, <1>3, QueuedIsSeq DEF Enqueue, Inv, TypeOK, Queued
  <2> QED
    BY <2>1, <2>2
<1> QED
  BY <1>2, <1>4, <1>5, QueuedIsSeq

(* The block that is taken out is the first one.                           *)
LEMMA DequeueTakesHead ==
  ASSUME Inv, Inv', Dequeue
  PROVE  Queued # <<>> /\ out' = Head(Queued) /\ Queued' = Tail(Queued)
<1> USE MaxAssumption DEF Slot
<1>1. /\ head \in Slot /\ tail \in Slot /\ head # tail
      /\ head' = (IF head + 1 = Max THEN 0 ELSE head + 1) /\ tail' = tail
  BY MaskStep DEF Inv, TypeOK, Dequeue
<1>2. Size' = Size - 1 /\ Size \in Nat \ {0} /\ SlotAt(0) = head
  BY <1>1 DEF Size, SlotAt
<1>3. ASSUME NEW i \in 1..(Size - 1)
      PROVE  slots'[SlotAt(i - 1)'] = slots[SlotAt(i)]
  <2>1. SlotAt(i - 1)' = SlotAt(i) /\ SlotAt(i) # head /\ SlotAt(i) \in Slot
    BY <1>1 DEF Size, SlotAt
  <2> QED
    BY <2>1 DEF Dequeue, Inv, TypeOK
<1>4. Queued' = [i \in 1..(Size - 1) |-> slots[SlotAt(i)]]
  BY <1>2, <1>3 DEF Queued
<1>5. Queued # <<>> /\ out' = Head(Queued)
  BY <1>2, QueuedIsSeq DEF Dequeue
<1>6. /\ Tail(Queued) \in Seq(Item \cup {Nil})
      /\ Len(Tail(Queued)) = Size - 1
      /\ \A i \in 1..(Size - 1) : Tail(Queued)[i] = Queued[i + 1]
  BY <1>2, <1>5, QueuedIsSeq
<1>7. ASSUME NEW i \in 1..(Size - 1)
      PROVE  Queued[i + 1] = slots[SlotAt(i)]
  BY <1>2 DEF Queued
<1>8. Queued' \in Seq(Item \cup {Nil}) /\ Len(Queued') = Size - 1
  <2>1. \A i \in 1..(Size - 1) : slots[SlotAt(i)] \in Item \cup {Nil}
    BY <1>1 DEF Size, SlotAt, Inv, TypeOK
  <2> QED
    BY <1>2, <1>4, <2>1
<1>9. ASSUME NEW i \in 1..(Size - 1)
      PROVE  Queued'[i] = Tail(Queued)[i]
  BY <1>4, <1>6, <1>7
<1> QED
  BY <1>2, <1>5, <1>6, <1>8, <1>9

(* The ring buffer implements the bounded FIFO: every call of              *)
(* PennJSON_Queue does to Queued, and returns, what BoundedFifo says.      *)
THEOREM RingBufferIsFifo == Spec => ImplementsFifo
<1>1. Init => Abstract!Init
  BY MaxAssumption DEF Init, Abstract!Init, Size
<1>2. Inv /\ Inv' /\ [Next]_vars => [Abstract!Next]_<<Queued, out>>
  <2> SUFFICES ASSUME Inv, Inv', [Next]_vars
               PROVE  [Abstract!Next]_<<Queued, out>>
    OBVIOUS
  <2> USE QueuedIsSeq DEF Abstract!Next
  <2>1. ASSUME NEW x \in Item, Enqueue(x)
        PROVE  Abstract!Put(x)
    <3>1. Size < Max - 1
      BY <2>1, MaxAssumption DEF Enqueue
    <3> QED
      BY <2>1, <3>1, EnqueueAppends DEF Abstract!Put, Queued, Enqueue
  <2>2. CASE EnqueueFull
    BY <2>2 DEF EnqueueFull, Abstract!PutRefused, Queued, Size, SlotAt
  <2>3. CASE Dequeue
    BY <2>3, DequeueTakesHead DEF Abstract!Take, Queued
  <2>4. CASE DequeueEmpty
    BY <2>4 DEF DequeueEmpty, Abstract!TakeNothing, Queued, Size, SlotAt
  <2>5. CASE Empty
    BY <2>5 DEF Empty, Abstract!Ask, Queued, Size, SlotAt
  <2>6. CASE UNCHANGED vars
    BY <2>6 DEF vars, Queued, Size, SlotAt
  <2> QED
    BY <2>1, <2>2, <2>3, <2>4, <2>5, <2>6 DEF Next
<1> QED
  BY <1>1, <1>2, InvInitial, InvInductive, PTL
  DEF Spec, ImplementsFifo, Abstract!Spec, Queued
=============================================================================
