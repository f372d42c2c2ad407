--------------------------- MODULE CallbackQueue ---------------------------
(***************************************************************************)
(* PennJSON_Queue (src/game/ruby/lib/pennmush-json-queue.rb), the ring     *)
(* buffer behind CALLBACK_QUEUE.  Every operation holds @mutex from its    *)
(* first to its last line, so each is one step, whatever thread calls it.  *)
(***************************************************************************)
EXTENDS Integers, Sequences

CONSTANTS
  Item,   \* the blocks given to invoke_later
  Nil,    \* an empty slot
  Max     \* @max, a power of two (see MCCallbackQueue)

ASSUME MaxAssumption == Max \in Nat \ {0}
ASSUME NilAssumption == Nil \notin Item

VARIABLES
  slots,  \* @queue; the slots it has not grown to yet are nil as well
  head,   \* @head
  tail,   \* @tail
  out     \* what the last call returned or raised

vars == <<slots, head, tail, out>>

Slot == 0..(Max - 1)

(* Mutant: the index is not masked.                                        *)
Unmasked(i) == i

(* & @max_mask keeps the low bits: the remainder modulo a power of two.    *)
Mask(i) == i % Max

Init ==
  /\ slots = [i \in Slot |-> Nil]
  /\ head = 0
  /\ tail = 0
  /\ out = "self"

(* Mutant: the newest block goes in front of the oldest one.               *)
EnqueueAtHead(x) ==
  /\ Mask(tail + 1) # head
  /\ LET first == Mask(head + Max - 1) IN
       /\ slots' = [slots EXCEPT ![first] = x]
       /\ head' = first
  /\ out' = "self"
  /\ UNCHANGED tail

(* queue(object), and its 'Queue full' exception.                          *)
Enqueue(x) ==
  /\ Mask(tail + 1) # head
  /\ slots' = [slots EXCEPT ![tail] = x]
  /\ tail' = Mask(tail + 1)
  /\ out' = "self"
  /\ UNCHANGED head

EnqueueFull ==
  /\ Mask(tail + 1) = head
  /\ out' = "full"
  /\ UNCHANGED <<slots, head, tail>>

(* Mutant: the slot keeps the block.                                       *)
DequeueKeepsBlock ==
  /\ head # tail
  /\ out' = slots[head]
  /\ head' = Mask(head + 1)
  /\ UNCHANGED <<slots, tail>>

(* dequeue, and its nil for an empty queue.                                *)
Dequeue ==
  /\ head # tail
  /\ out' = slots[head]
  /\ slots' = [slots EXCEPT ![head] = Nil]
  /\ head' = Mask(head + 1)
  /\ UNCHANGED tail

DequeueEmpty ==
  /\ head = tail
  /\ out' = "nil"
  /\ UNCHANGED <<slots, head, tail>>

(* empty?                                                                  *)
Empty ==
  /\ out' = IF head = tail THEN "empty" ELSE "nonempty"
  /\ UNCHANGED <<slots, head, tail>>

Next ==
  \/ \E x \in Item : Enqueue(x)
  \/ EnqueueFull
  \/ Dequeue
  \/ DequeueEmpty
  \/ Empty

Spec == Init /\ [][Next]_vars

-----------------------------------------------------------------------------
(* The type invariant: the indexes stay in the array, and dequeue answers  *)
(* with a block, never with the nil of an empty slot.                      *)
TypeOK ==
  /\ slots \in [Slot -> Item \cup {Nil}]
  /\ head \in Slot
  /\ tail \in Slot
  /\ out \in Item \cup {"self", "full", "nil", "empty", "nonempty"}

(* The number of items, and the slot of the item i places behind the head. *)
Size == IF head <= tail THEN tail - head ELSE tail - head + Max
SlotAt(i) == IF head + i < Max THEN head + i ELSE head + i - Max

(* The slots from head up to tail, around the end, hold the queued blocks; *)
(* the others hold nil, so that a callback that ran is not kept alive and  *)
(* an empty queue is never confused with a full one.                       *)
OccupiedSlots == { SlotAt(i) : i \in 0..(Size - 1) }

SlotsAccounted ==
  \A s \in Slot : slots[s] # Nil <=> s \in OccupiedSlots

(* The ring buffer is a FIFO of Max - 1 items: the comment at              *)
(* pennmush-json-queue.rb:8, "rounded up to the next power of 2 minus 1".  *)
Abstract == INSTANCE BoundedFifo WITH
  Capacity <- Max - 1,
  fifo <- [i \in 1..Size |-> slots[SlotAt(i - 1)]]

(* What Abstract!Spec says of the mapped fifo holds of every behaviour:    *)
(* blocks come out in the order in which invoke_later put them in.         *)
ImplementsFifo == Abstract!Spec
=============================================================================
