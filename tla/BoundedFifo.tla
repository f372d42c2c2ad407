---------------------------- MODULE BoundedFifo ----------------------------
(***************************************************************************)
(* What PennJSON_Queue promises: at most Capacity items, taken out in the  *)
(* order they were put in, a caller that is told when the queue is full    *)
(* and one that is told when it is empty.  out is the answer to the last   *)
(* call.                                                                   *)
(***************************************************************************)
EXTENDS Naturals, Sequences

CONSTANTS Item, Capacity

VARIABLES fifo, out

Answer == Item \cup {"self", "full", "nil", "empty", "nonempty"}

Init == fifo = <<>> /\ out = "self"

Put(x) ==
  /\ Len(fifo) < Capacity
  /\ fifo' = Append(fifo, x)
  /\ out' = "self"

PutRefused ==
  /\ Len(fifo) = Capacity
  /\ out' = "full"
  /\ UNCHANGED fifo

Take ==
  /\ fifo # <<>>
  /\ out' = Head(fifo)
  /\ fifo' = Tail(fifo)

TakeNothing ==
  /\ fifo = <<>>
  /\ out' = "nil"
  /\ UNCHANGED fifo

Ask ==
  /\ out' = IF fifo = <<>> THEN "empty" ELSE "nonempty"
  /\ UNCHANGED fifo

Next ==
  \/ \E x \in Item : Put(x)
  \/ PutRefused
  \/ Take
  \/ TakeNothing
  \/ Ask

Spec == Init /\ [][Next]_<<fifo, out>>
=============================================================================
