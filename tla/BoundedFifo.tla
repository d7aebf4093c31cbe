---------------------------- MODULE BoundedFifo ----------------------------
(***************************************************************************)
(* What the firmware's two queues promise: the command queue between the   *)
(* command sources and the loop, and the publish queue between the loop    *)
(* and the broker.  A queue is a sequence of at most Capacity items; a     *)
(* batch goes in whole or not at all, and items leave in arrival order.    *)
(* Nothing here knows about slots or indices: RingQueue implements it.     *)
(***************************************************************************)
EXTENDS Naturals, Sequences

CONSTANTS Item,      \* what the queue carries
          Capacity,  \* how many items it promises to hold
          Batches    \* the sequences of items a producer offers in one call

VARIABLE items

Init == items = <<>>

\* A batch that fits is appended in order; what does not fit changes nothing
\* and is therefore a stuttering step here.
Put(batch) ==
  /\ Len(items) + Len(batch) <= Capacity
  /\ items' = items \o batch

Get ==
  /\ items # <<>>
  /\ items' = Tail(items)

Next == Get \/ \E batch \in Batches : Put(batch)

Spec == Init /\ [][Next]_items
=============================================================================
