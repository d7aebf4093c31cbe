----------------------------- MODULE RingQueue -----------------------------
(***************************************************************************)
(* The ring buffer the firmware uses twice: AppController::queue_ (16      *)
(* slots of Command) and MqttClient::queue_ (24 slots of PublishMessage).  *)
(* Both keep a head and a tail index, give up one slot to tell full from   *)
(* empty, and never clear a slot that was read, so a wrong index would     *)
(* bring old entries back to life.                                         *)
(***************************************************************************)
EXTENDS Naturals, Sequences

CONSTANTS Item,       \* what a slot holds
          QueueSize,  \* kCommandQueueSize, or kQueueSize of MqttClient
          Blank,      \* the content of a slot nothing was written to yet
          Batches     \* the sequences of items producers offer in one call

ASSUME QueueSizeAssumption == QueueSize \in Nat /\ QueueSize >= 2
ASSUME ItemAssumption == Blank \in Item
ASSUME BatchAssumption == \A batch \in Batches : batch \in Seq(Item) /\ batch # <<>>

VARIABLES queue, q_head, q_tail

ringVars == <<queue, q_head, q_tail>>

Slots == 0 .. QueueSize - 1

\* Mutant: the index does not wrap.
AdvanceUnwrapped(i, n) == i + n

Advance(i, n) == (i + n) % QueueSize

\* The slots in use, as queueFreeSlots() computes them.
Used == (q_tail + QueueSize - q_head) % QueueSize

\* Mutant: the slot given up to tell full from empty is counted as free.
FreeSlotsAll == QueueSize - Used

FreeSlots == (QueueSize - 1) - Used

IsFull == Advance(q_tail, 1) = q_head

Init ==
  /\ queue = [s \in Slots |-> Blank]
  /\ q_head = 0
  /\ q_tail = 0

\* One item: refused by the caller when IsFull, which tests the indices and
\* not the free slots that a batch counts.
Push(item) ==
  /\ ~IsFull
  /\ queue' = [queue EXCEPT ![q_tail] = item]
  /\ q_tail' = Advance(q_tail, 1)
  /\ UNCHANGED q_head

\* A batch fills the slots from the tail on, one after the other.
PushAll(batch) ==
  /\ Len(batch) <= FreeSlots
  /\ queue' = [s \in Slots |->
                 LET offset == (s + QueueSize - q_tail) % QueueSize
                 IN  IF offset < Len(batch) THEN batch[offset + 1] ELSE queue[s]]
  /\ q_tail' = Advance(q_tail, Len(batch))
  /\ UNCHANGED q_head

Front == queue[q_head]

Pop ==
  /\ q_head # q_tail
  /\ q_head' = Advance(q_head, 1)
  /\ UNCHANGED <<queue, q_tail>>

Next ==
  \/ \E item \in Item : Push(item)
  \/ \E batch \in Batches : PushAll(batch)
  \/ Pop

Spec == Init /\ [][Next]_ringVars

-----------------------------------------------------------------------------

TypeOK ==
  /\ queue \in [Slots -> Item]
  /\ q_head \in Slots
  /\ q_tail \in Slots

\* The refinement mapping: the items waiting, oldest first.
Contents == [i \in 1 .. Used |-> queue[Advance(q_head, i - 1)]]

Fifo == INSTANCE BoundedFifo
          WITH items <- Contents, Capacity <- QueueSize - 1,
               Batches <- Batches \cup {<<item>> : item \in Item}

\* The ring implements the bounded queue: whatever the indices have wrapped
\* past, an accepted item is delivered exactly once and in arrival order, a
\* batch enters whole or not at all, and a slot already read never comes back.
\* A full test or an index step that is off by one breaks it.
ImplementsFifo == Fifo!Spec
=============================================================================
