--------------------------- MODULE MCQueues_proofs ---------------------------
(***************************************************************************)
(* Theorems about what carries requests and state, for every value of the  *)
(* constants: the ring buffer implements the bounded FIFO queue, the       *)
(* command queue under its two threads implements a queue of atomic steps, *)
(* and the publish queue that was drained once drops nothing and loses no  *)
(* change.                                                                 *)
(***************************************************************************)
EXTENDS MCQueues, SequenceTheorems, FiniteSetTheorems, TLAPS

-----------------------------------------------------------------------------
(* The ring buffer, for every number of slots, every kind of item and      *)
(* every set of batches.                                                   *)

LEMMA Size == QueueSize \in Nat /\ QueueSize >= 2 /\ Blank \in Item
BY QueueSizeAssumption, ItemAssumption

-----------------------------------------------------------------------------
(* The indices without the modulo.                                         *)

Wrapped(n) == IF n < QueueSize THEN n ELSE n - QueueSize

LEMMA ModIsWrap ==
  ASSUME NEW n \in Nat, n < 2 * QueueSize PROVE n % QueueSize = Wrapped(n)
<1> DEFINE Q == QueueSize
<1>1. Q \in Nat /\ Q >= 2
  BY Size
<1> HIDE DEF Q
<1>2. CASE n < Q
  BY <1>1, <1>2 DEF Wrapped, Q
<1>3. CASE n >= Q
  <2>1. n - Q \in Nat /\ n - Q < Q
    BY <1>1, <1>3 DEF Q
  <2>2. n = Q * 1 + (n - Q)
    BY <1>1
  <2> QED
    BY <1>1, <1>3, <2>1, <2>2 DEF Wrapped, Q
<1> QED
  BY <1>1, <1>2, <1>3

LEMMA AdvanceValue ==
  ASSUME NEW i \in Slots, NEW n \in 0 .. QueueSize
  PROVE  Advance(i, n) = Wrapped(i + n) /\ Advance(i, n) \in Slots
BY ModIsWrap, Size DEF Advance, Slots, Wrapped

UsedFacts ==
  /\ Used \in 0 .. QueueSize - 1
  /\ Used = Wrapped(q_tail + QueueSize - q_head)
  /\ q_tail = Wrapped(q_head + Used)

LEMMA UsedValue == TypeOK => UsedFacts
<1> SUFFICES ASSUME TypeOK PROVE UsedFacts
  OBVIOUS
<1>1. Used = Wrapped(q_tail + QueueSize - q_head)
  BY ModIsWrap, Size DEF Used, TypeOK, Slots
<1> QED
  BY <1>1, Size DEF UsedFacts, TypeOK, Slots, Wrapped

\* The tail moves by n slots when n fit.
LEMMA TailMoves ==
  ASSUME NEW h \in Slots, NEW used \in 0 .. QueueSize - 1, NEW n \in 0 .. QueueSize - 1 - used
  PROVE  Wrapped(Wrapped(Wrapped(h + used) + n) + QueueSize - h) = used + n
BY Size DEF Slots, Wrapped

-----------------------------------------------------------------------------

LEMMA InitType == Init => TypeOK
BY Size DEF Init, TypeOK, Slots

LEMMA PushType ==
  ASSUME TypeOK, NEW item \in Item, Push(item) PROVE TypeOK'
BY AdvanceValue, Size DEF TypeOK, Push, Slots

LEMMA PushAllType ==
  ASSUME TypeOK, NEW batch \in Seq(Item), PushAll(batch) PROVE TypeOK'
<1>1. Len(batch) \in 0 .. QueueSize
  BY UsedValue, LenProperties, Size DEF PushAll, FreeSlots, UsedFacts
<1>2. q_tail' \in Slots /\ q_head' \in Slots
  BY <1>1, AdvanceValue DEF PushAll, TypeOK
<1>3. ASSUME NEW s \in Slots
      PROVE  LET offset == (s + QueueSize - q_tail) % QueueSize
             IN  (IF offset < Len(batch) THEN batch[offset + 1] ELSE queue[s]) \in Item
  <2> DEFINE offset == (s + QueueSize - q_tail) % QueueSize
  <2>1. offset \in Nat
    BY ModIsWrap, Size DEF TypeOK, Slots, Wrapped
  <2> HIDE DEF offset
  <2>2. offset < Len(batch) => batch[offset + 1] \in Item
    BY <2>1, LenProperties, ElementOfSeq
  <2>3. queue[s] \in Item
    BY DEF TypeOK
  <2> QED
    BY <2>2, <2>3 DEF offset
<1>4. queue' \in [Slots -> Item]
  BY <1>3 DEF PushAll
<1> QED
  BY <1>2, <1>4 DEF TypeOK

LEMMA PopType == TypeOK /\ Pop => TypeOK'
BY AdvanceValue, Size DEF TypeOK, Pop

LEMMA StepType == TypeOK /\ [Next]_ringVars => TypeOK'
<1> SUFFICES ASSUME TypeOK, [Next]_ringVars PROVE TypeOK'
  OBVIOUS
<1>1. CASE \E item \in Item : Push(item)
  BY <1>1, PushType
<1>2. CASE \E batch \in Batches : PushAll(batch)
  BY <1>2, PushAllType, BatchAssumption
<1>3. CASE Pop
  BY <1>3, PopType
<1>4. CASE UNCHANGED ringVars
  BY <1>4 DEF ringVars, TypeOK
<1> QED
  BY <1>1, <1>2, <1>3, <1>4 DEF Next

-----------------------------------------------------------------------------
(* The items waiting.                                                      *)

ContentsFacts ==
  /\ Contents \in Seq(Item) /\ Len(Contents) = Used
  /\ \A i \in 1 .. Used : Contents[i] = queue[Wrapped(q_head + i - 1)]

LEMMA ContentsValue == TypeOK => ContentsFacts
<1> SUFFICES ASSUME TypeOK PROVE ContentsFacts
  OBVIOUS
<1>1. Used \in 0 .. QueueSize - 1
  BY UsedValue DEF UsedFacts
<1>2. ASSUME NEW i \in 1 .. Used
      PROVE  /\ Advance(q_head, i - 1) = Wrapped(q_head + i - 1)
             /\ queue[Advance(q_head, i - 1)] \in Item
  BY <1>1, AdvanceValue, Size DEF TypeOK
<1>3. Contents \in [1 .. Used -> Item]
  BY <1>2 DEF Contents
<1> QED
  BY <1>1, <1>2, <1>3 DEF Contents, ContentsFacts

\* Items that go in at the tail follow those waiting.
LEMMA AppendRefines ==
  ASSUME TypeOK, TypeOK', NEW batch \in Seq(Item), Len(batch) <= QueueSize - 1 - Used,
         q_head' = q_head, q_tail' = Wrapped(q_tail + Len(batch)),
         \A i \in 1 .. Used : queue'[Wrapped(q_head + i - 1)] = queue[Wrapped(q_head + i - 1)],
         \A i \in 1 .. Len(batch) : queue'[Wrapped(q_tail + i - 1)] = batch[i]
  PROVE  Contents' = Contents \o batch
<1>1. Len(batch) \in Nat
  BY LenProperties
<1>2. Used \in 0 .. QueueSize - 1 /\ q_tail = Wrapped(q_head + Used)
  BY UsedValue DEF UsedFacts
<1>3. Used' = Used + Len(batch)
  <2>1. UsedFacts'
    BY UsedValue, PTL
  <2>2. q_head \in Slots /\ Len(batch) \in 0 .. QueueSize - 1 - Used
    BY <1>1, <1>2, Size DEF TypeOK
  <2> QED
    BY <1>2, <2>1, <2>2, TailMoves DEF UsedFacts
<1>4. /\ Contents' \in Seq(Item) /\ Len(Contents') = Used'
      /\ \A i \in 1 .. Used' : Contents'[i] = queue'[Wrapped(q_head' + i - 1)]
  <2>1. ContentsFacts'
    BY ContentsValue, PTL
  <2> QED
    BY <2>1 DEF ContentsFacts
<1>5. /\ Contents \in Seq(Item) /\ Len(Contents) = Used
      /\ \A i \in 1 .. Used : Contents[i] = queue[Wrapped(q_head + i - 1)]
  BY ContentsValue DEF ContentsFacts
<1>6. /\ Contents \o batch \in Seq(Item) /\ Len(Contents \o batch) = Used + Len(batch)
      /\ \A i \in 1 .. Used + Len(batch) :
           (Contents \o batch)[i] = IF i <= Used THEN Contents[i] ELSE batch[i - Used]
  BY <1>5, ConcatProperties, ZenonT(60)
<1>7. ASSUME NEW i \in 1 .. Used + Len(batch)
      PROVE  Contents'[i] = (Contents \o batch)[i]
  <2>1. CASE i <= Used
    BY <1>1, <1>2, <1>3, <1>4, <1>5, <1>6, <2>1
  <2>2. CASE ~(i <= Used)
    <3>1. i - Used \in 1 .. Len(batch)
      BY <1>1, <1>2, <2>2
    <3>2. Wrapped(q_head + i - 1) = Wrapped(q_tail + (i - Used) - 1)
      BY <1>1, <1>2, <2>2, Size DEF Wrapped, TypeOK, Slots
    <3> QED
      BY <1>1, <1>2, <1>3, <1>4, <1>6, <2>2, <3>1, <3>2
  <2> QED
    BY <2>1, <2>2
<1> QED
  BY <1>1, <1>2, <1>3, <1>4, <1>6, <1>7, SeqEqual

LEMMA PushRefines ==
  ASSUME TypeOK, TypeOK', NEW item \in Item, Push(item)
  PROVE  Len(Contents) + Len(<<item>>) <= QueueSize - 1 /\ Contents' = Contents \o <<item>>
<1>1. Used \in 0 .. QueueSize - 1 /\ q_tail = Wrapped(q_head + Used)
  BY UsedValue DEF UsedFacts
<1>2. Advance(q_tail, 1) = Wrapped(q_tail + 1)
  BY AdvanceValue, Size DEF TypeOK
<1>3. Used < QueueSize - 1
  BY <1>1, <1>2, Size DEF Push, IsFull, TypeOK, Slots, Wrapped
<1>4. <<item>> \in Seq(Item) /\ Len(<<item>>) = 1 /\ <<item>>[1] = item
  OBVIOUS
<1>5. ASSUME NEW i \in 1 .. Used
      PROVE  Wrapped(q_head + i - 1) \in Slots /\ Wrapped(q_head + i - 1) # q_tail
  BY <1>1, Size DEF TypeOK, Slots, Wrapped
<1>6. \A i \in 1 .. Used : queue'[Wrapped(q_head + i - 1)] = queue[Wrapped(q_head + i - 1)]
  BY <1>5 DEF Push, TypeOK
<1>7. queue'[q_tail] = item /\ Wrapped(q_tail) = q_tail
  BY Size DEF Push, TypeOK, Slots, Wrapped
<1>8. \A i \in 1 .. 1 : queue'[Wrapped(q_tail + i - 1)] = <<item>>[i]
  BY <1>4, <1>7 DEF TypeOK, Slots
<1>9. /\ Len(<<item>>) <= QueueSize - 1 - Used /\ q_head' = q_head
      /\ q_tail' = Wrapped(q_tail + Len(<<item>>))
      /\ \A i \in 1 .. Len(<<item>>) : queue'[Wrapped(q_tail + i - 1)] = <<item>>[i]
  BY <1>1, <1>2, <1>3, <1>4, <1>8, Size DEF Push
<1>10. Contents' = Contents \o <<item>>
  BY <1>4, <1>6, <1>9, AppendRefines
<1> QED
  BY <1>1, <1>3, <1>4, <1>10, ContentsValue, Size DEF ContentsFacts

LEMMA PushAllRefines ==
  ASSUME TypeOK, TypeOK', NEW batch \in Seq(Item), PushAll(batch)
  PROVE  Len(Contents) + Len(batch) <= QueueSize - 1 /\ Contents' = Contents \o batch
<1>1. Used \in 0 .. QueueSize - 1 /\ q_tail = Wrapped(q_head + Used)
  BY UsedValue DEF UsedFacts
<1>2. Len(batch) \in Nat /\ Len(batch) <= QueueSize - 1 - Used
  BY LenProperties DEF PushAll, FreeSlots
<1>3. q_tail' = Wrapped(q_tail + Len(batch)) /\ q_head' = q_head
  BY <1>1, <1>2, AdvanceValue, Size DEF PushAll, TypeOK
<1>4. ASSUME NEW s \in Slots
      PROVE  /\ Wrapped(s + QueueSize - q_tail) < Len(batch) =>
                  queue'[s] = batch[Wrapped(s + QueueSize - q_tail) + 1]
             /\ Wrapped(s + QueueSize - q_tail) >= Len(batch) => queue'[s] = queue[s]
  <2>1. (s + QueueSize - q_tail) % QueueSize = Wrapped(s + QueueSize - q_tail)
    BY ModIsWrap, Size DEF TypeOK, Slots
  <2>2. Wrapped(s + QueueSize - q_tail) \in Nat
    BY Size DEF TypeOK, Slots, Wrapped
  <2> DEFINE offset == Wrapped(s + QueueSize - q_tail)
  <2>3. queue'[s] = IF offset < Len(batch) THEN batch[offset + 1] ELSE queue[s]
    BY <2>1 DEF PushAll
  <2> HIDE DEF offset
  <2>4. /\ offset < Len(batch) => queue'[s] = batch[offset + 1]
        /\ offset >= Len(batch) => queue'[s] = queue[s]
    BY <1>2, <2>2, <2>3 DEF offset
  <2> QED
    BY <2>4 DEF offset
<1>5. ASSUME NEW i \in 1 .. Used
      PROVE  queue'[Wrapped(q_head + i - 1)] = queue[Wrapped(q_head + i - 1)]
  <2> DEFINE s == Wrapped(q_head + i - 1)
  <2>1. s \in Slots /\ Wrapped(s + QueueSize - q_tail) >= Len(batch)
    BY <1>1, <1>2, Size DEF TypeOK, Slots, Wrapped
  <2> HIDE DEF s
  <2>2. queue'[s] = queue[s]
    BY <1>4, <2>1
  <2> QED
    BY <2>2 DEF s
<1>6. ASSUME NEW i \in 1 .. Len(batch)
      PROVE  queue'[Wrapped(q_tail + i - 1)] = batch[i]
  <2> DEFINE s == Wrapped(q_tail + i - 1)
  <2>1. s \in Slots /\ Wrapped(s + QueueSize - q_tail) = i - 1
    BY <1>1, <1>2, Size DEF TypeOK, Slots, Wrapped
  <2> HIDE DEF s
  <2>2. queue'[s] = batch[(i - 1) + 1] /\ (i - 1) + 1 = i
    BY <1>2, <1>4, <2>1
  <2> QED
    BY <2>2 DEF s
<1>7. Contents' = Contents \o batch
  BY <1>2, <1>3, <1>5, <1>6, AppendRefines
<1> QED
  BY <1>1, <1>2, <1>7, ContentsValue, Size DEF ContentsFacts

LEMMA PopRefines ==
  ASSUME TypeOK, TypeOK', Pop
  PROVE  Contents # <<>> /\ Contents' = Tail(Contents)
<1>1. Used \in 0 .. QueueSize - 1 /\ q_tail = Wrapped(q_head + Used)
  BY UsedValue DEF UsedFacts
<1>2. q_head' = Wrapped(q_head + 1) /\ q_tail' = q_tail /\ queue' = queue
  BY AdvanceValue, Size DEF Pop, TypeOK
<1>3. Used >= 1
  BY <1>1, Size DEF Pop, TypeOK, Slots, Wrapped
<1>4. Used' = Used - 1
  <2>1. UsedFacts'
    BY UsedValue, PTL
  <2> QED
    BY <1>1, <1>2, <1>3, <2>1, Size DEF UsedFacts, Wrapped, Slots, TypeOK
<1>5. /\ Contents' \in Seq(Item) /\ Len(Contents') = Used'
      /\ \A i \in 1 .. Used' : Contents'[i] = queue'[Wrapped(q_head' + i - 1)]
  <2>1. ContentsFacts'
    BY ContentsValue, PTL
  <2> QED
    BY <2>1 DEF ContentsFacts
<1>6. /\ Contents \in Seq(Item) /\ Len(Contents) = Used
      /\ \A i \in 1 .. Used : Contents[i] = queue[Wrapped(q_head + i - 1)]
  BY ContentsValue DEF ContentsFacts
<1>7. Contents # <<>>
  BY <1>1, <1>3, <1>6, EmptySeq
<1>8. /\ Tail(Contents) \in Seq(Item) /\ Len(Tail(Contents)) = Used - 1
      /\ \A i \in 1 .. Used - 1 : Tail(Contents)[i] = Contents[i + 1]
  BY <1>6, <1>7, HeadTailProperties
<1>9. ASSUME NEW i \in 1 .. Used - 1
      PROVE  Contents'[i] = Tail(Contents)[i]
  <2>1. Wrapped(q_head' + i - 1) = Wrapped(q_head + (i + 1) - 1)
    BY <1>1, <1>2, Size DEF Wrapped, Slots, TypeOK
  <2>2. i \in 1 .. Used' /\ i + 1 \in 1 .. Used
    BY <1>1, <1>4
  <2>3. Contents'[i] = queue[Wrapped(q_head + (i + 1) - 1)]
    BY <1>2, <1>5, <2>1, <2>2
  <2>4. Contents[i + 1] = queue[Wrapped(q_head + (i + 1) - 1)]
    BY <1>6, <2>2
  <2> QED
    BY <1>8, <2>3, <2>4
<1> QED
  BY <1>4, <1>5, <1>7, <1>8, <1>9, SeqEqual

-----------------------------------------------------------------------------

LEMMA InitRefines == Init => Fifo!Init
<1> SUFFICES ASSUME Init PROVE Contents = <<>>
  BY DEF Fifo!Init
<1>1. TypeOK
  BY InitType
<1>2. Used = 0
  BY <1>1, UsedValue, Size DEF Init, UsedFacts, Wrapped
<1> QED
  BY <1>1, <1>2, ContentsValue, EmptySeq DEF ContentsFacts

LEMMA StepRefines == TypeOK /\ [Next]_ringVars => [Fifo!Next]_Contents
<1> SUFFICES ASSUME TypeOK, [Next]_ringVars PROVE [Fifo!Next]_Contents
  OBVIOUS
<1>0. TypeOK'
  BY StepType
<1>1. ASSUME NEW item \in Item, Push(item) PROVE Fifo!Next
  BY <1>0, <1>1, PushRefines DEF Fifo!Next, Fifo!Put
<1>2. ASSUME NEW batch \in Batches, PushAll(batch) PROVE Fifo!Next
  BY <1>0, <1>2, PushAllRefines, BatchAssumption DEF Fifo!Next, Fifo!Put
<1>3. ASSUME Pop PROVE Fifo!Next
  BY <1>0, <1>3, PopRefines DEF Fifo!Next, Fifo!Get
<1>4. CASE UNCHANGED ringVars
  BY <1>4 DEF ringVars, Contents, Used
<1> QED
  BY <1>1, <1>2, <1>3, <1>4 DEF Next

-----------------------------------------------------------------------------
(* The command queue under its two threads.  While nobody touches a button *)
(* during the setup request only one thread writes at a time, and the loop *)
(* may pop between any two accesses of the other.                          *)

ApSlots == 0 .. ApQueueSize - 1
ApNext(i) == IF i + 1 = ApQueueSize THEN 0 ELSE i + 1

LoopType ==
  [pc : {"drain", "pop", "popped", "poll", "full?", "write", "publish", "reset"},
   next : ApSlots, slot : ApSlots, cmd : A!Kinds]
HttpType ==
  [pc : {"idle", "enqueue", "full?", "write", "publish", "answered"}, next : ApSlots, slot : ApSlots]

ApTyped ==
  /\ ap_queue \in [ApSlots -> A!Kinds] /\ ap_head \in ApSlots /\ ap_tail \in ApSlots
  /\ loop \in LoopType /\ http \in HttpType
  /\ owed \in [A!Kinds -> Nat]

\* The commands waiting: a slot between the head and the tail holds one.
InUse(s) ==
  IF ap_head <= ap_tail THEN ap_head <= s /\ s < ap_tail ELSE ap_head <= s \/ s < ap_tail
Waiting(k) == {s \in ApSlots : InUse(s) /\ ap_queue[s] = k}

\* Until a thread publishes it, the slot it has chosen is the free one at the tail.
Claims(t, kind) ==
  /\ t.pc \in {"full?", "write", "publish"} => t.slot = ap_tail /\ t.next = ApNext(ap_tail)
  /\ t.pc \in {"write", "publish"} => t.next # ap_head
  /\ t.pc = "publish" => ap_queue[ap_tail] = kind

OneWriter ==
  ~(loop.pc \in {"full?", "write", "publish"} /\ http.pc \in {"enqueue", "full?", "write", "publish"})

Popping ==
  /\ loop.pc \in {"pop", "popped"} => ap_head # ap_tail
  /\ loop.pc = "popped" => loop.cmd = ap_queue[ap_head]

ApInv ==
  /\ ApTyped /\ Claims(loop, "Press") /\ Claims(http, "Reboot") /\ OneWriter /\ Popping
  /\ \A k \in A!Kinds : owed[k] = Cardinality(Waiting(k))

LEMMA ApSize == A!SoftApInputsOK => ApQueueSize \in Nat /\ ApQueueSize >= 2
BY DEF A!SoftApInputsOK

LEMMA ApAdvance ==
  ASSUME A!SoftApInputsOK, NEW i \in ApSlots
  PROVE  A!Advance(i) = ApNext(i) /\ ApNext(i) \in ApSlots
<1> DEFINE Q == ApQueueSize
<1>1. Q \in Nat /\ Q >= 2 /\ i \in 0 .. Q - 1
  BY ApSize DEF ApSlots
<1> HIDE DEF Q
<1>2. (i + 1) % Q = IF i + 1 = Q THEN 0 ELSE i + 1
  BY <1>1
<1> QED
  BY <1>1, <1>2 DEF A!Advance, ApNext, ApSlots, Q

LEMMA WaitingFinite ==
  ASSUME A!SoftApInputsOK, NEW k
  PROVE  IsFiniteSet(Waiting(k)) /\ Cardinality(Waiting(k)) \in Nat /\ Cardinality(Waiting(k)) <= ApQueueSize
<1>1. IsFiniteSet(ApSlots) /\ Cardinality(ApSlots) = ApQueueSize
  BY ApSize, FS_Interval DEF ApSlots
<1>2. Waiting(k) \in SUBSET ApSlots
  BY DEF Waiting
<1> QED
  BY <1>1, <1>2, FS_Subset, FS_CardinalityType

\* A step that moves neither index and writes nothing but the free slot at the tail.
LEMMA WaitingKept ==
  ASSUME ApTyped, ap_head' = ap_head, ap_tail' = ap_tail, NEW kind,
         ap_queue' = ap_queue \/ ap_queue' = [ap_queue EXCEPT ![ap_tail] = kind],
         NEW k
  PROVE  Waiting(k)' = Waiting(k)
<1>1. \A s \in ApSlots : InUse(s) => ap_queue'[s] = ap_queue[s]
  <2>1. \A s \in ApSlots : InUse(s) => s # ap_tail
    BY DEF InUse, ApTyped, ApSlots
  <2> QED
    BY <2>1 DEF ApTyped
<1>2. \A s \in ApSlots : InUse(s)' <=> InUse(s)
  BY DEF InUse
<1> QED
  BY <1>1, <1>2 DEF Waiting

\* The tail moves on: the command in the slot it leaves is waiting now.
LEMMA WaitingGrows ==
  ASSUME A!SoftApInputsOK, ApTyped, ApNext(ap_tail) # ap_head,
         ap_tail' = ApNext(ap_tail), ap_head' = ap_head, ap_queue' = ap_queue, NEW k
  PROVE  /\ ap_tail \notin Waiting(k)
         /\ Waiting(k)' = IF ap_queue[ap_tail] = k THEN Waiting(k) \cup {ap_tail} ELSE Waiting(k)
<1>1. ap_head \in ApSlots /\ ap_tail \in ApSlots /\ ApQueueSize \in Nat /\ ApQueueSize >= 2
  BY ApSize DEF ApTyped
<1>2. ~InUse(ap_tail)
  BY <1>1 DEF InUse, ApSlots
<1>3. \A s \in ApSlots : InUse(s)' <=> InUse(s) \/ s = ap_tail
  BY <1>1 DEF InUse, ApSlots, ApNext
<1> QED
  BY <1>1, <1>2, <1>3 DEF Waiting

\* The head moves on: the command in the slot it leaves is not waiting any more.
LEMMA WaitingShrinks ==
  ASSUME A!SoftApInputsOK, ApTyped, ap_head # ap_tail,
         ap_head' = ApNext(ap_head), ap_tail' = ap_tail, ap_queue' = ap_queue, NEW k
  PROVE  /\ ap_queue[ap_head] = k => ap_head \in Waiting(k)
         /\ Waiting(k)' = IF ap_queue[ap_head] = k THEN Waiting(k) \ {ap_head} ELSE Waiting(k)
<1>1. ap_head \in ApSlots /\ ap_tail \in ApSlots /\ ApQueueSize \in Nat /\ ApQueueSize >= 2
  BY ApSize DEF ApTyped
<1>2. InUse(ap_head)
  BY <1>1 DEF InUse, ApSlots
<1>3. \A s \in ApSlots : InUse(s)' <=> InUse(s) /\ s # ap_head
  BY <1>1 DEF InUse, ApSlots, ApNext
<1> QED
  BY <1>1, <1>2, <1>3 DEF Waiting

LEMMA ApInit == A!SoftApInputsOK /\ A!Init => ApInv
<1> SUFFICES ASSUME A!SoftApInputsOK, A!Init PROVE ApInv
  OBVIOUS
<1>1. ApTyped
  BY ApSize DEF A!Init, ApTyped, A!Slots, A!Kinds, ApSlots, LoopType, HttpType
<1>2. \A k : Waiting(k) = {}
  BY <1>1 DEF A!Init, Waiting, InUse, ApTyped, ApSlots
<1>3. \A k \in A!Kinds : owed[k] = Cardinality(Waiting(k))
  BY <1>2, FS_EmptySet DEF A!Init
<1>4. loop.pc = "drain" /\ http.pc = "idle"
  BY DEF A!Init
<1> QED
  BY <1>1, <1>3, <1>4 DEF ApInv, Claims, OneWriter, Popping

\* A step that leaves the commands waiting as they were.
LEMMA ApQuiet ==
  ASSUME ApInv, ap_head' = ap_head, ap_tail' = ap_tail, owed' = owed, NEW kind \in A!Kinds,
         ap_queue' = ap_queue \/ ap_queue' = [ap_queue EXCEPT ![ap_tail] = kind],
         loop' \in LoopType, http' \in HttpType,
         Claims(loop, "Press")', Claims(http, "Reboot")', OneWriter', Popping'
  PROVE  ApInv'
<1>1. ApTyped
  BY DEF ApInv
<1>2. ApTyped'
  BY <1>1 DEF ApTyped
<1>3. \A k \in A!Kinds : Waiting(k)' = Waiting(k)
  BY <1>1, WaitingKept
<1> QED
  BY <1>2, <1>3 DEF ApInv

\* A step of one thread's record only.
LEMMA ApAlone ==
  ASSUME ApInv, UNCHANGED <<ap_queue, ap_head, ap_tail, owed>>,
         loop' \in LoopType, http' \in HttpType,
         Claims(loop, "Press")', Claims(http, "Reboot")', OneWriter', Popping'
  PROVE  ApInv'
BY ApQuiet DEF A!Kinds

\* Publishing a command counts it.
LEMMA PublishCounts ==
  ASSUME A!SoftApInputsOK, ApInv, NEW kind \in A!Kinds, ap_queue[ap_tail] = kind,
         ApNext(ap_tail) # ap_head, ap_tail' = ApNext(ap_tail), ap_head' = ap_head,
         ap_queue' = ap_queue, owed' = [owed EXCEPT ![kind] = @ + 1], NEW k \in A!Kinds
  PROVE  owed'[k] = Cardinality(Waiting(k)')
<1>1. /\ ap_tail \notin Waiting(k)
      /\ Waiting(k)' = IF kind = k THEN Waiting(k) \cup {ap_tail} ELSE Waiting(k)
  BY WaitingGrows DEF ApInv
<1>2. owed[k] = Cardinality(Waiting(k)) /\ IsFiniteSet(Waiting(k)) /\ owed \in [A!Kinds -> Nat]
  BY WaitingFinite DEF ApInv, ApTyped
<1>3. CASE kind = k
  <2>1. owed'[k] = owed[k] + 1
    BY <1>2, <1>3
  <2>2. Cardinality(Waiting(k)') = Cardinality(Waiting(k)) + 1
    BY <1>1, <1>2, <1>3, FS_AddElement
  <2> QED
    BY <1>2, <2>1, <2>2
<1>4. CASE kind # k
  BY <1>1, <1>2, <1>4
<1> QED
  BY <1>3, <1>4

LEMMA ApLoopInv == A!SoftApInputsOK /\ ApInv /\ A!Loop => ApInv'
<1> SUFFICES ASSUME A!SoftApInputsOK, ApInv, A!Loop PROVE ApInv'
  OBVIOUS
<1>0. /\ ApTyped /\ Claims(loop, "Press") /\ Claims(http, "Reboot") /\ OneWriter /\ Popping
      /\ loop \in LoopType /\ http \in HttpType /\ ap_head \in ApSlots /\ ap_tail \in ApSlots
      /\ ap_queue \in [ApSlots -> A!Kinds]
      /\ A!Advance(ap_tail) = ApNext(ap_tail) /\ ApNext(ap_tail) \in ApSlots
      /\ A!Advance(ap_head) = ApNext(ap_head) /\ ApNext(ap_head) \in ApSlots
  BY ApAdvance DEF ApInv, ApTyped
<1>1. CASE A!LoopPopTest
  <2>1. loop' = [loop EXCEPT !.pc = IF ap_head = ap_tail THEN "poll" ELSE "pop"]
        /\ UNCHANGED <<ap_queue, ap_head, ap_tail, http, owed>> /\ loop.pc = "drain"
    BY <1>1 DEF A!LoopPopTest
  <2> QED
    BY <1>0, <2>1, ApAlone DEF LoopType, Claims, OneWriter, Popping
<1>2. CASE A!LoopPopRead
  <2>1. loop' = [loop EXCEPT !.pc = "popped", !.cmd = ap_queue[ap_head]]
        /\ UNCHANGED <<ap_queue, ap_head, ap_tail, http, owed>> /\ loop.pc = "pop"
    BY <1>2 DEF A!LoopPopRead
  <2>2. ap_queue[ap_head] \in A!Kinds
    BY <1>0
  <2> QED
    BY <1>0, <2>1, <2>2, ApAlone DEF LoopType, Claims, OneWriter, Popping
<1>3. CASE A!LoopApply
  <2> DEFINE cmd == ap_queue[ap_head]
  <2>1. /\ loop' = [loop EXCEPT !.pc = IF cmd = "Reboot" THEN "reset" ELSE "drain"]
        /\ owed' = [owed EXCEPT ![cmd] = IF @ > 0 THEN @ - 1 ELSE 0]
        /\ ap_head' = ApNext(ap_head) /\ UNCHANGED <<ap_queue, ap_tail, http>>
        /\ loop.pc = "popped" /\ ap_head # ap_tail /\ cmd \in A!Kinds
    BY <1>0, <1>3 DEF A!LoopApply, Popping
  <2>2. ASSUME NEW k \in A!Kinds
        PROVE  owed'[k] = Cardinality(Waiting(k)')
    <3>1. /\ cmd = k => ap_head \in Waiting(k)
          /\ Waiting(k)' = IF cmd = k THEN Waiting(k) \ {ap_head} ELSE Waiting(k)
      BY <1>0, <2>1, WaitingShrinks
    <3>2. owed[k] = Cardinality(Waiting(k)) /\ Cardinality(Waiting(k)) \in Nat
          /\ IsFiniteSet(Waiting(k)) /\ owed \in [A!Kinds -> Nat]
      BY WaitingFinite DEF ApInv, ApTyped
    <3>3. CASE cmd = k
      <4>1. Cardinality(Waiting(k)') = owed[k] - 1
        BY <3>1, <3>2, <3>3, FS_RemoveElement
      <4>2. owed[k] > 0
        BY <3>1, <3>2, <3>3, FS_EmptySet
      <4> QED
        BY <2>1, <3>2, <3>3, <4>1, <4>2
    <3>4. CASE cmd # k
      BY <2>1, <3>1, <3>2, <3>4
    <3> QED
      BY <3>3, <3>4
  <2>3. owed' \in [A!Kinds -> Nat]
    BY <2>1 DEF ApInv, ApTyped
  <2>4. loop' \in LoopType /\ loop'.pc \in {"reset", "drain"}
    BY <1>0, <2>1 DEF LoopType
  <2>5. ApTyped'
    BY <1>0, <2>1, <2>3, <2>4 DEF ApTyped
  <2>6. Claims(http, "Reboot")'
    <3>1. ap_head' # ApNext(ap_tail)
      BY <1>0, <2>1, ApSize DEF ApNext, ApSlots
    <3> QED
      BY <1>0, <2>1, <3>1 DEF Claims
  <2> QED
    BY <2>2, <2>4, <2>5, <2>6 DEF ApInv, Claims, OneWriter, Popping
<1>4. CASE A!LoopPollNothing
  <2>1. loop' = [loop EXCEPT !.pc = "drain"] /\ UNCHANGED <<ap_queue, ap_head, ap_tail, http, owed>>
    BY <1>4 DEF A!LoopPollNothing
  <2> QED
    BY <1>0, <2>1, ApAlone DEF LoopType, Claims, OneWriter, Popping
<1>5. CASE A!LoopPress
  <2>1. /\ loop' = [loop EXCEPT !.pc = "full?", !.next = ApNext(ap_tail), !.slot = ap_tail]
        /\ UNCHANGED <<ap_queue, ap_head, ap_tail, http, owed>> /\ http.pc = "idle"
    BY <1>0, <1>5 DEF A!LoopPress, A!ReadTail
  <2> QED
    BY <1>0, <2>1, ApAlone DEF LoopType, Claims, OneWriter, Popping
<1>6. CASE A!LoopTestFull
  <2>1. /\ loop' = [loop EXCEPT !.pc = IF loop.next = ap_head THEN "drain" ELSE "write"]
        /\ UNCHANGED <<ap_queue, ap_head, ap_tail, http, owed>> /\ loop.pc = "full?"
    BY <1>6 DEF A!LoopTestFull, A!TestFull
  <2> QED
    BY <1>0, <2>1, ApAlone DEF LoopType, Claims, OneWriter, Popping
<1>7. CASE A!LoopWrite
  <2>1. /\ loop' = [loop EXCEPT !.pc = "publish"] /\ ap_queue' = [ap_queue EXCEPT ![ap_tail] = "Press"]
        /\ UNCHANGED <<ap_head, ap_tail, http, owed>> /\ loop.pc = "write"
    BY <1>0, <1>7 DEF A!LoopWrite, A!WriteSlot, Claims
  <2>2. ap_queue'[ap_tail] = "Press"
    BY <1>0, <2>1
  <2>3. /\ loop' \in LoopType /\ Claims(loop, "Press")' /\ Claims(http, "Reboot")' /\ OneWriter'
        /\ Popping'
    BY <1>0, <2>1, <2>2 DEF LoopType, Claims, OneWriter, Popping
  <2> QED
    BY <1>0, <2>1, <2>3, ApQuiet DEF A!Kinds
<1>8. CASE A!LoopPublish
  <2>1. /\ loop' = [loop EXCEPT !.pc = "drain"] /\ ap_tail' = ApNext(ap_tail)
        /\ owed' = [owed EXCEPT !["Press"] = @ + 1] /\ UNCHANGED <<ap_queue, ap_head, http>>
        /\ loop.pc = "publish" /\ ApNext(ap_tail) # ap_head /\ ap_queue[ap_tail] = "Press"
    BY <1>0, <1>8 DEF A!LoopPublish, Claims
  <2>2. ASSUME NEW k \in A!Kinds PROVE owed'[k] = Cardinality(Waiting(k)')
    BY <1>0, <2>1, PublishCounts DEF A!Kinds
  <2>3. owed' \in [A!Kinds -> Nat] /\ loop' \in LoopType /\ loop'.pc = "drain"
    BY <1>0, <2>1 DEF ApTyped, LoopType
  <2>4. http.pc \notin {"full?", "write", "publish"}
    BY <1>0, <2>1 DEF OneWriter
  <2>5. ApTyped'
    BY <1>0, <2>1, <2>3 DEF ApTyped
  <2> QED
    BY <2>1, <2>2, <2>3, <2>4, <2>5 DEF ApInv, Claims, OneWriter, Popping
<1> QED
  BY <1>1, <1>2, <1>3, <1>4, <1>5, <1>6, <1>7, <1>8 DEF A!Loop

LEMMA ApHttpInv == A!SoftApInputsOK /\ ApInv /\ A!Http => ApInv'
<1> SUFFICES ASSUME A!SoftApInputsOK, ApInv, A!Http PROVE ApInv'
  OBVIOUS
<1>0. /\ ApTyped /\ Claims(loop, "Press") /\ Claims(http, "Reboot") /\ OneWriter /\ Popping
      /\ loop \in LoopType /\ http \in HttpType /\ ap_head \in ApSlots /\ ap_tail \in ApSlots
      /\ ap_queue \in [ApSlots -> A!Kinds]
      /\ A!Advance(ap_tail) = ApNext(ap_tail) /\ ApNext(ap_tail) \in ApSlots
  BY ApAdvance DEF ApInv, ApTyped
<1>1. CASE A!HttpSave
  <2>1. http' = [http EXCEPT !.pc = "enqueue"] /\ UNCHANGED <<ap_queue, ap_head, ap_tail, loop, owed>>
        /\ loop.pc \notin {"full?", "write", "publish"}
    BY <1>1 DEF A!HttpSave
  <2> QED
    BY <1>0, <2>1, ApAlone DEF HttpType, Claims, OneWriter, Popping
<1>2. CASE A!HttpReadTail
  <2>1. /\ http' = [http EXCEPT !.pc = "full?", !.next = ApNext(ap_tail), !.slot = ap_tail]
        /\ UNCHANGED <<ap_queue, ap_head, ap_tail, loop, owed>> /\ http.pc = "enqueue"
    BY <1>0, <1>2 DEF A!HttpReadTail, A!ReadTail
  <2> QED
    BY <1>0, <2>1, ApAlone DEF HttpType, Claims, OneWriter, Popping
<1>3. CASE A!HttpTestFull
  <2>1. /\ http' = [http EXCEPT !.pc = IF http.next = ap_head THEN "answered" ELSE "write"]
        /\ UNCHANGED <<ap_queue, ap_head, ap_tail, loop, owed>> /\ http.pc = "full?"
    BY <1>3 DEF A!HttpTestFull, A!TestFull
  <2> QED
    BY <1>0, <2>1, ApAlone DEF HttpType, Claims, OneWriter, Popping
<1>4. CASE A!HttpWrite
  <2>1. /\ http' = [http EXCEPT !.pc = "publish"] /\ ap_queue' = [ap_queue EXCEPT ![ap_tail] = "Reboot"]
        /\ UNCHANGED <<ap_head, ap_tail, loop, owed>> /\ http.pc = "write"
    BY <1>0, <1>4 DEF A!HttpWrite, A!WriteSlot, Claims
  <2>2. ap_queue'[ap_tail] = "Reboot" /\ (ap_head # ap_tail => ap_queue'[ap_head] = ap_queue[ap_head])
    BY <1>0, <2>1
  <2>3. /\ http' \in HttpType /\ Claims(loop, "Press")' /\ Claims(http, "Reboot")' /\ OneWriter'
        /\ Popping'
    BY <1>0, <2>1, <2>2 DEF HttpType, Claims, OneWriter, Popping
  <2> QED
    BY <1>0, <2>1, <2>3, ApQuiet DEF A!Kinds
<1>5. CASE A!HttpPublish
  <2>1. /\ http' = [http EXCEPT !.pc = "answered"] /\ ap_tail' = ApNext(ap_tail)
        /\ owed' = [owed EXCEPT !["Reboot"] = @ + 1] /\ UNCHANGED <<ap_queue, ap_head, loop>>
        /\ http.pc = "publish" /\ ApNext(ap_tail) # ap_head /\ ap_queue[ap_tail] = "Reboot"
    BY <1>0, <1>5 DEF A!HttpPublish, Claims
  <2>2. ASSUME NEW k \in A!Kinds PROVE owed'[k] = Cardinality(Waiting(k)')
    BY <1>0, <2>1, PublishCounts DEF A!Kinds
  <2>3. owed' \in [A!Kinds -> Nat] /\ http' \in HttpType /\ http'.pc = "answered"
    BY <1>0, <2>1 DEF ApTyped, HttpType
  <2>4. loop.pc \notin {"full?", "write", "publish"}
    BY <1>0, <2>1 DEF OneWriter
  <2>5. ApTyped'
    BY <1>0, <2>1, <2>3 DEF ApTyped
  <2>6. Popping'
    BY <1>0, <2>1 DEF Popping
  <2> QED
    BY <2>1, <2>2, <2>3, <2>4, <2>5, <2>6 DEF ApInv, Claims, OneWriter
<1> QED
  BY <1>1, <1>2, <1>3, <1>4, <1>5 DEF A!Http

LEMMA ApStepInv == A!SoftApInputsOK /\ ApInv /\ [A!Next]_(A!vars) => ApInv'
<1> SUFFICES ASSUME A!SoftApInputsOK, ApInv, [A!Next]_(A!vars) PROVE ApInv'
  OBVIOUS
<1>1. CASE A!Reset \/ UNCHANGED A!vars
  <2>1. UNCHANGED <<ap_queue, ap_head, ap_tail, loop, http, owed>>
    BY <1>1 DEF A!Reset, A!vars
  <2> QED
    BY <2>1 DEF ApInv, ApTyped, Claims, OneWriter, Popping, Waiting, InUse
<1>2. CASE A!Loop
  BY <1>2, ApLoopInv
<1>3. CASE A!Http
  BY <1>3, ApHttpInv
<1> QED
  BY <1>1, <1>2, <1>3 DEF A!Next

\* What the loop has popped and not applied is still counted as waiting.
LEMMA ApNoReplay == A!SoftApInputsOK /\ ApInv => A!NoReplay
<1> SUFFICES ASSUME A!SoftApInputsOK, ApInv, loop.pc = "popped" PROVE owed[loop.cmd] > 0
  BY DEF A!NoReplay
<1>1. loop.cmd = ap_queue[ap_head] /\ ap_head # ap_tail /\ ap_head \in ApSlots /\ ap_tail \in ApSlots
      /\ loop.cmd \in A!Kinds
  BY DEF ApInv, ApTyped, Popping, LoopType
<1>2. ap_head \in Waiting(loop.cmd)
  BY <1>1 DEF Waiting, InUse, ApSlots
<1> QED
  BY <1>1, <1>2, WaitingFinite, FS_EmptySet DEF ApInv

LEMMA ApTypeOK == A!SoftApInputsOK /\ ApInv => A!TypeOK
<1> SUFFICES ASSUME A!SoftApInputsOK, ApInv PROVE A!TypeOK
  OBVIOUS
<1>1. owed \in [A!Kinds -> 0 .. ApQueueSize]
  <2>1. \A k \in A!Kinds : owed[k] \in 0 .. ApQueueSize
    BY WaitingFinite, ApSize DEF ApInv
  <2> QED
    BY <2>1 DEF ApInv, ApTyped
<1> QED
  BY <1>1 DEF ApInv, ApTyped, LoopType, HttpType, ApSlots, A!TypeOK, A!Slots

-----------------------------------------------------------------------------
(* The two threads as a queue of one step per request.                     *)

\* The indices without the modulo.
ApAt(n) == IF n < ApQueueSize THEN n ELSE n - ApQueueSize
ApUsed == IF ap_head <= ap_tail THEN ap_tail - ap_head ELSE ap_tail + ApQueueSize - ap_head

LEMMA ApModulo ==
  ASSUME A!SoftApInputsOK, NEW n \in Nat, n < 2 * ApQueueSize PROVE n % ApQueueSize = ApAt(n)
<1> DEFINE N == ApQueueSize
<1>1. N \in Nat /\ N >= 2 /\ n < 2 * N
  BY ApSize
<1> HIDE DEF N
<1>2. n % N = IF n < N THEN n ELSE n - N
  <2>1. CASE n < N
    BY <1>1, <2>1
  <2>2. CASE n >= N
    <3>1. n - N \in Nat /\ n - N < N /\ n = N * 1 + (n - N)
      BY <1>1, <2>2
    <3> QED
      BY <1>1, <2>2, <3>1
  <2> QED
    BY <1>1, <2>1, <2>2
<1> QED
  BY <1>2 DEF ApAt, N

ApContentsFacts ==
  /\ A!Used = ApUsed /\ ApUsed \in 0 .. ApQueueSize - 1
  /\ A!Contents \in Seq(A!Kinds) /\ Len(A!Contents) = ApUsed
  /\ \A i \in 1 .. ApUsed : A!Contents[i] = ap_queue[ApAt(ap_head + i - 1)]

LEMMA ApContents == A!SoftApInputsOK /\ ApTyped => ApContentsFacts
<1> SUFFICES ASSUME A!SoftApInputsOK, ApTyped PROVE ApContentsFacts
  OBVIOUS
<1>1. /\ ap_head \in 0 .. ApQueueSize - 1 /\ ap_tail \in 0 .. ApQueueSize - 1
      /\ ApQueueSize \in Nat /\ ApQueueSize >= 2 /\ ap_queue \in [0 .. ApQueueSize - 1 -> A!Kinds]
  BY ApSize DEF ApTyped, ApSlots
<1>2. A!Used = ApUsed
  <2>1. (ap_tail + ApQueueSize - ap_head) % ApQueueSize = ApAt(ap_tail + ApQueueSize - ap_head)
    BY <1>1, ApModulo
  <2> QED
    BY <1>1, <2>1 DEF A!Used, ApUsed, ApAt
<1>3. ApUsed \in 0 .. ApQueueSize - 1
  BY <1>1 DEF ApUsed
<1>4. ASSUME NEW i \in 1 .. ApUsed
      PROVE  /\ (ap_head + i - 1) % ApQueueSize = ApAt(ap_head + i - 1)
             /\ ApAt(ap_head + i - 1) \in 0 .. ApQueueSize - 1
  <2>1. (ap_head + i - 1) % ApQueueSize = ApAt(ap_head + i - 1)
    BY <1>1, <1>3, ApModulo
  <2> QED
    BY <1>1, <1>3, <2>1 DEF ApAt
<1>5. A!Contents = [i \in 1 .. ApUsed |-> ap_queue[ApAt(ap_head + i - 1)]]
  BY <1>2, <1>4 DEF A!Contents
<1>6. A!Contents \in [1 .. ApUsed -> A!Kinds]
  BY <1>1, <1>4, <1>5
<1>7. A!Contents \in Seq(A!Kinds) /\ Len(A!Contents) = ApUsed
  BY <1>3, <1>6
<1> QED
  BY <1>2, <1>3, <1>5, <1>7 DEF ApContentsFacts

\* A step that moves neither index and writes nothing but the free slot at the tail.
LEMMA ApKeeps ==
  ASSUME A!SoftApInputsOK, ApTyped, ApTyped', ap_head' = ap_head, ap_tail' = ap_tail, NEW kind,
         ap_queue' = ap_queue \/ ap_queue' = [ap_queue EXCEPT ![ap_tail] = kind]
  PROVE  A!Contents' = A!Contents
<1>1. ApContentsFacts /\ ApContentsFacts'
  BY ApContents, PTL
<1>2. ApUsed' = ApUsed
  BY DEF ApUsed
<1>3. ASSUME NEW i \in 1 .. ApUsed
      PROVE  ap_queue'[ApAt(ap_head + i - 1)] = ap_queue[ApAt(ap_head + i - 1)]
  BY ApSize DEF ApTyped, ApSlots, ApAt, ApUsed
<1>4. \A i \in 1 .. ApUsed : A!Contents'[i] = A!Contents[i]
  BY <1>1, <1>2, <1>3 DEF ApContentsFacts, ApAt
<1>5. /\ A!Contents \in Seq(A!Kinds) /\ Len(A!Contents) = ApUsed
      /\ A!Contents' \in Seq(A!Kinds) /\ Len(A!Contents') = ApUsed
  BY <1>1, <1>2 DEF ApContentsFacts
<1> QED
  BY <1>4, <1>5, SeqEqual

\* Publishing the slot at the tail.
LEMMA ApPuts ==
  ASSUME A!SoftApInputsOK, ApTyped, ApTyped', ap_head' = ap_head, ap_queue' = ap_queue,
         ap_tail' = ApNext(ap_tail), ApNext(ap_tail) # ap_head, NEW kind \in A!Kinds, ap_queue[ap_tail] = kind
  PROVE  /\ Len(A!Contents) + Len(<<kind>>) <= ApQueueSize - 1
         /\ A!Contents' = A!Contents \o <<kind>>
<1>1. ApContentsFacts /\ ApContentsFacts'
  BY ApContents, PTL
<1>2. /\ ap_head \in 0 .. ApQueueSize - 1 /\ ap_tail \in 0 .. ApQueueSize - 1
      /\ ApQueueSize \in Nat /\ ApQueueSize >= 2
  BY ApSize DEF ApTyped, ApSlots
<1>3. ApUsed' = ApUsed + 1
  BY <1>2 DEF ApUsed, ApNext
<1>4. ap_tail = ApAt(ap_head + (ApUsed + 1) - 1)
  BY <1>2 DEF ApUsed, ApAt
<1>5. /\ A!Contents \in Seq(A!Kinds) /\ Len(A!Contents) = ApUsed /\ ApUsed \in Nat
      /\ A!Contents' \in Seq(A!Kinds) /\ Len(A!Contents') = ApUsed + 1 /\ ApUsed + 1 <= ApQueueSize - 1
  BY <1>1, <1>2, <1>3 DEF ApContentsFacts
<1>6. /\ \A i \in 1 .. ApUsed : A!Contents'[i] = A!Contents[i]
      /\ A!Contents'[ApUsed + 1] = kind
  <2>1. /\ \A i \in 1 .. ApUsed : A!Contents[i] = ap_queue[ApAt(ap_head + i - 1)]
        /\ \A i \in 1 .. ApUsed + 1 : A!Contents'[i] = ap_queue[ApAt(ap_head + i - 1)]
    BY <1>1, <1>3 DEF ApContentsFacts, ApAt
  <2>2. ApUsed + 1 \in 1 .. ApUsed + 1 /\ \A i \in 1 .. ApUsed : i \in 1 .. ApUsed + 1
    BY <1>5
  <2>3. A!Contents'[ApUsed + 1] = ap_queue[ApAt(ap_head + (ApUsed + 1) - 1)]
    BY <2>1, <2>2
  <2> QED
    BY <1>4, <2>1, <2>2, <2>3
<1> HIDE DEF ApUsed
<1>7. <<kind>> \in Seq(A!Kinds) /\ Len(<<kind>>) = 1 /\ <<kind>>[1] = kind
  OBVIOUS
<1>8. /\ A!Contents \o <<kind>> \in Seq(A!Kinds) /\ Len(A!Contents \o <<kind>>) = ApUsed + 1
      /\ \A i \in 1 .. ApUsed + 1 :
           (A!Contents \o <<kind>>)[i] = IF i <= ApUsed THEN A!Contents[i] ELSE <<kind>>[i - ApUsed]
  BY <1>5, <1>7, ConcatProperties, ZenonT(60)
<1>9. ASSUME NEW i \in 1 .. ApUsed + 1 PROVE A!Contents'[i] = (A!Contents \o <<kind>>)[i]
  <2>1. CASE i <= ApUsed
    BY <1>5, <1>6, <1>8, <2>1
  <2>2. CASE i = ApUsed + 1
    BY <1>5, <1>6, <1>7, <1>8, <2>2
  <2> QED
    BY <1>5, <2>1, <2>2
<1>10. A!Contents' = A!Contents \o <<kind>>
  BY <1>5, <1>8, <1>9, SeqEqual
<1> QED
  BY <1>5, <1>7, <1>10

\* Moving the head.
LEMMA ApGets ==
  ASSUME A!SoftApInputsOK, ApTyped, ApTyped', ap_tail' = ap_tail, ap_queue' = ap_queue,
         ap_head' = ApNext(ap_head), ap_head # ap_tail
  PROVE  /\ A!Contents # <<>> /\ Head(A!Contents) = ap_queue[ap_head]
         /\ A!Contents' = Tail(A!Contents)
<1>1. ApContentsFacts /\ ApContentsFacts'
  BY ApContents, PTL
<1>2. /\ ap_head \in 0 .. ApQueueSize - 1 /\ ap_tail \in 0 .. ApQueueSize - 1
      /\ ApQueueSize \in Nat /\ ApQueueSize >= 2
  BY ApSize DEF ApTyped, ApSlots
<1>3. ApUsed >= 1 /\ ApUsed' = ApUsed - 1 /\ ApUsed \in Nat
  BY <1>2 DEF ApUsed, ApNext
<1>4. A!Contents[1] = ap_queue[ap_head]
  BY <1>1, <1>2, <1>3 DEF ApContentsFacts, ApAt
<1>5. ASSUME NEW i \in 1 .. ApUsed - 1 PROVE A!Contents'[i] = A!Contents[i + 1]
  <2>1. ApAt(ApNext(ap_head) + i - 1) = ApAt(ap_head + (i + 1) - 1)
    BY <1>2, <1>3 DEF ApAt, ApNext, ApUsed
  <2>2. A!Contents'[i] = ap_queue[ApAt(ApNext(ap_head) + i - 1)]
    BY <1>1, <1>3 DEF ApContentsFacts, ApAt
  <2>3. A!Contents[i + 1] = ap_queue[ApAt(ap_head + (i + 1) - 1)]
    BY <1>1, <1>3 DEF ApContentsFacts
  <2> QED
    BY <2>1, <2>2, <2>3
<1> HIDE DEF ApUsed
<1>6. /\ A!Contents \in Seq(A!Kinds) /\ Len(A!Contents) = ApUsed
      /\ A!Contents' \in Seq(A!Kinds) /\ Len(A!Contents') = ApUsed - 1
  BY <1>1, <1>3 DEF ApContentsFacts
<1>7. A!Contents # <<>>
  BY <1>3, <1>6, EmptySeq
<1>8. /\ Tail(A!Contents) \in Seq(A!Kinds) /\ Len(Tail(A!Contents)) = ApUsed - 1
      /\ Head(A!Contents) = A!Contents[1]
      /\ \A i \in 1 .. ApUsed - 1 : Tail(A!Contents)[i] = A!Contents[i + 1]
  BY <1>6, <1>7, HeadTailProperties
<1>9. \A i \in 1 .. ApUsed - 1 : A!Contents'[i] = Tail(A!Contents)[i]
  BY <1>5, <1>8
<1>10. A!Contents' = Tail(A!Contents)
  BY <1>6, <1>8, <1>9, SeqEqual
<1> QED
  BY <1>4, <1>7, <1>8, <1>10

\* The mapped state.
Running == loop.pc # "reset"
Save ==
  CASE http.pc = "idle" -> "none"
    [] http.pc = "answered" -> "answered"
    [] OTHER -> "asked"

\* What a step of CommandQueue, or a stutter, is in the mapped state.
AtomicStep ==
  \/ /\ UNCHANGED <<A!Contents, Running, Save>>
  \/ /\ Running /\ Len(A!Contents) + Len(<<"Press">>) <= ApQueueSize - 1
     /\ A!Contents' = A!Contents \o <<"Press">>
     /\ UNCHANGED <<Running, Save>>
  \/ /\ Running /\ Save = "none" /\ Save' = "asked" /\ UNCHANGED <<A!Contents, Running>>
  \/ /\ Running /\ Save = "asked"
     /\ \/ /\ Len(A!Contents) + Len(<<"Reboot">>) <= ApQueueSize - 1
           /\ A!Contents' = A!Contents \o <<"Reboot">>
        \/ Len(A!Contents) = ApQueueSize - 1 /\ A!Contents' = A!Contents
     /\ Save' = "answered"
     /\ UNCHANGED Running
  \/ /\ Running /\ A!Contents # <<>> /\ A!Contents' = Tail(A!Contents)
     /\ Running' = (Head(A!Contents) # "Reboot") /\ UNCHANGED Save

LEMMA AtomicStepIs == AtomicStep => [A!Atomic!Next]_(A!Atomic!vars)
<1> SUFFICES ASSUME AtomicStep PROVE [A!Atomic!Next]_(A!Atomic!vars)
  OBVIOUS
<1> QED
  BY DEF AtomicStep, Running, Save, A!Atomic!Next, A!Atomic!vars, A!Atomic!Press, A!Atomic!Ask,
     A!Atomic!Answer, A!Atomic!Apply, A!Atomic!Q!Put, A!Atomic!Q!Get

LEMMA ApLoopAtomic == A!SoftApInputsOK /\ ApInv /\ A!Loop => AtomicStep
<1> SUFFICES ASSUME A!SoftApInputsOK, ApInv, A!Loop PROVE AtomicStep
  OBVIOUS
<1>0. /\ ApTyped /\ ApTyped' /\ Claims(loop, "Press") /\ Claims(http, "Reboot") /\ OneWriter /\ Popping
      /\ loop \in LoopType /\ http \in HttpType /\ ap_head \in ApSlots /\ ap_tail \in ApSlots
      /\ A!Advance(ap_head) = ApNext(ap_head)
  <2>1. ApInv'
    BY ApLoopInv
  <2> QED
    BY <2>1, ApAdvance DEF ApInv, ApTyped
<1>1. CASE A!LoopPopTest \/ A!LoopPopRead \/ A!LoopPollNothing \/ A!LoopPress \/ A!LoopTestFull
  <2>1. UNCHANGED <<ap_queue, ap_head, ap_tail, http>> /\ loop.pc # "reset" /\ loop'.pc # "reset"
    BY <1>0, <1>1 DEF A!LoopPopTest, A!LoopPopRead, A!LoopPollNothing, A!LoopPress, A!LoopTestFull,
         A!ReadTail, A!TestFull, LoopType
  <2>2. A!Contents' = A!Contents
    BY <1>0, <2>1, ApKeeps
  <2> QED
    BY <2>1, <2>2 DEF AtomicStep, Running, Save
<1>2. CASE A!LoopWrite
  <2>1. /\ UNCHANGED <<ap_head, ap_tail, http>> /\ loop.pc # "reset" /\ loop'.pc # "reset"
        /\ ap_queue' = [ap_queue EXCEPT ![ap_tail] = "Press"]
    BY <1>0, <1>2 DEF A!LoopWrite, A!WriteSlot, Claims, LoopType
  <2>2. A!Contents' = A!Contents
    BY <1>0, <2>1, ApKeeps
  <2> QED
    BY <2>1, <2>2 DEF AtomicStep, Running, Save
<1>3. CASE A!LoopPublish
  <2>1. /\ UNCHANGED <<ap_queue, ap_head, http>> /\ loop.pc # "reset" /\ loop'.pc # "reset"
        /\ ap_tail' = ApNext(ap_tail) /\ ApNext(ap_tail) # ap_head /\ ap_queue[ap_tail] = "Press"
    BY <1>0, <1>3 DEF A!LoopPublish, Claims, LoopType
  <2>2. /\ Len(A!Contents) + Len(<<"Press">>) <= ApQueueSize - 1
        /\ A!Contents' = A!Contents \o <<"Press">>
    BY <1>0, <2>1, ApPuts DEF A!Kinds
  <2> QED
    BY <2>1, <2>2 DEF AtomicStep, Running, Save
<1>4. CASE A!LoopApply
  <2>1. /\ UNCHANGED <<ap_queue, ap_tail, http>> /\ ap_head' = ApNext(ap_head) /\ ap_head # ap_tail
        /\ loop.pc # "reset" /\ loop.cmd = ap_queue[ap_head]
        /\ loop'.pc = IF loop.cmd = "Reboot" THEN "reset" ELSE "drain"
    BY <1>0, <1>4 DEF A!LoopApply, Popping, LoopType
  <2>2. /\ A!Contents # <<>> /\ Head(A!Contents) = ap_queue[ap_head]
        /\ A!Contents' = Tail(A!Contents)
    BY <1>0, <2>1, ApGets
  <2> QED
    BY <2>1, <2>2 DEF AtomicStep, Running, Save
<1> QED
  BY <1>1, <1>2, <1>3, <1>4 DEF A!Loop

LEMMA ApHttpAtomic == A!SoftApInputsOK /\ ApInv /\ A!Http => AtomicStep
<1> SUFFICES ASSUME A!SoftApInputsOK, ApInv, A!Http PROVE AtomicStep
  OBVIOUS
<1>0. /\ ApTyped /\ ApTyped' /\ Claims(http, "Reboot") /\ http \in HttpType
      /\ ap_head \in ApSlots /\ ap_tail \in ApSlots
  <2>1. ApInv'
    BY ApHttpInv
  <2> QED
    BY <2>1 DEF ApInv, ApTyped
<1>a. UNCHANGED <<ap_head, loop>> /\ loop.pc # "reset"
  BY DEF A!Http, A!HttpSave, A!HttpReadTail, A!HttpTestFull, A!HttpWrite, A!HttpPublish
<1>1. CASE A!HttpSave
  <2>1. UNCHANGED <<ap_queue, ap_tail>> /\ http.pc = "idle" /\ http'.pc = "enqueue"
    BY <1>0, <1>1 DEF A!HttpSave, HttpType
  <2>2. A!Contents' = A!Contents
    BY <1>0, <1>a, <2>1, ApKeeps
  <2> QED
    BY <1>a, <2>1, <2>2 DEF AtomicStep, Running, Save
<1>2. CASE A!HttpReadTail \/ A!HttpWrite
  <2>1. /\ ap_tail' = ap_tail /\ http.pc \in {"enqueue", "write"} /\ http'.pc \in {"full?", "publish"}
        /\ ap_queue' = ap_queue \/ ap_queue' = [ap_queue EXCEPT ![ap_tail] = "Reboot"]
    BY <1>0, <1>2 DEF A!HttpReadTail, A!ReadTail, A!HttpWrite, A!WriteSlot, Claims, HttpType
  <2>2. A!Contents' = A!Contents
    BY <1>0, <1>a, <2>1, ApKeeps
  <2> QED
    BY <1>a, <2>1, <2>2 DEF AtomicStep, Running, Save
<1>3. CASE A!HttpTestFull
  <2>1. /\ UNCHANGED <<ap_queue, ap_tail>> /\ http.pc = "full?" /\ http.next = ApNext(ap_tail)
        /\ http'.pc = IF http.next = ap_head THEN "answered" ELSE "write"
    BY <1>0, <1>3 DEF A!HttpTestFull, A!TestFull, Claims, HttpType
  <2>2. A!Contents' = A!Contents
    BY <1>0, <1>a, <2>1, ApKeeps
  <2>3. ApNext(ap_tail) = ap_head => Len(A!Contents) = ApQueueSize - 1
    <3>1. ApNext(ap_tail) = ap_head => ApUsed = ApQueueSize - 1
      BY <1>0, ApSize DEF ApNext, ApUsed, ApSlots
    <3> QED
      BY <1>0, <3>1, ApContents DEF ApContentsFacts
  <2>4. CASE http.next = ap_head
    BY <1>a, <2>1, <2>2, <2>3, <2>4 DEF AtomicStep, Running, Save
  <2>5. CASE http.next # ap_head
    BY <1>a, <2>1, <2>2, <2>5 DEF AtomicStep, Running, Save
  <2> QED
    BY <2>4, <2>5
<1>4. CASE A!HttpPublish
  <2>1. /\ UNCHANGED <<ap_queue>> /\ http.pc = "publish" /\ http'.pc = "answered"
        /\ ap_tail' = ApNext(ap_tail) /\ ApNext(ap_tail) # ap_head /\ ap_queue[ap_tail] = "Reboot"
    BY <1>0, <1>4 DEF A!HttpPublish, Claims, HttpType
  <2>2. /\ Len(A!Contents) + Len(<<"Reboot">>) <= ApQueueSize - 1
        /\ A!Contents' = A!Contents \o <<"Reboot">>
    BY <1>0, <1>a, <2>1, ApPuts DEF A!Kinds
  <2> QED
    BY <1>a, <2>1, <2>2 DEF AtomicStep, Running, Save
<1> QED
  BY <1>1, <1>2, <1>3, <1>4 DEF A!Http

LEMMA ApStepAtomic ==
  A!SoftApInputsOK /\ ApInv /\ [A!Next]_(A!vars) => [A!Atomic!Next]_(A!Atomic!vars)
<1> SUFFICES ASSUME A!SoftApInputsOK, ApInv, [A!Next]_(A!vars)
             PROVE  [A!Atomic!Next]_(A!Atomic!vars)
  OBVIOUS
<1>1. CASE A!Reset \/ UNCHANGED A!vars
  <2>1. UNCHANGED <<ap_queue, ap_head, ap_tail, loop, http>>
    BY <1>1 DEF A!Reset, A!vars
  <2>2. AtomicStep
    BY <2>1 DEF AtomicStep, Running, Save, A!Contents, A!Used
  <2> QED
    BY <2>2, AtomicStepIs
<1>2. CASE A!Loop
  BY <1>2, ApLoopAtomic, AtomicStepIs
<1>3. CASE A!Http
  BY <1>3, ApHttpAtomic, AtomicStepIs
<1> QED
  BY <1>1, <1>2, <1>3 DEF A!Next

LEMMA ApInitAtomic == A!SoftApInputsOK /\ A!Init => A!Atomic!Init
<1> SUFFICES ASSUME A!SoftApInputsOK, A!Init PROVE A!Atomic!Init
  OBVIOUS
<1>1. ApTyped
  BY ApInit DEF ApInv
<1>2. ApUsed = 0
  BY <1>1, ApSize DEF A!Init, ApUsed, ApTyped, ApSlots
<1>3. A!Contents = <<>>
  BY <1>1, <1>2, ApContents, EmptySeq DEF ApContentsFacts
<1>4. loop.pc = "drain" /\ http.pc = "idle"
  BY DEF A!Init
<1> QED
  BY <1>3, <1>4 DEF A!Atomic!Init, A!Atomic!Q!Init

-----------------------------------------------------------------------------
(* What the page promised is waiting.                                      *)

\* Until the request is answered at most one press waits, and none while the loop polls.
Room ==
  http.pc # "answered" =>
    /\ ApUsed <= 1
    /\ loop.pc \in {"poll", "full?", "write", "publish"} => ApUsed = 0

Promised == http.pc = "answered" => loop.pc = "reset" \/ Waiting("Reboot") # {}

PageKept == ApInv /\ Room /\ Promised

LEMMA PageKeptInit == A!SoftApInputsOK /\ A!Init => PageKept
<1> SUFFICES ASSUME A!SoftApInputsOK, A!Init PROVE PageKept
  OBVIOUS
<1>1. ApInv
  BY ApInit
<1>2. ApUsed = 0
  BY <1>1, ApSize DEF A!Init, ApUsed, ApInv, ApTyped, ApSlots
<1> QED
  BY <1>1, <1>2 DEF A!Init, PageKept, Room, Promised

LEMMA PageKeptLoop ==
  ASSUME A!SoftApInputsOK, PageKept, A!Loop PROVE Room' /\ Promised'
<1>0. /\ ApTyped /\ Claims(loop, "Press") /\ Popping /\ Room /\ Promised
      /\ loop \in LoopType /\ ap_head \in ApSlots /\ ap_tail \in ApSlots
      /\ A!Advance(ap_head) = ApNext(ap_head) /\ http' = http
      /\ ApQueueSize \in Nat /\ ApQueueSize >= 2
  BY ApAdvance, ApSize DEF PageKept, ApInv, ApTyped, A!Loop, A!LoopPopTest, A!LoopPopRead, A!LoopApply,
       A!LoopPollNothing, A!LoopPress, A!LoopTestFull, A!LoopWrite, A!LoopPublish
<1>1. CASE A!LoopPopTest \/ A!LoopPopRead \/ A!LoopPollNothing \/ A!LoopPress \/ A!LoopTestFull \/ A!LoopWrite
  <2>1. /\ UNCHANGED <<ap_head, ap_tail>> /\ loop.pc # "reset"
        /\ ap_queue' = ap_queue \/ ap_queue' = [ap_queue EXCEPT ![ap_tail] = "Press"]
        /\ loop'.pc \in {"poll", "full?", "write", "publish"} =>
             ap_head = ap_tail \/ loop.pc \in {"poll", "full?", "write", "publish"}
    BY <1>0, <1>1 DEF A!LoopPopTest, A!LoopPopRead, A!LoopPollNothing, A!LoopPress, A!LoopTestFull,
         A!LoopWrite, A!ReadTail, A!TestFull, A!WriteSlot, Claims, LoopType
  <2>2. Waiting("Reboot")' = Waiting("Reboot")
    BY <1>0, <2>1, WaitingKept
  <2>3. ApUsed' = ApUsed /\ (ap_head = ap_tail => ApUsed = 0)
    BY <1>0, <2>1 DEF ApUsed, ApSlots
  <2> QED
    BY <1>0, <2>1, <2>2, <2>3 DEF Room, Promised
<1>2. CASE A!LoopPublish
  <2>1. /\ UNCHANGED <<ap_queue, ap_head>> /\ ap_tail' = ApNext(ap_tail) /\ ApNext(ap_tail) # ap_head
        /\ loop.pc = "publish" /\ loop'.pc = "drain"
    BY <1>0, <1>2 DEF A!LoopPublish, Claims, LoopType
  <2>2. Waiting("Reboot") \subseteq Waiting("Reboot")'
    BY <1>0, <2>1, WaitingGrows
  <2>3. ApUsed' = ApUsed + 1
    BY <1>0, <2>1 DEF ApUsed, ApNext, ApSlots
  <2> QED
    BY <1>0, <2>1, <2>2, <2>3 DEF Room, Promised
<1>3. CASE A!LoopApply
  <2>1. /\ UNCHANGED <<ap_queue, ap_tail>> /\ ap_head' = ApNext(ap_head) /\ ap_head # ap_tail
        /\ loop.pc = "popped" /\ loop'.pc = IF ap_queue[ap_head] = "Reboot" THEN "reset" ELSE "drain"
    BY <1>0, <1>3 DEF A!LoopApply, Popping, LoopType
  <2>2. ap_queue[ap_head] # "Reboot" => Waiting("Reboot")' = Waiting("Reboot")
    BY <1>0, <2>1, WaitingShrinks
  <2>3. ApUsed' = ApUsed - 1 /\ ApUsed \in Nat
    BY <1>0, <2>1 DEF ApUsed, ApNext, ApSlots
  <2> QED
    BY <1>0, <2>1, <2>2, <2>3 DEF Room, Promised
<1> QED
  BY <1>1, <1>2, <1>3 DEF A!Loop

LEMMA PageKeptHttp ==
  ASSUME A!SoftApInputsOK, ApQueueSize >= 3, PageKept, A!Http PROVE Room' /\ Promised'
<1>0. /\ ApTyped /\ Claims(http, "Reboot") /\ Room /\ Promised
      /\ http \in HttpType /\ ap_head \in ApSlots /\ ap_tail \in ApSlots
      /\ ap_head' = ap_head /\ loop' = loop /\ ApQueueSize \in Nat
  BY ApSize DEF PageKept, ApInv, ApTyped, A!Http, A!HttpSave, A!HttpReadTail, A!HttpTestFull, A!HttpWrite,
       A!HttpPublish
<1>1. CASE A!HttpPublish
  <2>1. /\ ap_queue' = ap_queue /\ ap_tail' = ApNext(ap_tail) /\ ApNext(ap_tail) # ap_head
        /\ ap_queue[ap_tail] = "Reboot" /\ http'.pc = "answered"
    BY <1>0, <1>1 DEF A!HttpPublish, Claims, HttpType
  <2>2. Waiting("Reboot")' # {}
    BY <1>0, <2>1, WaitingGrows
  <2> QED
    BY <2>1, <2>2 DEF Room, Promised
<1>2. CASE A!HttpTestFull
  \* One press leaves room for the reboot.
  <2>1. ApNext(ap_tail) # ap_head
    BY <1>0, <1>2 DEF A!HttpTestFull, Room, ApUsed, ApNext, ApSlots
  <2>2. /\ UNCHANGED <<ap_queue, ap_tail>> /\ http.pc = "full?" /\ http'.pc = "write"
    BY <1>0, <1>2, <2>1 DEF A!HttpTestFull, A!TestFull, Claims, HttpType
  <2> QED
    BY <1>0, <2>2 DEF Room, Promised, ApUsed
<1>3. CASE A!HttpSave \/ A!HttpReadTail \/ A!HttpWrite
  <2>1. ap_tail' = ap_tail /\ http.pc # "answered" /\ http'.pc # "answered"
    BY <1>0, <1>3 DEF A!HttpSave, A!HttpReadTail, A!ReadTail, A!HttpWrite, HttpType
  <2> QED
    BY <1>0, <2>1 DEF Room, Promised, ApUsed
<1> QED
  BY <1>1, <1>2, <1>3 DEF A!Http

LEMMA PageKeptStep ==
  A!SoftApInputsOK /\ ApQueueSize >= 3 /\ PageKept /\ [A!Next]_(A!vars) => PageKept'
<1> SUFFICES ASSUME A!SoftApInputsOK, ApQueueSize >= 3, PageKept, [A!Next]_(A!vars) PROVE PageKept'
  OBVIOUS
<1>1. ApInv'
  BY ApStepInv DEF PageKept
<1>2. CASE A!Loop
  BY <1>1, <1>2, PageKeptLoop DEF PageKept
<1>3. CASE A!Http
  BY <1>1, <1>3, PageKeptHttp DEF PageKept
<1>4. CASE A!Reset \/ UNCHANGED A!vars
  <2>1. UNCHANGED <<ap_queue, ap_head, ap_tail, loop, http>>
    BY <1>4 DEF A!Reset, A!vars
  <2>2. Room' /\ Promised'
    BY <2>1 DEF PageKept, Room, Promised, ApUsed, Waiting, InUse
  <2> QED
    BY <1>1, <2>2 DEF PageKept
<1> QED
  BY <1>2, <1>3, <1>4 DEF A!Next

LEMMA PageKeptIsQueued == A!SoftApInputsOK /\ PageKept => A!RebootIsQueued
<1> SUFFICES ASSUME A!SoftApInputsOK, PageKept, http.pc = "answered", loop.pc # "reset"
             PROVE  \E i \in 1 .. A!Used : A!Contents[i] = "Reboot"
  BY DEF A!RebootIsQueued
<1>1. PICK s \in ApSlots : InUse(s) /\ ap_queue[s] = "Reboot"
  BY DEF PageKept, Promised, Waiting
<1> DEFINE i == IF ap_head <= s THEN s - ap_head + 1 ELSE s + ApQueueSize - ap_head + 1
<1>2. ApTyped /\ ap_head \in ApSlots /\ ap_tail \in ApSlots /\ ApQueueSize \in Nat
  BY ApSize DEF PageKept, ApInv, ApTyped
<1>3. i \in 1 .. ApUsed /\ ApAt(ap_head + i - 1) = s
  BY <1>1, <1>2 DEF InUse, ApUsed, ApAt, ApSlots
<1> HIDE DEF i
<1> QED
  BY <1>1, <1>2, <1>3, ApContents DEF ApContentsFacts

-----------------------------------------------------------------------------
(* The publish queue.  A message leaves within MessageMs of the one before *)
(* it, so the queue holds at most what the two kinds of burst still owe:   *)
(* of the time a burst's messages need, a share runs off as the time to    *)
(* the next burst of its kind does, and the two shares together run off no *)
(* faster than messages leave.                                             *)

StateLen == Len(StateTopics)
HealthLen == Len(HealthTopics)
Message == [topic : P!ToSet(StateTopics) \cup P!ToSet(HealthTopics), value : Values]
Timers == {"publish", "state", "report", "health"}

\* A common denominator of the two shares, and the shares.
Whole == StateGapMs * HealthMs
StateShare == P!MessageMs * StateLen * HealthMs
HealthShare == P!MessageMs * HealthLen * StateGapMs

MqTyped ==
  /\ pc \in {"loop", "mqtt", "report", "health", "publish"}
  /\ field \in Values /\ dirty_publish \in BOOLEAN
  /\ mq_queue \in Seq(Message) /\ Len(mq_queue) <= MqQueueSize - 1
  /\ publish_drop_count \in 0 .. CountRange - 1
  /\ age \in [Timers -> Nat] /\ \A t \in Timers : age[t] <= P!Limit[t]
  /\ session \in BOOLEAN /\ drained \in BOOLEAN /\ told \in BOOLEAN

\* What the bursts still owe, in units of a millisecond over Whole.
Owed == StateShare * (StateGapMs - age["state"]) + HealthShare * (HealthMs - age["health"])

\* How much of its time the next message has waited already.
Credit ==
  IF age["publish"] # PublishGapMs THEN age["publish"]
  ELSE IF pc = "mqtt" THEN P!MessageMs ELSE 0

Backlog == Whole * (P!MessageMs * Len(mq_queue))

MqInv == MqTyped /\ (drained => Backlog <= Owed + Whole * Credit)

LEMMA TimesMonotonic ==
  ASSUME NEW a \in Nat, NEW x \in Int, NEW y \in Int, x <= y PROVE a * x <= a * y
OBVIOUS

\* The shares of dt milliseconds are no more than dt of them.
LEMMA SharesPass ==
  ASSUME NEW a \in Nat, NEW b \in Nat, NEW n \in Nat, a + b <= n, NEW dt \in Nat,
         NEW x \in Int, NEW y \in Int, NEW x1 \in Int, NEW y1 \in Int, x1 <= x + dt, y1 <= y + dt,
         NEW g \in Int, NEW k \in Int
  PROVE  a * (g - x) + b * (k - y) <= a * (g - x1) + b * (k - y1) + n * dt
<1>1. a * x1 <= a * (x + dt) /\ b * y1 <= b * (y + dt)
  BY TimesMonotonic
<1>2. dt * (a + b) <= dt * n
  BY TimesMonotonic
<1>3. /\ a * (x + dt) = a * x + a * dt /\ b * (y + dt) = b * y + b * dt
      /\ dt * (a + b) = a * dt + b * dt /\ dt * n = n * dt
      /\ a * (g - x) = a * g - a * x /\ a * (g - x1) = a * g - a * x1
      /\ b * (k - y) = b * k - b * y /\ b * (k - y1) = b * k - b * y1
  OBVIOUS
<1>4. /\ a * x \in Int /\ a * x1 \in Int /\ a * dt \in Int /\ a * g \in Int
      /\ b * y \in Int /\ b * y1 \in Int /\ b * dt \in Int /\ b * k \in Int /\ n * dt \in Int
  OBVIOUS
<1> QED
  BY <1>1, <1>2, <1>3, <1>4

\* What is behind by less than one message more than len is behind by len at most.
LEMMA WholeMessages ==
  ASSUME NEW n \in Nat \ {0}, NEW t \in Nat \ {0}, NEW q \in Nat, NEW len \in Nat, NEW c \in Nat, c < t,
         n * (t * q) <= n * (t * len) + n * c
  PROVE  q <= len
<1> SUFFICES ASSUME len + 1 <= q PROVE FALSE
  OBVIOUS
<1>1. t * (len + 1) <= t * q /\ t * (len + 1) = t * len + t
  BY TimesMonotonic
<1>2. t * len \in Nat /\ t * q \in Nat
  OBVIOUS
<1>3. t * len + c + 1 <= t * q
  BY <1>1, <1>2
<1>4. n * (t * len + c + 1) <= n * (t * q)
  BY <1>2, <1>3, TimesMonotonic
<1> DEFINE x == t * len
           y == t * q
<1> HIDE DEF x, y
<1>5. n * (x + c + 1) = n * x + n * c + n /\ n * x \in Int /\ n * c \in Int /\ n * y \in Int
  BY <1>2 DEF x, y
<1> QED
  BY <1>4, <1>5 DEF x, y

LEMMA MqNumbers ==
  /\ {PublishGapMs, StateGapMs, ReportMs, HealthMs, CountRange} \subseteq Nat \ {0}
  /\ MqQueueSize \in Nat /\ StateLen \in Nat /\ HealthLen \in Nat
  /\ StateLen + HealthLen <= MqQueueSize - 1
  /\ P!MessageMs \in Nat \ {0} /\ PublishGapMs <= P!MessageMs
  /\ \A dt \in TickSteps : dt \in Nat /\ PublishGapMs + dt - 1 <= P!MessageMs
  /\ Whole \in Nat \ {0} /\ StateShare \in Nat /\ HealthShare \in Nat
  /\ StateShare + HealthShare <= Whole
  /\ StateShare * StateGapMs = Whole * (P!MessageMs * StateLen)
  /\ HealthShare * HealthMs = Whole * (P!MessageMs * HealthLen)
<1>0. P!PublishInputsOK /\ P!PaceOK
  BY PartsInputsOK DEF PartsInputsOK
<1>1. /\ {PublishGapMs, StateGapMs, ReportMs, HealthMs, CountRange} \subseteq Nat \ {0}
      /\ MqQueueSize \in Nat /\ StateLen \in Nat /\ HealthLen \in Nat
      /\ StateLen + HealthLen <= MqQueueSize - 1
  BY <1>0, LenProperties DEF P!PublishInputsOK, P!PaceOK, StateLen, HealthLen
<1>2. PICK m \in TickSteps : \A dt \in TickSteps : m >= dt
  BY <1>0 DEF P!PaceOK
<1>3. P!Max(TickSteps) \in TickSteps /\ \A dt \in TickSteps : P!Max(TickSteps) >= dt
  BY <1>2 DEF P!Max
<1>4. TickSteps \subseteq Nat \ {0}
  BY <1>0 DEF P!PublishInputsOK
<1>5. P!MessageMs = PublishGapMs + P!Max(TickSteps) - 1
  BY DEF P!MessageMs
<1> DEFINE max == P!Max(TickSteps)
<1>a. max \in Nat \ {0} /\ PublishGapMs \in Nat \ {0} /\ \A dt \in TickSteps : dt \in Nat /\ max >= dt
  BY <1>1, <1>3, <1>4
<1>b. P!MessageMs = PublishGapMs + max - 1
  BY <1>5
<1> HIDE DEF max
<1>6. P!MessageMs \in Nat \ {0} /\ PublishGapMs <= P!MessageMs
  BY <1>a, <1>b
<1>7. \A dt \in TickSteps : dt \in Nat /\ PublishGapMs + dt - 1 <= P!MessageMs
  BY <1>a, <1>b, <1>6
<1> DEFINE t == P!MessageMs
           s == StateLen
           h == HealthLen
<1>8. t \in Nat \ {0} /\ s \in Nat /\ h \in Nat /\ StateGapMs \in Nat \ {0} /\ HealthMs \in Nat \ {0}
  BY <1>1, <1>6
<1>9. StateShare + HealthShare <= Whole
  BY <1>0 DEF P!PaceOK, StateShare, HealthShare, Whole, StateLen, HealthLen
<1> HIDE DEF t, s, h
<1>10. StateGapMs * HealthMs \in Nat \ {0} /\ t * s * HealthMs \in Nat /\ t * h * StateGapMs \in Nat
  BY <1>8
<1>11. /\ (t * s * HealthMs) * StateGapMs = (StateGapMs * HealthMs) * (t * s)
       /\ (t * h * StateGapMs) * HealthMs = (StateGapMs * HealthMs) * (t * h)
  BY <1>8
<1>12. Whole \in Nat \ {0} /\ StateShare \in Nat /\ HealthShare \in Nat
  BY <1>10 DEF Whole, StateShare, HealthShare, t, s, h
<1>13. /\ StateShare * StateGapMs = Whole * (P!MessageMs * StateLen)
       /\ HealthShare * HealthMs = Whole * (P!MessageMs * HealthLen)
  BY <1>11 DEF Whole, StateShare, HealthShare, t, s, h
<1> QED
  BY <1>1, <1>6, <1>7, <1>9, <1>12, <1>13

\* The ages, their limits and what follows from them.
AgesFacts ==
  /\ \A t \in Timers : age[t] \in Nat /\ age[t] <= P!Limit[t]
  /\ P!Limit["publish"] = PublishGapMs /\ P!Limit["state"] = StateGapMs
  /\ P!Limit["report"] = ReportMs /\ P!Limit["health"] = HealthMs
  /\ DOMAIN P!Limit = Timers /\ Timers = {"publish", "state", "report", "health"}
  /\ Len(mq_queue) \in Nat /\ Backlog \in Nat /\ Owed \in Nat /\ Credit \in Nat
  /\ Whole * Credit \in Nat /\ age["publish"] <= PublishGapMs

LEMMA MqAges == MqTyped => AgesFacts
<1> SUFFICES ASSUME MqTyped PROVE AgesFacts
  OBVIOUS
<1>1. /\ \A t \in Timers : age[t] \in Nat /\ age[t] <= P!Limit[t]
      /\ P!Limit["publish"] = PublishGapMs /\ P!Limit["state"] = StateGapMs
      /\ P!Limit["report"] = ReportMs /\ P!Limit["health"] = HealthMs
      /\ DOMAIN P!Limit = Timers /\ Timers = {"publish", "state", "report", "health"}
  BY DEF MqTyped, P!Limit, Timers
<1>2. Len(mq_queue) \in Nat
  BY LenProperties DEF MqTyped
<1>3. Credit \in Nat
  BY <1>1, MqNumbers DEF Credit
<1>4. /\ StateGapMs - age["state"] \in Nat /\ HealthMs - age["health"] \in Nat
      /\ age["publish"] <= PublishGapMs
  BY <1>1, MqNumbers
<1>5. \A a, b \in Nat : a * b \in Nat
  OBVIOUS
<1>6. Owed \in Nat
  <2>1. /\ StateShare * (StateGapMs - age["state"]) \in Nat
        /\ HealthShare * (HealthMs - age["health"]) \in Nat
    BY <1>4, <1>5, MqNumbers
  <2> QED
    BY <2>1 DEF Owed
<1>7. Backlog \in Nat /\ Whole * Credit \in Nat
  <2>1. P!MessageMs * Len(mq_queue) \in Nat
    BY <1>2, <1>5, MqNumbers
  <2> QED
    BY <1>3, <1>5, <2>1, MqNumbers DEF Backlog
<1> QED
  BY <1>1, <1>2, <1>3, <1>4, <1>6, <1>7 DEF AgesFacts

\* An empty queue is behind by nothing.
MqEmpty == mq_queue = <<>>

LEMMA EmptyInv == MqTyped /\ MqEmpty => MqInv
<1> SUFFICES ASSUME MqTyped, mq_queue = <<>> PROVE MqInv
  BY DEF MqEmpty
<1>1. Backlog = 0
  <2>1. Len(mq_queue) = 0 /\ P!MessageMs \in Nat /\ Whole \in Nat
    BY MqNumbers
  <2> QED
    BY <2>1 DEF Backlog
<1> QED
  BY <1>1, MqAges DEF MqInv, AgesFacts

LEMMA MqInit == P!Init => MqInv
<1> SUFFICES ASSUME P!Init PROVE MqInv
  OBVIOUS
<1>1. mq_queue = <<>> /\ mq_queue \in Seq(Message) /\ Len(mq_queue) = 0
  BY DEF P!Init
<1>2. age \in [Timers -> Nat] /\ \A t \in Timers : age[t] <= P!Limit[t]
  <2>1. age = [t \in Timers |-> 0]
    BY DEF P!Init, P!Limit, Timers
  <2>2. \A t \in Timers : P!Limit[t] \in Nat
    BY MqNumbers DEF P!Limit, Timers
  <2> QED
    BY <2>1, <2>2
<1>3. 0 \in 0 .. CountRange - 1 /\ 0 <= MqQueueSize - 1
  BY MqNumbers
<1>4. MqTyped
  BY <1>1, <1>2, <1>3 DEF P!Init, MqTyped
<1> QED
  BY <1>1, <1>4, EmptyInv DEF MqEmpty

\* What an offer of topics does to the queue.
LEMMA Offered ==
  ASSUME MqTyped, NEW topics, topics \in {StateTopics, HealthTopics},
         P!EnqueueAll(topics, field)
  PROVE  /\ mq_queue' \in Seq(Message) /\ Len(mq_queue') <= MqQueueSize - 1
         /\ publish_drop_count' \in 0 .. CountRange - 1
         /\ Len(mq_queue') >= Len(mq_queue)
         /\ \A i \in 1 .. Len(mq_queue) : mq_queue'[i] = mq_queue[i]
         /\ \A i \in 1 .. Len(mq_queue') : i > Len(mq_queue) =>
              mq_queue'[i] = [topic |-> topics[i - Len(mq_queue)], value |-> field]
         /\ Len(mq_queue) + Len(topics) <= MqQueueSize - 1 =>
              Len(mq_queue') = Len(mq_queue) + Len(topics)
<1> DEFINE room == P!Capacity - Len(mq_queue)
           fit == IF Len(topics) <= room THEN Len(topics) ELSE room
           new == [i \in 1 .. fit |-> [topic |-> topics[i], value |-> field]]
<1>1. /\ topics \in Seq(P!ToSet(StateTopics) \cup P!ToSet(HealthTopics)) /\ Len(topics) \in Nat
      /\ Len(mq_queue) \in Nat /\ MqQueueSize \in Nat /\ P!Capacity = MqQueueSize - 1
      /\ CountRange \in Nat \ {0} /\ publish_drop_count \in Nat
      /\ mq_queue \in Seq(Message) /\ Len(mq_queue) <= MqQueueSize - 1
  <2>1. topics \in Seq(P!ToSet(StateTopics) \cup P!ToSet(HealthTopics))
    BY PartsInputsOK, SeqMonotonic DEF PartsInputsOK, P!PublishInputsOK
  <2> QED
    BY <2>1, LenProperties, MqNumbers DEF MqTyped, P!Capacity
<1>2. room \in Nat /\ fit \in Nat /\ fit <= Len(topics) /\ Len(mq_queue) + fit <= MqQueueSize - 1
  BY <1>1
<1>3. /\ mq_queue' = mq_queue \o new
      /\ publish_drop_count' = (publish_drop_count + Len(topics) - fit) % CountRange
  BY DEF P!EnqueueAll
<1> HIDE DEF room, fit
<1>4. new \in Seq(Message) /\ Len(new) = fit
  <2>1. \A i \in 1 .. fit : [topic |-> topics[i], value |-> field] \in Message
    <3>1. \A i \in 1 .. fit : i \in 1 .. Len(topics)
      BY <1>1, <1>2
    <3>2. \A i \in 1 .. Len(topics) : topics[i] \in P!ToSet(StateTopics) \cup P!ToSet(HealthTopics)
      BY <1>1, ElementOfSeq
    <3> QED
      BY <3>1, <3>2 DEF Message, MqTyped
  <2>2. new \in [1 .. fit -> Message]
    BY <2>1
  <2> QED
    BY <1>2, <2>2, IsASeq
<1> HIDE DEF new
<1>5. mq_queue' \in Seq(Message) /\ Len(mq_queue') = Len(mq_queue) + fit
  BY <1>1, <1>3, <1>4, ConcatProperties
<1>6. publish_drop_count' \in 0 .. CountRange - 1
  <2>1. publish_drop_count + Len(topics) - fit \in Int
    BY <1>1, <1>2
  <2> QED
    BY <1>1, <1>3, <2>1
<1>7. Len(mq_queue) + Len(topics) <= MqQueueSize - 1 => fit = Len(topics)
  BY <1>1 DEF fit, room
<1>8. /\ \A i \in 1 .. Len(mq_queue) : mq_queue'[i] = mq_queue[i]
      /\ \A i \in 1 .. Len(mq_queue') : i > Len(mq_queue) => mq_queue'[i] = new[i - Len(mq_queue)]
  BY <1>1, <1>2, <1>3, <1>4, <1>5, ConcatProperties
<1>9. \A i \in 1 .. Len(mq_queue') : i > Len(mq_queue) =>
        new[i - Len(mq_queue)] = [topic |-> topics[i - Len(mq_queue)], value |-> field]
  <2>1. \A i \in 1 .. fit : new[i] = [topic |-> topics[i], value |-> field]
    BY DEF new
  <2>2. \A i \in 1 .. Len(mq_queue') : i > Len(mq_queue) => i - Len(mq_queue) \in 1 .. fit
    BY <1>1, <1>2, <1>5
  <2> QED
    BY <2>1, <2>2
<1>10. Len(mq_queue') >= Len(mq_queue) /\ Len(mq_queue') <= MqQueueSize - 1
  BY <1>1, <1>2, <1>5
<1>11. \A i \in 1 .. Len(mq_queue') : i > Len(mq_queue) =>
         mq_queue'[i] = [topic |-> topics[i - Len(mq_queue)], value |-> field]
  BY <1>8, <1>9, Zenon
<1>12. Len(mq_queue) + Len(topics) <= MqQueueSize - 1 =>
         Len(mq_queue') = Len(mq_queue) + Len(topics)
  BY <1>5, <1>7
<1> QED
  BY <1>5, <1>6, <1>8, <1>10, <1>11, <1>12, Zenon

-----------------------------------------------------------------------------
(* The steps of the publish queue.                                         *)

\* A pass begins: what is owed runs off no faster than the next message waits.
LEMMA LoopBeginsInv ==
  ASSUME MqInv, P!LoopBegins PROVE MqInv'
<1>1. /\ MqTyped /\ pc = "loop" /\ pc' = "mqtt"
      /\ UNCHANGED <<mq_queue, publish_drop_count, session, drained, told>>
  BY DEF MqInv, P!LoopBegins, P!Go
<1>2. PICK dt \in TickSteps :
        age' = [t \in DOMAIN P!Limit |-> IF age[t] + dt > P!Limit[t] THEN P!Limit[t] ELSE age[t] + dt]
  BY DEF P!LoopBegins
<1>3. dt \in Nat /\ PublishGapMs + dt - 1 <= P!MessageMs /\ P!MessageMs \in Nat /\ PublishGapMs \in Nat \ {0}
      /\ StateGapMs \in Nat /\ HealthMs \in Nat /\ ReportMs \in Nat
  BY MqNumbers
<1>4. /\ \A t \in Timers : age[t] \in Nat /\ age[t] <= P!Limit[t] /\ P!Limit[t] \in Nat
      /\ P!Limit["publish"] = PublishGapMs /\ P!Limit["state"] = StateGapMs
      /\ P!Limit["health"] = HealthMs
      /\ DOMAIN P!Limit = Timers /\ Timers = {"publish", "state", "report", "health"}
  BY <1>1, <1>3, MqAges DEF AgesFacts
<1>5. /\ age' \in [Timers -> Nat] /\ \A t \in Timers : age'[t] <= P!Limit[t] /\ age'[t] <= age[t] + dt
      /\ age'["publish"] = IF age["publish"] + dt > PublishGapMs THEN PublishGapMs ELSE age["publish"] + dt
  <2>1. age' = [t \in Timers |-> IF age[t] + dt > P!Limit[t] THEN P!Limit[t] ELSE age[t] + dt]
    BY <1>2, <1>4
  <2>2. \A t \in Timers : age'[t] = IF age[t] + dt > P!Limit[t] THEN P!Limit[t] ELSE age[t] + dt
    BY <2>1
  <2>3. \A t \in Timers : age'[t] \in Nat /\ age'[t] <= P!Limit[t] /\ age'[t] <= age[t] + dt
    BY <1>3, <1>4, <2>2
  <2> QED
    BY <1>4, <2>1, <2>2, <2>3
<1>6. MqTyped'
  <2>1. field' \in Values /\ dirty_publish' \in BOOLEAN
    BY <1>1 DEF P!LoopBegins, MqTyped
  <2>2. P!Limit' = P!Limit
    BY DEF P!Limit
  <2> QED
    BY <1>1, <1>5, <2>1, <2>2 DEF MqTyped
<1>7. Credit' >= Credit + dt /\ Credit \in Nat /\ Credit' \in Nat
  <2>1. Credit = IF age["publish"] # PublishGapMs THEN age["publish"] ELSE 0
    BY <1>1 DEF Credit
  <2>2. Credit' = IF age'["publish"] # PublishGapMs THEN age'["publish"] ELSE P!MessageMs
    BY <1>1 DEF Credit
  <2>3. age["publish"] \in Nat /\ age["publish"] <= PublishGapMs
    BY <1>4
  <2> QED
    BY <1>3, <1>5, <2>1, <2>2, <2>3
<1>8. drained' => Backlog' <= Owed' + Whole * Credit'
  <2> SUFFICES ASSUME drained PROVE Backlog <= Owed' + Whole * Credit'
    BY <1>1 DEF Backlog
  <2>1. Backlog <= Owed + Whole * Credit
    BY DEF MqInv
  <2>2. Owed <= Owed' + Whole * dt
    <3>1. /\ age["state"] \in Int /\ age["health"] \in Int
          /\ age'["state"] \in Int /\ age'["health"] \in Int
          /\ age'["state"] <= age["state"] + dt /\ age'["health"] <= age["health"] + dt
      BY <1>4, <1>5
    <3>2. /\ StateShare \in Nat /\ HealthShare \in Nat /\ Whole \in Nat
          /\ StateShare + HealthShare <= Whole
      BY MqNumbers
    <3> DEFINE x == age["state"]
               y == age["health"]
               x1 == age'["state"]
               y1 == age'["health"]
    <3>3. /\ x \in Int /\ y \in Int /\ x1 \in Int /\ y1 \in Int /\ x1 <= x + dt /\ y1 <= y + dt
          /\ StateGapMs \in Int /\ HealthMs \in Int
      BY <1>3, <3>1
    <3>4. Owed = StateShare * (StateGapMs - x) + HealthShare * (HealthMs - y)
          /\ Owed' = StateShare * (StateGapMs - x1) + HealthShare * (HealthMs - y1)
      BY DEF Owed, StateShare, HealthShare
    <3> HIDE DEF x, y, x1, y1
    <3>5. StateShare * (StateGapMs - x) + HealthShare * (HealthMs - y)
            <= StateShare * (StateGapMs - x1) + HealthShare * (HealthMs - y1) + Whole * dt
      BY <1>3, <3>2, <3>3, SharesPass
    <3> QED
      BY <3>4, <3>5
  <2>3. Whole * dt + Whole * Credit <= Whole * Credit'
    <3>1. Whole * (Credit + dt) <= Whole * Credit' /\ Whole \in Nat
      <4>1. Whole \in Nat /\ Credit + dt \in Int /\ Credit' \in Int /\ Credit + dt <= Credit'
        BY <1>3, <1>7, MqNumbers
      <4> QED
        BY <4>1, TimesMonotonic, Zenon
    <3>2. Whole * (Credit + dt) = Whole * Credit + Whole * dt
      BY <1>3, <1>7, <3>1
    <3>3. Whole * Credit \in Int /\ Whole * dt \in Int /\ Whole * Credit' \in Int
      BY <1>3, <1>7, <3>1
    <3> QED
      BY <3>1, <3>2, <3>3
  <2>4. /\ Backlog \in Int /\ Owed \in Int /\ Owed' \in Int /\ Whole * Credit \in Int
        /\ Whole * dt \in Int /\ Whole * Credit' \in Int
    <3>1. Owed' \in Nat /\ Whole * Credit' \in Nat
      <4>1. AgesFacts'
        BY <1>6, MqAges, PTL
      <4> QED
        BY <4>1 DEF AgesFacts
    <3> QED
      BY <1>1, <1>3, <3>1, MqAges, MqNumbers DEF AgesFacts
  <2> HIDE DEF Backlog, Owed, Whole, Credit
  <2> QED
    BY <2>1, <2>2, <2>3, <2>4
<1> QED
  BY <1>6, <1>8 DEF MqInv

\* One age starts anew.
LEMMA RestartedAges ==
  ASSUME MqTyped, NEW restarted \in Timers, P!Restarted(restarted)
  PROVE  /\ age' \in [Timers -> Nat] /\ \A t \in Timers : age'[t] <= P!Limit'[t]
         /\ age'[restarted] = 0 /\ \A t \in Timers \ {restarted} : age'[t] = age[t]
<1>1. age' = [age EXCEPT ![restarted] = 0] /\ P!Limit' = P!Limit
  BY DEF P!Restarted, P!Limit
<1>2. age \in [Timers -> Nat] /\ \A t \in Timers : age[t] <= P!Limit[t] /\ P!Limit[t] \in Nat
  BY MqNumbers DEF MqTyped, P!Limit, Timers
<1> QED
  BY <1>1, <1>2

LEMMA TickConnectInv ==
  ASSUME MqInv, P!TickConnect PROVE MqInv'
<1>1. /\ MqTyped /\ pc' = "report" /\ session' \in BOOLEAN
      /\ (drained' <=> session' /\ mq_queue = <<>>) /\ drained' \in BOOLEAN /\ told' \in BOOLEAN
      /\ UNCHANGED <<field, dirty_publish, mq_queue, publish_drop_count, age>>
  BY DEF MqInv, P!TickConnect, P!Go
<1>2. MqTyped'
  BY <1>1 DEF MqTyped, P!Limit
<1>3. CASE mq_queue = <<>>
  <2>1. MqEmpty'
    BY <1>1, <1>3 DEF MqEmpty
  <2> QED
    BY <1>2, <2>1, EmptyInv, PTL
<1>4. CASE mq_queue # <<>>
  BY <1>1, <1>2, <1>4 DEF MqInv
<1> QED
  BY <1>3, <1>4

\* A message leaves when its time has come; otherwise nothing does, and the next one has
\* waited for as long as it had.
LEMMA TickPublishInv ==
  ASSUME MqInv, P!TickPublish PROVE MqInv'
<1>1. /\ MqTyped /\ pc = "mqtt" /\ pc' = "report" /\ session
      /\ UNCHANGED <<field, dirty_publish, publish_drop_count>>
      /\ (drained' <=> session' /\ (drained \/ mq_queue' = <<>>)) /\ drained' \in BOOLEAN
      /\ told' \in BOOLEAN
  BY DEF MqInv, P!TickPublish, P!Go
<1>2. /\ AgesFacts /\ P!MessageMs \in Nat \ {0} /\ Whole \in Nat \ {0} /\ PublishGapMs \in Nat \ {0}
      /\ mq_queue \in Seq(Message)
  BY <1>1, MqAges, MqNumbers DEF MqTyped
<1>3. CASE P!Due("publish") /\ mq_queue # <<>>
  <2>1. /\ mq_queue' = Tail(mq_queue) /\ P!Restarted("publish") /\ session' \in BOOLEAN
        /\ age["publish"] = PublishGapMs
    BY <1>1, <1>2, <1>3 DEF P!TickPublish, P!Due, AgesFacts, MqTyped
  <2>2. /\ mq_queue' \in Seq(Message) /\ Len(mq_queue') = Len(mq_queue) - 1 /\ Len(mq_queue) \in Nat
        /\ Len(mq_queue) >= 1
    BY <1>2, <1>3, <2>1, HeadTailProperties, EmptySeq, LenProperties
  <2>3. /\ age' \in [Timers -> Nat] /\ \A t \in Timers : age'[t] <= P!Limit'[t]
        /\ age'["publish"] = 0 /\ age'["state"] = age["state"] /\ age'["health"] = age["health"]
    BY <1>1, <2>1, RestartedAges DEF Timers
  <2>4. MqTyped'
    <3>1. Len(mq_queue') <= MqQueueSize - 1
      BY <1>1, <2>2, MqNumbers DEF MqTyped
    <3> QED
      BY <1>1, <2>1, <2>2, <2>3, <3>1 DEF MqTyped
  <2>5. CASE mq_queue' = <<>>
    <3>1. MqEmpty'
      BY <2>5 DEF MqEmpty
    <3> QED
      BY <2>4, <3>1, EmptyInv, PTL
  <2>6. CASE mq_queue' # <<>>
    <3> SUFFICES ASSUME drained PROVE Backlog' <= Owed' + Whole * Credit'
      BY <1>1, <2>4, <2>6 DEF MqInv
    <3>1. Credit = P!MessageMs /\ Credit' = 0 /\ Owed' = Owed /\ Owed \in Int
      BY <1>1, <1>2, <2>1, <2>3 DEF Credit, Owed, StateShare, HealthShare, AgesFacts
    <3>2. Backlog' = Whole * (P!MessageMs * (Len(mq_queue) - 1))
      BY <2>2 DEF Backlog, Whole
    <3>3. Backlog <= Owed + Whole * P!MessageMs
      BY <3>1 DEF MqInv
    <3> DEFINE q == Len(mq_queue)
               m == P!MessageMs
    <3>4. q \in Nat /\ m \in Nat /\ Whole \in Nat
      BY <1>2, <2>2
    <3> HIDE DEF q, m, Whole
    <3>5. Whole * (m * (q - 1)) = Whole * (m * q) - Whole * m /\ Whole * (m * q) \in Int /\ Whole * m \in Int
      BY <3>4
    <3>6. Whole * Credit' = 0
      BY <3>1, <3>4
    <3> HIDE DEF Owed
    <3> QED
      BY <3>1, <3>2, <3>3, <3>5, <3>6 DEF Backlog, q, m
  <2> QED
    BY <2>5, <2>6
<1>4. CASE ~(P!Due("publish") /\ mq_queue # <<>>)
  <2>1. UNCHANGED <<mq_queue, age, session>>
    BY <1>4 DEF P!TickPublish
  <2>2. MqTyped'
    BY <1>1, <2>1 DEF MqTyped, P!Limit
  <2>3. CASE mq_queue = <<>>
    <3>1. MqEmpty'
      BY <2>1, <2>3 DEF MqEmpty
    <3> QED
      BY <2>2, <3>1, EmptyInv, PTL
  <2>4. CASE mq_queue # <<>>
    <3>1. age["publish"] # PublishGapMs
      BY <1>2, <1>4, <2>4 DEF P!Due, AgesFacts
    <3>2. Credit' = Credit /\ Owed' = Owed /\ Backlog' = Backlog /\ (drained' => drained)
      BY <1>1, <2>1, <2>4, <3>1 DEF Credit, Owed, Backlog, StateShare, HealthShare, Whole
    <3> QED
      BY <2>2, <3>2 DEF MqInv, Whole
  <2> QED
    BY <2>3, <2>4
<1> QED
  BY <1>3, <1>4

\* A step outside the session's part of the pass that leaves queue and ages alone, but for
\* the report's.
LEMMA MqQuiet ==
  ASSUME MqInv, MqTyped', pc # "mqtt" \/ pc' = pc, pc' # "mqtt" \/ pc' = pc, drained' => drained,
         mq_queue' = mq_queue, \A t \in {"publish", "state", "health"} : age'[t] = age[t]
  PROVE  MqInv'
<1>1. Credit' = Credit /\ Owed' = Owed /\ Backlog' = Backlog
  BY DEF Credit, Owed, Backlog, StateShare, HealthShare, Whole
<1> QED
  BY <1>1 DEF MqInv, Whole

LEMMA SessionBreaksInv ==
  ASSUME MqInv, P!SessionBreaks PROVE MqInv'
<1>1. /\ MqTyped /\ session' = FALSE /\ drained' = FALSE /\ told' = FALSE
      /\ UNCHANGED <<pc, field, dirty_publish, mq_queue, publish_drop_count, age>>
  BY DEF MqInv, P!SessionBreaks
<1> QED
  BY <1>1 DEF MqInv, MqTyped, P!Limit

LEMMA TickReportInv ==
  ASSUME MqInv, P!TickReport PROVE MqInv'
<1>1. /\ MqTyped /\ pc = "report" /\ pc' = "health"
      /\ UNCHANGED <<field, mq_queue, publish_drop_count, session, drained, told>>
      /\ \/ P!Restarted("report") /\ dirty_publish' = TRUE
         \/ UNCHANGED <<age, dirty_publish>>
  BY DEF MqInv, P!TickReport, P!Go
<1>2. /\ age' \in [Timers -> Nat] /\ \A t \in Timers : age'[t] <= P!Limit'[t]
      /\ \A t \in {"publish", "state", "health"} : age'[t] = age[t]
  <2>1. CASE P!Restarted("report")
    BY <1>1, <2>1, RestartedAges DEF Timers
  <2>2. CASE age' = age
    BY <1>1, <2>2 DEF MqTyped, P!Limit
  <2> QED
    BY <1>1, <2>1, <2>2
<1>3. MqTyped'
  BY <1>1, <1>2 DEF MqTyped
<1> QED
  BY <1>1, <1>2, <1>3, MqQuiet

\* When a burst of one kind is due, all of the backlog belongs to the other kind.
LEMMA HealthRoom ==
  ASSUME MqInv, drained, pc # "mqtt", age["health"] = HealthMs
  PROVE  Len(mq_queue) <= StateLen
<1>1. /\ AgesFacts /\ P!MessageMs \in Nat \ {0} /\ Whole \in Nat \ {0} /\ PublishGapMs \in Nat \ {0}
      /\ StateLen \in Nat /\ StateShare \in Nat /\ HealthShare \in Nat /\ StateGapMs \in Nat
      /\ HealthMs \in Nat /\ PublishGapMs <= P!MessageMs
      /\ StateShare * StateGapMs = Whole * (P!MessageMs * StateLen)
  BY MqAges, MqNumbers DEF MqInv
<1>2. Backlog <= Owed + Whole * Credit
  BY DEF MqInv
<1>3. Credit < P!MessageMs /\ Credit \in Nat
  BY <1>1 DEF Credit, AgesFacts
<1>4. Owed <= StateShare * StateGapMs
  <2>1. Owed = StateShare * (StateGapMs - age["state"]) + HealthShare * (HealthMs - HealthMs)
    BY DEF Owed
  <2>2. HealthShare * (HealthMs - HealthMs) = 0
    BY <1>1
  <2>3. age["state"] \in Nat
    BY <1>1 DEF AgesFacts, Timers
  <2>4. StateGapMs - age["state"] \in Int /\ StateGapMs - age["state"] <= StateGapMs /\ StateGapMs \in Int
    BY <1>1, <2>3
  <2>5. StateShare * (StateGapMs - age["state"]) <= StateShare * StateGapMs
    BY <1>1, <2>4, TimesMonotonic, Zenon
  <2>6. StateShare * (StateGapMs - age["state"]) \in Int
    BY <1>1, <2>4
  <2> QED
    BY <2>1, <2>2, <2>5, <2>6
<1>5. Owed \in Int /\ Whole * Credit \in Int /\ Len(mq_queue) \in Nat /\ Backlog \in Int
      /\ Whole * (P!MessageMs * StateLen) \in Int
  BY <1>1 DEF AgesFacts
<1>6. Whole * (P!MessageMs * Len(mq_queue)) <= Whole * (P!MessageMs * StateLen) + Whole * Credit
  <2> HIDE DEF Owed, Whole, Credit
  <2>1. Backlog <= Whole * (P!MessageMs * StateLen) + Whole * Credit
    BY <1>1, <1>2, <1>4, <1>5
  <2> QED
    BY <2>1 DEF Backlog
<1> QED
  BY <1>1, <1>3, <1>5, <1>6, WholeMessages

LEMMA StateRoom ==
  ASSUME MqInv, drained, pc # "mqtt", age["state"] = StateGapMs
  PROVE  Len(mq_queue) <= HealthLen
<1>1. /\ AgesFacts /\ P!MessageMs \in Nat \ {0} /\ Whole \in Nat \ {0} /\ PublishGapMs \in Nat \ {0}
      /\ HealthLen \in Nat /\ StateShare \in Nat /\ HealthShare \in Nat /\ StateGapMs \in Nat
      /\ HealthMs \in Nat /\ PublishGapMs <= P!MessageMs
      /\ HealthShare * HealthMs = Whole * (P!MessageMs * HealthLen)
  BY MqAges, MqNumbers DEF MqInv
<1>2. Backlog <= Owed + Whole * Credit
  BY DEF MqInv
<1>3. Credit < P!MessageMs /\ Credit \in Nat
  BY <1>1 DEF Credit, AgesFacts
<1>4. Owed <= HealthShare * HealthMs
  <2>1. Owed = StateShare * (StateGapMs - StateGapMs) + HealthShare * (HealthMs - age["health"])
    BY DEF Owed
  <2>2. StateShare * (StateGapMs - StateGapMs) = 0
    BY <1>1
  <2>3. age["health"] \in Nat
    BY <1>1 DEF AgesFacts, Timers
  <2>4. HealthMs - age["health"] \in Int /\ HealthMs - age["health"] <= HealthMs /\ HealthMs \in Int
    BY <1>1, <2>3
  <2>5. HealthShare * (HealthMs - age["health"]) <= HealthShare * HealthMs
    BY <1>1, <2>4, TimesMonotonic, Zenon
  <2>6. HealthShare * (HealthMs - age["health"]) \in Int
    BY <1>1, <2>4
  <2> QED
    BY <2>1, <2>2, <2>5, <2>6
<1>5. Owed \in Int /\ Whole * Credit \in Int /\ Len(mq_queue) \in Nat /\ Backlog \in Int
      /\ Whole * (P!MessageMs * HealthLen) \in Int
  BY <1>1 DEF AgesFacts
<1>6. Whole * (P!MessageMs * Len(mq_queue)) <= Whole * (P!MessageMs * HealthLen) + Whole * Credit
  <2> HIDE DEF Owed, Whole, Credit
  <2>1. Backlog <= Whole * (P!MessageMs * HealthLen) + Whole * Credit
    BY <1>1, <1>2, <1>4, <1>5
  <2> QED
    BY <2>1 DEF Backlog
<1> QED
  BY <1>1, <1>3, <1>5, <1>6, WholeMessages

\* A burst of len messages adds as much to the backlog as its age's restart adds to
\* what is owed.
LEMMA BurstInv ==
  ASSUME MqInv, MqTyped', NEW share \in Nat, NEW limit \in Nat, NEW len \in Nat,
         pc # "mqtt", pc' # "mqtt", age'["publish"] = age["publish"], drained' = drained,
         drained => Len(mq_queue') = Len(mq_queue) + len /\ Owed' = Owed + share * limit,
         share * limit = Whole * (P!MessageMs * len)
  PROVE  MqInv'
<1> SUFFICES ASSUME drained PROVE Backlog' <= Owed' + Whole * Credit'
  BY DEF MqInv
<1>1. Backlog <= Owed + Whole * Credit /\ AgesFacts
  BY MqAges DEF MqInv
<1>2. Credit' = Credit /\ Owed' = Owed + Whole * (P!MessageMs * len)
  BY DEF Credit
<1>3. Backlog' = Whole * (P!MessageMs * (Len(mq_queue) + len))
  BY DEF Backlog, Whole
<1> DEFINE q == Len(mq_queue)
           m == P!MessageMs
<1>4. q \in Nat /\ m \in Nat /\ Whole \in Nat /\ Owed \in Int /\ Whole * Credit \in Int
  BY <1>1, MqNumbers DEF AgesFacts
<1>5. Whole' = Whole
  BY DEF Whole
<1> HIDE DEF q, m, Whole
<1>6. Whole * (m * (q + len)) = Whole * (m * q) + Whole * (m * len) /\ Whole * (m * q) \in Int
      /\ Whole * (m * len) \in Int
  BY <1>4
<1> HIDE DEF Owed, Credit
<1> QED
  BY <1>1, <1>2, <1>3, <1>4, <1>5, <1>6 DEF Backlog, q, m

\* A due burst restarts its age, and if the session has drained the queue it fits.
LEMMA HealthBurst ==
  ASSUME MqInv, P!TickHealthPublish
  PROVE  MqInv' /\ (drained /\ age'["health"] < age["health"] =>
                      Len(mq_queue') = Len(mq_queue) + HealthLen)
<1>1. /\ MqTyped /\ AgesFacts /\ pc = "health" /\ pc' = "publish"
      /\ UNCHANGED <<field, dirty_publish, session, drained, told>>
  BY MqAges DEF MqInv, P!TickHealthPublish, P!Go
<1>2. CASE P!Due("health")
  <2>1. /\ P!Restarted("health") /\ P!EnqueueAll(HealthTopics, field) /\ age["health"] = HealthMs
    BY <1>1, <1>2 DEF P!TickHealthPublish, P!Due, AgesFacts
  <2>2. /\ age' \in [Timers -> Nat] /\ \A t \in Timers : age'[t] <= P!Limit'[t]
        /\ age'["health"] = 0 /\ age'["state"] = age["state"] /\ age'["publish"] = age["publish"]
    BY <1>1, <2>1, RestartedAges DEF Timers
  <2>3. /\ mq_queue' \in Seq(Message) /\ Len(mq_queue') <= MqQueueSize - 1
        /\ publish_drop_count' \in 0 .. CountRange - 1
        /\ Len(mq_queue) + HealthLen <= MqQueueSize - 1 =>
             Len(mq_queue') = Len(mq_queue) + HealthLen
    BY <1>1, <2>1, Offered DEF HealthLen
  <2>4. MqTyped'
    BY <1>1, <2>2, <2>3 DEF MqTyped
  <2>5. drained => Len(mq_queue') = Len(mq_queue) + HealthLen
    <3>1. drained => Len(mq_queue) <= StateLen
      BY <1>1, <2>1, HealthRoom
    <3> QED
      BY <1>1, <2>3, <3>1, MqNumbers DEF AgesFacts
  <2>6. Owed' = Owed + HealthShare * HealthMs
    <3>1. /\ Owed = StateShare * (StateGapMs - age["state"]) + HealthShare * (HealthMs - HealthMs)
          /\ Owed' = StateShare * (StateGapMs - age["state"]) + HealthShare * (HealthMs - 0)
      BY <2>1, <2>2 DEF Owed, StateShare, HealthShare
    <3>2. /\ HealthShare \in Nat /\ HealthMs \in Nat /\ StateShare \in Nat /\ StateGapMs \in Nat
          /\ age["state"] \in Nat
      BY <1>1, MqNumbers DEF AgesFacts, Timers
    <3>3. HealthShare * (HealthMs - HealthMs) = 0 /\ HealthMs - 0 = HealthMs
          /\ StateShare * (StateGapMs - age["state"]) \in Int /\ HealthShare * HealthMs \in Int
      BY <3>2
    <3> HIDE DEF Owed, StateShare, HealthShare
    <3> QED
      BY <3>1, <3>3
  <2>7. HealthShare \in Nat /\ HealthMs \in Nat /\ HealthLen \in Nat
        /\ HealthShare * HealthMs = Whole * (P!MessageMs * HealthLen)
    BY MqNumbers
  <2>8. MqInv'
    BY <1>1, <2>2, <2>4, <2>5, <2>6, <2>7, BurstInv
  <2> QED
    BY <2>5, <2>8
<1>3. CASE ~P!Due("health")
  <2>1. UNCHANGED <<age, mq_queue, publish_drop_count>>
    BY <1>3 DEF P!TickHealthPublish
  <2>2. MqTyped'
    BY <1>1, <2>1 DEF MqTyped, P!Limit
  <2>3. MqInv'
    BY <1>1, <2>1, <2>2, MqQuiet
  <2> QED
    BY <1>1, <2>1, <2>3 DEF AgesFacts, Timers
<1> QED
  BY <1>2, <1>3

LEMMA StateBurst ==
  ASSUME MqInv, P!QueueStatePublish
  PROVE  MqInv' /\ (drained /\ age'["state"] < age["state"] =>
                      Len(mq_queue') = Len(mq_queue) + StateLen)
<1>1. /\ MqTyped /\ AgesFacts /\ pc = "publish" /\ pc' = "loop"
      /\ UNCHANGED <<field, session, drained>>
  BY MqAges DEF MqInv, P!QueueStatePublish, P!Go
<1>0. told' \in BOOLEAN
  <2>1. told' = drained \/ told' = told
    BY DEF P!QueueStatePublish
  <2> QED
    BY <1>1, <2>1 DEF MqTyped
<1>2. CASE dirty_publish /\ P!Due("state")
  <2>1. /\ P!Restarted("state") /\ P!EnqueueAll(StateTopics, field) /\ age["state"] = StateGapMs
        /\ dirty_publish' = FALSE
    BY <1>1, <1>2 DEF P!QueueStatePublish, P!Due, AgesFacts
  <2>2. /\ age' \in [Timers -> Nat] /\ \A t \in Timers : age'[t] <= P!Limit'[t]
        /\ age'["state"] = 0 /\ age'["health"] = age["health"] /\ age'["publish"] = age["publish"]
    BY <1>1, <2>1, RestartedAges DEF Timers
  <2>3. /\ mq_queue' \in Seq(Message) /\ Len(mq_queue') <= MqQueueSize - 1
        /\ publish_drop_count' \in 0 .. CountRange - 1
        /\ Len(mq_queue) + StateLen <= MqQueueSize - 1 =>
             Len(mq_queue') = Len(mq_queue) + StateLen
    BY <1>1, <2>1, Offered DEF StateLen
  <2>4. MqTyped'
    BY <1>0, <1>1, <2>1, <2>2, <2>3 DEF MqTyped
  <2>5. drained => Len(mq_queue') = Len(mq_queue) + StateLen
    <3>1. drained => Len(mq_queue) <= HealthLen
      BY <1>1, <2>1, StateRoom
    <3> QED
      BY <1>1, <2>3, <3>1, MqNumbers DEF AgesFacts
  <2>6. Owed' = Owed + StateShare * StateGapMs
    <3>1. /\ Owed = StateShare * (StateGapMs - StateGapMs) + HealthShare * (HealthMs - age["health"])
          /\ Owed' = StateShare * (StateGapMs - 0) + HealthShare * (HealthMs - age["health"])
      BY <2>1, <2>2 DEF Owed, StateShare, HealthShare
    <3>2. /\ HealthShare \in Nat /\ HealthMs \in Nat /\ StateShare \in Nat /\ StateGapMs \in Nat
          /\ age["health"] \in Nat
      BY <1>1, MqNumbers DEF AgesFacts, Timers
    <3>3. StateShare * (StateGapMs - StateGapMs) = 0 /\ StateGapMs - 0 = StateGapMs
          /\ HealthShare * (HealthMs - age["health"]) \in Int /\ StateShare * StateGapMs \in Int
      BY <3>2
    <3> HIDE DEF Owed, StateShare, HealthShare
    <3> QED
      BY <3>1, <3>3
  <2>7. StateShare \in Nat /\ StateGapMs \in Nat /\ StateLen \in Nat
        /\ StateShare * StateGapMs = Whole * (P!MessageMs * StateLen)
    BY MqNumbers
  <2>8. MqInv'
    BY <1>1, <2>2, <2>4, <2>5, <2>6, <2>7, BurstInv
  <2> QED
    BY <2>5, <2>8
<1>3. CASE ~(dirty_publish /\ P!Due("state"))
  <2>1. UNCHANGED <<age, mq_queue, publish_drop_count, dirty_publish>>
    BY <1>3 DEF P!QueueStatePublish
  <2>2. MqTyped'
    BY <1>0, <1>1, <2>1 DEF MqTyped, P!Limit
  <2>3. MqInv'
    BY <1>1, <2>1, <2>2, MqQuiet
  <2> QED
    BY <1>1, <2>1, <2>3 DEF AgesFacts, Timers
<1> QED
  BY <1>2, <1>3

LEMMA MqStepInv == MqInv /\ [P!Next]_(P!vars) => MqInv'
<1> SUFFICES ASSUME MqInv, [P!Next]_(P!vars) PROVE MqInv'
  OBVIOUS
<1>1. CASE P!LoopBegins
  BY <1>1, LoopBeginsInv
<1>2. CASE P!TickConnect
  BY <1>2, TickConnectInv
<1>3. CASE P!TickPublish
  BY <1>3, TickPublishInv
<1>4. CASE P!TickReport
  BY <1>4, TickReportInv
<1>5. CASE P!TickHealthPublish
  BY <1>5, HealthBurst
<1>6. CASE P!QueueStatePublish
  BY <1>6, StateBurst
<1>7. CASE P!SessionBreaks
  BY <1>7, SessionBreaksInv
<1>8. CASE UNCHANGED P!vars
  <2>1. UNCHANGED <<pc, field, dirty_publish, mq_queue, publish_drop_count, age, session, drained, told>>
    BY <1>8 DEF P!vars
  <2>2. MqTyped'
    BY <2>1 DEF MqInv, MqTyped, P!Limit
  <2> QED
    BY <2>1, <2>2, MqQuiet
<1> QED
  BY <1>1, <1>2, <1>3, <1>4, <1>5, <1>6, <1>7, <1>8 DEF P!Next, P!Tick

\* Every burst of a session that has drained the queue enters whole.
Absorbs ==
  drained /\ session =>
    /\ age'["state"] < age["state"] => Len(mq_queue') = Len(mq_queue) + Len(StateTopics)
    /\ age'["health"] < age["health"] => Len(mq_queue') = Len(mq_queue) + Len(HealthTopics)

LEMMA MqAbsorbs == MqInv /\ [P!Next]_(P!vars) => [Absorbs]_(P!vars)
<1> SUFFICES ASSUME MqInv, P!Next PROVE Absorbs
  OBVIOUS
<1>0. /\ AgesFacts /\ MqTyped /\ age["state"] \in Nat /\ age["health"] \in Nat
      /\ StateGapMs \in Nat /\ HealthMs \in Nat
  BY MqAges, MqNumbers DEF MqInv, AgesFacts, Timers
<1>1. CASE P!LoopBegins
  <2>1. PICK dt \in TickSteps :
          age' = [t \in DOMAIN P!Limit |-> IF age[t] + dt > P!Limit[t] THEN P!Limit[t] ELSE age[t] + dt]
    BY <1>1 DEF P!LoopBegins
  <2>2. dt \in Nat
    BY MqNumbers
  <2>3. \A t \in Timers : age[t] \in Nat /\ age[t] <= P!Limit[t]
        /\ age'[t] = IF age[t] + dt > P!Limit[t] THEN P!Limit[t] ELSE age[t] + dt
    BY <1>0, <2>1 DEF AgesFacts
  <2>4. age'["state"] >= age["state"] /\ age'["health"] >= age["health"]
        /\ age'["state"] \in Int /\ age'["health"] \in Int
    <3>1. /\ "state" \in Timers /\ "health" \in Timers
          /\ P!Limit["state"] = StateGapMs /\ P!Limit["health"] = HealthMs
      BY <1>0 DEF AgesFacts
    <3>2. /\ age'["state"] = IF age["state"] + dt > StateGapMs THEN StateGapMs ELSE age["state"] + dt
          /\ age'["health"] = IF age["health"] + dt > HealthMs THEN HealthMs ELSE age["health"] + dt
          /\ age["state"] <= StateGapMs /\ age["health"] <= HealthMs
      BY <2>3, <3>1, Zenon
    <3> QED
      BY <1>0, <2>2, <3>2
  <2> QED
    BY <1>0, <2>4 DEF Absorbs
<1>2. CASE P!TickConnect \/ P!TickPublish \/ P!TickReport \/ P!SessionBreaks
  <2>1. age'["state"] = age["state"] /\ age'["health"] = age["health"]
    <3>1. UNCHANGED age \/ P!Restarted("publish") \/ P!Restarted("report")
      BY <1>2 DEF P!TickConnect, P!TickPublish, P!TickReport, P!SessionBreaks
    <3> QED
      BY <1>0, <3>1, RestartedAges DEF Timers
  <2> QED
    BY <1>0, <2>1 DEF Absorbs
<1>3. CASE P!TickHealthPublish
  <2>1. age'["state"] = age["state"]
    <3>1. UNCHANGED age \/ P!Restarted("health")
      BY <1>3 DEF P!TickHealthPublish
    <3> QED
      BY <1>0, <3>1, RestartedAges DEF Timers
  <2> QED
    BY <1>0, <1>3, <2>1, HealthBurst DEF Absorbs, HealthLen
<1>4. CASE P!QueueStatePublish
  <2>1. age'["health"] = age["health"]
    <3>1. UNCHANGED age \/ P!Restarted("state")
      BY <1>4 DEF P!QueueStatePublish
    <3> QED
      BY <1>0, <3>1, RestartedAges DEF Timers
  <2> QED
    BY <1>0, <1>4, <2>1, StateBurst DEF Absorbs, StateLen
<1> QED
  BY <1>1, <1>2, <1>3, <1>4 DEF P!Next, P!Tick

LEMMA MqTypeOK == MqTyped => P!TypeOK
<1> SUFFICES ASSUME MqTyped PROVE P!TypeOK
  OBVIOUS
<1>1. \A t \in Timers : age[t] \in Nat /\ age[t] <= P!Limit[t]
  BY MqAges DEF AgesFacts
<1>2. \A t \in Timers : P!Limit[t] \in Nat
  BY MqNumbers DEF P!Limit, Timers
<1>3. \A t \in DOMAIN P!Limit : age[t] \in 0 .. P!Limit[t]
  BY <1>1, <1>2 DEF P!Limit, Timers
<1> QED
  BY <1>3 DEF MqTyped, P!TypeOK, P!Capacity

-----------------------------------------------------------------------------
(* What is not under way is marked dirty.                                  *)

ToldInv == DOMAIN broker = P!ToSet(StateTopics) /\ P!StaleIsUnderWay

\* A step that adds to the queue nothing but messages with the field keeps the last words.
LEMMA WordsKept ==
  ASSUME MqTyped, MqTyped', ToldInv, broker' = broker, told' => told,
         told' /\ ~dirty_publish' => ~dirty_publish /\ field' = field,
         Len(mq_queue') >= Len(mq_queue),
         \A i \in 1 .. Len(mq_queue) : mq_queue'[i] = mq_queue[i],
         \A i \in 1 .. Len(mq_queue') : i > Len(mq_queue) => mq_queue'[i].value = field'
  PROVE  ToldInv'
<1>1. DOMAIN broker' = P!ToSet(StateTopics)
  BY DEF ToldInv
<1>2. /\ DOMAIN mq_queue = 1 .. Len(mq_queue) /\ DOMAIN mq_queue' = 1 .. Len(mq_queue')
      /\ Len(mq_queue) \in Nat /\ Len(mq_queue') \in Nat
  BY LenProperties DEF MqTyped
<1>3. ASSUME told', ~dirty_publish', NEW t \in DOMAIN broker',
             NEW said, said = {i \in DOMAIN mq_queue' : mq_queue'[i].topic = t}
      PROVE  /\ said = {} => broker'[t] = field'
             /\ \A i \in said : (\A j \in said : i >= j) => mq_queue'[i].value = field'
  <2> DEFINE before == {i \in DOMAIN mq_queue : mq_queue[i].topic = t}
  <2>1. /\ before = {} => broker[t] = field
        /\ \A i \in before : (\A j \in before : i >= j) => mq_queue[i].value = field
    BY <1>3 DEF ToldInv, P!StaleIsUnderWay
  <2>2. before \subseteq said
    BY <1>2, <1>3
  <2>3. field' = field
    BY <1>3
  <2>4. ASSUME NEW i \in said, \A j \in said : i >= j PROVE mq_queue'[i].value = field'
    <3>1. CASE i > Len(mq_queue)
      BY <1>2, <1>3, <3>1
    <3>2. CASE ~(i > Len(mq_queue))
      <4>1. i \in before /\ mq_queue'[i] = mq_queue[i]
        BY <1>2, <1>3, <3>2
      <4> QED
        BY <2>1, <2>2, <2>3, <2>4, <4>1
    <3> QED
      BY <3>1, <3>2
  <2> QED
    BY <2>1, <2>2, <2>3, <2>4
<1> QED
  BY <1>1, <1>3 DEF ToldInv, P!StaleIsUnderWay

\* A message that leaves becomes the last word where no other was queued behind it.
LEMMA DeliveryKeepsWords ==
  ASSUME MqTyped, MqTyped', ToldInv, P!TickPublish PROVE ToldInv'
<1>1. /\ told' => told /\ session' /\ UNCHANGED <<field, dirty_publish>>
  BY DEF P!TickPublish
<1>2. CASE ~(P!Due("publish") /\ mq_queue # <<>>)
  <2>1. UNCHANGED <<mq_queue, broker>>
    BY <1>2 DEF P!TickPublish
  <2>2. Len(mq_queue') = Len(mq_queue) /\ Len(mq_queue) \in Nat
    BY <2>1, LenProperties DEF MqTyped
  <2> QED
    BY <1>1, <2>1, <2>2, WordsKept
<1>3. CASE P!Due("publish") /\ mq_queue # <<>>
  <2>0. mq_queue' = Tail(mq_queue)
    BY <1>3 DEF P!TickPublish
  <2>1. /\ DOMAIN mq_queue = 1 .. Len(mq_queue) /\ DOMAIN mq_queue' = 1 .. Len(mq_queue')
        /\ Len(mq_queue) \in Nat /\ Len(mq_queue') = Len(mq_queue) - 1 /\ Len(mq_queue) >= 1
        /\ \A i \in 1 .. Len(mq_queue') : mq_queue'[i] = mq_queue[i + 1]
        /\ Head(mq_queue) = mq_queue[1]
    BY <1>3, <2>0, HeadTailProperties, EmptySeq, LenProperties DEF MqTyped
  <2>2. DOMAIN broker' = DOMAIN broker
    BY <1>3 DEF P!TickPublish
  <2>3. told' => \A t \in DOMAIN broker :
                   broker'[t] = IF t = mq_queue[1].topic THEN mq_queue[1].value ELSE broker[t]
    BY <1>1, <1>3, <2>1 DEF P!TickPublish
  <2>4. ASSUME told', ~dirty_publish', NEW t \in DOMAIN broker',
               NEW said, said = {i \in DOMAIN mq_queue' : mq_queue'[i].topic = t}
        PROVE  /\ said = {} => broker'[t] = field'
               /\ \A i \in said : (\A j \in said : i >= j) => mq_queue'[i].value = field'
    <3> DEFINE before == {i \in DOMAIN mq_queue : mq_queue[i].topic = t}
    <3>1. /\ before = {} => broker[t] = field
          /\ \A i \in before : (\A j \in before : i >= j) => mq_queue[i].value = field
      BY <1>1, <2>2, <2>4 DEF ToldInv, P!StaleIsUnderWay
    <3>2. \A i \in 1 .. Len(mq_queue) : i \in before <=> (i = 1 /\ mq_queue[1].topic = t) \/ i - 1 \in said
      BY <2>1, <2>4
    <3>3. \A i \in said : i \in Nat /\ i + 1 \in before /\ mq_queue'[i] = mq_queue[i + 1]
      BY <2>1, <2>4
    <3>4. \A i \in before : i \in 1 .. Len(mq_queue)
      BY <2>1
    <3>5. ASSUME NEW i \in said, \A j \in said : i >= j PROVE mq_queue'[i].value = field'
      <4>1. \A j \in before : i + 1 >= j
        BY <2>1, <3>2, <3>3, <3>4, <3>5
      <4> QED
        BY <1>1, <2>4, <3>1, <3>3, <4>1
    <3>6. ASSUME said = {} PROVE broker'[t] = field'
      <4>1. CASE mq_queue[1].topic = t
        <5>1. 1 \in before /\ \A j \in before : 1 >= j
          BY <2>1, <3>2, <3>4, <3>6, <4>1
        <5> QED
          BY <1>1, <2>2, <2>3, <2>4, <3>1, <4>1, <5>1
      <4>2. CASE mq_queue[1].topic # t
        <5>1. before = {}
          BY <3>2, <3>4, <3>6, <4>2
        <5> QED
          BY <1>1, <2>2, <2>3, <2>4, <3>1, <4>2, <5>1
      <4> QED
        BY <4>1, <4>2
    <3> QED
      BY <3>5, <3>6
  <2> QED
    BY <2>2, <2>4 DEF ToldInv, P!StaleIsUnderWay
<1> QED
  BY <1>2, <1>3

\* A burst that is absorbed whole says the field on every topic.
LEMMA BurstSaysField ==
  ASSUME MqInv, MqInv', ToldInv, P!QueueStatePublish PROVE ToldInv'
<1>0. MqTyped /\ MqTyped' /\ AgesFacts
  BY MqAges DEF MqInv
<1>1. /\ DOMAIN mq_queue = 1 .. Len(mq_queue) /\ DOMAIN mq_queue' = 1 .. Len(mq_queue')
      /\ Len(mq_queue) \in Nat /\ Len(mq_queue') \in Nat
  BY <1>0, LenProperties DEF MqTyped
<1>2. CASE dirty_publish /\ P!Due("state")
  <2>1. /\ P!EnqueueAll(StateTopics, field) /\ P!Restarted("state") /\ told' = drained
        /\ UNCHANGED <<field, broker>> /\ age["state"] = StateGapMs
    BY <1>0, <1>2 DEF P!QueueStatePublish, P!Due, AgesFacts
  <2>2. /\ \A i \in 1 .. Len(mq_queue') : i > Len(mq_queue) =>
             mq_queue'[i] = [topic |-> StateTopics[i - Len(mq_queue)], value |-> field]
    BY <1>0, <2>1, Offered
  <2>3. drained => Len(mq_queue') = Len(mq_queue) + StateLen
    <3>1. age'["state"] = 0 /\ StateGapMs \in Nat \ {0}
      BY <1>0, <2>1, RestartedAges, MqNumbers DEF Timers
    <3> QED
      BY <2>1, <3>1, StateBurst
  <2>4. \A t \in P!ToSet(StateTopics) : \E i \in 1 .. StateLen : StateTopics[i] = t
    BY DEF P!ToSet, StateLen
  <2>5. StateLen \in Nat
    BY MqNumbers
  <2>6. ASSUME told', NEW t \in DOMAIN broker',
               NEW said, said = {i \in DOMAIN mq_queue' : mq_queue'[i].topic = t}
        PROVE  /\ said = {} => broker'[t] = field'
               /\ \A i \in said : (\A j \in said : i >= j) => mq_queue'[i].value = field'
    <3>1. Len(mq_queue') = Len(mq_queue) + StateLen
      BY <2>1, <2>3, <2>6
    <3>2. PICK k \in 1 .. StateLen : StateTopics[k] = t
      BY <2>1, <2>4, <2>6 DEF ToldInv
    <3>3. Len(mq_queue) + k \in said
      <4>1. Len(mq_queue) + k \in 1 .. Len(mq_queue') /\ Len(mq_queue) + k > Len(mq_queue)
            /\ (Len(mq_queue) + k) - Len(mq_queue) = k
        BY <1>1, <2>5, <3>1
      <4>2. mq_queue'[Len(mq_queue) + k] = [topic |-> StateTopics[k], value |-> field]
        BY <2>2, <4>1
      <4>3. mq_queue'[Len(mq_queue) + k].topic = t
        BY <3>2, <4>2
      <4> QED
        BY <1>1, <2>6, <4>1, <4>3
    <3>4. ASSUME NEW i \in said, \A j \in said : i >= j PROVE mq_queue'[i].value = field'
      <4>1. i \in 1 .. Len(mq_queue') /\ i > Len(mq_queue)
        BY <1>1, <2>5, <2>6, <3>3, <3>4
      <4>2. mq_queue'[i] = [topic |-> StateTopics[i - Len(mq_queue)], value |-> field]
        BY <2>2, <4>1
      <4> QED
        BY <2>1, <4>2
    <3> QED
      BY <3>3, <3>4
  <2> QED
    BY <2>1, <2>6 DEF ToldInv, P!StaleIsUnderWay
<1>3. CASE ~(dirty_publish /\ P!Due("state"))
  <2>1. UNCHANGED <<mq_queue, dirty_publish, told, field, broker>>
    BY <1>3 DEF P!QueueStatePublish
  <2> QED
    BY <1>0, <1>1, <2>1, WordsKept
<1> QED
  BY <1>2, <1>3

LEMMA ToldInit == P!Init => ToldInv
BY DEF P!Init, ToldInv, P!StaleIsUnderWay

LEMMA ToldStep == MqInv /\ MqInv' /\ ToldInv /\ [P!Next]_(P!vars) => ToldInv'
<1> SUFFICES ASSUME MqInv, MqInv', ToldInv, [P!Next]_(P!vars) PROVE ToldInv'
  OBVIOUS
<1>0. MqTyped /\ MqTyped' /\ Len(mq_queue) \in Nat
  BY LenProperties DEF MqInv, MqTyped
<1>1. CASE P!LoopBegins
  <2>1. UNCHANGED <<mq_queue, broker, told>> /\ (dirty_publish' \/ UNCHANGED <<field, dirty_publish>>)
    BY <1>1 DEF P!LoopBegins
  <2> QED
    BY <1>0, <2>1, WordsKept
<1>2. CASE P!TickConnect \/ P!SessionBreaks
  <2>1. UNCHANGED <<mq_queue, broker, field, dirty_publish>> /\ (told' => told)
    BY <1>2 DEF P!TickConnect, P!SessionBreaks
  <2> QED
    BY <1>0, <2>1, WordsKept
<1>3. CASE P!TickPublish
  BY <1>0, <1>3, DeliveryKeepsWords
<1>4. CASE P!TickReport
  <2>1. UNCHANGED <<mq_queue, broker, field, told>> /\ (dirty_publish' \/ UNCHANGED dirty_publish)
    BY <1>4 DEF P!TickReport
  <2> QED
    BY <1>0, <2>1, WordsKept
<1>5. CASE P!TickHealthPublish
  <2>1. UNCHANGED <<broker, field, dirty_publish, told>>
    BY <1>5 DEF P!TickHealthPublish
  <2>2. CASE P!Due("health")
    <3>1. P!EnqueueAll(HealthTopics, field)
      BY <1>5, <2>2 DEF P!TickHealthPublish
    <3>2. /\ Len(mq_queue') >= Len(mq_queue)
          /\ \A i \in 1 .. Len(mq_queue) : mq_queue'[i] = mq_queue[i]
          /\ \A i \in 1 .. Len(mq_queue') : i > Len(mq_queue) =>
               mq_queue'[i] = [topic |-> HealthTopics[i - Len(mq_queue)], value |-> field]
      BY <1>0, <3>1, Offered
    <3>3. ASSUME NEW i \in 1 .. Len(mq_queue'), i > Len(mq_queue)
          PROVE  mq_queue'[i].value = field'
      <4>1. mq_queue'[i] = [topic |-> HealthTopics[i - Len(mq_queue)], value |-> field]
        BY <3>2, <3>3
      <4> QED
        BY <2>1, <4>1
    <3> QED
      BY <1>0, <2>1, <3>2, <3>3, WordsKept
  <2>3. CASE ~P!Due("health")
    <3>1. UNCHANGED mq_queue
      BY <1>5, <2>3 DEF P!TickHealthPublish
    <3> QED
      BY <1>0, <2>1, <3>1, WordsKept
  <2> QED
    BY <2>2, <2>3
<1>6. CASE P!QueueStatePublish
  BY <1>6, BurstSaysField
<1>7. CASE UNCHANGED P!vars
  <2>1. UNCHANGED <<mq_queue, broker, field, dirty_publish, told>>
    BY <1>7 DEF P!vars
  <2> QED
    BY <1>0, <2>1, WordsKept
<1> QED
  BY <1>1, <1>2, <1>3, <1>4, <1>5, <1>6, <1>7 DEF P!Next, P!Tick

-----------------------------------------------------------------------------
(* The web page: a request that carries a fan speed, or a state that       *)
(* answers one, carries one the unit has.                                  *)

RequestType ==
  [kind : {"free", "fan", "light", "get", "accepted", "state"},
   fan : Fans \cup {U!None}, light : BOOLEAN]

PageInv ==
  /\ U!TypeOK
  /\ request \in [Requests -> RequestType]
  /\ \A r \in Requests : request[r].kind \in {"fan", "state"} => request[r].fan \in Fans

\* The requests the page and the unit exchange are typed.
LEMMA Requested ==
  /\ {U!Free, U!Get, U!Accepted} \subseteq RequestType
  /\ U!Free.kind = "free" /\ U!Get.kind = "get" /\ U!Accepted.kind = "accepted"
  /\ \A on \in BOOLEAN : U!PostLight(on) \in RequestType /\ U!PostLight(on).kind = "light"
  /\ \A u \in [fan : Fans, light : BOOLEAN] :
       U!State(u) \in RequestType /\ U!State(u).kind = "state" /\ U!State(u).fan = u.fan
<1>1. ASSUME NEW k \in {"free", "fan", "light", "get", "accepted", "state"},
             NEW f \in Fans \cup {U!None}, NEW b \in BOOLEAN
      PROVE  [kind |-> k, fan |-> f, light |-> b] \in RequestType
  BY <1>1 DEF RequestType
<1>2. U!Free \in RequestType /\ U!Get \in RequestType /\ U!Accepted \in RequestType
  BY <1>1 DEF U!Free, U!Get, U!Accepted
<1>3. U!Free.kind = "free" /\ U!Get.kind = "get" /\ U!Accepted.kind = "accepted"
  BY DEF U!Free, U!Get, U!Accepted
<1>4. ASSUME NEW on \in BOOLEAN PROVE U!PostLight(on) \in RequestType /\ U!PostLight(on).kind = "light"
  BY <1>1 DEF U!PostLight
<1>5. ASSUME NEW u \in [fan : Fans, light : BOOLEAN]
      PROVE  U!State(u) \in RequestType /\ U!State(u).kind = "state" /\ U!State(u).fan = u.fan
  <2>1. u.fan \in Fans \cup {U!None} /\ u.light \in BOOLEAN
    OBVIOUS
  <2> QED
    BY <1>1, <2>1 DEF U!State
<1> QED
  BY <1>2, <1>3, <1>4, <1>5

LEMMA PageInit == U!Init => PageInv
<1> SUFFICES ASSUME U!Init PROVE PageInv
  OBVIOUS
<1>1. request = [r \in Requests |-> U!Free]
  BY DEF U!Init
<1>2. /\ request \in [Requests -> RequestType] /\ \A r \in Requests : request[r].kind = "free"
  BY <1>1, Requested
<1>3. U!TypeOK
  BY <1>2 DEF U!Init, U!TypeOK
<1> QED
  BY <1>2, <1>3 DEF PageInv

\* What is sent is typed if it is a request of the page.
LEMMA SendTyped ==
  ASSUME PageInv, NEW what \in RequestType, what.kind = "fan" => what.fan \in Fans,
         what.kind # "state", U!Send(what)
  PROVE  /\ request' \in [Requests -> RequestType]
         /\ \A r \in Requests : request'[r].kind \in {"fan", "state"} => request'[r].fan \in Fans
BY DEF PageInv, U!Send

LEMMA PageStepInv == PageInv /\ [U!Next]_(U!vars) => PageInv'
<1> SUFFICES ASSUME PageInv, [U!Next]_(U!vars) PROVE PageInv'
  OBVIOUS
<1> DEFINE Kept ==
      /\ request' \in [Requests -> RequestType]
      /\ \A r \in Requests : request'[r].kind \in {"fan", "state"} => request'[r].fan \in Fans
<1>0. U!TypeOK' /\ Kept => PageInv'
  BY DEF PageInv
<1>t. Kept => \A r \in Requests :
        request'[r].kind \in {"free", "fan", "light", "get", "accepted", "state"}
  BY DEF RequestType
<1>a. /\ U!TypeOK /\ request \in [Requests -> RequestType]
      /\ \A r \in Requests : request[r].kind \in {"fan", "state"} => request[r].fan \in Fans
  BY DEF PageInv
<1>1. CASE \/ U!PointerDown \/ U!PointerUp \/ U!TouchCancel \/ U!SliderInput
           \/ U!KeyPressed \/ U!UserLeaves \/ UNCHANGED U!vars
  <2>1. Kept
    BY <1>1, <1>a DEF U!PointerDown, U!PointerUp, U!TouchCancel, U!SliderInput, U!KeyPressed,
                      U!UserLeaves, U!vars
  <2>2. U!TypeOK'
    BY <1>1, <1>a, <1>t, <2>1
       DEF U!PointerDown, U!PointerUp, U!TouchCancel, U!SliderInput, U!KeyPressed, U!UserLeaves,
           U!vars, U!page, U!TypeOK
  <2> QED
    BY <1>0, <2>1, <2>2
<1>2. CASE U!QueueFanUpdate \/ U!FanPreset
  <2>1. PICK v \in Fans : U!Send(U!PostFan(v))
    BY <1>2, <1>a DEF U!QueueFanUpdate, U!FanPreset, U!TypeOK
  <2>2. U!PostFan(v) \in RequestType /\ U!PostFan(v).kind = "fan" /\ U!PostFan(v).fan = v
    BY DEF U!PostFan, RequestType
  <2>3. Kept
    BY <2>1, <2>2, SendTyped
  <2>4. U!TypeOK'
    BY <1>2, <1>a, <1>t, <2>3 DEF U!QueueFanUpdate, U!FanPreset, U!TypeOK
  <2> QED
    BY <1>0, <2>3, <2>4
<1>3. CASE U!ScreenToggle \/ U!LoadState
  <2>1. PICK what \in {U!PostLight(~stateCache), U!Get} : U!Send(what)
    BY <1>3 DEF U!ScreenToggle, U!LoadState
  <2>2. what \in RequestType /\ what.kind \in {"light", "get"}
    BY <1>a, Requested DEF U!TypeOK
  <2>3. Kept
    BY <2>1, <2>2, SendTyped
  <2>4. U!TypeOK'
    BY <1>3, <1>a, <1>t, <2>3 DEF U!ScreenToggle, U!LoadState, U!page, U!TypeOK
  <2> QED
    BY <1>0, <2>3, <2>4
<1>4. ASSUME NEW r \in Requests, U!SendControlAnswered(r) \/ U!RenderState(r) \/ U!Fail(r)
      PROVE  PageInv'
  <2>1. PICK what \in {U!Get, U!Free} : request' = [request EXCEPT ![r] = what]
    BY <1>4 DEF U!SendControlAnswered, U!RenderState, U!Fail
  <2>2. what \in RequestType /\ what.kind \in {"get", "free"}
    BY Requested
  <2>3. Kept
    BY <1>a, <2>1, <2>2
  <2>4. request[r].kind = "state" => request[r].fan \in Fans /\ request[r].light \in BOOLEAN
    BY <1>a DEF RequestType
  <2>5. U!TypeOK'
    BY <1>4, <1>a, <1>t, <2>3, <2>4
       DEF U!SendControlAnswered, U!RenderState, U!Fail, U!page, U!TypeOK
  <2> QED
    BY <1>0, <2>3, <2>5
<1>5. ASSUME NEW r \in Requests, U!Serve(r) PROVE PageInv'
  <2>1. PICK what \in {U!Accepted, U!State(unit)} :
          /\ request' = [request EXCEPT ![r] = what]
          /\ \/ request[r].kind = "fan" /\ unit' = [unit EXCEPT !.fan = request[r].fan]
             \/ request[r].kind = "light" /\ unit' = [unit EXCEPT !.light = request[r].light]
             \/ unit' = unit
    BY <1>5 DEF U!Serve
  <2>2. what \in RequestType /\ (what.kind = "state" => what.fan \in Fans) /\ what.kind # "fan"
    BY <1>a, Requested DEF U!TypeOK
  <2>3. Kept
    BY <1>a, <2>1, <2>2
  <2>4. unit' \in [fan : Fans, light : BOOLEAN]
    BY <1>a, <2>1 DEF U!TypeOK, RequestType
  <2>5. U!TypeOK'
    BY <1>5, <1>a, <1>t, <2>3, <2>4 DEF U!Serve, U!page, U!TypeOK
  <2> QED
    BY <1>0, <2>3, <2>5
<1> QED
  BY <1>1, <1>2, <1>3, <1>4, <1>5 DEF U!Next

-----------------------------------------------------------------------------
(* The parts together.                                                     *)

\* A step is one of one part and leaves the others alone.
LEMMA StepOfOne ==
  [MCNext]_vars =>
    [Next]_ringVars /\ [A!Next]_(A!vars) /\ [P!Next]_(P!vars) /\ [U!Next]_(U!vars)
<1> SUFFICES ASSUME [MCNext]_vars
             PROVE [Next]_ringVars /\ [A!Next]_(A!vars) /\ [P!Next]_(P!vars) /\ [U!Next]_(U!vars)
  OBVIOUS
<1>1. /\ Next \/ UNCHANGED ringVars
      /\ A!Next \/ UNCHANGED apVars
      /\ P!Next \/ UNCHANGED mqVars
      /\ U!Next \/ UNCHANGED pageVars
  BY Zenon DEF MCNext, Ring, SoftAp, Publish, Page, vars
<1> QED
  BY <1>1, Zenon DEF A!vars, P!vars, U!vars, apVars, mqVars, pageVars

\* The invariants of the four parts.
PartsInv == TypeOK /\ ApInv /\ MqInv /\ PageInv

LEMMA PartsInvariance == MCSpec => []PartsInv
<1>1. MCInit => PartsInv
  <2>1. A!SoftApInputsOK
    BY PartsInputsOK DEF PartsInputsOK
  <2> QED
    BY <2>1, InitType, ApInit, MqInit, PageInit DEF MCInit, PartsInv
<1>2. PartsInv /\ [MCNext]_vars => PartsInv'
  <2> SUFFICES ASSUME PartsInv, [MCNext]_vars PROVE PartsInv'
    OBVIOUS
  <2>1. A!SoftApInputsOK
    BY PartsInputsOK DEF PartsInputsOK
  <2>2. TypeOK' /\ ApInv' /\ MqInv' /\ PageInv'
    BY <2>1, StepOfOne, StepType, ApStepInv, MqStepInv, PageStepInv DEF PartsInv
  <2> QED
    BY <2>2 DEF PartsInv
<1> QED
  BY <1>1, <1>2, PTL DEF MCSpec

\* Every state of every part is of its type; in particular no more commands are owed than
\* the ring has slots, the publish queue never exceeds its usable slots, and the slider
\* and the unit only ever show a fan speed of the unit.
THEOREM TypesCorrect == MCSpec => []TypesOK
<1>1. PartsInv => TypesOK
  BY PartsInputsOK, ApTypeOK, MqTypeOK DEF PartsInputsOK, PartsInv, MqInv, PageInv, TypesOK
<1> QED
  BY PartsInvariance, <1>1, PTL

\* For every number of slots, wherever the ring stands and however the loop's pops fall
\* between the setup thread's accesses: only a command that was enqueued and not applied
\* yet is applied, while no button is touched during the request.
THEOREM NothingReplayed == MCSpec => []NoReplay
<1>1. PartsInv => NoReplay
  BY PartsInputsOK, ApNoReplay DEF PartsInputsOK, PartsInv, NoReplay
<1> QED
  BY PartsInvariance, <1>1, PTL

\* For every ring, wherever it stands and however the two threads' accesses interleave while no
\* button is touched during the request: the shared ring is a queue in which every request
\* enters in one step, or is refused by a queue that is full in that step, and
\* the unit is reset when the reboot comes out of it and by nothing else.
THEOREM ThreadsAreAtomic == MCSpec => ImplementsAtomicQueue
<1>1. A!SoftApInputsOK
  BY PartsInputsOK DEF PartsInputsOK
<1>2. MCInit => A!Atomic!Init
  BY <1>1, ApInitAtomic DEF MCInit
<1>3. PartsInv /\ [MCNext]_vars => [A!Atomic!Next]_(A!Atomic!vars)
  BY <1>1, ApStepAtomic, StepOfOne DEF PartsInv
<1> QED
  BY PartsInvariance, <1>2, <1>3, PTL
     DEF MCSpec, ImplementsAtomicQueue, A!ImplementsAtomicQueue, A!Atomic!Spec

\* For every ring of three slots or more: once the page said that the unit reboots, the
\* reboot is in the queue until the unit is reset; it is never refused or lost.
THEOREM PromiseIsKept ==
  ASSUME ApQueueSize >= 3
  PROVE  MCSpec => []RebootIsQueued
<1>1. A!SoftApInputsOK
  BY PartsInputsOK DEF PartsInputsOK
<1>2. MCInit => PageKept
  BY <1>1, PageKeptInit DEF MCInit
<1>3. PageKept /\ [MCNext]_vars => PageKept'
  BY <1>1, PageKeptStep, StepOfOne
<1>4. PageKept => RebootIsQueued
  BY <1>1, PageKeptIsQueued DEF RebootIsQueued
<1> QED
  BY <1>2, <1>3, <1>4, PTL DEF MCSpec

\* For every number of slots, every kind of item and every set of batches the ring buffer
\* implements the bounded FIFO queue.
THEOREM RingIsFifo == MCSpec => ImplementsFifo
<1>1. MCInit => Fifo!Init
  BY InitRefines DEF MCInit
<1>2. PartsInv /\ [MCNext]_vars => [Fifo!Next]_Contents
  BY StepRefines, StepOfOne DEF PartsInv
<1> QED
  BY PartsInvariance, <1>1, <1>2, PTL DEF MCSpec, ImplementsFifo, Fifo!Spec

\* Once a session has drained the publish queue, and while it lasts, every state burst
\* and every health burst enters whole, for every number of topics, every size of the
\* queue and all times for which the messages of the bursts together leave as fast as
\* they come.
THEOREM BurstAbsorbed == MCSpec => BurstIsAbsorbed
<1>1. PartsInv /\ [MCNext]_vars => [Absorbs]_(P!vars)
  BY MqAbsorbs, StepOfOne DEF PartsInv
<1> QED
  BY PartsInvariance, <1>1, PTL DEF MCSpec, BurstIsAbsorbed, P!BurstIsAbsorbed, Absorbs

\* Once a session has drained the queue and a state burst has gone in, a clear dirty flag
\* means that the last word on every state topic is the field, wherever command, report,
\* health burst and delivery fall between the bursts, and for all times as above.
THEOREM ChangesUnderWay == MCSpec => []StaleIsUnderWay
<1>1. MCInit => ToldInv
  BY ToldInit DEF MCInit
<1>2. PartsInv /\ PartsInv' /\ ToldInv /\ [MCNext]_vars => ToldInv'
  BY ToldStep, StepOfOne DEF PartsInv
<1>3. ToldInv => StaleIsUnderWay
  BY DEF ToldInv, StaleIsUnderWay
<1> QED
  BY PartsInvariance, <1>1, <1>2, <1>3, PTL DEF MCSpec

=============================================================================
