------------------------ MODULE ButtonDriver_proofs ------------------------
(***************************************************************************)
(* A press means one thing: for every set of keys and all times that leave *)
(* presses apart (PressesOK), with contacts that do not bounce, no key     *)
(* held while the unit starts and a clock that does not wrap.              *)
(***************************************************************************)
EXTENDS ButtonDriver, FiniteSetTheorems, TLAPS

PressInputsOK ==
  ButtonInputsOK /\ PressesOK /\ Bounce = 0 /\ ~Wrap /\ HeldAtBoot = {}

-----------------------------------------------------------------------------
(* The parameters as numbers, and sets of keys.                            *)

LEMMA Numbers ==
  ASSUME PressInputsOK
  PROVE  /\ DebounceMs \in Nat \ {0} /\ RepeatDelayMs \in Nat \ {0} /\ RepeatMs \in Nat \ {0}
         /\ ClockRange \in Nat \ {0} /\ MinGap \in Nat /\ SinceCap \in Nat /\ MinGap <= SinceCap
         /\ PowerLongMs \in Nat \ {0} /\ MiddleLongMs \in Nat \ {0}
         /\ 2 * RepeatMs < ClockRange /\ 2 * RepeatDelayMs < ClockRange
         /\ \A i \in LongKeys : HoldMs(i) \in Nat \ {0} /\ HoldMs(i) <= SinceCap
         /\ \A i \in LongKeys \cap Entries : MinGap <= HoldMs(i)
         /\ Entries \subseteq Int /\ \A i \in Entries : i \in 0 .. 3
<1>1. /\ DebounceMs \in Nat \ {0} /\ RepeatDelayMs \in Nat \ {0} /\ RepeatMs \in Nat \ {0}
      /\ ClockRange \in Nat \ {0} /\ MinGap \in Nat
      /\ PowerLongMs \in Nat \ {0} /\ MiddleLongMs \in Nat \ {0}
  BY DEF PressInputsOK, ButtonInputsOK
<1>2. SinceCap \in Nat /\ MinGap <= SinceCap
  BY <1>1 DEF PressInputsOK, PressesOK, SinceCap
<1>3. \A i \in LongKeys : HoldMs(i) \in Nat \ {0} /\ HoldMs(i) <= SinceCap
  BY <1>1 DEF HoldMs, SinceCap
<1> QED
  BY <1>1, <1>2, <1>3 DEF PressInputsOK, PressesOK, ButtonInputsOK, Keys

LEMMA Steps ==
  ASSUME PressInputsOK
  PROVE  /\ MaxStep \in Nat \ {0}
         /\ \A dt \in TickSteps : dt \in Nat \ {0} /\ dt <= MaxStep
<1>1. TickSteps \subseteq Nat \ {0} /\ \E m \in TickSteps : \A dt \in TickSteps : m >= dt
  BY DEF PressInputsOK, ButtonInputsOK, PressesOK
<1>2. MaxStep \in TickSteps /\ \A dt \in TickSteps : MaxStep >= dt
  BY <1>1 DEF MaxStep, Max
<1>3. MaxStep \in Nat \ {0} /\ \A dt \in TickSteps : dt \in Nat \ {0}
  BY <1>1, <1>2
<1>4. \A dt \in TickSteps : dt <= MaxStep
  BY <1>2, <1>3
<1> QED
  BY <1>3, <1>4

LEMMA EntriesFinite == PressInputsOK => IsFiniteSet(Entries)
<1>1. 0 \in Int /\ 3 \in Int
  OBVIOUS
<1>2. IsFiniteSet(0 .. 3)
  BY ONLY <1>1, FS_Interval, Zenon
<1>3. PressInputsOK => Entries \in SUBSET (0 .. 3)
  BY DEF PressInputsOK, ButtonInputsOK, Keys
<1> QED
  BY <1>2, <1>3, FS_Subset

LEMMA KeySets ==
  ASSUME PressInputsOK
  PROVE  /\ Cardinality(Entries) \in Nat
         /\ \A S \in SUBSET Entries : Cardinality(S) \in Nat
         /\ \A S \in SUBSET Entries : \A i \in Entries \ S : Cardinality(S) + 1 <= Cardinality(Entries)
<1>1. IsFiniteSet(Entries)
  BY EntriesFinite
<1>2. ASSUME NEW S \in SUBSET Entries PROVE IsFiniteSet(S) /\ Cardinality(S) \in Nat
  BY <1>1, FS_Subset, FS_CardinalityType
<1>3. Cardinality(Entries) \in Nat
  BY <1>1, FS_CardinalityType
<1>4. ASSUME NEW S \in SUBSET Entries, NEW i \in Entries \ S
      PROVE  Cardinality(S) + 1 <= Cardinality(Entries)
  <2>1. Cardinality(S \cup {i}) = Cardinality(S) + 1
    BY <1>2, FS_AddElement
  <2>2. Cardinality(S \cup {i}) <= Cardinality(Entries)
    BY <1>1, FS_Subset
  <2> QED
    BY <2>1, <2>2
<1> QED
  BY <1>2, <1>3, <1>4

\* One key more.
LEMMA OneMore ==
  ASSUME PressInputsOK, NEW S \in SUBSET Entries, NEW R \in SUBSET Entries, S \subseteq R,
         NEW m \in R \ S
  PROVE  Cardinality(S) + 1 <= Cardinality(R)
<1>1. IsFiniteSet(Entries)
  BY EntriesFinite
<1>2. IsFiniteSet(S) /\ IsFiniteSet(R)
  BY <1>1, FS_Subset
<1>3. Cardinality(S \cup {m}) = Cardinality(S) + 1
  BY <1>2, FS_AddElement
<1>4. Cardinality(S \cup {m}) <= Cardinality(R)
  <2>1. S \cup {m} \in SUBSET R
    OBVIOUS
  <2> QED
    BY <1>2, <2>1, FS_Subset
<1> QED
  BY <1>3, <1>4

LEMMA RoundIs ==
  ASSUME PressInputsOK
  PROVE  /\ Round \in Nat
         /\ Round <= RepeatMs /\ Round <= RepeatDelayMs /\ DebounceMs + Round <= MinGap
         /\ \A n \in Nat : /\ MaxStep * n \in Nat
                           /\ MaxStep * (n + 1) = MaxStep * n + MaxStep
                           /\ n + 1 <= Cardinality(Entries) => MaxStep * n + MaxStep <= Round
<1>1. Cardinality(Entries) \in Nat /\ MaxStep \in Nat
  BY KeySets, Steps
<1> DEFINE c == Cardinality(Entries)
<1>2. Round = c * MaxStep
  BY DEF Round
<1>3. Round <= RepeatMs /\ Round <= RepeatDelayMs /\ DebounceMs + Round <= MinGap
  BY DEF PressInputsOK, PressesOK
<1> HIDE DEF c
<1>4. c \in Nat
  BY <1>1 DEF c
<1>5. ASSUME NEW n \in Nat
      PROVE  /\ MaxStep * n \in Nat
             /\ MaxStep * (n + 1) = MaxStep * n + MaxStep
             /\ n + 1 <= c => MaxStep * n + MaxStep <= Round
  <2>1. MaxStep * n \in Nat /\ MaxStep * (n + 1) = MaxStep * n + MaxStep
    BY <1>1
  <2>2. ASSUME n + 1 <= c PROVE MaxStep * (n + 1) <= c * MaxStep
    BY <1>1, <1>4, <2>2
  <2> QED
    BY <1>2, <2>1, <2>2
<1>6. Round \in Nat
  BY <1>1, <1>2, <1>4
<1> QED
  BY <1>3, <1>5, <1>6 DEF c

-----------------------------------------------------------------------------
(* The clock, which does not wrap; a mark may lie behind its end.          *)

LEMMA ClockIs ==
  ASSUME PressInputsOK, NEW t \in Times
  PROVE  /\ \A d \in Nat : Later(t, d) \in Times /\ (t + d < ClockRange => Later(t, d) = t + d)
         /\ \A s \in 0 .. t : Elapsed(t, s) = t - s
BY Numbers DEF Times, Later, Elapsed

\* A mark d ahead is not reached before it is due.
LEMMA MarkAhead ==
  ASSUME PressInputsOK, NEW s \in Times, NEW d \in Nat, 2 * d < ClockRange,
         NEW t \in s .. ClockRange - 1, Reached(t, Later(s, d))
  PROVE  t >= s + d
<1>1. ClockRange \in Nat \ {0} /\ s \in Nat /\ t \in Nat /\ s <= t /\ t < ClockRange
  BY Numbers DEF Times
<1> SUFFICES ASSUME t < s + d PROVE FALSE
  BY <1>1
<1> DEFINE mark == Later(s, d)
<1>2. mark = IF s + d < ClockRange THEN s + d ELSE s + d - ClockRange
  BY <1>1 DEF Later
<1>3. 2 * ((t - mark) % ClockRange) < ClockRange
  BY DEF Reached, Elapsed
<1> HIDE DEF mark
<1>4. (t - mark) % ClockRange = t - (s + d) + ClockRange
  BY <1>1, <1>2
<1> QED
  BY <1>1, <1>3, <1>4

-----------------------------------------------------------------------------
(* One key of one poll, with a clean contact and the idle level low.       *)

EntryType ==
  [idle : {FALSE}, last : BOOLEAN, last_change : Nat, press_start : Nat, next_repeat : Times,
   fired : BOOLEAN]

Edge(e, level, t) == level # e.last /\ Elapsed(t, e.last_change) >= DebounceMs

LEMMA EmitIs == \A e, c : Emit(e, c).event = c /\ Emit(e, c).entry = e
BY DEF Emit

\* A stepping key: the first sample of a press and every interval after the delay step.
Stepping(i, e, level, t, r) ==
  /\ level /\ e.last /\ Reached(t, e.next_repeat) =>
       /\ r.event = StepCommand(i)
       /\ r.entry = [e EXCEPT !.next_repeat = Later(t, RepeatMs)]
  /\ level /\ e.last /\ ~Reached(t, e.next_repeat) => r = Quiet(e)
  /\ level /\ ~e.last /\ Edge(e, level, t) =>
       /\ r.event = StepCommand(i)
       /\ r.entry = [[e EXCEPT !.last_change = t, !.last = level]
                       EXCEPT !.next_repeat = Later(t, RepeatDelayMs)]
  /\ ~level /\ Edge(e, level, t) => r = Quiet([e EXCEPT !.last_change = t, !.last = level])
  /\ ~level /\ ~Edge(e, level, t) => r = Quiet(e)
  /\ level /\ ~e.last /\ ~Edge(e, level, t) => r = Quiet(e)

LEMMA ScanStepping ==
  ASSUME NEW i \in Keys \ LongKeys, NEW e \in EntryType, NEW level \in BOOLEAN, NEW t
  PROVE  Stepping(i, e, level, t, Scan(i, e, level, t))
<1> DEFINE pressed == level # e.idle
           s == PressStarted(i, e, pressed, t)
           long_due == LongDue(i, s, pressed, t)
           repeat_due == RepeatDue(i, e, pressed, t)
           edge == level # e.last /\ Elapsed(t, e.last_change) >= DebounceMs
           changed == [s EXCEPT !.last_change = t, !.last = level]
<1>1. i \notin LongKeys /\ e.idle = FALSE /\ e.last \in BOOLEAN
  BY DEF EntryType
<1>2. pressed <=> level
  BY <1>1
<1>3. s = e /\ ~long_due
  BY <1>1 DEF PressStarted, LongDue
<1>4. repeat_due <=> (level /\ e.last /\ Reached(t, e.next_repeat))
  BY <1>1, <1>2 DEF RepeatDue, Debounced
<1>5. edge <=> Edge(e, level, t)
  BY DEF Edge
<1>6. repeat_due => ~edge
  BY <1>1, <1>4
<1>7. Scan(i, e, level, t) =
        CASE long_due -> Emit([s EXCEPT !.fired = TRUE], LongCommand(i))
          [] repeat_due -> Emit([e EXCEPT !.next_repeat = Later(t, RepeatMs)], StepCommand(i))
          [] ~long_due /\ ~repeat_due /\ ~edge -> Quiet(s)
          [] ~long_due /\ ~repeat_due /\ edge /\ i \in LongKeys ->
               (IF pressed THEN Quiet([changed EXCEPT !.press_start = t, !.fired = FALSE])
                ELSE IF s.fired THEN Quiet(changed)
                ELSE Emit(changed, TapCommand(i)))
          [] ~long_due /\ ~repeat_due /\ edge /\ i \notin LongKeys ->
               (IF pressed THEN Emit([changed EXCEPT !.next_repeat = Later(t, RepeatDelayMs)],
                                    StepCommand(i))
                ELSE Quiet(changed))
  BY Zenon DEF Scan
<1> HIDE DEF edge, repeat_due, long_due, s, pressed
<1>8. CASE repeat_due
  <2>1. Scan(i, e, level, t) = Emit([e EXCEPT !.next_repeat = Later(t, RepeatMs)], StepCommand(i))
    BY <1>3, <1>7, <1>8, Zenon
  <2>2. /\ Scan(i, e, level, t).event = StepCommand(i)
        /\ Scan(i, e, level, t).entry = [e EXCEPT !.next_repeat = Later(t, RepeatMs)]
    BY <2>1, EmitIs, Zenon
  <2> QED
    BY <1>1, <1>4, <1>5, <1>6, <1>8, <2>2, Zenon DEF Stepping
<1>9. CASE ~repeat_due /\ ~edge
  <2>1. Scan(i, e, level, t) = Quiet(e)
    BY <1>3, <1>7, <1>9, Zenon
  <2> QED
    BY <1>4, <1>5, <1>9, <2>1 DEF Stepping
<1>10. CASE ~repeat_due /\ edge /\ pressed
  <2>1. Scan(i, e, level, t) =
          Emit([[e EXCEPT !.last_change = t, !.last = level]
                  EXCEPT !.next_repeat = Later(t, RepeatDelayMs)], StepCommand(i))
    BY <1>1, <1>3, <1>7, <1>10, Zenon
  <2>2. level /\ ~e.last /\ Edge(e, level, t)
    BY <1>1, <1>2, <1>5, <1>10 DEF edge
  <2>3. /\ Scan(i, e, level, t).event = StepCommand(i)
        /\ Scan(i, e, level, t).entry =
             [[e EXCEPT !.last_change = t, !.last = level]
                EXCEPT !.next_repeat = Later(t, RepeatDelayMs)]
    BY <2>1, EmitIs, Zenon
  <2> QED
    BY <2>2, <2>3, Zenon DEF Stepping
<1>11. CASE ~repeat_due /\ edge /\ ~pressed
  <2>1. Scan(i, e, level, t) = Quiet([e EXCEPT !.last_change = t, !.last = level])
    BY <1>1, <1>3, <1>7, <1>11, Zenon
  <2> QED
    BY <1>2, <1>5, <1>11, <2>1 DEF Stepping
<1> QED
  BY <1>8, <1>9, <1>10, <1>11

\* A key with a long press: e is the entry once the timer has started, if it has.
Started(e, level, t) ==
  IF level /\ ~e.last /\ e.press_start <= e.last_change THEN [e EXCEPT !.press_start = t] ELSE e

Holding(i, e, level, t, r, s, long_due) ==
  /\ long_due => r.event = LongCommand(i) /\ r.entry = [s EXCEPT !.fired = TRUE]
  /\ ~long_due /\ ~Edge(e, level, t) => r = Quiet(s)
  /\ ~long_due /\ Edge(e, level, t) /\ level =>
       r = Quiet([[s EXCEPT !.last_change = t, !.last = level]
                    EXCEPT !.press_start = t, !.fired = FALSE])
  /\ Edge(e, level, t) /\ ~level /\ e.fired =>
       r = Quiet([e EXCEPT !.last_change = t, !.last = level])
  /\ Edge(e, level, t) /\ ~level /\ ~e.fired =>
       r.event = TapCommand(i) /\ r.entry = [e EXCEPT !.last_change = t, !.last = level]

LongDueAt(i, e, level, t) ==
  level /\ ~e.fired /\ Elapsed(t, Started(e, level, t).press_start) >= HoldMs(i)

LEMMA ScanHolding ==
  ASSUME NEW i \in LongKeys, NEW e \in EntryType, NEW level \in BOOLEAN, NEW t \in Nat
  PROVE  Holding(i, e, level, t, Scan(i, e, level, t), Started(e, level, t), LongDueAt(i, e, level, t))
<1> DEFINE pressed == level # e.idle
           s == PressStarted(i, e, pressed, t)
           long_due == LongDue(i, s, pressed, t)
           repeat_due == RepeatDue(i, e, pressed, t)
           edge == level # e.last /\ Elapsed(t, e.last_change) >= DebounceMs
           changed == [s EXCEPT !.last_change = t, !.last = level]
<1>1. i \in LongKeys /\ e.idle = FALSE /\ e.last \in BOOLEAN
  BY DEF EntryType
<1>2. pressed <=> level
  BY <1>1
<1>3. s = Started(e, level, t) /\ s.fired = e.fired /\ (~level => s = e)
  BY <1>1, <1>2 DEF PressStarted, Started, Debounced, EntryType
<1>4. ~repeat_due
  BY <1>1 DEF RepeatDue
<1>5. edge <=> Edge(e, level, t)
  BY DEF Edge
<1>6. long_due <=> LongDueAt(i, e, level, t)
  BY <1>1, <1>2, <1>3 DEF LongDue, LongDueAt
<1>7. Scan(i, e, level, t) =
        CASE long_due -> Emit([s EXCEPT !.fired = TRUE], LongCommand(i))
          [] repeat_due -> Emit([e EXCEPT !.next_repeat = Later(t, RepeatMs)], StepCommand(i))
          [] ~long_due /\ ~repeat_due /\ ~edge -> Quiet(s)
          [] ~long_due /\ ~repeat_due /\ edge /\ i \in LongKeys ->
               (IF pressed THEN Quiet([changed EXCEPT !.press_start = t, !.fired = FALSE])
                ELSE IF s.fired THEN Quiet(changed)
                ELSE Emit(changed, TapCommand(i)))
          [] ~long_due /\ ~repeat_due /\ edge /\ i \notin LongKeys ->
               (IF pressed THEN Emit([changed EXCEPT !.next_repeat = Later(t, RepeatDelayMs)],
                                    StepCommand(i))
                ELSE Quiet(changed))
  BY Zenon DEF Scan
<1> HIDE DEF edge, repeat_due, long_due, pressed
<1>8. long_due => Scan(i, e, level, t) = Emit([s EXCEPT !.fired = TRUE], LongCommand(i))
  BY <1>4, <1>7, Zenon
<1>9. ~long_due /\ ~edge => Scan(i, e, level, t) = Quiet(s)
  BY <1>4, <1>7, Zenon
<1>10. ~long_due /\ edge /\ pressed =>
         Scan(i, e, level, t) = Quiet([changed EXCEPT !.press_start = t, !.fired = FALSE])
  BY <1>1, <1>4, <1>7, Zenon
<1>11. ~long_due /\ edge /\ ~pressed /\ s.fired => Scan(i, e, level, t) = Quiet(changed)
  BY <1>1, <1>4, <1>7, Zenon
<1>12. ~long_due /\ edge /\ ~pressed /\ ~s.fired =>
         Scan(i, e, level, t) = Emit(changed, TapCommand(i))
  BY <1>1, <1>4, <1>7, Zenon
<1> HIDE DEF s
<1>13. ~level => ~long_due
  BY <1>6 DEF LongDueAt
<1>14. long_due => /\ Scan(i, e, level, t).event = LongCommand(i)
                   /\ Scan(i, e, level, t).entry = [s EXCEPT !.fired = TRUE]
  BY <1>8, EmitIs, Zenon
<1>15. ASSUME ~long_due, edge, ~pressed, ~s.fired
       PROVE  /\ Scan(i, e, level, t).event = TapCommand(i)
              /\ Scan(i, e, level, t).entry = changed
  <2> HIDE DEF changed
  <2>1. Scan(i, e, level, t) = Emit(changed, TapCommand(i))
    BY <1>12, <1>15, Zenon
  <2> QED
    BY <2>1, EmitIs, Zenon
<1>16. /\ ~level /\ edge /\ e.fired => Scan(i, e, level, t) = Quiet(changed)
       /\ ~level /\ edge /\ ~e.fired => /\ Scan(i, e, level, t).event = TapCommand(i)
                                       /\ Scan(i, e, level, t).entry = changed
       /\ ~level => changed = [e EXCEPT !.last_change = t, !.last = level]
  BY <1>2, <1>3, <1>11, <1>13, <1>15, Zenon
<1>17. /\ long_due => /\ Scan(i, e, level, t).event = LongCommand(i)
                      /\ Scan(i, e, level, t).entry = [s EXCEPT !.fired = TRUE]
       /\ ~long_due /\ ~Edge(e, level, t) => Scan(i, e, level, t) = Quiet(s)
       /\ ~long_due /\ Edge(e, level, t) /\ level =>
            Scan(i, e, level, t) = Quiet([changed EXCEPT !.press_start = t, !.fired = FALSE])
  BY <1>2, <1>5, <1>9, <1>10, <1>14, Zenon
<1> HIDE DEF changed
<1>18. /\ Edge(e, level, t) /\ ~level /\ e.fired =>
            Scan(i, e, level, t) = Quiet([e EXCEPT !.last_change = t, !.last = level])
       /\ Edge(e, level, t) /\ ~level /\ ~e.fired =>
            /\ Scan(i, e, level, t).event = TapCommand(i)
            /\ Scan(i, e, level, t).entry = [e EXCEPT !.last_change = t, !.last = level]
  BY <1>5, <1>16, Zenon
<1> QED
  BY <1>3, <1>6, <1>17, <1>18, Zenon DEF changed, Holding

-----------------------------------------------------------------------------
(* One poll: every key is scanned, or one before it took the poll.         *)

Typed ==
  /\ now_ms \in Times
  /\ entries \in [Entries -> EntryType] /\ finger \in [Entries -> BOOLEAN]
  /\ since \in [Entries -> 0 .. SinceCap] /\ held \in [Entries -> 0 .. SinceCap]
  /\ given \in [Entries -> [1 .. 3 -> Nat]]
  /\ event.key \in Entries \cup {-1}
  /\ \A i \in Entries :
       /\ entries[i].last_change <= now_ms /\ entries[i].press_start <= now_ms
       /\ finger[i] => held[i] = since[i]

Scanned(i, t) == Scan(i, entries[i], finger[i], t)
Commands(i) == IF i \in LongKeys THEN {TapCommand(i), LongCommand(i)} ELSE {StepCommand(i)}

\* An entry whose times are not after t, and what poll writes into one.
WrittenBy(f, t) == f \in EntryType /\ f.last_change <= t /\ f.press_start <= t

LEMMA Writes ==
  ASSUME NEW t \in Nat, NEW f, WrittenBy(f, t), NEW level \in BOOLEAN, NEW r \in Times
  PROVE  /\ WrittenBy([f EXCEPT !.next_repeat = r], t)
         /\ WrittenBy([f EXCEPT !.last_change = t, !.last = level], t)
         /\ WrittenBy([f EXCEPT !.press_start = t], t)
         /\ WrittenBy([f EXCEPT !.press_start = t, !.fired = FALSE], t)
         /\ WrittenBy([f EXCEPT !.fired = TRUE], t)
<1>1. /\ f \in EntryType /\ f.last_change <= t /\ f.press_start <= t
  BY DEF WrittenBy
<1>2. WrittenBy([f EXCEPT !.next_repeat = r], t)
  BY <1>1 DEF WrittenBy, EntryType
<1>3. WrittenBy([f EXCEPT !.last_change = t, !.last = level], t)
  <2>1. [f EXCEPT !.last_change = t, !.last = level] \in EntryType
    BY <1>1 DEF EntryType
  <2>2. [f EXCEPT !.last_change = t, !.last = level].last_change = t /\ [f EXCEPT !.last_change = t, !.last = level].press_start = f.press_start
    BY <1>1 DEF EntryType
  <2> QED
    BY <1>1, <2>1, <2>2 DEF WrittenBy
<1>4. WrittenBy([f EXCEPT !.press_start = t], t)
  <2>1. [f EXCEPT !.press_start = t] \in EntryType
    BY <1>1 DEF EntryType
  <2>2. [f EXCEPT !.press_start = t].last_change = f.last_change /\ [f EXCEPT !.press_start = t].press_start = t
    BY <1>1 DEF EntryType
  <2> QED
    BY <1>1, <2>1, <2>2 DEF WrittenBy
<1>5. WrittenBy([f EXCEPT !.press_start = t, !.fired = FALSE], t)
  <2>1. [f EXCEPT !.press_start = t, !.fired = FALSE] \in EntryType
    BY <1>1 DEF EntryType
  <2>2. [f EXCEPT !.press_start = t, !.fired = FALSE].last_change = f.last_change /\ [f EXCEPT !.press_start = t, !.fired = FALSE].press_start = t
    BY <1>1 DEF EntryType
  <2> QED
    BY <1>1, <2>1, <2>2 DEF WrittenBy
<1>6. WrittenBy([f EXCEPT !.fired = TRUE], t)
  BY <1>1 DEF WrittenBy, EntryType
<1> QED
  BY <1>2, <1>3, <1>4, <1>5, <1>6

LEMMA ScanKinds ==
  ASSUME PressInputsOK, Typed, NEW i \in Entries, NEW t \in Times, now_ms <= t
  PROVE  /\ Scanned(i, t).event \in Commands(i) \cup {NoEvent}
         /\ Scanned(i, t).entry \in EntryType
         /\ Scanned(i, t).entry.last_change <= t /\ Scanned(i, t).entry.press_start <= t
<1> DEFINE e == entries[i]
           level == finger[i]
<1>1. /\ e \in EntryType /\ level \in BOOLEAN /\ i \in Keys /\ t \in Nat /\ now_ms \in Nat
      /\ e.last_change <= now_ms /\ e.press_start <= now_ms
  BY Numbers DEF Typed, Keys, Times
<1>2. /\ RepeatMs \in Nat /\ RepeatDelayMs \in Nat
      /\ Later(t, RepeatMs) \in Times /\ Later(t, RepeatDelayMs) \in Times
  BY Numbers, ClockIs
<1>3. Scanned(i, t) = Scan(i, e, level, t)
  BY DEF Scanned
<1>4. /\ Quiet(e).event = NoEvent /\ Quiet(e).entry = e
      /\ \A f : Quiet(f).event = NoEvent /\ Quiet(f).entry = f
  BY DEF Quiet
<1> DEFINE Good(f) == WrittenBy(f, t)
<1>5. /\ Good(e)
      /\ Good([e EXCEPT !.next_repeat = Later(t, RepeatMs)])
      /\ Good([[e EXCEPT !.last_change = t, !.last = level] EXCEPT !.next_repeat = Later(t, RepeatDelayMs)])
      /\ Good([e EXCEPT !.last_change = t, !.last = level])
  <2>1. Good(e)
    <3>1. e.last_change \in Nat /\ e.press_start \in Nat
      BY <1>1 DEF EntryType
    <3> QED
      BY <1>1, <3>1 DEF WrittenBy
  <2> HIDE DEF e, level
  <2> QED
    BY <1>1, <1>2, <2>1, Writes
<1> DEFINE s == Started(e, level, t)
<1>6. /\ Good(s) /\ Good([s EXCEPT !.fired = TRUE])
      /\ Good([[s EXCEPT !.last_change = t, !.last = level] EXCEPT !.press_start = t, !.fired = FALSE])
  <2>1. Good(s)
    BY <1>1, <1>5, Writes DEF Started
  <2> HIDE DEF s, e, level
  <2> QED
    BY <1>1, <2>1, Writes
<1> HIDE DEF e, level, s
<1>7. CASE i \notin LongKeys
  <2> DEFINE r == Scan(i, e, level, t)
  <2>1. \/ r.event = StepCommand(i) /\ r.entry = [e EXCEPT !.next_repeat = Later(t, RepeatMs)]
        \/ r.event = StepCommand(i) /\ r.entry =
              [[e EXCEPT !.last_change = t, !.last = level] EXCEPT !.next_repeat = Later(t, RepeatDelayMs)]
        \/ r = Quiet(e) \/ r = Quiet([e EXCEPT !.last_change = t, !.last = level])
    <3>1. i \in Keys \ LongKeys
      BY <1>1, <1>7
    <3>2. Stepping(i, e, level, t, r)
      BY <1>1, <3>1, ScanStepping
    <3> HIDE DEF r
    <3> QED
      BY <1>1, <3>2, Zenon DEF Stepping
  <2> HIDE DEF r
  <2>2. r.event \in {StepCommand(i), NoEvent} /\ Good(r.entry)
    BY <1>4, <1>5, <2>1, Zenon
  <2> QED
    BY <1>3, <1>7, <2>2 DEF r, Commands, WrittenBy
<1>8. CASE i \in LongKeys
  <2> DEFINE r == Scan(i, e, level, t)
  <2>1. \/ r.event = LongCommand(i) /\ r.entry = [s EXCEPT !.fired = TRUE]
        \/ r.event = TapCommand(i) /\ r.entry = [e EXCEPT !.last_change = t, !.last = level]
        \/ r = Quiet([e EXCEPT !.last_change = t, !.last = level])
        \/ r = Quiet(s)
        \/ r = Quiet([[s EXCEPT !.last_change = t, !.last = level] EXCEPT !.press_start = t, !.fired = FALSE])
    <3> DEFINE long_due == LongDueAt(i, e, level, t)
    <3>1. Holding(i, e, level, t, r, s, long_due)
      BY <1>1, <1>8, ScanHolding DEF s
    <3>2. ~level => ~long_due
      BY DEF LongDueAt
    <3> HIDE DEF r, long_due
    <3> QED
      BY <1>1, <3>1, <3>2, Zenon DEF Holding
  <2> HIDE DEF r
  <2>2. r.event \in {TapCommand(i), LongCommand(i), NoEvent} /\ Good(r.entry)
    BY <1>4, <1>5, <1>6, <2>1, Zenon
  <2> QED
    BY <1>3, <1>8, <2>2 DEF r, Commands, WrittenBy
<1> QED
  BY <1>7, <1>8

LEMMA CommandKeys ==
  ASSUME NEW i \in Keys, NEW c \in Commands(i)
  PROVE  c.key = i /\ c # NoEvent
BY DEF Commands, TapCommand, LongCommand, StepCommand, Event, NoEvent, Keys

Polled(i, t) ==
  /\ entries'[i] = Scanned(i, t).entry
  /\ Scanned(i, t).event = NoEvent => event'.key # i
  /\ Scanned(i, t).event # NoEvent => event' = Scanned(i, t).event

Skipped(i, t) ==
  /\ entries'[i] = entries[i] /\ event'.key # i
  /\ \E m \in Entries : m < i /\ Scanned(m, t).event # NoEvent /\ Polled(m, t)

\* A poll dt after the last one.
Passed(dt) ==
  /\ now_ms + dt \in Times /\ now_ms' = now_ms + dt
  /\ finger' = finger
  /\ since' = [i \in Entries |-> Aged(since[i], dt)]
  /\ held' = [i \in Entries |-> IF finger[i] THEN Aged(held[i], dt) ELSE held[i]]
  /\ given' = [i \in Entries |-> Counted(i, given[i], event')]
  /\ entries' \in [Entries -> EntryType] /\ event'.key \in Entries \cup {-1}
  /\ \A i \in Entries : Polled(i, now_ms + dt) \/ Skipped(i, now_ms + dt)

LEMMA PollIs ==
  ASSUME PressInputsOK, Typed, Poll
  PROVE  \E dt \in TickSteps : Passed(dt)
<1>1. PICK dt \in TickSteps :
        /\ now_ms + dt < ClockRange /\ now_ms' = Later(now_ms, dt)
        /\ since' = [i \in Entries |-> Aged(since[i], dt)]
        /\ held' = [i \in Entries |-> IF finger[i] THEN Aged(held[i], dt) ELSE held[i]]
        /\ given' = [i \in Entries |-> Counted(i, given[i], event')]
        /\ finger' = finger
        /\ \E level \in [Entries -> BOOLEAN] :
             /\ \A i \in Entries : since'[i] >= 0 => level[i] = finger[i]
             /\ PollAt(now_ms', level)
  BY DEF Poll, PressInputsOK
<1> DEFINE t == now_ms + dt
<1>2. t \in Times /\ now_ms' = t /\ now_ms <= t
  BY <1>1, Steps, Numbers, ClockIs DEF Typed, Times
<1>3. \A i \in Entries : since'[i] >= 0
  BY <1>1, Steps, Numbers DEF Typed, Aged
<1>4. PollAt(t, finger)
  <2>1. PICK level \in [Entries -> BOOLEAN] : level = finger /\ PollAt(now_ms', level)
    BY <1>1, <1>3 DEF Typed
  <2> QED
    BY <1>2, <2>1
<1> HIDE DEF t
<1> DEFINE scan == [i \in Entries |-> Scan(i, entries[i], finger[i], t)]
           emitting == {i \in Entries : scan[i].event # NoEvent}
           reached == {i \in Entries : \A k \in emitting : i <= k}
<1>5. /\ entries' = [i \in Entries |-> IF i \in reached THEN scan[i].entry ELSE entries[i]]
      /\ event' = IF emitting = {} THEN NoEvent ELSE scan[Min(emitting)].event
  BY <1>4, Zenon DEF PollAt
<1>6. /\ \A i \in Entries : scan[i] = Scanned(i, t)
      /\ \A i \in Entries : i \in emitting <=> Scanned(i, t).event # NoEvent
  BY DEF Scanned
<1>7. \A i \in Entries : /\ Scanned(i, t).event # NoEvent => Scanned(i, t).event.key = i
                         /\ Scanned(i, t).entry \in EntryType
  <2> TAKE i \in Entries
  <2>1. i \in Keys
    BY Numbers DEF Keys
  <2> QED
    BY <1>2, <2>1, ScanKinds, CommandKeys
<1> HIDE DEF scan
<1>8. \A i \in Entries : entries'[i] = IF i \in reached THEN Scanned(i, t).entry ELSE entries[i]
  BY <1>5, <1>6
<1>9. entries' \in [Entries -> EntryType]
  BY <1>5, <1>7, <1>8 DEF Typed
<1>10. CASE emitting = {}
  <2>1. event' = NoEvent /\ reached = Entries
    BY <1>5, <1>10
  <2>2. \A i \in Entries : event'.key # i
    BY <2>1, Numbers DEF NoEvent
  <2>3. \A i \in Entries : Polled(i, t)
    BY <1>6, <1>8, <1>10, <2>1, <2>2 DEF Polled
  <2>4. event'.key = -1
    BY <2>1 DEF NoEvent
  <2> QED
    BY <1>1, <1>2, <1>9, <2>3, <2>4 DEF Passed, t
<1>11. CASE emitting # {}
  <2> DEFINE m == Min(emitting)
  <2>1. m \in emitting /\ \A k \in emitting : m <= k
    <3>1. emitting \subseteq 0 .. 3
      BY Numbers
    <3> HIDE DEF emitting
    <3>2. \E x \in emitting : \A y \in emitting : x <= y
      <4>1. CASE 0 \in emitting
        BY <3>1, <4>1
      <4>2. CASE 0 \notin emitting /\ 1 \in emitting
        BY <3>1, <4>2
      <4>3. CASE 0 \notin emitting /\ 1 \notin emitting /\ 2 \in emitting
        BY <3>1, <4>3
      <4>4. CASE 0 \notin emitting /\ 1 \notin emitting /\ 2 \notin emitting
        <5>1. \A y \in emitting : y = 3
          BY <3>1, <4>4
        <5> QED
          BY <1>11, <5>1
      <4> QED
        BY <4>1, <4>2, <4>3, <4>4
    <3> QED
      BY <3>2 DEF Min
  <2>2. m \in Entries /\ Scanned(m, t).event # NoEvent /\ event' = Scanned(m, t).event
    BY <1>5, <1>6, <1>11, <2>1
  <2>3. event'.key = m
    BY <1>7, <2>2
  <2> HIDE DEF m, emitting
  <2>4. Polled(m, t)
    <3>1. m \in reached
      BY <2>1, <2>2
    <3> QED
      BY <1>8, <2>2, <3>1 DEF Polled
  <2>5. ASSUME NEW i \in Entries PROVE Polled(i, t) \/ Skipped(i, t)
    <3>1. CASE i = m
      BY <2>4, <3>1
    <3>2. CASE i < m
      <4>1. i \notin emitting /\ i \in reached
        <5>1. i \in 0 .. 3 /\ m \in 0 .. 3 /\ emitting \subseteq 0 .. 3
          BY Numbers, <2>2 DEF emitting
        <5> QED
          BY <2>1, <3>2, <5>1
      <4>2. Scanned(i, t).event = NoEvent
        BY <1>6, <4>1 DEF emitting
      <4>3. i # m
        BY <3>2, <2>2, Numbers
      <4> QED
        BY <1>8, <2>3, <4>1, <4>2, <4>3 DEF Polled
    <3>3. CASE m < i
      <4>1. i \notin reached /\ i # m
        BY <2>1, <2>2, <3>3, Numbers
      <4> QED
        BY <1>8, <2>2, <2>3, <2>4, <3>3, <4>1 DEF Skipped
    <3> QED
      BY <2>2, <3>1, <3>2, <3>3, Numbers
  <2> QED
    BY <1>1, <1>2, <1>9, <2>2, <2>3, <2>5 DEF Passed, t
<1> QED
  BY <1>10, <1>11

-----------------------------------------------------------------------------
(* The inductive invariant.  A move of a finger is seen after it is        *)
(* debounced, unless other keys take the polls for their commands.  But a  *)
(* key that has given a command cannot give another one for a round of     *)
(* polls (Blocked), so every poll that key i misses blocks one more of the *)
(* keys before it, and i is seen before its finger moves again.            *)

\* When the finger moved last, as long as its age is counted.
Begin(i) == now_ms - since[i]

\* The last poll that is too early to see the move.
Ready(i) ==
  IF Begin(i) >= entries[i].last_change + DebounceMs - 1 THEN Begin(i)
  ELSE entries[i].last_change + DebounceMs - 1

\* The repeat mark of key k is not reached before time m.
DueFrom(k, m) ==
  \A t \in now_ms .. ClockRange - 1 : Reached(t, entries[k].next_repeat) => t >= m

BlockedStepping(k, until) ==
  \/ finger[k] /\ entries[k].last /\ DueFrom(k, until)
  \/ ~finger[k] /\ Begin(k) + MinGap >= until

BlockedHolding(k, until) ==
  \/ finger[k] /\ entries[k].last /\ entries[k].fired
  \/ finger[k] /\ Begin(k) + MinGap >= until
  \/ ~finger[k] /\ (entries[k].last => entries[k].fired) /\ Begin(k) + 2 * MinGap >= until

\* Key k gives no command before time until.
Blocked(k, until) ==
  \/ now_ms >= until
  \/ k \notin LongKeys /\ BlockedStepping(k, until)
  \/ k \in LongKeys /\ BlockedHolding(k, until)

\* The keys before key i that give no command for a round of polls after mark.
Ahead(i, mark) == {k \in Entries : k < i /\ Blocked(k, mark + 1 + Round)}

\* Every poll after mark that missed key i has blocked one more of them.
Kept(i, mark) == now_ms - mark <= MaxStep * Cardinality(Ahead(i, mark))

Unseen(i) ==
  entries[i].last # finger[i] =>
    /\ entries[i].last_change <= Begin(i)
    /\ Kept(i, Ready(i))

\* The long-press timer started with the press that is down.
Press(i) ==
  /\ entries[i].last => entries[i].press_start = entries[i].last_change
  /\ ~entries[i].last /\ ~finger[i] => entries[i].press_start <= entries[i].last_change
  /\ ~entries[i].last /\ finger[i] =>
       entries[i].press_start <= entries[i].last_change \/ entries[i].press_start >= Begin(i)
  /\ entries[i].last /\ finger[i] => since[i] = SinceCap \/ entries[i].last_change >= Begin(i)

\* What a press has given so far, and what fired remembers of it.
Given(i) ==
  /\ given[i][2] + given[i][3] <= 1
  /\ finger[i] => given[i][2] = 0 /\ (given[i][3] = 1 => entries[i].last /\ entries[i].fired)
  /\ ~finger[i] /\ entries[i].last => given[i][2] = 0 /\ (given[i][3] = 1 => entries[i].fired)

\* How many steps a press of this age may have given.
MayHaveGiven(age) == IF age < RepeatDelayMs THEN 1 ELSE 2 + (age - RepeatDelayMs) \div RepeatMs

\* The next step is not due before its time since the press began.
Pace(i) ==
  /\ finger[i] /\ ~entries[i].last => given[i][1] = 0
  /\ finger[i] /\ entries[i].last /\ held[i] < SinceCap =>
       DueFrom(i, now_ms - held[i] + RepeatDelayMs + (given[i][1] - 1) * RepeatMs)
  /\ held[i] < SinceCap => given[i][1] <= MayHaveGiven(held[i])

KeyInv(i) ==
  /\ Unseen(i)
  /\ i \in LongKeys => Press(i) /\ Given(i) /\ (event = LongCommand(i) => held[i] >= HoldMs(i))
  /\ i \notin LongKeys => Pace(i)

IInv == Typed /\ \A i \in Entries : KeyInv(i)

-----------------------------------------------------------------------------
(* Times at a poll.                                                        *)

LEMMA AgedIs ==
  ASSUME PressInputsOK, NEW age \in 0 .. SinceCap, NEW dt \in Nat
  PROVE  /\ Aged(age, dt) \in 0 .. SinceCap /\ Aged(age, dt) <= age + dt
         /\ Aged(age, dt) = SinceCap \/ Aged(age, dt) = age + dt
         /\ age + dt <= SinceCap => Aged(age, dt) = age + dt
         /\ age <= Aged(age, dt)
BY Numbers DEF Aged

LEMMA TypedKey ==
  ASSUME PressInputsOK, Typed, NEW i \in Entries
  PROVE  /\ now_ms \in Nat /\ now_ms < ClockRange
         /\ entries[i] \in EntryType /\ entries[i].last \in BOOLEAN /\ finger[i] \in BOOLEAN
         /\ entries[i].last_change \in Nat /\ entries[i].last_change <= now_ms
         /\ entries[i].press_start \in Nat /\ entries[i].press_start <= now_ms
         /\ entries[i].next_repeat \in Times /\ entries[i].fired \in BOOLEAN
         /\ since[i] \in Nat /\ since[i] <= SinceCap /\ held[i] \in Nat /\ held[i] <= SinceCap
         /\ finger[i] => held[i] = since[i]
         /\ Begin(i) \in Int /\ Begin(i) <= now_ms
         /\ given[i][1] \in Nat /\ given[i][2] \in Nat /\ given[i][3] \in Nat
<1>1. entries[i] \in EntryType /\ now_ms \in Nat /\ now_ms < ClockRange
  BY Numbers DEF Typed, Times
<1>2. /\ since[i] \in Nat /\ since[i] <= SinceCap /\ held[i] \in Nat /\ held[i] <= SinceCap
      /\ finger[i] => held[i] = since[i]
      /\ finger[i] \in BOOLEAN /\ entries[i].last_change <= now_ms /\ entries[i].press_start <= now_ms
  BY Numbers DEF Typed
<1>3. given[i] \in [1 .. 3 -> Nat]
  BY DEF Typed
<1>4. given[i][1] \in Nat /\ given[i][2] \in Nat /\ given[i][3] \in Nat
  BY <1>3
<1>5. /\ entries[i].last \in BOOLEAN /\ entries[i].last_change \in Nat /\ entries[i].press_start \in Nat
      /\ entries[i].next_repeat \in Times /\ entries[i].fired \in BOOLEAN
  BY <1>1 DEF EntryType
<1>6. Begin(i) \in Int /\ Begin(i) <= now_ms
  BY <1>1, <1>2 DEF Begin
<1> QED
  BY <1>1, <1>2, <1>4, <1>5, <1>6

LEMMA KeptBound ==
  ASSUME PressInputsOK, NEW i \in Entries, NEW mark \in Int, now_ms \in Nat, Kept(i, mark)
  PROVE  now_ms + MaxStep <= mark + Round
<1>1. Ahead(i, mark) \in SUBSET Entries /\ i \notin Ahead(i, mark)
  BY Numbers DEF Ahead
<1> DEFINE n == Cardinality(Ahead(i, mark))
<1>2. n \in Nat /\ n + 1 <= Cardinality(Entries)
  BY <1>1, KeySets
<1>3. now_ms - mark <= MaxStep * n
  BY DEF Kept
<1> HIDE DEF n
<1>4. MaxStep * n \in Nat /\ MaxStep * n + MaxStep <= Round
  BY <1>2, RoundIs
<1> QED
  BY <1>3, <1>4, RoundIs, Steps

\* A move that has not been seen is young.
LEMMA UnseenBounds ==
  ASSUME PressInputsOK, Typed, NEW i \in Entries, Unseen(i), entries[i].last # finger[i]
  PROVE  /\ Ready(i) \in Int /\ Begin(i) <= Ready(i) /\ Ready(i) <= Begin(i) + DebounceMs - 1
         /\ entries[i].last_change + DebounceMs - 1 <= Ready(i)
         /\ now_ms + MaxStep <= Ready(i) + Round
         /\ since[i] + MaxStep < MinGap /\ now_ms = Begin(i) + since[i]
<1>1. entries[i].last_change <= Begin(i) /\ Kept(i, Ready(i))
  BY DEF Unseen
<1>2. /\ now_ms \in Nat /\ entries[i].last_change \in Nat /\ since[i] \in Nat /\ Begin(i) \in Int
      /\ Begin(i) = now_ms - since[i]
  BY TypedKey DEF Begin
<1>3. /\ Ready(i) \in Int /\ Begin(i) <= Ready(i) /\ Ready(i) <= Begin(i) + DebounceMs - 1
      /\ entries[i].last_change + DebounceMs - 1 <= Ready(i)
  BY <1>1, <1>2, Numbers DEF Ready
<1>8. /\ Round \in Nat /\ DebounceMs + Round <= MinGap /\ MaxStep \in Nat
      /\ DebounceMs \in Nat \ {0} /\ MinGap \in Nat
  BY RoundIs, Steps, Numbers
<1>9. now_ms + MaxStep <= Ready(i) + Round
  BY <1>1, <1>2, <1>3, KeptBound
<1>10. since[i] + MaxStep < MinGap
  BY <1>2, <1>3, <1>8, <1>9
<1> QED
  BY <1>2, <1>3, <1>9, <1>10

\* How a key's times change at a poll.
LEMMA PassedTimes ==
  ASSUME PressInputsOK, Typed, NEW dt \in TickSteps, Passed(dt), NEW i \in Entries
  PROVE  /\ dt \in Nat \ {0} /\ dt <= MaxStep /\ MaxStep \in Nat
         /\ now_ms' = now_ms + dt /\ now_ms' \in Times /\ now_ms' \in Nat
         /\ finger'[i] = finger[i]
         /\ since'[i] \in 0 .. SinceCap /\ since'[i] <= since[i] + dt /\ since[i] <= since'[i]
         /\ since'[i] = SinceCap \/ since'[i] = since[i] + dt
         /\ since[i] + dt <= SinceCap => since'[i] = since[i] + dt
         /\ held'[i] \in 0 .. SinceCap /\ (~finger[i] => held'[i] = held[i])
         /\ finger[i] => held'[i] = since'[i]
         /\ Begin(i)' = now_ms' - since'[i] /\ Begin(i)' \in Int /\ Begin(i)' >= Begin(i)
         /\ since[i] + dt <= SinceCap => Begin(i)' = Begin(i)
<1>1. /\ dt \in Nat \ {0} /\ dt <= MaxStep /\ MaxStep \in Nat
      /\ now_ms' = now_ms + dt /\ now_ms' \in Times
      /\ finger'[i] = finger[i]
      /\ since'[i] = Aged(since[i], dt)
      /\ held'[i] = IF finger[i] THEN Aged(held[i], dt) ELSE held[i]
  BY Steps DEF Passed
<1>2. /\ now_ms \in Nat /\ since[i] \in 0 .. SinceCap /\ held[i] \in 0 .. SinceCap
      /\ finger[i] => held[i] = since[i]
  BY TypedKey, Numbers DEF Typed
<1>3. /\ since'[i] \in 0 .. SinceCap /\ since'[i] <= since[i] + dt /\ since[i] <= since'[i]
      /\ since'[i] = SinceCap \/ since'[i] = since[i] + dt
      /\ since[i] + dt <= SinceCap => since'[i] = since[i] + dt
  BY <1>1, <1>2, AgedIs
<1>4. /\ held'[i] \in 0 .. SinceCap /\ (~finger[i] => held'[i] = held[i])
      /\ finger[i] => held'[i] = since'[i]
  BY <1>1, <1>2, AgedIs
<1>5. Begin(i)' = now_ms' - since'[i] /\ Begin(i) = now_ms - since[i]
  BY DEF Begin
<1>6. /\ Begin(i)' \in Int /\ Begin(i)' >= Begin(i)
      /\ since[i] + dt <= SinceCap => Begin(i)' = Begin(i)
  <2> DEFINE b == Begin(i)
             c == Begin(i)'
  <2>1. c = now_ms' - since'[i] /\ b = now_ms - since[i]
    BY <1>5
  <2> HIDE DEF b, c
  <2>2. since[i] \in Nat /\ since'[i] \in Nat
    BY <1>2, <1>3, Numbers
  <2>3. c \in Int /\ c >= b /\ (since[i] + dt <= SinceCap => c = b)
    BY <1>1, <1>2, <1>3, <2>1, <2>2
  <2> QED
    BY <2>3 DEF b, c
<1>7. now_ms' \in Nat
  BY <1>1, <1>2
<1> QED
  BY <1>1, <1>3, <1>4, <1>5, <1>6, <1>7

-----------------------------------------------------------------------------
(* What one poll makes of a key.                                           *)

\* Without a move or with one too fresh to be debounced, or past the debouncing.
LEMMA EdgeIs ==
  ASSUME PressInputsOK, Typed, NEW i \in Entries, Unseen(i), entries[i].last # finger[i],
         NEW t \in Times, now_ms <= t
  PROVE  /\ t > Ready(i) => Edge(entries[i], finger[i], t)
         /\ ~Edge(entries[i], finger[i], t) => t <= entries[i].last_change + DebounceMs - 1
<1> DEFINE c == entries[i].last_change
<1>1. /\ c \in Nat /\ c <= now_ms /\ now_ms \in Nat /\ t \in Nat
      /\ Ready(i) \in Int /\ c + DebounceMs - 1 <= Ready(i) /\ DebounceMs \in Nat
  BY TypedKey, UnseenBounds, Numbers DEF Times
<1>2. Elapsed(t, c) = t - c
  BY <1>1, ClockIs
<1>3. Edge(entries[i], finger[i], t) <=> t - c >= DebounceMs
  BY <1>2 DEF Edge
<1> HIDE DEF c
<1>4. /\ t > Ready(i) => t - c >= DebounceMs
      /\ ~(t - c >= DebounceMs) => t <= c + DebounceMs - 1
  BY <1>1
<1> QED
  BY <1>3, <1>4 DEF c

Becomes(i, last, last_change, press_start, next_repeat, fired) ==
  /\ entries'[i].last = last /\ entries'[i].last_change = last_change
  /\ entries'[i].press_start = press_start /\ entries'[i].next_repeat = next_repeat
  /\ entries'[i].fired = fired

Stays(i) ==
  LET e == entries[i]
  IN  Becomes(i, e.last, e.last_change, e.press_start, e.next_repeat, e.fired)

Repeats(i, t) ==
  LET e == entries[i]
  IN  /\ finger[i] /\ e.last /\ Reached(t, e.next_repeat)
      /\ event' = StepCommand(i)
      /\ Becomes(i, TRUE, e.last_change, e.press_start, Later(t, RepeatMs), e.fired)

SeesStep(i, t) ==
  LET e == entries[i]
  IN  /\ finger[i] /\ ~e.last /\ event' = StepCommand(i)
      /\ Becomes(i, TRUE, t, e.press_start, Later(t, RepeatDelayMs), e.fired)

\* A release that gives no command.
SeesRelease(i, t) ==
  LET e == entries[i]
  IN  /\ ~finger[i] /\ e.last /\ event'.key # i /\ (i \in LongKeys => e.fired)
      /\ Becomes(i, FALSE, t, e.press_start, e.next_repeat, e.fired)

StaysStepping(i, t) ==
  /\ event'.key # i /\ Stays(i)
  /\ entries[i].last # finger[i] => ~Edge(entries[i], finger[i], t)

LEMMA PolledStepping ==
  ASSUME PressInputsOK, Typed, NEW t \in Times, now_ms <= t,
         NEW i \in Entries, i \notin LongKeys, Polled(i, t)
  PROVE  Repeats(i, t) \/ SeesStep(i, t) \/ SeesRelease(i, t) \/ StaysStepping(i, t)
<1> DEFINE e == entries[i]
           r == Scanned(i, t)
<1>1. e \in EntryType /\ e.last \in BOOLEAN /\ finger[i] \in BOOLEAN /\ i \in Keys \ LongKeys
  BY TypedKey, Numbers DEF Keys
<1>2. Stepping(i, e, finger[i], t, r)
  BY <1>1, ScanStepping DEF Scanned
<1>3. \A f : Quiet(f).event = NoEvent /\ Quiet(f).entry = f
  BY DEF Quiet
<1>4. StepCommand(i) # NoEvent
  BY DEF StepCommand, Event, NoEvent
<1>5. /\ entries'[i] = r.entry
      /\ r.event = NoEvent => event'.key # i
      /\ r.event # NoEvent => event' = r.event
  BY DEF Polled
<1> HIDE DEF r, e
<1>6. CASE finger[i] /\ e.last /\ Reached(t, e.next_repeat)
  <2>1. event' = StepCommand(i) /\ entries'[i] = [e EXCEPT !.next_repeat = Later(t, RepeatMs)]
    BY <1>2, <1>4, <1>5, <1>6 DEF Stepping
  <2>2. Becomes(i, TRUE, e.last_change, e.press_start, Later(t, RepeatMs), e.fired)
    BY <1>1, <1>6, <2>1 DEF Becomes, EntryType
  <2> QED
    BY <1>6, <2>1, <2>2 DEF Repeats, e
<1>7. CASE finger[i] /\ ~e.last /\ Edge(e, finger[i], t)
  <2>1. /\ event' = StepCommand(i)
        /\ entries'[i] = [[e EXCEPT !.last_change = t, !.last = finger[i]]
                            EXCEPT !.next_repeat = Later(t, RepeatDelayMs)]
    BY <1>2, <1>4, <1>5, <1>7 DEF Stepping
  <2>2. Becomes(i, TRUE, t, e.press_start, Later(t, RepeatDelayMs), e.fired)
    BY <1>1, <1>7, <2>1 DEF Becomes, EntryType
  <2> QED
    BY <1>7, <2>1, <2>2 DEF SeesStep, e
<1>8. CASE ~finger[i] /\ Edge(e, finger[i], t)
  <2>1. r = Quiet([e EXCEPT !.last_change = t, !.last = finger[i]])
    BY <1>2, <1>8 DEF Stepping
  <2>2. event'.key # i /\ entries'[i] = [e EXCEPT !.last_change = t, !.last = finger[i]]
    BY <1>3, <1>5, <2>1
  <2>3. Becomes(i, FALSE, t, e.press_start, e.next_repeat, e.fired)
    BY <1>1, <1>8, <2>2 DEF Becomes, EntryType
  <2>4. e.last
    BY <1>1, <1>8 DEF Edge
  <2> QED
    BY <1>1, <1>8, <2>2, <2>3, <2>4 DEF SeesRelease, e
<1>9. CASE r = Quiet(e) /\ (e.last # finger[i] => ~Edge(e, finger[i], t))
  <2>1. event'.key # i /\ entries'[i] = e
    BY <1>3, <1>5, <1>9
  <2> QED
    BY <1>9, <2>1 DEF StaysStepping, Stays, Becomes, e
<1>10. Edge(e, finger[i], t) => e.last # finger[i]
  BY DEF Edge
<1> QED
  BY <1>1, <1>2, <1>6, <1>7, <1>8, <1>9, <1>10, Zenon DEF Stepping

\* A long press is recognised no sooner than the key was held for HoldMs.
LEMMA LongNotEarly ==
  ASSUME PressInputsOK, Typed, NEW i \in Entries, i \in LongKeys, Unseen(i), Press(i),
         NEW dt \in TickSteps, Passed(dt), LongDueAt(i, entries[i], finger[i], now_ms')
  PROVE  finger[i] /\ entries[i].last /\ ~entries[i].fired /\ since'[i] >= HoldMs(i)
<1> DEFINE e == entries[i]
           b == Begin(i)
           s == Started(e, finger[i], now_ms').press_start
           t == now_ms'
<1>1. finger[i] /\ ~e.fired /\ Elapsed(t, s) >= HoldMs(i)
  BY DEF LongDueAt
<1>2. /\ e \in EntryType /\ e.last \in BOOLEAN /\ e.press_start \in Nat /\ e.press_start <= now_ms
      /\ now_ms \in Nat /\ since[i] \in Nat /\ since[i] <= SinceCap /\ SinceCap \in Nat
      /\ t = now_ms + dt /\ t \in Times /\ t \in Nat /\ dt \in Nat /\ dt <= MaxStep /\ MaxStep \in Nat
      /\ b \in Int /\ b = now_ms - since[i]
      /\ since'[i] \in Nat /\ since[i] <= since'[i]
      /\ since'[i] = SinceCap \/ since'[i] = since[i] + dt
      /\ HoldMs(i) \in Nat \ {0} /\ HoldMs(i) <= SinceCap /\ MinGap <= HoldMs(i) /\ MinGap \in Nat
  <2>1. b = now_ms - since[i]
    BY DEF Begin
  <2> QED
    BY <2>1, TypedKey, PassedTimes, Numbers
<1>3. \A x \in 0 .. t : Elapsed(t, x) = t - x
  BY <1>2, ClockIs
<1>4. CASE e.last
  <2>1. s = e.press_start /\ e.press_start = e.last_change /\ (since[i] = SinceCap \/ e.last_change >= b)
    BY <1>1, <1>4 DEF Started, Press
  <2> HIDE DEF e, b, s, t
  <2>2. t - e.press_start >= HoldMs(i)
    <3>1. e.press_start \in 0 .. t
      BY <1>2
    <3>2. Elapsed(t, e.press_start) >= HoldMs(i)
      BY <1>1, <2>1, Zenon
    <3>3. Elapsed(t, e.press_start) = t - e.press_start
      BY <1>3, <3>1
    <3> QED
      BY <3>2, <3>3
  <2>3. since'[i] >= HoldMs(i)
    BY <1>2, <2>1, <2>2
  <2> QED
    BY <1>1, <1>4, <2>3 DEF e
<1>5. CASE ~e.last
  <2>1. since[i] + MaxStep < MinGap
    BY <1>1, <1>5, UnseenBounds
  <2>2. s = IF e.press_start <= e.last_change THEN t ELSE e.press_start
    BY <1>1, <1>2, <1>5 DEF Started, EntryType
  <2>3. e.press_start <= e.last_change \/ e.press_start >= b
    BY <1>1, <1>5 DEF Press
  <2> HIDE DEF e, b, s, t
  <2>4. Elapsed(t, s) = t - s /\ (s = t \/ s >= b) /\ s \in Nat
    BY <1>2, <1>3, <2>2, <2>3
  <2>5. t - s < HoldMs(i)
    BY <1>2, <2>1, <2>4
  <2> QED
    BY <1>1, <1>2, <2>4, <2>5
<1> QED
  BY <1>2, <1>4, <1>5

Holds(i) ==
  LET e == entries[i]
  IN  /\ finger[i] /\ e.last /\ ~e.fired /\ since'[i] >= HoldMs(i)
      /\ event' = LongCommand(i)
      /\ Becomes(i, TRUE, e.last_change, e.press_start, e.next_repeat, TRUE)

Taps(i, t) ==
  LET e == entries[i]
  IN  /\ ~finger[i] /\ e.last /\ ~e.fired /\ event' = TapCommand(i)
      /\ Becomes(i, FALSE, t, e.press_start, e.next_repeat, FALSE)

SeesPress(i, t) ==
  LET e == entries[i]
  IN  /\ finger[i] /\ ~e.last /\ event'.key # i
      /\ Becomes(i, TRUE, t, t, e.next_repeat, FALSE)

StaysHolding(i, t) ==
  LET e == entries[i]
      starts == finger[i] /\ ~e.last /\ e.press_start <= e.last_change
  IN  /\ event'.key # i
      /\ Becomes(i, e.last, e.last_change, IF starts THEN t ELSE e.press_start, e.next_repeat, e.fired)
      /\ e.last # finger[i] => ~Edge(e, finger[i], t)

LEMMA PolledHolding ==
  ASSUME PressInputsOK, Typed, NEW i \in Entries, i \in LongKeys, Unseen(i), Press(i),
         NEW dt \in TickSteps, Passed(dt), Polled(i, now_ms')
  PROVE  LET t == now_ms'
         IN  Holds(i) \/ Taps(i, t) \/ SeesRelease(i, t) \/ SeesPress(i, t) \/ StaysHolding(i, t)
<1> DEFINE t == now_ms'
           e == entries[i]
           r == Scanned(i, t)
           s == Started(e, finger[i], t)
           long_due == LongDueAt(i, e, finger[i], t)
<1>1. e \in EntryType /\ e.last \in BOOLEAN /\ finger[i] \in BOOLEAN /\ t \in Nat /\ e.fired \in BOOLEAN
  BY TypedKey, PassedTimes
<1>2. Holding(i, e, finger[i], t, r, s, long_due)
  BY <1>1, ScanHolding DEF Scanned
<1>3. \A f : Quiet(f).event = NoEvent /\ Quiet(f).entry = f
  BY DEF Quiet
<1>4. LongCommand(i) # NoEvent /\ TapCommand(i) # NoEvent
  BY DEF LongCommand, TapCommand, Event, NoEvent
<1>5. /\ entries'[i] = r.entry
      /\ r.event = NoEvent => event'.key # i
      /\ r.event # NoEvent => event' = r.event
  BY DEF Polled
<1>6. long_due => finger[i] /\ e.last /\ ~e.fired /\ since'[i] >= HoldMs(i)
  BY LongNotEarly
<1> DEFINE starts == finger[i] /\ ~e.last /\ e.press_start <= e.last_change
<1>7. s = IF starts THEN [e EXCEPT !.press_start = t] ELSE e
  BY DEF Started
<1>8. /\ s \in EntryType /\ s.last = e.last /\ s.last_change = e.last_change
      /\ s.press_start = IF starts THEN t ELSE e.press_start
      /\ s.next_repeat = e.next_repeat /\ s.fired = e.fired
  BY <1>1, <1>7 DEF EntryType
<1>9. starts <=> (finger[i] /\ ~e.last /\ e.press_start <= e.last_change)
  OBVIOUS
<1>10. e.last => s = e
  BY <1>7
<1>11. Edge(e, finger[i], t) => e.last # finger[i]
  BY DEF Edge
<1> HIDE DEF r, e, s, starts, long_due
<1>12. CASE long_due
  <2>1. event' = LongCommand(i) /\ entries'[i] = [e EXCEPT !.fired = TRUE]
    BY <1>2, <1>4, <1>5, <1>6, <1>10, <1>12 DEF Holding
  <2>2. Becomes(i, TRUE, e.last_change, e.press_start, e.next_repeat, TRUE)
    BY <1>1, <1>6, <1>12, <2>1 DEF Becomes, EntryType
  <2> QED
    BY <1>6, <1>12, <2>1, <2>2 DEF Holds, e
<1>13. CASE ~long_due /\ ~Edge(e, finger[i], t)
  <2>1. r = Quiet(s)
    BY <1>2, <1>13, Zenon DEF Holding
  <2>2. event'.key # i /\ entries'[i] = s
    BY <1>3, <1>5, <2>1
  <2>3. Becomes(i, e.last, e.last_change, IF starts THEN t ELSE e.press_start, e.next_repeat, e.fired)
    BY <1>8, <2>2 DEF Becomes
  <2> QED
    BY <1>9, <1>13, <2>2, <2>3, Zenon DEF StaysHolding, e, starts
<1>14. CASE ~long_due /\ Edge(e, finger[i], t) /\ finger[i]
  <2>1. r = Quiet([[s EXCEPT !.last_change = t, !.last = finger[i]]
                     EXCEPT !.press_start = t, !.fired = FALSE])
    BY <1>2, <1>14, Zenon DEF Holding
  <2>2. /\ event'.key # i
        /\ entries'[i] = [[s EXCEPT !.last_change = t, !.last = finger[i]]
                            EXCEPT !.press_start = t, !.fired = FALSE]
    BY <1>3, <1>5, <2>1
  <2>3. Becomes(i, TRUE, t, t, e.next_repeat, FALSE)
    BY <1>8, <1>14, <2>2 DEF Becomes, EntryType
  <2> QED
    BY <1>1, <1>11, <1>14, <2>2, <2>3 DEF SeesPress, e
<1>15. CASE Edge(e, finger[i], t) /\ ~finger[i] /\ e.fired
  <2>1. r = Quiet([e EXCEPT !.last_change = t, !.last = finger[i]])
    BY <1>2, <1>15, Zenon DEF Holding
  <2>2. event'.key # i /\ entries'[i] = [e EXCEPT !.last_change = t, !.last = finger[i]]
    BY <1>3, <1>5, <2>1
  <2>3. Becomes(i, FALSE, t, e.press_start, e.next_repeat, e.fired)
    BY <1>1, <1>15, <2>2 DEF Becomes, EntryType
  <2> QED
    BY <1>1, <1>11, <1>15, <2>2, <2>3 DEF SeesRelease, e
<1>16. CASE Edge(e, finger[i], t) /\ ~finger[i] /\ ~e.fired
  <2>1. event' = TapCommand(i) /\ entries'[i] = [e EXCEPT !.last_change = t, !.last = finger[i]]
    BY <1>2, <1>4, <1>5, <1>16 DEF Holding
  <2>2. Becomes(i, FALSE, t, e.press_start, e.next_repeat, FALSE)
    BY <1>1, <1>16, <2>1 DEF Becomes, EntryType
  <2> QED
    BY <1>1, <1>11, <1>16, <2>1, <2>2 DEF Taps, e
<1> QED
  BY <1>12, <1>13, <1>14, <1>15, <1>16

-----------------------------------------------------------------------------
(* Keys that cannot take the poll, and keys that just took one.            *)

\* A blocked key gives no command and stays blocked.
LEMMA BlockedQuiet ==
  ASSUME PressInputsOK, Typed, NEW k \in Entries, KeyInv(k), NEW until \in Int, Blocked(k, until),
         NEW dt \in TickSteps, Passed(dt)
  PROVE  /\ now_ms' < until /\ Polled(k, now_ms') => event'.key # k
         /\ Blocked(k, until)'
<1> DEFINE t == now_ms'
           e == entries[k]
           b == Begin(k)
<1>1. /\ e.last \in BOOLEAN /\ e.fired \in BOOLEAN /\ finger[k] \in BOOLEAN /\ finger'[k] = finger[k]
      /\ now_ms \in Nat /\ since[k] \in Nat /\ since[k] <= SinceCap /\ SinceCap \in Nat
      /\ t = now_ms + dt /\ t \in Times /\ t \in Nat /\ dt \in Nat /\ now_ms <= t
      /\ b \in Int /\ b' \in Int /\ b' >= b /\ MinGap \in Nat /\ MinGap <= SinceCap
  BY TypedKey, PassedTimes, Numbers
<1>2. b = now_ms - since[k]
  BY DEF Begin
<1>3. Polled(k, t) \/ (Stays(k) /\ event'.key # k)
  BY <1>1 DEF Passed, Skipped, Stays, Becomes
<1>4. CASE t >= until
  BY <1>1, <1>4 DEF Blocked
<1>5. CASE t < until /\ k \notin LongKeys
  <2>1. BlockedStepping(k, until)
    BY <1>1, <1>5 DEF Blocked
  <2>2. CASE finger[k] /\ e.last /\ DueFrom(k, until)
    <3>1. ~Reached(t, e.next_repeat)
      <4>1. t \in now_ms .. ClockRange - 1
        BY <1>1, Numbers DEF Times
      <4> QED
        BY <1>1, <1>5, <2>2, <4>1 DEF DueFrom
    <3>2. Stays(k) /\ event'.key # k
      BY <1>1, <1>3, <1>5, <2>2, <3>1, PolledStepping DEF Repeats, SeesStep, SeesRelease, StaysStepping
    <3>3. DueFrom(k, until)'
      <4>1. entries'[k].next_repeat = e.next_repeat
        BY <3>2 DEF Stays, Becomes
      <4>2. \A u \in t .. ClockRange - 1 : u \in now_ms .. ClockRange - 1
        BY <1>1, Numbers
      <4> QED
        BY <2>2, <4>1, <4>2 DEF DueFrom, Reached, Elapsed
    <3>4. entries'[k].last = e.last
      BY <3>2 DEF Stays, Becomes
    <3> QED
      BY <1>1, <1>5, <2>2, <3>2, <3>3, <3>4 DEF Blocked, BlockedStepping
  <2>3. CASE ~finger[k] /\ b + MinGap >= until
    <3>1. event'.key # k
      BY <1>1, <1>3, <1>5, <2>3, PolledStepping DEF Repeats, SeesStep, SeesRelease, StaysStepping
    <3>2. b' + MinGap >= until
      BY <1>1, <2>3
    <3> QED
      BY <1>1, <1>5, <2>3, <3>1, <3>2 DEF Blocked, BlockedStepping
  <2> QED
    BY <2>1, <2>2, <2>3 DEF BlockedStepping
<1>6. CASE t < until /\ k \in LongKeys
  <2>1. BlockedHolding(k, until)
    BY <1>1, <1>6 DEF Blocked
  <2>2. \/ Holds(k) \/ Taps(k, t) \/ SeesRelease(k, t) \/ SeesPress(k, t) \/ StaysHolding(k, t)
        \/ Stays(k) /\ event'.key # k
    BY <1>3, <1>6, PolledHolding DEF KeyInv
  <2>3. CASE finger[k] /\ e.last /\ e.fired
    <3>1. event'.key # k /\ entries'[k].last = e.last /\ entries'[k].fired = e.fired
      BY <2>2, <2>3 DEF Holds, Taps, SeesRelease, SeesPress, StaysHolding, Stays, Becomes
    <3> QED
      BY <1>1, <1>6, <2>3, <3>1 DEF Blocked, BlockedHolding
  <2>4. CASE finger[k] /\ b + MinGap >= until
    <3>1. ~Holds(k)
      <4> SUFFICES ASSUME Holds(k) PROVE FALSE
        OBVIOUS
      <4>1. /\ since'[k] >= HoldMs(k) /\ MinGap <= HoldMs(k) /\ HoldMs(k) \in Nat
            /\ since'[k] <= since[k] + dt /\ since'[k] \in Nat
        BY <1>6, PassedTimes, Numbers DEF Holds
      <4> HIDE DEF b, t
      <4> QED
        BY <1>1, <1>2, <1>6, <2>4, <4>1
    <3>2. event'.key # k
      BY <2>2, <2>4, <3>1 DEF Taps, SeesRelease, SeesPress, StaysHolding
    <3>3. b' + MinGap >= until
      BY <1>1, <2>4
    <3> QED
      BY <1>1, <1>6, <2>4, <3>2, <3>3 DEF Blocked, BlockedHolding
  <2>5. CASE ~finger[k] /\ (e.last => e.fired) /\ b + 2 * MinGap >= until
    <3>1. event'.key # k /\ (entries'[k].last => entries'[k].fired)
      BY <2>2, <2>5 DEF Holds, Taps, SeesRelease, SeesPress, StaysHolding, Stays, Becomes
    <3>2. b' + 2 * MinGap >= until
      BY <1>1, <2>5
    <3> QED
      BY <1>1, <1>6, <2>5, <3>1, <3>2 DEF Blocked, BlockedHolding
  <2> QED
    BY <2>1, <2>3, <2>4, <2>5 DEF BlockedHolding
<1> QED
  BY <1>1, <1>4, <1>5, <1>6

\* A key that just gave a command cannot give another one for a round of polls.
LEMMA EmitterBlocks ==
  ASSUME PressInputsOK, Typed, NEW m \in Entries, KeyInv(m), NEW until \in Int,
         NEW dt \in TickSteps, Passed(dt), Polled(m, now_ms'),
         Scanned(m, now_ms').event # NoEvent, until <= now_ms' + Round
  PROVE  Blocked(m, until)'
<1> DEFINE t == now_ms'
           e == entries[m]
<1>1. /\ e.last \in BOOLEAN /\ finger[m] \in BOOLEAN /\ finger'[m] = finger[m]
      /\ now_ms \in Nat /\ since[m] \in Nat
      /\ t = now_ms + dt /\ t \in Times /\ t \in Nat /\ dt \in Nat /\ dt <= MaxStep /\ now_ms <= t
      /\ since[m] + dt <= SinceCap => Begin(m)' = Begin(m)
      /\ MinGap \in Nat /\ MinGap <= SinceCap /\ SinceCap \in Nat /\ MaxStep \in Nat
      /\ Round \in Nat /\ Round <= RepeatMs /\ Round <= RepeatDelayMs /\ Round <= MinGap
      /\ RepeatMs \in Nat /\ RepeatDelayMs \in Nat /\ 2 * RepeatMs < ClockRange
      /\ 2 * RepeatDelayMs < ClockRange /\ ClockRange \in Nat
  <2>1. /\ e.last \in BOOLEAN /\ finger[m] \in BOOLEAN /\ finger'[m] = finger[m]
        /\ now_ms \in Nat /\ since[m] \in Nat
        /\ t = now_ms + dt /\ t \in Times /\ t \in Nat /\ dt \in Nat /\ dt <= MaxStep
        /\ since[m] + dt <= SinceCap => Begin(m)' = Begin(m)
    BY TypedKey, PassedTimes
  <2>2. now_ms <= t
    BY <2>1
  <2> QED
    BY <2>1, <2>2, Numbers, Steps, RoundIs
<1>2. event'.key = m
  <2>1. m \in Keys
    BY Numbers DEF Keys
  <2>2. event' \in Commands(m)
    BY <1>1, ScanKinds DEF Polled
  <2> QED
    BY <2>1, <2>2, CommandKeys
<1>3. ASSUME NEW d \in Nat, 2 * d < ClockRange, Round <= d, finger[m],
             entries'[m].last, entries'[m].next_repeat = Later(t, d), m \notin LongKeys
      PROVE  Blocked(m, until)'
  <2>1. ASSUME NEW u \in t .. ClockRange - 1, Reached(u, entries'[m].next_repeat)
        PROVE  u >= until
    <3> DEFINE s == t
    <3> HIDE DEF s
    <3>1. s \in Times /\ u \in s .. ClockRange - 1 /\ Reached(u, Later(s, d))
      BY <1>1, <1>3, <2>1 DEF s
    <3>2. u >= s + d
      BY <1>3, <3>1, MarkAhead
    <3>3. until <= s + Round /\ s \in Nat
      BY <1>1 DEF s
    <3> QED
      BY <1>1, <1>3, <3>1, <3>2, <3>3
  <2>2. DueFrom(m, until)'
    BY <2>1 DEF DueFrom, Reached, Elapsed
  <2> QED
    BY <1>1, <1>3, <2>2 DEF Blocked, BlockedStepping
<1>4. CASE m \notin LongKeys
  <2>1. Repeats(m, t) \/ SeesStep(m, t)
    BY <1>1, <1>2, <1>4, PolledStepping DEF SeesRelease, StaysStepping
  <2>2. CASE Repeats(m, t)
    BY <1>1, <1>3, <1>4, <2>2 DEF Repeats, Becomes
  <2>3. CASE SeesStep(m, t)
    BY <1>1, <1>3, <1>4, <2>3 DEF SeesStep, Becomes
  <2> QED
    BY <2>1, <2>2, <2>3
<1>5. CASE m \in LongKeys
  <2>1. Holds(m) \/ Taps(m, t)
    BY <1>1, <1>2, <1>5, PolledHolding DEF KeyInv, SeesRelease, SeesPress, StaysHolding
  <2>2. CASE Holds(m)
    BY <1>1, <1>5, <2>2 DEF Holds, Becomes, Blocked, BlockedHolding
  <2>3. CASE Taps(m, t)
    <3>1. ~finger'[m] /\ ~entries'[m].last /\ e.last # finger[m]
      BY <1>1, <2>3 DEF Taps, Becomes
    <3>2. since[m] + MaxStep < MinGap /\ now_ms = Begin(m) + since[m] /\ Begin(m) \in Int
      BY <3>1, UnseenBounds, TypedKey DEF KeyInv
    <3> DEFINE b == Begin(m)
               c == Begin(m)'
    <3>3. c = b
      BY <1>1, <3>2
    <3> HIDE DEF b, c, t
    <3>4. c \in Int /\ c + 2 * MinGap >= until
      <4>1. now_ms = c + since[m] /\ c \in Int
        BY <3>2, <3>3 DEF b
      <4>2. until <= t + Round /\ t = now_ms + dt
        BY <1>1 DEF t
      <4> QED
        BY <1>1, <3>2, <4>1, <4>2
    <3> QED
      BY <1>5, <3>1, <3>4 DEF Blocked, BlockedHolding, c
  <2> QED
    BY <2>1, <2>2, <2>3
<1> QED
  BY <1>4, <1>5

\* A poll that misses key i blocks one more of the keys before it.
LEMMA SkippedKept ==
  ASSUME PressInputsOK, Typed, \A k \in Entries : KeyInv(k), NEW i \in Entries,
         NEW dt \in TickSteps, Passed(dt), Skipped(i, now_ms'),
         NEW mark \in Int, Kept(i, mark)
  PROVE  Kept(i, mark)'
<1> DEFINE S == Ahead(i, mark)
           R == Ahead(i, mark)'
           u == mark + 1 + Round
           n == Cardinality(S)
           r == Cardinality(R)
<1>1. /\ now_ms \in Nat /\ dt \in Nat /\ dt <= MaxStep /\ MaxStep \in Nat
      /\ now_ms' = now_ms + dt /\ now_ms' \in Times /\ now_ms' \in Nat
  BY TypedKey, PassedTimes
<1>2. Round \in Nat /\ u \in Int /\ now_ms + MaxStep <= mark + Round
  BY <1>1, RoundIs, KeptBound
<1>3. now_ms <= now_ms' /\ now_ms' < u
  BY <1>1, <1>2
<1>4. /\ S = {k \in Entries : k < i /\ Blocked(k, u)}
      /\ R = {k \in Entries : k < i /\ Blocked(k, u)'}
  BY DEF Ahead
<1> HIDE DEF S, R
<1>5. n \in Nat /\ r \in Nat /\ MaxStep * n \in Nat /\ MaxStep * r \in Nat
  BY <1>4, KeySets, RoundIs
<1>6. now_ms - mark <= MaxStep * n
  BY DEF Kept, S
<1> SUFFICES now_ms' - mark <= MaxStep * r
  BY DEF Kept, R
<1>7. CASE now_ms' <= mark
  <2> HIDE DEF r
  <2> QED
    BY <1>1, <1>5, <1>7
<1>8. CASE now_ms' > mark
  <2>1. PICK m \in Entries : m < i /\ Scanned(m, now_ms').event # NoEvent /\ Polled(m, now_ms')
    BY DEF Skipped
  <2>2. event'.key = m
    <3>1. m \in Keys
      BY Numbers DEF Keys
    <3>2. event' \in Commands(m)
      BY <1>1, <1>3, <2>1, ScanKinds DEF Polled
    <3> QED
      BY <3>1, <3>2, CommandKeys
  <2>3. u <= now_ms' + Round
    BY <1>1, <1>2, <1>8
  <2> HIDE DEF u
  <2>4. S \subseteq R
    BY <1>2, <1>4, BlockedQuiet
  <2>5. m \in R
    BY <1>2, <1>4, <2>1, <2>3, EmitterBlocks
  <2>6. m \notin S
    BY <1>2, <1>3, <1>4, <2>1, <2>2, BlockedQuiet
  <2>7. n + 1 <= r
    BY <1>4, <2>4, <2>5, <2>6, OneMore
  <2> HIDE DEF n, r
  <2>8. MaxStep * n + MaxStep <= MaxStep * r
    <3>1. MaxStep * (n + 1) <= MaxStep * r
      BY <1>1, <1>5, <2>7
    <3> QED
      BY <1>5, <3>1, RoundIs
  <2> QED
    BY <1>1, <1>5, <1>6, <2>8
<1> QED
  BY <1>1, <1>7, <1>8

\* A mark that is still ahead is kept.
LEMMA AheadKept ==
  ASSUME PressInputsOK, NEW i \in Entries, NEW mark \in Int, now_ms' \in Nat, now_ms' <= mark
  PROVE  Kept(i, mark)'
<1> DEFINE r == Cardinality(Ahead(i, mark)')
<1>1. Ahead(i, mark)' \in SUBSET Entries
  BY DEF Ahead
<1>2. MaxStep * r \in Nat
  BY <1>1, KeySets, RoundIs
<1>3. now_ms' - mark <= MaxStep * r
  <2>1. MaxStep * r \in Nat /\ now_ms' \in Nat /\ now_ms' <= mark
    BY <1>2
  <2> HIDE DEF r
  <2> QED
    BY <2>1
<1> QED
  BY <1>3 DEF Kept

\* The same mark, kept by another name.
LEMMA KeptIs ==
  ASSUME NEW i \in Entries, NEW mark, Kept(i, mark)', Ready(i)' = mark
  PROVE  Kept(i, Ready(i))'
BY DEF Kept, Ahead, Blocked, BlockedStepping, BlockedHolding, DueFrom

\* A move stays unseen only while the debouncing runs or keys before it take the polls.
LEMMA PollUnseen ==
  ASSUME PressInputsOK, Typed, \A k \in Entries : KeyInv(k), NEW i \in Entries,
         NEW dt \in TickSteps, Passed(dt)
  PROVE  Unseen(i)'
<1> DEFINE t == now_ms'
           e == entries[i]
<1> SUFFICES ASSUME entries'[i].last # finger'[i]
             PROVE  entries'[i].last_change <= Begin(i)' /\ Kept(i, Ready(i))'
  BY DEF Unseen
<1>1. /\ e.last \in BOOLEAN /\ finger[i] \in BOOLEAN /\ finger'[i] = finger[i]
      /\ now_ms \in Nat /\ since[i] \in Nat /\ dt \in Nat /\ dt <= MaxStep /\ MaxStep \in Nat
      /\ t = now_ms + dt /\ t \in Times /\ t \in Nat
      /\ since[i] + dt <= SinceCap => Begin(i)' = Begin(i)
  BY TypedKey, PassedTimes
<1>2. now_ms <= t
  BY <1>1
<1>3. /\ entries'[i].last = e.last /\ entries'[i].last_change = e.last_change
      /\ Polled(i, t) => ~Edge(e, finger[i], t)
  <2>1. CASE Polled(i, t) /\ i \notin LongKeys
    BY <1>1, <1>2, <2>1, PolledStepping
    DEF Repeats, SeesStep, SeesRelease, StaysStepping, Stays, Becomes
  <2>2. CASE Polled(i, t) /\ i \in LongKeys
    BY <1>1, <2>2, PolledHolding
    DEF KeyInv, Holds, Taps, SeesRelease, SeesPress, StaysHolding, Becomes
  <2>3. CASE ~Polled(i, t)
    BY <1>1, <2>3 DEF Passed, Skipped
  <2> QED
    BY <2>1, <2>2, <2>3
<1>4. Unseen(i) /\ e.last # finger[i]
  BY <1>1, <1>3 DEF KeyInv
<1>5. /\ Ready(i) \in Int /\ since[i] + MaxStep < MinGap
      /\ MinGap \in Nat /\ MinGap <= SinceCap /\ SinceCap \in Nat
  BY <1>4, UnseenBounds, Numbers
<1>6. Begin(i)' = Begin(i)
  BY <1>1, <1>5
<1>7. Ready(i)' = Ready(i)
  BY <1>3, <1>6 DEF Ready
<1>8. entries'[i].last_change <= Begin(i)' /\ Kept(i, Ready(i))
  BY <1>3, <1>4, <1>6 DEF Unseen
<1>9. PICK mark \in Int : mark = Ready(i)
  BY <1>5
<1>10. Kept(i, mark)'
  <2>1. CASE t <= mark
    BY <1>1, <2>1, AheadKept
  <2>2. CASE t > mark
    <3>1. Skipped(i, t)
      BY <1>1, <1>2, <1>3, <1>4, <1>9, <2>2, EdgeIs DEF Passed
    <3> QED
      BY <1>8, <1>9, <3>1, SkippedKept
  <2> QED
    BY <1>1, <2>1, <2>2
<1> QED
  BY <1>7, <1>8, <1>9, <1>10, KeptIs

-----------------------------------------------------------------------------
(* What a press has given so far.                                          *)

CountsAs(i, g, e, h) ==
  /\ h \in [1 .. 3 -> Nat]
  /\ e.key # i => h = g
  /\ h[1] \in {g[1], g[1] + 1}
  /\ i \in LongKeys /\ e = TapCommand(i) =>
       h[2] = (IF g[2] < SinceCap THEN g[2] + 1 ELSE g[2]) /\ h[3] = g[3]
  /\ i \in LongKeys /\ e = LongCommand(i) =>
       h[3] = (IF g[3] < SinceCap THEN g[3] + 1 ELSE g[3]) /\ h[2] = g[2]

LEMMA CountedIs ==
  ASSUME NEW i \in Keys, NEW g \in [1 .. 3 -> Nat], NEW e
  PROVE  CountsAs(i, g, e, Counted(i, g, e))
<1> DEFINE kinds == <<StepCommand(i), TapCommand(i), LongCommand(i)>>
           c == [k \in 1 .. 3 |-> IF e = kinds[k] /\ g[k] < SinceCap THEN g[k] + 1 ELSE g[k]]
<1>1. Counted(i, g, e) = IF e.key # i THEN g ELSE c
  BY DEF Counted
<1>2. kinds[1] = StepCommand(i) /\ kinds[2] = TapCommand(i) /\ kinds[3] = LongCommand(i)
  OBVIOUS
<1>3. /\ StepCommand(i) # TapCommand(i) /\ StepCommand(i) # LongCommand(i)
      /\ TapCommand(i) # LongCommand(i)
      /\ TapCommand(i).key = i /\ LongCommand(i).key = i
  BY DEF StepCommand, TapCommand, LongCommand, Event
<1> HIDE DEF kinds
<1>4. /\ c \in [1 .. 3 -> Nat]
      /\ c[1] = IF e = kinds[1] /\ g[1] < SinceCap THEN g[1] + 1 ELSE g[1]
      /\ c[2] = IF e = kinds[2] /\ g[2] < SinceCap THEN g[2] + 1 ELSE g[2]
      /\ c[3] = IF e = kinds[3] /\ g[3] < SinceCap THEN g[3] + 1 ELSE g[3]
  OBVIOUS
<1> HIDE DEF c
<1>5. e.key # i => Counted(i, g, e) = g
  BY <1>1
<1>6. Counted(i, g, e) \in [1 .. 3 -> Nat] /\ Counted(i, g, e)[1] \in {g[1], g[1] + 1}
  BY <1>1, <1>4
<1>7. e = TapCommand(i) =>
        /\ Counted(i, g, e)[2] = IF g[2] < SinceCap THEN g[2] + 1 ELSE g[2]
        /\ Counted(i, g, e)[3] = g[3]
  BY <1>1, <1>2, <1>3, <1>4
<1>8. e = LongCommand(i) =>
        /\ Counted(i, g, e)[3] = IF g[3] < SinceCap THEN g[3] + 1 ELSE g[3]
        /\ Counted(i, g, e)[2] = g[2]
  BY <1>1, <1>2, <1>3, <1>4
<1> QED
  BY <1>5, <1>6, <1>7, <1>8 DEF CountsAs

\* A press of a key with a long press gives one command, and the long one after the hold.
LEMMA PollLong ==
  ASSUME PressInputsOK, Typed, NEW i \in Entries, i \in LongKeys, KeyInv(i),
         NEW dt \in TickSteps, Passed(dt)
  PROVE  Press(i)' /\ Given(i)' /\ (event' = LongCommand(i) => held'[i] >= HoldMs(i))
<1> DEFINE t == now_ms'
           e == entries[i]
           f == entries'[i]
           g == given[i]
           h == given'[i]
           b == Begin(i)
           c == Begin(i)'
<1>1. /\ e.last \in BOOLEAN /\ e.fired \in BOOLEAN /\ finger[i] \in BOOLEAN /\ finger'[i] = finger[i]
      /\ e.last_change \in Nat /\ e.press_start \in Nat /\ e.press_start <= now_ms
      /\ now_ms \in Nat /\ since[i] \in Nat /\ dt \in Nat /\ dt <= MaxStep /\ MaxStep \in Nat
      /\ t = now_ms + dt /\ t \in Nat
      /\ g[2] \in Nat /\ g[3] \in Nat
      /\ finger[i] => held'[i] = since'[i]
  BY TypedKey, PassedTimes
<1>2. /\ c = t - since'[i] /\ b = now_ms - since[i] /\ since'[i] \in Nat /\ c \in Int
      /\ since'[i] = SinceCap \/ since'[i] = since[i] + dt
      /\ since[i] = SinceCap => since'[i] = SinceCap
      /\ since[i] + dt <= SinceCap => c = b
  <2>1. since[i] \in Nat /\ SinceCap \in Nat
    BY TypedKey, Numbers
  <2>2. /\ c = t - since'[i] /\ b = now_ms - since[i] /\ since'[i] \in 0 .. SinceCap /\ c \in Int
        /\ since'[i] = SinceCap \/ since'[i] = since[i] + dt
        /\ since[i] <= since'[i]
        /\ since[i] + dt <= SinceCap => c = b
    BY PassedTimes DEF Begin
  <2>3. since[i] = SinceCap => since'[i] = SinceCap
    BY <2>1, <2>2
  <2> QED
    BY <2>1, <2>2, <2>3
<1>3. e.last # finger[i] => c = b
  <2>1. e.last # finger[i] => since[i] + MaxStep < MinGap /\ MinGap <= SinceCap /\ MinGap \in Nat
    BY UnseenBounds, Numbers DEF KeyInv
  <2> HIDE DEF b, c
  <2> QED
    BY <1>1, <1>2, <2>1, Numbers
<1>4. i \in Keys /\ given[i] \in [1 .. 3 -> Nat] /\ h = Counted(i, g, event') /\ SinceCap \in Nat \ {0}
  <2>1. SinceCap \in Nat \ {0}
    BY Numbers DEF SinceCap
  <2> QED
    BY <2>1, Numbers DEF Typed, Passed, Keys
<1>5. /\ event'.key # i => h = g
      /\ event' = TapCommand(i) => h[2] = (IF g[2] < SinceCap THEN g[2] + 1 ELSE g[2]) /\ h[3] = g[3]
      /\ event' = LongCommand(i) => h[3] = (IF g[3] < SinceCap THEN g[3] + 1 ELSE g[3]) /\ h[2] = g[2]
  <2>1. CountsAs(i, g, event', h)
    BY <1>4, CountedIs
  <2> HIDE DEF g, h
  <2> QED
    BY <2>1 DEF CountsAs
<1>6. TapCommand(i).key = i /\ LongCommand(i).key = i /\ TapCommand(i) # LongCommand(i)
  BY DEF TapCommand, LongCommand, Event
<1>7. Press(i) /\ Given(i)
  BY DEF KeyInv
<1>8. \/ Holds(i) \/ Taps(i, t) \/ SeesRelease(i, t) \/ SeesPress(i, t) \/ StaysHolding(i, t)
      \/ Stays(i) /\ event'.key # i
  <2>1. Polled(i, t) \/ (Stays(i) /\ event'.key # i)
    BY <1>1 DEF Passed, Skipped, Stays, Becomes
  <2> QED
    BY <2>1, PolledHolding DEF KeyInv
<1>9. event' = LongCommand(i) => held'[i] >= HoldMs(i)
  BY <1>1, <1>6, <1>8 DEF Holds, Taps, SeesRelease, SeesPress, StaysHolding
<1>10. Press(i)'
  <2>1. /\ f.last => f.press_start = f.last_change
        /\ ~f.last /\ ~finger[i] => f.press_start <= f.last_change
    BY <1>1, <1>7, <1>8 DEF Press, Holds, Taps, SeesRelease, SeesPress, StaysHolding, Stays, Becomes
  <2>2. ASSUME ~f.last, finger[i] PROVE f.press_start <= f.last_change \/ f.press_start >= c
    <3>1. t >= c
      BY <1>1, <1>2
    <3> HIDE DEF b, c
    <3> QED
      BY <1>1, <1>3, <1>7, <1>8, <2>2, <3>1
      DEF Press, Holds, Taps, SeesRelease, SeesPress, StaysHolding, Stays, Becomes, b
  <2>3. ASSUME f.last, finger[i] PROVE since'[i] = SinceCap \/ f.last_change >= c
    <3>1. t >= c /\ (since'[i] = since[i] + dt => c = b)
      BY <1>1, <1>2
    <3> HIDE DEF b, c
    <3> QED
      BY <1>1, <1>2, <1>3, <1>7, <1>8, <2>3, <3>1
      DEF Press, Holds, Taps, SeesRelease, SeesPress, StaysHolding, Stays, Becomes, b
  <2> QED
    BY <1>1, <2>1, <2>2, <2>3 DEF Press
<1>11. Given(i)'
  <2> SUFFICES /\ h[2] + h[3] <= 1
               /\ finger[i] => h[2] = 0 /\ (h[3] = 1 => f.last /\ f.fired)
               /\ ~finger[i] /\ f.last => h[2] = 0 /\ (h[3] = 1 => f.fired)
    BY <1>1 DEF Given
  <2>1. /\ g[2] + g[3] <= 1
        /\ finger[i] => g[2] = 0 /\ (g[3] = 1 => e.last /\ e.fired)
        /\ ~finger[i] /\ e.last => g[2] = 0 /\ (g[3] = 1 => e.fired)
    BY <1>7 DEF Given
  <2> HIDE DEF g, h
  <2>2. CASE Holds(i)
    BY <1>1, <1>4, <1>5, <2>1, <2>2 DEF Holds, Becomes
  <2>3. CASE Taps(i, t)
    BY <1>1, <1>4, <1>5, <2>1, <2>3 DEF Taps, Becomes
  <2>4. CASE ~Holds(i) /\ ~Taps(i, t)
    BY <1>1, <1>5, <1>8, <2>1, <2>4 DEF SeesRelease, SeesPress, StaysHolding, Stays, Becomes
  <2> QED
    BY <2>2, <2>3, <2>4
<1> QED
  BY <1>9, <1>10, <1>11

LEMMA DivBound ==
  ASSUME NEW d \in Nat \ {0}, NEW x \in Nat
  PROVE  /\ x \div d \in Nat
         /\ \A n \in Nat : n * d <= x => n <= x \div d
<1>1. x \div d \in Nat /\ x < d * (x \div d) + d
  BY SMTT(30)
<1> DEFINE q == x \div d
<1>2. q \in Nat /\ x < d * q + d
  BY <1>1
<1> HIDE DEF q
<1>3. ASSUME NEW n \in Nat, n * d <= x, n > q PROVE FALSE
  <2>1. n * d >= (q + 1) * d
    BY <1>2, <1>3
  <2>2. (q + 1) * d = d * q + d
    BY <1>2
  <2> DEFINE a == n * d
             c == (q + 1) * d
  <2>3. a \in Int /\ c \in Int /\ a >= c /\ a <= x /\ x < c
    BY <1>2, <1>3, <2>1, <2>2
  <2> HIDE DEF a, c
  <2> QED
    BY <2>3
<1> QED
  BY <1>2, <1>3 DEF q

\* The number of steps a press may have given grows with its age, by one per interval.
LEMMA MayGive ==
  ASSUME PressInputsOK
  PROVE  /\ \A age \in Nat : MayHaveGiven(age) \in Nat /\ MayHaveGiven(age) >= 1
         /\ \A age, x \in Nat : age <= x => MayHaveGiven(age) <= MayHaveGiven(x)
         /\ \A age \in Nat, n \in Nat :
              n = 0 \/ age >= RepeatDelayMs + (n - 1) * RepeatMs => n + 1 <= MayHaveGiven(age)
<1>1. RepeatMs \in Nat \ {0} /\ RepeatDelayMs \in Nat
  BY Numbers
<1>2. ASSUME NEW age \in Nat PROVE MayHaveGiven(age) \in Nat /\ MayHaveGiven(age) >= 1
  <2>1. CASE age < RepeatDelayMs
    BY <2>1 DEF MayHaveGiven
  <2>2. CASE age >= RepeatDelayMs
    <3> DEFINE q == (age - RepeatDelayMs) \div RepeatMs
    <3>1. age - RepeatDelayMs \in Nat
      BY <1>1, <2>2
    <3>2. q \in Nat
      BY <1>1, <3>1, DivBound
    <3>3. MayHaveGiven(age) = 2 + q
      BY <1>1, <2>2 DEF MayHaveGiven
    <3> HIDE DEF q
    <3> QED
      BY <3>2, <3>3
  <2> QED
    BY <1>1, <2>1, <2>2
<1>3. ASSUME NEW age \in Nat, NEW n \in Nat,
             n = 0 \/ age >= RepeatDelayMs + (n - 1) * RepeatMs
      PROVE  n + 1 <= MayHaveGiven(age)
  <2>1. CASE n = 0
    BY <1>2, <2>1
  <2>2. CASE n # 0
    <3> DEFINE k == n - 1
               q == (age - RepeatDelayMs) \div RepeatMs
               p == k * RepeatMs
    <3>1. k \in Nat /\ p \in Nat /\ age >= RepeatDelayMs + p
      BY <1>1, <1>3, <2>2
    <3> HIDE DEF p
    <3>2. age - RepeatDelayMs \in Nat /\ p <= age - RepeatDelayMs /\ age >= RepeatDelayMs
      BY <1>1, <3>1
    <3>3. q \in Nat /\ k <= q
      BY <1>1, <3>1, <3>2, DivBound DEF p
    <3>4. MayHaveGiven(age) = 2 + q
      BY <1>1, <3>2 DEF MayHaveGiven
    <3> HIDE DEF q
    <3> QED
      BY <3>1, <3>3, <3>4
  <2> QED
    BY <2>1, <2>2
<1>4. ASSUME NEW age \in Nat, NEW x \in Nat, age <= x
      PROVE  MayHaveGiven(age) <= MayHaveGiven(x)
  <2>1. CASE age < RepeatDelayMs
    BY <1>2, <2>1 DEF MayHaveGiven
  <2>2. CASE age >= RepeatDelayMs
    <3> DEFINE a == age - RepeatDelayMs
               q == a \div RepeatMs
    <3>1. a \in Nat
      BY <1>1, <2>2
    <3>2. q \in Nat /\ q * RepeatMs <= a
      <4> HIDE DEF a
      <4> QED
        BY <1>1, <3>1, SMTT(30)
    <3>3. MayHaveGiven(age) = 2 + q
      BY <1>1, <2>2 DEF MayHaveGiven
    <3> HIDE DEF q
    <3>4. x >= RepeatDelayMs + q * RepeatMs /\ q * RepeatMs \in Nat
      BY <1>1, <1>4, <2>2, <3>1, <3>2
    <3>5. q + 1 + 1 <= MayHaveGiven(x)
      <4>1. q + 1 \in Nat /\ (q + 1) - 1 = q
        BY <3>2
      <4> QED
        BY <1>3, <3>4, <4>1
    <3> QED
      BY <3>2, <3>3, <3>5, <1>2
  <2> QED
    BY <1>1, <2>1, <2>2
<1> QED
  BY <1>2, <1>3, <1>4

\* A stepping key gives its steps no faster than the delay and the interval allow.
LEMMA PollPace ==
  ASSUME PressInputsOK, Typed, NEW i \in Entries, i \notin LongKeys, KeyInv(i),
         NEW dt \in TickSteps, Passed(dt)
  PROVE  Pace(i)'
<1> DEFINE t == now_ms'
           e == entries[i]
           f == entries'[i]
           g == given[i][1]
           h == given'[i][1]
           a == held[i]
           c == held'[i]
           Due(age, n) == age + RepeatDelayMs + (n - 1) * RepeatMs
<1>1. /\ e.last \in BOOLEAN /\ finger[i] \in BOOLEAN /\ finger'[i] = finger[i]
      /\ now_ms \in Nat /\ dt \in Nat /\ t = now_ms + dt /\ t \in Nat /\ t \in Times
      /\ g \in Nat /\ a \in Nat /\ a <= SinceCap
      /\ ~finger[i] => c = a
  BY TypedKey, PassedTimes
<1>2. now_ms <= t /\ SinceCap \in Nat /\ RepeatMs \in Nat /\ RepeatDelayMs \in Nat /\ ClockRange \in Nat
      /\ 2 * RepeatMs < ClockRange /\ 2 * RepeatDelayMs < ClockRange
  BY <1>1, Numbers
<1>3. c \in Nat /\ a <= c /\ (finger[i] /\ c < SinceCap => t - c = now_ms - a)
  <2>1. /\ c \in 0 .. SinceCap /\ (finger[i] => c = since'[i] /\ a = since[i])
        /\ since[i] <= since'[i] /\ (since'[i] = SinceCap \/ since'[i] = since[i] + dt)
    BY PassedTimes, TypedKey
  <2>2. since[i] \in Nat
    BY TypedKey
  <2> HIDE DEF a, c, t
  <2>3. c \in Nat /\ c <= SinceCap
    BY <1>2, <2>1
  <2>4. a <= c
    BY <1>1, <2>1, <2>2, <2>3
  <2>5. finger[i] /\ c < SinceCap => t - c = now_ms - a
    BY <1>1, <1>2, <2>1, <2>2, <2>3
  <2> QED
    BY <2>3, <2>4, <2>5
<1>4. h \in {g, g + 1} /\ (event'.key # i => h = g)
  <2>1. i \in Keys /\ given[i] \in [1 .. 3 -> Nat] /\ given'[i] = Counted(i, given[i], event')
    BY Numbers DEF Typed, Passed, Keys
  <2>2. CountsAs(i, given[i], event', given'[i])
    BY <2>1, CountedIs
  <2> QED
    BY <2>2 DEF CountsAs
<1>5. /\ finger[i] /\ ~e.last => g = 0
      /\ finger[i] /\ e.last /\ a < SinceCap => DueFrom(i, Due(now_ms - a, g))
      /\ a < SinceCap => g <= MayHaveGiven(a)
  BY DEF KeyInv, Pace
<1>6. \/ Repeats(i, t) \/ SeesStep(i, t) \/ SeesRelease(i, t)
      \/ Stays(i) /\ event'.key # i
  <2>1. Polled(i, t) \/ (Stays(i) /\ event'.key # i)
    BY <1>1 DEF Passed, Skipped, Stays, Becomes
  <2> QED
    BY <1>1, <1>2, <2>1, PolledStepping DEF StaysStepping
<1> SUFFICES /\ finger[i] /\ ~f.last => h = 0
             /\ finger[i] /\ f.last /\ c < SinceCap =>
                  \A u \in t .. ClockRange - 1 : Reached(u, f.next_repeat) => u >= Due(t - c, h)
             /\ c < SinceCap => h <= MayHaveGiven(c)
  BY <1>1 DEF Pace, DueFrom, Reached, Elapsed
<1> HIDE DEF t, a, c, g, h, Due
<1>7. c < SinceCap => a < SinceCap /\ MayHaveGiven(a) <= MayHaveGiven(c)
  BY <1>1, <1>2, <1>3, MayGive
<1>8. CASE Repeats(i, t)
  <2>1. finger[i] /\ e.last /\ f.last /\ f.next_repeat = Later(t, RepeatMs) /\ Reached(t, e.next_repeat)
    BY <1>8 DEF Repeats, Becomes
  <2> SUFFICES ASSUME c < SinceCap
               PROVE  /\ \A u \in t .. ClockRange - 1 :
                           Reached(u, f.next_repeat) => u >= Due(t - c, h)
                      /\ h <= MayHaveGiven(c)
    BY <2>1
  <2>2. t >= Due(t - c, g)
    <3>1. t \in now_ms .. ClockRange - 1
      BY <1>1, <1>2 DEF Times
    <3>2. DueFrom(i, Due(now_ms - a, g)) /\ t - c = now_ms - a
      BY <1>3, <1>5, <1>7, <2>1
    <3> QED
      BY <2>1, <3>1, <3>2 DEF DueFrom
  <2> DEFINE q == (g - 1) * RepeatMs
             r == (h - 1) * RepeatMs
  <2>3. q \in Int /\ r \in Int /\ r <= q + RepeatMs
    <3>1. h = g \/ h = g + 1
      BY <1>4
    <3>2. (g + 1 - 1) * RepeatMs = (g - 1) * RepeatMs + RepeatMs
      BY <1>1, <1>2
    <3> QED
      BY <1>1, <1>2, <3>1, <3>2
  <2>4. Due(t - c, g) = t - c + RepeatDelayMs + q /\ Due(t - c, h) = t - c + RepeatDelayMs + r
    BY DEF Due
  <2>5. c >= RepeatDelayMs + (g - 1) * RepeatMs
    <3> HIDE DEF q, r
    <3>1. c >= RepeatDelayMs + q
      BY <1>1, <1>2, <1>3, <2>2, <2>3, <2>4
    <3> QED
      BY <3>1 DEF q
  <2>6. h <= MayHaveGiven(c)
    <3>1. g + 1 <= MayHaveGiven(c) /\ MayHaveGiven(c) \in Nat
      BY <1>1, <1>3, <2>5, MayGive
    <3> QED
      BY <1>1, <1>4, <3>1
  <2>7. ASSUME NEW u \in t .. ClockRange - 1, Reached(u, f.next_repeat)
        PROVE  u >= Due(t - c, h)
    <3>1. u >= t + RepeatMs /\ u \in Int
      BY <1>1, <1>2, <2>1, <2>7, MarkAhead
    <3> HIDE DEF q, r
    <3>2. c >= RepeatDelayMs + q
      BY <2>5 DEF q
    <3> QED
      BY <1>1, <1>2, <1>3, <2>3, <2>4, <3>1, <3>2
  <2> QED
    BY <2>6, <2>7
<1>9. CASE SeesStep(i, t)
  <2>1. finger[i] /\ ~e.last /\ f.last /\ f.next_repeat = Later(t, RepeatDelayMs) /\ h \in {0, 1}
    BY <1>4, <1>5, <1>9 DEF SeesStep, Becomes
  <2>2. c < SinceCap => h <= MayHaveGiven(c)
    BY <1>3, <2>1, MayGive
  <2>3. Due(t - c, h) \in Int /\ Due(t - c, h) <= t + RepeatDelayMs
    BY <1>1, <1>2, <1>3, <2>1 DEF Due
  <2>4. ASSUME NEW u \in t .. ClockRange - 1, Reached(u, f.next_repeat)
        PROVE  u >= Due(t - c, h)
    <3>1. u >= t + RepeatDelayMs /\ u \in Int
      BY <1>1, <1>2, <2>1, <2>4, MarkAhead
    <3> QED
      BY <1>1, <1>2, <2>3, <3>1
  <2> QED
    BY <2>1, <2>2, <2>4
<1>10. CASE SeesRelease(i, t)
  BY <1>1, <1>4, <1>5, <1>7, <1>10 DEF SeesRelease
<1>11. CASE Stays(i) /\ event'.key # i
  <2>1. h = g /\ f.last = e.last /\ f.next_repeat = e.next_repeat
    BY <1>4, <1>11 DEF Stays, Becomes
  <2>2. c < SinceCap => h <= MayHaveGiven(c)
    BY <1>1, <1>3, <1>5, <1>7, <2>1, MayGive
  <2>3. ASSUME finger[i], f.last, c < SinceCap, NEW u \in t .. ClockRange - 1, Reached(u, f.next_repeat)
        PROVE  u >= Due(t - c, h)
    <3>1. u \in now_ms .. ClockRange - 1
      BY <1>1, <1>2
    <3>2. t - c = now_ms - a /\ DueFrom(i, Due(now_ms - a, g))
      BY <1>3, <1>5, <1>7, <2>1, <2>3
    <3> QED
      BY <2>1, <2>3, <3>1, <3>2 DEF DueFrom
  <2> QED
    BY <1>5, <2>1, <2>2, <2>3
<1> QED
  BY <1>6, <1>8, <1>9, <1>10, <1>11

\* The ages, the counts and the times keep their types at a poll.
LEMMA PollTyped ==
  ASSUME PressInputsOK, Typed, NEW dt \in TickSteps, Passed(dt)
  PROVE  Typed'
<1>1. /\ now_ms' \in Times /\ finger' \in [Entries -> BOOLEAN]
      /\ entries' \in [Entries -> EntryType] /\ event'.key \in Entries \cup {-1}
  BY DEF Passed, Typed
<1>2. since' \in [Entries -> 0 .. SinceCap]
  <2>1. \A i \in Entries : since'[i] \in 0 .. SinceCap
    BY PassedTimes
  <2> QED
    BY <2>1 DEF Passed
<1>3. held' \in [Entries -> 0 .. SinceCap]
  <2>1. \A i \in Entries : held'[i] \in 0 .. SinceCap
    BY PassedTimes
  <2> QED
    BY <2>1 DEF Passed
<1>4. given' \in [Entries -> [1 .. 3 -> Nat]]
  <2>1. ASSUME NEW i \in Entries PROVE given'[i] \in [1 .. 3 -> Nat]
    <3>1. i \in Keys /\ given[i] \in [1 .. 3 -> Nat] /\ given'[i] = Counted(i, given[i], event')
      BY Numbers DEF Typed, Passed, Keys
    <3>2. CountsAs(i, given[i], event', given'[i])
      BY <3>1, CountedIs
    <3> QED
      BY <3>2 DEF CountsAs
  <2> QED
    BY <2>1 DEF Passed
<1>5. ASSUME NEW i \in Entries
      PROVE  /\ entries'[i].last_change <= now_ms' /\ entries'[i].press_start <= now_ms'
             /\ finger'[i] => held'[i] = since'[i]
  <2>1. /\ now_ms' = now_ms + dt /\ now_ms' \in Times /\ dt \in Nat /\ now_ms \in Nat
        /\ entries[i].last_change <= now_ms /\ entries[i].press_start <= now_ms
        /\ entries[i].last_change \in Nat /\ entries[i].press_start \in Nat
        /\ finger'[i] = finger[i] /\ (finger[i] => held'[i] = since'[i])
    BY TypedKey, PassedTimes
  <2>2. now_ms <= now_ms'
    BY <2>1
  <2>3. CASE Polled(i, now_ms')
    <3>1. Scanned(i, now_ms').entry.last_change <= now_ms' /\ Scanned(i, now_ms').entry.press_start <= now_ms'
      BY <2>1, <2>2, ScanKinds
    <3> QED
      BY <2>1, <2>3, <3>1 DEF Polled
  <2>4. CASE entries'[i] = entries[i]
    BY <2>1, <2>4
  <2>5. Polled(i, now_ms') \/ entries'[i] = entries[i]
    BY <2>1 DEF Passed, Skipped
  <2> QED
    BY <2>1, <2>3, <2>4, <2>5
<1> QED
  BY <1>1, <1>2, <1>3, <1>4, <1>5 DEF Typed

-----------------------------------------------------------------------------
(* A finger moves: its key saw the last move, and no key that waits for    *)
(* the others gets them back for it.                                       *)

LEMMA MoveBlocks ==
  ASSUME PressInputsOK, Typed, NEW j \in Entries, NEW until \in Int,
         entries[j].last = finger[j], since[j] >= MinGap,
         now_ms < until, until <= now_ms + MinGap, Blocked(j, until),
         now_ms' = now_ms, entries' = entries, finger'[j] = ~finger[j], since'[j] = 0
  PROVE  Blocked(j, until)'
<1>1. /\ now_ms \in Nat /\ since[j] \in Nat /\ MinGap \in Nat /\ finger[j] \in BOOLEAN
  BY TypedKey, Numbers
<1>2. Begin(j)' = now_ms' - since'[j] /\ Begin(j) = now_ms - since[j]
  BY DEF Begin
<1>3. Begin(j)' = now_ms
  BY <1>1, <1>2
<1>4. ~(Begin(j) + MinGap >= until)
  BY <1>1, <1>2
<1>5. /\ Begin(j)' + MinGap >= until
      /\ Begin(j)' + 2 * MinGap >= until
  <2> DEFINE b == Begin(j)'
  <2>1. b = now_ms
    BY <1>3
  <2> HIDE DEF b
  <2>2. b + MinGap >= until /\ b + 2 * MinGap >= until
    BY <1>1, <2>1
  <2> QED
    BY <2>2 DEF b
<1>6. CASE j \notin LongKeys
  <2>1. finger[j] /\ entries[j].last
    BY <1>1, <1>4, <1>6 DEF Blocked, BlockedStepping
  <2> QED
    BY <1>1, <1>5, <1>6, <2>1 DEF Blocked, BlockedStepping
<1>7. CASE j \in LongKeys
  <2>1. finger[j] => entries[j].fired
    BY <1>1, <1>4, <1>7 DEF Blocked, BlockedHolding
  <2> QED
    BY <1>1, <1>5, <1>7, <2>1 DEF Blocked, BlockedHolding
<1> QED
  BY <1>6, <1>7

\* What a move changes; the key saw the last move before.
Moved(j) ==
  /\ finger' = [finger EXCEPT ![j] = ~@] /\ since' = [since EXCEPT ![j] = 0]
  /\ given' = IF finger[j] THEN given ELSE [given EXCEPT ![j] = <<0, 0, 0>>]
  /\ held' = IF finger[j] THEN held ELSE [held EXCEPT ![j] = 0]
  /\ finger'[j] = ~finger[j] /\ since'[j] = 0
  /\ entries[j].last = finger[j] /\ since[j] >= MinGap
  /\ finger[j] => given'[j] = given[j] /\ held'[j] = held[j]
  /\ ~finger[j] => given'[j] = <<0, 0, 0>> /\ held'[j] = 0
  /\ \A k \in Entries \ {j} : /\ finger'[k] = finger[k] /\ since'[k] = since[k]
                             /\ given'[k] = given[k] /\ held'[k] = held[k]
  /\ now_ms' = now_ms /\ entries' = entries /\ event' = NoEvent

LEMMA MoveIs ==
  ASSUME PressInputsOK, IInv, MoveFinger
  PROVE  \E j \in Entries : Moved(j)
<1>1. PICK j \in Entries :
        /\ since[j] >= MinGap
        /\ finger' = [finger EXCEPT ![j] = ~@]
        /\ since' = [since EXCEPT ![j] = 0]
        /\ given' = IF finger[j] THEN given ELSE [given EXCEPT ![j] = <<0, 0, 0>>]
        /\ held' = IF finger[j] THEN held ELSE [held EXCEPT ![j] = 0]
        /\ event' = NoEvent /\ now_ms' = now_ms /\ entries' = entries
  BY DEF MoveFinger
<1>2. Typed /\ \A k \in Entries : KeyInv(k)
  BY DEF IInv
<1>3. entries[j].last = finger[j]
  <2>1. since[j] \in Nat /\ MinGap \in Nat /\ MaxStep \in Nat
    BY <1>2, TypedKey, Numbers, Steps
  <2>2. entries[j].last # finger[j] => since[j] + MaxStep < MinGap
    BY <1>2, UnseenBounds DEF KeyInv
  <2> QED
    BY <1>1, <2>1, <2>2
<1>4. /\ finger'[j] = ~finger[j] /\ since'[j] = 0
      /\ finger[j] => given'[j] = given[j] /\ held'[j] = held[j]
      /\ ~finger[j] => given'[j] = <<0, 0, 0>> /\ held'[j] = 0
      /\ \A k \in Entries \ {j} : /\ finger'[k] = finger[k] /\ since'[k] = since[k]
                                 /\ given'[k] = given[k] /\ held'[k] = held[k]
  BY <1>1, <1>2 DEF Typed
<1> QED
  BY <1>1, <1>3, <1>4 DEF Moved

LEMMA MoveKept ==
  ASSUME PressInputsOK, Typed, NEW j \in Entries, Moved(j), NEW k \in Entries,
         NEW mark \in Int, Kept(k, mark)
  PROVE  Kept(k, mark)'
<1> DEFINE S == Ahead(k, mark)
           R == Ahead(k, mark)'
           u == mark + 1 + Round
           n == Cardinality(S)
           r == Cardinality(R)
<1>1. /\ now_ms \in Nat /\ MaxStep \in Nat /\ Round \in Nat /\ Round <= MinGap /\ MinGap \in Nat
      /\ since[j] \in Nat /\ now_ms' = now_ms
  <2>1. /\ now_ms \in Nat /\ MaxStep \in Nat /\ Round \in Nat /\ MinGap \in Nat /\ DebounceMs \in Nat
        /\ DebounceMs + Round <= MinGap /\ since[j] \in Nat
    BY TypedKey, Steps, RoundIs, Numbers
  <2> QED
    BY <2>1 DEF Moved
<1>2. CASE now_ms <= mark
  BY <1>1, <1>2, AheadKept
<1>3. CASE now_ms > mark
  <2>1. u \in Int /\ now_ms < u /\ u <= now_ms + MinGap
    BY <1>1, <1>3, KeptBound
  <2>2. /\ S = {m \in Entries : m < k /\ Blocked(m, u)}
        /\ R = {m \in Entries : m < k /\ Blocked(m, u)'}
    BY DEF Ahead
  <2> HIDE DEF S, R, u
  <2>3. ASSUME NEW m \in Entries, Blocked(m, u) PROVE Blocked(m, u)'
    <3>1. CASE m = j
      BY <2>1, <2>3, <3>1, MoveBlocks DEF Moved
    <3>2. CASE m # j
      <4>1. Begin(m)' = Begin(m) /\ finger'[m] = finger[m] /\ now_ms' = now_ms /\ entries' = entries
        BY <3>2 DEF Begin, Moved
      <4>2. DueFrom(m, u)' <=> DueFrom(m, u)
        BY <4>1 DEF DueFrom, u
      <4> QED
        BY <2>3, <4>1, <4>2 DEF Blocked, BlockedStepping, BlockedHolding
    <3> QED
      BY <3>1, <3>2
  <2>4. n <= r /\ n \in Nat /\ r \in Nat
    <3>1. S \in SUBSET R /\ R \in SUBSET Entries
      BY <2>2, <2>3
    <3>2. IsFiniteSet(R)
      BY <3>1, EntriesFinite, FS_Subset
    <3> QED
      BY <3>1, <3>2, FS_Subset, KeySets
  <2>5. now_ms - mark <= MaxStep * n
    BY DEF Kept, S
  <2> HIDE DEF n, r
  <2>6. MaxStep * n <= MaxStep * r /\ MaxStep * n \in Nat /\ MaxStep * r \in Nat
    BY <1>1, <2>4
  <2>7. now_ms' - mark <= MaxStep * r
    BY <1>1, <2>5, <2>6
  <2> QED
    BY <2>7 DEF Kept, r, R
<1> QED
  BY <1>1, <1>2, <1>3

LEMMA MoveFingerInv == PressInputsOK /\ IInv /\ MoveFinger => IInv'
<1> SUFFICES ASSUME PressInputsOK, IInv, MoveFinger PROVE IInv'
  OBVIOUS
<1>1. PICK j \in Entries : Moved(j)
  BY MoveIs
<1>2. Typed /\ \A k \in Entries : KeyInv(k)
  BY DEF IInv
<1>3. \A k \in Entries : event' # LongCommand(k)
  BY <1>1, Numbers DEF Moved, NoEvent, LongCommand, Event
<1>4. entries[j].last = finger[j] /\ event' = NoEvent /\ now_ms' = now_ms /\ entries' = entries
  BY <1>1 DEF Moved
<1>5. /\ finger'[j] = ~finger[j] /\ since'[j] = 0
      /\ finger[j] => given'[j] = given[j] /\ held'[j] = held[j]
      /\ ~finger[j] => given'[j] = <<0, 0, 0>> /\ held'[j] = 0
      /\ \A k \in Entries \ {j} : /\ finger'[k] = finger[k] /\ since'[k] = since[k]
                                 /\ given'[k] = given[k] /\ held'[k] = held[k]
  BY <1>1 DEF Moved
<1>6. Typed'
  <2>1. SinceCap \in Nat /\ <<0, 0, 0>> \in [1 .. 3 -> Nat] /\ NoEvent.key = -1
    BY Numbers DEF NoEvent
  <2>2. /\ now_ms' \in Times /\ entries' \in [Entries -> EntryType] /\ event'.key \in Entries \cup {-1}
    BY <1>1, <1>2, <1>4, <2>1 DEF Typed, Moved
  <2>3. /\ finger' \in [Entries -> BOOLEAN] /\ since' \in [Entries -> 0 .. SinceCap]
        /\ held' \in [Entries -> 0 .. SinceCap]
    BY <1>1, <1>2, <1>4, <2>1 DEF Typed, Moved
  <2>4. given' \in [Entries -> [1 .. 3 -> Nat]]
    BY <1>1, <1>2, <1>4, <2>1 DEF Typed, Moved
  <2>5. \A k \in Entries :
          /\ entries'[k].last_change <= now_ms' /\ entries'[k].press_start <= now_ms'
          /\ finger'[k] => held'[k] = since'[k]
    BY <1>2, <1>4, <1>5 DEF Typed
  <2> QED
    BY <2>2, <2>3, <2>4, <2>5 DEF Typed
<1>7. ASSUME NEW k \in Entries PROVE Unseen(k)'
  <2> SUFFICES ASSUME entries'[k].last # finger'[k]
               PROVE  entries'[k].last_change <= Begin(k)' /\ Kept(k, Ready(k))'
    BY DEF Unseen
  <2>1. /\ now_ms \in Nat /\ entries[k].last_change \in Nat /\ entries[k].last_change <= now_ms
        /\ since[k] \in Nat /\ DebounceMs \in Nat \ {0}
    BY <1>2, TypedKey, Numbers
  <2>2. CASE k = j
    <3>1. Begin(k)' = now_ms' - since'[k]
      BY DEF Begin
    <3>2. Begin(k)' = now_ms
      BY <1>4, <1>5, <2>1, <2>2, <3>1
    <3>3. Ready(k)' \in Int /\ Ready(k)' >= now_ms
      BY <1>4, <2>1, <3>2 DEF Ready
    <3>4. PICK mark \in Int : mark = Ready(k)'
      BY <3>3
    <3>5. Kept(k, mark)'
      BY <1>4, <2>1, <3>3, <3>4, AheadKept
    <3> QED
      BY <1>4, <2>1, <3>2, <3>4, <3>5, KeptIs
  <2>3. CASE k # j
    <3>1. entries[k].last # finger[k] /\ Unseen(k)
      BY <1>4, <1>2, <1>5, <2>3 DEF KeyInv
    <3>2. Ready(k) \in Int /\ entries[k].last_change <= Begin(k) /\ Kept(k, Ready(k))
      BY <1>2, <3>1, UnseenBounds DEF Unseen
    <3>3. Begin(k)' = Begin(k)
      BY <1>4, <1>5, <2>3 DEF Begin
    <3>4. Ready(k)' = Ready(k)
      BY <1>4, <3>3 DEF Ready
    <3>5. PICK mark \in Int : mark = Ready(k)
      BY <3>2
    <3>6. Kept(k, mark)'
      BY <1>1, <1>2, <3>2, <3>5, MoveKept
    <3> QED
      BY <1>4, <3>2, <3>3, <3>4, <3>5, <3>6, KeptIs
  <2> QED
    BY <2>2, <2>3
<1>8. ASSUME NEW k \in Entries, k \in LongKeys PROVE Press(k)' /\ Given(k)'
  <2>1. Press(k) /\ Given(k)
    BY <1>2, <1>8 DEF KeyInv
  <2>2. CASE k # j
    <3>1. Begin(k)' = Begin(k)
      BY <1>4, <1>5, <2>2 DEF Begin
    <3> QED
      BY <1>4, <1>5, <2>1, <2>2, <3>1 DEF Press, Given
  <2>3. CASE k = j
    <3>1. finger[j] \in BOOLEAN /\ given[j][2] \in Nat /\ given[j][3] \in Nat
      BY <1>2, TypedKey
    <3>2. Press(k)'
      BY <1>4, <1>5, <2>1, <2>3, <3>1 DEF Press
    <3>3. Given(k)'
      BY <1>4, <1>5, <2>1, <2>3, <3>1 DEF Given
    <3> QED
      BY <3>2, <3>3
  <2> QED
    BY <2>2, <2>3
<1>9. ASSUME NEW k \in Entries, k \notin LongKeys PROVE Pace(k)'
  <2>1. Pace(k)
    BY <1>2, <1>9 DEF KeyInv
  <2>2. CASE k # j
    BY <1>4, <1>5, <2>1, <2>2 DEF Pace, DueFrom
  <2>3. CASE k = j
    <3>1. finger[j] \in BOOLEAN /\ SinceCap \in Nat
      BY <1>2, TypedKey, Numbers
    <3>2. MayHaveGiven(0) \in Nat
      BY MayGive
    <3>3. CASE finger[j]
      BY <1>4, <1>5, <2>1, <2>3, <3>1, <3>3 DEF Pace
    <3>4. CASE ~finger[j]
      <4>1. given'[k][1] = 0 /\ held'[k] = 0 /\ ~entries'[k].last
        BY <1>4, <1>5, <2>3, <3>4
      <4> QED
        BY <3>2, <4>1 DEF Pace
    <3> QED
      BY <3>1, <3>3, <3>4
  <2> QED
    BY <2>2, <2>3
<1> QED
  BY <1>3, <1>6, <1>7, <1>8, <1>9 DEF IInv, KeyInv

-----------------------------------------------------------------------------

LEMMA InitInv == PressInputsOK /\ Init => IInv
<1> SUFFICES ASSUME PressInputsOK, Init PROVE IInv
  OBVIOUS
<1>1. /\ SinceCap \in Nat /\ ClockRange \in Nat \ {0} /\ MaxStep \in Nat /\ DebounceMs \in Nat \ {0}
  BY Numbers, Steps
<1>2. /\ now_ms = 0 /\ event = NoEvent
      /\ finger \in [Entries -> BOOLEAN] /\ \A i \in Entries : ~finger[i]
      /\ entries = [i \in Entries |-> InitEntry(finger[i])]
      /\ since = [i \in Entries |-> SinceCap] /\ held = [i \in Entries |-> 0]
      /\ given = [i \in Entries |-> <<0, 0, 0>>]
  BY DEF Init, PressInputsOK
<1>3. \A i \in Entries : /\ entries[i] \in EntryType
                        /\ ~entries[i].last /\ entries[i].last_change = 0 /\ entries[i].press_start = 0
  <2> TAKE i \in Entries
  <2>1. finger[i] = FALSE
    BY <1>2
  <2>2. entries[i] = [idle |-> FALSE, last |-> FALSE, last_change |-> 0, press_start |-> 0,
                      next_repeat |-> 0, fired |-> FALSE]
    BY <1>2, <2>1 DEF InitEntry
  <2>3. 0 \in Times
    BY <1>1 DEF Times
  <2> QED
    BY <2>2, <2>3 DEF EntryType
<1>4. Typed
  <2>1. <<0, 0, 0>> \in [1 .. 3 -> Nat] /\ event.key = -1
    BY <1>2 DEF NoEvent
  <2>2. entries \in [Entries -> EntryType]
    BY <1>2, <1>3
  <2>3. /\ since \in [Entries -> 0 .. SinceCap] /\ held \in [Entries -> 0 .. SinceCap]
        /\ given \in [Entries -> [1 .. 3 -> Nat]] /\ now_ms \in Times
    BY <1>1, <1>2, <2>1 DEF Times
  <2> QED
    BY <1>2, <1>3, <2>1, <2>2, <2>3 DEF Typed
<1>5. ASSUME NEW i \in Entries PROVE KeyInv(i)
  <2>1. event # LongCommand(i)
    BY <1>2, Numbers DEF NoEvent, LongCommand, Event
  <2>2. Unseen(i) /\ Press(i) /\ Given(i)
    <3>1. /\ ~entries[i].last /\ ~finger[i] /\ entries[i].press_start = entries[i].last_change
          /\ entries[i].last_change = 0 /\ given[i] = <<0, 0, 0>>
      BY <1>2, <1>3
    <3>2. entries[i].last = finger[i]
      BY <1>2, <1>3 DEF EntryType
    <3> QED
      BY <3>1, <3>2 DEF Unseen, Press, Given
  <2>3. Pace(i)
    <3>1. MayHaveGiven(0) \in Nat
      BY MayGive
    <3> QED
      BY <1>2, <1>3, <3>1 DEF Pace
  <2> QED
    BY <2>1, <2>2, <2>3 DEF KeyInv
<1> QED
  BY <1>4, <1>5 DEF IInv

LEMMA StepInv == PressInputsOK /\ IInv /\ [Next]_vars => IInv'
<1> SUFFICES ASSUME PressInputsOK, IInv, [Next]_vars PROVE IInv'
  OBVIOUS
<1>1. CASE Poll
  <2>1. Typed /\ \A k \in Entries : KeyInv(k)
    BY DEF IInv
  <2>2. PICK dt \in TickSteps : Passed(dt)
    BY <1>1, <2>1, PollIs
  <2>3. ASSUME NEW i \in Entries PROVE KeyInv(i)'
    <3>1. Unseen(i)'
      BY <2>1, <2>2, PollUnseen
    <3>2. i \in LongKeys => Press(i)' /\ Given(i)' /\ (event' = LongCommand(i) => held'[i] >= HoldMs(i))
      BY <2>1, <2>2, PollLong
    <3>3. i \notin LongKeys => Pace(i)'
      BY <2>1, <2>2, PollPace
    <3> QED
      BY <3>1, <3>2, <3>3 DEF KeyInv
  <2> QED
    BY <2>1, <2>2, <2>3, PollTyped DEF IInv
<1>2. CASE MoveFinger
  BY <1>2, MoveFingerInv
<1>3. CASE UNCHANGED vars
  <2>1. Typed'
    BY <1>3 DEF vars, IInv, Typed
  <2>2. ASSUME NEW i \in Entries PROVE KeyInv(i)'
    <3>1. Begin(i)' = Begin(i) /\ Ready(i)' = Ready(i) /\ (Kept(i, Ready(i))' <=> Kept(i, Ready(i)))
      BY <1>3 DEF vars, Kept, Ahead, Ready, Begin, Blocked, BlockedStepping, BlockedHolding, DueFrom
    <3>2. Unseen(i)'
      BY <1>3, <3>1 DEF vars, IInv, KeyInv, Unseen
    <3>3. i \in LongKeys => Press(i)' /\ Given(i)' /\ (event' = LongCommand(i) => held'[i] >= HoldMs(i))
      BY <1>3, <3>1 DEF vars, IInv, KeyInv, Press, Given
    <3>4. i \notin LongKeys => Pace(i)'
      BY <1>3 DEF vars, IInv, KeyInv, Pace, DueFrom
    <3> QED
      BY <3>2, <3>3, <3>4 DEF KeyInv
  <2> QED
    BY <2>1, <2>2 DEF IInv
<1> QED
  BY <1>1, <1>2, <1>3 DEF Next

-----------------------------------------------------------------------------
(* A hold is answered.  The press is seen a round of polls after it is     *)
(* debounced, and the polls that miss its due time are counted as those    *)
(* that miss a move.                                                       *)

\* The last poll that is too early for the long press.
DueBy(i) == entries[i].press_start + HoldMs(i) - 1

Answer(i) ==
  finger[i] /\ entries[i].last =>
    /\ entries[i].fired => given[i][3] >= 1
    /\ ~entries[i].fired => Kept(i, DueBy(i))
    /\ since[i] < SinceCap => entries[i].press_start <= Begin(i) + DebounceMs - 1 + Round

AInv == IInv /\ \A i \in LongKeys \cap Entries : Answer(i)

LEMMA KeptDue ==
  ASSUME NEW i \in Entries, NEW mark, Kept(i, mark)', DueBy(i)' = mark
  PROVE  Kept(i, DueBy(i))'
BY DEF Kept, Ahead, Blocked, BlockedStepping, BlockedHolding, DueFrom

\* A long press that is due is given.
LEMMA DueEmits ==
  ASSUME PressInputsOK, Typed, NEW i \in Entries, i \in LongKeys, NEW t \in Times, now_ms <= t,
         Polled(i, t), finger[i], entries[i].last, ~entries[i].fired, t > DueBy(i)
  PROVE  event'.key = i
<1> DEFINE e == entries[i]
           r == Scanned(i, t)
<1>1. /\ e \in EntryType /\ e.press_start \in Nat /\ e.press_start <= now_ms /\ now_ms \in Nat
      /\ finger[i] \in BOOLEAN /\ HoldMs(i) \in Nat /\ t \in Nat
  BY TypedKey, Numbers DEF Times
<1>2. LongDueAt(i, e, finger[i], t)
  <2>1. Elapsed(t, e.press_start) = t - e.press_start
    BY <1>1, ClockIs
  <2>2. t - e.press_start >= HoldMs(i)
    BY <1>1 DEF DueBy
  <2> QED
    BY <2>1, <2>2 DEF LongDueAt, Started
<1>3. r.event = LongCommand(i)
  <2>1. Holding(i, e, finger[i], t, r, Started(e, finger[i], t), LongDueAt(i, e, finger[i], t))
    BY <1>1, ScanHolding DEF Scanned
  <2> HIDE DEF r, e
  <2> QED
    BY <1>2, <2>1 DEF Holding
<1>4. LongCommand(i).key = i /\ LongCommand(i) # NoEvent
  BY DEF LongCommand, Event, NoEvent
<1> QED
  BY <1>3, <1>4 DEF Polled

LEMMA PollAnswer ==
  ASSUME PressInputsOK, Typed, \A k \in Entries : KeyInv(k), NEW i \in Entries, i \in LongKeys,
         Answer(i), NEW dt \in TickSteps, Passed(dt)
  PROVE  Answer(i)'
<1> DEFINE t == now_ms'
           e == entries[i]
           f == entries'[i]
           h == given'[i]
<1> SUFFICES ASSUME finger[i], f.last
             PROVE  /\ f.fired => h[3] >= 1
                    /\ ~f.fired => Kept(i, DueBy(i))'
                    /\ since'[i] < SinceCap => f.press_start <= Begin(i)' + DebounceMs - 1 + Round
  <2>1. finger'[i] = finger[i]
    BY PassedTimes
  <2> QED
    BY <2>1 DEF Answer
<1>1. /\ e.last \in BOOLEAN /\ e.fired \in BOOLEAN /\ e.press_start \in Nat
      /\ now_ms \in Nat /\ since[i] \in Nat /\ dt \in Nat /\ dt <= MaxStep /\ MaxStep \in Nat
      /\ t = now_ms + dt /\ t \in Times /\ t \in Nat /\ given[i][3] \in Nat
  BY TypedKey, PassedTimes
<1>2. /\ HoldMs(i) \in Nat \ {0} /\ DebounceMs \in Nat /\ SinceCap \in Nat /\ SinceCap >= 1
      /\ Round \in Nat /\ now_ms <= t
  <2>1. HoldMs(i) <= SinceCap
    BY Numbers
  <2> QED
    BY <1>1, <2>1, Numbers, RoundIs
<1>3. since'[i] < SinceCap => since[i] < SinceCap /\ Begin(i)' = Begin(i)
  <2>1. since'[i] \in 0 .. SinceCap /\ since[i] <= since'[i]
        /\ (since'[i] = SinceCap \/ since'[i] = since[i] + dt)
        /\ (since[i] + dt <= SinceCap => Begin(i)' = Begin(i))
    BY PassedTimes
  <2>2. since'[i] < SinceCap => since[i] < SinceCap /\ since[i] + dt <= SinceCap
    BY <1>1, <1>2, <2>1
  <2> QED
    BY <2>1, <2>2
<1>4. /\ event'.key # i => h = given[i]
      /\ event' = LongCommand(i) => h[3] >= 1
  <2>1. i \in Keys /\ given[i] \in [1 .. 3 -> Nat] /\ h = Counted(i, given[i], event')
    BY Numbers DEF Typed, Passed, Keys
  <2>2. CountsAs(i, given[i], event', h)
    BY <2>1, CountedIs
  <2> HIDE DEF h
  <2> QED
    BY <1>1, <1>2, <2>2 DEF CountsAs
<1>5. \/ Holds(i) \/ SeesPress(i, t)
      \/ StaysHolding(i, t) /\ Polled(i, t)
      \/ Skipped(i, t) /\ Stays(i) /\ event'.key # i
  <2>1. Polled(i, t) \/ (Skipped(i, t) /\ Stays(i) /\ event'.key # i)
    BY <1>1 DEF Passed, Skipped, Stays, Becomes
  <2> QED
    BY <2>1, PolledHolding DEF KeyInv, Taps, SeesRelease
<1>6. CASE Holds(i)
  <2>1. f.fired /\ f.press_start = e.press_start /\ e.last /\ h[3] >= 1
    BY <1>4, <1>6 DEF Holds, Becomes
  <2> QED
    BY <1>3, <2>1 DEF Answer
<1>7. CASE SeesPress(i, t)
  <2>1. f.press_start = t /\ ~f.fired /\ e.last # finger[i]
    BY <1>1, <1>7 DEF SeesPress, Becomes
  <2>2. DueBy(i)' = t + HoldMs(i) - 1
    BY <2>1 DEF DueBy
  <2>3. PICK mark \in Int : mark = t + HoldMs(i) - 1
    BY <1>1, <1>2
  <2>4. t <= mark
    BY <1>1, <1>2, <2>3
  <2>5. Kept(i, DueBy(i))'
    BY <1>1, <2>2, <2>3, <2>4, AheadKept, KeptDue
  <2>6. since'[i] < SinceCap => t <= Begin(i)' + DebounceMs - 1 + Round
    <3>1. /\ Ready(i) \in Int /\ Ready(i) <= Begin(i) + DebounceMs - 1 /\ Begin(i) \in Int
          /\ now_ms + MaxStep <= Ready(i) + Round
      BY <2>1, UnseenBounds, TypedKey DEF KeyInv
    <3>2. t <= Begin(i) + DebounceMs - 1 + Round
      BY <1>1, <1>2, <3>1
    <3> QED
      BY <1>3, <3>2
  <2> QED
    BY <2>1, <2>5, <2>6
<1>8. CASE (StaysHolding(i, t) /\ Polled(i, t)) \/ (Skipped(i, t) /\ Stays(i) /\ event'.key # i)
  <2>1. /\ e.last /\ f.press_start = e.press_start /\ f.fired = e.fired
        /\ h = given[i] /\ event'.key # i
    BY <1>4, <1>8 DEF StaysHolding, Stays, Becomes
  <2>2. DueBy(i)' = DueBy(i) /\ DueBy(i) \in Int
    BY <1>1, <1>2, <2>1 DEF DueBy
  <2>3. ASSUME ~e.fired PROVE Kept(i, DueBy(i))'
    <3>1. PICK mark \in Int : mark = DueBy(i)
      BY <2>2
    <3>2. Kept(i, mark)
      BY <2>1, <2>3, <3>1 DEF Answer
    <3>3. Kept(i, mark)'
      <4>1. CASE t <= mark
        BY <1>1, <4>1, AheadKept
      <4>2. CASE t > mark
        <5>1. Skipped(i, t)
          BY <1>1, <1>2, <1>8, <2>1, <2>3, <3>1, <4>2, DueEmits
        <5> QED
          BY <3>2, <5>1, SkippedKept
      <4> QED
        BY <1>1, <4>1, <4>2
    <3> QED
      BY <2>2, <3>1, <3>3, KeptDue
  <2> QED
    BY <1>3, <2>1, <2>3 DEF Answer
<1> QED
  BY <1>5, <1>6, <1>7, <1>8

LEMMA AnswerStep == PressInputsOK /\ AInv /\ [Next]_vars => AInv'
<1> SUFFICES ASSUME PressInputsOK, AInv, [Next]_vars PROVE AInv'
  OBVIOUS
<1>1. IInv /\ IInv' /\ Typed /\ \A k \in Entries : KeyInv(k)
  BY StepInv DEF AInv, IInv
<1> SUFFICES ASSUME NEW i \in Entries, i \in LongKeys PROVE Answer(i)'
  BY <1>1 DEF AInv
<1>2. Answer(i)
  BY DEF AInv
<1>3. CASE Poll
  BY <1>1, <1>2, <1>3, PollIs, PollAnswer
<1>4. CASE MoveFinger
  <2>1. PICK j \in Entries : Moved(j)
    BY <1>1, <1>4, MoveIs
  <2>2. CASE i = j
    <3>1. finger[i] \in BOOLEAN
      BY <1>1, TypedKey
    <3>2. ~(finger'[i] /\ entries'[i].last)
      BY <2>1, <2>2, <3>1 DEF Moved
    <3> QED
      BY <3>2 DEF Answer
  <2>3. CASE i # j
    <3>1. /\ finger'[i] = finger[i] /\ since'[i] = since[i] /\ given'[i] = given[i]
          /\ entries' = entries /\ now_ms' = now_ms
      BY <2>1, <2>3 DEF Moved
    <3>2. Begin(i)' = Begin(i) /\ DueBy(i)' = DueBy(i)
      BY <3>1 DEF Begin, DueBy
    <3>3. ASSUME Kept(i, DueBy(i)) PROVE Kept(i, DueBy(i))'
      <4>1. DueBy(i) \in Int
        BY <1>1, TypedKey, Numbers DEF DueBy
      <4>2. PICK mark \in Int : mark = DueBy(i)
        BY <4>1
      <4>3. Kept(i, mark)'
        BY <1>1, <2>1, <3>3, <4>2, MoveKept
      <4> QED
        BY <3>2, <4>2, <4>3, KeptDue
    <3> QED
      BY <1>2, <3>1, <3>2, <3>3 DEF Answer
  <2> QED
    BY <2>2, <2>3
<1>5. CASE UNCHANGED vars
  <2>1. Begin(i)' = Begin(i) /\ (Kept(i, DueBy(i))' <=> Kept(i, DueBy(i)))
    BY <1>5 DEF vars, Kept, Ahead, DueBy, Begin, Blocked, BlockedStepping, BlockedHolding, DueFrom
  <2> QED
    BY <1>2, <1>5, <2>1 DEF vars, Answer
<1> QED
  BY <1>3, <1>4, <1>5 DEF Next

LEMMA AnswerInit == PressInputsOK /\ Init => AInv
<1> SUFFICES ASSUME PressInputsOK, Init PROVE \A i \in LongKeys \cap Entries : Answer(i)
  BY InitInv DEF AInv
<1>1. \A i \in Entries : ~finger[i]
  BY DEF Init, PressInputsOK
<1> QED
  BY <1>1 DEF Answer

LEMMA AInvAnswered == PressInputsOK /\ AInv => HoldIsAnswered
<1> SUFFICES ASSUME PressInputsOK, AInv, NEW i \in LongKeys \cap Entries,
                    finger[i], since[i] + MaxStep >= HoldMs(i) + DebounceMs + 2 * Round,
                    since[i] < SinceCap
             PROVE  given[i][3] >= 1
  BY DEF HoldIsAnswered
<1>1. Typed /\ Unseen(i) /\ Answer(i)
  BY DEF AInv, IInv, KeyInv
<1>2. /\ now_ms \in Nat /\ since[i] \in Nat /\ Begin(i) = now_ms - since[i] /\ Begin(i) \in Int
      /\ entries[i].last \in BOOLEAN /\ entries[i].press_start \in Nat
      /\ HoldMs(i) \in Nat \ {0} /\ MinGap <= HoldMs(i) /\ MinGap \in Nat /\ DebounceMs \in Nat \ {0}
      /\ MaxStep \in Nat /\ Round \in Nat
  BY <1>1, TypedKey, Numbers, Steps, RoundIs DEF Begin
<1>3. entries[i].last
  <2>1. ~entries[i].last => since[i] + MaxStep < MinGap
    BY <1>1, <1>2, UnseenBounds
  <2> QED
    BY <1>2, <2>1
<1>4. CASE ~entries[i].fired
  <2>1. Kept(i, DueBy(i)) /\ entries[i].press_start <= Begin(i) + DebounceMs - 1 + Round
    BY <1>1, <1>3, <1>4 DEF Answer
  <2>2. DueBy(i) \in Int /\ DueBy(i) = entries[i].press_start + HoldMs(i) - 1
    BY <1>2 DEF DueBy
  <2>3. now_ms + MaxStep <= DueBy(i) + Round
    BY <1>2, <2>1, <2>2, KeptBound
  <2> QED
    BY <1>2, <2>1, <2>2, <2>3
<1> QED
  BY <1>1, <1>3, <1>4 DEF Answer

-----------------------------------------------------------------------------

LEMMA InvPresses ==
  PressInputsOK /\ IInv => TypeOK /\ LongPressIsHeld /\ OneMeaningPerPress /\ RepeatIsPaced
<1> SUFFICES ASSUME PressInputsOK, IInv
             PROVE  TypeOK /\ LongPressIsHeld /\ OneMeaningPerPress /\ RepeatIsPaced
  OBVIOUS
<1>1. Typed /\ \A i \in Entries : KeyInv(i)
  BY DEF IInv
<1>2. ASSUME NEW i \in Entries
      PROVE  /\ entries[i].idle \in BOOLEAN /\ entries[i].last \in BOOLEAN
             /\ entries[i].fired \in BOOLEAN
             /\ {entries[i].last_change, entries[i].press_start, entries[i].next_repeat} \subseteq Times
  <2>1. /\ entries[i] \in EntryType /\ entries[i].last_change <= now_ms /\ entries[i].press_start <= now_ms
        /\ now_ms \in Times /\ entries[i].last_change \in Nat /\ entries[i].press_start \in Nat
    BY <1>1, TypedKey DEF Typed
  <2>2. entries[i].last_change \in Times /\ entries[i].press_start \in Times
    BY <2>1, Numbers DEF Times
  <2> QED
    BY <2>1, <2>2 DEF EntryType
<1>3. TypeOK
  BY <1>1, <1>2 DEF TypeOK, Typed
<1>4. LongPressIsHeld
  <2> SUFFICES ASSUME NEW i \in LongKeys \cap Entries, event = LongCommand(i)
               PROVE  held[i] + Bounce >= HoldMs(i)
    BY DEF LongPressIsHeld
  <2>1. held[i] >= HoldMs(i) /\ held[i] \in Nat /\ Bounce = 0
    BY <1>1, TypedKey DEF KeyInv, PressInputsOK
  <2> QED
    BY <2>1
<1>5. OneMeaningPerPress
  BY <1>1 DEF KeyInv, Given, OneMeaningPerPress
<1>6. RepeatIsPaced
  BY <1>1 DEF KeyInv, Pace, MayHaveGiven, RepeatIsPaced
<1> QED
  BY <1>3, <1>4, <1>5, <1>6

\* With clean contacts, whichever keys are pressed together and however long the passes
\* of the loop are: a long-press command is only given to a press that lasted for the
\* hold, and is given to every one that does; a press gives one command, a tap or a long
\* one; and the steps of a held key keep to the delay and the interval.
THEOREM PressesKeepTheirMeaning ==
  ASSUME PressInputsOK
  PROVE  Spec => [](TypeOK /\ LongPressIsHeld /\ OneMeaningPerPress /\ RepeatIsPaced /\ HoldIsAnswered)
<1>1. Init => AInv
  BY AnswerInit
<1>2. AInv /\ [Next]_vars => AInv'
  BY AnswerStep
<1>3. AInv => TypeOK /\ LongPressIsHeld /\ OneMeaningPerPress /\ RepeatIsPaced /\ HoldIsAnswered
  BY InvPresses, AInvAnswered DEF AInv
<1> QED
  BY <1>1, <1>2, <1>3, PTL DEF Spec
=============================================================================
