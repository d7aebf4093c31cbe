---------------------------- MODULE ButtonDriver ----------------------------
(***************************************************************************)
(* ButtonDriver::poll for the four keys: 0 up, 1 down, 2 AirQ (D3) and     *)
(* 3 power (D4).  The driver samples each pin once per tick, debounces on  *)
(* the leading edge, repeats up and down while they are held, and turns a  *)
(* hold of AirQ or power into one long-press command.  The fingers and the *)
(* contacts are the environment: a finger moves between two polls, and for *)
(* Bounce milliseconds after it moved a sample may read either level.      *)
(***************************************************************************)
EXTENDS Integers, FiniteSetsExt

CONSTANTS
  Entries,         \* the keys somebody touches, a subset of 0..3
  HeldAtBoot,      \* the keys that may be down while init() runs
  DebounceMs,      \* kDebounceMs (40)
  MiddleLongMs,    \* kMiddleLongPressMs (3000)
  PowerLongMs,     \* kPowerResetLongPressMs (8000)
  RepeatDelayMs,   \* kRepeatDelayMs (500)
  RepeatMs,        \* kRepeatIntervalMs (150)
  TickSteps,       \* how long one pass of the loop may take
  Bounce,          \* how long the contacts bounce after a finger moved
  MinGap,          \* the shortest time between two moves of a finger
  ClockRange,      \* millis() is uint32_t: 2^32
  Wrap             \* TRUE: keep polling when millis() wraps

Keys == 0 .. 3
LongKeys == {2, 3}

ButtonInputsOK ==
  /\ Entries \subseteq Keys /\ HeldAtBoot \subseteq Entries
  /\ {DebounceMs, MiddleLongMs, PowerLongMs, RepeatDelayMs, RepeatMs, ClockRange} \subseteq Nat \ {0}
  /\ TickSteps \subseteq Nat \ {0} /\ Bounce \in Nat /\ MinGap \in Nat
  /\ 2 * PowerLongMs < ClockRange /\ 2 * MiddleLongMs < ClockRange /\ 2 * RepeatDelayMs < ClockRange
  /\ Wrap \in BOOLEAN

VARIABLES
  now_ms,    \* millis() at the last poll
  entries,   \* entries_: what the driver keeps per key
  event,     \* what the last poll returned
  finger,    \* TRUE while a finger is on the key
  since,     \* time since the finger last moved, up to SinceCap
  held,      \* history: how long the current or the last press has lasted
  given      \* history: the commands given since the finger went down

vars == <<now_ms, entries, event, finger, since, held, given>>

NoEvent == [type |-> "none", key |-> -1]
Event(type, i) == [type |-> type, key |-> i]

HoldMs(i) == IF i = 2 THEN MiddleLongMs ELSE PowerLongMs
LongCommand(i) == Event(IF i = 2 THEN "ToggleWifi" ELSE "ResetWifiSettings", i)
TapCommand(i) == Event(IF i = 2 THEN "ToggleLights" ELSE "TogglePower", i)
StepCommand(i) == Event("AdjustFanPercent", i)

\* Differences of uint32_t times, and the signed comparison of two of them.
\* LaterUnwrapped is a mutant: a clock that does not wrap.
LaterUnwrapped(t, d) == t + d
Later(t, d) == (t + d) % ClockRange
Elapsed(t, from) == (t - from) % ClockRange
Reached(t, mark) == 2 * Elapsed(t, mark) < ClockRange

\* Nothing is distinguished beyond this age of a finger's last move.
SinceCap == PowerLongMs + MiddleLongMs + 2 * RepeatDelayMs

\* init(): whatever level the pin has then is taken for the idle level.
InitEntry(level) ==
  [idle |-> level, last |-> level, last_change |-> 0, press_start |-> 0,
   next_repeat |-> 0, fired |-> FALSE]

Init ==
  /\ now_ms = 0
  /\ finger \in {f \in [Entries -> BOOLEAN] : \A i \in Entries : f[i] => i \in HeldAtBoot}
  /\ entries = [i \in Entries |-> InitEntry(finger[i])]
  /\ event = NoEvent
  /\ since = [i \in Entries |-> SinceCap]
  /\ held = [i \in Entries |-> 0]
  /\ given = [i \in Entries |-> <<0, 0, 0>>]

-----------------------------------------------------------------------------
(* One key of one poll: what the loop body does with entry e of key i when  *)
(* the pin reads level at time t.                                           *)

Quiet(e) == [entry |-> e, event |-> NoEvent]
Emit(e, command) == [entry |-> e, event |-> command]

Debounced(e) == e.last # e.idle

\* Mutants: the timer is only set by the debounced edge; it is set by every sample.
PressNotStarted(i, e, pressed, t) == e
PressRestarted(i, e, pressed, t) ==
  IF i \in LongKeys /\ pressed THEN [e EXCEPT !.press_start = t] ELSE e

\* The long-press timer starts on the first pressed sample.
PressStarted(i, e, pressed, t) ==
  IF i \in LongKeys /\ pressed /\ ~Debounced(e) /\ e.press_start <= e.last_change
    THEN [e EXCEPT !.press_start = t] ELSE e

\* Mutant: the command is given again while the key stays down.
LongDueAgain(i, e, pressed, t) ==
  i \in LongKeys /\ pressed /\ Elapsed(t, e.press_start) >= HoldMs(i)

LongDue(i, e, pressed, t) ==
  i \in LongKeys /\ pressed /\ ~e.fired /\ Elapsed(t, e.press_start) >= HoldMs(i)

\* Mutant: every poll repeats.
RepeatEveryPoll(i, e, pressed, t) == i \notin LongKeys /\ pressed /\ Debounced(e)

RepeatDue(i, e, pressed, t) ==
  i \notin LongKeys /\ pressed /\ Debounced(e) /\ Reached(t, e.next_repeat)

Scan(i, e, level, t) ==
  LET pressed == level # e.idle
      s == PressStarted(i, e, pressed, t)
      long_due == LongDue(i, s, pressed, t)
      repeat_due == RepeatDue(i, e, pressed, t)
      edge == level # e.last /\ Elapsed(t, e.last_change) >= DebounceMs
      changed == [s EXCEPT !.last_change = t, !.last = level]
  IN  CASE long_due -> Emit([s EXCEPT !.fired = TRUE], LongCommand(i))
        [] repeat_due -> Emit([e EXCEPT !.next_repeat = Later(t, RepeatMs)], StepCommand(i))
        [] ~long_due /\ ~repeat_due /\ ~edge -> Quiet(s)
        [] ~long_due /\ ~repeat_due /\ edge /\ i \in LongKeys ->
             IF pressed THEN Quiet([changed EXCEPT !.press_start = t, !.fired = FALSE])
             ELSE IF s.fired THEN Quiet(changed)
             ELSE Emit(changed, TapCommand(i))
        [] ~long_due /\ ~repeat_due /\ edge /\ i \notin LongKeys ->
             IF pressed THEN Emit([changed EXCEPT !.next_repeat = Later(t, RepeatDelayMs)],
                                  StepCommand(i))
             ELSE Quiet(changed)

\* A poll returns at the first key that has a command; the keys after it are
\* not even sampled in this tick.
PollAt(t, level) ==
  LET scan == [i \in Entries |-> Scan(i, entries[i], level[i], t)]
      emitting == {i \in Entries : scan[i].event # NoEvent}
      reached == {i \in Entries : \A k \in emitting : i <= k}
  IN  /\ entries' = [i \in Entries |-> IF i \in reached THEN scan[i].entry ELSE entries[i]]
      /\ event' = IF emitting = {} THEN NoEvent ELSE scan[Min(emitting)].event

\* given[i] counts steps, taps and long presses, each up to a cap.
Counted(i, g, e) ==
  IF e.key # i THEN g
  ELSE [k \in 1 .. 3 |-> IF e = <<StepCommand(i), TapCommand(i), LongCommand(i)>>[k]
                            /\ g[k] < SinceCap
                           THEN g[k] + 1 ELSE g[k]]

Aged(age, dt) == IF age + dt > SinceCap THEN SinceCap ELSE age + dt

Poll ==
  \E dt \in TickSteps :
    /\ Wrap \/ now_ms + dt < ClockRange
    /\ now_ms' = Later(now_ms, dt)
    /\ since' = [i \in Entries |-> Aged(since[i], dt)]
    /\ held' = [i \in Entries |-> IF finger[i] THEN Aged(held[i], dt) ELSE held[i]]
    /\ \E level \in [Entries -> BOOLEAN] :
         /\ \A i \in Entries : since'[i] >= Bounce => level[i] = finger[i]
         /\ PollAt(now_ms', level)
    /\ given' = [i \in Entries |-> Counted(i, given[i], event')]
    /\ UNCHANGED finger

\* A finger goes down or up.
MoveFinger ==
  \E i \in Entries :
    /\ since[i] >= MinGap
    /\ finger' = [finger EXCEPT ![i] = ~@]
    /\ since' = [since EXCEPT ![i] = 0]
    /\ given' = IF finger[i] THEN given ELSE [given EXCEPT ![i] = <<0, 0, 0>>]
    /\ held' = IF finger[i] THEN held ELSE [held EXCEPT ![i] = 0]
    /\ event' = NoEvent
    /\ UNCHANGED <<now_ms, entries>>

Next == Poll \/ MoveFinger

Spec == Init /\ [][Next]_vars

-----------------------------------------------------------------------------
(* Properties.                                                             *)

MaxStep == Max(TickSteps)

\* As many polls as there are keys: each of the others may end one poll with a command
\* before a key's turn comes.
Round == Cardinality(Entries) * MaxStep

\* Presses the driver can tell apart: a round of polls is shorter than the repeats, and
\* a finger rests for longer than the debouncing and a round take together.
PressesOK ==
  /\ \E m \in TickSteps : \A dt \in TickSteps : m >= dt
  /\ Round <= RepeatMs /\ Round <= RepeatDelayMs /\ 2 * RepeatMs < ClockRange
  /\ DebounceMs + Round <= MinGap /\ MinGap <= SinceCap
  /\ \A i \in LongKeys \cap Entries : MinGap <= HoldMs(i)

Times == 0 .. ClockRange - 1

\* Every stored time is a value of millis(); a command names the key it is for.
TypeOK ==
  /\ now_ms \in Times
  /\ \A i \in Entries :
       /\ entries[i].idle \in BOOLEAN /\ entries[i].last \in BOOLEAN
       /\ entries[i].fired \in BOOLEAN
       /\ {entries[i].last_change, entries[i].press_start, entries[i].next_repeat} \subseteq Times
  /\ event.key \in Entries \cup {-1}
  /\ finger \in [Entries -> BOOLEAN]
  /\ since \in [Entries -> 0 .. SinceCap]
  /\ held \in [Entries -> 0 .. SinceCap]

\* README.md:184-186: AirQ toggles Wi-Fi after a hold of 3 s, power wipes Wi-Fi
\* after one of 8 s.  A long-press command is only given to a press that lasted
\* for the hold, less the bounce of the release.
LongPressIsHeld ==
  \A i \in LongKeys \cap Entries :
    event = LongCommand(i) => held[i] + Bounce >= HoldMs(i)

\* One press means one thing: a press that gave the long-press command gives no
\* tap on release, and neither is given twice.
OneMeaningPerPress ==
  \A i \in LongKeys \cap Entries : given[i][2] + given[i][3] <= 1

\* CHANGELOG.md:42-44: the first step at once, the second not before the repeat
\* delay, then at most one per interval, however the polls fall.
RepeatIsPaced ==
  \A i \in Entries \ LongKeys :
    held[i] < SinceCap =>
      given[i][1] <= IF held[i] < RepeatDelayMs THEN 1
                     ELSE 2 + (held[i] - RepeatDelayMs) \div RepeatMs

\* A hold is answered, even while other keys repeat and take polls for themselves: one
\* round of polls sees the press, and another one notices that its time has come.
HoldIsAnswered ==
  \A i \in LongKeys \cap Entries :
    finger[i] /\ since[i] + MaxStep >= HoldMs(i) + DebounceMs + 2 * Round /\ since[i] < SinceCap
      => given[i][3] >= 1
=============================================================================
