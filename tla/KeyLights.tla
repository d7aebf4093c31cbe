----------------------------- MODULE KeyLights -----------------------------
(***************************************************************************)
(* KeyLightDriver under its two threads.  Every millisecond the software   *)
(* timer runs tick(), one slot of a four-slot PWM frame; the application   *)
(* loop ends each pass with the three setters.  The members are volatile   *)
(* and narrow, so each access is whole, but there is no lock: a tick may   *)
(* fall between two setters, and a setter between two reads of a tick.     *)
(***************************************************************************)
EXTENDS Integers, Sequences, FiniteSets

CONSTANTS
  Patterns,      \* ring patterns that are asked for (0 is all off)
  Levels,        \* ring_brightness values, of 0..4
  Blinks,        \* ring_blink_ms values; 0 is solid
  Slots,         \* slots of a PWM frame (4)
  MaxLate,       \* how many milliseconds the timer may come late
  ClockRange     \* millis() is uint32_t: 2^32

KeyLightInputsOK ==
  /\ Patterns \subseteq Nat /\ 0 \in Patterns /\ Levels \subseteq Nat /\ Blinks \subseteq Nat
  /\ Slots \in Nat \ {0} /\ MaxLate \in Nat /\ ClockRange \in Nat \ {0}

VARIABLES
  ms,                                \* millis()
  asked,                             \* DeviceState's ring_* fields
  pattern_, brightness_, blink_ms_,  \* the driver's members, shared
  phase_, last_written_,             \* the timer thread's own
  setter,                            \* the application thread's next setter
  tick,                              \* the timer thread: [pc, blink, visible]
  recent,                            \* history: the slots since a setter or the blink
                                     \* changed anything, as lit or not, up to a frame
  torn                               \* history: a setter changed a member under this tick

vars == <<ms, asked, pattern_, brightness_, blink_ms_, phase_, last_written_, setter, tick, recent, torn>>
members == <<pattern_, brightness_, blink_ms_>>

Settings == [pattern : Patterns, level : Levels, blink : Blinks]
Sleeping == [pc |-> "sleeps", blink |-> 0, visible |-> TRUE]

\* init() has cleared the register before the timer starts; the members are those
\* of the constructor and initDeviceState asks for the same.
Init ==
  /\ ms = 0
  /\ asked = [pattern |-> 0, level |-> Slots, blink |-> 0]
  /\ pattern_ = 0 /\ brightness_ = Slots /\ blink_ms_ = 0
  /\ phase_ = 0 /\ last_written_ = 0
  /\ setter = "pattern" /\ tick = Sleeping
  /\ recent = <<>> /\ torn = FALSE

-----------------------------------------------------------------------------
(* The application loop.                                                   *)

\* SetRing, SetRingBrightness and SetRingBlink, applied before applyOutputs.
ApplyCommand ==
  /\ setter = "pattern"
  /\ asked' \in Settings
  /\ UNCHANGED <<ms, members, phase_, last_written_, setter, tick, recent, torn>>

\* A changed member begins a new frame to look at, after the tick it fell into.
Broken(changed) ==
  /\ recent' = IF changed THEN <<>> ELSE recent
  /\ torn' = (torn \/ (changed /\ tick.pc # "sleeps"))

SetPattern ==
  /\ setter = "pattern" /\ setter' = "brightness"
  /\ pattern_' = asked.pattern /\ Broken(pattern_' # pattern_)
  /\ UNCHANGED <<ms, asked, brightness_, blink_ms_, phase_, last_written_, tick>>

Clamped(level) == IF level > Slots THEN Slots ELSE level

SetBrightness ==
  /\ setter = "brightness" /\ setter' = "blink"
  /\ brightness_' = Clamped(asked.level) /\ Broken(brightness_' # brightness_)
  /\ UNCHANGED <<ms, asked, pattern_, blink_ms_, phase_, last_written_, tick>>

SetBlinkMs ==
  /\ setter = "blink" /\ setter' = "pattern"
  /\ blink_ms_' = asked.blink /\ Broken(blink_ms_' # blink_ms_)
  /\ UNCHANGED <<ms, asked, pattern_, brightness_, phase_, last_written_, tick>>

-----------------------------------------------------------------------------
(* The timer thread.                                                       *)

\* The timer fires and tick copies the blink period.
TickBegins ==
  /\ tick.pc = "sleeps"
  /\ \E late \in 0 .. MaxLate : ms' = (ms + 1 + late) % ClockRange
  /\ tick' = [pc |-> IF blink_ms_ # 0 THEN "divides" ELSE "decides", blink |-> blink_ms_, visible |-> TRUE]
  /\ UNCHANGED <<asked, members, phase_, last_written_, setter, recent, torn>>

\* Mutant: the member is read again.
DivisorRead == blink_ms_
Divisor == tick.blink

Visible == (ms \div Divisor) % 2 = 0

TickDivides ==
  /\ tick.pc = "divides" /\ Divisor # 0
  /\ tick' = [tick EXCEPT !.pc = "decides", !.visible = Visible]
  /\ UNCHANGED <<ms, asked, members, phase_, last_written_, setter, recent, torn>>

\* Mutant: a slot too many.
LitInclusive == tick.visible /\ brightness_ >= phase_
LitSlot == tick.visible /\ brightness_ > phase_

\* The slot is decided; a lit one still has to read the pattern.
TickDecides ==
  /\ tick.pc = "decides"
  /\ tick' = [tick EXCEPT !.pc = IF LitSlot THEN "lights" ELSE "darkens"]
  /\ UNCHANGED <<ms, asked, members, phase_, last_written_, setter, recent, torn>>

\* The history, latest slot first; it compares slots of one visibility only.
Recent(lit) ==
  LET same == \A j \in 1 .. Len(recent) : recent[j].visible = tick.visible
      next == <<[lit |-> lit, visible |-> tick.visible]>> \o (IF same THEN recent ELSE <<>>)
  IN  SubSeq(next, 1, IF Len(next) > Slots THEN Slots ELSE Len(next))

\* The register is written when the byte changes, which last_written_ records.
TickEnds ==
  /\ tick.pc \in {"lights", "darkens"}
  /\ last_written_' = IF tick.pc = "lights" THEN pattern_ ELSE 0
  /\ phase_' = (phase_ + 1) % Slots
  /\ recent' = (IF torn THEN <<>> ELSE Recent(tick.pc = "lights")) /\ torn' = FALSE
  /\ tick' = Sleeping
  /\ UNCHANGED <<ms, asked, members, setter>>

Loop == ApplyCommand \/ SetPattern \/ SetBrightness \/ SetBlinkMs
Timer == TickBegins \/ TickDivides \/ TickDecides \/ TickEnds
Next == Loop \/ Timer

Spec == Init /\ [][Next]_vars

-----------------------------------------------------------------------------
(* Properties.                                                             *)

\* Types of the state.  The register shows nothing but a pattern that was asked for,
\* and a tick never divides by 0, although the loop may set the period to 0 while the
\* tick is about to: "safe from the software-timer thread" (key_light_driver.h:26).
TypeOK ==
  /\ ms \in 0 .. ClockRange - 1 /\ asked \in [pattern : Patterns, level : Levels \cup {Slots}, blink : Blinks \cup {0}]
  /\ pattern_ \in Patterns /\ brightness_ \in 0 .. Slots /\ blink_ms_ \in Blinks \cup {0}
  /\ phase_ \in 0 .. Slots - 1 /\ last_written_ \in Patterns
  /\ setter \in {"pattern", "brightness", "blink"}
  /\ tick.pc \in {"sleeps", "divides", "decides", "lights", "darkens"}
  /\ tick.blink \in Blinks \cup {0} /\ tick.visible \in BOOLEAN
  /\ torn \in BOOLEAN
  /\ tick.pc = "divides" => Divisor # 0

\* "a 4-slot frame gives 5 duty levels" (key_light_driver.h:13): any four slots in a
\* row between which nothing changed are lit exactly as often as the level says,
\* wherever in the frame the level was set, and never while the blink is dark.
DutyIsLevel ==
  Len(recent) = Slots =>
    Cardinality({j \in 1 .. Slots : recent[j].lit}) = IF recent[1].visible THEN brightness_ ELSE 0
=============================================================================
