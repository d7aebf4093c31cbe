------------------------- MODULE OtaServer_proofs -------------------------
(***************************************************************************)
(* What the update listener guarantees for every window, limit and clock:  *)
(* the lock after three wrong answers, the agreement of the copies tickNetwork keeps     *)
(* with the listener, the durability of the denied count, and that the     *)
(* window and the handshake end in real time although the code computes    *)
(* with a clock that wraps.                                                *)
(***************************************************************************)
EXTENDS OtaServer, TLAPS

\* The lock: since boot no more wrong answers than the streak and what the right
\* answers in between allow (each ended a streak below the limit), and a locked listener
\* is closed, so nothing can raise the streak any further.
Lock ==
  /\ guesses <= fail_streak + uploads * (MaxDenied - 1)
  /\ Locked => ~listening

\* The copies: outside the gap between OtaServer::tick and the code after it, the
\* copy of the lock and the stored count are current.  The copy of the count is
\* not, from a boot to the first save; no answer can be judged in that time,
\* because the link is not up yet.
Copies ==
  /\ pc # "save" => (dev.ota_locked <=> Locked) /\ eeprom_denied = denied_count
  /\ dev.wifi_ready \/ pc = "ota" \/ (pc = "wifi" /\ dev.wifi_enabled)
       => dev.ota_denied_count = eeprom_denied
  /\ pc = "save" => dev.ota_denied_count = eeprom_denied \/ eeprom_denied = denied_count

IInv == TypeOK /\ Lock /\ Copies

LEMMA Limits ==
  /\ WindowMs \in Nat /\ HandshakeMs \in Nat /\ MaxDenied \in Nat /\ MaxDenied > 0
  /\ WindowMs > 0 /\ HandshakeMs > 0
  /\ ClockRange \in Nat /\ ClockRange > 0 /\ CountRange \in Nat /\ CountRange > 0
  /\ TickSteps \subseteq Nat /\ MaxOutage \in Nat /\ MaxUploads \in Nat /\ TimeCap \in Nat
BY LimitAssumption

LEMMA LaterType == ASSUME NEW t \in Nat, NEW d \in Nat PROVE Later(t, d) \in Times
BY Limits DEF Later, Times

LEMMA AgedType ==
  ASSUME NEW age \in 0 .. TimeCap, NEW d \in Nat PROVE Aged(age, d) \in 0 .. TimeCap
BY Limits DEF Aged

LEMMA BootType ==
  BootDevice \in [wifi_enabled : BOOLEAN, wifi_ready : BOOLEAN, ota_locked : BOOLEAN,
                  ota_denied_count : Counts]
BY Limits DEF BootDevice, Counts

\* Nothing has been guessed at boot.
LEMMA NothingExcused == 0 \in 0 .. MaxUploads /\ 0 <= 0 + 0 * (MaxDenied - 1)
BY Limits

LEMMA InitInv == Init => IInv
<1> SUFFICES ASSUME Init PROVE IInv
  OBVIOUS
<1>1. TypeOK
  <2>1. now_ms \in Times /\ window_until_ms \in Times /\ pending_since_ms \in Times
    BY Limits DEF Init, Times
  <2>2. denied_count \in Counts /\ eeprom_denied \in Counts /\ fail_streak \in 0 .. MaxDenied
    BY Limits DEF Init, Counts
  <2>3. armed_age \in 0 .. TimeCap /\ pending_age \in 0 .. TimeCap /\ untended \in 0 .. MaxOutage
    BY Limits DEF Init
  <2> QED
    BY <2>1, <2>2, <2>3, BootType, NothingExcused DEF Init, TypeOK
<1>2. ~Locked
  BY Limits DEF Init, Locked
<1>3. Lock /\ Copies
  BY <1>2, NothingExcused DEF Init, Lock, Copies, BootDevice
<1> QED
  BY <1>1, <1>3 DEF IInv

LEMMA ProcessInv == IInv /\ ProcessCommands => IInv'
<1> SUFFICES ASSUME IInv, ProcessCommands PROVE IInv'
  OBVIOUS
<1>1. now_ms \in Nat /\ WindowMs \in Nat
  BY Limits DEF IInv, TypeOK, Times
<1>2. Later(now_ms, WindowMs) \in Times
  BY <1>1, LaterType
<1>3. /\ window_until_ms' \in Times /\ listening' \in BOOLEAN /\ armed_age' \in 0 .. TimeCap
      /\ Locked => listening' = listening
  <2>1. CASE UNCHANGED <<window_until_ms, listening, armed_age>>
    BY <2>1 DEF IInv, TypeOK
  <2>2. CASE arm_queued /\ ~Locked
    <3>1. /\ window_until_ms' = Later(now_ms, WindowMs)
          /\ listening' \in {TRUE, listening}
          /\ armed_age' = IF listening' THEN 0 ELSE TimeCap
      BY <2>2 DEF ProcessCommands, Arm
    <3>2. listening \in BOOLEAN
      BY DEF IInv, TypeOK
    <3>3. listening' \in BOOLEAN
      BY <3>1, <3>2
    <3>4. armed_age' \in 0 .. TimeCap
      <4>1. armed_age' = 0 \/ armed_age' = TimeCap
        BY <3>1
      <4> QED
        BY <4>1, Limits
    <3> QED
      BY <1>2, <2>2, <3>1, <3>3, <3>4
  <2> QED
    BY <2>1, <2>2 DEF ProcessCommands, Arm
<1>4. TypeOK'
  BY <1>3 DEF ProcessCommands, Go, IInv, TypeOK, Times, Counts
<1>5. Lock' /\ Copies'
  BY <1>3 DEF ProcessCommands, Go, IInv, TypeOK, Lock, Copies, Locked
<1> QED
  BY <1>4, <1>5 DEF IInv

LEMMA ToggleInv == IInv /\ ToggleWifi => IInv'
<1> SUFFICES ASSUME IInv, ToggleWifi PROVE IInv'
  OBVIOUS
<1>1. TypeOK'
  BY ZenonT(60) DEF ToggleWifi, IInv, TypeOK, server, history, Times, Counts
<1>2. Lock' /\ Copies'
  BY ZenonT(60) DEF ToggleWifi, IInv, TypeOK, Lock, Copies, Locked, server, history
<1> QED
  BY <1>1, <1>2 DEF IInv

LEMMA WebInv == IInv /\ TickWeb => IInv'
<1> SUFFICES ASSUME IInv, TickWeb PROVE IInv'
  OBVIOUS
<1>1. arm_queued' \in BOOLEAN
  BY DEF TickWeb, HandleApiSystemUpdate, IInv, TypeOK
<1>2. TypeOK'
  BY <1>1 DEF TickWeb, Go, IInv, TypeOK, server, history, Times, Counts
<1>3. Lock' /\ Copies'
  BY DEF TickWeb, Go, IInv, Lock, Copies, Locked, server, history
<1> QED
  BY <1>2, <1>3 DEF IInv

LEMMA SaveInv == IInv /\ SaveOtaDenied => IInv'
<1> SUFFICES ASSUME IInv, SaveOtaDenied PROVE IInv'
  OBVIOUS
<1> DEFINE locked == Locked
<1>0. locked \in BOOLEAN /\ dev' = [dev EXCEPT !.ota_denied_count = denied_count,
                                              !.ota_locked = locked]
  BY DEF SaveOtaDenied, Locked
<1> HIDE DEF locked
<1>1. TypeOK'
  BY <1>0 DEF SaveOtaDenied, Go, IInv, TypeOK, server, Times, Counts
<1>2. Lock' /\ Copies'
  BY <1>0 DEF SaveOtaDenied, Go, IInv, TypeOK, Lock, Copies, Locked, server, Counts, locked
<1> QED
  BY <1>1, <1>2 DEF IInv

LEMMA WifiInv == IInv /\ TickWifi => IInv'
<1> SUFFICES ASSUME IInv, TickWifi PROVE IInv'
  OBVIOUS
<1>1. PICK ready \in BOOLEAN, dt \in TickSteps :
        /\ untended + dt <= MaxOutage
        /\ ready => dev.wifi_enabled
        /\ dev' = [dev EXCEPT !.wifi_ready = ready]
        /\ now_ms' = Later(now_ms, dt)
        /\ armed_age' = Aged(armed_age, dt)
        /\ pending_age' = Aged(pending_age, dt)
        /\ untended' = IF listening THEN untended + dt ELSE 0
  BY DEF TickWifi
<1>2. dt \in Nat /\ now_ms \in Nat
  BY Limits DEF IInv, TypeOK, Times
<1>3. now_ms' \in Times /\ armed_age' \in 0 .. TimeCap /\ pending_age' \in 0 .. TimeCap
  BY <1>1, <1>2, LaterType, AgedType DEF IInv, TypeOK
<1>4. untended' \in 0 .. MaxOutage
  BY <1>1, <1>2, Limits DEF IInv, TypeOK
<1>5. TypeOK'
  BY <1>1, <1>3, <1>4 DEF TickWifi, Go, IInv, TypeOK, server, Times, Counts
<1>6. Lock' /\ Copies'
  BY <1>1 DEF TickWifi, Go, IInv, TypeOK, Lock, Copies, Locked, server
<1> QED
  BY <1>5, <1>6 DEF IInv

\* A pass of OtaServer::tick, one step per way it ends.
LEMMA OtaInv == IInv /\ TickOta => IInv'
<1> SUFFICES ASSUME IInv, TickOta PROVE IInv'
  OBVIOUS
<1>1. /\ pc = "ota" /\ pc' = "save" /\ untended' = 0
      /\ UNCHANGED <<now_ms, window_until_ms, ota_pass_set, arm_queued, dev, eeprom_denied>>
  BY DEF TickOta, Go
<1>2. fail_streak \in Nat /\ (listening => fail_streak + 1 <= MaxDenied)
  BY Limits DEF IInv, TypeOK, Lock, Locked
<1> DEFINE Ends == {"none", "window", "gone", "timeout", "junk", "denied", "ok"}
<1>10. /\ listening \in BOOLEAN /\ pending \in BOOLEAN
      /\ pending_since_ms \in Times /\ now_ms \in Times
      /\ armed_age \in 0 .. TimeCap /\ pending_age \in 0 .. TimeCap
      /\ ended \in Ends /\ 0 \in 0 .. TimeCap /\ TimeCap \in 0 .. TimeCap
  BY Limits DEF IInv, TypeOK
<1>11. Stop \/ KeepListening
  BY DEF TickOta, CloseWindow, AcceptClient, AnswerIncomplete, AnswerMalformed, AnswerWrong,
         AnswerRight
<1>12. \/ UNCHANGED <<pending, pending_since_ms, pending_age, ended>>
       \/ \E how \in Ends : Drop(how)
       \/ pending' = TRUE /\ ended' = "gone" /\ pending_since_ms' = now_ms /\ pending_age' = 0
  <2>1. CASE CloseWindow \/ AnswerMalformed \/ AnswerWrong \/ AnswerRight
    BY <2>1 DEF CloseWindow, AnswerMalformed, AnswerWrong, AnswerRight
  <2>2. CASE AcceptClient
    BY <2>2 DEF AcceptClient
  <2>3. CASE AnswerIncomplete
    BY <2>3 DEF AnswerIncomplete
  <2> QED
    BY <2>1, <2>2, <2>3 DEF TickOta
<1>3. /\ listening' \in BOOLEAN /\ (listening' => listening)
      /\ pending' \in BOOLEAN /\ pending_since_ms' \in Times
      /\ armed_age' \in 0 .. TimeCap /\ pending_age' \in 0 .. TimeCap
      /\ ended' \in Ends
  <2>1. listening' \in BOOLEAN /\ (listening' => listening) /\ armed_age' \in 0 .. TimeCap
    <3>1. CASE Stop
      BY <1>10, <3>1 DEF Stop
    <3>2. CASE KeepListening
      BY <1>10, <3>2 DEF KeepListening
    <3> QED
      BY <1>11, <3>1, <3>2
  <2>2. /\ pending' \in BOOLEAN /\ pending_since_ms' \in Times /\ pending_age' \in 0 .. TimeCap
        /\ ended' \in Ends
    <3>1. CASE UNCHANGED <<pending, pending_since_ms, pending_age, ended>>
      BY <1>10, <3>1
    <3>2. CASE \E how \in Ends : Drop(how)
      BY <1>10, <3>2 DEF Drop
    <3>3. CASE pending' = TRUE /\ ended' = "gone" /\ pending_since_ms' = now_ms /\ pending_age' = 0
      BY <1>10, <3>3
    <3> QED
      BY <1>12, <3>1, <3>2, <3>3
  <2> QED
    BY <2>1, <2>2
<1>4. \/ SameCounts
      \/ /\ listening /\ uploads < MaxUploads
         /\ fail_streak' = 0 /\ uploads' = uploads + 1
         /\ UNCHANGED <<denied_count, guesses>> /\ ~listening'
      \/ /\ listening
         /\ denied_count' = (denied_count + 1) % CountRange
         /\ fail_streak' = fail_streak + 1 /\ guesses' = guesses + 1
         /\ UNCHANGED uploads
         /\ fail_streak' >= MaxDenied => ~listening'
  BY DEF TickOta, CloseWindow, AcceptClient, AnswerIncomplete, AnswerMalformed, AnswerWrong,
         AnswerRight, Stop
<1> DEFINE excused == uploads * (MaxDenied - 1)
<1>13. /\ guesses \in Nat /\ uploads \in 0 .. MaxUploads /\ excused \in Int
       /\ guesses <= fail_streak + excused
       /\ uploads' = uploads => excused' = excused
       /\ uploads' = uploads + 1 => excused' = excused + (MaxDenied - 1)
  <2>1. /\ guesses \in Nat /\ uploads \in 0 .. MaxUploads
        /\ guesses <= fail_streak + uploads * (MaxDenied - 1)
    BY DEF IInv, TypeOK, Lock
  <2>2. uploads \in Nat /\ MaxDenied - 1 \in Nat
    BY <2>1, Limits
  <2>3. \A u, m \in Nat : (u + 1) * m = u * m + m /\ u * m \in Nat
    OBVIOUS
  <2> QED
    BY <2>1, <2>2, <2>3
<1> HIDE DEF excused
<1>5. /\ denied_count' \in Counts /\ fail_streak' \in 0 .. MaxDenied
      /\ guesses' \in Nat /\ uploads' \in 0 .. MaxUploads
      /\ guesses' <= fail_streak' + excused' /\ (fail_streak' >= MaxDenied => ~listening')
  <2>1. CASE SameCounts
    BY <1>2, <1>3, <1>13, <2>1, Limits DEF IInv, TypeOK, Lock, Locked, SameCounts
  <2>2. CASE /\ listening /\ uploads < MaxUploads
             /\ fail_streak' = 0 /\ uploads' = uploads + 1
             /\ UNCHANGED <<denied_count, guesses>> /\ ~listening'
    BY <1>2, <1>13, <2>2, Limits DEF IInv, TypeOK
  <2>3. CASE /\ listening
             /\ denied_count' = (denied_count + 1) % CountRange
             /\ fail_streak' = fail_streak + 1 /\ guesses' = guesses + 1
             /\ UNCHANGED uploads
             /\ fail_streak' >= MaxDenied => ~listening'
    BY <1>2, <1>13, <2>3, Limits DEF IInv, TypeOK, Counts
  <2> QED
    BY <1>4, <2>1, <2>2, <2>3
<1>6. TypeOK'
  <2>1. untended' \in 0 .. MaxOutage
    BY <1>1, <1>5, Limits
  <2>2. pc' \in {"drain", "web", "ota", "save", "wifi"}
    BY <1>1
  <2> QED
    BY <1>1, <1>3, <1>5, <2>1, <2>2 DEF IInv, TypeOK
<1>8. Lock'
  BY <1>5 DEF Lock, Locked, excused
<1>7. Copies'
  BY <1>1 DEF IInv, Copies
<1> QED
  BY <1>6, <1>7, <1>8 DEF IInv

LEMMA RestartInv == IInv /\ Restart => IInv'
<1> SUFFICES ASSUME IInv, Restart PROVE IInv'
  OBVIOUS
<1>1. TypeOK'
  <2>1. now_ms' \in Times /\ window_until_ms' \in Times /\ pending_since_ms' \in Times
    BY Limits DEF Restart, Times
  <2>2. /\ denied_count' \in Counts /\ eeprom_denied' \in Counts
        /\ fail_streak' \in 0 .. MaxDenied
    BY Limits DEF Restart, LoadedDenied, IInv, TypeOK
  <2>3. /\ armed_age' \in 0 .. TimeCap /\ pending_age' \in 0 .. TimeCap
        /\ untended' \in 0 .. MaxOutage
    BY Limits DEF Restart
  <2> QED
    BY <2>1, <2>2, <2>3, BootType, NothingExcused DEF Restart, IInv, TypeOK
<1>2. ~Locked'
  BY Limits DEF Restart, Locked
<1>3. Lock' /\ Copies'
  BY <1>2, NothingExcused DEF Restart, LoadedDenied, Lock, Copies, BootDevice
<1> QED
  BY <1>1, <1>3 DEF IInv

LEMMA StepInv == IInv /\ [Next]_vars => IInv'
<1> SUFFICES ASSUME IInv, [Next]_vars PROVE IInv'
  OBVIOUS
<1>1. CASE UNCHANGED vars
  BY <1>1 DEF vars, server, history, IInv, TypeOK, Lock, Copies, Locked, Times, Counts
<1>2. CASE Next
  BY <1>2, ProcessInv, ToggleInv, WebInv, OtaInv, SaveInv, WifiInv, RestartInv DEF Next
<1> QED
  BY <1>1, <1>2

LEMMA Invariance == Spec => []IInv
BY InitInv, StepInv, PTL DEF Spec

-----------------------------------------------------------------------------
(* Real time.                                                              *)

\* What the marks of the listener say of real time.  While it listens, the mark
\* of the window is the end of the window in real time, as the clock shows it:
\* the clock may have wrapped since the arm, or be about to.  A connection is as
\* old as its mark says.  Neither is older than it may be by more than the time
\* OtaServer::tick has not been called.
WindowMark ==
  listening =>
    /\ armed_age < WindowMs + untended
    /\ window_until_ms - now_ms + armed_age - WindowMs \in {0, ClockRange, -ClockRange}

PendingMark ==
  pending =>
    /\ listening
    /\ pending_age < HandshakeMs + untended
    /\ now_ms - pending_since_ms - pending_age \in {0, -ClockRange}

Marks ==
  /\ WindowMark /\ PendingMark
  /\ ~listening => untended = 0
  /\ pc # "save" => ended = "none"

TInv == IInv /\ Marks

LEMMA Outage ==
  /\ 2 * (WindowMs + MaxOutage) < ClockRange /\ HandshakeMs + MaxOutage < ClockRange
  /\ TimeCap > WindowMs + MaxOutage /\ TimeCap > HandshakeMs + MaxOutage
BY OutageAssumption

\* The remainder of a number that is off the clock's range by one turn at most.
LEMMA Turn ==
  ASSUME NEW x \in Times
  PROVE  /\ x % ClockRange = x
         /\ (x + ClockRange) % ClockRange = x
         /\ (x - ClockRange) % ClockRange = x
BY Limits, SMTT(40) DEF Times

\* Sums and differences of times, without the remainder.
LEMMA LaterIs ==
  ASSUME NEW t \in Times, NEW d \in Times
  PROVE  Later(t, d) = IF t + d < ClockRange THEN t + d ELSE t + d - ClockRange
<1>1. CASE t + d < ClockRange
  <2>1. t + d \in Times
    BY <1>1, Limits DEF Times
  <2> QED
    BY <1>1, <2>1, Turn DEF Later
<1>2. CASE ~(t + d < ClockRange)
  <2>1. t + d - ClockRange \in Times
    BY <1>2, Limits DEF Times
  <2>2. t + d = (t + d - ClockRange) + ClockRange
    BY Limits DEF Times
  <2>3. ((t + d - ClockRange) + ClockRange) % ClockRange = t + d - ClockRange
    BY <2>1, Turn
  <2> QED
    BY <1>2, <2>2, <2>3 DEF Later
<1> QED
  BY <1>1, <1>2

LEMMA ElapsedIs ==
  ASSUME NEW t \in Times, NEW from \in Times
  PROVE  Elapsed(t, from) = IF t >= from THEN t - from ELSE t - from + ClockRange
<1>1. CASE t >= from
  <2>1. t - from \in Times
    BY <1>1, Limits DEF Times
  <2> QED
    BY <1>1, <2>1, Turn DEF Elapsed
<1>2. CASE ~(t >= from)
  <2>1. t - from + ClockRange \in Times
    BY <1>2, Limits DEF Times
  <2>2. t - from = (t - from + ClockRange) - ClockRange
    BY Limits DEF Times
  <2>3. ((t - from + ClockRange) - ClockRange) % ClockRange = t - from + ClockRange
    BY <2>1, Turn
  <2> QED
    BY <1>2, <2>2, <2>3 DEF Elapsed
<1> QED
  BY <1>1, <1>2

\* The window is over, as the code computes it, when it is over in real time.
LEMMA WindowOverIs ==
  ASSUME IInv, WindowMark, listening PROVE WindowOver <=> armed_age >= WindowMs
<1>1. /\ now_ms \in Times /\ window_until_ms \in Times /\ armed_age \in Nat
      /\ untended \in Nat /\ untended <= MaxOutage
  BY Limits DEF IInv, TypeOK
<1> DEFINE e == Elapsed(now_ms, window_until_ms)
<1>2. e = IF now_ms >= window_until_ms THEN now_ms - window_until_ms
          ELSE now_ms - window_until_ms + ClockRange
  BY <1>1, ElapsedIs
<1>3. 2 * e < ClockRange <=> armed_age >= WindowMs
  <2> HIDE DEF e
  <2>1. /\ armed_age < WindowMs + MaxOutage
        /\ window_until_ms - now_ms + armed_age - WindowMs \in {0, ClockRange, -ClockRange}
    BY <1>1, Limits DEF WindowMark
  <2>2. e = armed_age - WindowMs \/ e = armed_age - WindowMs + ClockRange
    BY <1>1, <1>2, <2>1, Limits, Outage DEF Times
  <2>3. 0 <= e /\ e < ClockRange /\ e \in Int
    BY <1>1, <1>2, Limits DEF Times
  <2> QED
    BY <1>1, <2>1, <2>2, <2>3, Limits, Outage
<1> QED
  BY <1>3 DEF WindowOver, Reached

\* A connection is as old as the code computes it to be.
LEMMA PendingAgeIs ==
  ASSUME IInv, PendingMark, pending PROVE Elapsed(now_ms, pending_since_ms) = pending_age
<1>1. /\ now_ms \in Times /\ pending_since_ms \in Times /\ pending_age \in Nat
      /\ untended \in Nat /\ untended <= MaxOutage
  BY Limits DEF IInv, TypeOK
<1>2. Elapsed(now_ms, pending_since_ms) =
        IF now_ms >= pending_since_ms THEN now_ms - pending_since_ms
        ELSE now_ms - pending_since_ms + ClockRange
  BY <1>1, ElapsedIs
<1>3. /\ pending_age < ClockRange
      /\ now_ms - pending_since_ms = pending_age \/ now_ms - pending_since_ms = pending_age - ClockRange
  BY <1>1, Limits, Outage DEF PendingMark, Times
<1> QED
  BY <1>1, <1>2, <1>3, Limits DEF Times

LEMMA InitMarks == Init => Marks
BY DEF Init, Marks, WindowMark, PendingMark

LEMMA ProcessMarks == TInv /\ ProcessCommands => Marks'
<1> SUFFICES ASSUME TInv, ProcessCommands PROVE Marks'
  OBVIOUS
<1>1. /\ IInv /\ Marks
      /\ now_ms \in Times /\ now_ms' = now_ms
      /\ pc = "drain" /\ untended' = untended /\ ended' = ended
      /\ UNCHANGED <<pending, pending_since_ms, pending_age>>
  BY DEF TInv, IInv, TypeOK, ProcessCommands
<1>2. untended \in Nat /\ WindowMs \in Times /\ listening \in BOOLEAN
  BY Limits, Outage DEF TInv, IInv, TypeOK, Times
<1>3. \/ UNCHANGED <<window_until_ms, listening, armed_age>>
      \/ /\ window_until_ms' = Later(now_ms, WindowMs)
         /\ listening' \in {TRUE, listening}
         /\ listening' => armed_age' = 0
  BY DEF ProcessCommands, Arm
<1>4. listening => listening'
  BY <1>2, <1>3
<1>5. ended' = "none"
  BY <1>1 DEF Marks
<1>6. PendingMark'
  BY <1>1, <1>4 DEF Marks, PendingMark
<1>7. WindowMark'
  <2>1. CASE UNCHANGED <<window_until_ms, listening, armed_age>>
    BY <1>1, <2>1 DEF Marks, WindowMark
  <2>2. CASE window_until_ms' = Later(now_ms, WindowMs) /\ (listening' => armed_age' = 0)
    <3>1. Later(now_ms, WindowMs) - now_ms - WindowMs \in {0, -ClockRange}
      BY <1>1, <1>2, LaterIs, Limits DEF Times
    <3>2. Later(now_ms, WindowMs) \in Int
      BY <1>1, <1>2, LaterIs, Limits DEF Times
    <3> SUFFICES ASSUME listening'
                 PROVE /\ armed_age' < WindowMs + untended'
                       /\ window_until_ms' - now_ms' + armed_age' - WindowMs
                            \in {0, ClockRange, -ClockRange}
      BY DEF WindowMark
    <3>3. armed_age' = 0 /\ window_until_ms' = Later(now_ms, WindowMs)
      BY <2>2
    <3>4. armed_age' < WindowMs + untended'
      BY <1>1, <1>2, <3>3, Limits
    <3>5. Later(now_ms, WindowMs) - now_ms + 0 - WindowMs \in {0, ClockRange, -ClockRange}
      <4> DEFINE l == Later(now_ms, WindowMs)
      <4> HIDE DEF l
      <4>1. l - now_ms - WindowMs \in {0, -ClockRange} /\ l \in Int
        BY <3>1, <3>2 DEF l
      <4>2. l - now_ms + 0 - WindowMs = l - now_ms - WindowMs
        BY <1>1, <4>1, Limits DEF Times
      <4> QED
        BY <4>1, <4>2 DEF l
    <3> QED
      BY <1>1, <3>3, <3>4, <3>5
  <2> QED
    BY <1>3, <2>1, <2>2
<1> QED
  BY <1>1, <1>2, <1>4, <1>5, <1>6, <1>7 DEF Marks

LEMMA WifiMarks == TInv /\ TickWifi => Marks'
<1> SUFFICES ASSUME TInv, TickWifi PROVE Marks'
  OBVIOUS
<1>1. PICK dt \in TickSteps :
        /\ untended + dt <= MaxOutage
        /\ now_ms' = Later(now_ms, dt)
        /\ armed_age' = Aged(armed_age, dt)
        /\ pending_age' = Aged(pending_age, dt)
        /\ untended' = IF listening THEN untended + dt ELSE 0
  BY DEF TickWifi
<1>2. /\ IInv /\ Marks
      /\ UNCHANGED <<window_until_ms, listening, pending, pending_since_ms, ended>>
      /\ pc = "wifi"
  BY DEF TInv, TickWifi, server
<1>3. /\ now_ms \in Times /\ window_until_ms \in Times /\ pending_since_ms \in Times
      /\ untended \in Nat /\ untended <= MaxOutage
      /\ armed_age \in Nat /\ pending_age \in Nat /\ listening \in BOOLEAN
  BY Limits DEF TInv, IInv, TypeOK
<1>4. dt \in Nat /\ dt \in Times
  BY <1>1, <1>3, Limits, Outage DEF Times
<1>5. now_ms' = IF now_ms + dt < ClockRange THEN now_ms + dt ELSE now_ms + dt - ClockRange
  BY <1>1, <1>3, <1>4, LaterIs
<1>6. WindowMark'
  <2> SUFFICES ASSUME listening
               PROVE /\ armed_age' < WindowMs + untended'
                     /\ window_until_ms' - now_ms' + armed_age' - WindowMs
                          \in {0, ClockRange, -ClockRange}
    BY <1>2 DEF WindowMark
  <2>1. /\ armed_age < WindowMs + untended
        /\ window_until_ms - now_ms + armed_age - WindowMs \in {0, ClockRange, -ClockRange}
    BY <1>2 DEF Marks, WindowMark
  <2>2. armed_age' = armed_age + dt /\ untended' = untended + dt
    BY <1>1, <1>3, <1>4, <2>1, Limits, Outage DEF Aged
  <2>3. armed_age' < WindowMs + untended'
    BY <1>3, <1>4, <2>1, <2>2, Limits
  <2>4. window_until_ms - now_ms' + armed_age + dt - WindowMs
          \in {0, ClockRange, -ClockRange}
    BY <1>3, <1>4, <1>5, <2>1, <2>3, <2>2, <1>1, Limits, Outage DEF Times
  <2> QED
    BY <1>2, <1>3, <1>4, <1>5, <2>2, <2>3, <2>4, Limits DEF Times
<1>7. PendingMark'
  <2> SUFFICES ASSUME pending
               PROVE /\ pending_age' < HandshakeMs + untended'
                     /\ now_ms' - pending_since_ms' - pending_age' \in {0, -ClockRange}
    BY <1>2 DEF Marks, PendingMark
  <2>1. /\ listening /\ pending_age < HandshakeMs + untended
        /\ now_ms - pending_since_ms - pending_age \in {0, -ClockRange}
    BY <1>2 DEF Marks, PendingMark
  <2>2. pending_age' = pending_age + dt /\ untended' = untended + dt
    BY <1>1, <1>3, <1>4, <2>1, Limits, Outage DEF Aged
  <2>3. pending_age' < HandshakeMs + untended'
    BY <1>3, <1>4, <2>1, <2>2, Limits
  <2>4. now_ms' - pending_since_ms - (pending_age + dt) \in {0, -ClockRange}
    BY <1>1, <1>3, <1>4, <1>5, <2>1, <2>2, <2>3, Limits, Outage DEF Times
  <2> QED
    BY <1>2, <2>2, <2>3, <2>4
<1>8. (~listening' => untended' = 0) /\ ended' = "none"
  BY <1>1, <1>2 DEF Marks
<1> QED
  BY <1>6, <1>7, <1>8 DEF Marks

\* A pass of OtaServer::tick leaves nothing too old behind.
LEMMA OtaMarks == TInv /\ TickOta => Marks'
<1> SUFFICES ASSUME TInv, TickOta PROVE Marks'
  OBVIOUS
<1>1. /\ IInv /\ Marks /\ WindowMark /\ PendingMark
      /\ pc' = "save" /\ untended' = 0 /\ UNCHANGED <<now_ms, window_until_ms>>
  BY DEF TInv, Marks, TickOta, Go
<1>2. now_ms \in Times /\ armed_age \in Nat /\ pending_age \in Nat /\ listening \in BOOLEAN
  BY Limits DEF TInv, IInv, TypeOK
<1>3. \/ Stop
      \/ KeepListening /\ (listening => ~WindowOver)
  BY DEF TickOta, CloseWindow, AcceptClient, AnswerIncomplete, AnswerMalformed, AnswerWrong,
         AnswerRight, Answered
<1>4. WindowMark'
  <2>1. CASE Stop
    BY <2>1 DEF Stop, WindowMark
  <2>2. CASE KeepListening /\ (listening => ~WindowOver)
    <3> SUFFICES ASSUME listening
                 PROVE /\ armed_age' < WindowMs + untended'
                       /\ window_until_ms' - now_ms' + armed_age' - WindowMs
                            \in {0, ClockRange, -ClockRange}
      BY <2>2 DEF KeepListening, WindowMark
    <3>1. armed_age < WindowMs
      BY <1>1, <1>2, <2>2, WindowOverIs, Limits
    <3> QED
      BY <1>1, <1>2, <2>2, <3>1, Limits DEF KeepListening, WindowMark
  <2> QED
    BY <1>3, <2>1, <2>2
<1>5. PendingMark'
  <2>1. CASE ~pending'
    BY <2>1 DEF PendingMark
  <2>2. CASE AcceptClient /\ listening /\ pending'
    <3>1. listening' /\ pending_since_ms' = now_ms /\ pending_age' = 0
      BY <2>2 DEF AcceptClient, Drop, KeepListening
    <3> QED
      BY <1>1, <1>2, <3>1, Limits DEF PendingMark, Times
  <2>3. CASE AnswerIncomplete /\ listening /\ pending'
    <3>1. /\ listening' /\ pending /\ UNCHANGED <<pending_since_ms, pending_age>>
          /\ ~(Elapsed(now_ms, pending_since_ms) >= HandshakeMs)
      BY <2>3 DEF AnswerIncomplete, Answered, Drop, KeepListening
    <3>2. pending_age < HandshakeMs
      BY <1>1, <1>2, <3>1, PendingAgeIs, Limits
    <3> QED
      BY <1>1, <1>2, <3>1, <3>2, Limits DEF PendingMark
  <2>4. CASE ~listening /\ pending' = pending
    BY <1>1, <2>4, <2>1 DEF PendingMark
  <2>5. CASE CloseWindow \/ AnswerMalformed \/ AnswerWrong \/ AnswerRight
    BY <2>5, <2>1 DEF CloseWindow, AnswerMalformed, AnswerWrong, AnswerRight, Drop
  <2> QED
    BY <2>1, <2>2, <2>3, <2>4, <2>5 DEF TickOta
<1> QED
  BY <1>1, <1>4, <1>5 DEF Marks

LEMMA OtherMarks ==
  TInv /\ (ToggleWifi \/ TickWeb \/ SaveOtaDenied \/ Restart \/ UNCHANGED vars) => Marks'
<1> SUFFICES ASSUME TInv, ToggleWifi \/ TickWeb \/ SaveOtaDenied \/ Restart \/ UNCHANGED vars
             PROVE Marks'
  OBVIOUS
<1>1. Marks
  BY DEF TInv
<1>2. CASE Restart
  BY <1>2 DEF Restart, Marks, WindowMark, PendingMark
<1>3. CASE UNCHANGED <<now_ms, window_until_ms, listening, pending, pending_since_ms, armed_age,
                       pending_age, untended>>
           /\ ended' = ended /\ (pc # "save" \/ pc' = "save")
  BY <1>1, <1>3 DEF Marks, WindowMark, PendingMark
<1>4. CASE ToggleWifi \/ TickWeb \/ SaveOtaDenied \/ UNCHANGED vars
  <2>1. CASE ToggleWifi
    BY <1>3, <2>1 DEF ToggleWifi, server, history
  <2>2. CASE TickWeb
    BY <1>3, <2>2 DEF TickWeb, server, history
  <2>3. CASE SaveOtaDenied
    <3>1. /\ UNCHANGED <<now_ms, window_until_ms, listening, pending, pending_since_ms,
                         armed_age, pending_age, untended>>
          /\ ended' = "none"
      BY <2>3 DEF SaveOtaDenied, server
    <3> QED
      BY <1>1, <3>1 DEF Marks, WindowMark, PendingMark
  <2>4. CASE UNCHANGED vars
    BY <1>3, <2>4 DEF vars, server, history
  <2> QED
    BY <1>4, <2>1, <2>2, <2>3, <2>4
<1> QED
  BY <1>2, <1>4

LEMMA StepMarks == TInv /\ [Next]_vars => TInv'
<1> SUFFICES ASSUME TInv, [Next]_vars PROVE TInv'
  OBVIOUS
<1>1. IInv'
  BY StepInv DEF TInv
<1>2. Marks'
  BY ProcessMarks, WifiMarks, OtaMarks, OtherMarks DEF Next
<1> QED
  BY <1>1, <1>2 DEF TInv

LEMMA MarksHold == Spec => []TInv
<1>1. Init => TInv
  BY InitInv, InitMarks DEF TInv
<1> QED
  BY <1>1, StepMarks, PTL DEF Spec

\* Every variable keeps its type, whatever the constants: the lock counter
\* never passes its limit and every time stays a value of millis().
THEOREM TypeCorrect == Spec => []TypeOK
<1>1. IInv => TypeOK
  BY DEF IInv
<1> QED
  BY <1>1, Invariance, PTL

\* Between two boots at most MaxDenied wrong answers are judged, plus MaxDenied - 1
\* for each right answer whose upload failed, and a locked unit does not listen.
THEOREM GuessesAreBounded == Spec => []ThreeGuesses
<1>1. IInv => ThreeGuesses
  <2> SUFFICES ASSUME IInv PROVE ThreeGuesses
    OBVIOUS
  <2> DEFINE excused == uploads * (MaxDenied - 1)
  <2>1. guesses \in Nat /\ fail_streak \in 0 .. MaxDenied /\ uploads \in Nat
    BY Limits DEF IInv, TypeOK
  <2>2. excused \in Int
    BY <2>1, Limits
  <2>3. guesses <= fail_streak + excused
    BY DEF IInv, Lock
  <2> HIDE DEF excused
  <2>4. guesses <= MaxDenied + excused
    BY <2>1, <2>2, <2>3, Limits
  <2> QED
    BY <2>4 DEF IInv, Lock, ThreeGuesses, excused
<1> QED
  BY <1>1, Invariance, PTL

\* The stored count is the listener's whenever the loop is not between the answer
\* and the save.
THEOREM DeniedIsStored == Spec => []DeniedDurable
<1>1. IInv => DeniedDurable
  BY DEF IInv, Copies, DeniedDurable
<1> QED
  BY <1>1, Invariance, PTL

\* Once locked, no POST arms anything: the copy of the lock the web server reads
\* is never out of date when it is read.
THEOREM LockReported == Spec => LockIsReported
<1>1. IInv /\ [Next]_vars => [Locked /\ arm_queued' => arm_queued]_vars
  <2> SUFFICES ASSUME IInv, Next, Locked, arm_queued' PROVE arm_queued
    OBVIOUS
  <2>1. CASE TickWeb
    BY <2>1 DEF TickWeb, HandleApiSystemUpdate, Reply, IInv, TypeOK, Copies
  <2>2. CASE ProcessCommands \/ Restart
    BY <2>2 DEF ProcessCommands, Restart
  <2>3. CASE ToggleWifi \/ TickOta \/ SaveOtaDenied \/ TickWifi
    BY <2>3 DEF ToggleWifi, TickOta, SaveOtaDenied, TickWifi
  <2> QED
    BY <2>1, <2>2, <2>3 DEF Next
<1> QED
  BY <1>1, Invariance, PTL DEF Spec, LockIsReported

\* After each pass of OtaServer::tick the listener is closed if its window is
\* over in real time, wherever the clock wraps and however long the link was lost.
THEOREM WindowIsClosed == Spec => []WindowCloses
<1>1. TInv => WindowCloses
  <2> SUFFICES ASSUME TInv, untended = 0, listening PROVE armed_age < WindowMs
    BY DEF WindowCloses
  <2>1. armed_age < WindowMs + 0
    BY DEF TInv, Marks, WindowMark
  <2> QED
    BY <2>1, Limits
<1> QED
  BY <1>1, MarksHold, PTL

\* A connection that stays silent never holds the only slot beyond the pass that
\* finds it 500 ms old.
THEOREM SilentIsClosed == Spec => []SilentIsDropped
<1>1. TInv => SilentIsDropped
  <2> SUFFICES ASSUME TInv, untended = 0, pending PROVE pending_age < HandshakeMs
    BY DEF SilentIsDropped
  <2>1. pending_age < HandshakeMs + 0
    BY DEF TInv, Marks, PendingMark
  <2> QED
    BY <2>1, Limits
<1> QED
  BY <1>1, MarksHold, PTL

\* Nobody is dropped as silent before the 500 ms are over.
THEOREM NobodyIsCutShort == Spec => FullHandshake
<1>1. TInv /\ [Next]_vars => [pc = "ota" /\ ended' = "timeout" => pending_age >= HandshakeMs]_vars
  <2> SUFFICES ASSUME TInv, Next, pc = "ota", ended' = "timeout"
               PROVE pending_age >= HandshakeMs
    OBVIOUS
  <2>1. ended = "none"
    BY DEF TInv, Marks
  <2>2. CASE TickOta
    <3>1. AnswerIncomplete
      BY <2>1, <2>2 DEF TickOta, CloseWindow, AcceptClient, AnswerMalformed, AnswerWrong,
                       AnswerRight, Drop
    <3>2. pending /\ Elapsed(now_ms, pending_since_ms) >= HandshakeMs
      BY <2>1, <3>1 DEF AnswerIncomplete, Answered
    <3>3. IInv /\ PendingMark
      BY DEF TInv, Marks
    <3> QED
      BY <3>2, <3>3, PendingAgeIs
  <2>3. CASE Restart
    BY <2>3 DEF Restart
  <2> QED
    BY <2>2, <2>3 DEF Next, ProcessCommands, ToggleWifi, TickWeb, SaveOtaDenied, TickWifi
<1> QED
  BY <1>1, MarksHold, PTL DEF Spec, FullHandshake
=============================================================================
