--------------------------- MODULE MqttLink_proofs ---------------------------
(***************************************************************************)
(* The backoff is served and a suspension ends, in real time, for every    *)
(* interval, every suspension and every clock that wraps.                  *)
(***************************************************************************)
EXTENDS MqttLink, TLAPS

LEMMA Numbers ==
  ASSUME LinkInputsOK
  PROVE  /\ ReconnectBaseMs \in Nat /\ SuspendAfter \in Nat /\ SuspendAfter > 0
         /\ SuspendMs \in Nat /\ SuspendMs > 0 /\ ClockRange \in Nat /\ ClockRange > 0
         /\ MaxShift \in Nat /\ SuspendAfter <= MaxShift + 1 /\ MaxOutage \in Nat
         /\ MaxStep \in Nat /\ MaxStep > 0
         /\ \A dt \in TickSteps : dt \in Nat /\ dt > 0 /\ dt <= MaxStep
         /\ \A n \in 0 .. SuspendAfter - 1 : RetryMs(n) \in Nat /\ RetryMs(n) > 0
                                             /\ RetryMs(n) <= MaxRetryMs
         /\ MaxRetryMs \in Nat /\ MaxRetryMs > 0 /\ MaxRetryMs <= SuspendMs
         /\ AgeCap \in Nat /\ AgeCap > SuspendMs + MaxOutage + MaxStep
         /\ 2 * SuspendMs < ClockRange
<1>1. \E m \in TickSteps : \A dt \in TickSteps : m >= dt
  BY DEF LinkInputsOK
<1>2. MaxStep \in TickSteps /\ \A dt \in TickSteps : MaxStep >= dt
  BY <1>1 DEF MaxStep, Max
<1>3. TickSteps \subseteq Nat \ {0}
  BY DEF LinkInputsOK
<1>4. /\ MaxStep \in Nat /\ MaxStep > 0
      /\ \A dt \in TickSteps : dt \in Nat /\ dt > 0 /\ dt <= MaxStep
  <2> DEFINE m == MaxStep
  <2>1. m \in Nat \ {0} /\ \A dt \in TickSteps : dt \in Nat \ {0} /\ m >= dt
    BY <1>2, <1>3
  <2> HIDE DEF m
  <2>2. m \in Nat /\ m > 0 /\ \A dt \in TickSteps : dt \in Nat /\ dt > 0 /\ dt <= m
    BY <2>1
  <2> QED
    BY <2>2 DEF m
<1>5. /\ MaxRetryMs \in 1 .. SuspendMs /\ SuspendMs \in Nat \ {0}
      /\ \A n \in 0 .. SuspendAfter - 1 : RetryMs(n) \in 1 .. MaxRetryMs
  BY DEF LinkInputsOK
<1>6. MaxRetryMs \in Nat /\ MaxRetryMs > 0 /\ MaxRetryMs <= SuspendMs
  BY <1>5
<1>7. \A n \in 0 .. SuspendAfter - 1 : RetryMs(n) \in Nat /\ RetryMs(n) > 0
                                       /\ RetryMs(n) <= MaxRetryMs
  BY <1>5, <1>6
<1> QED
  BY <1>4, <1>6, <1>7 DEF LinkInputsOK

-----------------------------------------------------------------------------
(* The clock.                                                              *)

LEMMA TurnIs ==
  ASSUME ClockRange \in Nat, ClockRange > 0, NEW x \in Times
  PROVE  /\ x % ClockRange = x
         /\ (x + ClockRange) % ClockRange = x
         /\ (x - ClockRange) % ClockRange = x
BY SMTT(40) DEF Times

LEMMA LaterType ==
  ASSUME ClockRange \in Nat, ClockRange > 0, NEW t \in Nat, NEW d \in Nat
  PROVE  Later(t, d) \in Times
BY DEF Later, Times

LEMMA ElapsedType ==
  ASSUME ClockRange \in Nat, ClockRange > 0, NEW t \in Times, NEW from \in Times
  PROVE  Elapsed(t, from) \in Times
BY DEF Elapsed, Times

LEMMA ElapsedIs ==
  ASSUME ClockRange \in Nat, ClockRange > 0, NEW t \in Times, NEW from \in Times
  PROVE  Elapsed(t, from) = IF t >= from THEN t - from ELSE t - from + ClockRange
<1>1. CASE t >= from
  <2>1. t - from \in Times
    BY <1>1 DEF Times
  <2> QED
    BY <1>1, <2>1, TurnIs DEF Elapsed
<1>2. CASE ~(t >= from)
  <2>1. t - from + ClockRange \in Times
    BY <1>2 DEF Times
  <2>2. t - from = (t - from + ClockRange) - ClockRange
    BY DEF Times
  <2>3. ((t - from + ClockRange) - ClockRange) % ClockRange = t - from + ClockRange
    BY <2>1, TurnIs
  <2> QED
    BY <1>2, <2>2, <2>3 DEF Elapsed
<1> QED
  BY <1>1, <1>2

LEMMA LaterIs ==
  ASSUME ClockRange \in Nat, ClockRange > 0, NEW t \in Times, NEW d \in Times
  PROVE  Later(t, d) = IF t + d < ClockRange THEN t + d ELSE t + d - ClockRange
<1>1. CASE t + d < ClockRange
  <2>1. t + d \in Times
    BY <1>1 DEF Times
  <2> QED
    BY <1>1, <2>1, TurnIs DEF Later
<1>2. CASE ~(t + d < ClockRange)
  <2>1. t + d - ClockRange \in Times
    BY <1>2 DEF Times
  <2>2. t + d = (t + d - ClockRange) + ClockRange
    BY DEF Times
  <2>3. ((t + d - ClockRange) + ClockRange) % ClockRange = t + d - ClockRange
    BY <2>1, TurnIs
  <2> QED
    BY <1>2, <2>2, <2>3 DEF Later
<1> QED
  BY <1>1, <1>2

\* Time that passes adds to what has elapsed, until the clock has turned once.
LEMMA ElapsedGrows ==
  ASSUME ClockRange \in Nat, ClockRange > 0,
         NEW t \in Times, NEW from \in Times, NEW d \in Nat
  PROVE  /\ Elapsed(Later(t, d), from) <= Elapsed(t, from) + d
         /\ Elapsed(t, from) + d < ClockRange
              => Elapsed(Later(t, d), from) = Elapsed(t, from) + d
<1> DEFINE e == Elapsed(t, from)
           u == Later(t, d)
<1>1. u \in Times /\ e \in Times
  <2>1. t \in Nat
    BY DEF Times
  <2> QED
    BY <2>1, LaterType, ElapsedType
<1>2. Elapsed(u, from) \in Times
  BY <1>1, ElapsedType
<1>3. CASE e + d < ClockRange
  <2>1. d \in Times
    BY <1>1, <1>3 DEF Times
  <2>2. u = IF t + d < ClockRange THEN t + d ELSE t + d - ClockRange
    BY <2>1, LaterIs
  <2>3. e = IF t >= from THEN t - from ELSE t - from + ClockRange
    BY ElapsedIs
  <2>4. Elapsed(u, from) = IF u >= from THEN u - from ELSE u - from + ClockRange
    BY <1>1, ElapsedIs
  <2> HIDE DEF e, u
  <2>5. Elapsed(u, from) = e + d
    BY <1>3, <2>2, <2>3, <2>4 DEF Times
  <2> QED
    BY <1>1, <2>5 DEF e, u, Times
<1>4. CASE ~(e + d < ClockRange)
  <2> HIDE DEF e, u
  <2>1. Elapsed(u, from) <= e + d
    BY <1>1, <1>2, <1>4 DEF Times
  <2> QED
    BY <1>4, <2>1 DEF e, u
<1> QED
  BY <1>3, <1>4

\* Chained marks: what elapsed since a mark before the mark adds up.
LEMMA ElapsedAdds ==
  ASSUME ClockRange \in Nat, ClockRange > 0,
         NEW t \in Times, NEW m \in Times, NEW from \in Times,
         Elapsed(m, from) + Elapsed(t, m) < ClockRange
  PROVE  Elapsed(t, from) = Elapsed(m, from) + Elapsed(t, m)
<1>1. /\ Elapsed(m, from) = IF m >= from THEN m - from ELSE m - from + ClockRange
      /\ Elapsed(t, m) = IF t >= m THEN t - m ELSE t - m + ClockRange
      /\ Elapsed(t, from) = IF t >= from THEN t - from ELSE t - from + ClockRange
  BY ElapsedIs
<1> QED
  BY <1>1 DEF Times

\* A mark set d ahead of a time m, looked at later: not reached for d, and what has
\* elapsed since it, once it is reached.
LEMMA ElapsedFromMark ==
  ASSUME ClockRange \in Nat, ClockRange > 0, NEW t \in Times, NEW m \in Times, NEW d \in Times
  PROVE  Elapsed(t, Later(m, d)) =
           IF Elapsed(t, m) >= d THEN Elapsed(t, m) - d ELSE Elapsed(t, m) - d + ClockRange
<1> DEFINE u == Later(m, d)
<1>1. u = IF m + d < ClockRange THEN m + d ELSE m + d - ClockRange
  BY LaterIs
<1>2. u \in Times
  BY LaterType DEF Times
<1>3. /\ Elapsed(t, m) = IF t >= m THEN t - m ELSE t - m + ClockRange
      /\ Elapsed(t, u) = IF t >= u THEN t - u ELSE t - u + ClockRange
  BY <1>2, ElapsedIs
<1> HIDE DEF u
<1>4. Elapsed(t, u) = IF Elapsed(t, m) >= d THEN Elapsed(t, m) - d
                      ELSE Elapsed(t, m) - d + ClockRange
  BY <1>1, <1>2, <1>3, SMTT(30) DEF Times
<1> QED
  BY <1>4 DEF u

-----------------------------------------------------------------------------
(* The backoff.  No assumption on outages: an attempt only ever waits longer. *)

\* What the marks count: the failures in a row, the last one of which suspended the
\* client; a mark of a suspension is set only when there was one since the last success.
Rows ==
  /\ \/ row = SuspendAfter /\ connect_fail_streak = 0
     \/ row < SuspendAfter /\ row = connect_fail_streak
  /\ row >= 1 => ~session
  /\ row = 0 => suspended_until_ms = 0

\* What the clock shows since the last attempt is never more than the real time, and
\* is the real time until the clock has turned.
Age ==
  /\ since_attempt = AgeCap \/ Elapsed(now_ms, last_reconnect_attempt_ms) <= since_attempt
  /\ since_attempt < AgeCap /\ since_attempt < ClockRange
       => Elapsed(now_ms, last_reconnect_attempt_ms) = since_attempt

\* The client is suspended from the attempt that suspended it.
Mark ==
  row = SuspendAfter /\ suspended_until_ms # 0
    => suspended_until_ms = Later(last_reconnect_attempt_ms, SuspendMs)

IInv == TypeOK /\ Rows /\ Age /\ Mark

\* The same as TypeOK, variable by variable.
LEMMA Typed ==
  ASSUME LinkInputsOK, TypeOK
  PROVE  /\ now_ms \in Times /\ last_reconnect_attempt_ms \in Times
         /\ suspended_until_ms \in Times /\ suspended_until_ms \in Nat
         /\ connect_fail_streak \in Nat /\ connect_fail_streak < SuspendAfter
         /\ since_attempt \in Nat /\ since_attempt <= AgeCap
         /\ gap \in Nat /\ gap <= AgeCap /\ waiting \in Nat /\ waiting <= AgeCap
         /\ row \in Nat /\ row <= SuspendAfter /\ outage \in Nat /\ outage <= MaxOutage
         /\ Elapsed(now_ms, last_reconnect_attempt_ms) \in Times
<1>1. now_ms \in Times /\ last_reconnect_attempt_ms \in Times /\ suspended_until_ms \in Times
  BY DEF TypeOK
<1>2. Elapsed(now_ms, last_reconnect_attempt_ms) \in Times
  BY <1>1, ElapsedType, Numbers
<1>3. since_attempt \in 0 .. AgeCap /\ gap \in 0 .. AgeCap /\ waiting \in 0 .. AgeCap
  BY DEF TypeOK
<1>4. /\ connect_fail_streak \in 0 .. SuspendAfter - 1
      /\ row \in 0 .. SuspendAfter /\ outage \in 0 .. MaxOutage
  BY DEF TypeOK
<1> QED
  BY <1>1, <1>2, <1>3, <1>4, Numbers DEF Times

LEMMA AgedIs ==
  ASSUME LinkInputsOK, NEW age \in Nat, NEW d \in Nat
  PROVE  /\ Aged(age, d) \in 0 .. AgeCap
         /\ Aged(age, d) = AgeCap \/ Aged(age, d) = age + d
         /\ age + d <= AgeCap => Aged(age, d) = age + d
         /\ Aged(age, d) <= age + d
BY Numbers DEF Aged

\* While the clock has not turned, the interval tested is that of the row.
LEMMA IntervalIs ==
  ASSUME LinkInputsOK, TypeOK, Rows
  PROVE  RetryIntervalMs = IF row = SuspendAfter THEN RetryMs(0) ELSE RetryMs(row)
<1>1. ~(connect_fail_streak > MaxShift)
  BY Typed, Numbers
<1>2. RetryIntervalMs = RetryMs(connect_fail_streak)
  BY <1>1 DEF RetryIntervalMs
<1>3. row = SuspendAfter => connect_fail_streak = 0
  BY Typed, Numbers DEF Rows
<1>4. row # SuspendAfter => connect_fail_streak = row
  BY DEF Rows
<1> QED
  BY <1>2, <1>3, <1>4

LEMMA InitInv == LinkInputsOK /\ Init => IInv
<1> SUFFICES ASSUME LinkInputsOK, Init PROVE IInv
  OBVIOUS
<1>1. 0 \in Times
  BY Numbers DEF Times
<1>2. Elapsed(0, 0) = 0
  BY <1>1, ElapsedIs, Numbers
<1>3. TypeOK
  <2>1. /\ 0 \in 0 .. SuspendAfter - 1 /\ 0 \in 0 .. AgeCap /\ 0 \in 0 .. SuspendAfter
        /\ 0 \in 0 .. MaxOutage
    BY Numbers
  <2> QED
    BY <1>1, <2>1 DEF Init, TypeOK
<1>4. Rows /\ Age /\ Mark
  BY <1>2, Numbers DEF Init, Rows, Age, Mark
<1> QED
  BY <1>3, <1>4 DEF IInv

\* A pass without an attempt: the clock goes on and the mark of the last attempt stays.
LEMMA PassAge ==
  ASSUME LinkInputsOK, TypeOK, Age, NEW dt \in TickSteps, PassStarts(dt), NotTrying(dt),
         UNCHANGED last_reconnect_attempt_ms
  PROVE  now_ms' \in Times /\ since_attempt' \in 0 .. AgeCap /\ Age'
<1> DEFINE e == Elapsed(now_ms, last_reconnect_attempt_ms)
           f == Elapsed(now_ms', last_reconnect_attempt_ms)
<1>1. /\ dt \in Nat /\ now_ms' = Later(now_ms, dt) /\ since_attempt' = Aged(since_attempt, dt)
  BY Numbers DEF PassStarts, NotTrying
<1>2. now_ms' \in Times /\ e \in Times
  BY <1>1, Typed, LaterType, Numbers DEF Times
<1>3. f <= e + dt /\ (e + dt < ClockRange => f = e + dt) /\ f \in Times
  <2>1. f \in Times
    BY <1>2, Typed, ElapsedType, Numbers
  <2> QED
    BY <1>1, <2>1, Typed, ElapsedGrows, Numbers
<1>4. since_attempt' \in 0 .. AgeCap
  BY <1>1, Typed, AgedIs
<1>5. /\ since_attempt' = AgeCap \/ since_attempt' = since_attempt + dt
      /\ since_attempt + dt <= AgeCap => since_attempt' = since_attempt + dt
  BY <1>1, Typed, AgedIs
<1>6. since_attempt' = AgeCap \/ f <= since_attempt'
  <2>1. since_attempt = AgeCap \/ e <= since_attempt
    BY DEF Age
  <2>2. since_attempt' \in Nat /\ since_attempt' <= AgeCap /\ AgeCap \in Nat
        /\ since_attempt \in Nat /\ dt > 0
    BY <1>4, Typed, Numbers
  <2>3. e \in Nat /\ f \in Nat
    BY <1>2, <1>3, Numbers DEF Times
  <2> HIDE DEF e, f
  <2> QED
    BY <1>1, <1>3, <1>5, <2>1, <2>2, <2>3
<1>7. since_attempt' < AgeCap /\ since_attempt' < ClockRange => f = since_attempt'
  <2>1. since_attempt < AgeCap /\ since_attempt < ClockRange => e = since_attempt
    BY DEF Age
  <2> HIDE DEF e, f
  <2>2. /\ e \in Nat /\ f \in Nat /\ ClockRange \in Nat /\ AgeCap \in Nat
        /\ since_attempt \in Nat /\ since_attempt <= AgeCap
    BY <1>2, <1>3, Typed, Numbers DEF Times
  <2>3. SUFFICES ASSUME since_attempt' < AgeCap, since_attempt' < ClockRange
                 PROVE f = since_attempt'
    OBVIOUS
  <2>4. since_attempt' = since_attempt + dt /\ since_attempt < AgeCap
    BY <1>1, <1>5, <2>2, <2>3
  <2>5. e = since_attempt /\ e + dt < ClockRange
    BY <1>1, <2>1, <2>2, <2>3, <2>4
  <2> QED
    BY <1>3, <2>4, <2>5
<1> QED
  BY <1>2, <1>4, <1>6, <1>7 DEF Age

\* The passes that make no attempt.
LEMMA PassInv ==
  ASSUME LinkInputsOK, IInv, NEW dt \in TickSteps,
         TickNoWifi(dt) \/ TickConnected(dt) \/ TickWaits(dt)
  PROVE  IInv'
<1>1. TypeOK /\ Rows /\ Age /\ Mark
  BY DEF IInv
<1>2. /\ PassStarts(dt) /\ NotTrying(dt) /\ UNCHANGED last_reconnect_attempt_ms
      /\ UNCHANGED <<wifi_ready, session, gap>>
  BY DEF TickNoWifi, TickConnected, TickWaits, PassStarts, NotTrying, marks
<1>3. now_ms' \in Times /\ since_attempt' \in 0 .. AgeCap /\ Age'
  BY <1>1, <1>2, PassAge
<1>4. \/ UNCHANGED <<connect_fail_streak, suspended_until_ms, row>>
      \/ connect_fail_streak' = 0 /\ suspended_until_ms' = 0 /\ row' = 0
  BY DEF TickNoWifi, TickConnected, TickWaits, marks
<1>5. waiting' \in 0 .. AgeCap /\ outage' \in 0 .. MaxOutage
  <2>1. waiting' = 0 \/ waiting' = Aged(waiting, dt)
    BY DEF TickNoWifi, TickConnected, TickWaits
  <2>2. outage' = 0 \/ (outage' = outage + dt /\ outage + dt <= MaxOutage)
    <3>1. TickNoWifi(dt) => outage' = outage + dt /\ outage + dt <= MaxOutage
      BY DEF TickNoWifi
    <3>2. TickConnected(dt) \/ TickWaits(dt) => outage' = 0
      BY DEF TickConnected, TickWaits
    <3> QED
      BY <3>1, <3>2
  <2>3. dt \in Nat /\ Aged(waiting, dt) \in 0 .. AgeCap
    BY <1>1, Typed, AgedIs, Numbers
  <2> QED
    BY <1>1, <2>1, <2>2, <2>3, Typed, Numbers
<1>6. /\ mqtt_connected' \in BOOLEAN
      /\ did' \in {"nothing", "no_wifi", "connected", "waits", "attempt"}
  BY DEF TickNoWifi, TickConnected, TickWaits
<1>7. /\ 0 \in Times /\ 0 \in 0 .. SuspendAfter - 1 /\ 0 \in 0 .. SuspendAfter
      /\ SuspendAfter > 0 /\ SuspendAfter \in Nat
  BY Numbers DEF Times
<1>8. TypeOK'
  <2>1. /\ connect_fail_streak' \in 0 .. SuspendAfter - 1 /\ row' \in 0 .. SuspendAfter
        /\ suspended_until_ms' \in Times
    BY <1>1, <1>4, <1>7 DEF TypeOK
  <2> QED
    BY <1>1, <1>2, <1>3, <1>5, <1>6, <2>1 DEF TypeOK
<1>9. Rows' /\ Mark'
  BY <1>1, <1>2, <1>4, <1>7 DEF Rows, Mark
<1> QED
  BY <1>3, <1>8, <1>9 DEF IInv

LEMMA LinkInv == LinkInputsOK /\ IInv /\ LinkChanges => IInv'
<1> SUFFICES ASSUME LinkInputsOK, IInv, LinkChanges PROVE IInv'
  OBVIOUS
<1>1. /\ wifi_ready' \in BOOLEAN /\ session' \in BOOLEAN /\ (session' => session)
      /\ did' = "nothing"
      /\ UNCHANGED <<now_ms, mqtt_connected, last_reconnect_attempt_ms, connect_fail_streak,
                     suspended_until_ms, since_attempt, gap, row, waiting, outage>>
  BY DEF LinkChanges, marks, IInv, TypeOK
<1>2. TypeOK'
  BY <1>1 DEF IInv, TypeOK, Times
<1>3. Rows' /\ Age' /\ Mark'
  BY <1>1 DEF IInv, Rows, Age, Mark, Elapsed, Later
<1> QED
  BY <1>2, <1>3 DEF IInv

\* An attempt.
LEMMA ConnectInv ==
  ASSUME LinkInputsOK, IInv, NEW dt \in TickSteps, TickConnect(dt)
  PROVE  IInv'
<1>1. TypeOK /\ Rows /\ Age /\ Mark
  BY DEF IInv
<1>2. /\ now_ms' = Later(now_ms, dt) /\ last_reconnect_attempt_ms' = now_ms'
      /\ since_attempt' = 0 /\ waiting' = 0 /\ outage' = 0
      /\ mqtt_connected' = FALSE /\ did' = "attempt" /\ wifi_ready' = wifi_ready
      /\ gap' = Aged(since_attempt, dt)
  BY DEF TickConnect, PassStarts
<1>3. dt \in Nat /\ now_ms' \in Times
  BY <1>1, <1>2, Typed, LaterType, Numbers DEF Times
<1>4. Elapsed(now_ms', last_reconnect_attempt_ms') = 0
  <2>0. now_ms' \in Int
    BY <1>3, Numbers DEF Times
  <2>1. \A n \in Int : n - n = 0 /\ n >= n
    OBVIOUS
  <2>2. Elapsed(now_ms', now_ms') = 0
    BY <1>3, <2>0, <2>1, ElapsedIs, Numbers
  <2> QED
    BY <1>2, <2>2
<1>5. Age'
  BY <1>2, <1>4 DEF Age
<1>6. gap' \in 0 .. AgeCap
  BY <1>1, <1>2, <1>3, Typed, AgedIs
<1>7. /\ 0 \in Times /\ 0 \in 0 .. SuspendAfter - 1 /\ 0 \in 0 .. SuspendAfter
      /\ 0 \in 0 .. AgeCap /\ 0 \in 0 .. MaxOutage
      /\ SuspendAfter > 0 /\ SuspendAfter \in Nat
  BY Numbers DEF Times
<1>8. SUFFICES /\ session' \in BOOLEAN /\ connect_fail_streak' \in 0 .. SuspendAfter - 1
               /\ row' \in 0 .. SuspendAfter /\ suspended_until_ms' \in Times
               /\ Rows' /\ Mark'
  BY <1>1, <1>2, <1>3, <1>5, <1>6, <1>7 DEF IInv, TypeOK
<1>9. CASE AttemptSucceeds
  BY <1>7, <1>9 DEF AttemptSucceeds, Rows, Mark
<1>10. CASE AttemptFails(now_ms')
  <2>1. /\ session' = FALSE /\ row' = (row % SuspendAfter) + 1
        /\ \/ /\ connect_fail_streak + 1 >= SuspendAfter
              /\ connect_fail_streak' = 0 /\ suspended_until_ms' = Later(now_ms', SuspendMs)
           \/ /\ ~(connect_fail_streak + 1 >= SuspendAfter)
              /\ connect_fail_streak' = connect_fail_streak + 1
              /\ UNCHANGED suspended_until_ms
    BY <1>10 DEF AttemptFails
  <2>2. row % SuspendAfter = connect_fail_streak
    <3>1. CASE row = SuspendAfter /\ connect_fail_streak = 0
      BY <1>7, <3>1
    <3>2. CASE row < SuspendAfter /\ row = connect_fail_streak
      BY <1>1, <1>7, <3>2, Typed
    <3> QED
      BY <1>1, <3>1, <3>2 DEF Rows
  <2>3. connect_fail_streak \in Nat /\ connect_fail_streak < SuspendAfter
    BY <1>1, Typed
  <2>4. row' = connect_fail_streak + 1
    BY <2>1, <2>2
  <2>5. Later(now_ms', SuspendMs) \in Times
    BY <1>3, LaterType, Numbers DEF Times
  <2>6. CASE connect_fail_streak + 1 >= SuspendAfter
    <3>1. /\ row' = SuspendAfter /\ connect_fail_streak' = 0 /\ session' = FALSE
          /\ suspended_until_ms' = Later(last_reconnect_attempt_ms', SuspendMs)
      BY <1>2, <1>7, <2>1, <2>3, <2>4, <2>6
    <3>2. Rows' /\ Mark'
      BY <1>7, <3>1 DEF Rows, Mark
    <3>3. row' \in 0 .. SuspendAfter /\ connect_fail_streak' \in 0 .. SuspendAfter - 1
      BY <1>7, <3>1
    <3>4. suspended_until_ms' \in Times /\ session' \in BOOLEAN
      BY <1>2, <2>5, <3>1
    <3> QED
      BY <3>2, <3>3, <3>4
  <2>7. CASE ~(connect_fail_streak + 1 >= SuspendAfter)
    <3>1. /\ row' = connect_fail_streak' /\ row' < SuspendAfter /\ row' >= 1 /\ row' \in Nat
          /\ session' = FALSE /\ suspended_until_ms' \in Times
      BY <1>1, <1>7, <2>1, <2>3, <2>4, <2>7, Typed
    <3>2. Rows' /\ Mark'
      BY <1>7, <3>1 DEF Rows, Mark
    <3>3. row' \in 0 .. SuspendAfter /\ connect_fail_streak' \in 0 .. SuspendAfter - 1
      BY <1>7, <3>1
    <3>4. suspended_until_ms' \in Times /\ session' \in BOOLEAN
      BY <3>1
    <3> QED
      BY <3>2, <3>3, <3>4
  <2> QED
    BY <2>6, <2>7
<1> QED
  BY <1>9, <1>10 DEF TickConnect

LEMMA StepInv == LinkInputsOK /\ IInv /\ [Next]_vars => IInv'
<1> SUFFICES ASSUME LinkInputsOK, IInv, [Next]_vars PROVE IInv'
  OBVIOUS
<1>1. CASE UNCHANGED vars
  BY <1>1 DEF vars, marks, IInv, TypeOK, Rows, Age, Mark, Times, Elapsed, Later
<1>2. CASE Tick
  BY <1>2, PassInv, ConnectInv DEF Tick
<1> QED
  BY <1>1, <1>2, LinkInv DEF Next

\* The real time between the attempt and the one before it.
LEMMA GapIs ==
  ASSUME LinkInputsOK, IInv, NEW dt \in TickSteps, TickConnect(dt)
  PROVE  /\ gap' = AgeCap \/ Elapsed(now_ms', last_reconnect_attempt_ms) <= gap'
         /\ gap' < ClockRange /\ gap' < AgeCap
              => Elapsed(now_ms', last_reconnect_attempt_ms) = gap'
         /\ gap' \in Nat /\ gap' <= AgeCap /\ now_ms' \in Times
         /\ Elapsed(now_ms', last_reconnect_attempt_ms) \in Nat
<1> DEFINE e == Elapsed(now_ms, last_reconnect_attempt_ms)
           f == Elapsed(now_ms', last_reconnect_attempt_ms)
<1>1. /\ gap' = Aged(since_attempt, dt) /\ now_ms' = Later(now_ms, dt)
      /\ TypeOK /\ Age /\ dt \in Nat
  BY Numbers DEF TickConnect, PassStarts, IInv
<1>2. /\ gap' = AgeCap \/ gap' = since_attempt + dt
      /\ since_attempt + dt <= AgeCap => gap' = since_attempt + dt
      /\ gap' \in Nat /\ gap' <= AgeCap /\ AgeCap \in Nat
      /\ since_attempt \in Nat /\ since_attempt <= AgeCap /\ dt > 0
  <2>1. since_attempt \in Nat /\ since_attempt <= AgeCap /\ dt > 0 /\ AgeCap \in Nat
    BY <1>1, Typed, Numbers
  <2>2. /\ gap' \in 0 .. AgeCap
        /\ gap' = AgeCap \/ gap' = since_attempt + dt
        /\ since_attempt + dt <= AgeCap => gap' = since_attempt + dt
    BY <1>1, <2>1, AgedIs
  <2> QED
    BY <2>1, <2>2
<1>3. now_ms' \in Times /\ f \in Times /\ e \in Times
  <2>1. now_ms' \in Times
    BY <1>1, Typed, LaterType, Numbers DEF Times
  <2> QED
    BY <1>1, <2>1, Typed, ElapsedType, Numbers
<1>4. f <= e + dt /\ (e + dt < ClockRange => f = e + dt)
  BY <1>1, Typed, ElapsedGrows, Numbers
<1>5. /\ since_attempt = AgeCap \/ e <= since_attempt
      /\ since_attempt < AgeCap /\ since_attempt < ClockRange => e = since_attempt
  BY <1>1 DEF Age
<1>6. e \in Nat /\ f \in Nat /\ ClockRange \in Nat
  BY <1>3, Numbers DEF Times
<1> HIDE DEF e, f
<1>7. gap' = AgeCap \/ f <= gap'
  BY <1>1, <1>2, <1>4, <1>5, <1>6
<1>8. gap' < ClockRange /\ gap' < AgeCap => f = gap'
  BY <1>1, <1>2, <1>4, <1>5, <1>6
<1> QED
  BY <1>2, <1>3, <1>6, <1>7, <1>8 DEF f

\* The step of BackoffIsServed.
Backoff ==
  did' = "attempt" =>
    IF row = SuspendAfter THEN suspended_until_ms = 0 \/ gap' >= SuspendMs
    ELSE gap' >= RetryMs(row)

LEMMA BackoffStep == LinkInputsOK /\ IInv /\ [Next]_vars => [Backoff]_vars
<1> SUFFICES ASSUME LinkInputsOK, IInv, Next, did' = "attempt"
             PROVE  IF row = SuspendAfter THEN suspended_until_ms = 0 \/ gap' >= SuspendMs
                    ELSE gap' >= RetryMs(row)
  BY DEF Backoff
<1>1. PICK dt \in TickSteps : TickConnect(dt)
  BY DEF Next, LinkChanges, Tick, TickNoWifi, TickConnected, TickWaits
<1> DEFINE f == Elapsed(now_ms', last_reconnect_attempt_ms)
<1>2. /\ gap' = AgeCap \/ f <= gap'
      /\ gap' < ClockRange /\ gap' < AgeCap => f = gap'
      /\ gap' \in Nat /\ gap' <= AgeCap /\ now_ms' \in Times /\ f \in Nat
  BY <1>1, GapIs
<1>3. ~Suspended(now_ms') /\ f >= RetryIntervalMs
  BY <1>1 DEF TickConnect, MayAttempt
<1>4. TypeOK /\ Rows /\ Mark
  BY DEF IInv
<1>5. CASE row # SuspendAfter
  <2>1. row \in 0 .. SuspendAfter - 1
    BY <1>4, <1>5, Typed, Numbers
  <2>2. RetryMs(row) \in Nat /\ RetryMs(row) <= AgeCap
    BY <2>1, Numbers
  <2>3. f >= RetryMs(row)
    BY <1>3, <1>4, <1>5, IntervalIs
  <2> HIDE DEF f
  <2> QED
    BY <1>2, <1>5, <2>2, <2>3, Numbers
<1>6. CASE row = SuspendAfter /\ suspended_until_ms # 0
  <2>1. suspended_until_ms = Later(last_reconnect_attempt_ms, SuspendMs)
    BY <1>4, <1>6 DEF Mark
  <2>2. SuspendMs \in Times /\ last_reconnect_attempt_ms \in Times
    BY <1>4, Typed, Numbers DEF Times
  <2>3. Elapsed(now_ms', suspended_until_ms) = IF f >= SuspendMs THEN f - SuspendMs
                                               ELSE f - SuspendMs + ClockRange
    BY <1>2, <2>1, <2>2, ElapsedFromMark, Numbers
  <2>4. ~(2 * Elapsed(now_ms', suspended_until_ms) >= ClockRange)
    BY <1>3, <1>6 DEF Suspended, Before
  <2>5. f >= SuspendMs
    <3> DEFINE g == Elapsed(now_ms', suspended_until_ms)
    <3> HIDE DEF f, g
    <3>1. /\ g = IF f >= SuspendMs THEN f - SuspendMs ELSE f - SuspendMs + ClockRange
          /\ ~(2 * g >= ClockRange)
      BY <2>3, <2>4 DEF f, g
    <3> QED
      BY <1>2, <3>1, Numbers
  <2> HIDE DEF f
  <2> QED
    BY <1>2, <1>6, <2>5, Numbers
<1> QED
  BY <1>5, <1>6

\* In real time, whatever the outages and wherever the clock wraps, an attempt after n
\* failures comes no sooner than base * 2^n, and after the last of a row not before
\* the suspension is over.
THEOREM BackoffServed ==
  ASSUME LinkInputsOK
  PROVE  Spec => BackoffIsServed
<1>1. Init => IInv
  BY InitInv
<1>2. IInv /\ [Next]_vars => IInv'
  BY StepInv
<1>3. IInv /\ [Next]_vars => [Backoff]_vars
  BY BackoffStep
<1> QED
  BY <1>1, <1>2, <1>3, PTL DEF Spec, BackoffIsServed, Backoff

\* The marks stay values of millis(), and the streak stays below the suspension.
THEOREM TypeCorrect ==
  ASSUME LinkInputsOK
  PROVE  Spec => []TypeOK
<1>1. Init => IInv
  BY InitInv
<1>2. IInv /\ [Next]_vars => IInv'
  BY StepInv
<1>3. IInv => TypeOK
  BY DEF IInv
<1> QED
  BY <1>1, <1>2, <1>3, PTL DEF Spec

-----------------------------------------------------------------------------
(* A suspension ends.  Here the outages matter: the mark of a suspension that *)
(* is over must not come to lie in the future again.                       *)

\* The longest a failure can take from the attempt before it.
Turn == MaxRetryMs + MaxOutage + MaxStep

\* What keeps the client from its next attempt.
Hold == IF row = SuspendAfter THEN SuspendMs ELSE RetryMs(row)

\* The old mark is not far behind the last attempt.
Stale ==
  row \in 1 .. SuspendAfter - 1 /\ suspended_until_ms # 0
    => Elapsed(last_reconnect_attempt_ms, suspended_until_ms) <= row * Turn

\* After a failure the next attempt is late by the current outage at most; after a
\* session the client waits for the base interval, as the clock shows it.
Waits ==
  /\ row >= 1 => since_attempt < Hold + outage /\ waiting <= since_attempt
  /\ waiting > 0 => outage = 0
  /\ row = 0 /\ waiting > 0 =>
       /\ Elapsed(now_ms, last_reconnect_attempt_ms) < RetryMs(0)
       /\ waiting <= Elapsed(now_ms, last_reconnect_attempt_ms) + MaxStep

WInv == IInv /\ Stale /\ Waits

LEMMA TurnBounds ==
  ASSUME LinkInputsOK, OutagesOK
  PROVE  /\ Turn \in Nat /\ MaxOutage + MaxStep <= Turn
         /\ \A n \in 0 .. SuspendAfter - 1 :
              /\ n * Turn \in Nat /\ (n + 1) * Turn = n * Turn + Turn
              /\ 2 * (n * Turn + Turn) < ClockRange
<1>1. Turn \in Nat /\ MaxOutage + MaxStep <= Turn /\ SuspendAfter \in Nat /\ ClockRange \in Nat
  BY Numbers DEF Turn
<1>2. 2 * (SuspendAfter * Turn) < ClockRange
  BY DEF OutagesOK, Turn
<1> HIDE DEF Turn
<1>3. ASSUME NEW n \in 0 .. SuspendAfter - 1
      PROVE  /\ n * Turn \in Nat /\ (n + 1) * Turn = n * Turn + Turn
             /\ 2 * (n * Turn + Turn) < ClockRange
  <2>1. n \in Nat /\ n + 1 <= SuspendAfter
    BY <1>1
  <2>2. n * Turn \in Nat /\ (n + 1) * Turn = n * Turn + Turn
    BY <1>1, <2>1
  <2>3. (n + 1) * Turn <= SuspendAfter * Turn
    <3>1. \A k \in Nat : (n + 1 + k) * Turn = (n + 1) * Turn + k * Turn /\ k * Turn >= 0
      BY <1>1, <2>1
    <3>2. SuspendAfter - (n + 1) \in Nat /\ n + 1 + (SuspendAfter - (n + 1)) = SuspendAfter
      BY <1>1, <2>1
    <3>3. (n + 1) * Turn \in Nat /\ (SuspendAfter - (n + 1)) * Turn \in Nat
      BY <1>1, <2>1, <3>2
    <3> QED
      BY <3>1, <3>2, <3>3
  <2>4. SuspendAfter * Turn \in Nat
    BY <1>1
  <2> QED
    BY <1>1, <1>2, <2>2, <2>3, <2>4
<1> QED
  BY <1>1, <1>3

LEMMA HoldIs ==
  ASSUME LinkInputsOK, TypeOK
  PROVE  /\ Hold \in Nat /\ Hold > 0 /\ Hold <= SuspendMs
         /\ row # SuspendAfter => Hold <= MaxRetryMs
<1>1. CASE row = SuspendAfter
  BY <1>1, Numbers DEF Hold
<1>2. CASE row # SuspendAfter
  <2>1. row \in 0 .. SuspendAfter - 1
    BY <1>2, Typed, Numbers
  <2> QED
    BY <1>2, <2>1, Numbers DEF Hold
<1> QED
  BY <1>1, <1>2

\* After a failure the clock shows the real time since the last attempt, and goes on
\* to show it in the next pass.
LEMMA SinceIs ==
  ASSUME LinkInputsOK, OutagesOK, WInv, row >= 1, NEW dt \in TickSteps, now_ms' = Later(now_ms, dt)
  PROVE  /\ Elapsed(now_ms', last_reconnect_attempt_ms) = since_attempt + dt
         /\ Aged(since_attempt, dt) = since_attempt + dt
         /\ since_attempt + dt < Hold + MaxOutage + MaxStep
         /\ now_ms' \in Times /\ dt \in Nat
<1>1. IInv /\ TypeOK /\ since_attempt < Hold + outage
  BY DEF WInv, IInv, Waits
<1>2. dt \in Nat /\ dt <= MaxStep /\ MaxStep \in Nat
  BY Numbers
<1>3. /\ Hold \in Nat /\ Hold <= SuspendMs /\ SuspendMs \in Nat /\ outage \in Nat /\ outage <= MaxOutage
      /\ MaxOutage \in Nat /\ since_attempt \in Nat /\ AgeCap \in Nat /\ ClockRange \in Nat
      /\ AgeCap > SuspendMs + MaxOutage + MaxStep
  BY <1>1, Typed, HoldIs, Numbers
<1>4. since_attempt + dt < Hold + MaxOutage + MaxStep
  BY <1>1, <1>2, <1>3
<1>5. Aged(since_attempt, dt) = since_attempt + dt
  <2>1. since_attempt + dt <= AgeCap
    BY <1>2, <1>3, <1>4
  <2> QED
    BY <1>2, <1>3, <2>1, AgedIs
<1>6. SuspendMs + MaxOutage + MaxStep < ClockRange
  <2>1. 2 * (0 * Turn + Turn) < ClockRange /\ Turn \in Nat /\ MaxOutage + MaxStep <= Turn
    BY TurnBounds, Numbers
  <2>2. 0 * Turn + Turn = Turn
    BY <2>1
  <2> QED
    BY <1>2, <1>3, <2>1, <2>2, Numbers
<1>7. Elapsed(now_ms, last_reconnect_attempt_ms) = since_attempt
  BY <1>1, <1>2, <1>3, <1>4, <1>6 DEF IInv, WInv, Age
<1>8. Elapsed(now_ms', last_reconnect_attempt_ms) = since_attempt + dt
  <2>1. since_attempt + dt < ClockRange
    BY <1>2, <1>3, <1>4, <1>6
  <2>2. now_ms \in Times /\ last_reconnect_attempt_ms \in Times
    BY <1>1, Typed
  <2> QED
    BY <1>2, <1>7, <2>1, <2>2, ElapsedGrows, Numbers
<1>9. now_ms' \in Times
  <2>1. now_ms \in Nat
    BY <1>1, Typed, Numbers DEF Times
  <2> QED
    BY <1>2, <2>1, LaterType, Numbers
<1> QED
  BY <1>2, <1>4, <1>5, <1>8, <1>9

\* Once the suspension is over in real time its mark does not keep the client any longer,
\* and not before.
LEMMA SuspendedIs ==
  ASSUME LinkInputsOK, OutagesOK, WInv, row >= 1, NEW dt \in TickSteps,
         now_ms' = Later(now_ms, dt), suspended_until_ms # 0
  PROVE  /\ Elapsed(now_ms', suspended_until_ms) \in Nat
         /\ row = SuspendAfter => /\ Suspended(now_ms') <=> since_attempt + dt < SuspendMs
                                  /\ ~Suspended(now_ms') =>
                                       Elapsed(now_ms', suspended_until_ms) <= Turn
         /\ row # SuspendAfter => /\ ~Suspended(now_ms')
                                  /\ Elapsed(now_ms', suspended_until_ms) <= row * Turn + Turn
<1> DEFINE f == Elapsed(now_ms', last_reconnect_attempt_ms)
           g == Elapsed(now_ms', suspended_until_ms)
<1>1. /\ IInv /\ TypeOK /\ Stale /\ Mark
      /\ now_ms' \in Times /\ last_reconnect_attempt_ms \in Times /\ suspended_until_ms \in Times
  BY SinceIs, Typed DEF WInv, IInv
<1>2. /\ f = since_attempt + dt /\ f < Hold + MaxOutage + MaxStep /\ f \in Nat
      /\ Hold \in Nat /\ MaxOutage \in Nat /\ MaxStep \in Nat
  BY <1>1, SinceIs, Typed, HoldIs, Numbers
<1>3. Suspended(now_ms') <=> 2 * g >= ClockRange
  BY DEF Suspended, Before
<1>4. g \in Nat
  BY <1>1, ElapsedType, Numbers DEF Times
<1>5. CASE row = SuspendAfter
  <2>1. Hold = SuspendMs
    BY <1>5 DEF Hold
  <2>2. suspended_until_ms = Later(last_reconnect_attempt_ms, SuspendMs)
    BY <1>1, <1>5 DEF Mark
  <2>3. SuspendMs \in Times
    BY Numbers DEF Times
  <2>4. g = IF f >= SuspendMs THEN f - SuspendMs ELSE f - SuspendMs + ClockRange
    BY <1>1, <2>2, <2>3, ElapsedFromMark, Numbers
  <2>5. 2 * Turn < ClockRange /\ Turn \in Nat /\ MaxOutage + MaxStep <= Turn
    <3>1. 2 * (0 * Turn + Turn) < ClockRange /\ Turn \in Nat /\ MaxOutage + MaxStep <= Turn
      BY TurnBounds, Numbers
    <3> QED
      BY <3>1
  <2> HIDE DEF f, g
  <2>6. /\ 2 * g >= ClockRange <=> f < SuspendMs
        /\ ~(2 * g >= ClockRange) => g <= Turn
    BY <1>2, <1>4, <2>1, <2>4, <2>5, Numbers
  <2> QED
    BY <1>2, <1>3, <1>4, <1>5, <2>6 DEF g
<1>6. CASE row # SuspendAfter
  <2>1. row \in 1 .. SuspendAfter - 1 /\ row \in 0 .. SuspendAfter - 1
    BY <1>1, <1>6, Typed, Numbers
  <2> DEFINE h == Elapsed(last_reconnect_attempt_ms, suspended_until_ms)
  <2>2. h <= row * Turn /\ h \in Nat
    BY <1>1, <2>1, ElapsedType, Numbers DEF Stale, Times
  <2>3. f <= Turn /\ Turn \in Nat
    <3>1. Hold <= MaxRetryMs /\ MaxRetryMs \in Nat
      BY <1>1, <1>6, HoldIs, Numbers
    <3> HIDE DEF f
    <3> QED
      BY <1>2, <3>1 DEF Turn
  <2>4. row * Turn \in Nat /\ 2 * (row * Turn + Turn) < ClockRange
    BY <2>1, TurnBounds
  <2>5. g = h + f
    <3>1. h + f < ClockRange
      <4> HIDE DEF h, f
      <4> QED
        BY <1>2, <2>2, <2>3, <2>4, Numbers
    <3> QED
      BY <1>1, <3>1, ElapsedAdds, Numbers
  <2> HIDE DEF f, g, h
  <2>6. g <= row * Turn + Turn /\ ~(2 * g >= ClockRange)
    <3> DEFINE q == row * Turn
    <3> HIDE DEF q
    <3>1. h <= q /\ q \in Nat /\ 2 * (q + Turn) < ClockRange
      BY <2>2, <2>4 DEF q
    <3>2. g <= q + Turn /\ ~(2 * g >= ClockRange)
      BY <1>2, <2>2, <2>3, <2>5, <3>1, Numbers
    <3> QED
      BY <3>2 DEF q
  <2> QED
    BY <1>3, <1>4, <1>6, <2>6 DEF g
<1> QED
  BY <1>5, <1>6

LEMMA WaitsStep ==
  ASSUME LinkInputsOK, OutagesOK, WInv, NEW dt \in TickSteps, TickWaits(dt)
  PROVE  Stale' /\ Waits'
<1> DEFINE e == Elapsed(now_ms, last_reconnect_attempt_ms)
           f == Elapsed(now_ms', last_reconnect_attempt_ms)
<1>1. /\ IInv /\ TypeOK /\ Rows /\ Stale /\ Waits
      /\ now_ms' = Later(now_ms, dt) /\ since_attempt' = Aged(since_attempt, dt)
      /\ waiting' = Aged(waiting, dt) /\ outage' = 0
      /\ UNCHANGED <<last_reconnect_attempt_ms, suspended_until_ms, row>>
      /\ Suspended(now_ms') \/ ~(f >= RetryIntervalMs)
  BY DEF TickWaits, PassStarts, NotTrying, marks, MayAttempt, WInv, IInv
<1>2. Stale'
  BY <1>1 DEF Stale, Turn, MaxRetryMs, RetryMs, MaxStep, Elapsed
<1>3. dt \in Nat /\ dt <= MaxStep /\ MaxStep \in Nat /\ waiting \in Nat /\ waiting' <= waiting + dt
  <2>1. dt \in Nat /\ dt <= MaxStep /\ MaxStep \in Nat /\ waiting \in Nat
    BY <1>1, Typed, Numbers
  <2> QED
    BY <1>1, <2>1, AgedIs
<1>4. waiting' \in Nat
  <2>1. waiting' \in 0 .. AgeCap
    BY <1>1, <1>3, AgedIs
  <2> QED
    BY <2>1, Numbers
<1>5. ASSUME row >= 1
      PROVE  since_attempt' < Hold' + outage' /\ waiting' <= since_attempt'
  <2>1. f = since_attempt + dt /\ since_attempt' = since_attempt + dt /\ f \in Nat
    BY <1>1, <1>3, <1>5, SinceIs, Typed
  <2>2. Hold' = Hold /\ Hold \in Nat
    BY <1>1, HoldIs DEF Hold, RetryMs
  <2>3. f < Hold
    <3>1. CASE Suspended(now_ms')
      <4>1. suspended_until_ms # 0
        BY <3>1 DEF Suspended
      <4>2. row = SuspendAfter /\ since_attempt + dt < SuspendMs
        BY <1>1, <1>5, <3>1, <4>1, SuspendedIs
      <4> QED
        BY <2>1, <4>2 DEF Hold
    <3>2. CASE ~(f >= RetryIntervalMs)
      <4>1. RetryIntervalMs <= Hold /\ RetryIntervalMs \in Nat
        <5>1. RetryIntervalMs = IF row = SuspendAfter THEN RetryMs(0) ELSE RetryMs(row)
          BY <1>1, IntervalIs
        <5>2. CASE row = SuspendAfter
          <6>1. 0 \in 0 .. SuspendAfter - 1
            BY Numbers
          <6>2. RetryMs(0) \in Nat /\ RetryMs(0) <= MaxRetryMs
            BY <6>1, Numbers
          <6> QED
            BY <5>1, <5>2, <6>2, Numbers DEF Hold
        <5>3. CASE row # SuspendAfter
          BY <2>2, <5>1, <5>3 DEF Hold
        <5> QED
          BY <5>2, <5>3
      <4> HIDE DEF f
      <4> QED
        BY <2>1, <2>2, <3>2, <4>1
    <3> QED
      BY <1>1, <3>1, <3>2
  <2>4. waiting <= since_attempt /\ since_attempt \in Nat
    BY <1>1, <1>5, Typed DEF Waits
  <2> HIDE DEF f
  <2> QED
    BY <1>1, <1>3, <1>4, <2>1, <2>2, <2>3, <2>4
<1>6. ASSUME row = 0
      PROVE  f < RetryMs(0) /\ waiting' <= f + MaxStep
  <2>1. ~Suspended(now_ms')
    BY <1>1, <1>6 DEF Rows, Suspended
  <2>2. /\ RetryIntervalMs = RetryMs(0) /\ RetryMs(0) \in Nat /\ RetryMs(0) <= SuspendMs
        /\ 0 \in 0 .. SuspendAfter - 1
    <3>1. row # SuspendAfter /\ 0 \in 0 .. SuspendAfter - 1
      BY <1>6, Numbers
    <3>2. RetryIntervalMs = RetryMs(0)
      BY <1>1, <1>6, <3>1, IntervalIs
    <3> QED
      BY <3>1, <3>2, Numbers
  <2>3. e \in Times /\ f \in Times
    <3>1. now_ms \in Times /\ last_reconnect_attempt_ms \in Times
      BY <1>1, Typed
    <3>2. now_ms' \in Times
      BY <1>1, <1>3, <3>1, LaterType, Numbers DEF Times
    <3> QED
      BY <3>1, <3>2, ElapsedType, Numbers
  <2>4. f < RetryMs(0)
    <3>1. ~(f >= RetryMs(0)) /\ f \in Nat
      BY <1>1, <2>1, <2>2, <2>3, Numbers DEF Times
    <3> HIDE DEF f
    <3> QED
      BY <2>2, <3>1
  <2>5. waiting' <= f + MaxStep
    <3>1. CASE waiting = 0
      <4>1. f \in Nat
        BY <2>3, Numbers DEF Times
      <4> HIDE DEF f
      <4> QED
        BY <1>3, <1>4, <3>1, <4>1
    <3>2. CASE waiting # 0
      <4>1. e < RetryMs(0) /\ waiting <= e + MaxStep /\ e \in Nat /\ f \in Nat
        <5>1. waiting > 0
          BY <1>3, <3>2
        <5> QED
          BY <1>1, <1>6, <2>3, <5>1, Numbers DEF Waits, Times
      <4>2. f = e + dt
        <5>1. e + dt < ClockRange
          <6>1. SuspendMs + MaxStep < ClockRange /\ SuspendMs \in Nat /\ ClockRange \in Nat
            <7>1. /\ 2 * (0 * Turn + Turn) < ClockRange /\ Turn \in Nat
                  /\ MaxOutage + MaxStep <= Turn
              BY <2>2, TurnBounds
            <7> QED
              BY <1>3, <7>1, Numbers
          <6> HIDE DEF e, f
          <6> QED
            BY <1>3, <2>2, <4>1, <6>1
        <5>2. now_ms \in Times /\ last_reconnect_attempt_ms \in Times
          BY <1>1, Typed
        <5> QED
          BY <1>1, <1>3, <5>1, <5>2, ElapsedGrows, Numbers
      <4> HIDE DEF e, f
      <4> QED
        BY <1>3, <1>4, <4>1, <4>2
    <3> QED
      BY <3>1, <3>2
  <2> QED
    BY <2>4, <2>5
<1>7. /\ f = Elapsed(now_ms', last_reconnect_attempt_ms')
      /\ RetryMs(0)' = RetryMs(0) /\ MaxStep' = MaxStep
  BY <1>1 DEF RetryMs, MaxStep
<1> HIDE DEF f
<1> QED
  BY <1>1, <1>2, <1>5, <1>6, <1>7 DEF Waits

LEMMA ConnectStep ==
  ASSUME LinkInputsOK, OutagesOK, WInv, NEW dt \in TickSteps, TickConnect(dt)
  PROVE  Stale' /\ Waits'
<1>1. /\ IInv /\ IInv' /\ TypeOK /\ Rows /\ Stale
      /\ now_ms' = Later(now_ms, dt) /\ last_reconnect_attempt_ms' = now_ms'
      /\ since_attempt' = 0 /\ waiting' = 0 /\ outage' = 0 /\ ~Suspended(now_ms')
  BY ConnectInv DEF TickConnect, PassStarts, MayAttempt, WInv, IInv
<1>2. Rows' /\ TypeOK'
  BY <1>1 DEF IInv
<1>3. row' \in 0 .. SuspendAfter
  BY <1>2 DEF TypeOK
<1>4. Hold' > 0 /\ Hold' \in Nat
  <2>1. Hold' = IF row' = SuspendAfter THEN SuspendMs ELSE RetryMs(row')
    BY DEF Hold, RetryMs
  <2>2. row' # SuspendAfter => row' \in 0 .. SuspendAfter - 1
    BY <1>3, Numbers
  <2> QED
    BY <2>1, <2>2, Numbers
<1>5. Waits'
  <2> DEFINE h == Hold'
  <2>1. h \in Nat /\ h > 0
    BY <1>4
  <2> HIDE DEF h
  <2>2. since_attempt' < h + outage'
    BY <1>1, <2>1
  <2>3. waiting' <= since_attempt' /\ ~(waiting' > 0)
    BY <1>1
  <2> QED
    BY <1>1, <2>2, <2>3 DEF Waits, h
<1>6. Stale'
  <2> SUFFICES ASSUME row' \in 1 .. SuspendAfter - 1, suspended_until_ms' # 0
               PROVE  Elapsed(last_reconnect_attempt_ms', suspended_until_ms') <= row' * Turn
    BY DEF Stale, Turn, MaxRetryMs, RetryMs, MaxStep
  <2>1. AttemptFails(now_ms')
    BY Numbers DEF TickConnect, AttemptSucceeds
  <2>2. row' = (row % SuspendAfter) + 1
    BY <2>1 DEF AttemptFails
  <2>3. ~(connect_fail_streak + 1 >= SuspendAfter) /\ suspended_until_ms' = suspended_until_ms
    <3>1. CASE connect_fail_streak + 1 >= SuspendAfter
      <4>1. connect_fail_streak' = 0
        BY <2>1, <3>1 DEF AttemptFails
      <4>2. row' = 0 \/ row' = SuspendAfter
        BY <1>2, <4>1 DEF Rows
      <4> QED
        BY <4>2, Numbers
    <3> QED
      BY <2>1, <3>1 DEF AttemptFails
  <2>4. row >= 1 /\ row \in Nat
    <3>1. row # 0 /\ row \in Nat
      BY <1>1, <2>3, Typed DEF Rows
    <3> QED
      BY <3>1
  <2> DEFINE g == Elapsed(now_ms', suspended_until_ms)
  <2>5. CASE row = SuspendAfter
    <3>1. g <= Turn
      BY <1>1, <2>3, <2>4, <2>5, SuspendedIs
    <3>2. row' = 1 /\ Turn \in Nat /\ 1 * Turn = Turn
      BY <2>2, <2>5, TurnBounds, Numbers
    <3> HIDE DEF g
    <3>3. g <= row' * Turn
      BY <3>1, <3>2
    <3> QED
      BY <1>1, <2>3, <3>3 DEF g
  <2>6. CASE row # SuspendAfter
    <3>1. g <= row * Turn + Turn
      BY <1>1, <2>3, <2>4, <2>6, SuspendedIs
    <3>2. row \in 0 .. SuspendAfter - 1 /\ row % SuspendAfter = row
      BY <1>1, <2>4, <2>6, Typed, Numbers
    <3>3. row' * Turn = row * Turn + Turn
      <4>1. row' = row + 1
        BY <2>2, <3>2
      <4> QED
        BY <3>2, <4>1, TurnBounds
    <3> HIDE DEF g
    <3>4. g <= row' * Turn
      BY <3>1, <3>3
    <3> QED
      BY <1>1, <2>3, <3>4 DEF g
  <2> QED
    BY <2>5, <2>6
<1> QED
  BY <1>5, <1>6

\* What the link and a session that is up do to the waiting.
LEMMA OtherSteps ==
  ASSUME LinkInputsOK, OutagesOK, WInv,
         \/ \E dt \in TickSteps : TickNoWifi(dt) \/ TickConnected(dt)
         \/ LinkChanges \/ UNCHANGED vars
  PROVE  Stale' /\ Waits'
<1>1. IInv /\ TypeOK /\ Stale /\ Waits
  BY DEF WInv, IInv
<1>2. Turn' = Turn /\ MaxStep' = MaxStep /\ RetryMs(0)' = RetryMs(0)
  BY DEF Turn, MaxRetryMs, RetryMs, MaxStep
<1>3. CASE LinkChanges \/ UNCHANGED vars
  <2>1. UNCHANGED <<now_ms, last_reconnect_attempt_ms, suspended_until_ms, row, since_attempt,
                    waiting, outage>>
    BY <1>3 DEF LinkChanges, vars, marks
  <2>2. Hold' = Hold
    BY <2>1 DEF Hold, RetryMs
  <2> QED
    BY <1>1, <1>2, <2>1, <2>2 DEF Stale, Waits, Elapsed
<1>4. ASSUME NEW dt \in TickSteps, TickConnected(dt) PROVE Stale' /\ Waits'
  BY <1>4, Numbers DEF TickConnected, Stale, Waits
<1>5. ASSUME NEW dt \in TickSteps, TickNoWifi(dt) PROVE Stale' /\ Waits'
  <2>1. /\ now_ms' = Later(now_ms, dt) /\ since_attempt' = Aged(since_attempt, dt)
        /\ outage' = outage + dt /\ waiting' = 0
        /\ UNCHANGED <<last_reconnect_attempt_ms, suspended_until_ms, row>>
    BY <1>5 DEF TickNoWifi, PassStarts, NotTrying, marks
  <2>2. Stale'
    BY <1>1, <1>2, <2>1 DEF Stale, Elapsed
  <2>3. ASSUME row >= 1 PROVE since_attempt' < Hold' + outage' /\ waiting' <= since_attempt'
    <3>1. since_attempt' = since_attempt + dt /\ dt \in Nat
      BY <2>1, <2>3, SinceIs
    <3>2. Hold' = Hold /\ Hold \in Nat
      BY <1>1, <2>1, HoldIs DEF Hold, RetryMs
    <3>3. since_attempt < Hold + outage /\ since_attempt \in Nat /\ outage \in Nat
      BY <1>1, <2>3, Typed DEF Waits
    <3> QED
      BY <2>1, <3>1, <3>2, <3>3
  <2> QED
    BY <2>1, <2>2, <2>3 DEF Waits
<1> QED
  BY <1>3, <1>4, <1>5

LEMMA InitWaits == LinkInputsOK /\ Init => WInv
<1> SUFFICES ASSUME LinkInputsOK, Init PROVE WInv
  OBVIOUS
<1>1. row = 0 /\ waiting = 0
  BY DEF Init
<1> QED
  BY <1>1, InitInv DEF WInv, Stale, Waits

LEMMA StepWaits == LinkInputsOK /\ OutagesOK /\ WInv /\ [Next]_vars => WInv'
<1> SUFFICES ASSUME LinkInputsOK, OutagesOK, WInv, [Next]_vars PROVE WInv'
  OBVIOUS
<1>1. IInv'
  BY StepInv DEF WInv
<1>2. Stale' /\ Waits'
  <2>1. ASSUME NEW dt \in TickSteps, TickWaits(dt) PROVE Stale' /\ Waits'
    BY <2>1, WaitsStep
  <2>2. ASSUME NEW dt \in TickSteps, TickConnect(dt) PROVE Stale' /\ Waits'
    BY <2>2, ConnectStep
  <2>3. CASE \/ \E dt \in TickSteps : TickNoWifi(dt) \/ TickConnected(dt)
             \/ LinkChanges \/ UNCHANGED vars
    BY <2>3, OtherSteps
  <2> QED
    BY <2>1, <2>2, <2>3 DEF Next, Tick
<1> QED
  BY <1>1, <1>2 DEF WInv

LEMMA WaitsEnd == LinkInputsOK /\ WInv => SuspensionEnds
<1> SUFFICES ASSUME LinkInputsOK, WInv PROVE waiting <= SuspendMs + MaxStep
  BY DEF SuspensionEnds
<1>1. IInv /\ TypeOK /\ Waits
  BY DEF WInv, IInv
<1>2. /\ waiting \in Nat /\ row \in Nat /\ since_attempt \in Nat /\ SuspendMs \in Nat
      /\ MaxStep \in Nat /\ Hold \in Nat /\ Hold <= SuspendMs
  BY <1>1, Typed, HoldIs, Numbers
<1>3. CASE waiting = 0
  BY <1>2, <1>3
<1>4. CASE waiting # 0 /\ row >= 1
  <2>1. since_attempt < Hold + 0 /\ waiting <= since_attempt
    BY <1>1, <1>2, <1>4 DEF Waits
  <2> QED
    BY <1>2, <2>1
<1>5. CASE waiting # 0 /\ row = 0
  <2> DEFINE e == Elapsed(now_ms, last_reconnect_attempt_ms)
  <2>1. e < RetryMs(0) /\ waiting <= e + MaxStep
    BY <1>1, <1>2, <1>5 DEF Waits
  <2>2. RetryMs(0) \in Nat /\ RetryMs(0) <= SuspendMs
    <3>1. 0 \in 0 .. SuspendAfter - 1
      BY Numbers
    <3> QED
      BY <3>1, Numbers
  <2>3. e \in Nat
    BY <1>1, Typed, Numbers DEF Times
  <2> HIDE DEF e
  <2> QED
    BY <1>2, <2>1, <2>2, <2>3
<1> QED
  BY <1>2, <1>3, <1>4, <1>5

\* For every suspension, backoff and wrapping clock, and outages that end before the clock
\* has turned half: with the link up, the client is never kept from its next attempt
\* for longer than one suspension.
THEOREM SuspensionIsOver ==
  ASSUME LinkInputsOK, OutagesOK
  PROVE  Spec => []SuspensionEnds
<1>1. Init => WInv
  BY InitWaits
<1>2. WInv /\ [Next]_vars => WInv'
  BY StepWaits
<1>3. WInv => SuspensionEnds
  BY WaitsEnd
<1> QED
  BY <1>1, <1>2, <1>3, PTL DEF Spec
=============================================================================
