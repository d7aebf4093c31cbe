-------------------------- MODULE MCDevices_proofs --------------------------
(***************************************************************************)
(* Theorems about what the loop drives, for every value of the constants.  *)
(* The display and the watchdog are proved here; the theorems about the    *)
(* other devices, which have a proof module each, are taken from there.    *)
(***************************************************************************)
EXTENDS MCDevices, Sequences, FiniteSetTheorems, TLAPS

-----------------------------------------------------------------------------
(* The display: for every set of fan speeds and readings and every pair of *)
(* SoftAP names the render cache never claims what the panel does not      *)
(* show, and between two passes a lit panel shows the state.               *)

DevType ==
  [fan : Nat, pm25 : Nat, pm10 : Nat, enabled : BOOLEAN, ready : BOOLEAN, lights : BOOLEAN]
Names == {Placeholder, OwnSsid, ""}
CacheType ==
  [fan : Nat \cup {None}, pm25 : Nat \cup {None}, pm10 : Nat \cup {None},
   enabled : BOOLEAN, ready : BOOLEAN, drawn : BOOLEAN, setup : BOOLEAN, ssid : Names]

\* What a cache says of a screen; CacheIsTruthful is Truthful(cache, screen).
Truthful(c, s) ==
  /\ c.drawn => s = MainPicture(c)
  /\ c.setup => s = SetupPicture(c.ssid)

\* A lit panel as it should be.
Shown ==
  IF setup_mode THEN screen = SetupPicture(SoftApSsid)
  ELSE screen \in {MainPicture(dev), SetupPicture(SoftApSsid)}

\* Whatever changes the state marks the display, so a clean display is current; and no
\* pass begins with a marked one.
CleanIsCurrent ==
  /\ ~dirty /\ dev.lights => Shown
  /\ pc = "display" => ~dirty

IInv == TypeOK /\ Truthful(cache, screen) /\ CleanIsCurrent

LEMMA Inputs == Fans \subseteq Nat /\ Readings \subseteq Nat
BY InputAssumption

LEMMA NoCacheType == NoCache \in CacheType /\ ~NoCache.drawn /\ ~NoCache.setup
BY DEF NoCache, CacheType, None, Names

LEMMA SsidType == SoftApSsid \in Names
BY DEF SoftApSsid, Names

\* A setup screen that is drawn is a setup screen the cache knows.
LEMMA SetupCacheTruthful ==
  ASSUME NEW c \in CacheType, NEW name \in Names
  PROVE  SetupCache(c, name) \in CacheType /\ Truthful(SetupCache(c, name), SetupPicture(name))
BY DEF SetupCache, Truthful, CacheType

\* Whatever was drawn before, the parts that differ from a truthful cache make the
\* main screen of the new state.
LEMMA PartsMakeMain ==
  ASSUME NEW c \in CacheType, NEW d \in DevType, NEW s, Truthful(c, s)
  PROVE  PartsDrawn(StartCache(c, d), StartScreen(c, s), d) = MainPicture(d)
<1> DEFINE k == StartCache(c, d)
           f == StartScreen(c, s)
           stale == <<k.enabled, k.ready>> # <<d.enabled, d.ready>>
<1>1. CASE c.drawn
  <2>1. f = MainPicture(c)
    BY <1>1 DEF Truthful, StartScreen
  <2>2. /\ k.fan = c.fan /\ k.pm25 = c.pm25 /\ k.pm10 = c.pm10
        /\ k.enabled = c.enabled /\ k.ready = c.ready
    BY <1>1 DEF StartCache, CacheType
  <2>3. ~stale => Icon(c) = Icon(d)
    BY <2>2 DEF Icon
  <2> HIDE DEF k, f, stale
  <2>4. /\ f.fill = MainFill /\ f.icon = Icon(c) /\ f.gauge = Lit(c.fan) /\ f.digits = c.fan
        /\ f.symbol = Symbol(c.fan) /\ f.pm25 = c.pm25 /\ f.pm10 = c.pm10
    BY <2>1 DEF MainPicture
  <2>5. /\ (IF stale THEN Icon(d) ELSE f.icon) = Icon(d)
        /\ (IF k.fan # d.fan THEN Lit(d.fan) ELSE f.gauge) = Lit(d.fan)
        /\ (IF k.fan # d.fan THEN d.fan ELSE f.digits) = d.fan
        /\ (IF k.fan # d.fan THEN Symbol(d.fan) ELSE f.symbol) = Symbol(d.fan)
        /\ (IF k.pm25 # d.pm25 THEN d.pm25 ELSE f.pm25) = d.pm25
        /\ (IF k.pm10 # d.pm10 THEN d.pm10 ELSE f.pm10) = d.pm10
    BY <2>2, <2>3, <2>4
  <2> QED
    BY <2>4, <2>5 DEF PartsDrawn, MainPicture, k, f, stale
<1>2. CASE ~c.drawn
  <2>1. /\ k.fan # d.fan /\ k.pm25 # d.pm25 /\ k.pm10 # d.pm10
    BY <1>2 DEF StartCache, CacheType, DevType, None
  <2>2. k.enabled <=> ~d.enabled
    BY <1>2 DEF StartCache, CacheType, DevType
  <2>3. stale
    BY <2>2 DEF DevType
  <2>4. f = [Filled(MainFill) EXCEPT !.gauge = Lit(0)]
    BY <1>2 DEF StartScreen
  <2> HIDE DEF k, f, stale
  <2>5. f.fill = MainFill
    BY <2>4 DEF Filled
  <2> QED
    BY <2>1, <2>3, <2>5 DEF PartsDrawn, MainPicture, k, f, stale
<1> QED
  BY <1>1, <1>2 DEF CacheType

LEMMA DrawnTruthful ==
  ASSUME NEW c \in CacheType, NEW d \in DevType
  PROVE  /\ Drawn(StartCache(c, d), d) \in CacheType
         /\ Truthful(Drawn(StartCache(c, d), d), MainPicture(d))
<1> DEFINE k == StartCache(c, d)
<1>1. k \in CacheType /\ ~k.setup
  BY DEF StartCache, CacheType, DevType, None
<1> HIDE DEF k
<1>2. /\ Drawn(k, d) \in CacheType
      /\ ~Drawn(k, d).setup
      /\ Drawn(k, d).fan = d.fan /\ Drawn(k, d).pm25 = d.pm25 /\ Drawn(k, d).pm10 = d.pm10
      /\ Drawn(k, d).enabled = d.enabled /\ Drawn(k, d).ready = d.ready
  BY <1>1 DEF Drawn, CacheType, DevType
<1>3. MainPicture(Drawn(k, d)) = MainPicture(d)
  BY <1>2 DEF MainPicture, Icon
<1> QED
  BY <1>2, <1>3 DEF Truthful, k

-----------------------------------------------------------------------------

LEMMA InitInv == Init => IInv
<1> SUFFICES ASSUME Init PROVE IInv
  OBVIOUS
<1>1. dev \in DevType /\ dirty /\ pc = "outputs" /\ reinit
  <2>1. /\ dev = [fan |-> 25, pm25 |-> 0, pm10 |-> 0, enabled |-> TRUE, ready |-> FALSE, lights |-> TRUE]
        /\ dirty = TRUE /\ pc = "outputs" /\ reinit = TRUE
    BY DEF Init
  <2> QED
    BY <2>1 DEF DevType
<1>2. cache \in CacheType /\ Truthful(cache, screen)
  <2>1. CASE setup_mode
    BY <2>1, NoCacheType, SsidType, SetupCacheTruthful DEF Init
  <2>2. CASE ~setup_mode
    BY <2>2, NoCacheType DEF Init, Truthful
  <2> QED
    BY <2>1, <2>2 DEF Init
<1> QED
  BY <1>1, <1>2 DEF Init, IInv, TypeOK, CleanIsCurrent, DevType, CacheType, Names

LEMMA ReinitInv == IInv /\ TickDisplayReinit => IInv'
<1> SUFFICES ASSUME IInv, TickDisplayReinit PROVE IInv'
  OBVIOUS
<1>1. cache' \in CacheType /\ Truthful(cache', screen')
  <2>1. CASE ~dev.lights
    BY <2>1, NoCacheType DEF TickDisplayReinit, Truthful
  <2>2. CASE dev.lights /\ setup_mode
    BY <2>2, NoCacheType, SsidType, SetupCacheTruthful DEF TickDisplayReinit
  <2>3. CASE dev.lights /\ ~setup_mode
    BY <2>3, NoCacheType DEF TickDisplayReinit, Truthful, CacheType
  <2> QED
    BY <2>1, <2>2, <2>3
<1>2. dirty' /\ pc' = "work"
  BY DEF TickDisplayReinit
<1> QED
  BY <1>1, <1>2 DEF TickDisplayReinit, IInv, TypeOK, CleanIsCurrent, CacheType, Names

\* A step that marks the display, and one that leaves all of it alone.
LEMMA MarkInv ==
  ASSUME IInv, dev' \in DevType, force' \in BOOLEAN, dirty', Changed
  PROVE  IInv'
<1>1. Truthful(cache', screen')
  BY DEF Changed, IInv
<1> QED
  <2>1. TypeOK /\ pc' = pc /\ pc = "work" /\ applied' = applied /\ setup_mode' = setup_mode
        /\ listening' = listening /\ reinit' = reinit /\ cache' = cache
    BY DEF Changed, IInv
  <2>2. TypeOK'
    <3>1. dirty' \in BOOLEAN
      OBVIOUS
    <3>2. pc' \in {"display", "work", "outputs"} /\ cache' \in CacheType
      BY <2>1 DEF TypeOK, CacheType, Names
    <3>3. /\ applied' \in BOOLEAN /\ setup_mode' \in BOOLEAN /\ listening' \in BOOLEAN
          /\ reinit' \in BOOLEAN
      BY <2>1, Zenon DEF TypeOK
    <3> QED
      BY <3>1, <3>2, <3>3 DEF TypeOK, DevType, CacheType, Names
  <2>3. CleanIsCurrent'
    BY <2>1 DEF CleanIsCurrent
  <2> QED
    BY <1>1, <2>2, <2>3 DEF IInv

LEMMA QuietInv ==
  ASSUME IInv, pc' \in {"work", "outputs"}, listening' \in BOOLEAN,
         UNCHANGED <<dev, dirty, applied, force, setup_mode, reinit, cache, screen>>
  PROVE  IInv'
<1>1. Truthful(cache', screen') /\ (Shown' <=> Shown)
  BY DEF IInv, Shown, SoftApSsid
<1>2. TypeOK'
  <2>1. pc' \in {"display", "work", "outputs"}
    OBVIOUS
  <2>2. TypeOK /\ dev' = dev /\ dirty' = dirty /\ applied' = applied /\ force' = force
        /\ setup_mode' = setup_mode /\ reinit' = reinit /\ cache' = cache
    BY DEF IInv
  <2> QED
    BY <2>1, <2>2, Zenon DEF TypeOK
<1>3. CleanIsCurrent'
  BY <1>1 DEF IInv, CleanIsCurrent
<1> QED
  BY <1>1, <1>2, <1>3 DEF IInv

LEMMA ApplyOutputsInv == IInv /\ ApplyOutputs => IInv'
<1> SUFFICES ASSUME IInv, ApplyOutputs PROVE IInv'
  OBVIOUS
<1> DEFINE c == CacheAfterLights
<1>1. c \in CacheType /\ Truthful(c, screen) /\ (dev.lights => c = cache)
  <2>1. cache \in CacheType /\ Truthful(cache, screen)
    BY DEF IInv, TypeOK, CacheType, Names
  <2>2. c = cache \/ (c = NoCache /\ ~dev.lights)
    BY DEF CacheAfterLights
  <2>3. Truthful(NoCache, screen)
    BY NoCacheType DEF Truthful
  <2> QED
    BY <2>1, <2>2, <2>3, NoCacheType
<1>2. dev \in DevType
  BY DEF IInv, TypeOK, DevType
<1> HIDE DEF c
<1>3. /\ cache' \in CacheType /\ Truthful(cache', screen')
      /\ dev.lights => Shown'
  <2>1. CASE ~dirty
    BY <1>1, <2>1 DEF ApplyOutputs, c, IInv, CleanIsCurrent, Shown, SoftApSsid
  <2>2. CASE dirty /\ SetupWanted
    <3>1. RenderSetupScreen(c, SoftApSsid)
      BY <2>2 DEF ApplyOutputs, c
    <3>2. screen' = SetupPicture(SoftApSsid)
      BY <1>1, <3>1 DEF RenderSetupScreen, SetupShown, Truthful
    <3>3. cache' \in CacheType /\ Truthful(cache', screen')
      BY <1>1, <3>1, SsidType, SetupCacheTruthful DEF RenderSetupScreen
    <3> QED
      BY <3>2, <3>3 DEF ApplyOutputs, Shown, SoftApSsid
  <2>3. CASE dirty /\ ~SetupWanted
    <3>1. Render(c, dev) /\ ~setup_mode
      BY <2>3 DEF ApplyOutputs, c, SetupWanted
    <3>2. CASE ~dev.lights
      BY <1>1, <3>1, <3>2 DEF Render
    <3>3. CASE dev.lights
      BY <1>1, <1>2, <3>1, <3>3, PartsMakeMain, DrawnTruthful
         DEF Render, ApplyOutputs, Shown
    <3> QED
      BY <3>2, <3>3
  <2> QED
    BY <2>1, <2>2, <2>3
<1>4. dev' = dev /\ pc' = "display" /\ ~dirty'
  BY DEF ApplyOutputs
<1> QED
  BY <1>3, <1>4 DEF ApplyOutputs, IInv, TypeOK, CleanIsCurrent, CacheType, Names

LEMMA StepInv == IInv /\ [Next]_vars => IInv'
<1> SUFFICES ASSUME IInv, [Next]_vars PROVE IInv'
  OBVIOUS
<1>0. dev \in DevType /\ dirty \in BOOLEAN /\ force \in BOOLEAN /\ listening \in BOOLEAN
  BY DEF IInv, TypeOK, DevType
<1>1. CASE TickDisplayReinit
  BY <1>1, ReinitInv
<1>2. CASE TickDisplay
  BY <1>0, <1>2, QuietInv DEF TickDisplay
<1>3. CASE RouterApply
  <2>1. dev' \in DevType
    BY <1>0, <1>3, Inputs DEF RouterApply, DevType
  <2> QED
    BY <1>0, <1>3, <2>1, MarkInv DEF RouterApply
<1>4. CASE TickReport
  <2>1. dev' \in DevType
    BY <1>0, <1>4, Inputs DEF TickReport, DevType
  <2> QED
    BY <1>0, <1>4, <2>1, MarkInv DEF TickReport
<1>5. CASE TickNetwork
  <2>1. dev' \in DevType
    BY <1>0, <1>5 DEF TickNetwork, DevType
  <2> QED
    BY <1>0, <1>5, <2>1, MarkInv DEF TickNetwork
<1>6. CASE ListeningChanges
  BY <1>0, <1>6, QuietInv DEF ListeningChanges
<1>7. CASE EndOfWork
  BY <1>0, <1>7, QuietInv DEF EndOfWork
<1>8. CASE ApplyOutputs
  BY <1>8, ApplyOutputsInv
<1>9. CASE UNCHANGED vars
  <2>1. Truthful(cache', screen') /\ (Shown' <=> Shown)
    BY <1>9 DEF vars, IInv, Shown, SoftApSsid
  <2>2. TypeOK'
    <3>1. TypeOK /\ pc' = pc /\ dev' = dev /\ dirty' = dirty /\ applied' = applied
          /\ force' = force /\ setup_mode' = setup_mode /\ listening' = listening
          /\ reinit' = reinit /\ cache' = cache
      BY <1>9 DEF vars, IInv
    <3>2. /\ pc' \in {"display", "work", "outputs"} /\ dev' \in DevType /\ cache' \in CacheType
      <4>1. cache \in CacheType
        BY <3>1, Zenon DEF TypeOK, CacheType, Names
      <4>2. pc \in {"display", "work", "outputs"}
        BY <3>1, Zenon DEF TypeOK
      <4> QED
        BY <1>0, <3>1, <4>1, <4>2, Zenon
    <3>3. /\ dirty' \in BOOLEAN /\ applied' \in BOOLEAN /\ force' \in BOOLEAN
          /\ setup_mode' \in BOOLEAN /\ listening' \in BOOLEAN /\ reinit' \in BOOLEAN
      BY <3>1, Zenon DEF TypeOK
    <3> QED
      BY <3>2, <3>3, Zenon DEF TypeOK, DevType, CacheType, Names
  <2>3. CleanIsCurrent'
    BY <1>9, <2>1 DEF vars, IInv, CleanIsCurrent
  <2> QED
    BY <2>1, <2>2, <2>3 DEF IInv
<1> QED
  BY <1>1, <1>2, <1>3, <1>4, <1>5, <1>6, <1>7, <1>8, <1>9 DEF Next

-----------------------------------------------------------------------------
(* The watchdog answers every silence, for every timing of the loop, as    *)
(* long as the clock does not wrap.                                        *)

WakeTimes == 0 .. WakeClock - 1

\* The parameters as numbers, and the longest pass.
LEMMA WakeNumbers ==
  ASSUME W!WakeTimesOK
  PROVE  /\ WatchdogMs \in Nat \ {0} /\ WakeStepGapMs \in Nat \ {0} /\ WakeClock \in Nat
         /\ WakeSteps \subseteq Nat \ {0} /\ W!MaxStep \in WakeSteps
         /\ \A dt \in WakeSteps : dt <= W!MaxStep
         /\ WakeClock > WatchdogMs + 3 * WakeStepGapMs + 4 * W!MaxStep
<1>1. \E m \in WakeSteps : \A dt \in WakeSteps : m >= dt
  BY DEF W!WakeTimesOK
<1>2. W!MaxStep \in WakeSteps /\ \A dt \in WakeSteps : W!MaxStep >= dt
  BY <1>1 DEF W!MaxStep, W!Max
<1>3. WakeSteps \subseteq Nat
  BY DEF W!WakeTimesOK
<1>4. W!MaxStep \in Nat /\ \A dt \in WakeSteps : dt \in Nat
  BY <1>2, <1>3
<1>5. \A dt \in WakeSteps : dt <= W!MaxStep
  BY <1>2, <1>4
<1> QED
  BY <1>2, <1>5 DEF W!WakeTimesOK, W!MaxStep

\* Below the end of the clock the modulo does nothing.
LEMMA WakeNoWrap ==
  ASSUME NEW n \in WakeTimes, WakeClock \in Nat PROVE n % WakeClock = n
BY DEF WakeTimes

-----------------------------------------------------------------------------
(* The inductive invariant: the silence is measured by last_rx_ms exactly, *)
(* and while the sequence runs it is bounded by the mark of its next step, *)
(* each step having come one pass late at most.                            *)

WakeTyped ==
  /\ wake_ms \in WakeTimes /\ wake_ms + WakeStepGapMs < WakeClock
  /\ last_rx_ms \in 0 .. wake_ms /\ next_wake_ms \in WakeTimes
  /\ wake_step \in {0, 2, 3} /\ command \in 0 .. 3

WakeMeasured == quiet = IF wake_ms - last_rx_ms > W!Cap THEN W!Cap ELSE wake_ms - last_rx_ms

WakePaced ==
  /\ wake_step = 0 => wake_ms - last_rx_ms <= WatchdogMs
  /\ wake_step # 0 => wake_ms < next_wake_ms
  /\ wake_step = 2 => next_wake_ms - last_rx_ms <= WatchdogMs + W!MaxStep + WakeStepGapMs
  /\ wake_step = 3 => next_wake_ms - last_rx_ms <= WatchdogMs + 2 * W!MaxStep + 2 * WakeStepGapMs

WakeInv == WakeTyped /\ WakeMeasured /\ WakePaced

LEMMA WakeInit == W!WakeTimesOK /\ W!Init => WakeInv
<1> SUFFICES ASSUME W!WakeTimesOK, W!Init PROVE WakeInv
  OBVIOUS
<1>1. W!MaxStep \in Nat
  BY WakeNumbers
<1> QED
  BY <1>1, WakeNumbers DEF W!Init, WakeInv, WakeTyped, WakeMeasured, WakePaced, WakeTimes, W!Cap, W!AnsweredBy

\* One pass of the loop, with or without a byte.
LEMMA WakeTickInv ==
  ASSUME W!WakeTimesOK, WakeInv, NEW dt \in WakeSteps, NEW talks \in BOOLEAN,
         wake_ms + dt + WakeStepGapMs < WakeClock, W!TickAfter(dt, talks)
  PROVE  WakeInv'
<1> DEFINE t == wake_ms + dt
           rx == IF talks THEN t ELSE last_rx_ms
           wakes == t - rx > WatchdogMs /\ wake_step = 0
           step == IF wakes THEN 1 ELSE wake_step
           mark == IF wakes THEN t ELSE next_wake_ms
           sends == step # 0 /\ t >= mark
           ends == sends /\ step = 3
<1>1. /\ dt \in Nat \ {0} /\ dt <= W!MaxStep /\ W!MaxStep \in Nat
      /\ WatchdogMs \in Nat /\ WakeStepGapMs \in Nat \ {0} /\ WakeClock \in Nat
  BY WakeNumbers
<1>2. wake_ms \in Nat /\ last_rx_ms \in Nat /\ last_rx_ms <= wake_ms /\ next_wake_ms \in WakeTimes
  BY <1>1 DEF WakeInv, WakeTyped, WakeTimes
<1>3. t \in WakeTimes /\ t + WakeStepGapMs \in WakeTimes /\ rx \in 0 .. t /\ t - rx \in WakeTimes
  BY <1>1, <1>2 DEF WakeTimes
<1>4. /\ W!Later(wake_ms, dt) = t /\ W!Later(t, WakeStepGapMs) = t + WakeStepGapMs
      /\ W!Elapsed(t, rx) = t - rx
  BY <1>1, <1>3, WakeNoWrap DEF W!Later, W!Elapsed
<1> HIDE DEF t
<1>5. /\ wake_ms' = t /\ command' = IF sends THEN step ELSE 0
      /\ wake_step' = IF ends THEN 0 ELSE IF sends THEN step + 1 ELSE step
      /\ next_wake_ms' = IF sends THEN t + WakeStepGapMs ELSE mark
      /\ last_rx_ms' = IF ends THEN t ELSE rx
      /\ quiet' = IF talks \/ ends THEN 0 ELSE W!Aged(quiet, dt)
  BY <1>4 DEF W!TickAfter, W!Silent, W!Due
<1>6. WakeTyped'
  BY <1>1, <1>2, <1>3, <1>5 DEF WakeInv, WakeTyped, WakeTimes, t
<1>7. WakeMeasured'
  <2>1. W!Cap \in Nat /\ W!Cap' = W!Cap
    BY <1>1 DEF W!Cap, W!AnsweredBy, W!MaxStep
  <2>2. quiet = IF wake_ms - last_rx_ms > W!Cap THEN W!Cap ELSE wake_ms - last_rx_ms
    BY DEF WakeInv, WakeMeasured
  <2>3. quiet' = IF wake_ms' - last_rx_ms' > W!Cap THEN W!Cap ELSE wake_ms' - last_rx_ms'
    <3>1. quiet' = IF talks \/ ends THEN 0 ELSE IF quiet + dt > W!Cap THEN W!Cap ELSE quiet + dt
      BY <1>5 DEF W!Aged
    <3>2. wake_ms' = t /\ last_rx_ms' = IF talks \/ ends THEN t ELSE last_rx_ms
      BY <1>5
    <3> HIDE DEF ends
    <3>3. CASE talks \/ ends
      <4>1. quiet' = 0 /\ wake_ms' = t /\ last_rx_ms' = t
        BY <3>1, <3>2, <3>3
      <4>2. t \in Nat
        BY <1>1, <1>2 DEF t
      <4> QED
        BY <2>1, <4>1, <4>2
    <3>4. CASE ~(talks \/ ends)
      BY <1>1, <1>2, <2>1, <2>2, <3>1, <3>2, <3>4 DEF t
    <3> QED
      BY <3>3, <3>4
  <2> QED
    BY <2>1, <2>3 DEF WakeMeasured
<1>8. WakePaced'
  BY <1>1, <1>2, <1>3, <1>5 DEF WakeInv, WakeTyped, WakePaced, WakeTimes, t
<1> QED
  BY <1>6, <1>7, <1>8 DEF WakeInv

LEMMA WakeStepInv == W!WakeTimesOK /\ WakeInv /\ [W!Next]_(W!vars) => WakeInv'
<1> SUFFICES ASSUME W!WakeTimesOK, WakeInv, [W!Next]_(W!vars) PROVE WakeInv'
  OBVIOUS
<1>1. CASE UNCHANGED W!vars
  BY <1>1 DEF W!vars, WakeInv, WakeTyped, WakeMeasured, WakePaced
<1>2. CASE W!Next
  BY <1>2, WakeTickInv DEF W!Next, W!Tick
<1> QED
  BY <1>1, <1>2

LEMMA WakeAnswers == W!WakeTimesOK /\ WakeInv => W!SilenceIsAnswered
<1> SUFFICES ASSUME W!WakeTimesOK, WakeInv PROVE W!SilenceIsAnswered
  OBVIOUS
<1>1. W!MaxStep \in Nat \ {0} /\ WatchdogMs \in Nat /\ WakeStepGapMs \in Nat
  BY WakeNumbers
<1>2. wake_ms - last_rx_ms <= WatchdogMs + 2 * W!MaxStep + 2 * WakeStepGapMs
  BY <1>1 DEF WakeInv, WakeTyped, WakePaced, WakeTimes
<1> QED
  BY <1>1, <1>2 DEF WakeInv, WakeTyped, WakeMeasured, WakeTimes, W!Cap, W!AnsweredBy,
       W!SilenceIsAnswered

LEMMA WakeTypeOK == W!WakeTimesOK /\ WakeInv => W!TypeOK
<1> SUFFICES ASSUME W!WakeTimesOK, WakeInv PROVE W!TypeOK
  OBVIOUS
<1>1. W!MaxStep \in Nat \ {0} /\ WatchdogMs \in Nat /\ WakeStepGapMs \in Nat /\ WakeClock \in Nat
  BY WakeNumbers
<1>2. /\ wake_ms \in Nat /\ last_rx_ms \in Nat /\ last_rx_ms <= wake_ms /\ wake_ms < WakeClock
      /\ {wake_ms, last_rx_ms, next_wake_ms} \subseteq 0 .. WakeClock - 1
  BY <1>1 DEF WakeInv, WakeTyped, WakeTimes
<1>3. W!Cap \in Nat
  BY <1>1 DEF W!Cap, W!AnsweredBy
<1>4. quiet \in 0 .. W!Cap
  BY <1>2, <1>3 DEF WakeInv, WakeMeasured
<1> QED
  BY <1>2, <1>4 DEF WakeInv, WakeTyped, W!TypeOK

-----------------------------------------------------------------------------
(* The key lights: a steady frame is lit for as many slots as the level    *)
(* says, wherever the setters of the loop fall into the ticks of the timer *)
(* and into the reads of one tick.                                         *)

TickType == [pc : {"sleeps", "divides", "decides", "lights", "darkens"},
             blink : Blinks \cup {0}, visible : BOOLEAN]
SlotType == [lit : BOOLEAN, visible : BOOLEAN]

LightTyped ==
  /\ light_ms \in 0 .. LightClock - 1
  /\ asked \in [pattern : Patterns, level : Levels \cup {FrameSlots}, blink : Blinks \cup {0}]
  /\ pattern_ \in Patterns /\ brightness_ \in 0 .. FrameSlots /\ blink_ms_ \in Blinks \cup {0}
  /\ phase_ \in 0 .. FrameSlots - 1 /\ last_written_ \in Patterns
  /\ setter \in {"pattern", "brightness", "blink"}
  /\ tick \in TickType /\ (tick.pc = "divides" => tick.blink # 0)
  /\ torn \in BOOLEAN

\* The phase in which the j-th slot back was decided.
PhaseOf(j) == IF j <= phase_ THEN phase_ - j ELSE phase_ - j + FrameSlots

\* The slots that are remembered were decided by the level of now.
RecentIsLevel ==
  /\ recent \in Seq(SlotType) /\ Len(recent) <= FrameSlots
  /\ \A j \in 1 .. Len(recent) :
       /\ recent[j].visible = recent[1].visible
       /\ recent[j].lit <=> recent[j].visible /\ PhaseOf(j) < brightness_

\* So is the slot a tick has decided, unless a setter changed something after it did.
TickIsLevel ==
  tick.pc \in {"lights", "darkens"} /\ ~torn =>
    (tick.pc = "lights" <=> tick.visible /\ phase_ < brightness_)

LightInv == LightTyped /\ RecentIsLevel /\ TickIsLevel

LEMMA LightNumbers ==
  ASSUME K!KeyLightInputsOK
  PROVE  /\ Patterns \subseteq Nat /\ 0 \in Patterns /\ Levels \subseteq Nat /\ Blinks \subseteq Nat
         /\ FrameSlots \in Nat \ {0} /\ LightClock \in Nat \ {0}
BY DEF K!KeyLightInputsOK

LEMMA SleepingType == K!Sleeping \in TickType /\ K!Sleeping.pc = "sleeps"
BY DEF K!Sleeping, TickType

LEMMA LightInit == K!KeyLightInputsOK /\ K!Init => LightInv
<1> SUFFICES ASSUME K!KeyLightInputsOK, K!Init PROVE LightInv
  OBVIOUS
<1>1. LightTyped
  <2>1. K!Sleeping \in TickType /\ K!Sleeping.pc = "sleeps"
    BY SleepingType
  <2>2. /\ asked = [pattern |-> 0, level |-> FrameSlots, blink |-> 0] /\ brightness_ = FrameSlots
        /\ light_ms = 0 /\ pattern_ = 0 /\ blink_ms_ = 0 /\ phase_ = 0 /\ last_written_ = 0
        /\ setter = "pattern" /\ tick = K!Sleeping /\ torn = FALSE
    BY DEF K!Init
  <2>3. /\ 0 \in 0 .. LightClock - 1 /\ 0 \in 0 .. FrameSlots - 1 /\ FrameSlots \in 0 .. FrameSlots /\ 0 \in Patterns
    BY LightNumbers
  <2> QED
    BY <2>1, <2>2, <2>3, Zenon DEF LightTyped
<1>2. RecentIsLevel
  <2>1. recent = <<>> /\ Len(recent) = 0
    BY DEF K!Init
  <2> QED
    BY <2>1, LightNumbers DEF RecentIsLevel
<1>3. TickIsLevel
  BY DEF K!Init, K!Sleeping, TickIsLevel
<1> QED
  BY <1>1, <1>2, <1>3 DEF LightInv

\* A setter either changes nothing the history depends on or begins a new history, and
\* a tick that has decided its slot is torn by it.
LEMMA SetterInv ==
  ASSUME K!KeyLightInputsOK, LightInv, LightTyped', NEW changed \in BOOLEAN, K!Broken(changed),
         ~changed => brightness_' = brightness_, UNCHANGED <<phase_, tick>>
  PROVE  LightInv'
<1>1. RecentIsLevel'
  <2>1. CASE changed
    <3>1. recent' = <<>> /\ Len(recent') = 0
      BY <2>1 DEF K!Broken
    <3> QED
      BY <3>1, LightNumbers DEF RecentIsLevel
  <2>2. CASE ~changed
    <3>1. recent' = recent /\ brightness_' = brightness_ /\ phase_' = phase_
      BY <2>2 DEF K!Broken
    <3> QED
      BY <3>1 DEF LightInv, RecentIsLevel, PhaseOf
  <2> QED
    BY <2>1, <2>2
<1>2. TickIsLevel'
  <2>1. tick.pc \in {"lights", "darkens"} /\ changed => torn'
    BY DEF K!Broken
  <2>2. ~changed => (torn' <=> torn)
    BY DEF K!Broken, LightInv, LightTyped
  <2> QED
    BY <2>1, <2>2 DEF LightInv, TickIsLevel
<1> QED
  BY <1>1, <1>2 DEF LightInv

LEMMA LoopInv == K!KeyLightInputsOK /\ LightInv /\ K!Loop => LightInv'
<1> SUFFICES ASSUME K!KeyLightInputsOK, LightInv, K!Loop PROVE LightInv'
  OBVIOUS
<1>0. LightTyped /\ K!Clamped(asked.level) \in 0 .. FrameSlots
  BY LightNumbers DEF LightInv, LightTyped, K!Clamped
<1>1. CASE K!ApplyCommand
  <2>1. LightTyped'
    BY <1>0, <1>1 DEF LightTyped, K!ApplyCommand, K!Settings, K!members
  <2> QED
    BY <1>1, <2>1 DEF LightInv, RecentIsLevel, TickIsLevel, PhaseOf, K!ApplyCommand, K!members
<1>2. CASE K!SetPattern
  <2>1. LightTyped'
    BY <1>0, <1>2 DEF LightTyped, K!SetPattern, K!Broken
  <2> QED
    BY <1>2, <2>1, SetterInv DEF K!SetPattern
<1>3. CASE K!SetBrightness
  <2>1. LightTyped'
    BY <1>0, <1>3 DEF LightTyped, K!SetBrightness, K!Broken
  <2> QED
    BY <1>3, <2>1, SetterInv DEF K!SetBrightness
<1>4. CASE K!SetBlinkMs
  <2>1. LightTyped'
    BY <1>0, <1>4 DEF LightTyped, K!SetBlinkMs, K!Broken
  <2> QED
    BY <1>4, <2>1, SetterInv DEF K!SetBlinkMs
<1> QED
  BY <1>1, <1>2, <1>3, <1>4 DEF K!Loop

LEMMA TickEndsInv == K!KeyLightInputsOK /\ LightInv /\ K!TickEnds => LightInv'
<1> SUFFICES ASSUME K!KeyLightInputsOK, LightInv, K!TickEnds PROVE LightInv'
  OBVIOUS
<1>1. /\ FrameSlots \in Nat \ {0} /\ phase_ \in 0 .. FrameSlots - 1 /\ brightness_ \in 0 .. FrameSlots
      /\ tick \in TickType /\ 0 \in Patterns /\ recent \in Seq(SlotType) /\ Len(recent) <= FrameSlots
      /\ torn \in BOOLEAN
  BY LightNumbers DEF LightInv, LightTyped, RecentIsLevel
<1>2. /\ phase_' = (IF phase_ + 1 = FrameSlots THEN 0 ELSE phase_ + 1) /\ brightness_' = brightness_
      /\ tick' = K!Sleeping /\ ~torn'
  <2>1. (phase_ + 1) % FrameSlots = IF phase_ + 1 = FrameSlots THEN 0 ELSE phase_ + 1
    BY <1>1
  <2> QED
    BY <2>1 DEF K!TickEnds, K!members
<1>3. LightTyped'
  <2>1. phase_' \in 0 .. FrameSlots - 1
    BY <1>1, <1>2
  <2>2. last_written_' \in Patterns
    BY <1>1 DEF K!TickEnds, LightInv, LightTyped
  <2> QED
    BY <1>2, <2>1, <2>2, SleepingType DEF K!TickEnds, K!members, LightInv, LightTyped
<1>4. TickIsLevel'
  BY <1>2 DEF K!Sleeping, TickIsLevel
<1>5. CASE torn
  <2>1. recent' = <<>> /\ Len(recent') = 0
    BY <1>5 DEF K!TickEnds
  <2> QED
    BY <1>1, <1>3, <1>4, <2>1 DEF LightInv, RecentIsLevel
<1>6. CASE ~torn
  <2> DEFINE lit == tick.pc = "lights"
             slot == [lit |-> lit, visible |-> tick.visible]
             same == \A j \in 1 .. Len(recent) : recent[j].visible = tick.visible
             kept == IF same THEN recent ELSE <<>>
             next == <<slot>> \o kept
             n == IF Len(next) > FrameSlots THEN FrameSlots ELSE Len(next)
  <2>1. slot \in SlotType /\ (slot.lit <=> slot.visible /\ phase_ < brightness_)
        /\ slot.visible = tick.visible
    BY <1>1, <1>6 DEF TickType, SlotType, LightInv, TickIsLevel, K!TickEnds
  <2>2. kept \in Seq(SlotType) /\ Len(kept) <= FrameSlots
        /\ \A j \in 1 .. Len(kept) : kept[j] = recent[j] /\ recent[j].visible = tick.visible
           /\ j \in 1 .. Len(recent)
    <3>1. CASE same
      BY <1>1, <3>1
    <3>2. CASE ~same
      <4>1. kept = <<>> /\ Len(kept) = 0
        BY <3>2
      <4> QED
        BY <1>1, <4>1
    <3> QED
      BY <3>1, <3>2
  <2>3. recent' = SubSeq(next, 1, n)
    BY <1>6 DEF K!TickEnds, K!Recent
  <2> HIDE DEF kept, slot, lit
  <2>4. /\ next \in Seq(SlotType) /\ Len(next) = Len(kept) + 1
        /\ next[1] = slot /\ \A j \in 2 .. Len(next) : next[j] = kept[j - 1]
    BY <2>1, <2>2
  <2> HIDE DEF next
  <2>5. n \in Nat /\ 1 <= n /\ n <= FrameSlots /\ n <= Len(next)
    BY <1>1, <2>2, <2>4
  <2> HIDE DEF n
  <2>6. recent' \in Seq(SlotType) /\ Len(recent') = n /\ \A j \in 1 .. n : recent'[j] = next[j]
    BY <2>3, <2>4, <2>5
  <2>7. ASSUME NEW j \in 1 .. n
        PROVE  /\ recent'[j].visible = recent'[1].visible
               /\ recent'[j].lit <=> recent'[j].visible /\ PhaseOf(j)' < brightness_'
    <3>1. recent'[1] = slot
      BY <2>4, <2>5, <2>6
    <3>2. CASE j = 1
      <4>1. PhaseOf(j)' = phase_
        BY <1>1, <1>2, <3>2 DEF PhaseOf
      <4> QED
        BY <1>2, <2>1, <3>1, <3>2, <4>1
    <3>3. CASE j # 1
      <4>1. j - 1 \in 1 .. Len(kept) /\ j \in 2 .. Len(next) /\ recent'[j] = kept[j - 1]
        BY <2>2, <2>4, <2>5, <2>6, <3>3
      <4>2. recent'[j] = recent[j - 1] /\ recent[j - 1].visible = tick.visible
            /\ j - 1 \in 1 .. Len(recent)
        BY <2>2, <4>1
      <4>3. PhaseOf(j)' = PhaseOf(j - 1)
        BY <1>1, <1>2, <2>5, <3>3 DEF PhaseOf
      <4>4. recent[j - 1].lit <=> recent[j - 1].visible /\ PhaseOf(j - 1) < brightness_
        BY <4>2 DEF LightInv, RecentIsLevel
      <4> QED
        BY <1>2, <2>1, <3>1, <4>2, <4>3, <4>4
    <3> QED
      BY <3>2, <3>3
  <2> QED
    BY <1>3, <1>4, <2>5, <2>6, <2>7 DEF LightInv, RecentIsLevel
<1> QED
  BY <1>1, <1>5, <1>6

LEMMA TimerInv == K!KeyLightInputsOK /\ LightInv /\ K!Timer => LightInv'
<1> SUFFICES ASSUME K!KeyLightInputsOK, LightInv, K!Timer PROVE LightInv'
  OBVIOUS
<1>0. LightTyped
  BY DEF LightInv
<1>1. CASE K!TickBegins
  <2>1. light_ms' \in 0 .. LightClock - 1
    <3>1. PICK late \in 0 .. MaxLate : light_ms' = (light_ms + 1 + late) % LightClock
      BY <1>1 DEF K!TickBegins
    <3>2. light_ms + 1 + late \in Int /\ LightClock \in Nat \ {0}
      BY <1>0, LightNumbers DEF LightTyped
    <3> QED
      BY <3>1, <3>2
  <2>2. LightTyped'
    BY <1>0, <1>1, <2>1 DEF K!TickBegins, K!members, LightTyped, TickType
  <2> QED
    BY <1>1, <2>2 DEF LightInv, RecentIsLevel, TickIsLevel, PhaseOf, K!TickBegins, K!members
<1>2. CASE K!TickDivides
  <2>1. K!Visible \in BOOLEAN
    BY DEF K!Visible
  <2>2. LightTyped'
    BY <1>0, <1>2, <2>1 DEF K!TickDivides, K!members, LightTyped, TickType
  <2> QED
    BY <1>0, <1>2, <2>2
       DEF LightInv, LightTyped, TickType, RecentIsLevel, TickIsLevel, PhaseOf, K!TickDivides, K!members
<1>3. CASE K!TickDecides
  <2>1. LightTyped'
    BY <1>0, <1>3 DEF K!TickDecides, K!members, LightTyped, TickType
  <2>2. tick' = [tick EXCEPT !.pc = IF K!LitSlot THEN "lights" ELSE "darkens"]
        /\ UNCHANGED <<phase_, brightness_, recent, torn>>
    BY <1>3 DEF K!TickDecides, K!members
  <2>3. TickIsLevel'
    BY <1>0, <2>2 DEF K!LitSlot, LightTyped, TickType, TickIsLevel
  <2> QED
    BY <2>1, <2>2, <2>3 DEF LightInv, RecentIsLevel, PhaseOf
<1>4. CASE K!TickEnds
  BY <1>4, TickEndsInv
<1> QED
  BY <1>1, <1>2, <1>3, <1>4 DEF K!Timer

LEMMA LightStepInv == K!KeyLightInputsOK /\ LightInv /\ [K!Next]_(K!vars) => LightInv'
<1> SUFFICES ASSUME K!KeyLightInputsOK, LightInv, [K!Next]_(K!vars) PROVE LightInv'
  OBVIOUS
<1>1. CASE UNCHANGED K!vars
  BY <1>1 DEF K!vars, K!members, LightInv, LightTyped, RecentIsLevel, TickIsLevel, PhaseOf
<1>2. CASE K!Next
  BY <1>2, LoopInv, TimerInv DEF K!Next
<1> QED
  BY <1>1, <1>2

\* In a whole frame each phase comes once, so as many slots are lit as there are phases
\* below the level.
LEMMA LightLevel == K!KeyLightInputsOK /\ LightInv => K!DutyIsLevel
<1> SUFFICES ASSUME K!KeyLightInputsOK, LightInv, Len(recent) = FrameSlots
             PROVE  Cardinality({j \in 1 .. FrameSlots : recent[j].lit})
                      = IF recent[1].visible THEN brightness_ ELSE 0
  BY DEF K!DutyIsLevel, K!Cardinality, Cardinality
<1> DEFINE S == {j \in 1 .. FrameSlots : recent[j].lit}
<1>1. /\ FrameSlots \in Nat \ {0} /\ phase_ \in 0 .. FrameSlots - 1 /\ brightness_ \in 0 .. FrameSlots
      /\ \A j \in 1 .. FrameSlots :
           /\ recent[j].visible = recent[1].visible
           /\ recent[j].lit <=> recent[j].visible /\ PhaseOf(j) < brightness_
  BY LightNumbers DEF LightInv, LightTyped, RecentIsLevel
<1>2. CASE recent[1].visible
  <2> DEFINE f == [n \in 1 .. brightness_ |->
                     IF n <= phase_ THEN phase_ - n + 1 ELSE phase_ - n + 1 + FrameSlots]
  <2>1. S = {j \in 1 .. FrameSlots : PhaseOf(j) < brightness_}
    BY <1>1, <1>2
  <2>2. \A n \in 1 .. brightness_ : f[n] \in 1 .. FrameSlots /\ PhaseOf(f[n]) = n - 1
    BY <1>1 DEF PhaseOf
  <2>3. \A j \in 1 .. FrameSlots : PhaseOf(j) < brightness_ =>
          PhaseOf(j) + 1 \in 1 .. brightness_ /\ f[PhaseOf(j) + 1] = j
    BY <1>1 DEF PhaseOf
  <2> HIDE DEF f
  <2>4. f \in Bijection(1 .. brightness_, S)
    <3>1. f \in [1 .. brightness_ -> S]
      BY <1>1, <2>1, <2>2 DEF f
    <3>2. \A m, n \in 1 .. brightness_ : f[m] = f[n] => m = n
      BY <1>1, <2>2
    <3>3. \A j \in S : \E n \in 1 .. brightness_ : f[n] = j
      BY <2>1, <2>3
    <3> HIDE DEF S
    <3> QED
      BY <3>1, <3>2, <3>3 DEF Bijection, Injection, Surjection, IsInjective
  <2> HIDE DEF S
  <2>5. Cardinality(S) = brightness_
    BY <1>1, <2>4, FS_CountingElements DEF ExistsBijection
  <2> QED
    BY <1>2, <2>5 DEF S
<1>3. CASE ~recent[1].visible
  <2>1. S = {}
    BY <1>1, <1>3
  <2> QED
    BY <1>3, <2>1, FS_EmptySet
<1> QED
  BY <1>2, <1>3

-----------------------------------------------------------------------------
(* The devices together: a step of the composition is a step of one of     *)
(* them and a stutter of each other one.  A component and the instance its *)
(* proofs are taken from have the same text, so they mean the same.        *)

DP == INSTANCE DustSensor_proofs

BP == INSTANCE ButtonDriver_proofs WITH
        TickSteps <- KeySteps, ClockRange <- KeyClock, Bounce <- 0, HeldAtBoot <- {}, Wrap <- FALSE

LP == INSTANCE MqttLink_proofs WITH
        TickSteps <- LinkSteps, ClockRange <- LinkClock, now_ms <- link_ms

LEMMA StepOfOne ==
  [MCNext]_allVars =>
    /\ [Next]_vars /\ [B!Next]_(B!vars) /\ [D!Next]_(D!vars) /\ [W!Next]_(W!vars)
    /\ [K!Next]_(K!vars) /\ [L!Next]_(L!vars)
<1> SUFFICES ASSUME [MCNext]_allVars
             PROVE  /\ [Next]_vars /\ [B!Next]_(B!vars) /\ [D!Next]_(D!vars) /\ [W!Next]_(W!vars)
                    /\ [K!Next]_(K!vars) /\ [L!Next]_(L!vars)
  OBVIOUS
<1>1. /\ Next \/ UNCHANGED vars
      /\ B!Next \/ UNCHANGED keyVars
      /\ D!Next \/ UNCHANGED dustVars
      /\ W!Next \/ UNCHANGED wakeVars
      /\ K!Next \/ UNCHANGED lightVars
      /\ L!Next \/ UNCHANGED linkVars
  BY DEF MCNext, allVars, Panel, Buttons, Dust, Wake, Lights, Session
<1>2. /\ UNCHANGED keyVars => UNCHANGED B!vars
      /\ UNCHANGED dustVars => UNCHANGED D!vars
      /\ UNCHANGED wakeVars => UNCHANGED W!vars
  BY DEF keyVars, B!vars, dustVars, D!vars, wakeVars, W!vars
<1>3. /\ UNCHANGED lightVars => UNCHANGED K!vars
      /\ UNCHANGED linkVars => UNCHANGED L!vars
  BY DEF lightVars, K!vars, K!members, linkVars, L!vars, L!marks
<1> QED
  BY <1>1, <1>2, <1>3

LEMMA PanelInvariance == MCSpec => []IInv
<1>1. MCInit => IInv
  BY InitInv DEF MCInit
<1>2. IInv /\ [MCNext]_allVars => IInv'
  BY StepInv, StepOfOne
<1> QED
  BY <1>1, <1>2, PTL DEF MCSpec

\* A part render would skip shows its value, and a setup screen it would skip is there.
THEOREM CacheTruthful == MCSpec => []CacheIsTruthful
<1>1. IInv => CacheIsTruthful
  BY DEF IInv, Truthful, CacheIsTruthful, MainPicture, Icon
<1> QED
  BY PanelInvariance, <1>1, PTL

\* Between two passes a lit panel is wholly the setup screen or wholly the main screen
\* of the state.
THEOREM ScreenCurrent == MCSpec => []ScreenIsCurrent
<1>1. IInv => ScreenIsCurrent
  BY DEF IInv, CleanIsCurrent, Shown, ScreenIsCurrent
<1> QED
  BY PanelInvariance, <1>1, PTL

LEMMA WakeInvariance == MCSpec => []WakeInv
<1>1. W!WakeTimesOK
  BY DevicesInputsOK DEF DevicesInputsOK
<1>2. MCInit => WakeInv
  BY <1>1, WakeInit DEF MCInit
<1>3. WakeInv /\ [MCNext]_allVars => WakeInv'
  BY <1>1, WakeStepInv, StepOfOne
<1> QED
  BY <1>2, <1>3, PTL DEF MCSpec

\* After WatchdogMs without a byte all three wake commands go out, each at most one pass
\* late: for every watchdog, gap and duration of the passes, while millis() does not wrap.
THEOREM SilencesEnd == MCSpec => []SilenceIsAnswered
<1>1. WakeInv => SilenceIsAnswered
  BY DevicesInputsOK, WakeAnswers DEF DevicesInputsOK, SilenceIsAnswered
<1> QED
  BY WakeInvariance, <1>1, PTL

LEMMA DustParts ==
  /\ DP!SensorInputsOK
  /\ MCInit => DP!Init
  /\ [MCNext]_allVars => [DP!Next]_(DP!vars)
<1>1. DP!SensorInputsOK
  BY DevicesInputsOK DEF DevicesInputsOK, D!SensorInputsOK, DP!SensorInputsOK
<1>2. MCInit => DP!Init
  BY DEF MCInit, D!Init, DP!Init, D!Searching, DP!Searching, D!Nothing, DP!Nothing, D!Slots, DP!Slots
<1>3. D!Next => DP!Next
  BY DEF D!Next, DP!Next, D!ReceiveByte, DP!ReceiveByte, D!LoseByte, DP!LoseByte,
       D!ReceiveNoise, DP!ReceiveNoise, D!NextFrame, DP!NextFrame, D!TickSensor, DP!TickSensor,
       D!ParseByte, DP!ParseByte, D!Parsed, DP!Parsed, D!Accepted, DP!Accepted,
       D!AfterFrame, DP!AfterFrame, D!Searching, DP!Searching, D!Agreeing, DP!Agreeing,
       D!Full, DP!Full, D!Header, DP!Header, D!Look, DP!Look, D!Byte, DP!Byte,
       D!Noise, DP!Noise, D!Looks, DP!Looks, D!Nothing, DP!Nothing, D!Added, DP!Added
<1>4. [D!Next]_(D!vars) => [DP!Next]_(DP!vars)
  BY <1>3 DEF D!vars, DP!vars
<1> QED
  BY <1>1, <1>2, <1>4, StepOfOne

\* However the stream was damaged, and wherever the unit came up in it, the parser
\* gives every frame its own reading from the second whole frame on, if the first
\* does not spell the header in its payload: for every frame size and set of readings.
THEOREM Resynchronises == MCSpec => []Resync
<1>1. MCInit => DP!IInv
  BY DustParts, DP!InitInv
<1>2. DP!IInv /\ [MCNext]_allVars => DP!IInv'
  BY DustParts, DP!StepInv
<1>3. DP!IInv => Resync
  BY DustParts, DP!InvResync DEF Resync, D!Resync, DP!Resync
<1> QED
  BY <1>1, <1>2, <1>3, PTL DEF MCSpec

LEMMA AverageInvariance == MCSpec => []DP!AverageInv
<1>1. MCInit => DP!AverageInv
  BY DustParts, DP!InitAverage
<1>2. DP!AverageInv /\ [MCNext]_allVars => DP!AverageInv'
  BY DustParts, DP!StepAverage
<1> QED
  BY <1>1, <1>2, PTL DEF MCSpec

\* For every length of the ring, every set of readings and any number of samples: the running
\* sum of MovingAverage is the sum of the readings kept, what is reported lies between the
\* lowest and the highest of them, and all but the first sample are readings sent.
THEOREM AverageKept == MCSpec => []AverageOfKept
<1>1. DP!AverageInv => DP!AverageOfKept
  BY DustParts, DP!InvAverage
<1>2. D!FoldFunction(+, 0, average.data) = DP!FoldFunction(+, 0, average.data)
  BY Zenon DEF D!FoldFunction, DP!FoldFunction, D!FoldFunctionOnSet, DP!FoldFunctionOnSet,
       D!MapThenFoldSet, DP!MapThenFoldSet
<1>3. DP!SumIsOfReadings => D!SumIsOfReadings
  BY <1>2, Zenon DEF D!SumIsOfReadings, DP!SumIsOfReadings, D!Slots, DP!Slots
<1>4. DP!AverageOfKept => AverageOfKept
  BY <1>3 DEF AverageOfKept, D!AverageOfKept, DP!AverageOfKept, D!Average, DP!Average
<1> QED
  BY AverageInvariance, <1>1, <1>4, PTL

LEMMA LightInvariance == MCSpec => []LightInv
<1>1. K!KeyLightInputsOK
  BY DevicesInputsOK DEF DevicesInputsOK
<1>2. MCInit => LightInv
  BY <1>1, LightInit DEF MCInit
<1>3. LightInv /\ [MCNext]_allVars => LightInv'
  BY <1>1, LightStepInv, StepOfOne
<1> QED
  BY <1>2, <1>3, PTL DEF MCSpec

\* In any four slots in a row between which nothing changed (and for every number of slots,
\* pattern, level and blink) the keys are lit exactly as often as the level says: no
\* setter can tear a tick without starting a new frame.
THEOREM DutyLevel == MCSpec => []DutyIsLevel
<1>1. LightInv => DutyIsLevel
  BY DevicesInputsOK, LightLevel DEF DevicesInputsOK, DutyIsLevel
<1> QED
  BY LightInvariance, <1>1, PTL

LEMMA KeyParts ==
  /\ BP!PressInputsOK
  /\ MCInit => BP!Init
  /\ [MCNext]_allVars => [BP!Next]_(BP!vars)
<1>1. BP!PressInputsOK
  <2>1. B!ButtonInputsOK /\ B!PressesOK
    BY DevicesInputsOK DEF DevicesInputsOK
  <2>2. BP!ButtonInputsOK
    BY <2>1 DEF B!ButtonInputsOK, BP!ButtonInputsOK, B!Keys, BP!Keys
  <2>3. B!Round = BP!Round
    <3>1. B!Cardinality(Entries) = BP!Cardinality(Entries)
      BY DEF B!Cardinality, BP!Cardinality
    <3> QED
      BY <3>1 DEF B!Round, BP!Round, B!MaxStep, BP!MaxStep, B!Max, BP!Max
  <2>4. BP!PressesOK
    BY <2>1, <2>3 DEF B!PressesOK, BP!PressesOK, B!LongKeys, BP!LongKeys, B!HoldMs, BP!HoldMs,
       B!SinceCap, BP!SinceCap
  <2> QED
    BY <2>2, <2>4 DEF BP!PressInputsOK
<1>2. MCInit => BP!Init
  BY DEF MCInit, B!Init, BP!Init, B!InitEntry, BP!InitEntry, B!NoEvent, BP!NoEvent,
     B!SinceCap, BP!SinceCap
<1>3. \A i, e, level, t : B!Scan(i, e, level, t) = BP!Scan(i, e, level, t)
  BY DEF B!Scan, BP!Scan, B!PressStarted, BP!PressStarted, B!LongDue, BP!LongDue,
     B!RepeatDue, BP!RepeatDue, B!Debounced, BP!Debounced, B!Reached, BP!Reached,
     B!Elapsed, BP!Elapsed, B!Later, BP!Later, B!Quiet, BP!Quiet, B!Emit, BP!Emit,
     B!LongKeys, BP!LongKeys, B!HoldMs, BP!HoldMs, B!LongCommand, BP!LongCommand,
     B!TapCommand, BP!TapCommand, B!StepCommand, BP!StepCommand, B!Event, BP!Event
<1>4. \A t, level : B!PollAt(t, level) <=> BP!PollAt(t, level)
  <2> TAKE t, level
  <2> DEFINE At(scan) ==
               LET emitting == {i \in Entries : scan[i].event # B!NoEvent}
                   reached == {i \in Entries : \A k \in emitting : i <= k}
               IN  /\ entries' = [i \in Entries |-> IF i \in reached THEN scan[i].entry ELSE entries[i]]
                   /\ event' = IF emitting = {} THEN B!NoEvent ELSE scan[B!Min(emitting)].event
             b == [i \in Entries |-> B!Scan(i, entries[i], level[i], t)]
             p == [i \in Entries |-> BP!Scan(i, entries[i], level[i], t)]
  <2>1. B!PollAt(t, level) <=> At(b)
    BY Zenon DEF B!PollAt
  <2>2. BP!PollAt(t, level) <=> At(p)
    <3>1. B!NoEvent = BP!NoEvent
      BY DEF B!NoEvent, BP!NoEvent
    <3> QED
      BY <3>1, Zenon DEF BP!PollAt, B!Min, BP!Min
  <2>3. b = p
    BY <1>3, Zenon
  <2> HIDE DEF At, b, p
  <2> QED
    BY <2>1, <2>2, <2>3
<1>5. \A i, g, e : B!Counted(i, g, e) = BP!Counted(i, g, e)
  BY DEF B!Counted, BP!Counted, B!LongCommand, BP!LongCommand, B!TapCommand, BP!TapCommand,
     B!StepCommand, BP!StepCommand, B!Event, BP!Event, B!SinceCap, BP!SinceCap
<1>6. B!Poll => BP!Poll
  BY <1>4, <1>5 DEF B!Poll, BP!Poll, B!Later, BP!Later, B!Aged, BP!Aged, B!SinceCap, BP!SinceCap
<1>7. B!MoveFinger => BP!MoveFinger
  BY DEF B!MoveFinger, BP!MoveFinger, B!NoEvent, BP!NoEvent
<1>8. [B!Next]_(B!vars) => [BP!Next]_(BP!vars)
  BY <1>6, <1>7 DEF B!Next, BP!Next, B!vars, BP!vars
<1> QED
  BY <1>1, <1>2, <1>8, StepOfOne

LEMMA PressInvariance == MCSpec => []BP!AInv
<1>1. MCInit => BP!AInv
  BY KeyParts, BP!AnswerInit
<1>2. BP!AInv /\ [MCNext]_allVars => BP!AInv'
  BY KeyParts, BP!AnswerStep
<1> QED
  BY <1>1, <1>2, PTL DEF MCSpec

\* Whichever keys are pressed together and however long the passes are, with clean
\* contacts: a long-press command is only given to a press that lasted for the hold.
THEOREM LongPressHeld == MCSpec => []LongPressIsHeld
<1>1. BP!AInv => LongPressIsHeld
  BY KeyParts, BP!InvPresses
     DEF BP!AInv, LongPressIsHeld, B!LongPressIsHeld, BP!LongPressIsHeld, B!LongKeys, BP!LongKeys,
         B!LongCommand, BP!LongCommand, B!Event, BP!Event, B!HoldMs, BP!HoldMs
<1> QED
  BY PressInvariance, <1>1, PTL

\* A press gives one command, a tap or a long press, although a poll that another key
\* takes leaves this one unread.
THEOREM OneMeaning == MCSpec => []OneMeaningPerPress
<1>1. BP!AInv => OneMeaningPerPress
  BY KeyParts, BP!InvPresses
     DEF BP!AInv, OneMeaningPerPress, B!OneMeaningPerPress, BP!OneMeaningPerPress, B!LongKeys, BP!LongKeys
<1> QED
  BY PressInvariance, <1>1, PTL

\* A held key steps at once, after the delay, and then at most once per interval.
THEOREM RepeatPaced == MCSpec => []RepeatIsPaced
<1>1. BP!AInv => RepeatIsPaced
  BY KeyParts, BP!InvPresses
     DEF BP!AInv, RepeatIsPaced, B!RepeatIsPaced, BP!RepeatIsPaced, B!LongKeys, BP!LongKeys,
         B!SinceCap, BP!SinceCap
<1> QED
  BY PressInvariance, <1>1, PTL

\* A hold is answered: a press that lasts for its hold, the debouncing and two rounds of
\* polls has given its command, whichever keys repeat or are tapped meanwhile.
THEOREM HoldAnswered == MCSpec => []HoldIsAnswered
<1>1. B!Round = BP!Round
  <2>1. B!Cardinality(Entries) = BP!Cardinality(Entries)
    BY DEF B!Cardinality, BP!Cardinality
  <2> QED
    BY <2>1 DEF B!Round, BP!Round, B!MaxStep, BP!MaxStep, B!Max, BP!Max
<1>2. BP!AInv => HoldIsAnswered
  BY <1>1, KeyParts, BP!AInvAnswered
     DEF HoldIsAnswered, B!HoldIsAnswered, BP!HoldIsAnswered, B!LongKeys, BP!LongKeys,
         B!MaxStep, BP!MaxStep, B!Max, BP!Max, B!HoldMs, BP!HoldMs, B!SinceCap, BP!SinceCap
<1> QED
  BY PressInvariance, <1>2, PTL

LEMMA LinkParts ==
  /\ LP!LinkInputsOK /\ LP!OutagesOK
  /\ MCInit => LP!Init
  /\ [MCNext]_allVars => [LP!Next]_(LP!vars)
<1>1. LP!LinkInputsOK /\ LP!OutagesOK
  BY DevicesInputsOK DEF DevicesInputsOK, L!LinkInputsOK, LP!LinkInputsOK, L!OutagesOK, LP!OutagesOK,
     L!MaxStep, LP!MaxStep, L!MaxRetryMs, LP!MaxRetryMs, L!RetryMs, LP!RetryMs, L!Max, LP!Max
<1>2. MCInit => LP!Init
  BY DEF MCInit, L!Init, LP!Init
<1>3. L!Next => LP!Next
  BY DEF L!Next, LP!Next, L!Tick, LP!Tick, L!LinkChanges, LP!LinkChanges,
     L!TickNoWifi, LP!TickNoWifi, L!TickConnected, LP!TickConnected, L!TickWaits, LP!TickWaits,
     L!TickConnect, LP!TickConnect, L!PassStarts, LP!PassStarts, L!NotTrying, LP!NotTrying,
     L!AttemptSucceeds, LP!AttemptSucceeds, L!AttemptFails, LP!AttemptFails,
     L!MayAttempt, LP!MayAttempt, L!Suspended, LP!Suspended, L!RetryIntervalMs, LP!RetryIntervalMs,
     L!RetryMs, LP!RetryMs, L!Before, LP!Before, L!Elapsed, LP!Elapsed, L!Later, LP!Later,
     L!Aged, LP!Aged, L!marks, LP!marks
<1>4. [L!Next]_(L!vars) => [LP!Next]_(LP!vars)
  BY <1>3 DEF L!vars, LP!vars, L!marks, LP!marks
<1> QED
  BY <1>1, <1>2, <1>4, StepOfOne

LEMMA LinkInvariance == MCSpec => []LP!IInv
<1>1. MCInit => LP!IInv
  BY LinkParts, LP!InitInv
<1>2. LP!IInv /\ [MCNext]_allVars => LP!IInv'
  BY LinkParts, LP!StepInv
<1> QED
  BY <1>1, <1>2, PTL DEF MCSpec

\* In real time, whatever the outages and wherever the clock wraps, an attempt after n
\* failures comes no sooner than base * 2^n, and after the last of a row not before
\* the suspension is over.
THEOREM BackoffServed == MCSpec => BackoffIsServed
<1>1. MCSpec => []LP!IInv
  BY LinkInvariance
<1>2. LP!IInv /\ [MCNext]_allVars => [LP!Backoff]_(LP!vars)
  BY LinkParts, LP!BackoffStep
<1>3. [LP!Backoff]_(LP!vars) =>
        [did' = "attempt" =>
           IF row = SuspendAfter THEN suspended_until_ms = 0 \/ gap' >= SuspendMs
           ELSE gap' >= L!RetryMs(row)]_(L!vars)
  BY DEF LP!Backoff, LP!RetryMs, L!RetryMs, LP!vars, L!vars, LP!marks, L!marks
<1> QED
  BY <1>1, <1>2, <1>3, PTL DEF MCSpec, BackoffIsServed, L!BackoffIsServed

\* For every suspension, backoff and wrapping clock, and outages that end before the clock
\* has turned half: with the link up, the client is never kept from its next attempt
\* for longer than one suspension.
THEOREM SuspensionIsOver == MCSpec => []SuspensionEnds
<1>1. MCInit => LP!WInv
  BY LinkParts, LP!InitWaits
<1>2. LP!WInv /\ [MCNext]_allVars => LP!WInv'
  BY LinkParts, LP!StepWaits
<1>3. LP!WInv => SuspensionEnds
  BY LinkParts, LP!WaitsEnd
     DEF SuspensionEnds, L!SuspensionEnds, LP!SuspensionEnds, L!MaxStep, LP!MaxStep, L!Max, LP!Max
<1> QED
  BY <1>1, <1>2, <1>3, PTL DEF MCSpec

-----------------------------------------------------------------------------

\* Every state of every device is of its type, for every value of the constants: the
\* cached values are ones the screen can show, stored times are times, the parser
\* never writes past the frame buffer nor the average past its ring, and no tick of the
\* key lights divides by 0, although the loop may set the period to 0 under it.
THEOREM TypesCorrect == MCSpec => []TypesOK
<1>1. IInv => TypeOK
  BY DEF IInv
<1>2. BP!AInv => B!TypeOK
  BY KeyParts, BP!InvPresses
     DEF BP!AInv, B!TypeOK, BP!TypeOK, B!Times, BP!Times, B!SinceCap, BP!SinceCap
<1>3. MCSpec => []D!TypeOK
  <2>1. MCInit => DP!DustTyped
    BY DustParts, DP!InitTyped
  <2>2. DP!DustTyped /\ [MCNext]_allVars => DP!DustTyped'
    BY DustParts, DP!StepTyped
  <2>3. DP!DustTyped => D!TypeOK
    BY DP!TypedOK DEF D!TypeOK, DP!TypeOK, D!Looks, DP!Looks, D!Nothing, DP!Nothing, D!Slots, DP!Slots
  <2> QED
    BY <2>1, <2>2, <2>3, PTL DEF MCSpec
<1>4. WakeInv => W!TypeOK
  BY DevicesInputsOK, WakeTypeOK DEF DevicesInputsOK
<1>5. LightInv => K!TypeOK
  BY DEF LightInv, LightTyped, TickType, K!TypeOK, K!Divisor
<1>6. LP!IInv => L!TypeOK
  BY LinkParts DEF LP!IInv, LP!TypeOK, L!TypeOK, LP!Times, L!Times
<1> QED
  BY PanelInvariance, PressInvariance, WakeInvariance, LightInvariance, LinkInvariance,
     <1>1, <1>2, <1>3, <1>4, <1>5, <1>6, PTL DEF TypesOK
=============================================================================
