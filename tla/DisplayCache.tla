---------------------------- MODULE DisplayCache ----------------------------
(***************************************************************************)
(* What is on the panel.  DisplayDriver redraws a part of the main screen  *)
(* only when its value differs from the one it remembers having drawn, and *)
(* skips the setup screen while it believes it is shown.  The pixels stay  *)
(* until something paints over them, through dark periods and mode         *)
(* changes, so what the cache believes and what is lit can part.  The      *)
(* backlight is AppController's subject; the layout is the one the screen  *)
(* was first drawn with (a new one is answered with reboot_required) and   *)
(* its parts do not overlap.                                               *)
(***************************************************************************)
EXTENDS Integers

CONSTANTS
  Fans,         \* fan percentages that occur
  Readings,     \* smoothed dust readings that occur
  Tentacles,    \* kGaugeTentacles (8)
  Placeholder,  \* softApSsid() before setup mode has begun: "Aeris-XXXX"
  OwnSsid       \* the name setup mode builds from the device id

ASSUME InputAssumption ==
  Fans \subseteq 0 .. 100 /\ Readings \subseteq Nat /\ Tentacles \in Nat \ {0}

VARIABLES
  pc,          \* the next part of the tick: tickDisplay, what changes state, outputs
  dev,         \* what render reads of DeviceState
  dirty,       \* dirty_display
  applied,     \* last_applied_lights_
  force,       \* force_apply_lights_
  setup_mode, listening,
  reinit,      \* display_reinit_pending_
  cache,       \* the driver's last_* members, has_drawn_ and setup_screen_drawn_
  screen       \* the pixels: the last whole-screen fill and what was drawn on it

vars == <<pc, dev, dirty, applied, force, setup_mode, listening, reinit, cache, screen>>

None == -1
SoftApSsid == IF setup_mode THEN OwnSsid ELSE Placeholder

-----------------------------------------------------------------------------
(* Pictures.                                                               *)

\* The tentacles lit, left to right; the head is always lit.
Lit(fan) ==
  LET lit == (fan * Tentacles + 99) \div 100 IN IF lit > Tentacles THEN Tentacles ELSE lit

Icon(d) == IF d.enabled /\ d.ready THEN "ok" ELSE "alert"
\* "OFF" takes the cells of the three digits; the symbol's cells are cleared.
Symbol(fan) == IF fan <= 0 THEN "clear" ELSE "%"

Filled(fill) ==
  [fill |-> fill, gauge |-> None, digits |-> None, symbol |-> "clear",
   pm25 |-> None, pm10 |-> None, icon |-> "clear"]

SetupPicture(name) == Filled([screen |-> "setup", ssid |-> name])
ConnectingPicture == Filled([screen |-> "connecting", ssid |-> ""])
BlankPicture == Filled([screen |-> "blank", ssid |-> ""])
MainFill == [screen |-> "main", ssid |-> ""]

\* The main screen as it should look.
MainPicture(d) ==
  [fill |-> MainFill, gauge |-> Lit(d.fan), digits |-> d.fan, symbol |-> Symbol(d.fan),
   pm25 |-> d.pm25, pm10 |-> d.pm10, icon |-> Icon(d)]

-----------------------------------------------------------------------------
(* The driver.                                                             *)

\* resetRenderCache
NoCache ==
  [fan |-> None, pm25 |-> None, pm10 |-> None, enabled |-> FALSE, ready |-> FALSE,
   drawn |-> FALSE, setup |-> FALSE, ssid |-> ""]

\* Mutant: the cache of the main screen survives the setup screen.
SetupCacheKeepsMain(c, name) == [c EXCEPT !.setup = TRUE, !.ssid = name]
SetupCache(c, name) == [c EXCEPT !.setup = TRUE, !.ssid = name, !.drawn = FALSE]

SetupShown(c, name) == c.setup /\ c.ssid = name

RenderSetupScreen(c, name) ==
  IF SetupShown(c, name) THEN cache' = c /\ UNCHANGED screen
  ELSE screen' = SetupPicture(name) /\ cache' = SetupCache(c, name)

\* The head of a full redraw; the sentinels make every part stale.
StartCache(c, d) ==
  IF c.drawn THEN [c EXCEPT !.setup = FALSE]
  ELSE [c EXCEPT !.setup = FALSE, !.drawn = TRUE, !.fan = None, !.pm25 = None, !.pm10 = None,
                 !.enabled = ~d.enabled, !.ready = ~d.ready]
StartScreen(c, s) == IF c.drawn THEN s ELSE [Filled(MainFill) EXCEPT !.gauge = Lit(0)]

\* Each part that differs from the cache is drawn over.
PartsDrawn(c, s, d) ==
  [fill |-> s.fill,
   icon |-> IF <<c.enabled, c.ready>> # <<d.enabled, d.ready>> THEN Icon(d) ELSE s.icon,
   gauge |-> IF c.fan # d.fan THEN Lit(d.fan) ELSE s.gauge,
   digits |-> IF c.fan # d.fan THEN d.fan ELSE s.digits,
   symbol |-> IF c.fan # d.fan THEN Symbol(d.fan) ELSE s.symbol,
   pm25 |-> IF c.pm25 # d.pm25 THEN d.pm25 ELSE s.pm25,
   pm10 |-> IF c.pm10 # d.pm10 THEN d.pm10 ELSE s.pm10]

Drawn(c, d) ==
  [c EXCEPT !.fan = d.fan, !.pm25 = d.pm25, !.pm10 = d.pm10,
            !.enabled = d.enabled, !.ready = d.ready]

\* render, with a cache that setLights may just have reset.
Render(c, d) ==
  IF ~d.lights THEN cache' = c /\ UNCHANGED screen
  ELSE /\ screen' = PartsDrawn(StartCache(c, d), StartScreen(c, screen), d)
       /\ cache' = Drawn(StartCache(c, d), d)

-----------------------------------------------------------------------------
(* The controller.                                                         *)

\* init, up to its applyOutputs: the panel is filled and the setup screen, if
\* that is the mode, already drawn.
Init ==
  /\ pc = "outputs"
  /\ dev \in {[fan |-> 25, pm25 |-> 0, pm10 |-> 0, enabled |-> TRUE, ready |-> FALSE, lights |-> TRUE]}
  /\ dirty = TRUE /\ applied = FALSE /\ force = FALSE
  /\ setup_mode \in BOOLEAN /\ listening = setup_mode
  /\ reinit = TRUE
  /\ screen = IF setup_mode THEN SetupPicture(SoftApSsid) ELSE BlankPicture
  /\ cache = IF setup_mode THEN SetupCache(NoCache, SoftApSsid) ELSE NoCache

\* tickDisplay: the second initialisation of the panel, once; until the tick
\* ends it shows the screen of the mode.
TickDisplayReinit ==
  /\ pc = "display" /\ reinit
  /\ reinit' = FALSE /\ dirty' = TRUE /\ pc' = "work"
  /\ \/ ~dev.lights /\ screen' = BlankPicture /\ cache' = NoCache
     \/ /\ dev.lights /\ setup_mode
        /\ screen' = SetupPicture(SoftApSsid)
        /\ cache' = SetupCache(NoCache, SoftApSsid)
     \/ /\ dev.lights /\ ~setup_mode
        /\ screen' = ConnectingPicture
        /\ cache' = NoCache
  /\ UNCHANGED <<dev, applied, force, setup_mode, listening>>

TickDisplay ==
  /\ pc = "display"
  /\ pc' = "work"
  /\ UNCHANGED <<dev, dirty, applied, force, setup_mode, listening, reinit, cache, screen>>

Changed == pc = "work" /\ UNCHANGED <<pc, applied, setup_mode, listening, reinit, cache, screen>>

\* A routed command; the lights may be set to what they are, which forces them.
RouterApply ==
  /\ Changed
  /\ \/ \E fan \in Fans : dev' = [dev EXCEPT !.fan = fan] /\ UNCHANGED force
     \/ dev' = [dev EXCEPT !.lights = ~@] /\ UNCHANGED force
     \/ \E on \in BOOLEAN : dev' = [dev EXCEPT !.lights = on] /\ force' = TRUE
  /\ dirty' = TRUE

\* Mutant: new readings wait for another reason to redraw.
TickReportClean ==
  /\ Changed
  /\ \E pm25, pm10 \in Readings : dev' = [dev EXCEPT !.pm25 = pm25, !.pm10 = pm10]
  /\ UNCHANGED <<dirty, force>>

TickReport ==
  /\ Changed
  /\ \E pm25, pm10 \in Readings : dev' = [dev EXCEPT !.pm25 = pm25, !.pm10 = pm10]
  /\ dirty' = TRUE /\ UNCHANGED force

\* ToggleWifi and the link.
TickNetwork ==
  /\ Changed
  /\ \/ dev' = [dev EXCEPT !.enabled = ~@, !.ready = FALSE]
     \/ dev.enabled /\ dev' = [dev EXCEPT !.ready = ~@]
  /\ dirty' = TRUE /\ UNCHANGED force

\* External: the setup button of Device OS; nothing marks the display for it.
ListeningChanges ==
  /\ pc = "work"
  /\ listening' = ~listening
  /\ UNCHANGED <<pc, dev, dirty, applied, force, setup_mode, reinit, cache, screen>>

EndOfWork ==
  /\ pc = "work" /\ pc' = "outputs"
  /\ UNCHANGED <<dev, dirty, applied, force, setup_mode, listening, reinit, cache, screen>>

SetupWanted == setup_mode \/ (dev.enabled /\ listening)

\* setLights forgets what was drawn when the lights go off.
CacheAfterLights ==
  IF (force \/ dev.lights # applied) /\ ~dev.lights THEN NoCache ELSE cache

ApplyOutputs ==
  /\ pc = "outputs" /\ pc' = "display"
  /\ applied' = dev.lights /\ force' = FALSE /\ dirty' = FALSE
  /\ \/ ~dirty /\ cache' = CacheAfterLights /\ UNCHANGED screen
     \/ dirty /\ SetupWanted /\ RenderSetupScreen(CacheAfterLights, SoftApSsid)
     \/ dirty /\ ~SetupWanted /\ Render(CacheAfterLights, dev)
  /\ UNCHANGED <<dev, setup_mode, listening, reinit>>

Next ==
  \/ TickDisplayReinit \/ TickDisplay \/ RouterApply \/ TickReport \/ TickNetwork
  \/ ListeningChanges \/ EndOfWork \/ ApplyOutputs

Spec == Init /\ [][Next]_vars

-----------------------------------------------------------------------------
(* Properties.                                                             *)

\* Types of the state.
TypeOK ==
  /\ pc \in {"display", "work", "outputs"}
  /\ dev \in [fan : Nat, pm25 : Nat, pm10 : Nat, enabled : BOOLEAN, ready : BOOLEAN, lights : BOOLEAN]
  /\ dirty \in BOOLEAN /\ applied \in BOOLEAN /\ force \in BOOLEAN
  /\ setup_mode \in BOOLEAN /\ listening \in BOOLEAN /\ reinit \in BOOLEAN
  /\ cache \in [fan : Nat \cup {None}, pm25 : Nat \cup {None}, pm10 : Nat \cup {None},
                enabled : BOOLEAN, ready : BOOLEAN, drawn : BOOLEAN, setup : BOOLEAN,
                ssid : {Placeholder, OwnSsid, ""}]

\* What the driver remembers is what the panel shows: a part it would skip is
\* there as it should be, and a setup screen it would skip is there too.
CacheIsTruthful ==
  /\ cache.drawn =>
       screen = MainPicture([fan |-> cache.fan, pm25 |-> cache.pm25, pm10 |-> cache.pm10,
                             enabled |-> cache.enabled, ready |-> cache.ready])
  /\ cache.setup => screen = SetupPicture(cache.ssid)

\* Between two passes, with the lights on, the panel is wholly the setup screen
\* or wholly the main screen of the current state: no part of an older state, of
\* the connecting screen or of a cleared panel is left, whatever happened while
\* the lights were off.
ScreenIsCurrent ==
  pc = "display" /\ dev.lights =>
    IF setup_mode THEN screen = SetupPicture(SoftApSsid)
    ELSE screen \in {MainPicture(dev), SetupPicture(SoftApSsid)}
=============================================================================
