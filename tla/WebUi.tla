------------------------------- MODULE WebUi -------------------------------
(***************************************************************************)
(* The page the unit serves, against the unit: a slider with a debounce    *)
(* timer, presets, a screen toggle that inverts what the page remembers,   *)
(* and a state refresh every two seconds and after each control request.   *)
(* Requests travel on connections of their own, are served one per pass in *)
(* any order and may be lost on either way.  Keys on the unit change the   *)
(* fan as well.  Times are abstracted to the order things happen in.       *)
(***************************************************************************)
EXTENDS Naturals

CONSTANTS
  Fans,        \* fan percentages
  Requests,    \* connections the browser uses at once
  Cancels      \* TRUE: a touch may end in touchcancel, which the page ignores

UiInputsOK == Fans \subseteq 0 .. 100 /\ Cancels \in BOOLEAN

VARIABLES
  slider,      \* the fan slider's value
  timer,       \* fanDebounceTimer: the value it will send, or None
  isFanDragging, finger,
  stateCache,  \* screen_light_on of it
  request,     \* per connection: what is under way
  unit,        \* the device state, after the pending commands
  user         \* "here", or gone for good

vars == <<slider, timer, isFanDragging, finger, stateCache, request, unit, user>>
page == <<slider, timer, isFanDragging, stateCache>>

None == 101
Free == [kind |-> "free", fan |-> None, light |-> FALSE]
\* The fan or screen_light parameter of a POST, a GET, and the state that answers it.
PostFan(v) == [kind |-> "fan", fan |-> v, light |-> FALSE]
PostLight(on) == [kind |-> "light", fan |-> None, light |-> on]
Get == [kind |-> "get", fan |-> None, light |-> FALSE]
Accepted == [kind |-> "accepted", fan |-> None, light |-> FALSE]
State(u) == [kind |-> "state", fan |-> u.fan, light |-> u.light]

\* The page as it is written, before its first refresh.
Init ==
  /\ slider \in Fans /\ timer = None
  /\ isFanDragging = FALSE /\ finger = FALSE
  /\ stateCache = TRUE
  /\ request = [r \in Requests |-> Free]
  /\ unit \in [fan : Fans, light : BOOLEAN]
  /\ user = "here"

\* fetch; a browser out of connections makes the handler wait.
Send(what) ==
  \E r \in Requests :
    /\ request[r] = Free
    /\ \A s \in Requests : request[s] = Free => r <= s
    /\ request' = [request EXCEPT ![r] = what]

-----------------------------------------------------------------------------
(* The page.                                                               *)

PointerDown ==
  /\ user = "here" /\ ~finger
  /\ finger' = TRUE /\ isFanDragging' = TRUE
  /\ UNCHANGED <<slider, timer, stateCache, request, unit, user>>

\* Mutant: the end of the touch is not listened to.
PointerUpUnheard ==
  /\ finger
  /\ finger' = FALSE
  /\ UNCHANGED <<slider, timer, isFanDragging, stateCache, request, unit, user>>

\* pointerup, touchend or change.
PointerUp ==
  /\ finger
  /\ finger' = FALSE /\ isFanDragging' = FALSE
  /\ UNCHANGED <<slider, timer, stateCache, request, unit, user>>

\* External: the browser takes the touch for a scroll.
TouchCancel ==
  /\ Cancels /\ finger
  /\ finger' = FALSE
  /\ UNCHANGED <<slider, timer, isFanDragging, stateCache, request, unit, user>>

\* input, by touch or by key: the timer starts anew with the new value.
SliderInput ==
  /\ user = "here"
  /\ \E v \in Fans : slider' = v /\ timer' = v
  /\ UNCHANGED <<isFanDragging, finger, stateCache, request, unit, user>>

\* queueFanUpdate's timer.
QueueFanUpdate ==
  /\ timer # None
  /\ Send(PostFan(timer)) /\ timer' = None
  /\ UNCHANGED <<slider, isFanDragging, finger, stateCache, unit, user>>

\* A preset does not stop the timer of an earlier slider input.
FanPreset ==
  /\ user = "here" /\ ~finger
  /\ \E v \in Fans : slider' = v /\ Send(PostFan(v))
  /\ UNCHANGED <<timer, isFanDragging, finger, stateCache, unit, user>>

ScreenToggle ==
  /\ user = "here" /\ ~finger
  /\ Send(PostLight(~stateCache))
  /\ UNCHANGED <<page, finger, unit, user>>

\* The two-second interval.
LoadState ==
  /\ Send(Get)
  /\ UNCHANGED <<page, finger, unit, user>>

\* apiPost has its answer: sendControl goes on to loadState on the same slot.
SendControlAnswered(r) ==
  /\ request[r] = Accepted
  /\ request' = [request EXCEPT ![r] = Get]
  /\ UNCHANGED <<page, finger, unit, user>>

\* A dragged slider is left to the finger.
RenderState(r) ==
  /\ request[r].kind = "state"
  /\ stateCache' = request[r].light
  /\ slider' = IF isFanDragging THEN slider ELSE request[r].fan
  /\ request' = [request EXCEPT ![r] = Free]
  /\ UNCHANGED <<timer, isFanDragging, finger, unit, user>>

-----------------------------------------------------------------------------
(* The unit, the network and the user.                                     *)

\* Commands are applied before the next request is served, so what a later GET
\* answers includes them.
Serve(r) ==
  /\ \/ /\ request[r].kind = "fan"
        /\ unit' = [unit EXCEPT !.fan = request[r].fan]
        /\ request' = [request EXCEPT ![r] = Accepted]
     \/ /\ request[r].kind = "light"
        /\ unit' = [unit EXCEPT !.light = request[r].light]
        /\ request' = [request EXCEPT ![r] = Accepted]
     \/ /\ request[r] = Get
        /\ request' = [request EXCEPT ![r] = State(unit)]
        /\ UNCHANGED unit
  /\ UNCHANGED <<page, finger, user>>

\* External: the request, or its answer, is lost; a toast says so.
Fail(r) ==
  /\ request[r] # Free
  /\ request' = [request EXCEPT ![r] = Free]
  /\ UNCHANGED <<page, finger, unit, user>>

\* External: a key on the unit.
KeyPressed ==
  /\ user = "here"
  /\ \E v \in Fans : unit' = [unit EXCEPT !.fan = v]
  /\ UNCHANGED <<page, finger, request, user>>

UserLeaves ==
  /\ user = "here" /\ ~finger
  /\ user' = "gone"
  /\ UNCHANGED <<page, finger, request, unit>>

Next ==
  \/ PointerDown \/ PointerUp \/ TouchCancel \/ SliderInput \/ QueueFanUpdate
  \/ FanPreset \/ ScreenToggle \/ LoadState
  \/ \E r \in Requests : SendControlAnswered(r) \/ RenderState(r) \/ Serve(r) \/ Fail(r)
  \/ KeyPressed \/ UserLeaves

SendControlGoesOn == \E r \in Requests : SendControlAnswered(r)
SomeServed == \E r \in Requests : Serve(r)
SomeRendered == \E r \in Requests : RenderState(r)

\* The interval of a page fires; of the requests and answers under way not every one
\* is lost.
Fairness ==
  /\ WF_vars(LoadState) /\ WF_vars(SendControlGoesOn)
  /\ SF_vars(SomeServed) /\ SF_vars(SomeRendered)

Spec == Init /\ [][Next]_vars
FairSpec == Spec /\ Fairness

-----------------------------------------------------------------------------
(* Properties.                                                             *)

\* Types of the state.
TypeOK ==
  /\ slider \in Fans /\ timer \in Fans \cup {None}
  /\ isFanDragging \in BOOLEAN /\ finger \in BOOLEAN /\ stateCache \in BOOLEAN
  /\ unit \in [fan : Fans, light : BOOLEAN] /\ user \in {"here", "gone"}
  /\ \A r \in Requests : request[r].kind \in {"free", "fan", "light", "get", "accepted", "state"}

\* Whatever requests overtook each other or were lost, once nobody touches the page
\* or the unit any more the page ends with the unit's own state, for good.
UiConverges ==
  <>[](user = "gone") => <>[](slider = unit.fan /\ stateCache = unit.light)
=============================================================================
