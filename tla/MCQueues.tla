------------------------------ MODULE MCQueues ------------------------------
(* What carries requests and state: the ring buffer, the command queue under *)
(* its two threads, the publish queue and the web page.  A behaviour is of   *)
(* one of them; the others stay as they began.  Nobody touches a button      *)
(* while the setup page is handled, a broker's session may break at any time *)
(* and a touch on the page does not end in touchcancel.                      *)
EXTENDS RingQueue

CONSTANTS
  \* SoftApQueue
  ApQueueSize,
  \* PublishQueue
  StateTopics, HealthTopics, Values, MqQueueSize, CountRange,
  PublishGapMs, StateGapMs, ReportMs, HealthMs, TickSteps,
  \* WebUi
  Fans, Requests

VARIABLES
  part,                                                \* the instance at work
  ap_queue, ap_head, ap_tail, loop, http, saved, owed,
  pc, field, dirty_publish, mq_queue, publish_drop_count, age, session, broker, drained, told,
  slider, timer, isFanDragging, finger, stateCache, request, unit, user

apVars == <<ap_queue, ap_head, ap_tail, loop, http, saved, owed>>
mqVars == <<pc, field, dirty_publish, mq_queue, publish_drop_count, age, session, broker, drained, told>>
pageVars == <<slider, timer, isFanDragging, finger, stateCache, request, unit, user>>
vars == <<part, ringVars, apVars, mqVars, pageVars>>

\* Values that a configuration cannot write: batches of every length from 1 to 3 (a control
\* POST carries up to three commands), a state burst of two topics and a health burst of one.
MCBatches == {<<"a">>, <<"b", "a">>, <<"a", "b", "b">>}
MCStateTopics == <<"fan", "lights">>
MCHealthTopics == <<"uptime">>

A == INSTANCE SoftApQueue WITH
       QueueSize <- ApQueueSize, QuietButtons <- TRUE,
       queue <- ap_queue, q_head <- ap_head, q_tail <- ap_tail

P == INSTANCE PublishQueue WITH
       QueueSize <- MqQueueSize, Faults <- TRUE, queue <- mq_queue

U == INSTANCE WebUi WITH Cancels <- FALSE

ASSUME PartsInputsOK ==
  A!SoftApInputsOK /\ P!PublishInputsOK /\ P!PaceOK /\ U!UiInputsOK

\* The parts not at work have one initial state.
MCInit ==
  /\ part \in {"ring", "softap", "publish", "page"}
  /\ Init /\ A!Init /\ P!Init /\ U!Init
  /\ part # "softap" => ap_head = 0
  /\ part # "publish" => field = (CHOOSE v \in Values : TRUE) /\ \A t \in DOMAIN broker : broker[t] = field
  /\ part # "page" => slider = unit.fan /\ unit = [fan |-> CHOOSE v \in Fans : TRUE, light |-> TRUE]

Ring == part = "ring" /\ Next /\ UNCHANGED <<part, apVars, mqVars, pageVars>>
SoftAp == part = "softap" /\ A!Next /\ UNCHANGED <<part, ringVars, mqVars, pageVars>>
Publish == part = "publish" /\ P!Next /\ UNCHANGED <<part, ringVars, apVars, pageVars>>
Page == part = "page" /\ U!Next /\ UNCHANGED <<part, ringVars, apVars, mqVars>>

MCNext == Ring \/ SoftAp \/ Publish \/ Page

\* The loop runs again and again, the HTTP thread is scheduled, the page's timer fires
\* and not everything it sends is lost.  A behaviour being of one part, the fairness of
\* several parts can be stated at once.
ApHttp == A!Http /\ http.pc # "idle"
Pace ==
  \/ part = "softap" /\ A!Loop /\ UNCHANGED <<part, ringVars, mqVars, pageVars>>
  \/ part = "publish" /\ P!Tick /\ UNCHANGED <<part, ringVars, apVars, pageVars>>
  \/ part = "page" /\ U!LoadState /\ UNCHANGED <<part, ringVars, apVars, mqVars>>
Answers ==
  \/ part = "softap" /\ ApHttp /\ UNCHANGED <<part, ringVars, mqVars, pageVars>>
  \/ part = "page" /\ U!SendControlGoesOn /\ UNCHANGED <<part, ringVars, apVars, mqVars>>
Served == part = "page" /\ U!SomeServed /\ UNCHANGED <<part, ringVars, apVars, mqVars>>
Rendered == part = "page" /\ U!SomeRendered /\ UNCHANGED <<part, ringVars, apVars, mqVars>>

MCSpec ==
  /\ MCInit /\ [][MCNext]_vars
  /\ WF_vars(Pace) /\ WF_vars(Answers) /\ SF_vars(Served) /\ SF_vars(Rendered)

-----------------------------------------------------------------------------
(* The properties of the parts.                                              *)

\* Every state of every part is of its type.
TypesOK == TypeOK /\ A!TypeOK /\ P!TypeOK /\ U!TypeOK
\* SoftApQueue: no command is applied twice, what the page promised is waiting and ends in a
\* reset, and the two threads together are a queue of one step per request.
NoReplay == A!NoReplay
RebootIsQueued == A!RebootIsQueued
ImplementsAtomicQueue == A!ImplementsAtomicQueue
SaveReboots == A!SaveReboots
\* PublishQueue: a drained queue absorbs every burst, what is not under way is marked dirty,
\* and the broker catches up.
BurstIsAbsorbed == P!BurstIsAbsorbed
StaleIsUnderWay == P!StaleIsUnderWay
BrokerCatchesUp == P!BrokerCatchesUp
\* WebUi: left alone, the page ends with the state of the unit.
UiConverges == U!UiConverges
=============================================================================
