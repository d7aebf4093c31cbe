---------------------------- MODULE PublishQueue ----------------------------
(***************************************************************************)
(* From the device state to the broker: the periodic report, the health    *)
(* burst and the coalesced state burst of AppController::tick, the publish *)
(* queue of MqttClient and the one message per 25 ms that its tick hands   *)
(* to the session.  A field of the device state stands for all of them: a  *)
(* state burst carries its value on every state topic.  When the session   *)
(* comes back is MqttLink's subject; here it may at any tick.              *)
(***************************************************************************)
EXTENDS Naturals, SequencesExt

CONSTANTS
  StateTopics,    \* the topics of one state burst, in order (10 of them)
  HealthTopics,   \* the topics of one health burst (9 of them)
  Values,         \* the values a published field takes
  QueueSize,      \* MqttClient::kQueueSize (24)
  CountRange,     \* publish_drop_count_ is uint32_t: 2^32
  PublishGapMs,   \* 25
  StateGapMs,     \* kStatePublishMinIntervalMs (400)
  ReportMs,       \* kReportIntervalMs (5000)
  HealthMs,       \* kHealthPublishIntervalMs (30000)
  TickSteps,      \* how long one pass of the loop may take
  Faults          \* TRUE: the session may break, again and again

PublishInputsOK ==
  /\ StateTopics \in Seq(ToSet(StateTopics)) /\ HealthTopics \in Seq(ToSet(HealthTopics))
  /\ QueueSize \in Nat /\ QueueSize >= 2
  /\ {PublishGapMs, StateGapMs, ReportMs, HealthMs, CountRange} \subseteq Nat \ {0}
  /\ TickSteps \subseteq Nat \ {0}
  /\ Faults \in BOOLEAN

\* The time in which one message leaves: a pass that comes a millisecond too early for it
\* is followed by another one.
MessageMs == PublishGapMs + Max(TickSteps) - 1

\* The queue has room for one burst of each kind, and of every millisecond the messages
\* of the state bursts and those of the health bursts together take one at most.  For
\* the unit's constants that is so when no pass takes longer than 15 ms.
PaceOK ==
  /\ \E m \in TickSteps : \A dt \in TickSteps : m >= dt
  /\ Len(StateTopics) + Len(HealthTopics) <= QueueSize - 1
  /\ MessageMs * Len(StateTopics) * HealthMs + MessageMs * Len(HealthTopics) * StateGapMs
       <= StateGapMs * HealthMs

VARIABLES
  pc,                  \* the next function of the loop
  field,               \* the published field of DeviceState
  dirty_publish,
  queue,               \* queue_, oldest first (RingQueue has slots and indices)
  publish_drop_count,
  age,                 \* time since the last publish, burst, report and health burst
  session,             \* client_->isConnected()
  broker,              \* what the broker last received on each state topic
  drained,             \* history: the queue was empty since the session began,
  told                 \* history: and a state burst was queued since

vars == <<pc, field, dirty_publish, queue, publish_drop_count, age, session, broker, drained, told>>

Capacity == QueueSize - 1
Go(next) == pc' = next

\* Only "at least the limit" is tested, so an age stops at its limit.
Limit == [publish |-> PublishGapMs, state |-> StateGapMs, report |-> ReportMs, health |-> HealthMs]
Due(timer) == age[timer] = Limit[timer]
Restarted(timer) == age' = [age EXCEPT ![timer] = 0]

Init ==
  /\ pc = "loop"
  /\ field \in Values
  /\ dirty_publish = TRUE
  /\ queue = <<>>
  /\ publish_drop_count = 0
  /\ age = [t \in DOMAIN Limit |-> 0]
  /\ session = FALSE
  /\ broker \in [ToSet(StateTopics) -> Values]   \* from the run before
  /\ drained = FALSE /\ told = FALSE

\* enqueueStatePublish for each topic in turn: what does not fit is counted and
\* lost, and nobody is told.
EnqueueAll(topics, value) ==
  LET room == Capacity - Len(queue)
      fit == IF Len(topics) <= room THEN Len(topics) ELSE room
  IN  /\ queue' = queue \o [i \in 1 .. fit |-> [topic |-> topics[i], value |-> value]]
      /\ publish_drop_count' = (publish_drop_count + Len(topics) - fit) % CountRange

\* A pass begins: time has passed, and a command may have changed the state (or
\* only marked it, as a step at the end of the range does).
LoopBegins ==
  /\ pc = "loop"
  /\ Go("mqtt")
  /\ \E dt \in TickSteps :
       age' = [t \in DOMAIN Limit |-> IF age[t] + dt > Limit[t] THEN Limit[t] ELSE age[t] + dt]
  /\ \/ UNCHANGED <<field, dirty_publish>>
     \/ field' \in Values /\ dirty_publish' = TRUE
  /\ UNCHANGED <<queue, publish_drop_count, session, broker, drained, told>>

\* A pass that connects publishes nothing.
TickConnect ==
  /\ pc = "mqtt" /\ ~session
  /\ Go("report")
  /\ session' \in BOOLEAN
  /\ drained' = (session' /\ queue = <<>>)
  /\ told' = (told /\ drained')
  /\ UNCHANGED <<field, dirty_publish, queue, publish_drop_count, age, broker>>

\* The message is gone from the queue whether or not the session took it.
TickPublish ==
  /\ pc = "mqtt" /\ session
  /\ Go("report")
  /\ IF Due("publish") /\ queue # <<>>
       THEN /\ queue' = Tail(queue)
            /\ Restarted("publish")
            /\ \/ /\ broker' = [t \in DOMAIN broker |->
                                  IF t = Head(queue).topic THEN Head(queue).value ELSE broker[t]]
                  /\ UNCHANGED session
               \/ Faults /\ session' = FALSE /\ UNCHANGED broker
       ELSE UNCHANGED <<queue, age, broker, session>>
  /\ drained' = (session' /\ (drained \/ queue' = <<>>))
  /\ told' = (told /\ drained')
  /\ UNCHANGED <<field, dirty_publish, publish_drop_count>>

SessionBreaks ==
  /\ Faults /\ session
  /\ session' = FALSE /\ drained' = FALSE /\ told' = FALSE
  /\ UNCHANGED <<pc, field, dirty_publish, queue, publish_drop_count, age, broker>>

\* Mutant: the report does not ask for a publish.
TickReportClean ==
  /\ pc = "report"
  /\ Go("health")
  /\ IF Due("report") THEN Restarted("report") ELSE UNCHANGED age
  /\ UNCHANGED <<field, dirty_publish, queue, publish_drop_count, session, broker, drained, told>>

TickReport ==
  /\ pc = "report"
  /\ Go("health")
  /\ IF Due("report") THEN Restarted("report") /\ dirty_publish' = TRUE
                      ELSE UNCHANGED <<age, dirty_publish>>
  /\ UNCHANGED <<field, queue, publish_drop_count, session, broker, drained, told>>

TickHealthPublish ==
  /\ pc = "health"
  /\ Go("publish")
  /\ IF Due("health") THEN Restarted("health") /\ EnqueueAll(HealthTopics, field)
                      ELSE UNCHANGED <<age, queue, publish_drop_count>>
  /\ UNCHANGED <<field, dirty_publish, session, broker, drained, told>>

\* Mutant: every dirty pass publishes.
QueueEveryPass ==
  /\ pc = "publish"
  /\ Go("loop")
  /\ IF dirty_publish
       THEN Restarted("state") /\ EnqueueAll(StateTopics, field)
            /\ dirty_publish' = FALSE /\ told' = drained
       ELSE UNCHANGED <<age, queue, publish_drop_count, dirty_publish, told>>
  /\ UNCHANGED <<field, session, broker, drained>>

\* Mutant: the flag is cleared in a pass whose burst is not due.
QueueForgets ==
  /\ pc = "publish"
  /\ Go("loop")
  /\ IF dirty_publish /\ Due("state")
       THEN /\ Restarted("state")
            /\ EnqueueAll(StateTopics, field)
            /\ told' = drained
       ELSE UNCHANGED <<age, queue, publish_drop_count, told>>
  /\ dirty_publish' = FALSE
  /\ UNCHANGED <<field, session, broker, drained>>

\* dirty_publish is cleared even when the queue had no room.
QueueStatePublish ==
  /\ pc = "publish"
  /\ Go("loop")
  /\ IF dirty_publish /\ Due("state")
       THEN /\ Restarted("state")
            /\ EnqueueAll(StateTopics, field)
            /\ dirty_publish' = FALSE /\ told' = drained
       ELSE UNCHANGED <<age, queue, publish_drop_count, dirty_publish, told>>
  /\ UNCHANGED <<field, session, broker, drained>>

Tick ==
  \/ LoopBegins \/ TickConnect \/ TickPublish
  \/ TickReport \/ TickHealthPublish \/ QueueStatePublish

Next == Tick \/ SessionBreaks

Spec == Init /\ [][Next]_vars

\* The loop always runs again; the session and the commands are not owed.
FairSpec == Spec /\ WF_vars(Tick)

-----------------------------------------------------------------------------
(* Properties.                                                             *)

\* Types of the state; the queue never holds more than its usable slots.
TypeOK ==
  /\ pc \in {"loop", "mqtt", "report", "health", "publish"}
  /\ field \in Values /\ dirty_publish \in BOOLEAN
  /\ Len(queue) <= Capacity
  /\ publish_drop_count \in 0 .. CountRange - 1
  /\ \A t \in DOMAIN Limit : age[t] \in 0 .. Limit[t]
  /\ session \in BOOLEAN /\ drained \in BOOLEAN /\ told \in BOOLEAN

\* src/app/app_controller.cpp:26-27 "coalesce rather than drop": once a session has
\* emptied the queue, and while it lasts, every burst enters whole, however the state
\* is dirtied and wherever the health bursts fall between the state bursts.
BurstIsAbsorbed ==
  [][drained /\ session =>
       /\ age'["state"] < age["state"] => Len(queue') = Len(queue) + Len(StateTopics)
       /\ age'["health"] < age["health"] => Len(queue') = Len(queue) + Len(HealthTopics)]_vars

\* What is not under way is marked dirty: once a session has drained the queue and a
\* state burst has gone in, the last word on every state topic, in the queue or with the
\* broker, is the field, or dirty_publish still asks for a burst.  So the cleared flag
\* (src/app/app_controller.cpp:144) has lost no change, whatever came between.
StaleIsUnderWay ==
  told /\ ~dirty_publish =>
    \A t \in DOMAIN broker :
      LET said == {i \in DOMAIN queue : queue[i].topic = t}
      IN  /\ said = {} => broker[t] = field
          /\ \A i \in said : (\A j \in said : i >= j) => queue[i].value = field

\* The broker catches up: if the session stays and the field settles, every state
\* topic ends at the settled value, although an offline queue fills with stale
\* messages, the burst that carried the value may have been dropped and the flag
\* that asked for it is cleared all the same.  The periodic report repairs it.
BrokerCatchesUp ==
  \A v \in Values :
    <>[](session /\ field = v) => <>[](\A t \in DOMAIN broker : broker[t] = v)
=============================================================================
