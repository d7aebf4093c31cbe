---------------------------- MODULE CommandQueue ----------------------------
(***************************************************************************)
(* What the command queue promises in setup mode, when GET /save and the   *)
(* buttons use it at once: every request enters in one step or is refused  *)
(* by a queue that is full in that step, commands are applied in the order *)
(* they entered, and a reboot stops the unit when its turn has come.  No   *)
(* thread, slot or index appears here: SoftApQueue implements it.          *)
(***************************************************************************)
EXTENDS Naturals, Sequences

CONSTANT Capacity    \* how many commands the queue promises to hold

VARIABLES
  items,             \* the commands waiting, oldest first
  running,           \* the unit has not been reset
  save               \* the request of the setup page: "none", "asked", "answered"

vars == <<items, running, save>>

Q == INSTANCE BoundedFifo WITH Item <- {"Press", "Reboot"}, Batches <- {<<"Press">>, <<"Reboot">>}

Init == Q!Init /\ running = TRUE /\ save = "none"

\* A press that does not fit is lost, a stuttering step here.
Press == running /\ Q!Put(<<"Press">>) /\ UNCHANGED <<running, save>>

Ask == running /\ save = "none" /\ save' = "asked" /\ UNCHANGED <<items, running>>

Answer ==
  /\ running /\ save = "asked"
  /\ Q!Put(<<"Reboot">>) \/ (Len(items) = Capacity /\ items' = items)
  /\ save' = "answered"
  /\ UNCHANGED running

Apply == running /\ Q!Get /\ running' = (Head(items) # "Reboot") /\ UNCHANGED save

Next == Press \/ Ask \/ Answer \/ Apply

Spec == Init /\ [][Next]_vars
=============================================================================
