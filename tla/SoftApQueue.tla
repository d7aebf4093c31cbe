---------------------------- MODULE SoftApQueue ----------------------------
(***************************************************************************)
(* The command queue under its two threads in setup mode.  The SoftAP HTTP *)
(* server runs WebConfigServer::handleSoftApRequest on a system thread,    *)
(* which calls AppController::enqueueCommand while the application loop    *)
(* pops commands and enqueues button presses.  queue_, q_head_ and q_tail_ *)
(* are plain members without a lock, so every access is a step of its own. *)
(***************************************************************************)
EXTENDS Naturals, Sequences

CONSTANTS QueueSize,     \* kCommandQueueSize (16)
          QuietButtons   \* TRUE: nobody touches a button while /save is handled

SoftApInputsOK == QueueSize \in Nat /\ QueueSize >= 2 /\ QuietButtons \in BOOLEAN

VARIABLES
  queue, q_head, q_tail,   \* AppController's members, shared
  loop,                    \* application thread: [pc, next, slot, cmd]
  http,                    \* system thread:      [pc, next, slot]
  saved,                   \* the credentials are in EEPROM
  owed                     \* history: commands enqueued and not applied, per kind

vars == <<queue, q_head, q_tail, loop, http, saved, owed>>

Kinds == {"Press", "Reboot"}
Slots == 0 .. QueueSize - 1
\* Mutant: the index does not wrap.
AdvanceUnwrapped(i) == i + 1
Advance(i) == (i + 1) % QueueSize

\* Any number of earlier presses may have turned the ring: it is empty, with
\* the indices anywhere and old presses in the slots.
Init ==
  /\ queue = [s \in Slots |-> "Press"]
  /\ q_head \in Slots
  /\ q_tail = q_head
  /\ loop = [pc |-> "drain", next |-> 0, slot |-> 0, cmd |-> "Press"]
  /\ http = [pc |-> "idle", next |-> 0, slot |-> 0]
  /\ saved = FALSE
  /\ owed = [k \in Kinds |-> 0]

-----------------------------------------------------------------------------
(* AppController::enqueueCommand, one memory access at a time, as run by     *)
(* thread t; t is the next value of that thread's record.                    *)

\* next = q_tail_ + 1
ReadTail(t) == [t EXCEPT !.pc = "full?", !.next = Advance(q_tail), !.slot = q_tail]

\* if (next == q_head_) return false
TestFull(t, refused) == [t EXCEPT !.pc = IF t.next = q_head THEN refused ELSE "write"]

\* Mutant: the slot after the tail is written, and the one at the tail published.
WriteSlotNext(t, kind) == queue' = [queue EXCEPT ![t.next] = kind]

\* queue_[q_tail_] = cmd: the index is the one read before, or read again;
\* the language leaves that to the build.
WriteSlot(t, kind) ==
  \E s \in {t.slot, q_tail} : queue' = [queue EXCEPT ![s] = kind]

-----------------------------------------------------------------------------
(* The application thread: processCommands, then buttons_.poll.            *)

LoopPopTest ==
  /\ loop.pc = "drain"
  /\ loop' = [loop EXCEPT !.pc = IF q_head = q_tail THEN "poll" ELSE "pop"]
  /\ UNCHANGED <<queue, q_head, q_tail, http, saved, owed>>

LoopPopRead ==
  /\ loop.pc = "pop"
  /\ loop' = [loop EXCEPT !.pc = "popped", !.cmd = queue[q_head]]
  /\ UNCHANGED <<queue, q_head, q_tail, http, saved, owed>>

\* q_head_ moves on and the command is applied; Reboot resets the unit.
LoopApply ==
  /\ loop.pc = "popped"
  /\ q_head' = Advance(q_head)
  /\ owed' = [owed EXCEPT ![loop.cmd] = IF @ > 0 THEN @ - 1 ELSE 0]
  /\ loop' = [loop EXCEPT !.pc = IF loop.cmd = "Reboot" THEN "reset" ELSE "drain"]
  /\ UNCHANGED <<queue, q_tail, http, saved>>

LoopPollNothing ==
  /\ loop.pc = "poll"
  /\ loop' = [loop EXCEPT !.pc = "drain"]
  /\ UNCHANGED <<queue, q_head, q_tail, http, saved, owed>>

LoopPress ==
  /\ loop.pc = "poll"
  /\ QuietButtons => http.pc = "idle"
  /\ loop' = ReadTail(loop)
  /\ UNCHANGED <<queue, q_head, q_tail, http, saved, owed>>

LoopTestFull ==
  /\ loop.pc = "full?"
  /\ loop' = TestFull(loop, "drain")
  /\ UNCHANGED <<queue, q_head, q_tail, http, saved, owed>>

LoopWrite ==
  /\ loop.pc = "write"
  /\ WriteSlot(loop, "Press")
  /\ loop' = [loop EXCEPT !.pc = "publish"]
  /\ UNCHANGED <<q_head, q_tail, http, saved, owed>>

LoopPublish ==
  /\ loop.pc = "publish"
  /\ q_tail' = loop.next
  /\ owed' = [owed EXCEPT !["Press"] = @ + 1]
  /\ loop' = [loop EXCEPT !.pc = "drain"]
  /\ UNCHANGED <<queue, q_head, http, saved>>

Loop ==
  \/ LoopPopTest \/ LoopPopRead \/ LoopApply \/ LoopPollNothing
  \/ LoopPress \/ LoopTestFull \/ LoopWrite \/ LoopPublish

-----------------------------------------------------------------------------
(* The SoftAP HTTP thread: GET /save, once.                                *)

\* Mutant: no reboot is asked for.
HttpSaveOnly ==
  /\ http.pc = "idle" /\ loop.pc # "reset"
  /\ saved' = TRUE
  /\ http' = [http EXCEPT !.pc = "answered"]
  /\ UNCHANGED <<queue, q_head, q_tail, loop, owed>>

\* The credentials are stored before the reboot is asked for.
HttpSave ==
  /\ http.pc = "idle" /\ loop.pc # "reset"
  /\ QuietButtons => loop.pc \notin {"full?", "write", "publish"}
  /\ saved' = TRUE
  /\ http' = [http EXCEPT !.pc = "enqueue"]
  /\ UNCHANGED <<queue, q_head, q_tail, loop, owed>>

HttpReadTail ==
  /\ http.pc = "enqueue" /\ loop.pc # "reset"
  /\ http' = ReadTail(http)
  /\ UNCHANGED <<queue, q_head, q_tail, loop, saved, owed>>

\* pushCommand's result is ignored: the page says "Rebooting now" either way.
HttpTestFull ==
  /\ http.pc = "full?" /\ loop.pc # "reset"
  /\ http' = TestFull(http, "answered")
  /\ UNCHANGED <<queue, q_head, q_tail, loop, saved, owed>>

HttpWrite ==
  /\ http.pc = "write" /\ loop.pc # "reset"
  /\ WriteSlot(http, "Reboot")
  /\ http' = [http EXCEPT !.pc = "publish"]
  /\ UNCHANGED <<q_head, q_tail, loop, saved, owed>>

HttpPublish ==
  /\ http.pc = "publish" /\ loop.pc # "reset"
  /\ q_tail' = http.next
  /\ owed' = [owed EXCEPT !["Reboot"] = @ + 1]
  /\ http' = [http EXCEPT !.pc = "answered"]
  /\ UNCHANGED <<queue, q_head, loop, saved>>

Http == HttpSave \/ HttpReadTail \/ HttpTestFull \/ HttpWrite \/ HttpPublish

\* A reset ends the run; the next boot finds the stored credentials.
Reset == loop.pc = "reset" /\ UNCHANGED vars

Next == Loop \/ Http \/ Reset

\* Both threads are scheduled; whether the request arrives is the user's choice.
Spec == Init /\ [][Next]_vars /\ WF_vars(Loop) /\ WF_vars(Http /\ http.pc # "idle")

-----------------------------------------------------------------------------
(* Properties.                                                             *)

TypeOK ==
  /\ queue \in [Slots -> Kinds]
  /\ q_head \in Slots /\ q_tail \in Slots
  /\ loop.pc \in {"drain", "pop", "popped", "poll", "full?", "write", "publish", "reset"}
  /\ http.pc \in {"idle", "enqueue", "full?", "write", "publish", "answered"}
  /\ loop.next \in Slots /\ loop.slot \in Slots /\ http.next \in Slots /\ http.slot \in Slots
  /\ owed \in [Kinds -> 0 .. QueueSize]

\* doc: "GET /save?s=<ssid>&p=<pass> stores Wi-Fi credentials and reboots"
\* (docs/interfaces.md:59): once the page said so, the unit resets.
SaveReboots == (http.pc = "answered") ~> (loop.pc = "reset")

\* Only a command that was enqueued and not applied yet is applied: a slot that
\* was read is not read again, whatever the two threads' indices did.
NoReplay == loop.pc = "popped" => owed[loop.cmd] > 0

\* The commands waiting, oldest first; the one the loop is about to apply is still the head.
Used == (q_tail + QueueSize - q_head) % QueueSize
Contents == [i \in 1 .. Used |-> queue[(q_head + i - 1) % QueueSize]]

\* Once the page said that the unit reboots, the reboot is waiting or has happened: the
\* safety half of SaveReboots, from three slots on (a press and the reboot must fit).
RebootIsQueued ==
  http.pc = "answered" => loop.pc = "reset" \/ \E i \in 1 .. Used : Contents[i] = "Reboot"

Atomic == INSTANCE CommandQueue WITH
            items <- Contents, Capacity <- QueueSize - 1, running <- loop.pc # "reset",
            save <- CASE http.pc = "idle" -> "none"
                      [] http.pc = "answered" -> "answered"
                      [] OTHER -> "asked"

\* The two threads, whose accesses to the slots and indices interleave at will, implement
\* the queue of one step per request: for the loop's publishing (an enqueue) and its moving of the
\* head (a pop), and for the page's request the publishing, or the test that found the queue full.
ImplementsAtomicQueue == Atomic!Spec
=============================================================================
