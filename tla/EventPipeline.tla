---------------------------- MODULE EventPipeline ----------------------------
(***************************************************************************)
(* How an event (leak, run limit, sensor fault...) reaches the user.       *)
(*                                                                         *)
(* The sensor, scheduler and leak tasks report each event three times: into *)
(* the ring of the last RingMax events, by a BLE notification to a phone   *)
(* that is connected, and into the queue of the firebase task, which       *)
(* writes it to events/<device>.  The phone reads the ring in one or more  *)
(* parts and then acknowledges, which empties it.  An event is a number:   *)
(* its place in the order of the pushes into the ring.                     *)
(***************************************************************************)
EXTENDS Integers, Sequences, SequencesExt

CONSTANTS
  Producers,     \* tasks that report events
  RingMax,       \* EVENT_BUF_MAX
  QueueDepth,    \* EVENT_QUEUE_DEPTH
  Part,          \* entries in one part of a BLE read (the MTU)
  MaxEvents,     \* bound: events reported in all
  MaxRestarts    \* bound: restarts

ASSUME EventPipelineAssumption ==
  /\ RingMax \in Nat \ {0} /\ QueueDepth \in Nat \ {0} /\ Part \in Nat \ {0}
  /\ MaxEvents \in Nat /\ MaxRestarts \in Nat

VARIABLES
  slot,          \* s_events
  head, count,   \* s_evt_head, s_evt_count
  pc, ev,        \* where each producer is, and what it reports
  queue,         \* s_event_queue
  task,          \* firebase task: waiting for credentials, idle, or pushing
  item,          \* what it pushes
  record,        \* events/<device> on the server, 0 at first
  phone, offset, \* the app, and how many entries of the ring it has read
  seen,          \* events of the ring that the app knows
  \* history
  made, maker,   \* events reported so far, and by whom
  shifted,       \* the ring overflowed while the app was reading it
  lastQueued,    \* the last event that found room in the queue
  lost,          \* its push failed
  restarts

ring    == <<slot, head, count>>
cloud   == <<queue, task, item, record>>
app     == <<phone, offset, seen>>
history == <<made, maker, shifted, lastQueued, lost, restarts>>
vars    == <<ring, pc, ev, cloud, app, history>>

Event == 1..MaxEvents

TypeOK ==
  /\ slot \in [0..(RingMax - 1) -> Event \cup {0}]
  /\ head \in 0..(RingMax - 1) /\ count \in 0..RingMax
  /\ pc \in [Producers -> {"idle", "notify", "request"}]
  /\ ev \in [Producers -> Event \cup {0}]
  /\ queue \in Seq(Event) /\ Len(queue) <= QueueDepth
  /\ task \in {"waiting", "idle", "pushing"} /\ item \in Event \cup {0}
  /\ record \in Event \cup {0}
  /\ phone \in {"away", "connected", "reading", "read"} /\ offset \in 0..RingMax
  /\ seen \subseteq Event
  /\ made \in 0..MaxEvents /\ maker \in [Event -> Producers \cup {"nobody"}]
  /\ shifted \in BOOLEAN /\ lastQueued \in Event \cup {0} /\ lost \in BOOLEAN
  /\ restarts \in 0..MaxRestarts

Init ==
  /\ slot = [i \in 0..(RingMax - 1) |-> 0] /\ head = 0 /\ count = 0
  /\ pc = [p \in Producers |-> "idle"] /\ ev = [p \in Producers |-> 0]
  /\ queue = <<>> /\ task = "waiting" /\ item = 0 /\ record = 0
  /\ phone = "away" /\ offset = 0 /\ seen = {}
  /\ made = 0 /\ maker = [e \in Event |-> "nobody"]
  /\ shifted = FALSE /\ lastQueued = 0 /\ lost = FALSE /\ restarts = 0

-----------------------------------------------------------------------------
(* The ring, each operation under its mutex. *)

(* Mutated form: the oldest entry is taken to be at the bottom. *)
StartAtBottom == 0

Oldest == (head + RingMax - count) % RingMax

(* event_buffer_get_events: all of it, oldest first. *)
Contents == [i \in 1..count |-> slot[(Oldest + i - 1) % RingMax]]

(* Mutated form: the count goes on beyond the ring's end. *)
CountedOn == count + 1

CountAfterPush == IF count < RingMax THEN count + 1 ELSE count

PushRing(e) ==
  /\ slot' = [slot EXCEPT ![head] = e]
  /\ head' = (head + 1) % RingMax
  /\ count' = CountAfterPush

ClearRing ==
  /\ head' = 0 /\ count' = 0
  /\ UNCHANGED slot

-----------------------------------------------------------------------------
(* A producer: try_fire_event, fire_event, leak_task. *)

(* Mutated form: the notification is left to the app's next read. *)
StraightToCloud == "request"

AfterRing == "notify"

Report(p) ==
  /\ pc[p] = "idle" /\ made < MaxEvents
  /\ made' = made + 1
  /\ PushRing(made')
  /\ ev' = [ev EXCEPT ![p] = made']
  /\ maker' = [maker EXCEPT ![made'] = p]
  /\ pc' = [pc EXCEPT ![p] = AfterRing]
  /\ shifted' = (shifted \/ (phone = "reading" /\ count = RingMax))
  /\ seen' = IF count < RingMax THEN seen ELSE seen \ {slot[head]}
  /\ UNCHANGED <<cloud, phone, offset, lastQueued, lost, restarts>>

Notify(p) ==
  /\ pc[p] = "notify"
  /\ seen' = IF phone = "away" THEN seen ELSE seen \cup ({ev[p]} \cap ToSet(Contents))
  /\ pc' = [pc EXCEPT ![p] = "request"]
  /\ UNCHANGED <<ring, ev, cloud, phone, offset, history>>

(* Mutated form: the newest event goes first. *)
QueuedInFront(e) == <<e>> \o queue

Queued(e) == Append(queue, e)

(* firebase_rtdb_request_event_push: a full queue drops the new event. *)
Request(p) ==
  /\ pc[p] = "request"
  /\ IF Len(queue) < QueueDepth
     THEN queue' = Queued(ev[p]) /\ lastQueued' = ev[p] /\ lost' = FALSE
     ELSE UNCHANGED <<queue, lastQueued, lost>>
  /\ pc' = [pc EXCEPT ![p] = "idle"] /\ ev' = [ev EXCEPT ![p] = 0]
  /\ UNCHANGED <<ring, task, item, record, app, made, maker, shifted, restarts>>

-----------------------------------------------------------------------------
(* The firebase task. *)

(* Credentials have arrived; nothing is drained before. *)
Ready ==
  /\ task = "waiting" /\ task' = "idle"
  /\ UNCHANGED <<ring, pc, ev, queue, item, record, app, history>>

(* Mutated form: a queue that is full is not drained. *)
DrainWhileRoom == queue # <<>> /\ Len(queue) < QueueDepth

Drains == queue # <<>>

Take ==
  /\ task = "idle" /\ Drains
  /\ task' = "pushing" /\ item' = Head(queue) /\ queue' = Tail(queue)
  /\ UNCHANGED <<ring, pc, ev, record, app, history>>

Arrives ==
  /\ task = "pushing"
  /\ record' = item
  /\ task' = "idle" /\ item' = 0
  /\ UNCHANGED <<ring, pc, ev, queue, app, history>>

(* No token, or a PATCH that fails: the event has left the queue for good. *)
PushFails ==
  /\ task = "pushing"
  /\ lost' = (lost \/ item = lastQueued)
  /\ task' = "idle" /\ item' = 0
  /\ UNCHANGED <<ring, pc, ev, queue, record, app, made, maker, shifted, lastQueued, restarts>>

-----------------------------------------------------------------------------
(* The app. *)

Connect ==
  /\ phone = "away" /\ phone' = "connected"
  /\ UNCHANGED <<ring, pc, ev, cloud, offset, seen, history>>

Disconnect ==
  /\ phone # "away" /\ phone' = "away" /\ offset' = 0
  /\ UNCHANGED <<ring, pc, ev, cloud, seen, history>>

StartRead ==
  /\ phone \in {"connected", "read"} /\ phone' = "reading" /\ offset' = 0
  /\ shifted' = FALSE
  /\ UNCHANGED <<ring, pc, ev, cloud, seen, made, maker, lastQueued, lost, restarts>>

(* Every part asks for the whole ring again and takes it up at the offset. *)
ReadPart ==
  /\ phone = "reading"
  /\ LET last == IF count < offset + Part THEN count ELSE offset + Part
         got  == SubSeq(Contents, offset + 1, last)
     IN /\ seen' = seen \cup ToSet(got)
        /\ IF Len(got) < Part
           THEN phone' = "read" /\ offset' = 0
           ELSE offset' = offset + Part /\ UNCHANGED phone
  /\ UNCHANGED <<ring, pc, ev, cloud, history>>

Ack ==
  /\ phone = "read" /\ phone' = "connected"
  /\ ClearRing
  /\ seen' = {}
  /\ UNCHANGED <<pc, ev, cloud, offset, history>>

-----------------------------------------------------------------------------
(* Everything on the device is in RAM. *)
Restart ==
  /\ restarts < MaxRestarts /\ restarts' = restarts + 1
  /\ ClearRing
  /\ pc' = [p \in Producers |-> "idle"] /\ ev' = [p \in Producers |-> 0]
  /\ queue' = <<>> /\ task' = "waiting" /\ item' = 0
  /\ phone' = "away" /\ offset' = 0
  /\ lost' = TRUE
  /\ seen' = {}
  /\ UNCHANGED <<record, made, maker, shifted, lastQueued>>

Produce(p) == Report(p) \/ Notify(p) \/ Request(p)
Task  == Ready \/ Take \/ Arrives
Phone == Connect \/ Disconnect \/ StartRead \/ ReadPart \/ Ack

Next == (\E p \in Producers : Produce(p)) \/ Task \/ PushFails \/ Phone \/ Restart

Spec == Init /\ [][Next]_vars

(* Every task runs on; a push, sooner or later, succeeds or fails. *)
FairSpec ==
  /\ Spec
  /\ \A p \in Producers : WF_vars(Notify(p) \/ Request(p))
  /\ WF_vars(Ready) /\ WF_vars(Take) /\ WF_vars(Arrives \/ PushFails)

-----------------------------------------------------------------------------
(* The ring is a log of the last RingMax events, whatever its wrap-around   *)
(* and whatever the acknowledgements in between (event_buffer.c:35-66).     *)
Log == INSTANCE EventLog WITH log <- Contents, Keep <- RingMax
RingIsLog == Log!Spec

(* The acknowledgement erases nothing the app does not know or is not about  *)
(* to be notified of, although events come between its read and its         *)
(* acknowledgement; only a ring that overflows in the middle of a read in    *)
(* parts makes it miss one (gatt_server.c:242-263, 298-309, 590-599).        *)
AckLosesNothing ==
  [][phone = "read" /\ phone' = "connected" /\ count' = 0 /\ ~shifted
       => \A e \in ToSet(Contents) :
            e \in seen \/ \E p \in Producers : pc[p] = "notify" /\ ev[p] = e]_vars

(* What one task reports keeps its order on the way to the cloud, so that a *)
(* leak's end is never overtaken by its beginning (firebase_rtdb.c:78-85,    *)
(* 570-573).                                                                *)
OnItsWay == (IF item = 0 THEN <<>> ELSE <<item>>) \o queue
CloudKeepsOrder ==
  LET way == (IF record = 0 THEN <<>> ELSE <<record>>) \o OnItsWay
  IN \A i, j \in DOMAIN way :
       i < j /\ maker[way[i]] = maker[way[j]] => way[i] < way[j]

(* The last event that found room in the queue ends up in the record, unless *)
(* its own push fails or the unit restarts (firebase_rtdb.c:558-574).        *)
LastIsReported == []<>(record = lastQueued \/ lost)

=============================================================================
