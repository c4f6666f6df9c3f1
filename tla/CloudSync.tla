------------------------------ MODULE CloudSync ------------------------------
(***************************************************************************)
(* The device and its record in the cloud database.                        *)
(*                                                                         *)
(* The firebase task listens to the server-sent events of set/<device> and *)
(* applies them, and it pushes the device's own settings and live state    *)
(* when other tasks have raised a flag.  The app writes the same record.   *)
(* The server streams every write of it, the device's own included.  The   *)
(* settings other than the relay are one value, the custom timer, because  *)
(* it is the one whose encoding is not one to one.                         *)
(***************************************************************************)
EXTENDS Naturals, Sequences

CONSTANTS
  Timers,        \* settings a user can choose: a subset of AllTimers
  Others,        \* who acts besides the task: a subset of AllOthers
  MaxStream      \* bound: events under way from the server

AllTimers == {"off", "six", "midnight"}
AllOthers == {"user", "auto", "silent", "leak", "app", "drop", "loss", "restart"}

ASSUME CloudSyncAssumption ==
  /\ Timers \subseteq AllTimers /\ "off" \in Timers
  /\ Others \subseteq AllOthers /\ MaxStream \in Nat \ {0}

VARIABLES
  on, lockout,   \* s_state
  timer,         \* s_state, the custom timer
  wet,           \* leak_task's debounced leak state
  local,         \* a local writer: "idle", or about to request the pushes
  pendS, pendL,  \* s_pending_settings, s_pending_live
  pc,            \* where the firebase task is
  body,          \* what the HTTP request in flight carries
  up,            \* the SSE stream is open
  stream,        \* events the server has sent and the task has not read
  record,        \* set/<device> on the server
  live,          \* live/<device>/on on the server
  skewed,        \* history: the record's relay was crossed, lost or silently passed
  lost           \* history: the last push of the settings did not arrive

device == <<on, lockout, timer, wet>>
server == <<record, live>>
ghost  == <<skewed, lost>>
vars   == <<device, local, pendS, pendL, pc, body, up, stream, server, ghost>>

Values == [on : BOOLEAN, timer : AllTimers]

(* An event: a put of the whole record, a put of one field, or a patch of    *)
(* the whole record; fresh when the app wrote its relay since the last leak. *)
Events == [kind : {"put", "putOn", "putTimer", "patch"}, on : BOOLEAN,
           timer : AllTimers, fresh : BOOLEAN]

TypeOK ==
  /\ on \in BOOLEAN /\ lockout \in BOOLEAN /\ timer \in AllTimers /\ wet \in BOOLEAN
  /\ local \in {"idle", "request"}
  /\ pendS \in BOOLEAN /\ pendL \in BOOLEAN
  /\ pc \in {"loop", "gather", "settings", "push", "live"}
  /\ body \in Values /\ up \in BOOLEAN
  /\ stream \in Seq(Events) /\ Len(stream) <= MaxStream + 1
  /\ record \in [on : BOOLEAN, timer : AllTimers, fresh : BOOLEAN] /\ live \in BOOLEAN
  /\ skewed \in BOOLEAN /\ lost \in BOOLEAN
  /\ record.timer # "midnight"            \* nobody can write it
  /\ ~up => stream = <<>>
  /\ lockout => wet                       \* the latch does not outlive the leak

(* firebase_rtdb_push_settings: midnight is 0 minutes, which says disabled. *)
(* Mutated form: midnight can be told from disabled. *)
EncodedPlainly(t) == t

Encoded(t) == IF t = "midnight" THEN "off" ELSE t

NoBody == [on |-> FALSE, timer |-> "off"]

(* After boot the task pushes the settings, then the live state, before it   *)
(* listens; the latter is taken as requested.                               *)
Init ==
  /\ on \in BOOLEAN /\ timer \in Timers /\ lockout = FALSE /\ wet = FALSE
  /\ local = "idle" /\ pendS = FALSE /\ pendL = TRUE
  /\ pc = "gather" /\ body = NoBody /\ up = FALSE /\ stream = <<>>
  /\ record \in [on : BOOLEAN, timer : {Encoded(t) : t \in Timers}, fresh : {FALSE}]
  /\ live \in BOOLEAN
  /\ skewed = TRUE /\ lost = TRUE

-----------------------------------------------------------------------------
(* The tasks that change the device: they set it, then request the pushes.  *)

Request ==
  /\ local = "request"
  /\ local' = "idle" /\ pendS' = TRUE /\ pendL' = TRUE
  /\ UNCHANGED <<device, pc, body, up, stream, server, ghost>>

LocalUnchanged == UNCHANGED <<pendS, pendL, pc, body, up, stream, server, ghost>>

UserSwitch ==
  /\ "user" \in Others /\ local = "idle" /\ local' = "request"
  /\ on' = ~on /\ lockout' = (lockout /\ on)
  /\ UNCHANGED <<timer, wet>> /\ LocalUnchanged

UserTimer ==
  /\ "user" \in Others /\ local = "idle" /\ local' = "request"
  /\ timer' \in Timers
  /\ UNCHANGED <<on, lockout, wet>> /\ LocalUnchanged

(* A timer, the thermostat or the run limit; a switch-on may be refused. *)
AutoSwitch ==
  /\ "auto" \in Others /\ local = "idle" /\ local' = "request"
  /\ on' = (~on /\ ~lockout)
  /\ UNCHANGED <<lockout, timer, wet>> /\ LocalUnchanged

(* Interval mode requests no push at all. *)
SilentSwitch ==
  /\ "silent" \in Others
  /\ on' = (~on /\ ~lockout)
  /\ skewed' = TRUE
  /\ UNCHANGED <<lockout, timer, wet, local, pendS, pendL, pc, body, up, stream, server, lost>>

Stale(e) == [e EXCEPT !.fresh = FALSE]

(* The leak task requests a live push only. *)
Leak ==
  /\ "leak" \in Others /\ ~wet
  /\ wet' = TRUE /\ lockout' = TRUE /\ on' = FALSE
  /\ pendL' = TRUE
  /\ stream' = [i \in DOMAIN stream |-> Stale(stream[i])]
  /\ record' = Stale(record)
  /\ skewed' = TRUE
  /\ UNCHANGED <<timer, local, pendS, pc, body, up, live, lost>>

LeakOver ==
  /\ wet /\ wet' = FALSE /\ lockout' = FALSE
  /\ UNCHANGED <<on, timer, local, pendS, pendL, pc, body, up, stream, server, ghost>>

-----------------------------------------------------------------------------
(* The server sends every write to an open stream. *)

(* Bound: nobody begins a write while MaxStream events are under way. *)
Room == up => Len(stream) < MaxStream
Sent(e) == IF up THEN Append(stream, e) ELSE stream

AppSwitches ==
  /\ "app" \in Others /\ Room
  /\ \E v \in BOOLEAN :
       /\ record' = [record EXCEPT !.on = v, !.fresh = TRUE]
       /\ stream' = Sent([kind |-> "putOn", on |-> v, timer |-> "off", fresh |-> TRUE])
  /\ UNCHANGED <<device, local, pendS, pendL, pc, body, up, live, ghost>>

AppSetsTimer ==
  /\ "app" \in Others /\ Room
  /\ \E t \in {Encoded(u) : u \in Timers} :
       /\ record' = [record EXCEPT !.timer = t]
       /\ stream' = Sent([kind |-> "putTimer", on |-> FALSE, timer |-> t, fresh |-> FALSE])
  /\ UNCHANGED <<device, local, pendS, pendL, pc, body, up, live, ghost>>

-----------------------------------------------------------------------------
(* The firebase task: the stream. *)

Connect ==
  /\ pc = "loop" /\ ~up
  /\ up' = TRUE
  /\ stream' = << [kind |-> "put", on |-> record.on, timer |-> record.timer,
                   fresh |-> record.fresh] >>
  /\ UNCHANGED <<device, local, pendS, pendL, pc, body, server, ghost>>

(* The connection breaks, or 90 s go by without data. *)
Disconnect ==
  /\ "drop" \in Others /\ up
  /\ up' = FALSE /\ stream' = <<>>
  /\ UNCHANGED <<device, local, pendS, pendL, pc, body, server, ghost>>

ObeysRelay(e) == e.kind \in {"put", "putOn"}

ObeysTimer(e) == e.kind # "putOn"

(* process_sse_event: a remote relay counts as a user's wish.  A relay that  *)
(* differs is switched, and the live state pushed at once.                  *)
Deliver ==
  /\ pc = "loop" /\ stream # <<>>
  /\ LET e == Head(stream)
         switch == ObeysRelay(e) /\ e.on # on
     IN /\ on' = IF switch THEN e.on ELSE on
        /\ lockout' = (lockout /\ ~(switch /\ e.on))
        /\ timer' = IF ObeysTimer(e) THEN e.timer ELSE timer
        /\ pc' = IF switch THEN "push" ELSE pc
  /\ stream' = Tail(stream)
  /\ UNCHANGED <<wet, local, pendS, pendL, body, up, server, ghost>>

-----------------------------------------------------------------------------
(* The firebase task: process_pending and the pushes.                       *)

(* The flag goes down before the settings are read, and stays as it is when *)
(* the push is over.                                                        *)
FlagTaken == FALSE

TakeSettings ==
  /\ pc = "loop" /\ pendS /\ Room
  /\ pendS' = FlagTaken
  /\ pc' = "gather"
  /\ UNCHANGED <<device, local, pendL, body, up, stream, server, ghost>>

Gather ==
  /\ pc = "gather"
  /\ body' = [on |-> on, timer |-> Encoded(timer)]
  /\ pc' = "settings"
  /\ skewed' = FALSE
  /\ UNCHANGED <<device, local, pendS, pendL, up, stream, server, lost>>

(* An undelivered relay that contradicts the push. *)
Crossed == \E i \in DOMAIN stream : ObeysRelay(stream[i]) /\ stream[i].on # body.on

FlagWhenOver == pendS

SettingsArrive ==
  /\ pc = "settings"
  /\ record' = [on |-> body.on, timer |-> body.timer, fresh |-> FALSE]
  /\ stream' = Sent([kind |-> "patch", on |-> body.on, timer |-> body.timer, fresh |-> FALSE])
  /\ pc' = "loop" /\ body' = NoBody
  /\ pendS' = FlagWhenOver
  /\ skewed' = (skewed \/ Crossed) /\ lost' = FALSE
  /\ UNCHANGED <<device, local, pendL, up, live>>

(* No token, no network, or a status other than 200: the push is forgotten. *)
PushFails ==
  /\ "loss" \in Others /\ pc \in {"settings", "live"}
  /\ pc' = "loop" /\ body' = NoBody
  /\ IF pc = "settings" THEN skewed' = TRUE /\ lost' = TRUE ELSE UNCHANGED ghost
  /\ UNCHANGED <<device, local, pendS, pendL, up, stream, server>>

(* Mutated form: no periodic push. *)
OnRequestOnly == pendL

LiveDue == pendL \/ up            \* requested, or every ten seconds

TakeLive ==
  /\ \/ pc = "loop" /\ LiveDue /\ pendL' = FALSE
     \/ pc = "push" /\ UNCHANGED pendL
  /\ body' = [NoBody EXCEPT !.on = on]
  /\ pc' = "live"
  /\ UNCHANGED <<device, local, pendS, up, stream, server, ghost>>

LiveArrives ==
  /\ pc = "live"
  /\ live' = body.on
  /\ pc' = "loop" /\ body' = NoBody
  /\ UNCHANGED <<device, local, pendS, pendL, up, stream, record, ghost>>

(* The flags and the latch are in RAM, the rest comes back from flash. *)
Restart ==
  /\ "restart" \in Others
  /\ lockout' = FALSE /\ wet' = FALSE
  /\ local' = "idle" /\ pendS' = FALSE /\ pendL' = TRUE
  /\ pc' = "gather" /\ body' = NoBody /\ up' = FALSE /\ stream' = <<>>
  /\ lost' = TRUE
  /\ UNCHANGED <<on, timer, server, skewed>>

-----------------------------------------------------------------------------
Local == Request \/ UserSwitch \/ UserTimer \/ AutoSwitch \/ SilentSwitch
App   == AppSwitches \/ AppSetsTimer
Task  == Connect \/ Deliver \/ TakeSettings \/ Gather \/ SettingsArrive
         \/ TakeLive \/ LiveArrives

Next == Local \/ Leak \/ LeakOver \/ App \/ Task \/ Disconnect \/ PushFails \/ Restart

Spec == Init /\ [][Next]_vars

(* The task keeps running and is fair to each of its duties, and a network  *)
(* that comes back often enough lets every kind of request through.         *)
FairSpec ==
  /\ Spec
  /\ WF_vars(Request) /\ WF_vars(Connect) /\ WF_vars(Gather)
  /\ SF_vars(Deliver) /\ SF_vars(TakeSettings) /\ SF_vars(TakeLive)
  /\ SF_vars(SettingsArrive) /\ SF_vars(LiveArrives)

-----------------------------------------------------------------------------
Quiet == pc = "loop" /\ local = "idle" /\ ~pendS /\ up /\ stream = <<>>

(* With nothing under way, device and record agree, whatever the crossing   *)
(* of local changes, app writes, late echoes and snapshots: on the settings *)
(* unless the last push was lost, on the relay unless an app's toggle       *)
(* crossed a push, a push was lost, or a task switched without requesting   *)
(* one (firebase_rtdb.c:268-305, 362-431, 558-563).                         *)
RecordConverges ==
  Quiet => /\ ~lost => record.timer = Encoded(timer)
           /\ ~skewed => record.on = on

(* The app's live view follows a relay that stays put (firebase_rtdb.c:702). *)
LiveFollows == /\ <>[]on => []<>live
               /\ <>[]~on => []<>~live

-----------------------------------------------------------------------------
(* What the comments say and the code does not do. *)

(* device_state.h:113-117: the latch is cleared for "an explicit USER       *)
(* action (button / BLE / remote)" by somebody who "has been warned and      *)
(* chosen to resume": a switch-on the app wrote before the leak is not that. *)
LatchNeedsUser ==
  [][wet /\ wet' /\ lockout /\ ~lockout'
       => local' = "request" \/ Head(stream).fresh]_vars

=============================================================================
