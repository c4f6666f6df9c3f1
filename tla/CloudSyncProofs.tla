--------------------------- MODULE CloudSyncProofs ---------------------------
(***************************************************************************)
(* Proofs about CloudSync, for any bound on the events under way, any      *)
(* timers and whoever acts: types, and that device and record converge.    *)
(*                                                                         *)
(* The argument: what is under way from the server ends with what the      *)
(* record holds, so that a device that has read it all agrees with the     *)
(* record, or has a push of its own under way.                             *)
(***************************************************************************)
EXTENDS CloudSync, SequenceTheorems, TLAPS

(* The events that change the relay, and those that change the timer.       *)
RelayEvents == {e \in Events : ObeysRelay(e)}
TimerEvents == {e \in Events : ObeysTimer(e)}

(* The i-th is the last one under way of a kind. *)
LastOf(S, s, i) == s[i] \in S /\ \A j \in 1..Len(s) : j > i => s[j] \notin S

NoneOf(S, s) == \A i \in 1..Len(s) : s[i] \notin S

-----------------------------------------------------------------------------
(* A push leaves room for itself, and carries what can be written.          *)
PushInv ==
  /\ pc \in {"gather", "settings"} => Len(stream) <= MaxStream
  /\ body.timer # "midnight"

(* A push of the settings is requested, or about to read them.              *)
Pending == pendS \/ local = "request" \/ pc = "gather"

(* The custom timer: a read stream and a device without a pending push.     *)
TimerInv ==
  up =>
    /\ \A i \in 1..Len(stream) : LastOf(TimerEvents, stream, i) => stream[i].timer = record.timer
    /\ ~lost /\ NoneOf(TimerEvents, stream) =>
         record.timer = Encoded(timer) \/ Pending \/ pc = "settings"

(* The relay is not taken from a push, neither by the device that sends it  *)
(* nor as an echo: the push must carry what the device holds by then.       *)
RelayInv ==
  ~skewed =>
    /\ pc = "settings" => body.on = on \/ Pending
    /\ up /\ pc \notin {"gather", "settings"} =>
         /\ \A i \in 1..Len(stream) : LastOf(RelayEvents, stream, i) => stream[i].on = record.on
         /\ NoneOf(RelayEvents, stream) => record.on = on \/ Pending

IInv == TypeOK /\ PushInv /\ TimerInv /\ RelayInv

-----------------------------------------------------------------------------
(* What is under way, read from the front and written at the end.           *)
LEMMA TailLast ==
  ASSUME NEW S, NEW s \in Seq(Events), s # <<>>
  PROVE  /\ \A i \in 1..Len(Tail(s)) :
              /\ i + 1 \in 1..Len(s) /\ Tail(s)[i] = s[i + 1]
              /\ LastOf(S, Tail(s), i) => LastOf(S, s, i + 1)
         /\ NoneOf(S, Tail(s)) => NoneOf(S, s) \/ LastOf(S, s, 1)
<1>1. Len(s) \in Nat /\ Len(s) >= 1 /\ Len(Tail(s)) = Len(s) - 1
  BY EmptySeq, HeadTailProperties, LenProperties
<1>2. \A i \in 1..Len(Tail(s)) : i + 1 \in 1..Len(s) /\ Tail(s)[i] = s[i + 1]
  BY <1>1, HeadTailProperties
<1>3. ASSUME NEW i \in 1..Len(Tail(s)), LastOf(S, Tail(s), i)
      PROVE  LastOf(S, s, i + 1)
  <2>1. \A j \in 1..Len(s) : j > i + 1 => j - 1 \in 1..Len(Tail(s)) /\ j - 1 > i
    BY <1>1
  <2>2. \A j \in 1..Len(s) : j > i + 1 => s[j] = Tail(s)[j - 1]
    BY <1>2, <2>1
  <2> QED
    BY <1>2, <1>3, <2>1, <2>2 DEF LastOf
<1>4. ASSUME NoneOf(S, Tail(s))
      PROVE  NoneOf(S, s) \/ LastOf(S, s, 1)
  <2>1. \A j \in 1..Len(s) : j > 1 => j - 1 \in 1..Len(Tail(s))
    BY <1>1
  <2>2. \A j \in 1..Len(s) : j > 1 => s[j] = Tail(s)[j - 1]
    BY <1>2, <2>1
  <2>3. \A j \in 1..Len(s) : j > 1 => s[j] \notin S
    BY <1>4, <2>1, <2>2 DEF NoneOf
  <2> QED
    BY <1>1, <2>3 DEF NoneOf, LastOf
<1> QED
  BY <1>2, <1>3, <1>4

LEMMA AppendLast ==
  ASSUME NEW S, NEW s \in Seq(Events), NEW e \in Events, NEW t, t = Append(s, e)
  PROVE  /\ t \in Seq(Events) /\ Len(t) = Len(s) + 1
         /\ e \in S => ~NoneOf(S, t) /\ \A i \in 1..Len(t) : LastOf(S, t, i) => t[i] = e
         /\ e \notin S => /\ NoneOf(S, t) => NoneOf(S, s)
                          /\ \A i \in 1..Len(t) : LastOf(S, t, i) =>
                               i \in 1..Len(s) /\ LastOf(S, s, i) /\ t[i] = s[i]
<1>1. /\ Len(s) \in Nat /\ Len(t) = Len(s) + 1 /\ t \in Seq(Events)
      /\ t[Len(s) + 1] = e /\ \A i \in 1..Len(s) : t[i] = s[i]
  BY AppendProperties, LenProperties
<1>2. \A i \in 1..Len(t) : i = Len(s) + 1 \/ (i \in 1..Len(s) /\ Len(s) + 1 > i)
  BY <1>1
<1>3. Len(s) + 1 \in 1..Len(t) /\ \A i \in 1..Len(s) : i \in 1..Len(t)
  BY <1>1
<1>4. e \in S => ~NoneOf(S, t) /\ \A i \in 1..Len(t) : LastOf(S, t, i) => t[i] = e
  BY <1>1, <1>2, <1>3 DEF NoneOf, LastOf
<1>5. e \notin S => /\ NoneOf(S, t) => NoneOf(S, s)
                   /\ \A i \in 1..Len(t) : LastOf(S, t, i) =>
                        i \in 1..Len(s) /\ LastOf(S, s, i) /\ t[i] = s[i]
  BY <1>1, <1>2, <1>3 DEF NoneOf, LastOf
<1> QED
  BY <1>1, <1>4, <1>5

-----------------------------------------------------------------------------
(* Types. *)

LEMMA EventsAre ==
  /\ \A v \in BOOLEAN, t \in AllTimers, f \in BOOLEAN :
       /\ [kind |-> "put", on |-> v, timer |-> t, fresh |-> f] \in Events
       /\ [kind |-> "putOn", on |-> v, timer |-> t, fresh |-> f] \in Events
       /\ [kind |-> "putTimer", on |-> v, timer |-> t, fresh |-> f] \in Events
       /\ [kind |-> "patch", on |-> v, timer |-> t, fresh |-> f] \in Events
  /\ \A e \in Events : Stale(e) \in Events
BY DEF Events, Stale

LEMMA EncodedIs ==
  ASSUME NEW t \in AllTimers
  PROVE  Encoded(t) \in AllTimers /\ Encoded(t) # "midnight" /\ Encoded(Encoded(t)) = Encoded(t)
BY DEF Encoded, AllTimers

(* What the server sends to an open stream. *)
LEMMA SentIs ==
  ASSUME TypeOK, NEW e \in Events
  PROVE  /\ Sent(e) \in Seq(Events) /\ (~up => Sent(e) = <<>>)
         /\ Len(Sent(e)) \in Nat /\ Len(stream) \in Nat
         /\ Len(Sent(e)) <= Len(stream) + 1
BY AppendLast, LenProperties, EmptySeq DEF TypeOK, Sent

(* The stream keeps its type and its bound. *)
LEMMA StreamStep ==
  ASSUME TypeOK, PushInv, Next
  PROVE  /\ stream' \in Seq(Events) /\ Len(stream') <= MaxStream + 1
         /\ pc' \in {"gather", "settings"} => Len(stream') <= MaxStream
         /\ ~up' => stream' = <<>>
<1> USE CloudSyncAssumption
<1>0. /\ stream \in Seq(Events) /\ Len(stream) <= MaxStream + 1 /\ Len(stream) \in Nat
      /\ pc \in {"gather", "settings"} => Len(stream) <= MaxStream
      /\ ~up => stream = <<>>
      /\ <<>> \in Seq(Events) /\ Len(<<>>) = 0
  BY LenProperties DEF TypeOK, PushInv
<1>1. CASE \/ UNCHANGED <<stream, up>> /\ (pc' = pc \/ pc' \notin {"gather", "settings"})
  BY <1>0, <1>1
<1>2. CASE AppSwitches \/ AppSetsTimer
  <2>1. PICK e \in Events : stream' = Sent(e)
    BY <1>2, EncodedIs, EventsAre, CloudSyncAssumption DEF AppSwitches, AppSetsTimer, AllTimers
  <2>2. pc' = pc /\ up' = up /\ (up => Len(stream) < MaxStream)
    BY <1>2 DEF AppSwitches, AppSetsTimer, Room
  <2> QED
    BY <1>0, <2>1, <2>2, SentIs
<1>3. CASE SettingsArrive
  <2>1. PICK e \in Events : stream' = Sent(e)
    BY <1>3, EventsAre DEF SettingsArrive, TypeOK, Values
  <2>2. pc' = "loop" /\ up' = up /\ pc = "settings"
    BY <1>3 DEF SettingsArrive
  <2> QED
    BY <1>0, <2>1, <2>2, SentIs
<1>4. CASE Deliver
  <2>1. pc = "loop" /\ pc' \in {"loop", "push"} /\ stream # <<>> /\ stream' = Tail(stream) /\ up' = up
    BY <1>4 DEF Deliver
  <2>2. stream' \in Seq(Events) /\ Len(stream') = Len(stream) - 1
    BY <1>0, <2>1, HeadTailProperties
  <2> QED
    BY <1>0, <2>1, <2>2
<1>5. CASE Connect
  <2>1. PICK e \in Events : stream' = <<e>>
    BY <1>5, EventsAre DEF Connect, TypeOK
  <2>2. pc' = "loop" /\ up' = TRUE
    BY <1>5 DEF Connect
  <2>3. stream' \in Seq(Events) /\ Len(stream') = 1
    BY <2>1
  <2> QED
    BY <2>2, <2>3
<1>6. CASE Disconnect \/ Restart
  <2>1. stream' = <<>>
    BY <1>6 DEF Disconnect, Restart
  <2> QED
    BY <1>0, <2>1
<1>7. CASE Leak
  <2>1. stream' = [i \in 1..Len(stream) |-> Stale(stream[i])] /\ UNCHANGED <<pc, up>>
    BY <1>0, <1>7, LenProperties DEF Leak
  <2>2. stream' \in Seq(Events) /\ Len(stream') = Len(stream)
    BY <1>0, <2>1, EventsAre, ElementOfSeq
  <2>3. stream = <<>> => stream' = <<>>
    BY <1>0, <2>2, EmptySeq
  <2> QED
    BY <1>0, <2>1, <2>2, <2>3
<1>8. CASE TakeSettings
  BY <1>0, <1>8 DEF TakeSettings, Room
<1>9. CASE Gather
  BY <1>0, <1>9 DEF Gather
<1> QED
  BY <1>1, <1>2, <1>3, <1>4, <1>5, <1>6, <1>7, <1>8, <1>9
     DEF Next, Local, App, Task, Request, UserSwitch, UserTimer, AutoSwitch, SilentSwitch,
         LocalUnchanged, LeakOver, PushFails, TakeLive, LiveArrives

LEMMA TypeStep ==
  ASSUME TypeOK, PushInv, Next
  PROVE  TypeOK' /\ PushInv'
<1> USE CloudSyncAssumption DEF TypeOK, PushInv, device, server, ghost
<1>0. /\ stream' \in Seq(Events) /\ Len(stream') <= MaxStream + 1
      /\ pc' \in {"gather", "settings"} => Len(stream') <= MaxStream
      /\ ~up' => stream' = <<>>
  BY StreamStep
<1>1. CASE Request
  BY <1>0, <1>1 DEF Request
<1>2. CASE UserSwitch \/ UserTimer \/ AutoSwitch
  <2>1. on' \in BOOLEAN /\ timer' \in AllTimers
    BY <1>2 DEF UserSwitch, UserTimer, AutoSwitch
  <2>3. lockout' = (lockout /\ on) \/ lockout' = lockout
    BY <1>2 DEF UserSwitch, UserTimer, AutoSwitch
  <2>4. /\ lockout' \in BOOLEAN
        /\ lockout' => lockout
    BY <2>3
  <2>2. local' = "request" /\ UNCHANGED <<wet, pendS, pendL, pc, body, up, record, live, skewed, lost>>
    BY <1>2 DEF UserSwitch, UserTimer, AutoSwitch, LocalUnchanged
  <2> QED
    BY <1>0, <2>1, <2>2, <2>4
<1>3. CASE SilentSwitch
  BY <1>0, <1>3 DEF SilentSwitch
<1>4. CASE Leak \/ LeakOver
  BY <1>0, <1>4 DEF Leak, LeakOver, Stale
<1>5. CASE AppSwitches \/ AppSetsTimer
  <2>1. /\ record' \in [on : BOOLEAN, timer : AllTimers, fresh : BOOLEAN]
        /\ record'.timer # "midnight"
    <3>1. CASE AppSwitches
      BY <3>1 DEF AppSwitches
    <3>2. CASE AppSetsTimer
      <4>1. PICK t \in Timers : record' = [record EXCEPT !.timer = Encoded(t)]
        BY <3>2 DEF AppSetsTimer
      <4>2. Encoded(t) \in AllTimers /\ Encoded(t) # "midnight"
        BY EncodedIs
      <4> QED
        BY <4>1, <4>2
    <3> QED
      BY <1>5, <3>1, <3>2
  <2>2. UNCHANGED <<device, local, pendS, pendL, pc, body, up, live, ghost>>
    BY <1>5 DEF AppSwitches, AppSetsTimer
  <2> QED
    BY <1>0, <2>1, <2>2
<1>6. CASE Connect \/ Disconnect
  <2>1. up' \in BOOLEAN /\ UNCHANGED <<device, local, pendS, pendL, pc, body, server, ghost>>
    BY <1>6 DEF Connect, Disconnect
  <2> QED
    BY <1>0, <2>1
<1>7. CASE Deliver
  <2>1. Head(stream) \in Events
    BY <1>7, HeadTailProperties DEF Deliver
  <2> QED
    BY <1>0, <1>7, <2>1 DEF Deliver, Events
<1>8. CASE TakeSettings
  BY <1>0, <1>8 DEF TakeSettings, FlagTaken
<1>9. CASE Gather
  BY <1>0, <1>9, EncodedIs DEF Gather, Values
<1>10. CASE SettingsArrive
  <2>1. /\ record' \in [on : BOOLEAN, timer : AllTimers, fresh : BOOLEAN]
        /\ record'.timer # "midnight"
    BY <1>10 DEF SettingsArrive, Values
  <2>2. /\ pc' = "loop" /\ body' \in Values /\ body'.timer # "midnight"
        /\ lost' \in BOOLEAN /\ pendS' = pendS
        /\ UNCHANGED <<device, local, pendL, up, live>>
    BY <1>10 DEF SettingsArrive, NoBody, Values, AllTimers, FlagWhenOver
  <2>3. skewed' \in BOOLEAN
    BY <1>10 DEF SettingsArrive, Crossed
  <2> QED
    BY <1>0, <2>1, <2>2, <2>3
<1>11. CASE PushFails \/ TakeLive \/ LiveArrives
  <2>1. body' \in Values /\ body'.timer # "midnight"
    <3>1. body' = NoBody \/ body' = [NoBody EXCEPT !.on = on]
      BY <1>11 DEF PushFails, TakeLive, LiveArrives
    <3>2. NoBody \in Values /\ NoBody.timer = "off"
      BY DEF NoBody, Values, AllTimers
    <3> QED
      BY <3>1, <3>2 DEF Values
  <2>2. pc' \in {"loop", "live"} /\ pendL' \in BOOLEAN /\ live' \in BOOLEAN
    BY <1>11 DEF PushFails, TakeLive, LiveArrives, Values
  <2>3. /\ skewed' \in BOOLEAN /\ lost' \in BOOLEAN
        /\ UNCHANGED <<device, local, pendS, up, record>>
    BY <1>11 DEF PushFails, TakeLive, LiveArrives
  <2> QED
    BY <1>0, <2>1, <2>2, <2>3
<1>12. CASE Restart
  BY <1>0, <1>12 DEF Restart, NoBody, Values, AllTimers
<1> QED
  BY <1>1, <1>2, <1>3, <1>4, <1>5, <1>6, <1>7, <1>8, <1>9, <1>10, <1>11, <1>12
     DEF Next, Local, App, Task

-----------------------------------------------------------------------------
(* Convergence. *)

(* A write of the record goes to the stream: an event of the kind ends it    *)
(* with what the record has got, another leaves its end as it was.          *)
LEMMA SentLast ==
  ASSUME TypeOK, up, NEW S, NEW e \in Events, NEW t, t = Sent(e)
  PROVE  /\ e \in S => ~NoneOf(S, t) /\ \A i \in 1..Len(t) : LastOf(S, t, i) => t[i] = e
         /\ e \notin S => /\ NoneOf(S, t) => NoneOf(S, stream)
                          /\ \A i \in 1..Len(t) : LastOf(S, t, i) =>
                               i \in 1..Len(stream) /\ LastOf(S, stream, i) /\ t[i] = stream[i]
<1>1. t = Append(stream, e) /\ stream \in Seq(Events)
  BY DEF TypeOK, Sent
<1>2. e \in S => ~NoneOf(S, t)
  BY <1>1, AppendLast
<1>3. ASSUME e \in S, NEW i \in 1..Len(t), LastOf(S, t, i) PROVE t[i] = e
  <2>1. Len(stream) \in Nat /\ Len(t) = Len(stream) + 1 /\ t[Len(stream) + 1] = e
    BY <1>1, AppendProperties, LenProperties
  <2>2. ~(Len(stream) + 1 > i)
    BY <1>3, <2>1 DEF LastOf
  <2> QED
    BY <2>1, <2>2
<1>4. e \notin S /\ NoneOf(S, t) => NoneOf(S, stream)
  BY <1>1, AppendLast
<1>5. e \notin S => \A i \in 1..Len(t) : LastOf(S, t, i) =>
        i \in 1..Len(stream) /\ LastOf(S, stream, i) /\ t[i] = stream[i]
  BY <1>1, AppendLast
<1> QED
  BY <1>2, <1>3, <1>4, <1>5

(* An event is delivered: either it was the last one of its kind, or the    *)
(* rest of the stream still ends as it did.                                 *)
LEMMA DeliverLast ==
  ASSUME TypeOK, Deliver, NEW S
  PROVE  /\ Head(stream) = stream[1] /\ Head(stream) \in Events /\ 1 \in 1..Len(stream)
         /\ \A i \in 1..Len(stream') : LastOf(S, stream', i) =>
              \E j \in 1..Len(stream) : LastOf(S, stream, j) /\ stream'[i] = stream[j]
         /\ NoneOf(S, stream') => NoneOf(S, stream) \/ LastOf(S, stream, 1)
<1>1. stream \in Seq(Events) /\ stream # <<>> /\ stream' = Tail(stream)
  BY DEF TypeOK, Deliver
<1>2. Head(stream) = stream[1] /\ Head(stream) \in Events /\ 1 \in 1..Len(stream)
  BY <1>1, HeadTailProperties, EmptySeq, LenProperties
<1> QED
  BY <1>1, <1>2, TailLast

(* Events that a leak made stale are of the kind they were. *)
LEMMA StaleLast ==
  ASSUME TypeOK, Leak
  PROVE  /\ Len(stream') = Len(stream)
         /\ \A i \in 1..Len(stream) :
              /\ stream'[i].timer = stream[i].timer
              /\ stream'[i] \in TimerEvents <=> stream[i] \in TimerEvents
<1>1. stream \in Seq(Events) /\ stream' = [i \in 1..Len(stream) |-> Stale(stream[i])]
  BY LenProperties DEF TypeOK, Leak
<1>2. \A i \in 1..Len(stream) : stream[i] \in Events
  BY <1>1, ElementOfSeq
<1>3. Len(stream') = Len(stream)
  BY <1>1, <1>2, LenProperties
<1>4. \A e \in Events : /\ Stale(e) \in Events /\ Stale(e).timer = e.timer
                       /\ Stale(e).kind = e.kind
  BY DEF Events, Stale
<1> QED
  BY <1>1, <1>2, <1>3, <1>4 DEF TimerEvents, ObeysTimer

LEMMA TimerStep ==
  ASSUME TypeOK, TypeOK', PushInv, TimerInv, Next
  PROVE  TimerInv'
<1> USE DEF device, server, ghost
<1>1. CASE UNCHANGED <<up, stream, record, lost, timer>>
           /\ (Pending \/ pc = "settings" => Pending' \/ pc' = "settings")
  BY <1>1 DEF TimerInv, Encoded
<1>2. CASE /\ UNCHANGED <<up, stream, record>> /\ (lost' \/ Pending' \/ pc' = "settings")
  BY <1>2 DEF TimerInv
<1>3. CASE Leak
  <2>1. Len(stream') = Len(stream) /\ \A i \in 1..Len(stream) :
          /\ stream'[i].timer = stream[i].timer
          /\ stream'[i] \in TimerEvents <=> stream[i] \in TimerEvents
    BY <1>3, StaleLast
  <2>2. record'.timer = record.timer /\ UNCHANGED <<up, timer, local, pendS, pc, lost>>
    BY <1>3 DEF Leak, Stale, TypeOK
  <2>3. \A i \in 1..Len(stream') : LastOf(TimerEvents, stream', i) => LastOf(TimerEvents, stream, i)
    BY <2>1 DEF LastOf
  <2>4. NoneOf(TimerEvents, stream') => NoneOf(TimerEvents, stream)
    BY <2>1 DEF NoneOf
  <2> QED
    BY <2>1, <2>2, <2>3, <2>4 DEF TimerInv, Encoded, Pending
<1>4. CASE ~up'
  BY <1>4 DEF TimerInv
<1>5. CASE Connect
  <2>1. /\ Len(stream') = 1 /\ stream'[1].timer = record.timer /\ stream'[1] \in TimerEvents
        /\ record' = record
    BY <1>5, EventsAre DEF Connect, TypeOK, TimerEvents, ObeysTimer
  <2> QED
    BY <2>1 DEF TimerInv, NoneOf
<1>6. CASE AppSwitches /\ up
  <2>1. PICK e \in Events \ TimerEvents : stream' = Sent(e)
    BY <1>6, EventsAre DEF AppSwitches, TimerEvents, ObeysTimer, AllTimers
  <2>2. /\ record'.timer = record.timer
        /\ UNCHANGED <<up, timer, local, pendS, pc, lost>>
    BY <1>6 DEF AppSwitches, TypeOK
  <2> QED
    BY <1>6, <2>1, <2>2, SentLast DEF TimerInv, Encoded, Pending
<1>7. CASE (AppSetsTimer \/ SettingsArrive) /\ up
  <2>1. PICK e \in TimerEvents : stream' = Sent(e) /\ e.timer = record'.timer
    <3>1. CASE AppSetsTimer
      <4>1. PICK t \in {Encoded(u) : u \in Timers} :
              /\ record' = [record EXCEPT !.timer = t]
              /\ stream' = Sent([kind |-> "putTimer", on |-> FALSE, timer |-> t, fresh |-> FALSE])
        BY <3>1 DEF AppSetsTimer
      <4>2. t \in AllTimers
        BY EncodedIs, CloudSyncAssumption
      <4>3. record'.timer = t
        BY <4>1 DEF TypeOK
      <4> DEFINE e == [kind |-> "putTimer", on |-> FALSE, timer |-> t, fresh |-> FALSE]
      <4>4. e \in Events /\ ObeysTimer(e) /\ e.timer = t
        BY <4>2, EventsAre DEF ObeysTimer
      <4> HIDE DEF e
      <4>5. stream' = Sent(e)
        BY <4>1 DEF e
      <4> QED
        BY <4>3, <4>4, <4>5 DEF TimerEvents
    <3>2. CASE SettingsArrive
      <4> DEFINE e == [kind |-> "patch", on |-> body.on, timer |-> body.timer, fresh |-> FALSE]
      <4>1. body.on \in BOOLEAN /\ body.timer \in AllTimers
        BY DEF TypeOK, Values
      <4>2. e \in Events /\ ObeysTimer(e) /\ e.timer = body.timer
        BY <4>1, EventsAre DEF ObeysTimer
      <4>3. stream' = Sent(e) /\ record'.timer = body.timer
        BY <3>2 DEF SettingsArrive
      <4> HIDE DEF e
      <4> QED
        BY <4>2, <4>3 DEF TimerEvents
    <3> QED
      BY <1>7, <3>1, <3>2
  <2>2. e \in Events
    BY DEF TimerEvents
  <2> QED
    BY <1>7, <2>1, <2>2, SentLast DEF TimerInv
<1>8. CASE Deliver /\ up
  <2>1. UNCHANGED <<up, record, lost, local, pendS>> /\ pc = "loop"
    BY <1>8 DEF Deliver
  <2>2. /\ \A i \in 1..Len(stream') : LastOf(TimerEvents, stream', i) =>
             \E j \in 1..Len(stream) : LastOf(TimerEvents, stream, j) /\ stream'[i] = stream[j]
        /\ NoneOf(TimerEvents, stream') =>
             NoneOf(TimerEvents, stream) \/ LastOf(TimerEvents, stream, 1)
        /\ Head(stream) = stream[1] /\ Head(stream) \in Events /\ 1 \in 1..Len(stream)
    BY <1>8, DeliverLast
  <2>3. CASE LastOf(TimerEvents, stream, 1)
    <3>1. timer' = Head(stream).timer /\ Head(stream).timer = record.timer
      BY <1>8, <2>2, <2>3 DEF Deliver, LastOf, TimerEvents, TimerInv
    <3>2. record'.timer = Encoded(timer')
      BY <2>1, <3>1 DEF TypeOK, Encoded
    <3> QED
      BY <1>8, <2>1, <2>2, <3>2 DEF TimerInv
  <2>4. CASE NoneOf(TimerEvents, stream)
    <3>1. timer' = timer
      BY <1>8, <2>2, <2>4 DEF Deliver, NoneOf, TimerEvents
    <3> QED
      BY <1>8, <2>1, <2>2, <2>4, <3>1 DEF TimerInv, Encoded, Pending
  <2>5. CASE ~NoneOf(TimerEvents, stream')
    BY <1>8, <2>1, <2>2, <2>5 DEF TimerInv
  <2> QED
    BY <2>2, <2>3, <2>4, <2>5
<1>9. CASE Local \/ LeakOver \/ TakeLive \/ LiveArrives
  <2>1. UNCHANGED <<up, stream, record, lost>>
    BY <1>9 DEF Local, Request, UserSwitch, UserTimer, AutoSwitch, SilentSwitch, LocalUnchanged,
       LeakOver, TakeLive, LiveArrives
  <2>2. \/ timer' = timer /\ (Pending \/ pc = "settings" => Pending' \/ pc' = "settings")
        \/ Pending'
    BY <1>9 DEF Local, Request, UserSwitch, UserTimer, AutoSwitch, SilentSwitch, LocalUnchanged,
       LeakOver, TakeLive, LiveArrives, Pending
  <2> QED
    BY <1>1, <1>2, <2>1, <2>2
<1>10. CASE TakeSettings \/ Gather \/ PushFails
  BY <1>2, <1>10, <1>1 DEF TakeSettings, Gather, PushFails, Pending
<1>11. CASE Disconnect \/ Restart
  BY <1>4, <1>11 DEF Disconnect, Restart
<1>12. CASE (App \/ SettingsArrive \/ Deliver) /\ ~up
  <2>1. up' = up
    BY <1>12 DEF App, AppSwitches, AppSetsTimer, SettingsArrive, Deliver
  <2> QED
    BY <1>4, <1>12, <2>1
<1> QED
  BY <1>3, <1>5, <1>6, <1>7, <1>8, <1>9, <1>10, <1>11, <1>12 DEF Next, App, Task

LEMMA RelayStep ==
  ASSUME TypeOK, TypeOK', RelayInv, Next
  PROVE  RelayInv'
<1> USE DEF device, server, ghost
<1>1. CASE Local
  <2>1. \/ skewed'
        \/ UNCHANGED <<skewed, up, stream, record, pc, body>> /\ Pending'
    BY <1>1 DEF Local, Request, UserSwitch, UserTimer, AutoSwitch, SilentSwitch, LocalUnchanged,
       Pending
  <2> QED
    BY <2>1 DEF RelayInv
<1>2. CASE Leak
  BY <1>2 DEF Leak, RelayInv
<1>3. CASE LeakOver \/ TakeLive \/ LiveArrives \/ PushFails
  <2>1. \/ skewed'
        \/ /\ UNCHANGED <<skewed, up, stream, record, on, local, pendS>>
           /\ \/ pc' = pc /\ body' = body
              \/ pc' \notin {"gather", "settings"} /\ pc \notin {"gather", "settings"}
    BY <1>3 DEF LeakOver, TakeLive, LiveArrives, PushFails
  <2> QED
    BY <2>1 DEF RelayInv, Pending
<1>4. CASE AppSwitches
  <2>1. UNCHANGED <<skewed, up, on, local, pendS, pc, body>>
    BY <1>4 DEF AppSwitches
  <2>2. PICK v \in BOOLEAN :
          /\ record' = [record EXCEPT !.on = v, !.fresh = TRUE]
          /\ stream' = Sent([kind |-> "putOn", on |-> v, timer |-> "off", fresh |-> TRUE])
    BY <1>4 DEF AppSwitches
  <2> DEFINE e == [kind |-> "putOn", on |-> v, timer |-> "off", fresh |-> TRUE]
  <2>3. e \in Events /\ e.on = v /\ ObeysRelay(e)
    BY EventsAre DEF AllTimers, ObeysRelay
  <2>4. record'.on = v
    BY <2>2 DEF TypeOK
  <2> HIDE DEF e
  <2>5. e \in RelayEvents /\ stream' = Sent(e)
    BY <2>2, <2>3 DEF RelayEvents, e
  <2> QED
    BY <2>1, <2>3, <2>4, <2>5, SentLast DEF RelayInv, Pending
<1>5. CASE AppSetsTimer
  <2>1. UNCHANGED <<skewed, up, on, local, pendS, pc, body>>
    BY <1>5 DEF AppSetsTimer
  <2>2. PICK t \in {Encoded(u) : u \in Timers} :
          /\ record' = [record EXCEPT !.timer = t]
          /\ stream' = Sent([kind |-> "putTimer", on |-> FALSE, timer |-> t, fresh |-> FALSE])
    BY <1>5 DEF AppSetsTimer
  <2> DEFINE e == [kind |-> "putTimer", on |-> FALSE, timer |-> t, fresh |-> FALSE]
  <2>3. t \in AllTimers
    BY EncodedIs, CloudSyncAssumption
  <2>4. e \in Events /\ ~ObeysRelay(e)
    BY <2>3, EventsAre DEF ObeysRelay
  <2>5. record'.on = record.on
    BY <2>2 DEF TypeOK
  <2> HIDE DEF e
  <2>6. e \in Events /\ e \notin RelayEvents /\ stream' = Sent(e)
    BY <2>2, <2>4 DEF RelayEvents, e
  <2> QED
    BY <2>1, <2>5, <2>6, SentLast DEF RelayInv, Pending
<1>6. CASE Connect
  <2>1. /\ Len(stream') = 1 /\ stream'[1].on = record.on /\ stream'[1] \in RelayEvents
        /\ record' = record /\ pc' = "loop"
    BY <1>6, EventsAre DEF Connect, TypeOK, RelayEvents, ObeysRelay
  <2> QED
    BY <2>1 DEF RelayInv, NoneOf
<1>7. CASE Disconnect \/ Restart
  <2>1. /\ ~up' /\ skewed' = skewed
        /\ pc' = "gather" \/ UNCHANGED <<pc, on, local, pendS, body>>
    BY <1>7 DEF Disconnect, Restart
  <2> QED
    BY <2>1 DEF RelayInv, Pending
<1>8. CASE Deliver
  <2>1. /\ UNCHANGED <<up, record, skewed, local, pendS>> /\ pc = "loop" /\ pc' \in {"loop", "push"}
        /\ up
    BY <1>8 DEF Deliver, TypeOK
  <2>2. /\ \A i \in 1..Len(stream') : LastOf(RelayEvents, stream', i) =>
             \E j \in 1..Len(stream) : LastOf(RelayEvents, stream, j) /\ stream'[i] = stream[j]
        /\ NoneOf(RelayEvents, stream') =>
             NoneOf(RelayEvents, stream) \/ LastOf(RelayEvents, stream, 1)
        /\ Head(stream) = stream[1] /\ Head(stream) \in Events /\ 1 \in 1..Len(stream)
    BY <1>8, DeliverLast
  <2>3. CASE LastOf(RelayEvents, stream, 1)
    <3>1. ~skewed => Head(stream).on = record.on
      BY <2>1, <2>2, <2>3 DEF RelayInv
    <3>2. on' = Head(stream).on
      BY <1>8, <2>2, <2>3 DEF Deliver, LastOf, RelayEvents
    <3> QED
      BY <2>1, <2>2, <3>1, <3>2 DEF RelayInv
  <2>4. CASE NoneOf(RelayEvents, stream)
    <3>1. on' = on
      BY <1>8, <2>2, <2>4 DEF Deliver, NoneOf, RelayEvents
    <3> QED
      BY <2>1, <2>2, <2>4, <3>1 DEF RelayInv, Pending
  <2>5. CASE ~NoneOf(RelayEvents, stream')
    BY <2>1, <2>2, <2>5 DEF RelayInv
  <2> QED
    BY <2>2, <2>3, <2>4, <2>5
<1>9. CASE TakeSettings
  BY <1>9 DEF TakeSettings, RelayInv
<1>10. CASE Gather
  BY <1>10 DEF Gather, RelayInv
<1>11. CASE SettingsArrive
  <2>1. /\ UNCHANGED <<up, on, local, pendS>> /\ pc = "settings" /\ pc' = "loop"
        /\ record'.on = body.on
        /\ ~skewed' => ~skewed /\ ~Crossed
    BY <1>11 DEF SettingsArrive, FlagWhenOver
  <2> DEFINE e == [kind |-> "patch", on |-> body.on, timer |-> body.timer, fresh |-> FALSE]
  <2>2. body.on \in BOOLEAN /\ body.timer \in AllTimers
    BY DEF TypeOK, Values
  <2>3. e \in Events /\ ~ObeysRelay(e)
    BY <2>2, EventsAre DEF ObeysRelay
  <2>4. stream' = Sent(e)
    BY <1>11 DEF SettingsArrive
  <2> HIDE DEF e
  <2>5. e \in Events /\ e \notin RelayEvents
    BY <2>3 DEF RelayEvents
  <2>6. ASSUME ~skewed'
        PROVE  /\ \A i \in 1..Len(stream) : stream[i] \in RelayEvents => stream[i].on = body.on
               /\ body.on = on \/ pendS \/ local = "request"
    <3>1. stream \in Seq(Events) /\ \A i \in 1..Len(stream) : i \in DOMAIN stream
      BY LenProperties DEF TypeOK
    <3>2. \A i \in 1..Len(stream) : stream[i] \in RelayEvents => stream[i].on = body.on
      BY <2>1, <2>6, <3>1 DEF Crossed, RelayEvents
    <3> QED
      BY <2>1, <2>6, <3>2 DEF RelayInv, Pending
  <2>7. CASE up
    <3>1. \A i \in 1..Len(stream') : LastOf(RelayEvents, stream', i) =>
            i \in 1..Len(stream) /\ stream'[i] = stream[i] /\ stream[i] \in RelayEvents
      BY <2>4, <2>5, <2>7, SentLast DEF LastOf
    <3> QED
      BY <2>1, <2>6, <3>1 DEF RelayInv, Pending
  <2>8. CASE ~up
    <3>1. ~up'
      BY <2>1, <2>8
    <3> QED
      BY <2>1, <3>1 DEF RelayInv
  <2> QED
    BY <2>7, <2>8
<1> QED
  BY <1>1, <1>2, <1>3, <1>4, <1>5, <1>6, <1>7, <1>8, <1>9, <1>10, <1>11 DEF Next, App, Task

-----------------------------------------------------------------------------
LEMMA Initially == Init => IInv
<1> SUFFICES ASSUME Init PROVE IInv
  OBVIOUS
<1> USE CloudSyncAssumption
<1>1. /\ on \in BOOLEAN /\ timer \in AllTimers /\ lockout = FALSE /\ wet = FALSE
      /\ local = "idle" /\ pendS = FALSE /\ pendL = TRUE /\ pc = "gather" /\ body = NoBody
      /\ up = FALSE /\ stream = <<>> /\ live \in BOOLEAN /\ skewed = TRUE /\ lost = TRUE
  BY DEF Init
<1>2. /\ record \in [on : BOOLEAN, timer : AllTimers, fresh : BOOLEAN]
      /\ record.timer # "midnight"
  <2>1. record \in [on : BOOLEAN, timer : {Encoded(t) : t \in Timers}, fresh : {FALSE}]
    BY DEF Init
  <2> QED
    BY <2>1, EncodedIs
<1>3. NoBody \in Values /\ NoBody.timer # "midnight"
  BY DEF NoBody, Values, AllTimers
<1>4. stream \in Seq(Events) /\ Len(stream) <= MaxStream /\ Len(stream) <= MaxStream + 1
  BY <1>1
<1>5. TypeOK
  BY <1>1, <1>2, <1>3, <1>4 DEF TypeOK
<1>6. PushInv /\ TimerInv /\ RelayInv
  BY <1>1, <1>3, <1>4 DEF PushInv, TimerInv, RelayInv
<1> QED
  BY <1>5, <1>6 DEF IInv

LEMMA Inductive == IInv /\ [Next]_vars => IInv'
<1> SUFFICES ASSUME IInv, [Next]_vars PROVE IInv'
  OBVIOUS
<1>1. CASE Next
  BY <1>1, TypeStep, TimerStep, RelayStep DEF IInv
<1>2. CASE UNCHANGED vars
  BY <1>2 DEF IInv, TypeOK, PushInv, TimerInv, RelayInv, Pending, Encoded, vars, device,
     server, ghost
<1> QED
  BY <1>1, <1>2

LEMMA Invariance == Spec => []IInv
BY Initially, Inductive, PTL DEF Spec

(* Every variable keeps its type; no more is under way than the bound and   *)
(* the push for which there was room; nobody writes a timer that reads as   *)
(* midnight; the latch does not outlive the leak.                           *)
THEOREM TypeCorrect == Spec => []TypeOK
<1>1. IInv => TypeOK
  BY DEF IInv
<1> QED
  BY <1>1, Invariance, PTL

(* With nothing under way device and record agree on the settings unless    *)
(* the last push was lost, and on the relay unless it was crossed, lost or   *)
(* silently passed, however many events were under way and in whatever      *)
(* order (firebase_rtdb.c:268-305, 362-431, 558-563).                       *)
THEOREM DeviceConverges == Spec => []RecordConverges
<1>1. IInv => RecordConverges
  <2> SUFFICES ASSUME IInv, Quiet PROVE /\ ~lost => record.timer = Encoded(timer)
                                        /\ ~skewed => record.on = on
    BY DEF RecordConverges
  <2>1. pc = "loop" /\ ~Pending /\ up /\ Len(stream) = 0
    BY DEF Quiet, Pending
  <2>2. NoneOf(TimerEvents, stream) /\ NoneOf(RelayEvents, stream)
    BY <2>1 DEF NoneOf
  <2> QED
    BY <2>1, <2>2 DEF IInv, TimerInv, RelayInv
<1> QED
  BY <1>1, Invariance, PTL

=============================================================================
