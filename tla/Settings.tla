------------------------------ MODULE Settings ------------------------------
(***************************************************************************)
(* The settings: temperature limits, auto-reheat, timers, run limit and    *)
(* the interval-mode opt-in, live in RAM and stored in flash.              *)
(*                                                                         *)
(* Two tasks write them, the BLE host (the GATT handlers) and the firebase *)
(* task (events of the settings stream).  A write is                       *)
(*     [read the live group] -> set the live group -> store it in flash    *)
(* where each arrow is a place at which the other task may come in: only   *)
(* the reading and the setting of RAM hold the state mutex.  A restart     *)
(* loads the flash and clamps what it finds.                               *)
(*                                                                         *)
(* A setting is a field; a group is the fields that one write replaces.    *)
(* Names of groups are members of Mixes next to those of the tasks.        *)
(***************************************************************************)
EXTENDS Limits, Sequences, Actors

CONSTANTS
  Bytes,        \* raw values a writer sends for a temperature
  Minutes,      \* raw values a writer sends for the run limit
  MaxOnCeil     \* MAX_ON_CEIL

ASSUME SettingsAssumption ==
  Bytes \subseteq Nat /\ Minutes \subseteq Nat /\ MaxOnCeil \in Nat

Writers == {"ble", "firebase"}

FieldsOf == [limits |-> {"min", "max"}, ar |-> {"ar"},
             timers |-> {"presets", "custom"}, maxon |-> {"maxon"}, fallback |-> {"fallback"}]
Groups == DOMAIN FieldsOf
Fields == UNION {FieldsOf[g] : g \in Groups}

VARIABLES
  live,        \* s_state: a value for each field
  flash,       \* the keys of the flash
  writer,      \* where each writer is in its handler
  asked,       \* history: what an undisturbed write leaves in each group
  overlapped   \* history: the last write of a group met another one of it

settingsVars == <<live, flash, writer, asked, overlapped>>

Restricted(s, F) == [f \in F |-> s[f]]
Over(v, s)       == [f \in DOMAIN s |-> IF f \in DOMAIN v THEN v[f] ELSE s[f]]

(* What a write of a group puts into RAM, whatever it was asked to put. *)
Normal(v) ==
  CASE DOMAIN v = FieldsOf.limits -> Clamped(v)
    [] DOMAIN v = FieldsOf.maxon  -> [v EXCEPT !.maxon = Within(v.maxon, 0, MaxOnCeil)]
    [] OTHER                      -> v

(* nvs_store_load clamps what it finds. *)
Loaded(s) ==
  Over(Normal(Restricted(s, FieldsOf.maxon)), Over(Normal(Restricted(s, FieldsOf.limits)), s))

Idle == [pc |-> "idle", val |-> <<>>, todo |-> <<>>]

SettingsType ==
  /\ live \in [Fields -> Nat] /\ flash \in [Fields -> Nat] /\ asked \in [Fields -> Nat]
  /\ Usable(Pair(live.min, live.max)) /\ live.maxon <= MaxOnCeil
  /\ overlapped \in [Groups -> BOOLEAN]
  /\ \A w \in Writers :
       /\ writer[w].pc \in {"idle", "next", "set", "store", "store2"}
       /\ writer[w].pc \in {"idle", "next"} <=> writer[w].val = <<>>
       /\ writer[w].pc \notin {"idle", "next"} =>
            \E g \in Groups : DOMAIN writer[w].val = FieldsOf[g]
       /\ writer[w].pc = "next" => writer[w].todo # <<>>

(* The flash may be an older firmware's, with limits that were not clamped. *)
SettingsInit ==
  /\ \E ar \in 0..1, mn, mx \in IF "limits" \in acting THEN Bytes ELSE {0} :
       flash = Over([ar |-> ar, min |-> mn, max |-> mx], [f \in Fields |-> 0])
  /\ live = Loaded(flash) /\ asked = live
  /\ writer = [w \in Writers |-> Idle]
  /\ overlapped = [g \in Groups |-> FALSE]

-----------------------------------------------------------------------------
(* What the writers may send. *)

Offered(f) ==
  IF f \in {"min", "max"} THEN Bytes ELSE IF f = "maxon" THEN Minutes ELSE 0..1

(* The writes of a set of fields, none if the group takes no part. *)
Patches(F) ==
  IF \E g \in Groups \cap acting : F \subseteq FieldsOf[g]
  THEN {p \in [F -> UNION {Offered(f) : f \in F}] : \A f \in F : p[f] \in Offered(f)}
  ELSE {}

One(F)      == {<<p>> : p \in Patches(F)}
Optional(F) == {<<>>} \cup One(F)
Then(S, T)  == {s \o t : s \in S, t \in T}

(* on_limits_access (2 or 3 bytes), on_timers_access (the presets alone or   *)
(* all entries), on_maxon_access, on_runst_access.                          *)
BleRequests ==
  Then(One({"min", "max"}), Optional({"ar"}))
    \cup One({"presets"}) \cup One({"presets", "custom"})
    \cup One({"maxon"}) \cup One({"fallback"})

(* apply_partial takes one field, apply_full_settings any of the groups in   *)
(* this order; a mask comes with the custom timer, absent for off.          *)
PartialRequests ==
  UNION {One({f}) : f \in Fields \ {"fallback"}}
FullRequests ==
  Then(Then(Optional({"min"}) \cup Optional({"max"}) \cup Optional({"min", "max"}),
            Optional({"ar"})),
       Then(Optional({"presets", "custom"}), Optional({"maxon"})))

Requests(w) ==
  (IF w = "ble" THEN BleRequests ELSE PartialRequests \cup FullRequests) \ {<<>>}

-----------------------------------------------------------------------------
(* The handlers. *)

(* The group that a writer is between reading and storing, if any. *)
Writing(w, g) == writer[w].pc \notin {"idle", "next"} /\ DOMAIN writer[w].val = FieldsOf[g]

(* Mutated form: the rest of the group is taken from an empty flash. *)
OverDefaults(p, g) == Over(p, [f \in FieldsOf[g] |-> 0])

(* The live group with the fields of the request replaced. *)
Patched(p, g) == Over(p, Restricted(live, FieldsOf[g]))

(* A handler takes the first of its writes and reads what it leaves alone. *)
Fetch(w, request) ==
  LET p == Head(request)
      g == CHOOSE h \in Groups : DOMAIN p \subseteq FieldsOf[h]
  IN /\ writer' = [writer EXCEPT ![w] = [pc |-> "set", val |-> Patched(p, g),
                                         todo |-> Tail(request)]]
     /\ overlapped' = [overlapped EXCEPT ![g] = \E u \in Writers \ {w} : Writing(u, g)]
     /\ asked' = Over(Normal(Over(p, Restricted(live, FieldsOf[g]))), asked)
     /\ UNCHANGED <<live, flash>>

Begin(w) ==
  /\ Acts(w) /\ writer[w].pc = "idle"
  /\ \E request \in Requests(w) : Fetch(w, request)

NextWrite(w) ==
  /\ Acts(w) /\ writer[w].pc = "next"
  /\ Fetch(w, writer[w].todo)

(* device_state_set_*: one critical section, clamped. *)
SetLive(w) ==
  /\ Acts(w) /\ writer[w].pc = "set"
  /\ live' = Over(Normal(writer[w].val), live)
  /\ writer' = [writer EXCEPT ![w].pc = "store"]
  /\ UNCHANGED <<flash, asked, overlapped>>

Done(w) ==
  writer' = [writer EXCEPT ![w] =
    [Idle EXCEPT !.pc = IF writer[w].todo = <<>> THEN "idle" ELSE "next",
                 !.todo = writer[w].todo]]

(* The run limit is stored as device_state has it now, clamped. *)
RereadMaxOn(w) ==
  /\ Acts(w) /\ writer[w].pc = "store" /\ Writing(w, "maxon")
  /\ writer' = [writer EXCEPT ![w].pc = "store2",
                              ![w].val = Restricted(live, FieldsOf.maxon)]
  /\ UNCHANGED <<live, flash, asked, overlapped>>

(* The limits are two keys, written one after the other. *)
StoreMin(w) ==
  /\ Acts(w) /\ writer[w].pc = "store" /\ Writing(w, "limits")
  /\ flash' = [flash EXCEPT !.min = Clamped(writer[w].val).min]
  /\ writer' = [writer EXCEPT ![w].pc = "store2"]
  /\ UNCHANGED <<live, asked, overlapped>>

(* What the last key of a group gets. *)
Stored(w) ==
  IF Writing(w, "limits")
  THEN Restricted(Clamped(writer[w].val), {"max"})
  ELSE writer[w].val

Store(w) ==
  /\ Acts(w)
  /\ writer[w].pc = IF Writing(w, "limits") \/ Writing(w, "maxon") THEN "store2" ELSE "store"
  /\ flash' = Over(Stored(w), flash)
  /\ Done(w)
  /\ UNCHANGED <<live, asked, overlapped>>

Proceed(w) ==
  NextWrite(w) \/ SetLive(w) \/ RereadMaxOn(w) \/ StoreMin(w) \/ Store(w)

(* app_main loads the flash; nothing of a handler survives. *)
SettingsRestart ==
  /\ live' = Loaded(flash) /\ asked' = live'
  /\ writer' = [w \in Writers |-> Idle]
  /\ overlapped' = [g \in Groups |-> FALSE]
  /\ UNCHANGED flash

-----------------------------------------------------------------------------
(* A write that met no other write of its group, and any restart however it *)
(* cuts a write short, leaves the live settings as asked and such that the  *)
(* next restart brings them back (device_state.h:32-34): what a partial     *)
(* request does not name is kept, and overlap is the only way to lose it.   *)
UndisturbedIsKept ==
  \A g \in Groups :
    ~overlapped[g] /\ (\A w \in Writers : ~Writing(w, g)) =>
      \A f \in FieldsOf[g] : live[f] = asked[f] /\ Loaded(flash)[f] = live[f]

=============================================================================
