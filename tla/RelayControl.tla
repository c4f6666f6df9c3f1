---------------------------- MODULE RelayControl ----------------------------
(***************************************************************************)
(* Who may switch the geyser, and what the pin, the flash record and the   *)
(* connected app say afterwards.                                           *)
(*                                                                         *)
(* Six FreeRTOS tasks switch the relay: the BLE host, the firebase task,   *)
(* the button, the sensor task (thermostat and run limit), the scheduler   *)
(* and the leak task.  Each one runs                                       *)
(*     [clear the lockout] -> device_state_set_relay -> nvs_store_save_relay *)
(*     -> gatt_server_notify_state                                         *)
(* and only the first two are critical sections of the state mutex, so the *)
(* tasks interleave between them.  The restart restores the flash record.  *)
(*                                                                         *)
(* The run window (relay_on_since) is in RunWindow, the requests to the    *)
(* cloud in CloudSync.                                                     *)
(***************************************************************************)
EXTENDS Naturals, Actors

AllTasks == {"ble", "cloud", "button", "sensor", "sched", "leak"}

ASSUME MixesAssumption == Mixes \subseteq SUBSET AllTasks

VARIABLES
  relayOn,   \* s_state.relay_on
  lockout,   \* s_state.leak_lockout
  gpio,      \* level of the relay pin
  mutex,     \* holder of s_mutex across the drive of the pin, or "none"
  nvsRelay,  \* key "relay" of the flash, FALSE when absent
  nvsReady,  \* the flash partition is open (not between erase and restart)
  active,    \* leak_task's debounced leak state
  told,      \* relay state last reported to the connected app
  pc,        \* where each task is in its handler
  want,      \* the value each task is switching to
  job,       \* which of its handlers each task is in
  torn       \* history: two handlers overlapped, or a switch-on was refused,
             \* since the last handler that ran undisturbed

vars == <<acting, relayOn, lockout, gpio, mutex, nvsRelay, nvsReady, active, told,
          pc, want, job, torn>>

UserTasks == {"ble", "cloud", "button"}    \* they carry a user's explicit wish

(* The labels each task can be at, the handlers each task can be in. *)
LabelsOf(t) ==
  {"idle", "acquire", "drive", "save", "notify"}
    \cup (IF t \in UserTasks THEN {"unlatch"} ELSE {})
    \cup (IF t = "sensor" THEN {"limit", "reassert"} ELSE {})
    \cup (IF t = "button" THEN {"erase", "restart"} ELSE {})

JobsOf(t) ==
  {"switch"} \cup (IF t = "sensor" THEN {"limit"} ELSE {})
             \cup (IF t = "button" THEN {"wipe"} ELSE {})

(* Every value has its type, and only a user's task clears the lockout      *)
(* before it switches, only the button erases, only the sensor reasserts.   *)
TypeOK ==
  /\ relayOn \in BOOLEAN /\ lockout \in BOOLEAN /\ gpio \in BOOLEAN
  /\ nvsRelay \in BOOLEAN /\ nvsReady \in BOOLEAN
  /\ active \in BOOLEAN /\ told \in BOOLEAN /\ torn \in BOOLEAN
  /\ mutex \in AllTasks \cup {"none"}
  /\ pc   \in [AllTasks -> UNION {LabelsOf(t) : t \in AllTasks}]
  /\ want \in [AllTasks -> BOOLEAN]
  /\ job  \in [AllTasks -> UNION {JobsOf(t) : t \in AllTasks}]
  /\ \A t \in AllTasks : pc[t] \in LabelsOf(t) /\ job[t] \in JobsOf(t)

(* app_main: load the flash record, drive the pin from it, start the tasks. *)
Boot ==
  /\ relayOn' = nvsRelay
  /\ gpio' = nvsRelay
  /\ told' = nvsRelay             \* a client reads the state on connecting
  /\ lockout' = FALSE /\ active' = FALSE
  /\ mutex' = "none"
  /\ nvsReady' = TRUE
  /\ pc' = [t \in AllTasks |-> "idle"]
  /\ want' = [t \in AllTasks |-> FALSE]
  /\ job' = [t \in AllTasks |-> "switch"]
  /\ torn' = FALSE
  /\ UNCHANGED <<acting, nvsRelay>>

Init ==
  /\ ActorsInit
  /\ nvsRelay \in BOOLEAN
  /\ relayOn = nvsRelay /\ gpio = nvsRelay /\ told = nvsRelay
  /\ lockout = FALSE /\ active = FALSE
  /\ mutex = "none"
  /\ nvsReady = TRUE
  /\ pc = [t \in AllTasks |-> "idle"]
  /\ want = [t \in AllTasks |-> FALSE]
  /\ job = [t \in AllTasks |-> "switch"]
  /\ torn = FALSE

-----------------------------------------------------------------------------
(* The handlers begin.  Reading the relay takes the mutex, so a step that   *)
(* reads it needs the mutex free; what it read may be stale afterwards.     *)

Free == mutex = "none"

(* The helpers below change only where a task is and what it wants. *)
Enter(t, on, j, label) ==
  /\ Acts(t)
  /\ want' = [want EXCEPT ![t] = on]
  /\ job' = [job EXCEPT ![t] = j]
  /\ pc' = [pc EXCEPT ![t] = label]

Goto(t, label) ==
  /\ pc' = [pc EXCEPT ![t] = label]
  /\ UNCHANGED <<acting, want, job>>

StateUnchanged ==
  UNCHANGED <<relayOn, lockout, gpio, mutex, nvsRelay, nvsReady, active, told, torn>>

(* device_state_user_set_relay: only switching ON clears the lockout first. *)
FirstUserStep(on) == IF on THEN "unlatch" ELSE "acquire"

(* device_state_set_relay, for an automatic caller: no way round the lockout. *)
FirstAutoStep(on) == "acquire"

BleWrite ==
  /\ pc["ble"] = "idle"
  /\ \E on \in BOOLEAN : Enter("ble", on, "switch", FirstUserStep(on))
  /\ StateUnchanged

CloudCommand ==
  /\ pc["cloud"] = "idle" /\ Free
  /\ Enter("cloud", ~relayOn, "switch", FirstUserStep(~relayOn))
  /\ StateUnchanged

ShortPress ==
  /\ pc["button"] = "idle" /\ Free
  /\ Enter("button", ~relayOn, "switch", FirstUserStep(~relayOn))
  /\ StateUnchanged

LongHold ==
  /\ pc["button"] = "idle"
  /\ Enter("button", FALSE, "wipe", "acquire")
  /\ StateUnchanged

(* A timer or interval mode switches ON, interval mode switches OFF. *)
SchedulerFires ==
  /\ pc["sched"] = "idle" /\ Free
  /\ Enter("sched", ~relayOn, "switch", FirstAutoStep(~relayOn))
  /\ StateUnchanged

(* Thermostat: hot and ON, or cold and OFF with auto-reheat. *)
ThermostatActs ==
  /\ pc["sensor"] = "idle" /\ Free
  /\ Enter("sensor", ~relayOn, "switch", FirstAutoStep(~relayOn))
  /\ StateUnchanged

ThermostatPasses ==
  /\ pc["sensor"] = "idle"
  /\ Enter("sensor", FALSE, "switch", "limit")
  /\ StateUnchanged

(* Second half of the sensor cycle: the maximum continuous run. *)
RunLimitCuts ==
  /\ pc["sensor"] = "limit" /\ Free /\ relayOn
  /\ Enter("sensor", FALSE, "limit", "acquire")
  /\ StateUnchanged

RunLimitPasses ==
  /\ pc["sensor"] = "limit"
  /\ Goto("sensor", "reassert")
  /\ StateUnchanged

Reassert ==
  /\ pc["sensor"] = "reassert" /\ Free
  /\ gpio' = relayOn
  /\ Goto("sensor", "idle")
  /\ UNCHANGED <<relayOn, lockout, mutex, nvsRelay, nvsReady, active, told, torn>>

(* Two seconds of sustained wet: latch first, then switch off. *)
LeakConfirmed ==
  /\ pc["leak"] = "idle" /\ ~active /\ Free
  /\ active' = TRUE /\ lockout' = TRUE
  /\ Enter("leak", FALSE, "switch", "acquire")
  /\ UNCHANGED <<relayOn, gpio, mutex, nvsRelay, nvsReady, told, torn>>

(* Ten seconds of sustained dry: the relay stays as it is. *)
LeakCleared ==
  /\ Acts("leak") /\ pc["leak"] = "idle" /\ active /\ Free
  /\ active' = FALSE /\ lockout' = FALSE
  /\ UNCHANGED <<relayOn, gpio, mutex, nvsRelay, nvsReady, told, pc, want, job, torn>>

-----------------------------------------------------------------------------
(* The common tail of every handler. *)

Unlatch(t) ==
  /\ pc[t] = "unlatch" /\ Free
  /\ lockout' = FALSE
  /\ Goto(t, "acquire")
  /\ UNCHANGED <<relayOn, gpio, mutex, nvsRelay, nvsReady, active, told, torn>>

(* Labels between writing the state and having reported it. *)
Window == {"drive", "save", "notify", "erase", "restart"}

Overlapped(t) == \E u \in AllTasks \ {t} : pc[u] \in Window

AfterSet(t) == IF job[t] = "wipe" THEN "erase" ELSE "save"

(* Mutated forms: the refusal dropped, or extended to OFF; the mutex not    *)
(* taken.                                                                   *)
NeverRefused(t)   == FALSE
RefusedEvenOff(t) == lockout
NoMutexTaken(t)   == TRUE

Refused(t) == want[t] /\ lockout

CanLock(t) == Free

(* device_state_set_relay up to the pin: the refusal and the state. *)
SetRelay(t) ==
  /\ pc[t] = "acquire" /\ CanLock(t)
  /\ IF Refused(t)
     THEN /\ Goto(t, AfterSet(t))
          /\ torn' = TRUE
          /\ UNCHANGED <<relayOn, mutex>>
     ELSE /\ relayOn' = want[t]
          /\ mutex' = t
          /\ Goto(t, "drive")
          /\ torn' = Overlapped(t)
  /\ UNCHANGED <<lockout, gpio, nvsRelay, nvsReady, active, told>>

(* The rest of it: relay_set under the mutex, then unlock. *)
DrivePin(t) ==
  /\ pc[t] = "drive"
  /\ gpio' = want[t]
  /\ mutex' = "none"
  /\ Goto(t, AfterSet(t))
  /\ UNCHANGED <<relayOn, lockout, nvsRelay, nvsReady, active, told, torn>>

(* Mutated forms: a write into the erased partition; only ON is recorded. *)
SavedAfterErase(t) == want[t]
SavedOnlyOn(t)     == IF nvsReady /\ want[t] THEN TRUE ELSE nvsRelay

(* nvs_store_save_relay: nothing is written once the partition is gone. *)
Saved(t) == IF nvsReady THEN want[t] ELSE nvsRelay

SaveRelay(t) ==
  /\ pc[t] = "save"
  /\ nvsRelay' = Saved(t)
  /\ Goto(t, "notify")
  /\ UNCHANGED <<relayOn, lockout, gpio, mutex, nvsReady, active, told, torn>>

(* Where a task goes once it has reported the switch. *)
AfterNotify(t) ==
  IF t # "sensor" THEN "idle"
  ELSE IF job[t] = "switch" THEN "limit" ELSE "reassert"

NotifyState(t) ==
  /\ pc[t] = "notify"
  /\ told' = want[t]
  /\ Enter(t, FALSE, "switch", AfterNotify(t))
  /\ UNCHANGED <<relayOn, lockout, gpio, mutex, nvsRelay, nvsReady, active, torn>>

(* Factory reset, after the switch-off: nvs_flash_erase, then esp_restart. *)
Erase ==
  /\ pc["button"] = "erase"
  /\ nvsRelay' = FALSE /\ nvsReady' = FALSE
  /\ Goto("button", "restart")
  /\ UNCHANGED <<relayOn, lockout, gpio, mutex, active, told, torn>>

Restart == pc["button"] = "restart" /\ Boot

(* Power loss, panic or watchdog at any moment. *)
Crash == Boot

-----------------------------------------------------------------------------
Starts ==
  \/ BleWrite \/ CloudCommand \/ ShortPress \/ LongHold \/ SchedulerFires
  \/ ThermostatActs \/ ThermostatPasses
  \/ LeakConfirmed \/ LeakCleared

(* What a task does once it has begun. *)
Proceed(t) ==
  \/ Unlatch(t) \/ SetRelay(t) \/ DrivePin(t) \/ SaveRelay(t) \/ NotifyState(t)
  \/ t = "sensor" /\ (RunLimitCuts \/ RunLimitPasses \/ Reassert)
  \/ t = "button" /\ (Erase \/ Restart)

Next == Starts \/ (\E t \in AllTasks : Proceed(t)) \/ Crash

Spec == Init /\ [][Next]_vars

(* A task that has begun a handler finishes it: FreeRTOS wakes the waiter of *)
(* a mutex when it is given, and every critical section is a few statements. *)
FairSpec == Spec /\ \A t \in AllTasks : SF_vars(Proceed(t))

-----------------------------------------------------------------------------
(* Whenever no task is inside device_state_set_relay the pin shows the      *)
(* state: "state and pin can never interleave into disagreement"            *)
(* (device_state.c:124-126), whatever the order of the six tasks.           *)
PinFollowsState == Free => gpio = relayOn

(* A handler that ran undisturbed leaves flash, app and state in agreement: *)
(* overlapping handlers and refused switch-ons are the only ways to a flash *)
(* record that a restart would wrongly restore (nvs_store.c:91-99).         *)
UndisturbedIsPersisted ==
  ~torn /\ (\A t \in AllTasks : pc[t] \notin Window)
     => nvsRelay = relayOn /\ told = relayOn

(* After a factory reset the unit comes back switched off, even when other  *)
(* handlers save while the flash is being erased (button.c:81-92).          *)
FactoryResetLeavesOff ==
  [][pc["button"] = "restart" /\ pc'["button"] = "idle"
       => ~relayOn' /\ ~gpio']_vars

(* The pin itself is a switch that changes at one moment, that the leak     *)
(* task cuts, and that never comes on while the leak is latched, although   *)
(* state, latch, pin and flash are set in separate steps of six tasks: no   *)
(* switch-on decided before the leak gets past the refusal                  *)
(* (device_state.c:98-129, 246-250, leak.c:64-82).                          *)
Gate == INSTANCE Interlock WITH power <- gpio, wet <- active, latched <- lockout,
                                cutting <- pc["leak"] \in {"acquire", "drive"},
                                memory <- nvsRelay
PinIsInterlocked == Gate!Spec

(* A confirmed leak cuts the power: once latched, the pin goes low unless a *)
(* user overrides the latch or the unit restarts (leak.c:64-75).            *)
LeakCutsPower == lockout ~> (~gpio \/ ~lockout)

-----------------------------------------------------------------------------
(* What the comments say and the code does not do. *)

(* device_state.h:32-34: relay_on is "persisted to NVS on every change", so *)
(* with every task at rest the flash holds the live state.                  *)
RestedIsPersisted ==
  (\A t \in AllTasks : pc[t] = "idle") => nvsRelay = relayOn

=============================================================================
