------------------------ MODULE RelayControlProofs ------------------------
(***************************************************************************)
(* Proofs about RelayControl for every set of running tasks: types, the    *)
(* agreement of pin and state, the leak latch, and what the flash holds.   *)
(***************************************************************************)
EXTENDS RelayControl, TLAPS

(* The mutex is held exactly by the task that is driving the pin, which has *)
(* already written the state it drives.                                     *)
MutexInv ==
  /\ \A t \in AllTasks : mutex = t <=> pc[t] = "drive"
  /\ \A t \in AllTasks : pc[t] = "drive" => relayOn = want[t]

PinInv == Free => gpio = relayOn

(* The leak task only ever switches off, so its own switch is never refused. *)
LatchInv ==
  /\ want["leak"] = FALSE
  /\ lockout /\ relayOn => pc["leak"] = "acquire"

(* Between erase and restart the flash is empty and closed. *)
WipeInv ==
  /\ ~nvsReady => pc["button"] = "restart"
  /\ pc["button"] = "restart" => ~nvsRelay /\ ~nvsReady

(* As long as nothing was disturbed one task at most is in the window, it   *)
(* carries the live state, and what it has already stored is that state.    *)
TornInv ==
  ~torn =>
    /\ \A t, u \in AllTasks : pc[t] \in Window /\ pc[u] \in Window => t = u
    /\ \A t \in AllTasks : pc[t] \in Window => want[t] = relayOn
    /\ \A t \in AllTasks : pc[t] = "notify" => nvsRelay = relayOn
    /\ (\A t \in AllTasks : pc[t] \notin Window)
         => nvsRelay = relayOn /\ told = relayOn

IInv == TypeOK /\ MutexInv /\ PinInv /\ LatchInv /\ WipeInv /\ TornInv

-----------------------------------------------------------------------------
(* The three per-task functions keep their types when one task moves to a   *)
(* label and a handler that are its own.                                    *)
TaskTypeOK ==
  /\ pc   \in [AllTasks -> UNION {LabelsOf(t) : t \in AllTasks}]
  /\ want \in [AllTasks -> BOOLEAN]
  /\ job  \in [AllTasks -> UNION {JobsOf(t) : t \in AllTasks}]
  /\ \A t \in AllTasks : pc[t] \in LabelsOf(t) /\ job[t] \in JobsOf(t)

StateTypeOK ==
  /\ relayOn \in BOOLEAN /\ lockout \in BOOLEAN /\ gpio \in BOOLEAN
  /\ nvsRelay \in BOOLEAN /\ nvsReady \in BOOLEAN
  /\ active \in BOOLEAN /\ told \in BOOLEAN /\ torn \in BOOLEAN
  /\ mutex \in AllTasks \cup {"none"}

LEMMA TypeSplit == TypeOK <=> StateTypeOK /\ TaskTypeOK
  BY DEF TypeOK, StateTypeOK, TaskTypeOK

LEMMA EnterType ==
  ASSUME TaskTypeOK, NEW t \in AllTasks, NEW on \in BOOLEAN,
         NEW j \in JobsOf(t), NEW label \in LabelsOf(t), Enter(t, on, j, label)
  PROVE  TaskTypeOK'
<1>1. label \in UNION {LabelsOf(u) : u \in AllTasks} /\ j \in UNION {JobsOf(u) : u \in AllTasks}
  OBVIOUS
<1>2. QED
  BY <1>1 DEF Enter, TaskTypeOK

LEMMA GotoType ==
  ASSUME TaskTypeOK, NEW t \in AllTasks, NEW label \in LabelsOf(t), Goto(t, label)
  PROVE  TaskTypeOK'
<1>1. label \in UNION {LabelsOf(u) : u \in AllTasks}
  OBVIOUS
<1>2. QED
  BY <1>1 DEF Goto, TaskTypeOK

(* Boot puts every task to rest. *)
LEMMA BootType ==
  ASSUME nvsRelay \in BOOLEAN, Boot
  PROVE  TypeOK'
<1>1. /\ pc' = [t \in AllTasks |-> "idle"]
      /\ want' = [t \in AllTasks |-> FALSE]
      /\ job' = [t \in AllTasks |-> "switch"]
  BY DEF Boot
<1>2. \A t \in AllTasks : "idle" \in LabelsOf(t) /\ "switch" \in JobsOf(t)
  BY DEF LabelsOf, JobsOf
<1>3. TaskTypeOK'
  BY <1>1, <1>2 DEF TaskTypeOK
<1>4. StateTypeOK'
  BY DEF Boot, StateTypeOK
<1>5. QED
  BY <1>3, <1>4 DEF TypeOK, StateTypeOK, TaskTypeOK

LEMMA TypeInit == Init => TypeOK
<1> SUFFICES ASSUME Init PROVE TypeOK
  OBVIOUS
<1>1. \A t \in AllTasks : "idle" \in LabelsOf(t) /\ "switch" \in JobsOf(t)
  BY DEF LabelsOf, JobsOf
<1>2. QED
  BY <1>1 DEF Init, TypeOK, AllTasks

(* Labels and handlers that occur as the target of a step. *)
LEMMA TargetLabels ==
  /\ \A t \in AllTasks : {"idle", "acquire", "drive", "save", "notify"} \subseteq LabelsOf(t)
  /\ \A t \in AllTasks : "switch" \in JobsOf(t)
  /\ \A t \in UserTasks, on \in BOOLEAN : FirstUserStep(on) \in LabelsOf(t)
  /\ \A on : FirstAutoStep(on) = "acquire"
  /\ {"limit", "reassert"} \subseteq LabelsOf("sensor") /\ "limit" \in JobsOf("sensor")
  /\ {"erase", "restart"} \subseteq LabelsOf("button") /\ "wipe" \in JobsOf("button")
  /\ {"ble", "cloud", "button", "sensor", "sched", "leak"} \subseteq AllTasks
  /\ {"ble", "cloud", "button"} \subseteq UserTasks
<1>1. \A t \in UserTasks, on \in BOOLEAN : FirstUserStep(on) \in LabelsOf(t)
  BY DEF FirstUserStep, LabelsOf
<1>2. QED
  BY <1>1 DEF LabelsOf, JobsOf, FirstAutoStep, AllTasks, UserTasks

LEMMA AfterLabels ==
  ASSUME TaskTypeOK, NEW t \in AllTasks
  PROVE  AfterSet(t) \in LabelsOf(t) /\ AfterNotify(t) \in LabelsOf(t)
<1>1. job[t] = "wipe" => t = "button"
  BY DEF TaskTypeOK, JobsOf
<1>2. QED
  BY <1>1, TargetLabels DEF AfterSet, AfterNotify

LEMMA TypeStep == TypeOK /\ [Next]_vars => TypeOK'
<1> SUFFICES ASSUME TypeOK, [Next]_vars PROVE TypeOK'
  OBVIOUS
<1>0. StateTypeOK /\ TaskTypeOK
  BY TypeSplit
<1>q. ASSUME StateTypeOK', TaskTypeOK' PROVE TypeOK'
  BY <1>q DEF TypeOK, StateTypeOK, TaskTypeOK
<1>1. ASSUME Starts PROVE TypeOK'
  <2>1. CASE BleWrite
    <3>1. PICK on \in BOOLEAN : Enter("ble", on, "switch", FirstUserStep(on))
      BY <2>1 DEF BleWrite
    <3>2. TaskTypeOK'
      BY <3>1, <1>0, TargetLabels, EnterType
    <3>3. QED
      BY <3>2, <2>1, <1>0, <1>q DEF BleWrite, StateUnchanged, StateTypeOK
  <2>2. CASE CloudCommand
    <3>1. TaskTypeOK'
      BY <2>2, <1>0, TargetLabels, EnterType DEF CloudCommand, StateTypeOK
    <3>2. QED
      BY <3>1, <2>2, <1>0, <1>q DEF CloudCommand, StateUnchanged, StateTypeOK
  <2>3. CASE ShortPress
    <3>1. TaskTypeOK'
      BY <2>3, <1>0, TargetLabels, EnterType DEF ShortPress, StateTypeOK
    <3>2. QED
      BY <3>1, <2>3, <1>0, <1>q DEF ShortPress, StateUnchanged, StateTypeOK
  <2>4. CASE LongHold
    <3>1. TaskTypeOK'
      BY <2>4, <1>0, TargetLabels, EnterType DEF LongHold
    <3>2. QED
      BY <3>1, <2>4, <1>0, <1>q DEF LongHold, StateUnchanged, StateTypeOK
  <2>5. CASE SchedulerFires
    <3>1. TaskTypeOK'
      BY <2>5, <1>0, TargetLabels, EnterType DEF SchedulerFires, StateTypeOK
    <3>2. QED
      BY <3>1, <2>5, <1>0, <1>q DEF SchedulerFires, StateUnchanged, StateTypeOK
  <2>6. CASE ThermostatActs
    <3>1. TaskTypeOK'
      BY <2>6, <1>0, TargetLabels, EnterType DEF ThermostatActs, StateTypeOK
    <3>2. QED
      BY <3>1, <2>6, <1>0, <1>q DEF ThermostatActs, StateUnchanged, StateTypeOK
  <2>7. CASE ThermostatPasses
    <3>1. TaskTypeOK'
      BY <2>7, <1>0, TargetLabels, EnterType DEF ThermostatPasses
    <3>2. QED
      BY <3>1, <2>7, <1>0, <1>q DEF ThermostatPasses, StateUnchanged, StateTypeOK
  <2>8. CASE LeakConfirmed
    <3>1. TaskTypeOK'
      BY <2>8, <1>0, TargetLabels, EnterType DEF LeakConfirmed
    <3>2. QED
      BY <3>1, <2>8, <1>0, <1>q DEF LeakConfirmed, StateTypeOK
  <2>9. CASE LeakCleared
    BY <2>9, <1>0, <1>q DEF LeakCleared, StateTypeOK, TaskTypeOK
  <2>10. QED
    BY <1>1, <2>1, <2>2, <2>3, <2>4, <2>5, <2>6, <2>7, <2>8, <2>9 DEF Starts
<1>2. ASSUME NEW t \in AllTasks, Proceed(t) PROVE TypeOK'
  <2>1. CASE Unlatch(t)
    <3>1. TaskTypeOK'
      BY <2>1, <1>0, TargetLabels, GotoType DEF Unlatch
    <3>2. QED
      BY <3>1, <2>1, <1>0, <1>q DEF Unlatch, StateTypeOK
  <2>2. CASE SetRelay(t)
    <3>1. CASE Refused(t)
      <4>1. TaskTypeOK'
        BY <2>2, <3>1, <1>0, AfterLabels, GotoType DEF SetRelay
      <4>2. QED
        BY <4>1, <3>1, <2>2, <1>0, <1>q DEF SetRelay, StateTypeOK
    <3>2. CASE ~Refused(t)
      <4>1. TaskTypeOK'
        BY <2>2, <3>2, <1>0, TargetLabels, GotoType DEF SetRelay
      <4>2. StateTypeOK'
        BY <2>2, <3>2, <1>0 DEF SetRelay, StateTypeOK, TaskTypeOK, Overlapped
      <4>3. QED
        BY <4>1, <4>2, <1>q
    <3>3. QED
      BY <3>1, <3>2
  <2>3. CASE DrivePin(t)
    <3>1. TaskTypeOK'
      BY <2>3, <1>0, AfterLabels, GotoType DEF DrivePin
    <3>2. QED
      BY <3>1, <2>3, <1>0, <1>q DEF DrivePin, StateTypeOK, TaskTypeOK
  <2>4. CASE SaveRelay(t)
    <3>1. TaskTypeOK'
      BY <2>4, <1>0, TargetLabels, GotoType DEF SaveRelay
    <3>2. QED
      BY <3>1, <2>4, <1>0, <1>q DEF SaveRelay, Saved, StateTypeOK, TaskTypeOK
  <2>5. CASE NotifyState(t)
    <3>1. TaskTypeOK'
      BY <2>5, <1>0, TargetLabels, AfterLabels, EnterType DEF NotifyState
    <3>2. QED
      BY <3>1, <2>5, <1>0, <1>q DEF NotifyState, StateTypeOK, TaskTypeOK
  <2>6. CASE t = "sensor" /\ RunLimitCuts
    <3>1. TaskTypeOK'
      BY <2>6, <1>0, TargetLabels, EnterType DEF RunLimitCuts
    <3>2. QED
      BY <3>1, <2>6, <1>0, <1>q DEF RunLimitCuts, StateUnchanged, StateTypeOK
  <2>7. CASE t = "sensor" /\ RunLimitPasses
    <3>1. TaskTypeOK'
      BY <2>7, <1>0, TargetLabels, GotoType DEF RunLimitPasses
    <3>2. QED
      BY <3>1, <2>7, <1>0, <1>q DEF RunLimitPasses, StateUnchanged, StateTypeOK
  <2>8. CASE t = "sensor" /\ Reassert
    <3>1. TaskTypeOK'
      BY <2>8, <1>0, TargetLabels, GotoType DEF Reassert
    <3>2. QED
      BY <3>1, <2>8, <1>0, <1>q DEF Reassert, StateTypeOK
  <2>9. CASE t = "button" /\ Erase
    <3>1. TaskTypeOK'
      BY <2>9, <1>0, TargetLabels, GotoType DEF Erase
    <3>2. QED
      BY <3>1, <2>9, <1>0, <1>q DEF Erase, StateTypeOK
  <2>10. CASE t = "button" /\ Restart
    BY <2>10, <1>0, BootType DEF Restart, StateTypeOK
  <2>11. QED
    BY <1>2, <2>1, <2>2, <2>3, <2>4, <2>5, <2>6, <2>7, <2>8, <2>9, <2>10 DEF Proceed
<1>3. CASE Crash
  BY <1>3, <1>0, BootType DEF Crash, StateTypeOK
<1>4. CASE UNCHANGED vars
  BY <1>4 DEF vars, TypeOK
<1>5. QED
  BY <1>1, <1>2, <1>3, <1>4 DEF Next

(* Every reachable value has its type and every task is in a handler of its *)
(* own, whichever tasks run (the handlers of the six tasks).                *)
THEOREM TypeCorrect == Spec => []TypeOK
<1>1. Init => TypeOK
  BY TypeInit
<1>2. TypeOK /\ [Next]_vars => TypeOK'
  BY TypeStep
<1>3. QED
  BY <1>1, <1>2, PTL DEF Spec

-----------------------------------------------------------------------------
(* One step of any task or of a restart preserves the rest of the invariant. *)

LEMMA StrongInit == Init => MutexInv /\ PinInv /\ LatchInv /\ WipeInv /\ TornInv
  BY DEF Init, MutexInv, PinInv, LatchInv, WipeInv, TornInv, Free, AllTasks, Window

LEMMA StrongBoot ==
  ASSUME TypeOK, WipeInv, Boot
  PROVE  MutexInv' /\ PinInv' /\ LatchInv' /\ WipeInv' /\ TornInv'
  BY DEF Boot, TypeOK, MutexInv, PinInv, LatchInv, WipeInv, TornInv, Free, AllTasks, Window

(* A step that only moves one resting task out of the window's reach. *)
LEMMA StrongEnter ==
  ASSUME IInv, NEW t \in AllTasks, NEW on \in BOOLEAN, NEW j, NEW label,
         Enter(t, on, j, label), StateUnchanged,
         pc[t] \notin Window, label \notin Window,
         t = "leak" => ~on /\ pc[t] # "acquire", t = "button" => pc[t] # "restart"
  PROVE  MutexInv' /\ PinInv' /\ LatchInv' /\ WipeInv' /\ TornInv'
<1> USE DEF IInv, TypeOK, Enter, StateUnchanged
<1>1. MutexInv' /\ PinInv'
  BY DEF MutexInv, PinInv, Free, Window
<1>2. LatchInv' /\ WipeInv'
  BY DEF LatchInv, WipeInv, Window, AllTasks
<1>3. TornInv'
  BY DEF TornInv, Window
<1>4. QED
  BY <1>1, <1>2, <1>3

Rest == MutexInv /\ PinInv /\ LatchInv /\ WipeInv /\ TornInv

LEMMA StrongStart ==
  ASSUME IInv, Starts
  PROVE  Rest'
<1> USE TargetLabels
<1>1. CASE BleWrite
  BY <1>1, StrongEnter DEF BleWrite, FirstUserStep, Window, Rest
<1>2. CASE CloudCommand
  BY <1>2, StrongEnter DEF CloudCommand, FirstUserStep, Window, Rest, IInv, TypeOK
<1>3. CASE ShortPress
  BY <1>3, StrongEnter DEF ShortPress, FirstUserStep, Window, Rest, IInv, TypeOK
<1>4. CASE LongHold
  BY <1>4, StrongEnter DEF LongHold, Window, Rest
<1>5. CASE SchedulerFires
  BY <1>5, StrongEnter DEF SchedulerFires, Window, Rest, IInv, TypeOK
<1>6. CASE ThermostatActs
  BY <1>6, StrongEnter DEF ThermostatActs, Window, Rest, IInv, TypeOK
<1>7. CASE ThermostatPasses
  BY <1>7, StrongEnter DEF ThermostatPasses, Window, Rest
<1>8. CASE LeakConfirmed
  <2> USE <1>8 DEF IInv, TypeOK, LeakConfirmed, Enter
  <2>1. MutexInv' /\ PinInv'
    BY DEF MutexInv, PinInv, Free, Window
  <2>2. LatchInv' /\ WipeInv'
    BY DEF LatchInv, WipeInv
  <2>3. TornInv'
    BY DEF TornInv, Window
  <2>4. QED
    BY <2>1, <2>2, <2>3 DEF Rest
<1>9. CASE LeakCleared
  BY <1>9 DEF LeakCleared, Rest, IInv, MutexInv, PinInv, LatchInv, WipeInv, TornInv, Free
<1>10. QED
  BY <1>1, <1>2, <1>3, <1>4, <1>5, <1>6, <1>7, <1>8, <1>9 DEF Starts

(* device_state_set_relay up to the pin: here the refusal earns LatchInv, and *)
(* the torn flag records whether the window was empty.                        *)
LEMMA StrongSetRelay ==
  ASSUME IInv, NEW t \in AllTasks, SetRelay(t)
  PROVE  Rest'
<1> USE DEF IInv, TypeOK, Goto
<1>0. AfterSet(t) \in {"save", "erase"} /\ (AfterSet(t) = "erase" => t = "button")
  BY AfterLabels DEF AfterSet, JobsOf, TaskTypeOK, UserTasks
<1>1. CASE Refused(t)
  <2>1. t # "leak" /\ relayOn' = relayOn /\ torn' /\ pc' = [pc EXCEPT ![t] = AfterSet(t)]
        /\ mutex' = mutex
    BY <1>1 DEF SetRelay, Refused, LatchInv
  <2>2. MutexInv' /\ PinInv'
    BY <1>0, <2>1 DEF SetRelay, MutexInv, PinInv, Free
  <2>3. LatchInv'
    BY <2>1, TargetLabels DEF SetRelay, LatchInv
  <2>4. WipeInv'
    BY <1>0, <2>1 DEF SetRelay, WipeInv
  <2>5. TornInv'
    BY <2>1 DEF TornInv
  <2>6. QED
    BY <2>2, <2>3, <2>4, <2>5 DEF Rest
<1>2. CASE ~Refused(t)
  <2>1. /\ relayOn' = want[t] /\ mutex' = t /\ torn' = Overlapped(t)
        /\ pc' = [pc EXCEPT ![t] = "drive"] /\ UNCHANGED <<want, job>>
        /\ Free
    BY <1>2 DEF SetRelay, CanLock
  <2>2. MutexInv' /\ PinInv'
    BY <2>1 DEF MutexInv, PinInv, Free, AllTasks
  <2>3. LatchInv' /\ WipeInv'
    BY <1>2, <2>1 DEF LatchInv, WipeInv, Refused, SetRelay
  <2>4. TornInv'
    <3>1. ~torn' => \A u \in AllTasks \ {t} : pc'[u] \notin Window
      BY <2>1 DEF Overlapped
    <3>2. pc'[t] = "drive" /\ relayOn' = want'[t]
      BY <2>1
    <3>3. "drive" \in Window
      BY DEF Window
    <3>4. QED
      BY <3>1, <3>2, <3>3 DEF TornInv, Window
  <2>5. QED
    BY <2>2, <2>3, <2>4 DEF Rest
<1>3. QED
  BY <1>1, <1>2

LEMMA StrongDrivePin ==
  ASSUME IInv, NEW t \in AllTasks, DrivePin(t)
  PROVE  Rest'
<1> USE DEF IInv, TypeOK, Goto, DrivePin
<1>0. AfterSet(t) \in {"save", "erase"} /\ (AfterSet(t) = "erase" => t = "button")
  BY AfterLabels DEF AfterSet, JobsOf, TaskTypeOK, UserTasks
<1>1. MutexInv' /\ PinInv'
  BY <1>0 DEF MutexInv, PinInv, Free, AllTasks
<1>2. LatchInv' /\ WipeInv'
  BY <1>0 DEF LatchInv, WipeInv
<1>3. TornInv'
  BY <1>0 DEF TornInv, Window
<1>4. QED
  BY <1>1, <1>2, <1>3 DEF Rest

LEMMA StrongSaveRelay ==
  ASSUME IInv, NEW t \in AllTasks, SaveRelay(t)
  PROVE  Rest'
<1> USE DEF IInv, TypeOK, Goto, SaveRelay
<1>1. MutexInv' /\ PinInv'
  BY DEF MutexInv, PinInv, Free
<1>2. LatchInv' /\ WipeInv'
  BY DEF LatchInv, WipeInv, Saved
<1>3. ASSUME ~torn PROVE nvsReady
  BY <1>3, TargetLabels DEF TornInv, WipeInv, Window
<1>4. TornInv'
  BY <1>3 DEF TornInv, Window, Saved
<1>5. QED
  BY <1>1, <1>2, <1>4 DEF Rest

LEMMA StrongNotifyState ==
  ASSUME IInv, NEW t \in AllTasks, NotifyState(t)
  PROVE  Rest'
<1> USE DEF IInv, TypeOK, Enter, NotifyState
<1>0. AfterNotify(t) \in {"idle", "limit", "reassert"}
  BY DEF AfterNotify
<1>1. MutexInv' /\ PinInv'
  BY <1>0 DEF MutexInv, PinInv, Free
<1>2. LatchInv' /\ WipeInv'
  BY <1>0 DEF LatchInv, WipeInv
<1>3. TornInv'
  BY <1>0 DEF TornInv, Window
<1>4. QED
  BY <1>1, <1>2, <1>3 DEF Rest

LEMMA StrongProceed ==
  ASSUME IInv, NEW t \in AllTasks, Proceed(t)
  PROVE  Rest'
<1> USE TargetLabels
<1>1. CASE Unlatch(t)
  <2> USE <1>1 DEF IInv, TypeOK, Goto, Unlatch
  <2>1. MutexInv' /\ PinInv' /\ LatchInv' /\ WipeInv'
    BY DEF MutexInv, PinInv, LatchInv, WipeInv, Free
  <2>2. TornInv'
    BY DEF TornInv, Window
  <2>3. QED
    BY <2>1, <2>2 DEF Rest
<1>2. CASE t = "sensor" /\ RunLimitCuts
  BY <1>2, StrongEnter DEF RunLimitCuts, Window, Rest, IInv, TypeOK
<1>3. CASE t = "sensor" /\ RunLimitPasses
  <2> USE <1>3 DEF IInv, TypeOK, Goto, RunLimitPasses, StateUnchanged
  <2>1. MutexInv' /\ PinInv' /\ LatchInv' /\ WipeInv'
    BY DEF MutexInv, PinInv, LatchInv, WipeInv, Free
  <2>2. TornInv'
    BY DEF TornInv, Window
  <2>3. QED
    BY <2>1, <2>2 DEF Rest
<1>4. CASE t = "sensor" /\ Reassert
  <2> USE <1>4 DEF IInv, TypeOK, Goto, Reassert
  <2>1. MutexInv' /\ PinInv' /\ LatchInv' /\ WipeInv'
    BY DEF MutexInv, PinInv, LatchInv, WipeInv, Free
  <2>2. TornInv'
    BY DEF TornInv, Window
  <2>3. QED
    BY <2>1, <2>2 DEF Rest
<1>5. CASE t = "button" /\ Erase
  <2> USE <1>5 DEF IInv, TypeOK, Goto, Erase
  <2>1. MutexInv' /\ PinInv' /\ LatchInv' /\ WipeInv'
    BY DEF MutexInv, PinInv, LatchInv, WipeInv, Free
  <2>2. TornInv'
    BY DEF TornInv, Window
  <2>3. QED
    BY <2>1, <2>2 DEF Rest
<1>6. CASE t = "button" /\ Restart
  BY <1>6, StrongBoot DEF Restart, Rest, IInv
<1>7. QED
  BY <1>1, <1>2, <1>3, <1>4, <1>5, <1>6, StrongSetRelay, StrongDrivePin,
     StrongSaveRelay, StrongNotifyState DEF Proceed

LEMMA StrongStep == IInv /\ [Next]_vars => IInv'
<1> SUFFICES ASSUME IInv, [Next]_vars PROVE IInv'
  OBVIOUS
<1>0. TypeOK'
  BY TypeStep DEF IInv
<1>1. CASE Starts
  BY <1>0, <1>1, StrongStart DEF IInv, Rest
<1>2. ASSUME NEW t \in AllTasks, Proceed(t) PROVE IInv'
  BY <1>0, <1>2, StrongProceed DEF IInv, Rest
<1>3. CASE Crash
  BY <1>0, <1>3, StrongBoot DEF IInv, Crash
<1>4. CASE UNCHANGED vars
  BY <1>4 DEF vars, IInv, TypeOK, MutexInv, PinInv, LatchInv, WipeInv, TornInv, Free
<1>5. QED
  BY <1>1, <1>2, <1>3, <1>4 DEF Next

LEMMA Invariance == Spec => []IInv
<1>1. Init => IInv
  BY TypeInit, StrongInit DEF IInv
<1>2. QED
  BY <1>1, StrongStep, PTL DEF Spec

(* Whenever no task is inside device_state_set_relay the pin shows the      *)
(* state, for every order of the critical sections (device_state.c:124-128). *)
THEOREM PinAgreement == Spec => []PinFollowsState
<1>1. IInv => PinFollowsState
  BY DEF IInv, PinInv, PinFollowsState
<1>2. QED
  BY <1>1, Invariance, PTL

(* Without an overlap or a refusal the flash and the app have the live state *)
(* at rest: nothing else can make a restart restore a wrong one.             *)
THEOREM PersistenceExact == Spec => []UndisturbedIsPersisted
<1>1. IInv => UndisturbedIsPersisted
  BY DEF IInv, TornInv, UndisturbedIsPersisted
<1>2. QED
  BY <1>1, Invariance, PTL

(* A factory reset ends with the relay off, however the other tasks' saves   *)
(* fall around the erase (button.c:81-92).                                   *)
THEOREM ResetLeavesOff == Spec => FactoryResetLeavesOff
<1>1. IInv /\ [Next]_vars
        => [pc["button"] = "restart" /\ pc'["button"] = "idle" => ~relayOn' /\ ~gpio']_vars
  <2> SUFFICES ASSUME IInv, [Next]_vars, pc["button"] = "restart", pc'["button"] = "idle"
               PROVE  ~relayOn' /\ ~gpio'
    OBVIOUS
  <2> USE TargetLabels DEF IInv, TypeOK
  <2>1. ~nvsRelay
    BY DEF WipeInv
  <2>2. CASE Boot
    BY <2>1, <2>2 DEF Boot
  <2>3. ASSUME Starts PROVE FALSE
    BY <2>3 DEF Starts, BleWrite, CloudCommand, ShortPress, LongHold, SchedulerFires,
       ThermostatActs, ThermostatPasses, LeakConfirmed, LeakCleared, Enter
  <2>4. ASSUME NEW t \in AllTasks, Proceed(t), ~Boot PROVE FALSE
    BY <2>4 DEF Proceed, Unlatch, SetRelay, DrivePin, SaveRelay, NotifyState,
       RunLimitCuts, RunLimitPasses, Reassert, Erase, Restart, Enter, Goto
  <2>5. CASE UNCHANGED vars
    BY <2>5 DEF vars
  <2>6. QED
    BY <2>2, <2>3, <2>4, <2>5 DEF Next, Crash
<1>2. QED
  BY <1>1, Invariance, PTL DEF Spec, FactoryResetLeavesOff

-----------------------------------------------------------------------------
(* The interlock. *)

(* Inside device_state_set_relay no latch can come between the refusal that  *)
(* was not made and the pin.                                                *)
DriveInv == relayOn /\ mutex # "none" => ~lockout

LEMMA DriveStep ==
  ASSUME IInv, DriveInv, [Next]_vars
  PROVE  DriveInv'
<1>1. CASE Boot
  BY <1>1 DEF Boot, DriveInv
<1>2. CASE Starts
  BY <1>2 DEF Starts, BleWrite, CloudCommand, ShortPress, LongHold, SchedulerFires,
     ThermostatActs, ThermostatPasses, LeakConfirmed, LeakCleared, StateUnchanged, Free, DriveInv
<1>3. ASSUME NEW t \in AllTasks, SetRelay(t) PROVE DriveInv'
  <2>1. CASE Refused(t)
    BY <1>3, <2>1 DEF SetRelay, DriveInv
  <2>2. CASE ~Refused(t)
    <3>1. relayOn' = want[t] /\ lockout' = lockout
      BY <1>3, <2>2 DEF SetRelay
    <3>2. want[t] => ~lockout
      BY <2>2 DEF Refused
    <3>3. QED
      BY <3>1, <3>2 DEF DriveInv
  <2>3. QED
    BY <2>1, <2>2
<1>4. ASSUME NEW t \in AllTasks, Proceed(t), ~SetRelay(t), ~Boot PROVE DriveInv'
  BY <1>4 DEF Proceed, Unlatch, DrivePin, SaveRelay, NotifyState, RunLimitCuts, RunLimitPasses,
     Reassert, Erase, Restart, StateUnchanged, DriveInv
<1>5. CASE UNCHANGED vars
  BY <1>5 DEF vars, DriveInv
<1>6. QED
  BY <1>1, <1>2, <1>3, <1>4, <1>5 DEF Next, Crash

(* Every step of a task is one of the interlock, or none.                   *)
LEMMA GateStep ==
  ASSUME IInv, DriveInv, [Next]_vars
  PROVE  [Gate!Next]_(Gate!vars)
<1> DEFINE Cutting == pc["leak"] \in {"acquire", "drive"}
<1> USE DEF Gate!vars
<1>1. CASE Boot
  BY <1>1 DEF Boot, AllTasks, Gate!Next, Gate!Restart
<1>2. CASE LeakConfirmed
  <2>1. ~Cutting /\ Cutting'
    BY <1>2 DEF LeakConfirmed, Enter, IInv, TypeOK, AllTasks
  <2>2. QED
    BY <1>2, <2>1 DEF LeakConfirmed, Gate!Next, Gate!LeakSeen
<1>3. CASE LeakCleared
  <2>1. ~Cutting /\ ~Cutting'
    BY <1>3 DEF LeakCleared
  <2>2. QED
    BY <1>3, <2>1 DEF LeakCleared, Gate!Next, Gate!LeakOver
<1>4. CASE Starts /\ ~LeakConfirmed /\ ~LeakCleared
  <2>1. \E t \in AllTasks \ {"leak"}, on \in BOOLEAN : \E j, label : Enter(t, on, j, label)
    BY <1>4 DEF Starts, BleWrite, CloudCommand, ShortPress, LongHold, SchedulerFires,
       ThermostatActs, ThermostatPasses, AllTasks, IInv, TypeOK
  <2>2. pc'["leak"] = pc["leak"]
    BY <2>1 DEF Enter, IInv, TypeOK
  <2>3. StateUnchanged
    BY <1>4 DEF Starts, BleWrite, CloudCommand, ShortPress, LongHold, SchedulerFires,
       ThermostatActs, ThermostatPasses
  <2>4. QED
    BY <2>2, <2>3 DEF StateUnchanged
<1>5. ASSUME NEW t \in AllTasks, Proceed(t), ~Boot PROVE [Gate!Next]_(Gate!vars)
  <2>1. t # "leak" => pc'["leak"] = pc["leak"]
    <3>1. \E label : pc' = [pc EXCEPT ![t] = label]
      BY <1>5 DEF Proceed, Unlatch, SetRelay, DrivePin, SaveRelay, NotifyState, RunLimitCuts,
         RunLimitPasses, Reassert, Erase, Restart, Enter, Goto
    <3>2. QED
      BY <3>1 DEF IInv, TypeOK
  <2>2. CASE Unlatch(t)
    <3>1. t # "leak"
      BY <2>2 DEF Unlatch, IInv, TypeOK, LabelsOf, UserTasks
    <3>2. QED
      BY <2>1, <2>2, <3>1 DEF Unlatch, Gate!Next, Gate!Override
  <2>3. CASE SetRelay(t)
    <3>1. ~Refused("leak")
      BY DEF Refused, IInv, LatchInv
    <3>2. t = "leak" => Cutting /\ Cutting'
      BY <2>3, <3>1 DEF SetRelay, Goto, IInv, TypeOK
    <3>3. QED
      BY <2>1, <2>3, <3>2 DEF SetRelay
  <2>4. CASE DrivePin(t)
    <3>1. gpio' = want[t] /\ UNCHANGED <<active, lockout, nvsRelay>> /\ want[t] \in BOOLEAN
      BY <2>4 DEF DrivePin, IInv, TypeOK
    <3>2. mutex = t /\ relayOn = want[t]
      BY <2>4 DEF DrivePin, IInv, MutexInv
    <3>3. want[t] => ~lockout
      BY <3>2 DEF DriveInv, AllTasks
    <3>4. t = "leak" => Cutting /\ ~Cutting' /\ ~want[t]
      BY <2>4 DEF DrivePin, Goto, AfterSet, IInv, TypeOK, LatchInv
    <3>5. CASE t = "leak"
      BY <3>1, <3>4, <3>5 DEF Gate!Next, Gate!Cut
    <3>6. CASE t # "leak"
      BY <2>1, <3>1, <3>3, <3>6 DEF Gate!Next, Gate!On, Gate!Off
    <3>7. QED
      BY <3>5, <3>6
  <2>5. CASE SaveRelay(t) \/ Erase
    <3>1. nvsRelay' \in BOOLEAN /\ UNCHANGED <<gpio, active, lockout>>
      BY <2>5 DEF SaveRelay, Saved, Erase, IInv, TypeOK
    <3>2. Cutting' = Cutting
      BY <2>5 DEF SaveRelay, Erase, Goto, IInv, TypeOK, AllTasks
    <3>3. QED
      BY <3>1, <3>2 DEF Gate!Next, Gate!Remember
  <2>6. CASE NotifyState(t)
    <3>1. t = "leak" => ~Cutting /\ ~Cutting'
      BY <2>6 DEF NotifyState, Enter, AfterNotify, IInv, TypeOK
    <3>2. QED
      BY <2>1, <2>6, <3>1 DEF NotifyState
  <2>7. CASE t = "sensor" /\ (RunLimitCuts \/ RunLimitPasses \/ Reassert)
    <3>1. pc'["leak"] = pc["leak"]
      BY <2>1, <2>7
    <3>2. QED
      BY <2>7, <3>1 DEF RunLimitCuts, RunLimitPasses, Reassert, StateUnchanged, IInv, PinInv
  <2>8. QED
    BY <1>5, <2>2, <2>3, <2>4, <2>5, <2>6, <2>7 DEF Proceed, Restart
<1>6. CASE UNCHANGED vars
  BY <1>6 DEF vars
<1>7. QED
  BY <1>1, <1>2, <1>3, <1>4, <1>5, <1>6 DEF Next, Crash

(* The pin, the latch and the flash are an interlock, for every set of tasks *)
(* and every order of their steps: the pin never comes on while a leak is   *)
(* latched, whatever the other tasks had decided, and reasserting it never  *)
(* changes it (device_state.c:98-129, leak.c:64-82, temperature.c:389-395). *)
THEOREM RelayIsInterlock == Spec => PinIsInterlocked
<1>1. Spec => [](IInv /\ DriveInv)
  <2>1. Init => DriveInv
    BY DEF Init, DriveInv
  <2>2. IInv /\ DriveInv /\ [Next]_vars => DriveInv'
    BY DriveStep
  <2>3. QED
    BY <2>1, <2>2, Invariance, PTL DEF Spec
<1>2. Init => Gate!Init
  BY DEF Init, AllTasks, Gate!Init
<1>3. IInv /\ DriveInv /\ [Next]_vars => [Gate!Next]_(Gate!vars)
  BY GateStep
<1>4. QED
  BY <1>1, <1>2, <1>3, PTL DEF Spec, PinIsInterlocked, Gate!Spec

(* So a pin that is high and a latched leak coexist only until the leak      *)
(* task's own switch-off (leak.c:64-75): what holds of every interlock holds *)
(* of the relay.                                                            *)
THEOREM LatchHolds == Spec => []Gate!LatchedMeansOff
<1>1. Gate!Init => Gate!LatchedMeansOff
  BY DEF Gate!Init, Gate!LatchedMeansOff
<1>2. Gate!LatchedMeansOff /\ [Gate!Next]_(Gate!vars) => Gate!LatchedMeansOff'
  BY DEF Gate!LatchedMeansOff, Gate!Next, Gate!vars, Gate!On, Gate!Off, Gate!LeakSeen, Gate!Cut,
     Gate!LeakOver, Gate!Override, Gate!Remember, Gate!Restart
<1>3. Gate!Spec => []Gate!LatchedMeansOff
  BY <1>1, <1>2, PTL DEF Gate!Spec
<1>4. QED
  BY <1>3, RelayIsInterlock DEF PinIsInterlocked

=============================================================================
