------------------------- MODULE ProvisioningProofs -------------------------
(***************************************************************************)
(* Proofs about Provisioning, for any users and networks and any number of *)
(* retries and restarts: types, one firebase task, a truthful status, and  *)
(* that what is saved was joined.                                          *)
(***************************************************************************)
EXTENDS Provisioning, TLAPS

Joining  == {"join", "wait", "wait2", "joined", "failed"}
AfterUid == {"saveSsid", "savePass", "saveFlag", "creds", "startTask", "report"}

(* A reconnection saves nothing; a run without WiFi joins nothing.          *)
ModeInv ==
  /\ mode = "reconnect" => pc \in Joining \cup {None, "start", "end"}
  /\ mode = "ble" => pc \notin Joining \cup {"saveSsid", "savePass"}

(* A run that saves has a user, and a network if it is to save one; the     *)
(* flash has the user from its first key on.                                *)
TypedInv ==
  /\ pc # None /\ mode # "reconnect" => uid # None
  /\ pc # None /\ mode = "wifi" => cred.ssid # None
  /\ pc \in AfterUid \/ nvsProv => nvsUid # None
  /\ pc \in AfterUid \ {"saveSsid"} /\ mode = "wifi" => nvsSsid # None
  /\ pc \in {"creds", "startTask", "report"} => nvsProv

(* A firebase task that runs has credentials; one about to be started is    *)
(* the first.                                                               *)
TaskInv ==
  /\ tasks \in {0, 1}
  /\ tasks = 1 => Ready
  /\ pc = "startTask" => tasks = 0

BoundInv == mode = "wifi" => bound

(* The link, and the news of it, are about the network that is set.         *)
LinkInv == link \/ "up" \in bits => Accepted(cfg)

(* Where a run stands with the network it was started for.                  *)
JoinInv ==
  mode = "wifi" /\ ~doubtful =>
    /\ pc \in {"wait", "wait2"} => cfg = cred
    /\ pc \in {"joined", "saveUid", "saveSsid", "savePass"} => Accepted(cred)
    /\ pc = "savePass" => nvsSsid = cred.ssid
    /\ pc \in {"saveFlag", "creds", "startTask", "report"} => <<nvsSsid, nvsPass>> \in Opens

IInv == TypeOK /\ ModeInv /\ TypedInv /\ TaskInv /\ BoundInv /\ LinkInv /\ JoinInv
          /\ StatusTruthful

(* The three kinds of steps beside the run's and the restart.               *)
Writes == WriteWifi \/ WriteAuth \/ Bind
Events == GotIp \/ Disconnected \/ BackoffOver

-----------------------------------------------------------------------------
(* What each kind of step leaves alone. *)

LEMMA WritesFrame == Writes => UNCHANGED <<flash, status, wifi, cloud, restarts>>
BY DEF Writes, WriteWifi, WriteAuth, Bind, ghost

LEMMA EventsFrame == Events => UNCHANGED <<flash, typed, status, prov, cfg, cloud, ghost>>
BY DEF Events, GotIp, Disconnected, BackoffOver

LEMMA RunFrame == Run => UNCHANGED <<typed, bound, restarts>> /\ mode' = mode
BY DEF Run, Begin, Join, Outcome, SliceOver, Joined, Failed, SaveUid, SaveSsid, SavePass,
   SaveFlag, SetCredentials, StartTask, Report, End, Goto, ghost

-----------------------------------------------------------------------------
(* Types. *)

LEMMA Bounds == MaxRetries \in Nat /\ MaxRestarts \in Nat
BY ProvisioningAssumption

LEMMA FlashStep ==
  ASSUME TypeOK, TypedInv, ModeInv, Next
  PROVE  FlashType'
<1> USE DEF TypeOK, FlashType, flash
<1>1. CASE Writes \/ Events
  BY <1>1, WritesFrame, EventsFrame
<1>2. CASE SaveUid
  BY <1>2 DEF SaveUid, TypedType, TypedInv, ModeInv, Joining, None
<1>3. CASE SaveSsid \/ SavePass
  BY <1>3 DEF SaveSsid, SavePass, TypedType
<1>4. CASE SaveFlag \/ SetCredentials
  BY <1>4 DEF SaveFlag, SetCredentials, FlagSaved, TypedInv, AfterUid
<1>5. CASE Begin \/ Join \/ Outcome \/ SliceOver \/ Joined \/ Failed \/ StartTask \/ Report
           \/ End \/ Restart
  BY <1>5 DEF Begin, Join, Outcome, SliceOver, Joined, Failed, StartTask, Report, End, Restart
<1> QED
  BY <1>1, <1>2, <1>3, <1>4, <1>5 DEF Next, Run, Writes, Events

LEMMA TypedStep ==
  ASSUME TypeOK, Next
  PROVE  TypedType'
<1> USE DEF TypeOK, TypedType, typed
<1>1. CASE Writes
  BY <1>1 DEF Writes, WriteWifi, WriteAuth, Bind, Creds
<1>2. CASE Events \/ Run
  BY <1>2, EventsFrame, RunFrame
<1>3. CASE Restart
  <2>1. uid' = nvsUid /\ cred' = [ssid |-> nvsSsid, pass |-> nvsPass]
        /\ wifiReq' = FALSE /\ authRx' = FALSE
    BY <1>3 DEF Restart, LoadTyped
  <2> QED
    BY <2>1 DEF FlashType
<1> QED
  BY <1>1, <1>2, <1>3 DEF Next, Writes, Events

LEMMA RunTypeStep ==
  ASSUME TypeOK, Next
  PROVE  RunType'
<1> USE DEF TypeOK, RunType, prov
<1>1. CASE WriteWifi \/ WriteAuth \/ Events
  BY <1>1, EventsFrame DEF WriteWifi, WriteAuth
<1>2. CASE Bind
  <2>1. status' = status
    BY <1>2 DEF Bind
  <2>2. CASE busy' = TRUE /\ pc' = "start" /\ mode' \in {"wifi", "ble"}
    BY <2>1, <2>2 DEF None
  <2>3. CASE UNCHANGED prov
    BY <2>1, <2>3
  <2> QED
    BY <1>2, <2>2, <2>3 DEF Bind
<1>3. CASE Run /\ ~End
  BY <1>3 DEF Run, Begin, Join, Outcome, SliceOver, Joined, Failed, SaveUid, SaveSsid,
     SavePass, SaveFlag, SetCredentials, StartTask, Report, Goto, None
<1>4. CASE End
  BY <1>4 DEF End
<1>5. CASE Restart
  BY <1>5 DEF Restart, LoadTyped, StartReconnect, HasWifi, None
<1> QED
  BY <1>1, <1>2, <1>3, <1>4, <1>5 DEF Next, Run, Events

LEMMA RetryStep ==
  ASSUME TypeOK, Next
  PROVE  retry' \in 0..MaxRetries
<1>1. retry \in 0..MaxRetries
  BY DEF TypeOK, WifiType
<1>2. retry' = retry \/ retry' = 0 \/ (retry < MaxRetries /\ retry' = retry + 1)
  <2>1. CASE Writes
    BY <2>1, WritesFrame DEF wifi
  <2>2. CASE Run
    BY <2>2 DEF Run, Begin, Join, Outcome, SliceOver, Joined, Failed, SaveUid, SaveSsid,
       SavePass, SaveFlag, SetCredentials, StartTask, Report, End, wifi
  <2>3. CASE Events \/ Restart
    BY <2>3 DEF Events, GotIp, Disconnected, BackoffOver, Restart, RetryNow
  <2> QED
    BY <2>1, <2>2, <2>3 DEF Next, Writes, Events
<1> QED
  BY <1>1, <1>2, Bounds

LEMMA WifiStep ==
  ASSUME TypeOK, Next
  PROVE  WifiType'
<1> USE DEF TypeOK, WifiType
<1>1. retry' \in 0..MaxRetries
  BY RetryStep
<1>2. CASE Writes
  <2>1. UNCHANGED <<drv, cfg, link, armed, bits>>
    BY <1>2, WritesFrame DEF wifi
  <2> QED
    BY <1>1, <2>1
<1>3. CASE Join
  <2>1. cfg' \in {cfg, cred} /\ armed' = armed
    BY <1>3 DEF Join
  <2>2. cfg' \in [ssid : Ssids \cup {None}, pass : Passwords \cup {None}]
    BY <2>1 DEF TypedType
  <2>3. bits' \in {bits, {}}
    BY <1>3 DEF Join
  <2>4. drv' \in {drv, "joining"} /\ link' \in BOOLEAN /\ (link' <=> drv' = "up")
    BY <1>3 DEF Join
  <2> QED
    BY <1>1, <2>1, <2>2, <2>3, <2>4
<1>4. CASE Run /\ ~Join
  <2>1. UNCHANGED <<drv, cfg, link, armed>> /\ bits' \in {bits, {}}
    BY <1>4 DEF Run, Begin, Outcome, SliceOver, Joined, Failed, SaveUid, SaveSsid, SavePass,
       SaveFlag, SetCredentials, StartTask, Report, End, wifi
  <2> QED
    BY <1>1, <2>1
<1>5. CASE Events
  <2>1. cfg' = cfg
    BY <1>5, EventsFrame
  <2>2. armed' \in BOOLEAN /\ bits' \subseteq {"up", "fail"}
    BY <1>5 DEF Events, GotIp, Disconnected, BackoffOver, TimerStarted
  <2>3. CASE GotIp \/ Disconnected
    <3>1. drv' \in {"joining", "up", "idle"} /\ link' \in BOOLEAN /\ (link' <=> drv' = "up")
      BY <2>3 DEF GotIp, Disconnected
    <3> QED
      BY <1>1, <2>1, <2>2, <3>1
  <2>4. CASE BackoffOver
    BY <1>1, <2>1, <2>2, <2>4 DEF BackoffOver
  <2> QED
    BY <1>5, <2>3, <2>4 DEF Events
<1>6. CASE Restart
  <2>1. drv' = "off" /\ cfg' = NoCred /\ link' = FALSE /\ armed' = FALSE /\ bits' = {}
    BY <1>6 DEF Restart
  <2>2. cfg' \in [ssid : Ssids \cup {None}, pass : Passwords \cup {None}]
    BY <2>1 DEF NoCred
  <2> QED
    BY <1>1, <2>1, <2>2
<1> QED
  BY <1>2, <1>3, <1>4, <1>5, <1>6 DEF Next, Run, Writes, Events

LEMMA CloudStep ==
  ASSUME TypeOK, Next
  PROVE  CloudType'
<1> USE DEF TypeOK, CloudType, FlashType, cloud, flash
<1>1. CASE Writes \/ Events
  BY <1>1, WritesFrame, EventsFrame
<1>2. CASE SetCredentials
  BY <1>2 DEF SetCredentials
<1>3. CASE StartTask
  BY <1>3 DEF StartTask
<1>4. CASE Run /\ ~SetCredentials /\ ~StartTask
  <2>1. UNCHANGED <<tok, authUid, tasks, nvsTok>>
    BY <1>4 DEF Run, Begin, Join, Outcome, SliceOver, Joined, Failed, SaveUid, SaveSsid,
       SavePass, SaveFlag, Report, End
  <2> QED
    BY <2>1
<1>5. CASE Restart
  BY <1>5 DEF Restart, LoadCredentials
<1> QED
  BY <1>1, <1>2, <1>3, <1>4, <1>5 DEF Next, Run, Writes, Events

LEMMA GhostStep ==
  ASSUME TypeOK, Next
  PROVE  GhostType'
<1> USE Bounds DEF TypeOK, GhostType, ghost
<1>1. CASE Writes
  BY <1>1 DEF Writes, WriteWifi, WriteAuth, Bind, RunType
<1>2. CASE Events
  BY <1>2, EventsFrame
<1>3. CASE Run
  BY <1>3 DEF Run, Begin, Join, Outcome, SliceOver, Joined, Failed, SaveUid, SaveSsid,
     SavePass, SaveFlag, SetCredentials, StartTask, Report, End
<1>4. CASE Restart
  <2>1. bound' = FALSE /\ doubtful' = FALSE
    BY <1>4 DEF Restart
  <2>2. restarts' \in 0..MaxRestarts
    BY <1>4 DEF Restart
  <2> QED
    BY <2>1, <2>2
<1> QED
  BY <1>1, <1>2, <1>3, <1>4 DEF Next, Writes, Events

-----------------------------------------------------------------------------
(* The parts of the invariant. *)

LEMMA ModeStep ==
  ASSUME TypeOK, ModeInv, Next
  PROVE  ModeInv'
<1> USE DEF TypeOK, RunType, ModeInv, Joining, None
<1>1. CASE Writes
  BY <1>1 DEF Writes, WriteWifi, WriteAuth, Bind, prov
<1>2. CASE Events
  BY <1>2, EventsFrame DEF prov
<1>3. CASE Run
  BY <1>3 DEF Run, Begin, Join, Outcome, SliceOver, Joined, Failed, SaveUid, SaveSsid,
     SavePass, SaveFlag, SetCredentials, StartTask, Report, End, Goto
<1>4. CASE Restart
  BY <1>4 DEF Restart, StartReconnect, HasWifi
<1> QED
  BY <1>1, <1>2, <1>3, <1>4 DEF Next, Writes, Events

LEMMA TypedInvStep ==
  ASSUME TypeOK, ModeInv, TypedInv, Next
  PROVE  TypedInv'
<1> USE DEF TypeOK, RunType, TypedType, TypedInv, AfterUid, None
<1>1. CASE Writes
  BY <1>1, ProvisioningAssumption DEF Writes, WriteWifi, WriteAuth, Bind, prov, flash, Creds
<1>2. CASE Events
  BY <1>2, EventsFrame DEF prov, flash, typed
<1>3. CASE Run
  BY <1>3 DEF ModeInv, Joining, Run, Begin, Join, Outcome, SliceOver, Joined, Failed, SaveUid, SaveSsid,
     SavePass, SaveFlag, SetCredentials, StartTask, Report, End, Goto, typed, flash, FlagSaved
<1>4. CASE Restart
  BY <1>4 DEF Restart, StartReconnect, HasWifi, flash
<1> QED
  BY <1>1, <1>2, <1>3, <1>4 DEF Next, Writes, Events

LEMMA TaskStep ==
  ASSUME TypeOK, TypedInv, TaskInv, Next
  PROVE  TaskInv'
<1> USE DEF TypeOK, RunType, TaskInv, Ready, None
<1>1. CASE Writes
  BY <1>1 DEF Writes, WriteWifi, WriteAuth, Bind, prov, cloud
<1>2. CASE Events
  BY <1>2, EventsFrame DEF prov, cloud
<1>3. CASE Run /\ ~SetCredentials
  BY <1>3 DEF Run, Begin, Join, Outcome, SliceOver, Joined, Failed, SaveUid, SaveSsid,
     SavePass, SaveFlag, StartTask, Report, End, Goto, cloud
<1>4. CASE SetCredentials
  BY <1>4 DEF SetCredentials, NotRunning, Goto, TypedInv, AfterUid
<1>5. CASE Restart
  BY <1>5 DEF Restart, StartReconnect, LoadCredentials, HasWifi, FlashType
<1> QED
  BY <1>1, <1>2, <1>3, <1>4, <1>5 DEF Next, Writes, Events, Run

LEMMA BoundStep ==
  ASSUME BoundInv, Next
  PROVE  BoundInv'
<1> USE DEF BoundInv
<1>1. CASE Writes
  BY <1>1 DEF Writes, WriteWifi, WriteAuth, Bind, prov, ghost
<1>2. CASE Events \/ Run
  BY <1>2, EventsFrame, RunFrame DEF prov, ghost
<1>3. CASE Restart
  BY <1>3 DEF Restart, StartReconnect
<1> QED
  BY <1>1, <1>2, <1>3 DEF Next, Writes, Events

LEMMA LinkStep ==
  ASSUME TypeOK, LinkInv, Next
  PROVE  LinkInv'
<1> USE DEF TypeOK, WifiType, LinkInv, Accepted
<1>1. CASE Writes
  BY <1>1, WritesFrame DEF wifi
<1>2. CASE Run
  BY <1>2 DEF Run, Begin, Join, Outcome, SliceOver, Joined, Failed, SaveUid, SaveSsid,
     SavePass, SaveFlag, SetCredentials, StartTask, Report, End, wifi
<1>3. CASE Events
  BY <1>3 DEF Events, GotIp, Disconnected, BackoffOver
<1>4. CASE Restart
  BY <1>4 DEF Restart
<1> QED
  BY <1>1, <1>2, <1>3, <1>4 DEF Next, Writes, Events

LEMMA JoinStep ==
  ASSUME TypeOK, LinkInv, JoinInv, Next
  PROVE  JoinInv'
<1> USE DEF TypeOK, RunType, JoinInv, Accepted, None
<1>1. CASE Writes
  BY <1>1 DEF Writes, WriteWifi, WriteAuth, Bind, prov, ghost, flash, wifi
<1>2. CASE Run /\ ~Outcome /\ ~Join
  BY <1>2 DEF Run, Begin, SliceOver, Joined, Failed, SaveUid, SaveSsid,
     SavePass, SaveFlag, SetCredentials, StartTask, Report, End, Goto, wifi, typed, flash, ghost
<1>3. CASE Outcome \/ Join
  BY <1>3 DEF Outcome, Join, LinkInv, WifiType, Goto, JoinSucceeded, typed, flash, ghost
<1>4. CASE Events
  BY <1>4, EventsFrame DEF flash, typed, prov, ghost
<1>5. CASE Restart
  BY <1>5 DEF Restart, StartReconnect
<1> QED
  BY <1>1, <1>2, <1>3, <1>4, <1>5 DEF Next, Writes, Events, Run

LEMMA StatusStep ==
  ASSUME TypeOK, ModeInv, TypedInv, BoundInv, StatusTruthful, Next
  PROVE  StatusTruthful'
<1> USE DEF TypeOK, RunType, StatusTruthful, HasWifi, None
<1>1. CASE Writes
  BY <1>1, WritesFrame DEF Writes, WriteWifi, WriteAuth, Bind, flash, ghost
<1>2. CASE Run
  BY <1>2 DEF Run, Begin, Join, Outcome, SliceOver, Joined, Failed, SaveUid, SaveSsid,
     SavePass, SaveFlag, SetCredentials, StartTask, Report, End, Goto, flash, ghost, FlagSaved,
     Announces, TypedInv, BoundInv, ModeInv, Joining, AfterUid
<1>3. CASE Events
  BY <1>3, EventsFrame DEF flash, ghost
<1>4. CASE Restart
  BY <1>4 DEF Restart, LoadTyped, flash, TypedInv
<1> QED
  BY <1>1, <1>2, <1>3, <1>4 DEF Next, Writes, Events

-----------------------------------------------------------------------------
LEMMA InitInv == Init => IInv
<1> SUFFICES ASSUME Init PROVE IInv
  OBVIOUS
<1> USE DEF Init
<1>0. retry \in 0..MaxRetries /\ restarts \in 0..MaxRestarts
  BY Bounds
<1>1. FlashType /\ TypedType /\ RunType
  BY DEF FlashType, TypedType, RunType, NoCred, None
<1>2. WifiType
  BY <1>0 DEF WifiType, NoCred
<1>3. CloudType /\ GhostType
  BY <1>0 DEF CloudType, GhostType
<1>4. ModeInv /\ TypedInv /\ TaskInv /\ BoundInv /\ LinkInv /\ JoinInv /\ StatusTruthful
  BY DEF ModeInv, TypedInv, TaskInv, BoundInv, LinkInv, JoinInv, StatusTruthful, Joining,
     AfterUid, None
<1> QED
  BY <1>1, <1>2, <1>3, <1>4 DEF IInv, TypeOK

LEMMA NextInv == IInv /\ [Next]_vars => IInv'
<1> SUFFICES ASSUME IInv, [Next]_vars PROVE IInv'
  OBVIOUS
<1>1. CASE Next
  <2>1. TypeOK'
    BY <1>1, FlashStep, TypedStep, RunTypeStep, WifiStep, CloudStep, GhostStep
       DEF IInv, TypeOK
  <2> QED
    BY <1>1, <2>1, ModeStep, TypedInvStep, TaskStep, BoundStep, LinkStep, JoinStep, StatusStep
       DEF IInv
<1>2. CASE UNCHANGED vars
  <2>1. TypeOK'
    BY <1>2 DEF IInv, TypeOK, FlashType, TypedType, RunType, WifiType, CloudType, GhostType,
       vars, flash, typed, prov, wifi, cloud, ghost
  <2>2. (ModeInv /\ TypedInv /\ TaskInv /\ BoundInv /\ LinkInv /\ JoinInv /\ StatusTruthful)'
    BY <1>2 DEF IInv, ModeInv, TypedInv, TaskInv, BoundInv, LinkInv, JoinInv, StatusTruthful,
       Ready, Accepted, HasWifi, vars, flash, typed, prov, wifi, cloud, ghost
  <2> QED
    BY <2>1, <2>2 DEF IInv
<1> QED
  BY <1>1, <1>2

LEMMA Invariance == Spec => []IInv
BY InitInv, NextInv, PTL DEF Spec

-----------------------------------------------------------------------------
(* Every value keeps its type; credentials in flash always have a user, and *)
(* RAM and flash agree on whether there are any.                            *)
THEOREM TypeCorrect == Spec => []TypeOK
<1>1. IInv => TypeOK
  BY DEF IInv
<1> QED
  BY <1>1, Invariance, PTL

(* However often the unit is provisioned, joined and restarted, at most one *)
(* firebase task runs (main.c:141-143, wifi_prov.c:313-319).                *)
THEOREM SingleTask == Spec => []OneFirebaseTask
<1>1. IInv => OneFirebaseTask
  BY DEF IInv, TaskInv, OneFirebaseTask
<1> QED
  BY <1>1, Invariance, PTL

(* The status is borne out by the flash, and one that a run announces comes *)
(* from a run that somebody asked for (wifi_prov.c:353-386).                *)
THEOREM StatusHolds == Spec => []StatusTruthful
<1>1. IInv => StatusTruthful
  BY DEF IInv
<1> QED
  BY <1>1, Invariance, PTL

(* A network is saved only when the unit has joined it, unless the app      *)
(* changed it under the run or only its password (wifi_prov.c:353-363).     *)
THEOREM JoinedIsSaved == Spec => []SavedWasJoined
<1>1. IInv => SavedWasJoined
  BY DEF IInv, JoinInv, SavedWasJoined
<1> QED
  BY <1>1, Invariance, PTL

=============================================================================
