---------------------------- MODULE Provisioning ----------------------------
(***************************************************************************)
(* From an unconfigured unit to one that is on WiFi and in the cloud.      *)
(*                                                                         *)
(* The app writes the network, the cloud credentials and the user over BLE; *)
(* the last of these starts prov_connect_task, which joins the network,    *)
(* saves everything key by key and starts the firebase task.  The WiFi     *)
(* event handler retries on its own for ever.  A restart finds what the    *)
(* flash holds and, with a network saved, joins it again by the same task. *)
(*                                                                         *)
(* The owner lock, the nickname and the device ID are left out; the driver *)
(* and the access point are modelled from the calls made to them.          *)
(***************************************************************************)
EXTENDS Naturals

CONSTANTS
  Users,         \* Firebase users
  Ssids, Passwords,
  Opens,         \* the pairs of them that a network accepts
  MaxRetries,    \* MAX_RETRIES
  MaxRestarts    \* bound: restarts

None == "none"

ASSUME ProvisioningAssumption ==
  /\ None \notin Users \cup Ssids \cup Passwords
  /\ Opens \subseteq Ssids \X Passwords
  /\ MaxRetries \in Nat /\ MaxRestarts \in Nat

VARIABLES
  nvsUid, nvsSsid, nvsPass, nvsProv, nvsTok,   \* keys of "gs_prov"
  uid, cred,           \* s_user_id, and s_ssid with s_pass
  wifiReq, authRx,     \* s_wifi_requested, s_auth_received
  status,              \* s_prov_status
  busy, pc, mode,      \* s_prov_in_progress; prov_connect_task and its run
  drv, cfg,            \* the WiFi driver and the network it is set to
  link, retry, armed,  \* s_wifi_connected, s_retry_count, the backoff timer
  bits,                \* s_prov_wifi_events
  tok, authUid,        \* firebase_auth: a refresh token is held, and whose
  tasks,               \* firebase tasks created since the start
  \* history
  bound,               \* a user was bound since the start
  doubtful,            \* the network in RAM is not the one last joined
  restarts

flash  == <<nvsUid, nvsSsid, nvsPass, nvsProv, nvsTok>>
typed  == <<uid, cred, wifiReq, authRx>>
prov   == <<busy, pc, mode>>
wifi   == <<drv, cfg, link, retry, armed, bits>>
cloud  == <<tok, authUid, tasks>>
ghost  == <<bound, doubtful, restarts>>
vars   == <<flash, typed, status, prov, wifi, cloud, ghost>>

Creds  == [ssid : Ssids, pass : Passwords]
NoCred == [ssid |-> None, pass |-> None]
Accepted(c) == <<c.ssid, c.pass>> \in Opens

FlashType ==
  /\ nvsUid \in Users \cup {None} /\ nvsSsid \in Ssids \cup {None}
  /\ nvsPass \in Passwords \cup {None} /\ nvsProv \in BOOLEAN /\ nvsTok \in BOOLEAN
  /\ nvsTok => nvsUid # None      \* credentials are stored for somebody

TypedType ==
  /\ uid \in Users \cup {None}
  /\ cred \in [ssid : Ssids \cup {None}, pass : Passwords \cup {None}]
  /\ wifiReq \in BOOLEAN /\ authRx \in BOOLEAN

RunType ==
  /\ status \in {"idle", "connecting", "wifiOk", "wifiFail", "complete", "bleOnly"}
  /\ pc \in {None, "start", "join", "wait", "wait2", "joined", "failed", "saveUid",
             "saveSsid", "savePass", "saveFlag", "creds", "startTask", "report", "end"}
  /\ busy \in BOOLEAN /\ (busy <=> pc # None)
  /\ mode \in {"wifi", "ble", "reconnect"}

WifiType ==
  /\ drv \in {"off", "idle", "joining", "up"}
  /\ cfg \in [ssid : Ssids \cup {None}, pass : Passwords \cup {None}]
  /\ link \in BOOLEAN /\ (link <=> drv = "up")
  /\ retry \in 0..MaxRetries /\ armed \in BOOLEAN /\ bits \subseteq {"up", "fail"}

CloudType ==
  /\ tok \in BOOLEAN /\ authUid \in Users \cup {None} /\ tasks \in Nat
  /\ tok <=> nvsTok

GhostType == bound \in BOOLEAN /\ doubtful \in BOOLEAN /\ restarts \in 0..MaxRestarts

TypeOK == FlashType /\ TypedType /\ RunType /\ WifiType /\ CloudType /\ GhostType

(* firebase_auth_is_ready *)
Ready == tok /\ authUid # None

Init ==
  /\ nvsUid = None /\ nvsSsid = None /\ nvsPass = None
  /\ nvsProv = FALSE /\ nvsTok = FALSE
  /\ uid = None /\ cred = NoCred /\ wifiReq = FALSE /\ authRx = FALSE
  /\ status = "idle" /\ busy = FALSE /\ pc = None /\ mode = "ble"
  /\ drv = "off" /\ cfg = NoCred /\ link = FALSE /\ retry = 0 /\ armed = FALSE
  /\ bits = {}
  /\ tok = FALSE /\ authUid = None /\ tasks = 0
  /\ bound = FALSE /\ doubtful = FALSE /\ restarts = 0

-----------------------------------------------------------------------------
(* The app, over BLE.  Nothing keeps it from writing during a run. *)

WriteWifi ==
  /\ cred' \in Creds
  /\ wifiReq' = TRUE
  /\ doubtful' = (doubtful \/ busy)
  /\ UNCHANGED <<flash, uid, authRx, status, prov, wifi, cloud, bound, restarts>>

WriteAuth ==
  /\ authRx' = TRUE
  /\ UNCHANGED <<flash, uid, cred, wifiReq, status, prov, wifi, cloud, ghost>>

(* The user is noted before the run in progress is seen to be in the way. *)
Bind ==
  /\ uid' \in Users
  /\ \/ /\ ~busy
        /\ busy' = TRUE /\ pc' = "start"
        /\ mode' = IF wifiReq /\ cred.ssid # None THEN "wifi" ELSE "ble"
        /\ bound' = TRUE
     \/ UNCHANGED <<prov, bound>>          \* rejected, or no memory for a task
  /\ UNCHANGED <<flash, cred, wifiReq, authRx, status, wifi, cloud, doubtful, restarts>>

-----------------------------------------------------------------------------
(* prov_connect_task *)

Goto(label) == pc' = label /\ UNCHANGED <<busy, mode>>

Announces == mode = "wifi"

Begin ==
  /\ pc = "start"
  /\ status' = IF mode # "ble" /\ Announces THEN "connecting" ELSE status
  /\ Goto(IF mode = "ble" THEN "saveUid" ELSE "join")
  /\ UNCHANGED <<flash, typed, wifi, cloud, ghost>>

(* wifi_connect: a link to a network of that name will do. *)
Join ==
  /\ pc = "join"
  /\ IF link /\ cfg.ssid = cred.ssid
     THEN /\ retry' = 0
          /\ Goto("joined")
          /\ doubtful' = (cfg # cred)
          /\ UNCHANGED <<drv, cfg, link, armed, bits>>
     ELSE /\ retry' = 0 /\ bits' = {}
          /\ cfg' = cred /\ drv' = "joining" /\ link' = FALSE
          /\ Goto("wait")
          /\ doubtful' = FALSE
          /\ UNCHANGED armed
  /\ UNCHANGED <<flash, typed, status, cloud, bound, restarts>>

(* Mutated form: any news is good news. *)
AnyBit == bits # {}

JoinSucceeded == "up" \in bits

Outcome ==
  /\ pc \in {"wait", "wait2"} /\ bits # {}
  /\ bits' = {}
  /\ Goto(IF JoinSucceeded THEN "joined" ELSE "failed")
  /\ UNCHANGED <<flash, typed, status, drv, cfg, link, retry, armed, cloud, ghost>>

(* 20 s without news, twice at most. *)
SliceOver ==
  /\ pc \in {"wait", "wait2"} /\ bits = {}
  /\ status' = IF Announces THEN "connecting" ELSE status
  /\ Goto(IF pc = "wait" THEN "wait2" ELSE "failed")
  /\ UNCHANGED <<flash, typed, wifi, cloud, ghost>>

(* A reconnection only logs how it went. *)
Joined ==
  /\ pc = "joined"
  /\ status' = IF Announces THEN "wifiOk" ELSE status
  /\ Goto(IF mode = "wifi" THEN "saveUid" ELSE "end")
  /\ UNCHANGED <<flash, typed, wifi, cloud, ghost>>

Failed ==
  /\ pc = "failed"
  /\ status' = IF Announces THEN "wifiFail" ELSE status
  /\ Goto("end")
  /\ UNCHANGED <<flash, typed, wifi, cloud, ghost>>

(* save_provisioning, a key at a time. *)
SaveUid ==
  /\ pc = "saveUid"
  /\ nvsUid' = uid
  /\ Goto(IF mode = "wifi" THEN "saveSsid" ELSE "saveFlag")
  /\ UNCHANGED <<nvsSsid, nvsPass, nvsProv, nvsTok, typed, status, wifi, cloud, ghost>>

SaveSsid ==
  /\ pc = "saveSsid"
  /\ nvsSsid' = cred.ssid
  /\ Goto("savePass")
  /\ UNCHANGED <<nvsUid, nvsPass, nvsProv, nvsTok, typed, status, wifi, cloud, ghost>>

SavePass ==
  /\ pc = "savePass"
  /\ nvsPass' = cred.pass
  /\ Goto("saveFlag")
  /\ UNCHANGED <<nvsUid, nvsSsid, nvsProv, nvsTok, typed, status, wifi, cloud, ghost>>

(* Mutated form: only a unit with WiFi counts as provisioned. *)
FlagWithWifi == nvsProv \/ mode = "wifi"

FlagSaved == TRUE

SaveFlag ==
  /\ pc = "saveFlag"
  /\ nvsProv' = FlagSaved
  /\ Goto(IF authRx THEN "creds" ELSE "report")
  /\ UNCHANGED <<nvsUid, nvsSsid, nvsPass, nvsTok, typed, status, wifi, cloud, ghost>>

(* Mutated form: the task is started whether or not it was running. *)
AlwaysStart == TRUE

NotRunning == ~Ready

(* firebase_auth_set_credentials: a user already known is kept. *)
SetCredentials ==
  /\ pc = "creds"
  /\ tok' = TRUE /\ nvsTok' = TRUE
  /\ authUid' = IF authUid = None THEN nvsUid ELSE authUid
  /\ Goto(IF NotRunning THEN "startTask" ELSE "report")
  /\ UNCHANGED <<nvsUid, nvsSsid, nvsPass, nvsProv, typed, status, wifi, tasks, ghost>>

StartTask ==
  /\ pc = "startTask"
  /\ tasks' = IF link /\ Ready THEN tasks + 1 ELSE tasks
  /\ Goto("report")
  /\ UNCHANGED <<flash, typed, status, wifi, tok, authUid, ghost>>

Report ==
  /\ pc = "report"
  /\ status' = IF mode = "wifi" THEN "complete" ELSE "bleOnly"
  /\ Goto("end")
  /\ UNCHANGED <<flash, typed, wifi, cloud, ghost>>

End ==
  /\ pc = "end"
  /\ pc' = None /\ busy' = FALSE
  /\ UNCHANGED <<mode, flash, typed, status, wifi, cloud, ghost>>

-----------------------------------------------------------------------------
(* wifi_event_handler and the backoff timer. *)

GotIp ==
  /\ drv = "joining" /\ Accepted(cfg)
  /\ drv' = "up" /\ link' = TRUE
  /\ retry' = 0 /\ armed' = FALSE
  /\ bits' = bits \cup {"up"}
  /\ UNCHANGED <<flash, typed, status, prov, cfg, cloud, ghost>>

(* Mutated forms: one retry too many; the retries are all there is. *)
OneTooMany == retry <= MaxRetries
NoTimer    == armed

RetryNow == retry < MaxRetries

TimerStarted == TRUE

Disconnected ==
  /\ drv \in {"joining", "up"}
  /\ link' = FALSE
  /\ IF RetryNow
     THEN retry' = retry + 1 /\ drv' = "joining" /\ UNCHANGED <<armed, bits>>
     ELSE /\ retry' = 0 /\ drv' = "idle"
          /\ bits' = bits \cup {"fail"}
          /\ armed' = TimerStarted
  /\ UNCHANGED <<flash, typed, status, prov, cfg, cloud, ghost>>

(* esp_wifi_connect does nothing to a driver that is busy joining. *)
BackoffOver ==
  /\ armed /\ armed' = FALSE
  /\ drv' = IF drv = "idle" THEN "joining" ELSE drv
  /\ UNCHANGED <<flash, typed, status, prov, cfg, link, retry, bits, cloud, ghost>>

-----------------------------------------------------------------------------
HasWifi == nvsSsid # None

(* wifi_prov_load_nickname *)
LoadTyped ==
  /\ uid' = nvsUid /\ cred' = [ssid |-> nvsSsid, pass |-> nvsPass]
  /\ wifiReq' = FALSE /\ authRx' = FALSE
  /\ status' = IF ~nvsProv THEN "idle" ELSE IF HasWifi THEN "complete" ELSE "bleOnly"

(* wifi_prov_start_wifi, for a unit that has a network. *)
StartReconnect ==
  /\ busy' = HasWifi /\ pc' = (IF HasWifi THEN "start" ELSE None) /\ mode' = "reconnect"

(* firebase_auth_init: without a token the user is not even read. *)
LoadCredentials == tok' = nvsTok /\ authUid' = IF nvsTok THEN nvsUid ELSE None

(* app_main *)
Restart ==
  /\ restarts < MaxRestarts /\ restarts' = restarts + 1
  /\ LoadTyped /\ StartReconnect /\ LoadCredentials
  /\ drv' = "off" /\ cfg' = NoCred /\ link' = FALSE /\ retry' = 0 /\ armed' = FALSE
  /\ bits' = {}
  /\ tasks' = IF HasWifi /\ nvsTok THEN 1 ELSE 0
  /\ bound' = FALSE /\ doubtful' = FALSE
  /\ UNCHANGED flash

Run == Begin \/ Join \/ Outcome \/ SliceOver \/ Joined \/ Failed \/ SaveUid \/ SaveSsid
       \/ SavePass \/ SaveFlag \/ SetCredentials \/ StartTask \/ Report \/ End

Next == WriteWifi \/ WriteAuth \/ Bind \/ Run \/ GotIp \/ Disconnected \/ BackoffOver \/ Restart

Spec == Init /\ [][Next]_vars

(* The task runs, the timer expires, and a network that accepts us answers  *)
(* one of infinitely many attempts.                                         *)
FairSpec == Spec /\ WF_vars(Run) /\ WF_vars(BackoffOver) /\ SF_vars(GotIp)

-----------------------------------------------------------------------------
(* However often the unit is provisioned, joined and restarted, at most one *)
(* firebase task runs (main.c:141-143, wifi_prov.c:313-319).                *)
OneFirebaseTask == tasks <= 1

(* The status the app and the LED see is borne out by the flash, so that a   *)
(* restart at any moment finds what was reported done, and a slow join      *)
(* after a restart never reports a provisioning under way or failed         *)
(* (wifi_prov.c:353-386).                                                   *)
StatusTruthful ==
  /\ status = "complete" => nvsProv /\ HasWifi /\ nvsUid # None
  /\ status = "bleOnly" => nvsProv /\ nvsUid # None
  /\ status \in {"connecting", "wifiOk", "wifiFail"} => bound

(* A run saves a network only when the unit has joined it, unless the app   *)
(* changed it under the run or only its password (wifi_prov.c:353-363).     *)
SavedWasJoined ==
  pc = "report" /\ mode = "wifi" /\ ~doubtful => <<nvsSsid, nvsPass>> \in Opens

(* A unit set to a network that accepts it comes back on, however often and *)
(* for however long the link was down (wifi_prov.c:151-178, 384-386).       *)
LinkRecovers == <>[](drv # "off" /\ Accepted(cfg)) => []<>link

=============================================================================
