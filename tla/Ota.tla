-------------------------------- MODULE Ota --------------------------------
(***************************************************************************)
(* Firmware updates: ota_task, the two application slots, and the boot     *)
(* loader's rollback.                                                      *)
(*                                                                         *)
(* The task first confirms the image it runs, which cancels the rollback   *)
(* of a fresh one, and then checks the published release at long intervals. *)
(* A newer image is written to the other slot, hashed, and booted when the *)
(* relay is off.  The slots and the boot loader belong to ESP-IDF and are  *)
(* modelled from the calls the task makes and the rollback it relies on.   *)
(***************************************************************************)
EXTENDS Naturals

CONSTANTS
  Versions,        \* versions published
  MaxPublished,    \* bound: releases after the first
  MaxCuts          \* bound: power cuts

ASSUME OtaAssumption ==
  /\ Versions \subseteq Nat
  /\ \E v \in Versions : \A w \in Versions : v <= w
  /\ \E v \in Versions : \A w \in Versions : v >= w
  /\ MaxPublished \in Nat /\ MaxCuts \in Nat

VARIABLES
  slot,            \* what each slot holds
  boot, running,   \* the slot to be booted, and the one that was
  pc,              \* where ota_task is
  release,         \* /firmware/latest and the file its url names
  job,             \* the release being installed
  relayOn,
  online,          \* WiFi and a token
  published, cuts, \* releases and power cuts so far
  \* history
  hasty,           \* power was cut before the unit had confirmed its image, or
                   \* between the writing of an image and the verdict on it
  unmarked         \* esp_ota_mark_app_valid failed since the start

vars == <<slot, boot, running, pc, release, job, relayOn, online, published, cuts,
          hasty, unmarked>>

(* An image works, crashes as soon as it runs, or is not the published one. *)
Kinds    == {"good", "broken", "foreign"}
Releases == [ver : Versions, img : Versions, kind : Kinds]
Oldest   == CHOOSE v \in Versions : \A w \in Versions : v <= w
NoJob    == [ver |-> Oldest, img |-> Oldest, kind |-> "good"]   \* none, or the delivered one
Newest   == CHOOSE v \in Versions : \A w \in Versions : v >= w

Other(s) == 1 - s
Slots    == [ver : Versions, kind : Kinds,
             state : {"blank", "new", "pending", "valid", "aborted"}]

TypeOK ==
  /\ slot \in [{0, 1} -> Slots] /\ boot \in {0, 1} /\ running \in {0, 1}
  /\ pc \in {"confirm", "idle", "download", "receive", "finish", "verify", "revert",
             "staged", "overdue"}
  /\ release \in Releases /\ job \in Releases
  /\ relayOn \in BOOLEAN /\ online \in BOOLEAN
  /\ published \in 0..MaxPublished /\ cuts \in 0..MaxCuts
  /\ hasty \in BOOLEAN /\ unmarked \in BOOLEAN
  /\ slot[running].state # "blank"           \* never written over
  /\ boot # running => pc \in {"verify", "revert", "staged", "overdue"}

Init ==
  /\ slot = [s \in {0, 1} |-> [ver |-> Oldest, kind |-> "good",
                               state |-> IF s = 0 THEN "valid" ELSE "blank"]]
  /\ boot = 0 /\ running = 0 /\ pc = "confirm"
  /\ release = NoJob /\ job = NoJob
  /\ relayOn \in BOOLEAN /\ online \in BOOLEAN
  /\ published = 0 /\ cuts = 0 /\ hasty = FALSE /\ unmarked = FALSE

-----------------------------------------------------------------------------
(* The world. *)

WorldUnchanged == UNCHANGED <<release, relayOn, online, published, cuts>>

Publish ==
  /\ published < MaxPublished /\ published' = published + 1
  /\ release' \in Releases
  /\ UNCHANGED <<slot, boot, running, pc, job, relayOn, online, cuts, hasty, unmarked>>

Switch ==
  /\ relayOn' = ~relayOn
  /\ UNCHANGED <<slot, boot, running, pc, release, job, online, published, cuts, hasty, unmarked>>

Network ==
  /\ online' = ~online
  /\ UNCHANGED <<slot, boot, running, pc, release, job, relayOn, published, cuts, hasty, unmarked>>

-----------------------------------------------------------------------------
(* The boot loader: a fresh image gets one start to be confirmed in. *)

Bootable(s) == slot[s].state \in {"new", "valid"}

(* Mutated form: the rollback is not configured. *)
NoRollback == FALSE

RollsBack == slot[boot].state = "pending"

(* With nothing bootable left, the first slot that holds an image. *)
LastResort == IF slot[0].state # "blank" THEN 0 ELSE 1

Chosen ==
  IF ~RollsBack THEN boot
  ELSE IF Bootable(Other(boot)) THEN Other(boot) ELSE LastResort

AfterBoot(s) ==
  CASE RollsBack /\ s = boot                    -> "aborted"
    [] s = Chosen /\ slot[s].state = "new"      -> "pending"
    [] OTHER                                    -> slot[s].state

Boot ==
  /\ boot' = Chosen /\ running' = Chosen
  /\ slot' = [s \in {0, 1} |-> [slot[s] EXCEPT !.state = AfterBoot(s)]]
  /\ pc' = "confirm" /\ job' = NoJob
  /\ unmarked' = FALSE
  /\ UNCHANGED <<release, relayOn, online, published>>

Hasty == slot[running].state = "pending" \/ pc \in {"verify", "revert"}

PowerCut ==
  /\ cuts < MaxCuts /\ cuts' = cuts + 1
  /\ Boot
  /\ hasty' = (hasty \/ Hasty)

Working == slot[running].kind # "broken"

Panic ==
  /\ ~Working
  /\ Boot
  /\ UNCHANGED <<cuts, hasty>>

-----------------------------------------------------------------------------
(* ota_task: the confirmation. *)

At(label)   == Working /\ pc = label
Goto(label) == pc' = label /\ UNCHANGED job
Return      == pc' = "idle" /\ job' = NoJob

(* A token was got, or three minutes are over. *)
Confirm ==
  /\ At("confirm")
  /\ \/ /\ slot' = [slot EXCEPT ![running].state = IF @ = "pending" THEN "valid" ELSE @]
        /\ UNCHANGED unmarked
     \/ slot[running].state = "pending" /\ unmarked' = TRUE /\ UNCHANGED slot
  /\ Goto("idle")
  /\ UNCHANGED <<boot, running, hasty>> /\ WorldUnchanged

-----------------------------------------------------------------------------
(* ota_task: the check and the installation. *)

(* version_is_newer *)
Newer(cand) == cand > slot[running].ver

Fetched == online           \* fetch_manifest needs a token and an answer

CheckForUpdate ==
  /\ At("idle") /\ Fetched /\ Newer(release.ver)
  /\ job' = release
  /\ pc' = "download"
  /\ UNCHANGED <<slot, boot, running, hasty, unmarked>> /\ WorldUnchanged

ImageIsNewer == Newer(job.img)

(* esp_https_ota_begin, refused to an image still on probation. *)
Begin ==
  /\ At("download")
  /\ \/ /\ slot[running].state # "pending" /\ ImageIsNewer
        /\ slot' = [slot EXCEPT ![Other(running)].state = "blank"]
        /\ Goto("receive")
     \/ /\ slot[running].state = "pending" \/ ~ImageIsNewer
        /\ Return /\ UNCHANGED slot
  /\ UNCHANGED <<boot, running, hasty, unmarked>> /\ WorldUnchanged

Receive ==
  /\ At("receive") /\ online
  /\ Goto("finish")
  /\ UNCHANGED <<slot, boot, running, hasty, unmarked>> /\ WorldUnchanged

(* Incomplete download, or an image that fails validation. *)
GiveUp ==
  /\ At("receive") \/ At("finish")
  /\ Return
  /\ UNCHANGED <<slot, boot, running, hasty, unmarked>> /\ WorldUnchanged

(* esp_https_ota_finish flips the boot pointer. *)
Finish ==
  /\ At("finish")
  /\ slot' = [slot EXCEPT ![Other(running)] = [ver |-> job.img, kind |-> job.kind, state |-> "new"]]
  /\ boot' = Other(running)
  /\ Goto("verify")
  /\ UNCHANGED <<running, hasty, unmarked>> /\ WorldUnchanged

(* Mutated form: the hash is not compared. *)
NoHash == TRUE

HashMatches == job.kind # "foreign"

Verify ==
  /\ At("verify")
  /\ Goto(IF HashMatches THEN "staged" ELSE "revert")
  /\ UNCHANGED <<slot, boot, running, hasty, unmarked>> /\ WorldUnchanged

(* Mutated form: the pointer is left as it is. *)
PointerLeft == boot

PointerBack == running

(* esp_ota_set_boot_partition puts the image it names on probation. *)
Revert ==
  /\ At("revert")
  /\ boot' = PointerBack
  /\ slot' = [slot EXCEPT ![PointerBack].state = "new"]
  /\ Return
  /\ UNCHANGED <<running, hasty, unmarked>> /\ WorldUnchanged

(* reboot_when_safe *)
(* Mutated form: the unit waits for the relay however long it takes. *)
NeverOverdue == ~relayOn

DeferralOver == TRUE        \* thirty minutes

Overdue ==
  /\ At("staged") /\ DeferralOver
  /\ Goto("overdue")
  /\ UNCHANGED <<slot, boot, running, hasty, unmarked>> /\ WorldUnchanged

Reboot ==
  /\ At("overdue") \/ (At("staged") /\ ~relayOn)
  /\ Boot
  /\ UNCHANGED <<cuts, hasty>>

-----------------------------------------------------------------------------
Next ==
  \/ Publish \/ Switch \/ Network \/ PowerCut \/ Panic
  \/ Confirm \/ CheckForUpdate \/ Begin \/ Receive \/ GiveUp \/ Finish \/ Verify
  \/ Revert \/ Overdue \/ Reboot

Spec == Init /\ [][Next]_vars

(* The task runs, time passes, a broken image crashes, and a release that is *)
(* tried again and again can be downloaded at last.                         *)
FairSpec ==
  /\ Spec
  /\ WF_vars(Panic) /\ WF_vars(Confirm) /\ WF_vars(Begin) /\ WF_vars(Verify)
  /\ WF_vars(Revert) /\ WF_vars(Overdue) /\ WF_vars(Reboot)
  /\ WF_vars(Receive \/ Finish \/ GiveUp)
  /\ SF_vars(CheckForUpdate) /\ SF_vars(Receive) /\ SF_vars(Finish)

-----------------------------------------------------------------------------
(* An image whose hash is wrong never runs, unless power is cut before the   *)
(* verdict or before the unit has confirmed itself again (ota.c:245-257).   *)
OnlyPublishedRuns == ~hasty => slot[running].kind # "foreign"

(* A release that works is running in the end, once the network stays and    *)
(* unless marking the running image failed, whatever the relay does and     *)
(* whatever else failed on the way (ota.c:122-135, 265-293).                *)
NewestIsGood == release.kind = "good" /\ release.ver = Newest /\ release.img = Newest
UpdateLands ==
  <>[](online /\ ~unmarked) /\ <>[]NewestIsGood => <>[](slot[running].ver = Newest)

(* No release takes the unit out of service: one that crashes is left again, *)
(* unless power was cut while an image was on probation, and one whose      *)
(* manifest promises more than its file holds is not installed for ever     *)
(* (ota.c:205-217, 298-335).                                                *)
StaysInService ==
  /\ []<>(Working \/ hasty)
  /\ <>[](release.kind # "broken") => <>[](pc \notin {"staged", "overdue"})

=============================================================================
