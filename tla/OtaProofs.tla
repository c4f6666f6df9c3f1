----------------------------- MODULE OtaProofs -----------------------------
(***************************************************************************)
(* Proofs about Ota, for any versions and any number of releases and power *)
(* cuts: types, and that only published images run.                        *)
(***************************************************************************)
EXTENDS Ota, TLAPS

(* From the flip of the boot pointer to the restart or its reversal, the    *)
(* other slot is to be booted and holds the image being installed.          *)
Flipped == {"verify", "revert", "staged", "overdue"}

PointerInv ==
  pc \in Flipped => /\ boot = Other(running)
                    /\ slot[boot].state = "new"
                    /\ slot[boot].kind = job.kind

(* Only an image that passed waits for the restart. *)
VerdictInv == pc \in {"staged", "overdue"} => job.kind # "foreign"

(* An image that crashes gets nowhere, and has a clean one to go back to. *)
CrashInv ==
  /\ ~Working => pc = "confirm"
  /\ ~hasty /\ ~Working => slot[Other(running)].kind # "foreign"

IInv == TypeOK /\ PointerInv /\ VerdictInv /\ CrashInv /\ OnlyPublishedRuns

-----------------------------------------------------------------------------
LEMMA OldestIsVersion == Oldest \in Versions
  BY OtaAssumption DEF Oldest

LEMMA NoJobType == NoJob \in Releases
  BY OldestIsVersion DEF NoJob, Releases, Kinds

LEMMA InitInv == Init => IInv
<1> SUFFICES ASSUME Init PROVE IInv
  OBVIOUS
<1>1. MaxPublished \in Nat /\ MaxCuts \in Nat
  BY OtaAssumption
<1>2. slot \in [{0, 1} -> Slots]
  BY OldestIsVersion DEF Init, Slots, Kinds
<1>3. slot[running].state = "valid" /\ slot[running].kind = "good"
  BY DEF Init
<1>4. TypeOK
  <2>1. boot = 0 /\ running = 0 /\ pc = "confirm" /\ release = NoJob /\ job = NoJob
        /\ relayOn \in BOOLEAN /\ online \in BOOLEAN /\ published = 0 /\ cuts = 0
        /\ hasty = FALSE /\ unmarked = FALSE
    BY DEF Init
  <2>2. published \in 0..MaxPublished /\ cuts \in 0..MaxCuts
    BY <1>1, <2>1
  <2>3. boot \in {0, 1} /\ running \in {0, 1} /\ boot = running
    BY <2>1
  <2>4. slot[running].state # "blank"
    BY <1>3
  <2> QED
    BY <1>2, <2>1, <2>2, <2>3, <2>4, NoJobType DEF TypeOK
<1> QED
  BY <1>3, <1>4 DEF Init, IInv, PointerInv, VerdictInv, CrashInv, OnlyPublishedRuns,
     Flipped, Working

-----------------------------------------------------------------------------
(* The boot loader never starts a slot that holds no image. *)
LEMMA ChosenHoldsImage ==
  ASSUME TypeOK, PointerInv
  PROVE  Chosen \in {0, 1} /\ slot[Chosen].state # "blank"
<1>1. Other(boot) \in {0, 1}
  BY DEF TypeOK, Other
<1>2. slot[boot].state # "blank"
  BY DEF TypeOK, PointerInv, Flipped
<1>3. CASE ~RollsBack
  BY <1>2, <1>3 DEF Chosen, TypeOK
<1>4. CASE RollsBack /\ Bootable(Other(boot))
  BY <1>1, <1>4 DEF Chosen, Bootable
<1>5. CASE RollsBack /\ ~Bootable(Other(boot))
  BY <1>2, <1>5 DEF Chosen, LastResort, TypeOK
<1> QED
  BY <1>3, <1>4, <1>5

(* A start keeps the images and their types, and fills no slot. *)
LEMMA BootKeepsImages ==
  ASSUME TypeOK, PointerInv, Boot
  PROVE  /\ slot' \in [{0, 1} -> Slots]
         /\ \A s \in {0, 1} : slot'[s].kind = slot[s].kind
         /\ \A s \in {0, 1} : slot[s].state # "blank" => slot'[s].state # "blank"
<1>1. slot \in [{0, 1} -> Slots]
  BY DEF TypeOK
<1>2. \A s \in {0, 1} : slot'[s] = [slot[s] EXCEPT !.state = AfterBoot(s)]
  BY DEF Boot
<1>3. \A s \in {0, 1} : AfterBoot(s) \in {"aborted", "pending", slot[s].state}
  BY DEF AfterBoot
<1>4. \A s \in {0, 1} : slot'[s] \in Slots
  BY <1>1, <1>2, <1>3 DEF Slots
<1>5. slot' \in [{0, 1} -> Slots]
  BY <1>4 DEF Boot
<1>6. \A s \in {0, 1} : slot'[s].kind = slot[s].kind /\ slot'[s].state = AfterBoot(s)
  BY <1>1, <1>2 DEF Slots
<1> QED
  BY <1>3, <1>5, <1>6

LEMMA BootType ==
  ASSUME TypeOK, PointerInv, Boot, cuts' \in 0..MaxCuts, hasty' \in BOOLEAN
  PROVE  TypeOK'
<1>1. Chosen \in {0, 1} /\ slot'[Chosen].state # "blank"
  BY ChosenHoldsImage, BootKeepsImages
<1>2. boot' = Chosen /\ running' = Chosen /\ pc' = "confirm" /\ job' = NoJob
      /\ unmarked' = FALSE /\ release' = release /\ relayOn' = relayOn
      /\ online' = online /\ published' = published
  BY DEF Boot
<1>3. slot' \in [{0, 1} -> Slots]
  BY BootKeepsImages
<1> QED
  BY <1>1, <1>2, <1>3, NoJobType DEF TypeOK

(* A start that is not too early for what runs or is to be booted. *)
Timely == slot[running].kind = "broken" \/ pc \in {"staged", "overdue"} \/ ~Hasty

(* What it chooses is a published image. *)
LEMMA BootIsClean ==
  ASSUME IInv, Boot, ~hasty, Timely
  PROVE  /\ slot'[running'].kind # "foreign"
         /\ slot'[running'].kind = "broken" => slot'[Other(running')].kind # "foreign"
<1> USE DEF IInv
<1>1. running' = Chosen /\ Chosen \in {0, 1}
  BY ChosenHoldsImage DEF Boot
<1>2. \A s \in {0, 1} : slot'[s].kind = slot[s].kind
  BY BootKeepsImages
<1>3. \A s \in {0, 1} : Other(s) \in {0, 1} /\ Other(Other(s)) = s /\ (\A u \in {0, 1} : u = s \/ u = Other(s))
  BY DEF Other
<1>4. running \in {0, 1} /\ boot \in {0, 1}
  BY DEF TypeOK
<1>5. slot[running].kind # "foreign"
  BY DEF OnlyPublishedRuns
<1>6. CASE slot[running].kind = "broken"
  <2>1. slot[Other(running)].kind # "foreign"
    BY <1>6 DEF CrashInv, Working
  <2>2. \A s \in {0, 1} : slot'[s].kind # "foreign"
    BY <1>2, <1>3, <1>4, <1>5, <2>1
  <2> QED
    BY <1>1, <1>3, <2>2
<1>7. CASE slot[running].kind # "broken"
  <2>1. CASE pc \in {"staged", "overdue"}
    <3>1. boot = Other(running) /\ ~RollsBack /\ slot[boot].kind # "foreign"
      BY <2>1 DEF PointerInv, VerdictInv, Flipped, RollsBack
    <3>2. running' = boot /\ Other(running') = running
      BY <1>1, <1>3, <1>4, <3>1 DEF Chosen
    <3> QED
      BY <1>2, <1>4, <1>5, <3>1, <3>2
  <2>2. CASE pc \notin {"staged", "overdue"}
    <3>1. boot = running /\ ~RollsBack
      BY <1>7, <2>2 DEF Timely, Hasty, TypeOK, RollsBack
    <3>2. running' = running
      BY <1>1, <3>1 DEF Chosen
    <3> QED
      BY <1>2, <1>4, <1>5, <1>7, <3>2
  <2> QED
    BY <2>1, <2>2
<1> QED
  BY <1>6, <1>7

(* Every kind of start keeps the invariant. *)
LEMMA BootStep ==
  ASSUME IInv, Boot, cuts' \in 0..MaxCuts, hasty' \in BOOLEAN,
         ~hasty' => ~hasty /\ Timely
  PROVE  IInv'
<1>1. TypeOK'
  BY BootType DEF IInv
<1>2. pc' = "confirm"
  BY DEF Boot
<1>3. PointerInv' /\ VerdictInv'
  BY <1>2 DEF PointerInv, VerdictInv, Flipped
<1>4. OnlyPublishedRuns' /\ CrashInv'
  BY <1>2, BootIsClean DEF OnlyPublishedRuns, CrashInv, Working
<1> QED
  BY <1>1, <1>3, <1>4 DEF IInv

-----------------------------------------------------------------------------
(* Steps that write one slot. *)
LEMMA SlotWritten ==
  ASSUME slot \in [{0, 1} -> Slots], NEW s \in {0, 1}, NEW e \in Slots,
         slot' = [slot EXCEPT ![s] = e]
  PROVE  /\ slot' \in [{0, 1} -> Slots] /\ slot'[s] = e
         /\ \A u \in {0, 1} : u # s => slot'[u] = slot[u]
  OBVIOUS

LEMMA StateWritten ==
  ASSUME slot \in [{0, 1} -> Slots], NEW s \in {0, 1},
         NEW x \in {"blank", "new", "pending", "valid", "aborted"},
         slot' = [slot EXCEPT ![s].state = x]
  PROVE  /\ slot' \in [{0, 1} -> Slots] /\ slot'[s].state = x
         /\ slot'[s].kind = slot[s].kind
         /\ \A u \in {0, 1} : u # s => slot'[u] = slot[u]
  BY DEF Slots

LEMMA WorldStep ==
  ASSUME IInv, Publish \/ Switch \/ Network
  PROVE  IInv'
<1> USE DEF IInv
<1>1. UNCHANGED <<slot, boot, running, pc, job, cuts, hasty, unmarked>>
  BY DEF Publish, Switch, Network
<1>2. release' \in Releases /\ relayOn' \in BOOLEAN /\ online' \in BOOLEAN
  BY DEF Publish, Switch, Network, TypeOK
<1>3. published' \in 0..MaxPublished
  BY OtaAssumption DEF Publish, Switch, Network, TypeOK
<1>4. TypeOK'
  BY <1>1, <1>2, <1>3 DEF TypeOK
<1> QED
  BY <1>1, <1>4 DEF PointerInv, VerdictInv, CrashInv, OnlyPublishedRuns, Working

(* What the steps of the task that restart nothing have in common. *)
LEMMA TaskStep ==
  ASSUME IInv, Working, UNCHANGED <<running, hasty>>, WorldUnchanged,
         slot' \in [{0, 1} -> Slots],
         slot'[running].kind = slot[running].kind,
         slot'[running].state # "blank",
         boot' \in {0, 1}, job' \in Releases, unmarked' \in BOOLEAN,
         pc' \in {"confirm", "idle", "download", "receive", "finish"} \cup Flipped,
         boot' # running => pc' \in Flipped,
         PointerInv', VerdictInv'
  PROVE  IInv'
<1>1. TypeOK'
  BY DEF IInv, TypeOK, WorldUnchanged, Flipped
<1>2. Working' /\ OnlyPublishedRuns'
  BY DEF IInv, Working, OnlyPublishedRuns
<1> QED
  BY <1>1, <1>2 DEF IInv, CrashInv

LEMMA ConfirmStep == ASSUME IInv, Confirm PROVE IInv'
<1> USE DEF IInv
<1>1. slot \in [{0, 1} -> Slots] /\ running \in {0, 1} /\ slot[running].state # "blank"
  BY DEF TypeOK
<1>2. pc' = "idle" /\ job' = job /\ boot' = boot /\ boot = running /\ Working
  BY DEF Confirm, At, Goto, TypeOK
<1>3. \/ slot' = slot /\ unmarked' = TRUE
      \/ /\ slot' = [slot EXCEPT ![running].state =
                       IF slot[running].state = "pending" THEN "valid" ELSE slot[running].state]
         /\ unmarked' = unmarked
  BY <1>1 DEF Confirm
<1>4. /\ slot' \in [{0, 1} -> Slots] /\ slot'[running].state # "blank"
      /\ slot'[running].kind = slot[running].kind
  <2>1. (IF slot[running].state = "pending" THEN "valid" ELSE slot[running].state)
          \in {"new", "pending", "valid", "aborted"}
    BY <1>1 DEF Slots
  <2> QED
    BY <1>1, <1>3, <2>1, StateWritten
<1>5. unmarked' \in BOOLEAN
  BY <1>3 DEF TypeOK
<1>6. PointerInv' /\ VerdictInv'
  BY <1>2 DEF PointerInv, VerdictInv, Flipped
<1> QED
  BY <1>2, <1>4, <1>5, <1>6, TaskStep DEF Confirm, TypeOK

LEMMA CheckStep == ASSUME IInv, CheckForUpdate PROVE IInv'
<1>1. pc' = "download" /\ job' = release /\ Working /\ boot = running
  BY DEF CheckForUpdate, At, IInv, TypeOK
<1>2. PointerInv' /\ VerdictInv'
  BY <1>1 DEF PointerInv, VerdictInv, Flipped
<1> QED
  BY <1>1, <1>2, TaskStep DEF CheckForUpdate, IInv, TypeOK

LEMMA BeginStep == ASSUME IInv, Begin PROVE IInv'
<1> USE DEF IInv
<1>1. slot \in [{0, 1} -> Slots] /\ running \in {0, 1} /\ slot[running].state # "blank"
  BY DEF TypeOK
<1>2. Other(running) \in {0, 1} /\ Other(running) # running
  BY <1>1 DEF Other
<1>3. Working /\ boot' = boot /\ boot = running /\ pc' \in {"receive", "idle"}
      /\ job' \in Releases /\ unmarked' = unmarked
  BY NoJobType DEF Begin, At, Goto, Return, TypeOK
<1>4. slot' \in [{0, 1} -> Slots] /\ slot'[running] = slot[running]
  BY <1>1, <1>2, StateWritten DEF Begin
<1>5. PointerInv' /\ VerdictInv'
  BY <1>3 DEF PointerInv, VerdictInv, Flipped
<1> QED
  BY <1>1, <1>3, <1>4, <1>5, TaskStep DEF Begin, TypeOK

LEMMA ReceiveStep == ASSUME IInv, Receive PROVE IInv'
<1>1. Working /\ pc' = "finish" /\ job' = job /\ boot = running
  BY DEF Receive, At, Goto, IInv, TypeOK
<1>2. PointerInv' /\ VerdictInv'
  BY <1>1 DEF PointerInv, VerdictInv, Flipped
<1> QED
  BY <1>1, <1>2, TaskStep DEF Receive, IInv, TypeOK

LEMMA GiveUpStep == ASSUME IInv, GiveUp PROVE IInv'
<1>1. Working /\ pc' = "idle" /\ job' \in Releases /\ boot = running
  BY NoJobType DEF GiveUp, At, Return, IInv, TypeOK
<1>2. PointerInv' /\ VerdictInv'
  BY <1>1 DEF PointerInv, VerdictInv, Flipped
<1> QED
  BY <1>1, <1>2, TaskStep DEF GiveUp, IInv, TypeOK

LEMMA FinishStep == ASSUME IInv, Finish PROVE IInv'
<1> USE DEF IInv
<1>1. slot \in [{0, 1} -> Slots] /\ running \in {0, 1} /\ slot[running].state # "blank"
  BY DEF TypeOK
<1>2. Other(running) \in {0, 1} /\ Other(running) # running
  BY <1>1 DEF Other
<1>3. [ver |-> job.img, kind |-> job.kind, state |-> "new"] \in Slots
  BY DEF TypeOK, Releases, Slots
<1>4. /\ slot' \in [{0, 1} -> Slots] /\ slot'[running] = slot[running]
      /\ slot'[Other(running)] = [ver |-> job.img, kind |-> job.kind, state |-> "new"]
  BY <1>1, <1>2, <1>3, SlotWritten DEF Finish
<1>5. Working /\ boot' = Other(running) /\ pc' = "verify" /\ job' = job
      /\ running' = running
  BY DEF Finish, At, Goto
<1>6. PointerInv' /\ VerdictInv'
  BY <1>4, <1>5 DEF PointerInv, VerdictInv, Other
<1> QED
  BY <1>1, <1>2, <1>4, <1>5, <1>6, TaskStep DEF Finish, TypeOK, Flipped

LEMMA VerifyStep == ASSUME IInv, Verify PROVE IInv'
<1> USE DEF IInv
<1>1. Working /\ pc = "verify" /\ job' = job /\ slot' = slot /\ boot' = boot
      /\ running' = running
  BY DEF Verify, At, Goto
<1>2. pc' = IF HashMatches THEN "staged" ELSE "revert"
  BY DEF Verify, Goto
<1>3. PointerInv'
  BY <1>1, <1>2 DEF PointerInv, Flipped, Other
<1>4. VerdictInv'
  BY <1>1, <1>2 DEF VerdictInv, HashMatches
<1> QED
  BY <1>1, <1>2, <1>3, <1>4, TaskStep DEF Verify, TypeOK, Flipped

LEMMA RevertStep == ASSUME IInv, Revert PROVE IInv'
<1> USE DEF IInv
<1>1. slot \in [{0, 1} -> Slots] /\ running \in {0, 1}
  BY DEF TypeOK
<1>2. Working /\ boot' = running /\ pc' = "idle" /\ job' = NoJob
      /\ slot' = [slot EXCEPT ![running].state = "new"]
  BY DEF Revert, At, Return, PointerBack
<1>3. slot' \in [{0, 1} -> Slots] /\ slot'[running].state = "new"
      /\ slot'[running].kind = slot[running].kind
  BY <1>1, <1>2, StateWritten
<1>4. PointerInv' /\ VerdictInv'
  BY <1>2 DEF PointerInv, VerdictInv, Flipped
<1> QED
  BY <1>1, <1>2, <1>3, <1>4, NoJobType, TaskStep DEF Revert, TypeOK

LEMMA OverdueStep == ASSUME IInv, Overdue PROVE IInv'
<1> USE DEF IInv
<1>1. Working /\ pc = "staged" /\ pc' = "overdue" /\ job' = job /\ slot' = slot
      /\ boot' = boot /\ running' = running
  BY DEF Overdue, At, Goto
<1>2. PointerInv' /\ VerdictInv'
  BY <1>1 DEF PointerInv, VerdictInv, Flipped, Other
<1> QED
  BY <1>1, <1>2, TaskStep DEF Overdue, TypeOK, Flipped

-----------------------------------------------------------------------------
LEMMA Step == IInv /\ [Next]_vars => IInv'
<1> SUFFICES ASSUME IInv, [Next]_vars PROVE IInv'
  OBVIOUS
<1>1. CASE Publish \/ Switch \/ Network
  BY <1>1, WorldStep
<1>2. CASE PowerCut
  <2>1. cuts' \in 0..MaxCuts /\ hasty' = (hasty \/ Hasty)
    BY <1>2, OtaAssumption DEF PowerCut, IInv, TypeOK
  <2>2. hasty' \in BOOLEAN
    BY <2>1 DEF Hasty, IInv, TypeOK
  <2> QED
    BY <1>2, <2>1, <2>2, BootStep DEF PowerCut, Timely
<1>3. CASE Panic
  BY <1>3, BootStep DEF Panic, Timely, Working, IInv, TypeOK
<1>4. CASE Reboot
  <2>1. Boot /\ cuts' = cuts /\ hasty' = hasty /\ pc \in {"staged", "overdue"}
    BY <1>4 DEF Reboot, At
  <2> QED
    BY <2>1, BootStep DEF Timely, IInv, TypeOK
<1>5. CASE Confirm
  BY <1>5, ConfirmStep
<1>6. CASE CheckForUpdate
  BY <1>6, CheckStep
<1>7. CASE Begin
  BY <1>7, BeginStep
<1>8. CASE Receive
  BY <1>8, ReceiveStep
<1>9. CASE GiveUp
  BY <1>9, GiveUpStep
<1>10. CASE Finish
  BY <1>10, FinishStep
<1>11. CASE Verify
  BY <1>11, VerifyStep
<1>12. CASE Revert
  BY <1>12, RevertStep
<1>13. CASE Overdue
  BY <1>13, OverdueStep
<1>14. CASE UNCHANGED vars
  BY <1>14 DEF vars, IInv, TypeOK, PointerInv, VerdictInv, CrashInv, OnlyPublishedRuns,
     Working
<1> QED
  BY <1>1, <1>2, <1>3, <1>4, <1>5, <1>6, <1>7, <1>8, <1>9, <1>10, <1>11, <1>12, <1>13,
     <1>14 DEF Next

LEMMA Invariance == Spec => []IInv
<1>1. Init => IInv
  BY InitInv
<1>2. IInv /\ [Next]_vars => IInv'
  BY Step
<1> QED
  BY <1>1, <1>2, PTL DEF Spec

(* Every value keeps its type, the running slot always holds an image, and   *)
(* the boot pointer leaves it only between flip and verdict or restart.     *)
THEOREM TypeCorrect == Spec => []TypeOK
<1>1. IInv => TypeOK
  BY DEF IInv
<1> QED
  BY <1>1, Invariance, PTL

(* An image whose hash is wrong never runs, for any number of releases,     *)
(* restarts and crashes, unless a power cut came too early (ota.c:245-257). *)
THEOREM PublishedRuns == Spec => []OnlyPublishedRuns
<1>1. IInv => OnlyPublishedRuns
  BY DEF IInv
<1> QED
  BY <1>1, Invariance, PTL

=============================================================================
