--------------------------- MODULE FirmwareProofs ---------------------------
(***************************************************************************)
(* Proofs about Firmware, for all the tasks together or any mixes of them, *)
(* any limits, levels, credentials and times: types, and the safety        *)
(* properties of the cloud session, the thermostat and the settings.       *)
(* Each part has an invariant of its own over its own variables, which the *)
(* steps of the other parts leave alone.                                   *)
(***************************************************************************)
EXTENDS Firmware, SequenceTheorems, TLAPS

-----------------------------------------------------------------------------
(* The limits. *)

(* Each bound on its own: the result is in the range, and is the argument   *)
(* if that was (device_state.c:157-160).                                    *)
LEMMA WithinRange ==
  ASSUME NEW n \in Nat, NEW lo \in Nat, NEW hi \in Nat, lo <= hi
  PROVE  /\ Within(n, lo, hi) \in lo..hi
         /\ n \in lo..hi => Within(n, lo, hi) = n
BY DEF Within

(* The band is made without leaving the ranges (device_state.c:162-170). *)
LEMMA SpreadUsable ==
  ASSUME NEW mn \in MinFloor..MinCeil, NEW mx \in MaxFloor..MaxCeil
  PROVE  Usable(Spread(Pair(mn, mx)))
<1> USE LimitsAssumption
<1>1. CASE mx >= mn + Deadband
  BY <1>1 DEF Usable, Spread, Pair
<1>2. CASE ~(mx >= mn + Deadband) /\ mn + Deadband <= MaxCeil
  BY <1>2 DEF Usable, Spread, Pair
<1>3. CASE ~(mx >= mn + Deadband) /\ ~(mn + Deadband <= MaxCeil)
  BY <1>3 DEF Usable, Spread, Pair
<1> QED  BY <1>1, <1>2, <1>3

(* Whatever bytes a phone, the app or an older firmware left, what the unit *)
(* keeps is a usable pair (device_state.c:154-174).                         *)
THEOREM ClampUsable ==
  ASSUME NEW mn \in Nat, NEW mx \in Nat
  PROVE  Usable(Clamped(Pair(mn, mx)))
<1> USE LimitsAssumption
<1> DEFINE a == Within(mn, MinFloor, MinCeil)
           b == Within(mx, MaxFloor, MaxCeil)
<1>1. a \in MinFloor..MinCeil /\ b \in MaxFloor..MaxCeil
  BY WithinRange
<1>2. Usable(Spread(Pair(a, b)))
  <2> HIDE DEF a, b
  <2> QED  BY <1>1, SpreadUsable
<1>3. Clamped(Pair(mn, mx)) = Spread(Pair(a, b))
  BY DEF Clamped, Pair
<1> QED  BY <1>2, <1>3

(* A usable pair is kept as it is: a clamp on the way to the flash, and one *)
(* on the way back, change nothing more (nvs_store.c:27-29, 109).           *)
THEOREM ClampKeeps ==
  ASSUME NEW mn, NEW mx, Usable(Pair(mn, mx))
  PROVE  Clamped(Pair(mn, mx)) = Pair(mn, mx)
BY LimitsAssumption DEF Clamped, Spread, Within, Usable, Pair

-----------------------------------------------------------------------------
(* The cloud session.                                                      *)

(* One POST at a time, of the refresh token that is held until it is over,  *)
(* and none during a rest.                                                  *)
PostInv ==
  \A c \in Clients : call[c] = "post" =>
    /\ sent = refresh /\ refresh # NoCred
    /\ restedFor = Dormant
    /\ \A d \in Clients : call[d] = "post" => d = c

(* What a failure left behind is about the credentials that are held.       *)
BlameInv ==
  /\ idToken \in {refresh, NoCred}
  /\ retryIn # Never \/ refusals > 0 => blamed = refresh

(* The cooldown lasts for as long as the rest.                              *)
RestInv == restedFor < Dormant => retryIn + restedFor >= Dormant

(* The steps of the cloud session.                                          *)
TokensStep ==
  \/ \E c \in Clients : Client(c)
  \/ FirebaseListens \/ Bind \/ StoreCredentials \/ TokensEnvironment \/ TokensRestart

LEMMA TokensSteps == Next => TokensStep \/ UNCHANGED tokensVars
BY DEF Next, BleWrites, CloudWrites, Sensor, Surroundings, CloudClient, Listens, Provisions,
   CloudSurroundings, Restart, TokensStep

LEMMA Times ==
  /\ TokenLife \in Nat \ {0} /\ Dormant \in Nat \ {0} /\ MaxFails \in Nat \ {0}
  /\ EarlyBy \in Nat /\ MaxStep \in Nat
  /\ Never \in Int /\ Never < 0 /\ MaxWait \in Nat
  /\ Dormant <= MaxWait /\ TokenLife <= MaxWait
BY TokensAssumption DEF Never, MaxWait

(* A step of the clock keeps a time in its range, and a past one past.      *)
LEMMA ShiftedIs ==
  ASSUME NEW left \in Never..MaxWait, NEW by \in Int, by >= -MaxStep
  PROVE  Shifted(left, by) \in Never..MaxWait /\ (left = Never => Shifted(left, by) = Never)
<1>1. CASE left = Never \/ left - by <= Never
  <2>1. ~(left - by > MaxWait)
    BY <1>1, Times DEF Never
  <2>2. Shifted(left, by) = Never
    BY <1>1, <2>1 DEF Shifted
  <2> QED
    BY <2>2, Times
<1>2. CASE ~(left = Never \/ left - by <= Never) /\ left - by > MaxWait
  BY <1>2, Times DEF Shifted
<1>3. CASE ~(left = Never \/ left - by <= Never) /\ ~(left - by > MaxWait)
  BY <1>3, Times DEF Shifted
<1> QED
  BY <1>1, <1>2, <1>3

(* The times of a step of the session stay in their ranges.                 *)
LEMMA TimesStep ==
  ASSUME TokensType, TokensStep
  PROVE  /\ expiresIn' \in Never..MaxWait /\ retryIn' \in Never..MaxWait
         /\ refusals' \in 0..MaxFails /\ restedFor' \in 0..Dormant
         /\ validFor' \in 0..(TokenLife + EarlyBy)
<1> USE Times
<1>1. /\ expiresIn \in Never..MaxWait /\ retryIn \in Never..MaxWait
      /\ refusals \in 0..MaxFails /\ restedFor \in 0..Dormant
      /\ validFor \in 0..(TokenLife + EarlyBy)
  BY DEF TokensType
<1>2. CASE \E c \in Clients : Refreshed(c)
  BY <1>1, <1>2 DEF Refreshed
<1>3. CASE \E c \in Clients : Rejected(c)
  BY <1>1, <1>3 DEF Rejected, RestAfterRejection, held, server
<1>4. CASE \E c \in Clients : Failed(c)
  <2>1. refusals' \in 1..MaxFails
    BY <1>1, <1>4 DEF Failed
  <2>2. 2 ^ (refusals' - 1) \in 1..Dormant
    BY <2>1, TokensAssumption
  <2>3. retryIn' \in Never..MaxWait
    BY <1>4, <2>2 DEF Failed
  <2> QED
    BY <1>1, <1>4, <2>1, <2>3 DEF Failed, held, server
<1>5. CASE StoreCredentials
  BY <1>1, <1>5 DEF StoreCredentials
<1>6. CASE ClockStep
  <2>1. \A by \in {-MaxStep, MaxWait - Never} : by \in Int /\ by >= -MaxStep
    OBVIOUS
  <2>2. expiresIn' \in Never..MaxWait /\ retryIn' \in Never..MaxWait
    BY <1>1, <1>6, <2>1, ShiftedIs DEF ClockStep
  <2> QED
    BY <1>1, <1>6, <2>2 DEF ClockStep, server
<1>7. CASE TimePasses
  <2>1. expiresIn' \in Never..MaxWait /\ retryIn' \in Never..MaxWait
    BY <1>1, <1>7 DEF TimePasses, Less
  <2>2. validFor' \in 0..(TokenLife + EarlyBy)
    BY <1>1, <1>7 DEF TimePasses, Less
  <2>3. restedFor' \in 0..Dormant /\ refusals' = refusals
    BY <1>1, <1>7 DEF TimePasses
  <2> QED
    BY <1>1, <2>1, <2>2, <2>3
<1>8. CASE StreamDenied \/ AuthRevoked
  BY <1>1, <1>8 DEF StreamDenied, AuthRevoked, Invalidate, server
<1>9. CASE \/ \E c \in Clients : TakeToken(c) \/ Post(c)
           \/ StreamOpens \/ StreamUnreachable \/ ManifestFetched \/ StreamEnds \/ Bind
           \/ NetFlips \/ Revoke \/ Settle
  BY <1>1, <1>9 DEF TakeToken, Post, StreamOpens, StreamUnreachable, ManifestFetched,
     StreamEnds, Bind, NetFlips, Revoke, Settle, held, cooldown, server
<1>10. CASE DropToken
  BY <1>1, <1>10 DEF DropToken, held, cooldown
<1>11. CASE TokensRestart
  BY <1>1, <1>11 DEF TokensRestart, server
<1> QED
  BY <1>2, <1>3, <1>4, <1>5, <1>6, <1>7, <1>8, <1>9, <1>10, <1>11
     DEF TokensStep, Client, FirebaseListens, TokensEnvironment

LEMMA TokensTypeStep ==
  ASSUME TokensType, PostInv, TokensStep
  PROVE  TokensType'
<1> USE DEF TokensType, secrets, held, cooldown, server
<1>0. /\ expiresIn' \in Never..MaxWait /\ retryIn' \in Never..MaxWait
      /\ refusals' \in 0..MaxFails /\ restedFor' \in 0..Dormant
      /\ validFor' \in 0..(TokenLife + EarlyBy)
  BY TimesStep
<1>1. CASE \E c \in Clients : Refreshed(c)
  BY <1>0, <1>1 DEF Refreshed, Goto, PostInv, Clients
<1>2. CASE \E c \in Clients : TakeToken(c) \/ Post(c) \/ Rejected(c) \/ Failed(c)
  <2>1. PICK c \in Clients : TakeToken(c) \/ Post(c) \/ Rejected(c) \/ Failed(c)
    BY <1>2
  <2>2. call' = [call EXCEPT ![c] = "use"] \/ call' = [call EXCEPT ![c] = "post"]
        \/ call' = [call EXCEPT ![c] = "idle"]
    BY <2>1 DEF TakeToken, Post, Rejected, Failed, Goto
  <2>3. call' \in [Clients -> {"idle", "post", "use", "stream"}] /\ call'["ota"] # "stream"
    BY <2>2 DEF Clients
  <2>4. UNCHANGED <<secrets, idToken, expiresIn, server, binding>>
    BY <2>1 DEF TakeToken, Post, Rejected, Failed
  <2>5. sent' \in Creds \cup {NoCred} /\ blamed' \in Creds \cup {NoCred}
    BY <2>1 DEF TakeToken, Post, Rejected, Failed
  <2> QED
    BY <1>0, <2>3, <2>4, <2>5
<1>3. CASE StreamOpens \/ StreamUnreachable \/ ManifestFetched \/ StreamEnds
  BY <1>0, <1>3 DEF StreamOpens, StreamUnreachable, ManifestFetched, StreamEnds, Goto, Clients
<1>4. CASE StreamDenied \/ AuthRevoked
  BY <1>0, <1>4 DEF StreamDenied, AuthRevoked, Invalidate, Goto, Clients
<1>5. CASE Bind
  BY <1>0, <1>5 DEF Bind, Users
<1>6. CASE StoreCredentials
  BY <1>0, <1>6 DEF StoreCredentials
<1>7. CASE NetFlips \/ Revoke \/ DropToken \/ Settle
  BY <1>0, <1>7 DEF NetFlips, Revoke, DropToken, Settle
<1>8. CASE ClockStep \/ TimePasses
  <2>1. idToken = NoCred => expiresIn' = Never
    BY <1>8, ShiftedIs, Times DEF ClockStep, TimePasses, Less
  <2> QED
    BY <1>0, <1>8, <2>1 DEF ClockStep, TimePasses
<1>9. CASE TokensRestart
  BY <1>0, <1>9 DEF TokensRestart, LoadedUid, Clients
<1> QED
  BY <1>1, <1>2, <1>3, <1>4, <1>5, <1>6, <1>7, <1>8, <1>9
     DEF TokensStep, Client, FirebaseListens, TokensEnvironment

LEMMA PostStep ==
  ASSUME TokensType, PostInv, RestInv, TokensStep
  PROVE  PostInv'
<1> USE DEF TokensType, PostInv, secrets, held, cooldown, server, Goto, Clients
<1>1. CASE \E c \in Clients : Post(c)
  BY <1>1, Times DEF Post, Ready, Free, CooldownOver, RestInv
<1>2. CASE \E c \in Clients : Refreshed(c) \/ Rejected(c) \/ Failed(c)
  BY <1>2 DEF Refreshed, Rejected, Failed
<1>3. CASE \/ \E c \in Clients : TakeToken(c)
           \/ StreamOpens \/ StreamUnreachable \/ ManifestFetched \/ StreamEnds
           \/ StreamDenied \/ AuthRevoked
  BY <1>3 DEF TakeToken, StreamOpens, StreamUnreachable, ManifestFetched, StreamEnds,
     StreamDenied, AuthRevoked, Invalidate
<1>4. CASE Bind \/ StoreCredentials
  BY <1>4 DEF Bind, StoreCredentials, Free, MutexForCredentials
<1>5. CASE TokensEnvironment
  BY <1>5 DEF TokensEnvironment, NetFlips, Revoke, DropToken, Settle, ClockStep, TimePasses
<1>6. CASE TokensRestart
  BY <1>6 DEF TokensRestart
<1> QED
  BY <1>1, <1>2, <1>3, <1>4, <1>5, <1>6 DEF TokensStep, Client, FirebaseListens

LEMMA BlameStep ==
  ASSUME TokensType, PostInv, BlameInv, TokensStep
  PROVE  BlameInv'
<1> USE DEF TokensType, PostInv, BlameInv, secrets, held, cooldown, server
<1>1. CASE \E c \in Clients : Refreshed(c) \/ Rejected(c) \/ Failed(c)
  BY <1>1 DEF Refreshed, Rejected, Failed
<1>2. CASE \/ \E c \in Clients : TakeToken(c) \/ Post(c)
           \/ StreamOpens \/ StreamUnreachable \/ ManifestFetched \/ StreamEnds
           \/ StreamDenied \/ AuthRevoked
  BY <1>2 DEF TakeToken, Post, StreamOpens, StreamUnreachable, ManifestFetched, StreamEnds,
     StreamDenied, AuthRevoked, Invalidate
<1>3. CASE Bind \/ StoreCredentials \/ TokensRestart
  BY <1>3 DEF Bind, StoreCredentials, TokensRestart
<1>4. CASE NetFlips \/ Revoke \/ DropToken \/ Settle
  BY <1>4 DEF NetFlips, Revoke, DropToken, Settle
<1>5. CASE ClockStep
  BY <1>5, ShiftedIs, Times DEF ClockStep
<1>6. CASE TimePasses
  BY <1>6 DEF TimePasses, Less
<1> QED
  BY <1>1, <1>2, <1>3, <1>4, <1>5, <1>6
     DEF TokensStep, Client, FirebaseListens, TokensEnvironment

LEMMA RestStep ==
  ASSUME TokensType, PostInv, RestInv, TokensStep
  PROVE  RestInv'
<1> USE Times DEF TokensType, RestInv, secrets, held, cooldown, server
<1>1. CASE \E c \in Clients : Rejected(c)
  BY <1>1 DEF Rejected, RestAfterRejection
<1>2. CASE \E c \in Clients : Refreshed(c) \/ Failed(c)
  BY <1>2 DEF Refreshed, Failed, PostInv
<1>3. CASE \/ \E c \in Clients : TakeToken(c) \/ Post(c)
           \/ StreamOpens \/ StreamUnreachable \/ ManifestFetched \/ StreamEnds
           \/ StreamDenied \/ AuthRevoked
  BY <1>3 DEF TakeToken, Post, StreamOpens, StreamUnreachable, ManifestFetched, StreamEnds,
     StreamDenied, AuthRevoked, Invalidate
<1>4. CASE Bind \/ StoreCredentials \/ TokensRestart \/ ClockStep
  BY <1>4 DEF Bind, StoreCredentials, TokensRestart, ClockStep
<1>5. CASE NetFlips \/ Revoke \/ DropToken \/ Settle
  BY <1>5 DEF NetFlips, Revoke, DropToken, Settle
<1>6. CASE TimePasses
  BY <1>6 DEF TimePasses, Less
<1> QED
  BY <1>1, <1>2, <1>3, <1>4, <1>5, <1>6
     DEF TokensStep, Client, FirebaseListens, TokensEnvironment

-----------------------------------------------------------------------------
(* The settings: values of groups.                                         *)

GroupValues(g) == [FieldsOf[g] -> Nat]

(* What a request asks of a group: values for some of its fields.           *)
Wishes == UNION {[F -> Nat] : F \in UNION {SUBSET FieldsOf[g] : g \in Groups}}

LEMMA GroupsAre ==
  /\ Groups = {"limits", "ar", "timers", "maxon", "fallback"}
  /\ FieldsOf["limits"] = {"min", "max"} /\ FieldsOf["ar"] = {"ar"}
  /\ FieldsOf["timers"] = {"presets", "custom"} /\ FieldsOf["maxon"] = {"maxon"}
  /\ FieldsOf["fallback"] = {"fallback"}
BY DEF Groups, FieldsOf

LEMMA FieldsAre == Fields = {"min", "max", "ar", "presets", "custom", "maxon", "fallback"}
<1>1. \A f : f \in Fields <=> \E g \in Groups : f \in FieldsOf[g]
  BY DEF Fields
<1> QED
  BY <1>1, GroupsAre

(* A field is of one group only. *)
LEMMA GroupsApart ==
  ASSUME NEW g \in Groups, NEW h \in Groups
  PROVE  /\ FieldsOf[g] \subseteq Fields
         /\ g # h => FieldsOf[g] \cap FieldsOf[h] = {} /\ FieldsOf[g] # FieldsOf[h]
BY GroupsAre, FieldsAre

(* What is put into RAM is of the group that was asked for, and settled: a   *)
(* usable pair of limits, a run limit below its ceiling.                    *)
LEMMA NormalIs ==
  /\ \A v \in GroupValues("limits") : Normal(v) = Clamped(v)
  /\ \A v \in GroupValues("maxon") : Normal(v) = [maxon |-> Within(v.maxon, 0, MaxOnCeil)]
  /\ \A g \in {"ar", "timers", "fallback"} : \A v \in GroupValues(g) : Normal(v) = v
BY GroupsAre DEF GroupValues, Normal, FieldsOf

LEMMA ClampedIs ==
  ASSUME NEW v \in GroupValues("limits")
  PROVE  /\ Clamped(v) \in GroupValues("limits")
         /\ Usable(Clamped(v)) /\ Clamped(v) = Pair(Clamped(v).min, Clamped(v).max)
         /\ Clamped(v) = Clamped(Pair(v.min, v.max))
<1> USE LimitsAssumption
<1>1. v.min \in Nat /\ v.max \in Nat
  BY GroupsAre DEF GroupValues
<1>2. Clamped(v) = Clamped(Pair(v.min, v.max))
  BY DEF Clamped, Pair
<1>3. Usable(Clamped(v))
  BY <1>1, <1>2, ClampUsable
<1>4. \E a, b : Clamped(v) = Pair(a, b)
  BY DEF Clamped, Spread, Pair
<1>5. PICK a, b : Clamped(v) = Pair(a, b)
  BY <1>4
<1>6. a \in Nat /\ b \in Nat
  BY <1>3, <1>5 DEF Usable, Pair
<1>7. Clamped(v) \in [{"min", "max"} -> Nat]
  BY <1>5, <1>6 DEF Pair
<1> QED
  BY <1>2, <1>3, <1>5, <1>7, GroupsAre DEF GroupValues, Pair

LEMMA NormalType ==
  ASSUME NEW g \in Groups, NEW v \in GroupValues(g)
  PROVE  Normal(v) \in GroupValues(g)
<1>1. CASE g = "limits"
  BY <1>1, NormalIs, ClampedIs
<1>2. CASE g = "maxon"
  <2>1. v.maxon \in Nat
    BY <1>2, GroupsAre DEF GroupValues
  <2>2. Within(v.maxon, 0, MaxOnCeil) \in Nat
    BY <2>1, SettingsAssumption DEF Within
  <2> QED
    BY <1>2, <2>2, NormalIs, GroupsAre DEF GroupValues
<1>3. CASE g \in {"ar", "timers", "fallback"}
  BY <1>3, NormalIs
<1> QED
  BY <1>1, <1>2, <1>3, GroupsAre

(* A record of settings with some fields replaced. *)
LEMMA OverIs ==
  ASSUME NEW g \in Groups, NEW F \in SUBSET FieldsOf[g], NEW v \in [F -> Nat],
         NEW s \in [Fields -> Nat]
  PROVE  /\ Over(v, s) \in [Fields -> Nat]
         /\ \A f \in F : Over(v, s)[f] = v[f]
         /\ \A f \in Fields \ F : Over(v, s)[f] = s[f]
BY GroupsApart DEF Over

LEMMA OverGroup ==
  ASSUME NEW g \in Groups, NEW v \in GroupValues(g), NEW s \in [Fields -> Nat]
  PROVE  /\ Over(v, s) \in [Fields -> Nat]
         /\ \A f \in FieldsOf[g] : Over(v, s)[f] = v[f]
         /\ \A f \in Fields \ FieldsOf[g] : Over(v, s)[f] = s[f]
<1>1. FieldsOf[g] \in SUBSET FieldsOf[g]
  OBVIOUS
<1> QED
  BY <1>1, OverIs DEF GroupValues

LEMMA RestrictedIs ==
  ASSUME NEW g \in Groups, NEW s \in [Fields -> Nat]
  PROVE  /\ Restricted(s, FieldsOf[g]) \in GroupValues(g)
         /\ \A f \in FieldsOf[g] : Restricted(s, FieldsOf[g])[f] = s[f]
BY GroupsApart DEF Restricted, GroupValues

(* Loading takes each group by itself through the clamp of RAM. *)
LEMMA LoadedIs ==
  ASSUME NEW s \in [Fields -> Nat]
  PROVE  /\ Loaded(s) \in [Fields -> Nat]
         /\ \A g \in Groups : \A f \in FieldsOf[g] :
              Loaded(s)[f] = Normal(Restricted(s, FieldsOf[g]))[f]
<1> DEFINE l == Normal(Restricted(s, FieldsOf["limits"]))
           m == Normal(Restricted(s, FieldsOf["maxon"]))
           t == Over(l, s)
<1>1. l \in GroupValues("limits") /\ m \in GroupValues("maxon")
  BY NormalType, RestrictedIs, GroupsAre
<1>2. /\ t \in [Fields -> Nat] /\ \A f \in FieldsOf["limits"] : t[f] = l[f]
      /\ \A f \in Fields \ FieldsOf["limits"] : t[f] = s[f]
  <2>1. "limits" \in Groups
    BY GroupsAre
  <2> HIDE DEF l
  <2> QED  BY <1>1, <2>1, OverGroup
<1>3. /\ Over(m, t) \in [Fields -> Nat] /\ \A f \in FieldsOf["maxon"] : Over(m, t)[f] = m[f]
      /\ \A f \in Fields \ FieldsOf["maxon"] : Over(m, t)[f] = t[f]
  <2>1. "maxon" \in Groups
    BY GroupsAre
  <2> HIDE DEF m, t
  <2> QED  BY <1>1, <1>2, <2>1, OverGroup
<1>4. Loaded(s) = Over(m, t)
  BY DEF Loaded, FieldsOf
<1>5. ASSUME NEW g \in Groups, NEW f \in FieldsOf[g]
      PROVE  Loaded(s)[f] = Normal(Restricted(s, FieldsOf[g]))[f]
  <2>1. CASE g = "limits"
    BY <1>2, <1>3, <1>4, <2>1, GroupsApart, GroupsAre
  <2>2. CASE g = "maxon"
    BY <1>3, <1>4, <2>2
  <2>3. CASE g \in {"ar", "timers", "fallback"}
    <3>1. Loaded(s)[f] = s[f]
      BY <1>2, <1>3, <1>4, <2>3, GroupsApart, GroupsAre
    <3> QED
      BY <2>3, <3>1, NormalIs, RestrictedIs
  <2> QED
    BY <2>1, <2>2, <2>3, GroupsAre
<1> QED
  BY <1>3, <1>4, <1>5

-----------------------------------------------------------------------------
(* The settings: what a request is made of. *)

LEMMA PatchesAre ==
  ASSUME NEW F
  PROVE  Patches(F) \subseteq Wishes
<1> SUFFICES ASSUME NEW p \in Patches(F) PROVE p \in Wishes
  OBVIOUS
<1>1. PICK g \in Groups : F \subseteq FieldsOf[g]
  BY DEF Patches
<1>2. p \in [F -> UNION {Offered(f) : f \in F}] /\ \A f \in F : p[f] \in Offered(f)
  BY DEF Patches
<1>3. \A f \in F : Offered(f) \subseteq Nat
  BY SettingsAssumption DEF Offered
<1>4. p \in [F -> Nat]
  BY <1>2, <1>3
<1> QED
  BY <1>1, <1>4 DEF Wishes

LEMMA OneIs ==
  ASSUME NEW F
  PROVE  One(F) \subseteq Seq(Wishes) /\ Optional(F) \subseteq Seq(Wishes)
<1>1. \A p \in Patches(F) : <<p>> \in Seq(Wishes)
  BY PatchesAre
<1>2. <<>> \in Seq(Wishes)
  OBVIOUS
<1> QED
  BY <1>1, <1>2 DEF One, Optional

LEMMA ThenIs ==
  ASSUME NEW S, NEW T, S \subseteq Seq(Wishes), T \subseteq Seq(Wishes)
  PROVE  Then(S, T) \subseteq Seq(Wishes)
<1> SUFFICES ASSUME NEW r \in Then(S, T) PROVE r \in Seq(Wishes)
  OBVIOUS
<1>1. PICK s \in S, t \in T : r = s \o t
  BY DEF Then
<1> QED
  BY <1>1, ConcatProperties

LEMMA RequestsAre ==
  ASSUME NEW w \in Writers
  PROVE  \A r \in Requests(w) : r \in Seq(Wishes) /\ r # <<>>
<1>1. BleRequests \subseteq Seq(Wishes)
  <2>1. Then(One({"min", "max"}), Optional({"ar"})) \subseteq Seq(Wishes)
    BY OneIs, ThenIs
  <2> QED
    BY <2>1, OneIs DEF BleRequests
<1>2. PartialRequests \subseteq Seq(Wishes)
  BY OneIs DEF PartialRequests
<1>3. FullRequests \subseteq Seq(Wishes)
  <2> DEFINE L == Optional({"min"}) \cup Optional({"max"}) \cup Optional({"min", "max"})
  <2>1. L \subseteq Seq(Wishes)
    BY OneIs
  <2>2. Then(L, Optional({"ar"})) \subseteq Seq(Wishes)
    BY <2>1, OneIs, ThenIs
  <2>3. Then(Optional({"presets", "custom"}), Optional({"maxon"})) \subseteq Seq(Wishes)
    BY OneIs, ThenIs
  <2> QED
    BY <2>2, <2>3, ThenIs DEF FullRequests
<1> QED
  BY <1>1, <1>2, <1>3 DEF Requests

-----------------------------------------------------------------------------
(* The settings: the writers. *)

AtWork == {"set", "store", "store2"}

(* Where a writer is, and what it holds there.                              *)
WriterInv ==
  /\ writer \in [Writers -> [pc : {"idle", "next"} \cup AtWork,
                             val : {<<>>} \cup UNION {GroupValues(g) : g \in Groups},
                             todo : Seq(Wishes)]]
  /\ \A w \in Writers :
       /\ writer[w].pc \in AtWork => \E g \in Groups : writer[w].val \in GroupValues(g)
       /\ writer[w].pc \notin AtWork => writer[w].val = <<>>
       /\ writer[w].pc = "next" => writer[w].todo # <<>>
       /\ writer[w].pc = "store2" => Writing(w, "limits") \/ Writing(w, "maxon")

(* What the only writer of a group has done so far, and what is left when    *)
(* nobody writes it.                                                        *)
KeptAt(g) ==
  /\ \A u, w \in Writers : Writing(u, g) /\ Writing(w, g) => u = w
  /\ \A w \in Writers : Writing(w, g) =>
       /\ \A f \in FieldsOf[g] : asked[f] = Normal(writer[w].val)[f]
       /\ writer[w].pc \in {"store", "store2"} => \A f \in FieldsOf[g] : live[f] = asked[f]
       /\ writer[w].pc = "store2" /\ g = "limits" => flash.min = asked.min
  /\ (\A w \in Writers : ~Writing(w, g)) =>
       \A f \in FieldsOf[g] : live[f] = asked[f] /\ Loaded(flash)[f] = live[f]

KeptInv == \A g \in Groups : ~overlapped[g] => KeptAt(g)

SettingsStep ==
  \/ \E w \in Writers : Begin(w) \/ Proceed(w)
  \/ SettingsRestart

LEMMA SettingsSteps == Next => SettingsStep \/ UNCHANGED settingsVars
BY DEF Next, BleWrites, CloudWrites, Sensor, Surroundings, CloudClient, Listens, Provisions,
   CloudSurroundings, Restart, SettingsStep, WritesSettings, Writers, SensorCycle,
   ReadTemperature, ReadFails, Judge, SwitchOff, SwitchOn, OthersSwitch, Leak, ProbeChanges,
   ThermostatRestart

(* A writer at work is so on one group. *)
LEMMA WritingIs ==
  ASSUME WriterInv, NEW w \in Writers, NEW g \in Groups, Writing(w, g)
  PROVE  /\ writer[w].pc \in AtWork /\ writer[w].val \in GroupValues(g)
         /\ \A h \in Groups : Writing(w, h) => h = g
<1>1. writer[w].pc \in AtWork /\ DOMAIN writer[w].val = FieldsOf[g]
  BY DEF WriterInv, Writing
<1>2. PICK h \in Groups : writer[w].val \in GroupValues(h)
  BY <1>1 DEF WriterInv
<1>3. h = g
  BY <1>1, <1>2, GroupsApart DEF GroupValues
<1> QED
  BY <1>1, <1>2, <1>3, GroupsApart DEF Writing

LEMMA AtWorkIs ==
  ASSUME WriterInv, NEW w \in Writers, writer[w].pc \in AtWork
  PROVE  \E g \in Groups : Writing(w, g)
BY DEF WriterInv, Writing, AtWork, GroupValues

LEMMA GroupNotEmpty ==
  ASSUME NEW g \in Groups, NEW v \in GroupValues(g)
  PROVE  v # <<>>
<1>1. DOMAIN v = FieldsOf[g] /\ FieldsOf[g] # {}
  BY GroupsAre DEF GroupValues
<1> QED
  BY <1>1

(* The reading of a handler: the group gets a whole value. *)
LEMMA FetchIs ==
  ASSUME SettingsType, WriterInv, NEW w \in Writers, NEW r \in Seq(Wishes), r # <<>>,
         Fetch(w, r)
  PROVE  \E g \in Groups : \E v \in GroupValues(g) :
           /\ writer' = [writer EXCEPT ![w] = [pc |-> "set", val |-> v, todo |-> Tail(r)]]
           /\ Tail(r) \in Seq(Wishes)
           /\ asked' = Over(Normal(v), asked)
           /\ overlapped' = [overlapped EXCEPT ![g] = \E u \in Writers \ {w} : Writing(u, g)]
           /\ UNCHANGED <<live, flash>>
<1> DEFINE p == Head(r)
           g == CHOOSE h \in Groups : DOMAIN p \subseteq FieldsOf[h]
           v == Over(p, Restricted(live, FieldsOf[g]))
<1>1. p \in Wishes /\ Tail(r) \in Seq(Wishes)
  OBVIOUS
<1>2. PICK h \in Groups : DOMAIN p \subseteq FieldsOf[h] /\ p \in [DOMAIN p -> Nat]
  <2> HIDE DEF p
  <2> QED  BY <1>1 DEF Wishes
<1>3. g \in Groups /\ DOMAIN p \subseteq FieldsOf[g]
  BY <1>2
<1>4. v \in GroupValues(g)
  <2> HIDE DEF p, g
  <2>1. Restricted(live, FieldsOf[g]) \in GroupValues(g)
    BY <1>3, RestrictedIs DEF SettingsType
  <2> QED  BY <1>2, <2>1 DEF Over, GroupValues
<1>5. writer' = [writer EXCEPT ![w] = [pc |-> "set", val |-> v, todo |-> Tail(r)]]
  BY DEF Fetch, Patched
<1>6. asked' = Over(Normal(v), asked)
  BY DEF Fetch
<1>7. overlapped' = [overlapped EXCEPT ![g] = \E u \in Writers \ {w} : Writing(u, g)]
  BY DEF Fetch
<1>8. UNCHANGED <<live, flash>>
  BY DEF Fetch
<1> HIDE DEF v, g
<1> QED
  BY <1>1, <1>3, <1>4, <1>5, <1>6, <1>7, <1>8

(* Both ways to begin a write are a fetch. *)
LEMMA Fetches ==
  ASSUME SettingsType, WriterInv, NEW w \in Writers, Begin(w) \/ NextWrite(w)
  PROVE  writer[w].pc \notin AtWork /\ \E r \in Seq(Wishes) : r # <<>> /\ Fetch(w, r)
<1>1. CASE Begin(w)
  BY <1>1, RequestsAre DEF Begin, AtWork
<1>2. CASE NextWrite(w)
  BY <1>2 DEF NextWrite, AtWork, WriterInv
<1> QED
  BY <1>1, <1>2

(* What one writer must be left with. *)
LEMMA WriterMoves ==
  ASSUME WriterInv, NEW w \in Writers, NEW to,
         to \in [pc : {"idle", "next"} \cup AtWork,
                 val : {<<>>} \cup UNION {GroupValues(g) : g \in Groups}, todo : Seq(Wishes)],
         writer' = [writer EXCEPT ![w] = to],
         to.pc \in AtWork => \E g \in Groups : to.val \in GroupValues(g),
         to.pc \notin AtWork => to.val = <<>>,
         to.pc = "next" => to.todo # <<>>,
         to.pc = "store2" => DOMAIN to.val \in {FieldsOf["limits"], FieldsOf["maxon"]}
  PROVE  WriterInv'
<1>1. writer'[w] = to /\ \A u \in Writers \ {w} : writer'[u] = writer[u]
  BY DEF WriterInv
<1>2. writer' \in [Writers -> [pc : {"idle", "next"} \cup AtWork,
                               val : {<<>>} \cup UNION {GroupValues(g) : g \in Groups},
                               todo : Seq(Wishes)]]
  BY DEF WriterInv
<1>3. ASSUME NEW u \in Writers
      PROVE  /\ writer'[u].pc \in AtWork => \E g \in Groups : writer'[u].val \in GroupValues(g)
             /\ writer'[u].pc \notin AtWork => writer'[u].val = <<>>
             /\ writer'[u].pc = "next" => writer'[u].todo # <<>>
             /\ writer'[u].pc = "store2" => Writing(u, "limits")' \/ Writing(u, "maxon")'
  <2>1. CASE u = w
    BY <1>1, <2>1, GroupsAre DEF Writing
  <2>2. CASE u # w
    BY <1>1, <2>2 DEF WriterInv, Writing
  <2> QED
    BY <2>1, <2>2
<1> QED
  BY <1>2, <1>3 DEF WriterInv

LEMMA WriterStep ==
  ASSUME SettingsType, WriterInv, SettingsStep
  PROVE  WriterInv'
<1>1. ASSUME NEW w \in Writers, Begin(w) \/ NextWrite(w)
      PROVE  WriterInv'
  <2>1. PICK r \in Seq(Wishes) : r # <<>> /\ Fetch(w, r)
    BY <1>1, Fetches
  <2>2. PICK g \in Groups : \E v \in GroupValues(g) :
          /\ writer' = [writer EXCEPT ![w] = [pc |-> "set", val |-> v, todo |-> Tail(r)]]
          /\ Tail(r) \in Seq(Wishes)
    BY <2>1, FetchIs
  <2>3. PICK v \in GroupValues(g) :
          /\ writer' = [writer EXCEPT ![w] = [pc |-> "set", val |-> v, todo |-> Tail(r)]]
          /\ Tail(r) \in Seq(Wishes)
    BY <2>2
  <2> QED
    BY <2>3, WriterMoves DEF AtWork
<1>2. ASSUME NEW w \in Writers, SetLive(w)
      PROVE  WriterInv'
  <2>1. /\ writer[w].pc = "set"
        /\ writer' = [writer EXCEPT ![w] = [writer[w] EXCEPT !.pc = "store"]]
    BY <1>2 DEF SetLive, WriterInv
  <2> QED
    BY <2>1, WriterMoves DEF WriterInv, AtWork
<1>3. ASSUME NEW w \in Writers, RereadMaxOn(w)
      PROVE  WriterInv'
  <2> DEFINE v == Restricted(live, FieldsOf.maxon)
  <2>1. v \in GroupValues("maxon")
    BY RestrictedIs, GroupsAre DEF SettingsType
  <2>2. writer' = [writer EXCEPT ![w] = [writer[w] EXCEPT !.pc = "store2", !.val = v]]
    BY <1>3 DEF RereadMaxOn, WriterInv
  <2>3. "maxon" \in Groups /\ DOMAIN v = FieldsOf["maxon"]
    BY <2>1, GroupsAre DEF GroupValues
  <2> HIDE DEF v
  <2> QED
    BY <2>1, <2>2, <2>3, WriterMoves DEF WriterInv, AtWork
<1>4. ASSUME NEW w \in Writers, StoreMin(w)
      PROVE  WriterInv'
  <2>1. /\ writer[w].pc = "store" /\ DOMAIN writer[w].val = FieldsOf["limits"]
        /\ writer' = [writer EXCEPT ![w] = [writer[w] EXCEPT !.pc = "store2"]]
    BY <1>4 DEF StoreMin, WriterInv, Writing
  <2> QED
    BY <2>1, WriterMoves DEF WriterInv, AtWork
<1>5. ASSUME NEW w \in Writers, Store(w)
      PROVE  WriterInv'
  <2> DEFINE to == [Idle EXCEPT !.pc = IF writer[w].todo = <<>> THEN "idle" ELSE "next",
                                !.todo = writer[w].todo]
  <2>1. writer' = [writer EXCEPT ![w] = to]
    BY <1>5 DEF Store, Done
  <2>2. writer[w].todo \in Seq(Wishes)
    BY DEF WriterInv
  <2>3. /\ to \in [pc : {to.pc}, val : {<<>>}, todo : {writer[w].todo}]
        /\ to.pc = IF writer[w].todo = <<>> THEN "idle" ELSE "next"
    BY DEF Idle
  <2>4. /\ to.pc \in {"idle", "next"} /\ to.pc \notin AtWork /\ to.pc # "store2"
        /\ to.val = <<>>
        /\ to.pc = "next" => to.todo # <<>>
        /\ to \in [pc : {"idle", "next"} \cup AtWork,
                  val : {<<>>} \cup UNION {GroupValues(g) : g \in Groups}, todo : Seq(Wishes)]
    <3> HIDE DEF to
    <3> QED
      BY <2>2, <2>3 DEF AtWork
  <2> HIDE DEF to
  <2> QED
    BY <2>1, <2>4, WriterMoves
<1>6. CASE SettingsRestart
  <2>1. writer' = [w \in Writers |-> [pc |-> "idle", val |-> <<>>, todo |-> <<>>]]
    BY <1>6 DEF SettingsRestart, Idle
  <2> QED
    BY <2>1 DEF WriterInv, AtWork
<1> QED
  BY <1>1, <1>2, <1>3, <1>4, <1>5, <1>6 DEF SettingsStep, Proceed

(* Settings that the rest of the firmware can work with. *)
Settled(s) ==
  s \in [Fields -> Nat] /\ Usable(Pair(s.min, s.max)) /\ s.maxon <= MaxOnCeil

LEMMA NormalSettles ==
  ASSUME NEW g \in Groups, NEW v \in GroupValues(g)
  PROVE  /\ g = "limits" => Usable(Pair(Normal(v).min, Normal(v).max))
         /\ g = "maxon" => Normal(v).maxon <= MaxOnCeil
<1>1. CASE g = "limits"
  BY <1>1, NormalIs, ClampedIs, GroupsAre
<1>2. CASE g = "maxon"
  <2>1. v.maxon \in Nat
    BY <1>2, GroupsAre DEF GroupValues
  <2>2. Within(v.maxon, 0, MaxOnCeil) <= MaxOnCeil
    BY <2>1, SettingsAssumption DEF Within
  <2> QED
    BY <1>2, <2>2, NormalIs, GroupsAre
<1> QED
  BY <1>1, <1>2, GroupsAre

LEMMA SetSettles ==
  ASSUME NEW s, Settled(s), NEW g \in Groups, NEW v \in GroupValues(g)
  PROVE  Settled(Over(Normal(v), s))
<1> DEFINE n == Normal(v)
           t == Over(n, s)
<1>1. n \in GroupValues(g)
  BY NormalType
<1>2. /\ t \in [Fields -> Nat] /\ \A f \in FieldsOf[g] : t[f] = n[f]
      /\ \A f \in Fields \ FieldsOf[g] : t[f] = s[f]
  <2> HIDE DEF n
  <2> QED  BY <1>1, OverGroup DEF Settled
<1>3. /\ g = "limits" => Usable(Pair(n.min, n.max))
      /\ g = "maxon" => n.maxon <= MaxOnCeil
  BY NormalSettles
<1> HIDE DEF n, t
<1>4. Usable(Pair(t.min, t.max))
  <2>1. CASE g = "limits"
    BY <1>2, <1>3, <2>1, GroupsAre
  <2>2. CASE g # "limits"
    BY <1>2, <2>2, GroupsAre, FieldsAre DEF Settled
  <2> QED  BY <2>1, <2>2
<1>5. t.maxon <= MaxOnCeil
  <2>1. CASE g = "maxon"
    BY <1>2, <1>3, <2>1, GroupsAre
  <2>2. CASE g # "maxon"
    BY <1>2, <2>2, GroupsAre, FieldsAre DEF Settled
  <2> QED  BY <2>1, <2>2
<1> QED
  BY <1>2, <1>4, <1>5 DEF Settled, t, n

LEMMA LoadSettles ==
  ASSUME NEW s \in [Fields -> Nat]
  PROVE  Settled(Loaded(s))
<1> DEFINE l == Normal(Restricted(s, FieldsOf["limits"]))
           m == Normal(Restricted(s, FieldsOf["maxon"]))
<1>1. /\ Restricted(s, FieldsOf["limits"]) \in GroupValues("limits")
      /\ Restricted(s, FieldsOf["maxon"]) \in GroupValues("maxon")
  BY RestrictedIs, GroupsAre
<1>2. Usable(Pair(l.min, l.max)) /\ m.maxon <= MaxOnCeil
  BY <1>1, NormalSettles, GroupsAre
<1>3. /\ Loaded(s) \in [Fields -> Nat]
      /\ \A f \in FieldsOf["limits"] : Loaded(s)[f] = l[f]
      /\ \A f \in FieldsOf["maxon"] : Loaded(s)[f] = m[f]
  BY LoadedIs, GroupsAre
<1> HIDE DEF l, m
<1>4. Loaded(s).min = l.min /\ Loaded(s).max = l.max /\ Loaded(s).maxon = m.maxon
  BY <1>3, GroupsAre
<1> QED
  BY <1>2, <1>3, <1>4 DEF Settled

LEMMA SettingsTypeStep ==
  ASSUME SettingsType, WriterInv, WriterInv', SettingsStep
  PROVE  SettingsType'
<1>0. Settled(live) /\ flash \in [Fields -> Nat] /\ asked \in [Fields -> Nat]
  BY DEF SettingsType, Settled
<1>1. SUFFICES /\ Settled(live') /\ flash' \in [Fields -> Nat] /\ asked' \in [Fields -> Nat]
               /\ overlapped' \in [Groups -> BOOLEAN]
  <2>1. ASSUME NEW w \in Writers
        PROVE  /\ writer'[w].pc \in {"idle", "next", "set", "store", "store2"}
               /\ writer'[w].pc \in {"idle", "next"} <=> writer'[w].val = <<>>
               /\ writer'[w].pc \notin {"idle", "next"} =>
                    \E g \in Groups : DOMAIN writer'[w].val = FieldsOf[g]
               /\ writer'[w].pc = "next" => writer'[w].todo # <<>>
    BY GroupNotEmpty DEF WriterInv, AtWork, GroupValues
  <2> QED
    BY <2>1 DEF SettingsType, Settled
<1>2. ASSUME NEW w \in Writers, Begin(w) \/ NextWrite(w)
      PROVE  /\ UNCHANGED <<live, flash>> /\ asked' \in [Fields -> Nat]
             /\ overlapped' \in [Groups -> BOOLEAN]
  <2>1. PICK r \in Seq(Wishes) : r # <<>> /\ Fetch(w, r)
    BY <1>2, Fetches
  <2>2. PICK g \in Groups : \E v \in GroupValues(g) :
          /\ asked' = Over(Normal(v), asked)
          /\ overlapped' = [overlapped EXCEPT ![g] = \E u \in Writers \ {w} : Writing(u, g)]
          /\ UNCHANGED <<live, flash>>
    BY <2>1, FetchIs
  <2>3. PICK v \in GroupValues(g) : asked' = Over(Normal(v), asked)
    BY <2>2
  <2>4. asked' \in [Fields -> Nat]
    BY <1>0, <2>3, NormalType, OverGroup
  <2>5. overlapped' \in [Groups -> BOOLEAN]
    BY <2>2 DEF SettingsType
  <2> QED
    BY <2>2, <2>4, <2>5
<1>3. ASSUME NEW w \in Writers, SetLive(w)
      PROVE  Settled(live') /\ UNCHANGED <<flash, asked, overlapped>>
  <2>1. PICK g \in Groups : writer[w].val \in GroupValues(g)
    BY <1>3 DEF SetLive, WriterInv, AtWork
  <2> QED
    BY <1>0, <1>3, <2>1, SetSettles DEF SetLive
<1>4. ASSUME NEW w \in Writers, StoreMin(w)
      PROVE  flash' \in [Fields -> Nat] /\ UNCHANGED <<live, asked, overlapped>>
  <2>1. writer[w].val \in GroupValues("limits")
    BY <1>4, WritingIs, GroupsAre DEF StoreMin
  <2>2. Clamped(writer[w].val).min \in Nat
    BY <2>1, ClampedIs, GroupsAre DEF GroupValues
  <2> QED
    BY <1>0, <1>4, <2>2 DEF StoreMin
<1>5. ASSUME NEW w \in Writers, Store(w)
      PROVE  flash' \in [Fields -> Nat] /\ UNCHANGED <<live, asked, overlapped>>
  <2>1. PICK g \in Groups : Writing(w, g)
    BY <1>5, AtWorkIs DEF Store, AtWork
  <2>2. writer[w].val \in GroupValues(g)
    BY <2>1, WritingIs
  <2>3. \E F \in SUBSET FieldsOf[g] : Stored(w) \in [F -> Nat]
    <3>1. CASE Writing(w, "limits")
      <4>1. g = "limits"
        BY <2>1, <3>1, WritingIs, GroupsAre
      <4>2. Clamped(writer[w].val).max \in Nat
        BY <2>2, <4>1, ClampedIs, GroupsAre DEF GroupValues
      <4>3. Stored(w) \in [{"max"} -> Nat]
        BY <3>1, <4>2 DEF Stored, Restricted
      <4> QED
        BY <4>1, <4>3, GroupsAre
    <3>2. CASE ~Writing(w, "limits")
      BY <2>2, <3>2 DEF Stored, GroupValues
    <3> QED
      BY <3>1, <3>2
  <2> QED
    BY <1>0, <1>5, <2>3, OverIs DEF Store
<1>6. CASE SettingsRestart
  <2>1. Settled(live') /\ UNCHANGED flash /\ asked' = live'
    BY <1>0, <1>6, LoadSettles DEF SettingsRestart
  <2> QED
    BY <1>0, <1>6, <2>1 DEF SettingsRestart, Settled
<1>7. ASSUME NEW w \in Writers, RereadMaxOn(w)
      PROVE  UNCHANGED <<live, flash, asked, overlapped>>
  BY <1>7 DEF RereadMaxOn
<1>8. overlapped \in [Groups -> BOOLEAN]
  BY DEF SettingsType
<1> QED
  BY <1>0, <1>2, <1>3, <1>4, <1>5, <1>6, <1>7, <1>8 DEF SettingsStep, Proceed

(* A group is loaded from its own keys. *)
LEMMA LoadedFrom ==
  ASSUME NEW s \in [Fields -> Nat], NEW g \in Groups, NEW v \in GroupValues(g),
         \A f \in FieldsOf[g] : s[f] = v[f]
  PROVE  \A f \in FieldsOf[g] : Loaded(s)[f] = Normal(v)[f]
<1>1. Restricted(s, FieldsOf[g]) = v
  BY DEF Restricted, GroupValues
<1> QED
  BY <1>1, LoadedIs

(* A step of a writer on another group. *)
LEMMA KeptFrame ==
  ASSUME SettingsType, SettingsType', NEW g \in Groups, KeptAt(g), NEW w \in Writers,
         \A u \in Writers \ {w} : writer'[u] = writer[u], ~Writing(w, g), ~Writing(w, g)',
         \A f \in FieldsOf[g] : live'[f] = live[f] /\ asked'[f] = asked[f] /\ flash'[f] = flash[f]
  PROVE  KeptAt(g)'
<1>1. \A u \in Writers : Writing(u, g)' <=> Writing(u, g)
  BY DEF Writing
<1>2. \A u \in Writers : Writing(u, g) => writer'[u] = writer[u]
  OBVIOUS
<1>3. \A f \in FieldsOf[g] : Loaded(flash')[f] = Loaded(flash)[f]
  <2> DEFINE v == Restricted(flash, FieldsOf[g])
  <2>1. flash \in [Fields -> Nat] /\ flash' \in [Fields -> Nat]
    BY DEF SettingsType
  <2>2. v \in GroupValues(g) /\ \A f \in FieldsOf[g] : flash[f] = v[f] /\ flash'[f] = v[f]
    BY <2>1, RestrictedIs
  <2> HIDE DEF v
  <2> QED  BY <2>1, <2>2, LoadedFrom
<1>4. g = "limits" => flash'.min = flash.min /\ asked'.min = asked.min
  BY GroupsAre
<1>5. \A u, x \in Writers : Writing(u, g)' /\ Writing(x, g)' => u = x
  BY <1>1 DEF KeptAt
<1>6. ASSUME NEW u \in Writers, Writing(u, g)'
      PROVE  /\ \A f \in FieldsOf[g] : asked'[f] = Normal(writer'[u].val)[f]
             /\ writer'[u].pc \in {"store", "store2"} => \A f \in FieldsOf[g] : live'[f] = asked'[f]
             /\ writer'[u].pc = "store2" /\ g = "limits" => flash'.min = asked'.min
  <2>1. Writing(u, g) /\ writer'[u] = writer[u]
    BY <1>1, <1>2, <1>6
  <2> QED
    BY <1>4, <2>1 DEF KeptAt
<1>7. (\A u \in Writers : ~Writing(u, g)') =>
        \A f \in FieldsOf[g] : live'[f] = asked'[f] /\ Loaded(flash')[f] = live'[f]
  BY <1>1, <1>3 DEF KeptAt
<1> QED
  BY <1>5, <1>6, <1>7 DEF KeptAt

(* A step that leaves the writer alone on its group. *)
LEMMA KeptByWriter ==
  ASSUME NEW g \in Groups, NEW w \in Writers, \A u \in Writers \ {w} : ~Writing(u, g)',
         Writing(w, g)', \A f \in FieldsOf[g] : asked'[f] = Normal(writer'[w].val)[f],
         writer'[w].pc \in {"store", "store2"} => \A f \in FieldsOf[g] : live'[f] = asked'[f],
         writer'[w].pc = "store2" /\ g = "limits" => flash'.min = asked'.min
  PROVE  KeptAt(g)'
<1>1. \A u \in Writers : Writing(u, g)' => u = w
  OBVIOUS
<1> QED
  BY <1>1 DEF KeptAt

LEMMA KeptByFetch ==
  ASSUME SettingsType, SettingsType', WriterInv, WriterInv', KeptInv,
         NEW w \in Writers, Begin(w) \/ NextWrite(w)
  PROVE  KeptInv'
<1>1. writer[w].pc \notin AtWork
  BY Fetches
<1>2. PICK r \in Seq(Wishes) : r # <<>> /\ Fetch(w, r)
  BY Fetches
<1>3. PICK g \in Groups : \E v \in GroupValues(g) :
        /\ writer' = [writer EXCEPT ![w] = [pc |-> "set", val |-> v, todo |-> Tail(r)]]
        /\ asked' = Over(Normal(v), asked)
        /\ overlapped' = [overlapped EXCEPT ![g] = \E u \in Writers \ {w} : Writing(u, g)]
        /\ UNCHANGED <<live, flash>>
  BY <1>2, FetchIs
<1>4. PICK v \in GroupValues(g) :
        /\ writer' = [writer EXCEPT ![w] = [pc |-> "set", val |-> v, todo |-> Tail(r)]]
        /\ asked' = Over(Normal(v), asked)
  BY <1>3
<1>5. writer'[w].pc = "set" /\ writer'[w].val = v /\ \A u \in Writers \ {w} : writer'[u] = writer[u]
  BY <1>4 DEF WriterInv
<1>6. Writing(w, g)' /\ \A h \in Groups : Writing(w, h)' => h = g
  BY <1>5, GroupsApart DEF Writing, GroupValues
<1>7. /\ \A f \in FieldsOf[g] : asked'[f] = Normal(v)[f]
      /\ \A f \in Fields \ FieldsOf[g] : asked'[f] = asked[f]
  <2>1. Normal(v) \in GroupValues(g) /\ asked \in [Fields -> Nat]
    BY NormalType DEF SettingsType
  <2> QED
    BY <1>4, <2>1, OverGroup
<1>8. ASSUME NEW h \in Groups, ~overlapped'[h]
      PROVE  KeptAt(h)'
  <2>1. CASE h = g
    <3>1. \A u \in Writers \ {w} : ~Writing(u, g)
      BY <1>3, <1>8, <2>1 DEF SettingsType
    <3>2. \A u \in Writers \ {w} : ~Writing(u, g)'
      BY <1>5, <3>1 DEF Writing
    <3> QED
      BY <1>5, <1>6, <1>7, <2>1, <3>2, KeptByWriter
  <2>2. CASE h # g
    <3>1. KeptAt(h)
      BY <1>3, <1>8, <2>2 DEF SettingsType, KeptInv
    <3>2. ~Writing(w, h) /\ ~Writing(w, h)'
      BY <1>1, <1>6, <2>2 DEF Writing, WriterInv, AtWork
    <3>3. \A f \in FieldsOf[h] : live'[f] = live[f] /\ asked'[f] = asked[f] /\ flash'[f] = flash[f]
      BY <1>3, <1>7, <2>2, GroupsApart
    <3> QED
      BY <1>5, <3>1, <3>2, <3>3, KeptFrame
  <2> QED
    BY <2>1, <2>2
<1> QED
  BY <1>8 DEF KeptInv

(* Any other step of a writer touches the group it is on only. *)
LEMMA KeptByStep ==
  ASSUME SettingsType, SettingsType', WriterInv, KeptInv,
         NEW w \in Writers, NEW g \in Groups, Writing(w, g),
         UNCHANGED <<asked, overlapped>>,
         \A u \in Writers \ {w} : writer'[u] = writer[u],
         \A h \in Groups : Writing(w, h)' => h = g,
         \A f \in Fields \ FieldsOf[g] : live'[f] = live[f] /\ flash'[f] = flash[f],
         ~overlapped[g] => KeptAt(g)'
  PROVE  KeptInv'
<1>1. ASSUME NEW h \in Groups, ~overlapped'[h], h # g
      PROVE  KeptAt(h)'
  <2>1. KeptAt(h)
    BY <1>1 DEF KeptInv
  <2>2. ~Writing(w, h) /\ ~Writing(w, h)'
    BY <1>1, WritingIs
  <2>3. \A f \in FieldsOf[h] : live'[f] = live[f] /\ asked'[f] = asked[f] /\ flash'[f] = flash[f]
    BY <1>1, GroupsApart
  <2> QED
    BY <2>1, <2>2, <2>3, KeptFrame
<1> QED
  BY <1>1 DEF KeptInv

(* The only writer of a group that has not been overlapped. *)
LEMMA OnlyWriter ==
  ASSUME WriterInv, KeptInv, NEW w \in Writers, NEW g \in Groups, Writing(w, g), ~overlapped[g]
  PROVE  /\ \A u \in Writers \ {w} : ~Writing(u, g)
         /\ \A f \in FieldsOf[g] : asked[f] = Normal(writer[w].val)[f]
         /\ writer[w].pc \in {"store", "store2"} => \A f \in FieldsOf[g] : live[f] = asked[f]
         /\ writer[w].pc = "store2" /\ g = "limits" => flash.min = asked.min
BY DEF KeptInv, KeptAt

LEMMA KeptBySetLive ==
  ASSUME SettingsType, SettingsType', WriterInv, KeptInv, NEW w \in Writers, SetLive(w)
  PROVE  KeptInv'
<1>1. PICK g \in Groups : Writing(w, g)
  BY AtWorkIs DEF SetLive, AtWork
<1>2. writer[w].val \in GroupValues(g)
  BY <1>1, WritingIs
<1>3. /\ writer'[w].pc = "store" /\ writer'[w].val = writer[w].val
      /\ \A u \in Writers \ {w} : writer'[u] = writer[u]
  BY DEF SetLive, WriterInv
<1>4. UNCHANGED <<flash, asked, overlapped>>
  BY DEF SetLive
<1>5. /\ \A f \in FieldsOf[g] : live'[f] = Normal(writer[w].val)[f]
      /\ \A f \in Fields \ FieldsOf[g] : live'[f] = live[f]
  <2>1. Normal(writer[w].val) \in GroupValues(g) /\ live \in [Fields -> Nat]
    BY <1>2, NormalType DEF SettingsType
  <2>2. live' = Over(Normal(writer[w].val), live)
    BY DEF SetLive
  <2> QED
    BY <2>1, <2>2, OverGroup
<1>6. Writing(w, g)' /\ \A h \in Groups : Writing(w, h)' => h = g
  BY <1>1, <1>3, GroupsApart DEF Writing
<1>7. ASSUME ~overlapped[g] PROVE KeptAt(g)'
  <2>1. /\ \A u \in Writers \ {w} : ~Writing(u, g)
        /\ \A f \in FieldsOf[g] : asked[f] = Normal(writer[w].val)[f]
    BY <1>1, <1>7, OnlyWriter
  <2>2. \A u \in Writers \ {w} : ~Writing(u, g)'
    BY <1>3, <2>1 DEF Writing
  <2> QED
    BY <1>3, <1>4, <1>5, <1>6, <2>1, <2>2, KeptByWriter
<1> QED
  BY <1>1, <1>3, <1>4, <1>5, <1>6, <1>7, KeptByStep

LEMMA KeptByReread ==
  ASSUME SettingsType, SettingsType', WriterInv, KeptInv, NEW w \in Writers, RereadMaxOn(w)
  PROVE  KeptInv'
<1> DEFINE v == Restricted(live, FieldsOf["maxon"])
<1>1. Writing(w, "maxon") /\ writer[w].pc = "store" /\ "maxon" \in Groups
  BY GroupsAre DEF RereadMaxOn
<1>2. /\ writer'[w].pc = "store2" /\ writer'[w].val = v
      /\ \A u \in Writers \ {w} : writer'[u] = writer[u]
  BY DEF RereadMaxOn, WriterInv
<1>3. UNCHANGED <<live, flash, asked, overlapped>>
  BY DEF RereadMaxOn
<1>4. v \in GroupValues("maxon") /\ v.maxon = live.maxon
  <2>1. v \in GroupValues("maxon") /\ \A f \in FieldsOf["maxon"] : v[f] = live[f]
    BY <1>1, RestrictedIs DEF SettingsType
  <2> HIDE DEF v
  <2> QED
    BY <2>1, GroupsAre
<1> HIDE DEF v
<1>5. Writing(w, "maxon")' /\ \A h \in Groups : Writing(w, h)' => h = "maxon"
  BY <1>1, <1>2, <1>4, GroupsApart DEF Writing, GroupValues
<1>6. ASSUME ~overlapped["maxon"] PROVE KeptAt("maxon")'
  <2>1. /\ \A u \in Writers \ {w} : ~Writing(u, "maxon")
        /\ \A f \in FieldsOf["maxon"] : live[f] = asked[f]
    BY <1>1, <1>6, OnlyWriter
  <2>2. \A u \in Writers \ {w} : ~Writing(u, "maxon")'
    BY <1>2, <2>1 DEF Writing
  <2>3. live.maxon \in 0..MaxOnCeil
    BY FieldsAre DEF SettingsType
  <2>4. Within(live.maxon, 0, MaxOnCeil) = live.maxon
    BY <2>3, SettingsAssumption DEF Within
  <2>5. \A f \in FieldsOf["maxon"] : asked'[f] = Normal(v)[f]
    BY <1>3, <1>4, <2>1, <2>4, NormalIs, GroupsAre
  <2> QED
    BY <1>1, <1>2, <1>3, <1>5, <2>1, <2>2, <2>5, KeptByWriter
<1> QED
  BY <1>1, <1>2, <1>3, <1>5, <1>6, KeptByStep

LEMMA KeptByStoreMin ==
  ASSUME SettingsType, SettingsType', WriterInv, KeptInv, NEW w \in Writers, StoreMin(w)
  PROVE  KeptInv'
<1>1. Writing(w, "limits") /\ writer[w].pc = "store" /\ "limits" \in Groups
  BY GroupsAre DEF StoreMin
<1>2. /\ writer'[w].pc = "store2" /\ writer'[w].val = writer[w].val
      /\ \A u \in Writers \ {w} : writer'[u] = writer[u]
  BY DEF StoreMin, WriterInv
<1>3. UNCHANGED <<live, asked, overlapped>>
  BY DEF StoreMin
<1>4. /\ flash'.min = Clamped(writer[w].val).min
      /\ \A f \in Fields \ FieldsOf["limits"] : flash'[f] = flash[f]
  BY FieldsAre, GroupsAre DEF StoreMin, SettingsType
<1>5. Writing(w, "limits")' /\ \A h \in Groups : Writing(w, h)' => h = "limits"
  BY <1>1, <1>2, GroupsApart DEF Writing
<1>6. ASSUME ~overlapped["limits"] PROVE KeptAt("limits")'
  <2>1. /\ \A u \in Writers \ {w} : ~Writing(u, "limits")
        /\ \A f \in FieldsOf["limits"] : asked[f] = Normal(writer[w].val)[f]
        /\ \A f \in FieldsOf["limits"] : live[f] = asked[f]
    BY <1>1, <1>6, OnlyWriter
  <2>2. \A u \in Writers \ {w} : ~Writing(u, "limits")'
    BY <1>2, <2>1 DEF Writing
  <2>3. Normal(writer[w].val) = Clamped(writer[w].val)
    BY <1>1, WritingIs, NormalIs
  <2>4. flash'.min = asked'.min
    BY <1>3, <1>4, <2>1, <2>3, GroupsAre
  <2> QED
    BY <1>1, <1>2, <1>3, <1>5, <2>1, <2>2, <2>4, KeptByWriter
<1> QED
  BY <1>1, <1>2, <1>3, <1>4, <1>5, <1>6, KeptByStep

(* What the last key of a group gets comes back as what was asked for. *)
LEMMA KeptByStore ==
  ASSUME SettingsType, SettingsType', WriterInv, KeptInv, NEW w \in Writers, Store(w)
  PROVE  KeptInv'
<1>1. PICK g \in Groups : Writing(w, g)
  BY AtWorkIs DEF Store, AtWork
<1>2. writer[w].val \in GroupValues(g) /\ \A h \in Groups : Writing(w, h) => h = g
  BY <1>1, WritingIs
<1>3. /\ \A h \in Groups : ~Writing(w, h)'
      /\ \A u \in Writers \ {w} : writer'[u] = writer[u]
  BY DEF Store, Done, WriterInv, Idle, Writing
<1>4. UNCHANGED <<live, asked, overlapped>> /\ flash' = Over(Stored(w), flash)
  BY DEF Store
<1>5. writer[w].pc \in {"store", "store2"} /\ (g = "limits" => writer[w].pc = "store2")
  BY <1>1 DEF Store
<1>6. flash \in [Fields -> Nat] /\ flash' \in [Fields -> Nat]
  BY DEF SettingsType
<1>7. CASE g = "limits"
  <2> DEFINE c == Clamped(writer[w].val)
  <2>1. /\ c \in GroupValues("limits") /\ Usable(c) /\ c = Pair(c.min, c.max)
        /\ Normal(writer[w].val) = c
    BY <1>2, <1>7, ClampedIs, NormalIs
  <2>2. Stored(w) = [f \in {"max"} |-> c[f]]
    BY <1>1, <1>7 DEF Stored, Restricted
  <2> HIDE DEF c
  <2>3. flash'.max = c.max /\ \A f \in Fields \ {"max"} : flash'[f] = flash[f]
    BY <1>4, <1>6, <2>2, FieldsAre DEF Over
  <2>4. ASSUME ~overlapped[g] PROVE KeptAt(g)'
    <3>1. /\ \A u \in Writers \ {w} : ~Writing(u, g)
          /\ \A f \in FieldsOf[g] : asked[f] = c[f] /\ live[f] = asked[f]
          /\ flash.min = asked.min
      BY <1>1, <1>5, <1>7, <2>1, <2>4, OnlyWriter
    <3>2. \A u \in Writers : ~Writing(u, g)'
      BY <1>3, <3>1 DEF Writing
    <3>3. \A f \in FieldsOf[g] : flash'[f] = c[f]
      BY <1>7, <2>3, <3>1, GroupsAre, FieldsAre
    <3>4. Clamped(c) = c
      BY <2>1, ClampKeeps
    <3>5. Normal(c) = c
      BY <2>1, <3>4, NormalIs
    <3>6. \A f \in FieldsOf[g] : Loaded(flash')[f] = c[f]
      BY <1>6, <1>7, <2>1, <3>3, <3>5, LoadedFrom
    <3> QED
      BY <1>4, <3>1, <3>2, <3>6 DEF KeptAt
  <2>5. \A f \in Fields \ FieldsOf[g] : live'[f] = live[f] /\ flash'[f] = flash[f]
    BY <1>4, <1>7, <2>3, GroupsAre
  <2> QED
    BY <1>1, <1>3, <1>4, <2>4, <2>5, KeptByStep
<1>8. CASE g # "limits"
  <2>1. Stored(w) = writer[w].val
    BY <1>2, <1>8, GroupsAre DEF Stored
  <2>2. /\ \A f \in FieldsOf[g] : flash'[f] = writer[w].val[f]
        /\ \A f \in Fields \ FieldsOf[g] : flash'[f] = flash[f]
    BY <1>2, <1>4, <1>6, <2>1, OverGroup
  <2>3. ASSUME ~overlapped[g] PROVE KeptAt(g)'
    <3>1. /\ \A u \in Writers \ {w} : ~Writing(u, g)
          /\ \A f \in FieldsOf[g] : asked[f] = Normal(writer[w].val)[f]
          /\ \A f \in FieldsOf[g] : live[f] = asked[f]
      BY <1>1, <1>5, <2>3, OnlyWriter
    <3>2. \A u \in Writers : ~Writing(u, g)'
      BY <1>3, <3>1 DEF Writing
    <3>3. \A f \in FieldsOf[g] : Loaded(flash')[f] = Normal(writer[w].val)[f]
      BY <1>2, <1>6, <2>2, LoadedFrom
    <3> QED
      BY <1>4, <3>1, <3>2, <3>3 DEF KeptAt
  <2>4. \A f \in Fields \ FieldsOf[g] : live'[f] = live[f] /\ flash'[f] = flash[f]
    BY <1>4, <2>2
  <2> QED
    BY <1>1, <1>3, <1>4, <2>3, <2>4, KeptByStep
<1> QED
  BY <1>7, <1>8

LEMMA KeptStep ==
  ASSUME SettingsType, SettingsType', WriterInv, WriterInv', KeptInv, SettingsStep
  PROVE  KeptInv'
<1>1. CASE SettingsRestart
  BY <1>1 DEF SettingsRestart, KeptInv, KeptAt, Writing, Idle
<1> QED
  BY <1>1, KeptByFetch, KeptBySetLive, KeptByReread, KeptByStoreMin, KeptByStore
     DEF SettingsStep, Proceed

-----------------------------------------------------------------------------
(* The thermostat. *)

(* What the cycle has judged still holds when it acts, and where it last    *)
(* switched off the limits have not changed since.                          *)
ThermoInv ==
  /\ at = "off" => temp >= limits.max
  /\ at = "on" => temp <= limits.min
  /\ offAt # None =>
       /\ offAt \in Levels /\ offAt >= live.max
       /\ at # "idle" => limits = LiveLimits

ThermostatStep ==
  \/ \E w \in Writers : WritesSettings(w)
  \/ SensorCycle \/ OthersSwitch \/ Leak \/ ProbeChanges \/ ThermostatRestart

LEMMA ThermostatSteps == Next => ThermostatStep \/ UNCHANGED <<settingsVars, thermostatVars>>
BY DEF Next, BleWrites, CloudWrites, Sensor, Surroundings, CloudClient, Listens, Provisions,
   CloudSurroundings, Restart, ThermostatStep, Writers

(* Numbers that a leaf about truth values leaves to a step of its own.      *)
LEMMA FailsStep ==
  ASSUME ThermostatType, ThermostatStep
  PROVE  fails' \in 0..(2 * RetryAfter - 1)
<1> USE ThermostatAssumption
<1>1. CASE ReadFails
  <2>1. NextFail \in 0..(2 * RetryAfter - 1)
    BY DEF ThermostatType, NextFail
  <2> QED
    BY <1>1, <2>1 DEF ReadFails, FailsAfterRetry
<1>2. CASE ReadTemperature \/ Judge \/ SwitchOff \/ SwitchOn \/ ThermostatRestart
  BY <1>2 DEF ReadTemperature, Judge, SwitchOff, SwitchOn, ThermostatRestart, ThermostatType
<1>3. CASE OthersSwitch \/ Leak \/ ProbeChanges \/ \E w \in Writers : WritesSettings(w)
  BY <1>3 DEF OthersSwitch, Leak, ProbeChanges, WritesSettings, sensorVars, ThermostatType
<1> QED
  BY <1>1, <1>2, <1>3 DEF ThermostatStep, SensorCycle

LEMMA OffAtStep ==
  ASSUME ThermostatType, ThermostatStep
  PROVE  offAt' \in Levels \cup {None}
<1> USE DEF ThermostatType, sensorVars, relayVars
<1>1. CASE SwitchOff
  BY <1>1 DEF SwitchOff
<1>2. CASE SwitchOn
  BY <1>2 DEF SwitchOn
<1>3. CASE ReadTemperature \/ ReadFails \/ Judge \/ ProbeChanges
  BY <1>3 DEF ReadTemperature, ReadFails, Judge, ProbeChanges
<1>4. CASE OthersSwitch \/ Leak \/ ThermostatRestart \/ \E w \in Writers : WritesSettings(w)
  BY <1>4 DEF OthersSwitch, Leak, ThermostatRestart, WritesSettings
<1> QED
  BY <1>1, <1>2, <1>3, <1>4 DEF ThermostatStep, SensorCycle

LEMMA ThermostatTypeStep ==
  ASSUME SettingsType, SettingsType', ThermostatType, ThermostatStep
  PROVE  ThermostatType'
<1> USE ThermostatAssumption DEF ThermostatType, sensorVars, relayVars
<1>0. fails' \in 0..(2 * RetryAfter - 1) /\ offAt' \in Levels \cup {None}
  BY FailsStep, OffAtStep
<1>1. Usable(LiveLimits) /\ Usable(LiveLimits')
  BY DEF SettingsType, LiveLimits
<1>2. CASE ReadTemperature
  BY <1>0, <1>1, <1>2 DEF ReadTemperature
<1>3. CASE ReadFails
  <2>1. found' \in BOOLEAN /\ UNCHANGED <<probe, at, limits, relayOn, lockout>>
    BY <1>3 DEF ReadFails, Discovered
  <2>2. /\ notified' \in BOOLEAN /\ sensorOk' \in BOOLEAN
        /\ notified' <=> ~sensorOk'
        /\ temp' \in Levels \cup {Lost, 0} /\ at = "idle"
    BY <1>3 DEF ReadFails, Announce
  <2> QED
    BY <1>0, <2>1, <2>2
<1>4. CASE Judge
  <2>1. at' \in {"idle", "off", "on"} /\ at = "judge"
    BY <1>4 DEF Judge
  <2> QED
    BY <1>0, <1>4, <2>1 DEF Judge
<1>5. CASE SwitchOff \/ SwitchOn
  <2>1. relayOn' \in BOOLEAN /\ at' = "idle"
    BY <1>5 DEF SwitchOff, SwitchOn
  <2>2. UNCHANGED <<probe, found, temp, fails, notified, sensorOk, limits, lockout>>
    BY <1>5 DEF SwitchOff, SwitchOn
  <2> QED
    BY <1>0, <2>1, <2>2
<1>6. CASE OthersSwitch
  BY <1>0, <1>6 DEF OthersSwitch
<1>7. CASE Leak
  BY <1>0, <1>7 DEF Leak
<1>8. CASE ProbeChanges
  BY <1>0, <1>8 DEF ProbeChanges
<1>9. CASE \E w \in Writers : WritesSettings(w)
  BY <1>0, <1>9 DEF WritesSettings
<1>10. CASE ThermostatRestart
  BY <1>0, <1>1, <1>10 DEF ThermostatRestart, Discovered
<1> QED
  BY <1>2, <1>3, <1>4, <1>5, <1>6, <1>7, <1>8, <1>9, <1>10 DEF ThermostatStep, SensorCycle

LEMMA ThermoStep ==
  ASSUME SettingsType, ThermostatType, ThermoInv, ThermostatStep
  PROVE  ThermoInv'
<1> USE ThermostatAssumption DEF ThermoInv, sensorVars, relayVars
<1>1. CASE ReadTemperature
  BY <1>1 DEF ReadTemperature, settingsVars, LiveLimits
<1>2. CASE ReadFails
  <2>1. at' = "idle" /\ UNCHANGED <<offAt, live, limits>>
    BY <1>2 DEF ReadFails, settingsVars
  <2> QED
    BY <2>1 DEF LiveLimits
<1>3. CASE Judge
  <2>1. UNCHANGED <<offAt, live, limits, temp>> /\ at # "idle"
    BY <1>3 DEF Judge, settingsVars
  <2>2. (at' = "off" => temp >= limits.max) /\ (at' = "on" => temp <= limits.min)
    BY <1>3 DEF Judge
  <2> QED
    BY <2>1, <2>2 DEF LiveLimits
<1>4. CASE SwitchOff
  <2>1. at' = "idle" /\ UNCHANGED <<live, limits, temp>> /\ temp \in Levels /\ temp >= limits.max
    BY <1>4 DEF SwitchOff, settingsVars, ThermostatType
  <2>2. offAt' # None => offAt' = temp /\ limits.max = live.max
    BY <1>4 DEF SwitchOff, LiveLimits, Pair
  <2> QED
    BY <2>1, <2>2
<1>5. CASE SwitchOn
  BY <1>5 DEF SwitchOn, settingsVars
<1>6. CASE OthersSwitch \/ ThermostatRestart
  BY <1>6 DEF OthersSwitch, ThermostatRestart
<1>7. CASE Leak \/ ProbeChanges
  BY <1>7 DEF Leak, ProbeChanges, settingsVars, LiveLimits
<1>8. CASE \E w \in Writers : WritesSettings(w)
  <2>1. UNCHANGED <<at, temp, limits>> /\ (offAt' # None => offAt' = offAt /\ LiveLimits' = LiveLimits)
    BY <1>8 DEF WritesSettings
  <2>2. LiveLimits' = LiveLimits => live'.max = live.max
    BY DEF LiveLimits, Pair
  <2> QED
    BY <2>1, <2>2
<1> QED
  BY <1>1, <1>2, <1>3, <1>4, <1>5, <1>6, <1>7, <1>8 DEF ThermostatStep, SensorCycle

(* What the thermostat switches on is the deadband below where it switched  *)
(* off.                                                                     *)
LEMMA BandHolds ==
  ASSUME SettingsType, ThermostatType, ThermoInv, at = "on", offAt # None
  PROVE  temp + Deadband <= offAt
<1>1. limits = LiveLimits /\ temp <= limits.min /\ offAt >= live.max
  BY DEF ThermoInv
<1>2. limits.min + Deadband <= limits.max /\ limits.min \in Int /\ limits.max = live.max
  BY <1>1, LimitsAssumption DEF ThermostatType, Usable, LiveLimits, Pair
<1>3. temp \in Int /\ offAt \in Int /\ live.max \in Int
  BY ThermostatAssumption, FieldsAre DEF ThermostatType, ThermoInv, SettingsType
<1> QED
  BY <1>1, <1>2, <1>3, LimitsAssumption

-----------------------------------------------------------------------------
(* All together. *)

IInv == TypeOK /\ WriterInv /\ KeptInv /\ ThermoInv /\ PostInv /\ BlameInv /\ RestInv

(* The firebase task applies settings on its stream only.                   *)
LEMMA StreamStep ==
  ASSUME TypeOK, WriterInv, Next
  PROVE  writer'["firebase"].pc # "idle" => call'["firebase"] = "stream"
<1> USE DEF settingsVars, thermostatVars, tokensVars
<1>0. writer["firebase"].pc # "idle" => call["firebase"] = "stream"
  BY DEF TypeOK
<1>1. CASE BleWrites
  <2>1. Begin("ble") \/ Proceed("ble")
    BY <1>1 DEF BleWrites, WritesSettings
  <2>2. \E to : writer' = [writer EXCEPT !["ble"] = to]
    BY <2>1 DEF Begin, Proceed, Fetch, NextWrite, SetLive, RereadMaxOn, StoreMin, Store, Done
  <2>3. writer'["firebase"] = writer["firebase"]
    BY <2>2 DEF WriterInv, Writers
  <2> QED
    BY <1>0, <1>1, <2>3 DEF BleWrites
<1>2. CASE CloudWrites
  BY <1>2 DEF CloudWrites
<1>3. CASE Sensor \/ Surroundings
  BY <1>0, <1>3 DEF Sensor, Surroundings, SensorCycle, ReadTemperature, ReadFails, Judge,
     SwitchOff, SwitchOn, OthersSwitch, Leak, ProbeChanges
<1>4. CASE \E c \in Clients : CloudClient(c)
  <2>1. UNCHANGED writer
    BY <1>4 DEF CloudClient
  <2>2. call["firebase"] = "stream" => call'["firebase"] = "stream"
    BY <1>4 DEF CloudClient, Client, TakeToken, Post, Refreshed, Rejected, Failed, StreamOpens,
       StreamDenied, StreamUnreachable, ManifestFetched, Goto, TypeOK, TokensType, Clients
  <2> QED
    BY <1>0, <2>1, <2>2
<1>5. CASE Listens
  BY <1>5 DEF Listens
<1>6. CASE Provisions
  BY <1>0, <1>6 DEF Provisions, Bind, StoreCredentials
<1>7. CASE CloudSurroundings
  BY <1>0, <1>7 DEF CloudSurroundings, TokensEnvironment, NetFlips, Revoke, DropToken,
     ClockStep, Settle, TimePasses
<1>8. CASE Restart
  BY <1>8 DEF Restart, ThermostatRestart, SettingsRestart, Idle, Writers
<1> QED
  BY <1>1, <1>2, <1>3, <1>4, <1>5, <1>6, <1>7, <1>8 DEF Next

LEMMA SettingsStart ==
  ASSUME SettingsInit
  PROVE  SettingsType /\ WriterInv /\ KeptInv
<1>1. flash \in [Fields -> Nat]
  <2>1. PICK ar \in 0..1, mn \in Nat, mx \in Nat :
          flash = Over([ar |-> ar, min |-> mn, max |-> mx], [f \in Fields |-> 0])
    BY SettingsAssumption DEF SettingsInit
  <2> QED
    BY <2>1 DEF Over
<1>2. Settled(live) /\ live = Loaded(flash) /\ asked = live
  BY <1>1, LoadSettles DEF SettingsInit
<1>3. /\ writer = [w \in Writers |-> [pc |-> "idle", val |-> <<>>, todo |-> <<>>]]
      /\ overlapped = [g \in Groups |-> FALSE]
  BY DEF SettingsInit, Idle
<1>4. WriterInv
  BY <1>3 DEF WriterInv, AtWork
<1>5. SettingsType
  BY <1>1, <1>2, <1>3 DEF SettingsType, Settled
<1>6. KeptInv
  BY <1>2, <1>3 DEF KeptInv, KeptAt, Writing
<1> QED
  BY <1>4, <1>5, <1>6

LEMMA ThermostatStart ==
  ASSUME SettingsType, ThermostatInit
  PROVE  ThermostatType /\ ThermoInv
<1>1. Usable(LiveLimits)
  BY DEF SettingsType, LiveLimits
<1>2. 0 \in 0..(2 * RetryAfter - 1)
  BY ThermostatAssumption
<1> QED
  BY <1>1, <1>2 DEF ThermostatInit, ThermostatType, ThermoInv

LEMMA TokensStart ==
  ASSUME TokensInit
  PROVE  TokensType /\ PostInv /\ BlameInv /\ RestInv
<1>1. stored \in [refresh : Creds \cup {NoCred}, uid : Users \cup {NoUser}]
  BY DEF TokensInit, Users
<1>2. refresh = stored.refresh /\ uid \in Users \cup {NoUser}
  BY <1>1 DEF TokensInit, LoadedUid
<1>3. /\ expiresIn \in Never..MaxWait /\ retryIn \in Never..MaxWait
      /\ refusals \in 0..MaxFails /\ restedFor \in 0..Dormant
      /\ validFor \in 0..(TokenLife + EarlyBy)
  BY Times DEF TokensInit
<1>4. TokensType
  BY <1>1, <1>2, <1>3 DEF TokensInit, TokensType, Clients
<1>5. PostInv /\ RestInv
  BY <1>3 DEF TokensInit, PostInv, RestInv
<1>6. BlameInv
  BY DEF TokensInit, BlameInv
<1> QED
  BY <1>4, <1>5, <1>6

LEMMA Initially == Init => IInv
<1> SUFFICES ASSUME Init PROVE IInv
  OBVIOUS
<1>1. SettingsType /\ WriterInv /\ KeptInv
  BY SettingsStart DEF Init
<1>2. ThermostatType /\ ThermoInv
  BY <1>1, ThermostatStart DEF Init
<1>3. TokensType /\ PostInv /\ BlameInv /\ RestInv
  BY TokensStart DEF Init
<1>4. writer["firebase"].pc = "idle"
  BY DEF Init, SettingsInit, Idle, Writers
<1> QED
  BY <1>1, <1>2, <1>3, <1>4 DEF IInv, TypeOK

(* The parts of a step: each part of the invariant is carried over by the   *)
(* steps on its own variables and left alone by the others.                 *)
LEMMA Inductive == IInv /\ [Next]_vars => IInv'
<1> SUFFICES ASSUME IInv, [Next]_vars PROVE IInv'
  OBVIOUS
<1>0. /\ SettingsType /\ ThermostatType /\ TokensType /\ WriterInv /\ KeptInv
      /\ ThermoInv /\ PostInv /\ BlameInv /\ RestInv
  BY DEF IInv, TypeOK
<1>1. CASE UNCHANGED vars
  <2> USE <1>1 DEF vars
  <2>1. SettingsType' /\ WriterInv' /\ KeptInv'
    BY <1>0 DEF SettingsType, WriterInv, KeptInv, KeptAt, Writing, settingsVars
  <2>2. ThermostatType' /\ ThermoInv'
    BY <1>0 DEF ThermostatType, ThermoInv, LiveLimits, settingsVars, thermostatVars,
       sensorVars, relayVars
  <2>3. TokensType' /\ PostInv' /\ BlameInv' /\ RestInv'
    BY <1>0 DEF TokensType, PostInv, BlameInv, RestInv, tokensVars, secrets, held, cooldown,
       server
  <2>4. writer'["firebase"].pc # "idle" => call'["firebase"] = "stream"
    BY DEF IInv, TypeOK, settingsVars, tokensVars
  <2> QED
    BY <2>1, <2>2, <2>3, <2>4 DEF IInv, TypeOK
<1>2. CASE Next
  <2>1. SettingsType' /\ WriterInv' /\ KeptInv'
    <3>1. CASE SettingsStep
      BY <1>0, <3>1, WriterStep, SettingsTypeStep, KeptStep
    <3>2. CASE UNCHANGED settingsVars
      BY <1>0, <3>2 DEF SettingsType, WriterInv, KeptInv, KeptAt, Writing, settingsVars
    <3> QED
      BY <1>2, <3>1, <3>2, SettingsSteps
  <2>2. ThermostatType' /\ ThermoInv'
    <3>1. CASE ThermostatStep
      BY <1>0, <2>1, <3>1, ThermostatTypeStep, ThermoStep
    <3>2. CASE UNCHANGED <<settingsVars, thermostatVars>>
      BY <1>0, <3>2 DEF ThermostatType, ThermoInv, LiveLimits, settingsVars, thermostatVars,
         sensorVars, relayVars
    <3> QED
      BY <1>2, <3>1, <3>2, ThermostatSteps
  <2>3. TokensType' /\ PostInv' /\ BlameInv' /\ RestInv'
    <3>1. CASE TokensStep
      BY <1>0, <3>1, TokensTypeStep, PostStep, BlameStep, RestStep
    <3>2. CASE UNCHANGED tokensVars
      BY <1>0, <3>2 DEF TokensType, PostInv, BlameInv, RestInv, tokensVars, secrets, held,
         cooldown, server
    <3> QED
      BY <1>2, <3>1, <3>2, TokensSteps
  <2>4. writer'["firebase"].pc # "idle" => call'["firebase"] = "stream"
    BY <1>2, StreamStep DEF IInv
  <2> QED
    BY <2>1, <2>2, <2>3, <2>4 DEF IInv, TypeOK
<1> QED
  BY <1>1, <1>2

LEMMA Invariance == Spec => []IInv
BY Initially, Inductive, PTL DEF Spec

-----------------------------------------------------------------------------
(* Every variable keeps its type; the limits that are live and those that   *)
(* the thermostat goes by are usable whatever was sent or stored; a failure *)
(* of the probe is notified as long as it lasts; the firebase task applies  *)
(* settings on its stream only (device_state.c:154-174, temperature.c).     *)
THEOREM TypeCorrect == Spec => []TypeOK
<1>1. IInv => TypeOK
  BY DEF IInv
<1> QED
  BY <1>1, Invariance, PTL

(* However the writes of two tasks fall, a write that met no other write of  *)
(* its group, and any restart, leave the settings as asked and such that    *)
(* the next restart brings them back (device_state.h:32-34).                *)
THEOREM WritesAreKept == Spec => []UndisturbedIsKept
<1>1. IInv => UndisturbedIsKept
  BY DEF IInv, KeptInv, KeptAt, UndisturbedIsKept
<1> QED
  BY <1>1, Invariance, PTL

(* No ID token, failure count or cooldown of other credentials than those   *)
(* the unit has, even if they changed around a refresh                      *)
(* (firebase_auth.c:216-252).                                               *)
THEOREM HoldingsOwned == Spec => []HoldingsAreOurs
<1>1. IInv => HoldingsAreOurs
  <2> SUFFICES ASSUME IInv PROVE HoldingsAreOurs
    OBVIOUS
  <2>1. retryIn > 0 => retryIn # Never
    BY Times
  <2> QED
    BY <2>1 DEF IInv, BlameInv, HoldingsAreOurs
<1> QED
  BY <1>1, Invariance, PTL

(* A rejected refresh token rests for all the clients                       *)
(* (firebase_auth.c:60-77, 284-290).                                        *)
THEOREM RejectionRests == Spec => RejectedRests
<1>1. IInv /\ [Next]_vars =>
        [\A c \in Clients : call[c] # "post" /\ call'[c] = "post" => restedFor = Dormant]_call
  <2> SUFFICES ASSUME IInv, [Next]_vars, NEW c \in Clients, call[c] # "post", call'[c] = "post"
               PROVE  restedFor = Dormant
    OBVIOUS
  <2>0. TokensType /\ RestInv
    BY DEF IInv, TypeOK
  <2>1. TokensStep
    BY TokensSteps DEF vars, tokensVars
  <2>2. PICK d \in Clients : Post(d)
    BY <2>0, <2>1 DEF TokensStep, Client, TakeToken, Post, Refreshed, Rejected, Failed,
       StreamOpens, StreamDenied, StreamUnreachable, ManifestFetched, FirebaseListens,
       StreamEnds, AuthRevoked, Bind, StoreCredentials, TokensEnvironment, NetFlips, Revoke,
       DropToken, ClockStep, Settle, TimePasses, TokensRestart, Goto, TokensType
  <2>3. retryIn <= 0
    BY <2>2 DEF Post, CooldownOver
  <2> QED
    BY <2>0, <2>3, Times DEF RestInv, TokensType
<1> QED
  BY <1>1, Invariance, PTL DEF Spec, RejectedRests

(* Switched on again only once the water has cooled by the deadband         *)
(* (device_state.h:81-84).                                                  *)
THEOREM BandKept == Spec => HysteresisKept
<1>1. IInv => [at = "on" /\ ~relayOn /\ relayOn' /\ offAt # None =>
                 temp + Deadband <= offAt]_<<at, relayOn>>
  BY BandHolds DEF IInv, TypeOK
<1> QED
  BY <1>1, Invariance, PTL DEF HysteresisKept

=============================================================================
