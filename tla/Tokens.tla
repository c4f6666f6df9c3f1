------------------------------- MODULE Tokens -------------------------------
(***************************************************************************)
(* The cloud credentials: the ID token that the firebase task and the      *)
(* update task share, its refresh, and what a failed refresh costs.        *)
(*                                                                         *)
(* firebase_auth keeps everything under a mutex of its own, which a        *)
(* refresh holds during its POST.  Expiry and cooldown are wall-clock      *)
(* times; they are kept here as the time that is left, which a step of the *)
(* clock changes and the server's own idea of the token's life does not.   *)
(* A unit of time is the first backoff, 30 s; a request takes less.        *)
(***************************************************************************)
EXTENDS Integers, Actors

CONSTANTS
  Creds,        \* refresh tokens that the app may hand over
  OwnerOf,      \* the account of each
  NoCred, NoUser,
  TokenLife,    \* units until the unit takes its ID token for expired
  EarlyBy,      \* units by which that is before the server does
  Dormant,      \* the cooldown after a rejection, an hour
  MaxFails,     \* s_refresh_fails stops counting here
  MaxStep       \* bound: the clock is set back by this much at most, and
                \* brings back nothing that is past for longer

ASSUME TokensAssumption ==
  /\ OwnerOf \in [Creds -> {OwnerOf[c] : c \in Creds}]
  /\ NoCred \notin Creds /\ NoUser \notin {OwnerOf[c] : c \in Creds}
  /\ {TokenLife, Dormant, MaxFails} \subseteq Nat \ {0}
  /\ EarlyBy \in Nat /\ MaxStep \in Nat
  \* the longest backoff, 32 min, is shorter than the rest
  /\ \A n \in 1..MaxFails : 2 ^ (n - 1) \in 1..Dormant

Users   == {OwnerOf[c] : c \in Creds}
Clients == {"firebase", "ota"}

VARIABLES
  refresh,     \* s_refresh
  uid,         \* s_user_id: whose node the requests go to
  idToken,     \* s_id_token, as the refresh token it was issued for
  expiresIn,   \* s_expiry - now
  retryIn,     \* s_retry_after - now
  sent,        \* the refresh token in the body of the last POST
  refusals,    \* s_refresh_fails
  stored,      \* the flash: refresh token and user
  call,        \* where each client is
  binding,     \* what save_provisioning has yet to do
  \* environment
  net,         \* the server can be reached
  accepted,    \* the server accepts the refresh token
  validFor,    \* how long the server accepts the ID token
  settled,     \* the environment changes no more
  \* history
  blamed,      \* the refresh token of the last failed refresh
  restedFor    \* time since the last rejection, Dormant if it was excused

secrets    == <<refresh, uid, stored>>
held       == <<idToken, expiresIn, sent>>
cooldown   == <<retryIn, refusals, blamed, restedFor>>
server     == <<net, accepted, validFor, settled>>
tokensVars == <<secrets, held, cooldown, server, call, binding>>

MaxWait == IF TokenLife > Dormant THEN TokenLife + MaxStep ELSE Dormant + MaxStep
Never   == -MaxStep - 1       \* s_expiry or s_retry_after is 0, or long past

TokensType ==
  /\ refresh \in Creds \cup {NoCred} /\ uid \in Users \cup {NoUser}
  /\ idToken \in Creds \cup {NoCred}
  /\ expiresIn \in Never..MaxWait /\ retryIn \in Never..MaxWait
  /\ sent \in Creds \cup {NoCred}
  /\ refusals \in 0..MaxFails
  /\ stored \in [refresh : Creds \cup {NoCred}, uid : Users \cup {NoUser}]
  /\ call \in [Clients -> {"idle", "post", "use", "stream"}]
  /\ call["ota"] # "stream"
  /\ binding \in Creds \cup {NoCred}
  /\ net \in BOOLEAN /\ accepted \in BOOLEAN /\ settled \in BOOLEAN
  /\ validFor \in 0..(TokenLife + EarlyBy)
  /\ blamed \in Creds \cup {NoCred} /\ restedFor \in 0..Dormant
  /\ refresh # NoCred => stored.refresh = refresh
  /\ idToken = NoCred => expiresIn = Never

-----------------------------------------------------------------------------
(* firebase_auth_is_ready. *)
Ready == refresh # NoCred /\ uid # NoUser

(* The mutex is held across the POST, and only there between two steps. *)
Free == \A c \in Clients : call[c] # "post"

(* firebase_auth_init: without a refresh token the user is not even read. *)
LoadedUid == IF stored.refresh = NoCred THEN NoUser ELSE stored.uid

TokensInit ==
  /\ stored \in {[refresh |-> NoCred, uid |-> NoUser]}
       \cup {[refresh |-> c, uid |-> OwnerOf[c]] : c \in Creds}
  /\ refresh = stored.refresh /\ uid = LoadedUid
  /\ idToken = NoCred /\ expiresIn = Never /\ sent = NoCred
  /\ retryIn = Never /\ refusals = 0 /\ blamed = NoCred /\ restedFor = Dormant
  /\ call = [c \in Clients |-> "idle"]
  /\ binding = NoCred
  /\ net = TRUE /\ accepted = TRUE /\ validFor = 0 /\ settled = FALSE

TokensRestart ==
  /\ refresh' = stored.refresh /\ uid' = LoadedUid
  /\ idToken' = NoCred /\ expiresIn' = Never /\ sent' = NoCred
  /\ retryIn' = Never /\ refusals' = 0 /\ blamed' = NoCred /\ restedFor' = Dormant
  /\ call' = [c \in Clients |-> "idle"]
  /\ binding' = NoCred
  /\ UNCHANGED <<stored, server>>

Goto(c, label) == call' = [call EXCEPT ![c] = label]

-----------------------------------------------------------------------------
(* firebase_auth_get_id_token. *)

Expired == idToken = NoCred \/ expiresIn <= 0

(* The token at hand is good enough. *)
TakeToken(c) ==
  /\ Acts(c) /\ call[c] = "idle" /\ Ready /\ Free
  /\ ~Expired
  /\ Goto(c, "use")
  /\ UNCHANGED <<secrets, held, cooldown, server, binding>>

(* Mutated form: no more attempts once the longest backoff is over. *)
TriesLeft == retryIn <= 0 /\ refusals < MaxFails

CooldownOver == retryIn <= 0

(* do_refresh begins, unless an earlier failure still counts. *)
Post(c) ==
  /\ Acts(c) /\ call[c] = "idle" /\ Ready /\ Free
  /\ Expired /\ CooldownOver
  /\ sent' = refresh
  /\ Goto(c, "post")
  /\ UNCHANGED <<secrets, idToken, expiresIn, cooldown, server, binding>>

(* The answer brings the refresh token too, which is stored if it is new. *)
Refreshed(c) ==
  /\ Acts(c) /\ call[c] = "post" /\ net /\ accepted
  /\ idToken' = sent /\ expiresIn' = TokenLife
  /\ refresh' = sent /\ stored' = [stored EXCEPT !.refresh = sent]
  /\ validFor' = TokenLife + EarlyBy
  /\ retryIn' = Never /\ refusals' = 0 /\ restedFor' = Dormant
  /\ Goto(c, "use")
  /\ UNCHANGED <<uid, sent, blamed, net, accepted, settled, binding>>

(* Mutated form: a rejection is a failure like any other. *)
LikeAnyFailure == 1

RestAfterRejection == Dormant

(* HTTP 400: the refresh token is revoked. *)
Rejected(c) ==
  /\ Acts(c) /\ call[c] = "post" /\ net /\ ~accepted
  /\ retryIn' = RestAfterRejection
  /\ blamed' = sent /\ restedFor' = 0
  /\ Goto(c, "idle")
  /\ UNCHANGED <<secrets, held, refusals, server, binding>>

(* No answer, or one that is no token: twice as long from one failure to the *)
(* next, up to a cap.                                                       *)
Failed(c) ==
  /\ Acts(c) /\ call[c] = "post" /\ ~net
  /\ refusals' = IF refusals < MaxFails THEN refusals + 1 ELSE refusals
  /\ retryIn' = 2 ^ (refusals' - 1)
  /\ blamed' = sent
  /\ Goto(c, "idle")
  /\ UNCHANGED <<secrets, held, restedFor, server, binding>>

(* firebase_auth_invalidate_token: the next use refreshes at once. *)
Invalidate ==
  /\ Free
  /\ idToken' = NoCred /\ expiresIn' = Never
  /\ retryIn' = Never /\ restedFor' = Dormant
  /\ UNCHANGED <<refusals, blamed, sent>>

-----------------------------------------------------------------------------
(* What the clients do with the token.  They were given a pointer: what      *)
(* they send is the token as it is by then.                                 *)

Authorised == idToken # NoCred /\ validFor > 0 /\ OwnerOf[idToken] = uid

StreamOpens ==
  /\ Acts("firebase") /\ call["firebase"] = "use" /\ net /\ Authorised
  /\ Goto("firebase", "stream")
  /\ UNCHANGED <<secrets, held, cooldown, server, binding>>

(* HTTP 401 *)
StreamDenied ==
  /\ Acts("firebase") /\ call["firebase"] = "use" /\ net /\ ~Authorised
  /\ Invalidate
  /\ Goto("firebase", "idle")
  /\ UNCHANGED <<secrets, server, binding>>

StreamUnreachable ==
  /\ Acts("firebase") /\ call["firebase"] = "use" /\ ~net
  /\ Goto("firebase", "idle")
  /\ UNCHANGED <<secrets, held, cooldown, server, binding>>

StreamEnds ==
  /\ Acts("firebase") /\ call["firebase"] = "stream"
  /\ Goto("firebase", "idle")
  /\ UNCHANGED <<secrets, held, cooldown, server, binding>>

(* The event auth_revoked: the stream is given up for a fresh token. *)
AuthRevoked ==
  /\ Acts("firebase") /\ call["firebase"] = "stream" /\ validFor = 0
  /\ Invalidate
  /\ Goto("firebase", "idle")
  /\ UNCHANGED <<secrets, server, binding>>

(* fetch_manifest; whatever the answer, the token stays. *)
ManifestFetched ==
  /\ Acts("ota") /\ call["ota"] = "use"
  /\ Goto("ota", "idle")
  /\ UNCHANGED <<secrets, held, cooldown, server, binding>>

Client(c) ==
  \/ TakeToken(c) \/ Post(c) \/ Refreshed(c) \/ Rejected(c) \/ Failed(c)
  \/ c = "firebase" /\ (StreamOpens \/ StreamDenied \/ StreamUnreachable)
  \/ c = "ota" /\ ManifestFetched

FirebaseListens == StreamEnds \/ AuthRevoked

-----------------------------------------------------------------------------
(* save_provisioning: the user first, then the credentials, if any came. *)

Bind ==
  /\ Acts("prov") /\ binding = NoCred
  /\ \E c \in Creds :
       /\ stored' = [stored EXCEPT !.uid = OwnerOf[c]]
       /\ binding' \in {c, NoCred}
  /\ ~settled
  /\ UNCHANGED <<refresh, uid, held, cooldown, server, call>>

(* Mutated form: without the mutex. *)
NoMutex == TRUE

MutexForCredentials == Free

(* firebase_auth_set_credentials; the app has just obtained them. *)
StoreCredentials ==
  /\ Acts("prov") /\ binding # NoCred /\ MutexForCredentials
  /\ refresh' = binding
  /\ stored' = [stored EXCEPT !.refresh = binding]
  /\ uid' = IF uid = NoUser THEN stored.uid ELSE uid
  /\ idToken' = NoCred /\ expiresIn' = Never
  /\ retryIn' = Never /\ refusals' = 0 /\ restedFor' = Dormant
  /\ accepted' = TRUE /\ validFor' = 0
  /\ binding' = NoCred
  /\ UNCHANGED <<sent, blamed, net, settled, call>>

-----------------------------------------------------------------------------
(* The environment. *)

NetFlips ==
  /\ Acts("net") /\ ~settled
  /\ net' = ~net
  /\ UNCHANGED <<secrets, held, cooldown, accepted, validFor, settled, call, binding>>

(* The account is closed or its password changed. *)
Revoke ==
  /\ Acts("server") /\ ~settled /\ accepted /\ refresh # NoCred
  /\ accepted' = FALSE
  /\ UNCHANGED <<secrets, held, cooldown, net, validFor, settled, call, binding>>

(* The server drops an ID token before its time. *)
DropToken ==
  /\ Acts("server") /\ ~settled /\ validFor > 0
  /\ validFor' = 0
  /\ UNCHANGED <<secrets, held, cooldown, net, accepted, settled, call, binding>>

(* NTP or the phone sets the clock, either way. *)
Shifted(left, by) ==
  CASE left = Never \/ left - by <= Never -> Never
    [] left - by > MaxWait                -> MaxWait
    [] OTHER                              -> left - by

ClockStep ==
  /\ Acts("clock") /\ ~settled
  /\ \E by \in {-MaxStep, MaxWait - Never} :
       /\ expiresIn' = Shifted(expiresIn, by)
       /\ retryIn' = Shifted(retryIn, by)
  /\ restedFor' = Dormant
  /\ UNCHANGED <<secrets, idToken, sent, refusals, blamed, server, call, binding>>

Settle ==
  /\ Acts("settle") /\ ~settled
  /\ settled' = TRUE
  /\ UNCHANGED <<secrets, held, cooldown, net, accepted, validFor, call, binding>>

Less(n, least) == IF n = least THEN n ELSE n - 1

(* A unit of time; requests are shorter. *)
TimePasses ==
  /\ Acts("time")
  /\ \A c \in Clients : call[c] \notin {"post", "use"}
  /\ expiresIn' = Less(expiresIn, Never) /\ retryIn' = Less(retryIn, Never)
  /\ validFor' = Less(validFor, 0)
  /\ restedFor' = IF restedFor = Dormant THEN Dormant ELSE restedFor + 1
  /\ UNCHANGED <<secrets, idToken, sent, refusals, blamed, net, accepted, settled, call, binding>>

TokensEnvironment == NetFlips \/ Revoke \/ DropToken \/ ClockStep \/ Settle \/ TimePasses

-----------------------------------------------------------------------------
(* What the unit holds belongs to the credentials it has: no ID token, no   *)
(* failure count and no cooldown of earlier ones is left after a change,    *)
(* even one that arrives during a refresh (firebase_auth.c:216-252).        *)
HoldingsAreOurs ==
  /\ idToken \in {refresh, NoCred}
  /\ retryIn > 0 \/ refusals > 0 => blamed = refresh

(* A rejected refresh token is left alone for an hour by all the tasks that *)
(* want an ID token, but for new credentials, a 401, a clock step or a      *)
(* restart (firebase_auth.c:60-77, 284-290).                                *)
RejectedRests ==
  [][\A c \in Clients : call[c] # "post" /\ call'[c] = "post" => restedFor = Dormant]_call

(* Once the environment has settled with the server in reach, credentials   *)
(* it accepts and the node of their owner, the unit is on its stream again  *)
(* and again, whatever failed before (firebase_auth.c:275-309,              *)
(* firebase_rtdb.c:594-660).                                                *)
Reachable == net /\ accepted /\ Ready /\ OwnerOf[refresh] = uid /\ binding = NoCred

CloudReached ==
  "firebase" \in acting /\ "time" \in acting /\ "restart" \notin acting =>
    [](settled /\ Reachable => <>(call["firebase"] = "stream"))

=============================================================================
