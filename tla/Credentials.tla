----------------------------- MODULE Credentials -----------------------------
(***************************************************************************)
(* How the Rest and Nessie catalogs come by the token of a request:        *)
(* get_token with its token cache (ailake-catalog/src/{rest,nessie}.rs),   *)
(* and RotatingSecret in front of a secret provider                        *)
(* (ailake-secrets/src/lib.rs).  The tasks of a process share both caches. *)
(* Neither the provider nor the token endpoint answers at once, and time   *)
(* passes while they do.                                                   *)
(*                                                                         *)
(*   instant      the time, in units of 30 s                               *)
(*   rotated      when each secret was replaced; the current secret is the *)
(*                one after the last of them                               *)
(*   secretState  RotatingSecret::state: [value, read, at], when the       *)
(*                provider read it and when it was cached; NoSecret        *)
(*   secretLock   the task that holds that mutex across a fetch, NoTask    *)
(*   token_cache  [issued, ttl, expires_at]; NoToken                       *)
(*   bearer       per task: pc, what it has read, and what it was last     *)
(*                handed from a cache, and when                            *)
(*   credSetting  the kind of authentication, which catalog, and how many  *)
(*                calls, rotations and faults there will be                *)
(***************************************************************************)
EXTENDS Integers, Sequences

CONSTANTS Bearer, NoTask, CredSetting,
          margin, request_timeout,     \* both 30 s
          MAX_OAUTH_TOKEN_TTL_SECS, refresh_after,
          Ttl, MaxInstant              \* lifetimes that servers give; bound

ASSUME CredAssumption ==
    /\ NoTask \notin Bearer
    /\ margin \in Nat /\ request_timeout \in 0 .. margin /\ refresh_after \in Nat \ {0}
    /\ MAX_OAUTH_TOKEN_TTL_SECS \in Nat /\ Ttl \subseteq Nat /\ MaxInstant \in Nat
    /\ \A s \in CredSetting : /\ s.auth \in {"oauth2", "oauth2_provider", "bearer_provider"}
                              /\ s.catalog \in {"rest", "nessie"}
                              /\ {s.calls, s.rotations, s.faults} \subseteq Nat

VARIABLES instant, rotated, secretState, secretLock, token_cache, bearer, credCalls, credFaults,
          credSetting

credVars == <<instant, rotated, secretState, secretLock, token_cache, bearer, credCalls, credFaults,
              credSetting>>

NoSecret == [value |-> 0, read |-> 0, at |-> 0]
NoToken == [issued |-> 0, ttl |-> 0, expires_at |-> 0]
Nothing == [from |-> "none", at |-> 0, secret |-> NoSecret, token |-> NoToken]
NotAsking == [pc |-> "idle", secret |-> NoSecret, token |-> NoToken, since |-> 0, got |-> Nothing]

CredInit ==
    /\ credSetting \in CredSetting
    /\ instant = 0 /\ rotated = <<>>
    /\ secretState = NoSecret /\ secretLock = NoTask /\ token_cache = NoToken
    /\ bearer = [t \in Bearer |-> NotAsking]
    /\ credCalls = 0 /\ credFaults = 0

CredAt(t, label) == bearer' = [bearer EXCEPT ![t].pc = label]
Handed(t, from, secret, token) ==
    bearer' = [bearer EXCEPT ![t] = [NotAsking EXCEPT !.got =
                 [from |-> from, at |-> instant, secret |-> secret, token |-> token]]]

(* A request is about to be sent: get_token.                               *)
get_token(t) ==
    /\ bearer[t].pc = "idle" /\ credCalls < credSetting.calls
    /\ credCalls' = credCalls + 1
    /\ bearer' = [bearer EXCEPT ![t] = [NotAsking EXCEPT !.pc =
                    IF credSetting.auth = "bearer_provider" THEN "secret" ELSE "cache"]]
    /\ UNCHANGED <<instant, rotated, secretState, secretLock, token_cache, credFaults, credSetting>>

Lasts_Wrong(cached) == cached.expires_at > instant

(* "Tokens are cached until (expiry - 30 s)".                              *)
Lasts(cached) == cached.expires_at > instant + margin

CheckToken(t) ==
    /\ bearer[t].pc = "cache"
    /\ IF Lasts(token_cache) THEN Handed(t, "cache", NoSecret, token_cache)
       ELSE CredAt(t, IF credSetting.auth = "oauth2" THEN "post" ELSE "secret")
    /\ UNCHANGED <<instant, rotated, secretState, secretLock, token_cache, credCalls, credFaults,
                   credSetting>>

-----------------------------------------------------------------------------
(* RotatingSecret::get.                                                    *)

Fresh == secretState # NoSecret /\ instant - secretState.at < refresh_after

(* The secret is the bearer token itself, or goes into the token request.  *)
HasSecret(t, secret) ==
    IF credSetting.auth = "bearer_provider" THEN Handed(t, "secret", secret, NoToken)
    ELSE bearer' = [bearer EXCEPT ![t].pc = "post", ![t].secret = secret]

get(t) ==
    /\ bearer[t].pc = "secret" /\ secretLock = NoTask
    /\ IF Fresh THEN HasSecret(t, secretState) ELSE CredAt(t, "refresh")
    /\ UNCHANGED <<instant, rotated, secretState, secretLock, token_cache, credCalls, credFaults,
                   credSetting>>

(* The mutex is taken again, for the whole refresh, and the check made     *)
(* again.                                                                  *)
SecondCheck(t) ==
    /\ bearer[t].pc = "refresh" /\ secretLock = NoTask
    /\ IF Fresh THEN HasSecret(t, secretState) /\ UNCHANGED secretLock
       ELSE CredAt(t, "fetch") /\ secretLock' = t
    /\ UNCHANGED <<instant, rotated, secretState, token_cache, credCalls, credFaults, credSetting>>

(* SecretProvider::fetch reads the secret; its answer is cached.           *)
fetch(t) ==
    /\ bearer[t].pc = "fetch"
    /\ bearer' = [bearer EXCEPT ![t].pc = "fetched",
                    ![t].secret = [value |-> Len(rotated) + 1, read |-> instant, at |-> instant]]
    /\ UNCHANGED <<instant, rotated, secretState, secretLock, token_cache, credCalls, credFaults,
                   credSetting>>

CacheSecret(t) ==
    /\ bearer[t].pc = "fetched"
    /\ secretState' = [bearer[t].secret EXCEPT !.at = instant]
    /\ HasSecret(t, secretState') /\ secretLock' = NoTask
    /\ UNCHANGED <<instant, rotated, token_cache, credCalls, credFaults, credSetting>>

-----------------------------------------------------------------------------
(* The token endpoint.                                                     *)

post(t) ==
    /\ bearer[t].pc = "post"
    /\ bearer' = [bearer EXCEPT ![t].pc = "sent", ![t].since = instant]
    /\ UNCHANGED <<instant, rotated, secretState, secretLock, token_cache, credCalls, credFaults,
                   credSetting>>

Issue(t) ==
    /\ bearer[t].pc = "sent"
    /\ \E ttl \in Ttl :
         bearer' = [bearer EXCEPT ![t].pc = "issued",
                      ![t].token = [issued |-> instant, ttl |-> ttl, expires_at |-> 0]]
    /\ UNCHANGED <<instant, rotated, secretState, secretLock, token_cache, credCalls, credFaults,
                   credSetting>>

(* The lifetime counts from the answer, and Rest caps it.                  *)
token_expiry(ttl) ==
    instant + IF credSetting.catalog = "rest" /\ ttl > MAX_OAUTH_TOKEN_TTL_SECS
              THEN MAX_OAUTH_TOKEN_TTL_SECS ELSE ttl

CacheToken(t) ==
    /\ bearer[t].pc = "issued"
    /\ LET token == [bearer[t].token EXCEPT !.expires_at = token_expiry(bearer[t].token.ttl)]
       IN  token_cache' = token
    /\ bearer' = [bearer EXCEPT ![t] = NotAsking]
    /\ UNCHANGED <<instant, rotated, secretState, secretLock, credCalls, credFaults, credSetting>>

-----------------------------------------------------------------------------
(* Faults and time.                                                        *)

InRequest(t) == bearer[t].pc \in {"sent", "issued"}
TimedOut(t) == credSetting.catalog = "rest" /\ InRequest(t)
               /\ instant - bearer[t].since >= request_timeout

(* The guard of the mutex is dropped with the future.                      *)
Gone(t) == secretLock' = IF secretLock = t THEN NoTask ELSE secretLock

(* The provider or the endpoint fails, the request times out, or the       *)
(* caller goes away.                                                       *)
CredFails(t) ==
    /\ bearer[t].pc # "idle"
    /\ \/ TimedOut(t) /\ UNCHANGED credFaults
       \/ credFaults < credSetting.faults /\ credFaults' = credFaults + 1
    /\ bearer' = [bearer EXCEPT ![t] = NotAsking] /\ Gone(t)
    /\ UNCHANGED <<instant, rotated, secretState, token_cache, credCalls, credSetting>>

Rotate ==
    /\ Len(rotated) < credSetting.rotations /\ rotated' = Append(rotated, instant)
    /\ UNCHANGED <<instant, secretState, secretLock, token_cache, bearer, credCalls, credFaults,
                   credSetting>>

(* Requests of the Rest catalog last no longer than their timeout.         *)
Elapse ==
    /\ instant < MaxInstant /\ \A t \in Bearer : ~TimedOut(t)
    /\ instant' = instant + 1
    /\ UNCHANGED <<rotated, secretState, secretLock, token_cache, bearer, credCalls, credFaults,
                   credSetting>>

CredStep(t) ==
    \/ get_token(t) \/ CheckToken(t) \/ get(t) \/ SecondCheck(t) \/ fetch(t) \/ CacheSecret(t)
    \/ post(t) \/ Issue(t) \/ CacheToken(t)

CredNext == (\E t \in Bearer : CredStep(t) \/ CredFails(t)) \/ Rotate \/ Elapse

CredSpec == CredInit /\ [][CredNext]_credVars

(* The runtime polls every task; providers and endpoints answer or fail.   *)
CredFair == \A t \in Bearer : WF_credVars(CredStep(t))

-----------------------------------------------------------------------------
(* Properties.                                                             *)

(* The mutex is with the task that fetches, and no token of the Rest       *)
(* catalog is kept longer than MAX_OAUTH_TOKEN_TTL_SECS.                   *)
CredTypeOK ==
    /\ \A t \in Bearer : secretLock = t <=> bearer[t].pc \in {"fetch", "fetched"}
    /\ secretState.value <= Len(rotated) + 1 /\ secretState.read <= secretState.at
    /\ credSetting.catalog = "rest" => token_cache.expires_at <= instant + MAX_OAUTH_TOKEN_TTL_SECS

(* "a burst of concurrent requests performs only one provider call": no    *)
(* task fetches while a secret that another has just fetched is still      *)
(* good.                                                                   *)
OneFetch ==
    \A t \in Bearer : bearer[t].pc = "fetch" /\ secretState # NoSecret =>
        instant - secretState.at >= refresh_after

(* A token of the Rest catalog that comes from the cache is still valid at *)
(* the server that issued it, although its lifetime was counted from an    *)
(* answer that took up to the request timeout.                             *)
TokenLive ==
    credSetting.catalog = "rest" => \A t \in Bearer :
        LET got == bearer[t].got
        IN  got.from = "cache" => got.at < got.token.issued + got.token.ttl

(* RotatingSecret hands out no secret that was replaced longer ago than    *)
(* refresh_after, on top of the time its own fetch took.                   *)
SecretCurrent ==
    \A t \in Bearer :
        LET got == bearer[t].got
            replaced == got.secret.value \in DOMAIN rotated
        IN  got.from = "secret" /\ replaced =>
              got.at - rotated[got.secret.value]
                < refresh_after + (got.secret.at - got.secret.read)

(* What the two caches hand out is good when it is handed out, and is not  *)
(* fetched more often than that takes.                                     *)
CredentialsFresh == OneFetch /\ TokenLive /\ SecretCurrent

(* Every caller of get_token gets an answer: a fetch that failed or whose  *)
(* caller went away does not keep the mutex from the others.               *)
CredReturns == <>[](\A t \in Bearer : bearer[t].pc = "idle")
=============================================================================
