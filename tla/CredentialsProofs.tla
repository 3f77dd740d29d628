-------------------------- MODULE CredentialsProofs --------------------------
(***************************************************************************)
(* Proofs about Credentials, for any number of tasks, any lifetimes and    *)
(* any settings.  CredInv is the inductive invariant: beside the types it  *)
(* follows a secret from the provider, and a token from the endpoint, to   *)
(* the caches and from there to the tasks that were handed them.           *)
(***************************************************************************)
EXTENDS Credentials, TLAPS

Secret == [value : Nat, read : Nat, at : Nat]
Token == [issued : Nat, ttl : Nat, expires_at : Nat]
Got == [from : {"none", "cache", "secret"}, at : Nat, secret : Secret, token : Token]
Label == {"idle", "cache", "secret", "refresh", "fetch", "fetched", "post", "sent", "issued"}
Asking == [pc : Label, secret : Secret, token : Token, since : Nat, got : Got]

CredTypes ==
    /\ instant \in Nat /\ rotated \in Seq(Nat)
    /\ secretState \in Secret /\ secretLock \in Bearer \cup {NoTask} /\ token_cache \in Token
    /\ bearer \in [Bearer -> Asking]
    /\ credCalls \in Nat /\ credFaults \in Nat /\ credSetting \in CredSetting

(* The mutex is with the task that fetches.                                *)
LockHeld == \A t \in Bearer : secretLock = t <=> bearer[t].pc \in {"fetch", "fetched"}

(* A secret that was read before it was replaced.                          *)
Read(s) ==
    /\ s.value <= Len(rotated) + 1 /\ s.read <= s.at /\ s.at <= instant
    /\ s.value \in DOMAIN rotated => s.read <= rotated[s.value]

(* A token whose expiry was counted from an answer within the timeout.     *)
Timely(token) == token.expires_at <= token.issued + request_timeout + token.ttl

CachesOK ==
    /\ Read(secretState)
    /\ credSetting.catalog = "rest" =>
         Timely(token_cache) /\ token_cache.expires_at <= instant + MAX_OAUTH_TOKEN_TTL_SECS

BearerOK(b) ==
    /\ b.pc = "fetched" => Read(b.secret)
    /\ b.got.from = "secret" =>
         Read(b.got.secret) /\ b.got.at - b.got.secret.at < refresh_after
    /\ credSetting.catalog = "rest" =>
         /\ b.pc \in {"sent", "issued"} =>
              b.since <= instant /\ instant <= b.since + request_timeout
         /\ b.pc = "issued" => b.since <= b.token.issued
         /\ b.got.from = "cache" =>
              Timely(b.got.token) /\ b.got.at + margin < b.got.token.expires_at

CredInv ==
    CredTypes /\ LockHeld /\ CachesOK /\ OneFetch /\ \A t \in Bearer : BearerOK(bearer[t])

-----------------------------------------------------------------------------
(* The records every task and cache starts with.                           *)
LEMMA Starts ==
    /\ NoSecret \in Secret /\ NoToken \in Token /\ Nothing \in Got /\ NotAsking \in Asking
    /\ NotAsking.pc = "idle" /\ NotAsking.got.from = "none"
BY DEF NoSecret, NoToken, Nothing, NotAsking, Secret, Token, Got, Asking, Label

(* A task that is idle and was handed nothing satisfies its invariant.     *)
LEMMA IdleOK == BearerOK(NotAsking)
BY Starts DEF BearerOK

(* The invariant holds at the start.                                       *)
LEMMA InitCredInv == CredInit => CredInv
<1> SUFFICES ASSUME CredInit PROVE CredInv
  OBVIOUS
<1> USE CredAssumption DEF CredInit
<1>1. CredTypes
  BY Starts DEF CredTypes
<1>2. LockHeld /\ OneFetch
  BY Starts DEF LockHeld, OneFetch
<1>3. CachesOK
  BY DEF CachesOK, Read, Timely, NoSecret, NoToken
<1> QED
  BY <1>1, <1>2, <1>3, IdleOK DEF CredInv

(* A step of one task that leaves clock, rotations and setting alone: it   *)
(* is enough to look at the caches, the mutex and the task itself.         *)
LEMMA TaskStep ==
    ASSUME CredInv, NEW t \in Bearer, UNCHANGED <<instant, rotated, credSetting>>,
           credCalls' \in Nat, credFaults' \in Nat,
           secretState' \in Secret, secretLock' \in Bearer \cup {NoTask}, token_cache' \in Token,
           bearer' \in [Bearer -> Asking], \A u \in Bearer \ {t} : bearer'[u] = bearer[u],
           LockHeld', CachesOK', OneFetch', BearerOK(bearer'[t])
    PROVE  CredInv'
<1>1. CredTypes'
  BY DEF CredInv, CredTypes
<1>2. ASSUME NEW u \in Bearer PROVE BearerOK(bearer[u])'
  <2>1. BearerOK(bearer'[u])
    BY DEF CredInv
  <2> QED
    BY <2>1 DEF BearerOK, Read, Timely
<1> QED
  BY <1>1, <1>2 DEF CredInv

-----------------------------------------------------------------------------
(* What the ways of updating a task's record do to it.                     *)

Others(t) == \A u \in Bearer \ {t} : bearer'[u] = bearer[u]

(* Moving to another label changes nothing else of the record.             *)
LEMMA AtUpdates ==
    ASSUME bearer \in [Bearer -> Asking], NEW t \in Bearer, NEW label \in Label, CredAt(t, label)
    PROVE  /\ bearer' \in [Bearer -> Asking] /\ Others(t)
           /\ bearer'[t].pc = label /\ bearer'[t].got = bearer[t].got
           /\ bearer'[t].secret = bearer[t].secret /\ bearer'[t].token = bearer[t].token
           /\ bearer'[t].since = bearer[t].since
BY DEF CredAt, Asking, Others

(* Handing out a credential ends the call and records it.                  *)
LEMMA HandedUpdates ==
    ASSUME bearer \in [Bearer -> Asking], instant \in Nat, NEW t \in Bearer,
           NEW from \in {"cache", "secret"}, NEW secret \in Secret, NEW token \in Token,
           Handed(t, from, secret, token)
    PROVE  /\ bearer' \in [Bearer -> Asking] /\ Others(t)
           /\ bearer'[t].pc = "idle"
           /\ bearer'[t].got = [from |-> from, at |-> instant, secret |-> secret, token |-> token]
<1> DEFINE got == [from |-> from, at |-> instant, secret |-> secret, token |-> token]
           b == [NotAsking EXCEPT !.got = got]
<1>1. got \in Got
  BY DEF Got
<1>2. b \in Asking /\ b.pc = "idle" /\ b.got = got
  BY <1>1, Starts DEF Asking
<1>3. bearer' = [bearer EXCEPT ![t] = b]
  BY DEF Handed
<1> QED
  BY <1>2, <1>3 DEF Others

(* With its secret a task is done, or goes on to the token request.        *)
LEMMA HasSecretUpdates ==
    ASSUME bearer \in [Bearer -> Asking], instant \in Nat, NEW t \in Bearer,
           NEW secret \in Secret, HasSecret(t, secret)
    PROVE  /\ bearer' \in [Bearer -> Asking] /\ Others(t)
           /\ \/ bearer'[t].pc = "post" /\ bearer'[t].got = bearer[t].got
              \/ /\ bearer'[t].pc = "idle"
                 /\ bearer'[t].got = [from |-> "secret", at |-> instant, secret |-> secret,
                                      token |-> NoToken]
<1>1. CASE credSetting.auth = "bearer_provider"
  <2>1. Handed(t, "secret", secret, NoToken)
    BY <1>1 DEF HasSecret
  <2> QED
    BY <2>1, HandedUpdates, Starts
<1>2. CASE credSetting.auth # "bearer_provider"
  BY <1>2 DEF HasSecret, Asking, Label, Others
<1> QED
  BY <1>1, <1>2

(* A secret that is handed out while it is fresh, or as it is cached.      *)
LEMMA HasSecretOK ==
    ASSUME CredInv, NEW t \in Bearer, NEW secret \in Secret, HasSecret(t, secret),
           Read(secret), instant - secret.at < refresh_after
    PROVE  BearerOK(bearer'[t])
<1>1. CASE bearer'[t].pc = "post" /\ bearer'[t].got = bearer[t].got
  BY <1>1 DEF CredInv, BearerOK
<1>2. CASE /\ bearer'[t].pc = "idle"
           /\ bearer'[t].got = [from |-> "secret", at |-> instant, secret |-> secret,
                                token |-> NoToken]
  BY <1>2 DEF BearerOK
<1> QED
  BY <1>1, <1>2, HasSecretUpdates DEF CredInv, CredTypes

-----------------------------------------------------------------------------
(* The steps of a task.                                                    *)

(* A call begins.                                                          *)
LEMMA GetTokenKeeps == ASSUME CredInv, NEW t \in Bearer, get_token(t) PROVE CredInv'
<1> DEFINE label == IF credSetting.auth = "bearer_provider" THEN "secret" ELSE "cache"
           b == [NotAsking EXCEPT !.pc = label]
<1>1. b \in Asking /\ b.pc \in {"secret", "cache"} /\ b.got.from = "none"
  BY Starts DEF Asking, Label
<1>2. bearer' = [bearer EXCEPT ![t] = b]
  BY DEF get_token
<1>3. bearer' \in [Bearer -> Asking] /\ Others(t) /\ bearer'[t] = b
  BY <1>1, <1>2 DEF CredInv, CredTypes, Others
<1>4. BearerOK(bearer'[t])
  BY <1>1, <1>3 DEF BearerOK
<1>5. LockHeld' /\ OneFetch' /\ CachesOK'
  BY <1>1, <1>3 DEF get_token, Others, CredInv, LockHeld, OneFetch, CachesOK, Read, Timely
<1>6. /\ credCalls' \in Nat /\ credFaults' \in Nat /\ secretState' \in Secret
      /\ secretLock' \in Bearer \cup {NoTask} /\ token_cache' \in Token
      /\ UNCHANGED <<instant, rotated, credSetting>>
  BY DEF get_token, CredInv, CredTypes
<1> QED
  BY <1>3, <1>4, <1>5, <1>6, TaskStep DEF Others

(* The first look into the token cache.                                    *)
LEMMA CheckTokenKeeps == ASSUME CredInv, NEW t \in Bearer, CheckToken(t) PROVE CredInv'
<1> USE CredAssumption DEF CredInv, CredTypes
<1>1. CASE Lasts(token_cache)
  <2>1. Handed(t, "cache", NoSecret, token_cache)
    BY <1>1 DEF CheckToken
  <2>2. /\ bearer' \in [Bearer -> Asking] /\ Others(t) /\ bearer'[t].pc = "idle"
        /\ bearer'[t].got = [from |-> "cache", at |-> instant, secret |-> NoSecret,
                             token |-> token_cache]
    BY <2>1, HandedUpdates, Starts
  <2>3. BearerOK(bearer'[t])
    BY <1>1, <2>2 DEF BearerOK, CachesOK, Lasts
  <2>4. LockHeld' /\ OneFetch' /\ CachesOK'
    BY Zenon, <2>2 DEF CheckToken, Others, LockHeld, OneFetch, CachesOK, Read, Timely
  <2> QED
    BY <2>2, <2>3, <2>4, TaskStep DEF CheckToken, Others
<1>2. CASE ~Lasts(token_cache)
  <2> DEFINE label == IF credSetting.auth = "oauth2" THEN "post" ELSE "secret"
  <2>1. CredAt(t, label) /\ label \in Label
    BY <1>2 DEF CheckToken, Label
  <2> HIDE DEF label
  <2>2. /\ bearer' \in [Bearer -> Asking] /\ Others(t) /\ bearer'[t].pc = label
        /\ bearer'[t].got = bearer[t].got
    BY <2>1, AtUpdates
  <2>3. label \in {"post", "secret"}
    BY DEF label
  <2>4. BearerOK(bearer'[t])
    BY <2>2, <2>3 DEF BearerOK
  <2>5. LockHeld' /\ OneFetch' /\ CachesOK'
    BY <2>2, <2>3 DEF CheckToken, Others, LockHeld, OneFetch, CachesOK, Read, Timely
  <2> QED
    BY <2>2, <2>4, <2>5, TaskStep DEF CheckToken, Others
<1> QED
  BY <1>1, <1>2

(* The first look into the secret cache.                                   *)
LEMMA GetKeeps == ASSUME CredInv, NEW t \in Bearer, get(t) PROVE CredInv'
<1> USE CredAssumption DEF CredInv, CredTypes
<1>1. CASE Fresh
  <2>1. HasSecret(t, secretState)
    BY <1>1 DEF get
  <2>2. BearerOK(bearer'[t])
    BY <1>1, <2>1, HasSecretOK DEF Fresh, CachesOK
  <2>3. /\ bearer' \in [Bearer -> Asking] /\ Others(t)
        /\ bearer'[t].pc \in {"post", "idle"}
    BY Zenon, <2>1, HasSecretUpdates
  <2>4. LockHeld' /\ OneFetch' /\ CachesOK'
    BY <2>3 DEF get, Others, LockHeld, OneFetch, CachesOK, Read, Timely
  <2> QED
    BY <2>2, <2>3, <2>4, TaskStep DEF get, Others
<1>2. CASE ~Fresh
  <2>1. /\ bearer' \in [Bearer -> Asking] /\ Others(t) /\ bearer'[t].pc = "refresh"
        /\ bearer'[t].got = bearer[t].got
    BY <1>2, AtUpdates DEF get, Label
  <2>2. BearerOK(bearer'[t])
    BY <2>1 DEF BearerOK
  <2>3. LockHeld' /\ OneFetch' /\ CachesOK'
    BY Zenon, <2>1 DEF get, Others, LockHeld, OneFetch, CachesOK, Read, Timely
  <2> QED
    BY <2>1, <2>2, <2>3, TaskStep DEF get, Others
<1> QED
  BY <1>1, <1>2

(* The look under the mutex.                                               *)
LEMMA SecondCheckKeeps == ASSUME CredInv, NEW t \in Bearer, SecondCheck(t) PROVE CredInv'
<1> USE CredAssumption DEF CredInv, CredTypes
<1>1. CASE Fresh
  <2>1. HasSecret(t, secretState) /\ UNCHANGED secretLock
    BY <1>1 DEF SecondCheck
  <2>2. BearerOK(bearer'[t])
    BY <1>1, <2>1, HasSecretOK DEF Fresh, CachesOK
  <2>3. /\ bearer' \in [Bearer -> Asking] /\ Others(t)
        /\ bearer'[t].pc \in {"post", "idle"}
    BY Zenon, <2>1, HasSecretUpdates
  <2>4. LockHeld' /\ OneFetch' /\ CachesOK'
    BY Zenon, <2>1, <2>3 DEF SecondCheck, Others, LockHeld, OneFetch, CachesOK, Read, Timely
  <2> QED
    BY <2>1, <2>2, <2>3, <2>4, TaskStep DEF SecondCheck, Others
<1>2. CASE ~Fresh
  <2>1. /\ bearer' \in [Bearer -> Asking] /\ Others(t) /\ bearer'[t].pc = "fetch"
        /\ bearer'[t].got = bearer[t].got /\ secretLock' = t
    BY <1>2, AtUpdates DEF SecondCheck, Label
  <2>2. BearerOK(bearer'[t])
    BY <2>1 DEF BearerOK
  <2>3. LockHeld' /\ CachesOK'
    BY <2>1 DEF SecondCheck, Others, LockHeld, CachesOK, Read, Timely
  <2>4. OneFetch'
    BY <1>2, <2>1 DEF SecondCheck, Others, LockHeld, OneFetch, Fresh, Secret
  <2> QED
    BY <2>1, <2>2, <2>3, <2>4, TaskStep DEF SecondCheck, Others
<1> QED
  BY <1>1, <1>2

(* The provider reads the secret.                                          *)
LEMMA FetchKeeps == ASSUME CredInv, NEW t \in Bearer, fetch(t) PROVE CredInv'
<1> USE CredAssumption DEF CredInv, CredTypes
<1> DEFINE secret == [value |-> Len(rotated) + 1, read |-> instant, at |-> instant]
<1>1. secret \in Secret /\ Read(secret)
  BY DEF Secret, Read
<1>2. bearer' = [bearer EXCEPT ![t].pc = "fetched", ![t].secret = secret]
  BY DEF fetch
<1> HIDE DEF secret
<1>3. /\ bearer' \in [Bearer -> Asking] /\ Others(t) /\ bearer'[t].pc = "fetched"
      /\ bearer'[t].got = bearer[t].got /\ bearer'[t].secret = secret
  BY ZenonT(40), <1>1, <1>2 DEF Asking, Label, Others
<1>4. BearerOK(bearer'[t])
  BY <1>1, <1>3 DEF BearerOK
<1>5. LockHeld' /\ OneFetch' /\ CachesOK'
  BY <1>3 DEF fetch, Others, LockHeld, OneFetch, CachesOK, Read, Timely
<1> QED
  BY Zenon, <1>3, <1>4, <1>5, TaskStep DEF fetch, Others

(* Its answer is cached and the mutex freed.                               *)
LEMMA CacheSecretKeeps == ASSUME CredInv, NEW t \in Bearer, CacheSecret(t) PROVE CredInv'
<1> USE CredAssumption DEF CredInv, CredTypes
<1> DEFINE secret == [bearer[t].secret EXCEPT !.at = instant]
<1>1. bearer[t].secret \in Secret /\ Read(bearer[t].secret)
  BY DEF CacheSecret, BearerOK, Asking
<1>2. secret \in Secret /\ Read(secret) /\ secret.at = instant
  <2>1. /\ secret \in Secret /\ secret.at = instant
        /\ secret.value = bearer[t].secret.value /\ secret.read = bearer[t].secret.read
    BY Zenon, <1>1 DEF Secret
  <2>2. bearer[t].secret.read <= bearer[t].secret.at /\ bearer[t].secret.at <= instant
        /\ bearer[t].secret.read \in Nat /\ bearer[t].secret.at \in Nat
    BY <1>1 DEF Read, Secret
  <2>3. secret.read <= secret.at
    BY SMTT(40), <2>1, <2>2
  <2> QED
    BY <1>1, <2>1, <2>3 DEF Read
<1>3. secretState' = secret /\ HasSecret(t, secret) /\ secretLock' = NoTask
  BY DEF CacheSecret
<1> HIDE DEF secret
<1>4. BearerOK(bearer'[t])
  BY <1>2, <1>3, HasSecretOK
<1>5. /\ bearer' \in [Bearer -> Asking] /\ Others(t)
      /\ bearer'[t].pc \in {"post", "idle"}
  BY Zenon, <1>2, <1>3, HasSecretUpdates
<1>6. \A u \in Bearer : bearer'[u].pc \notin {"fetch", "fetched"}
  BY <1>5 DEF CacheSecret, Others, LockHeld
<1>7. LockHeld' /\ OneFetch'
  BY <1>3, <1>6 DEF LockHeld, OneFetch
<1>8. CachesOK'
  BY Zenon, <1>2, <1>3 DEF CacheSecret, CachesOK, Read, Timely
<1> QED
  BY Zenon, <1>2, <1>3, <1>4, <1>5, <1>7, <1>8, TaskStep DEF CacheSecret, Others

(* The token request is sent.                                              *)
LEMMA PostKeeps == ASSUME CredInv, NEW t \in Bearer, post(t) PROVE CredInv'
<1> USE CredAssumption DEF CredInv, CredTypes
<1>1. /\ bearer' \in [Bearer -> Asking] /\ Others(t) /\ bearer'[t].pc = "sent"
      /\ bearer'[t].got = bearer[t].got /\ bearer'[t].since = instant
  BY ZenonT(40) DEF post, Asking, Label, Others
<1>2. BearerOK(bearer'[t])
  BY <1>1 DEF BearerOK
<1>3. LockHeld' /\ OneFetch' /\ CachesOK'
  BY <1>1 DEF post, Others, LockHeld, OneFetch, CachesOK, Read, Timely
<1> QED
  BY Zenon, <1>1, <1>2, <1>3, TaskStep DEF post, Others

(* The endpoint issues a token.                                            *)
LEMMA IssueKeeps == ASSUME CredInv, NEW t \in Bearer, Issue(t) PROVE CredInv'
<1> USE CredAssumption DEF CredInv, CredTypes
<1>1. PICK ttl \in Ttl :
        bearer' = [bearer EXCEPT ![t].pc = "issued",
                     ![t].token = [issued |-> instant, ttl |-> ttl, expires_at |-> 0]]
  BY Zenon DEF Issue
<1> DEFINE token == [issued |-> instant, ttl |-> ttl, expires_at |-> 0]
<1>2. token \in Token /\ token.issued = instant
  BY DEF Token
<1>3. bearer' = [bearer EXCEPT ![t].pc = "issued", ![t].token = token]
  BY <1>1
<1> HIDE DEF token
<1>4. /\ bearer' \in [Bearer -> Asking] /\ Others(t) /\ bearer'[t].pc = "issued"
      /\ bearer'[t].got = bearer[t].got /\ bearer'[t].since = bearer[t].since
      /\ bearer'[t].token = token
  BY ZenonT(40), <1>2, <1>3 DEF Asking, Label, Others
<1>5. BearerOK(bearer'[t])
  BY <1>2, <1>4 DEF Issue, BearerOK
<1>6. LockHeld' /\ OneFetch' /\ CachesOK'
  BY <1>4 DEF Issue, Others, LockHeld, OneFetch, CachesOK, Read, Timely
<1> QED
  BY Zenon, <1>4, <1>5, <1>6, TaskStep DEF Issue, Others

(* The token is cached: its expiry counts from now, at most the timeout    *)
(* after it was issued.                                                    *)
LEMMA CacheTokenKeeps == ASSUME CredInv, NEW t \in Bearer, CacheToken(t) PROVE CredInv'
<1> USE CredAssumption DEF CredInv, CredTypes
<1> DEFINE old == bearer[t].token
           token == [old EXCEPT !.expires_at = token_expiry(old.ttl)]
<1>1. old \in Token /\ bearer[t].since \in Nat
  BY DEF Asking
<1>2. token_expiry(old.ttl) \in Nat
  BY SMTT(40), <1>1 DEF token_expiry, Token
<1>3. /\ token \in Token /\ token.issued = old.issued /\ token.ttl = old.ttl
      /\ token.expires_at = token_expiry(old.ttl)
  BY Zenon, <1>1, <1>2 DEF Token
<1>4. token_cache' = token /\ bearer' = [bearer EXCEPT ![t] = NotAsking]
  BY DEF CacheToken
<1> HIDE DEF token
<1>5. bearer' \in [Bearer -> Asking] /\ Others(t) /\ bearer'[t] = NotAsking
  BY <1>4, Starts DEF Others
<1>6. credSetting.catalog = "rest" =>
        Timely(token) /\ token.expires_at <= instant + MAX_OAUTH_TOKEN_TTL_SECS
  <2> SUFFICES ASSUME credSetting.catalog = "rest"
               PROVE  Timely(token) /\ token.expires_at <= instant + MAX_OAUTH_TOKEN_TTL_SECS
    OBVIOUS
  <2>1. bearer[t].since <= old.issued /\ instant <= bearer[t].since + request_timeout
    BY DEF CacheToken, BearerOK
  <2>2. old.issued \in Nat /\ old.ttl \in Nat
    BY <1>1 DEF Token
  <2>3. token.expires_at <= instant + old.ttl
        /\ token.expires_at <= instant + MAX_OAUTH_TOKEN_TTL_SECS
    BY <1>3, <2>2 DEF token_expiry
  <2> QED
    BY SMTT(40), <1>1, <1>2, <1>3, <2>1, <2>2, <2>3 DEF Timely
<1>7. CachesOK'
  BY Zenon, <1>4, <1>6 DEF CacheToken, CachesOK, Read, Timely
<1>8. LockHeld' /\ OneFetch'
  BY <1>5, Starts DEF CacheToken, Others, LockHeld, OneFetch
<1>9. BearerOK(bearer'[t])
  BY <1>5, IdleOK
<1> QED
  BY <1>3, <1>4, <1>5, <1>7, <1>8, <1>9, TaskStep DEF CacheToken, Others

(* A call fails or is dropped.                                             *)
LEMMA FailsKeeps == ASSUME CredInv, NEW t \in Bearer, CredFails(t) PROVE CredInv'
<1> USE CredAssumption DEF CredInv, CredTypes
<1>1. bearer' \in [Bearer -> Asking] /\ Others(t) /\ bearer'[t] = NotAsking
  BY Starts DEF CredFails, Others
<1>2. LockHeld' /\ OneFetch'
  BY <1>1, Starts DEF CredFails, Gone, Others, LockHeld, OneFetch
<1>3. CachesOK'
  BY DEF CredFails, CachesOK, Read, Timely
<1>4. BearerOK(bearer'[t])
  BY <1>1, IdleOK
<1>5. credFaults' \in Nat /\ secretLock' \in Bearer \cup {NoTask}
  BY DEF CredFails, Gone
<1> QED
  BY <1>1, <1>2, <1>3, <1>4, <1>5, TaskStep DEF CredFails, Others

-----------------------------------------------------------------------------
(* Rotations and time.                                                     *)

(* A rotation comes after every read so far.                               *)
LEMMA RotateKeeps == ASSUME CredInv, Rotate PROVE CredInv'
<1> USE CredAssumption DEF CredInv, CredTypes
<1>1. rotated' = Append(rotated, instant) /\ UNCHANGED instant
  BY DEF Rotate
<1>2. ASSUME NEW s \in Secret, Read(s) PROVE Read(s)'
  BY <1>1, <1>2 DEF Read, Secret
<1>3. CachesOK'
  BY <1>2 DEF Rotate, CachesOK, Timely
<1>4. ASSUME NEW t \in Bearer PROVE BearerOK(bearer[t])'
  <2>1. bearer[t].secret \in Secret /\ bearer[t].got.secret \in Secret
    BY DEF Asking, Got
  <2>2. BearerOK(bearer[t])
    OBVIOUS
  <2> QED
    BY <1>2, <2>1, <2>2 DEF Rotate, BearerOK, Timely
<1>5. CredTypes' /\ LockHeld' /\ OneFetch'
  BY <1>1 DEF Rotate, LockHeld, OneFetch
<1> QED
  BY <1>3, <1>4, <1>5

(* Time passes, but not past the timeout of a request.                     *)
LEMMA ElapseKeeps == ASSUME CredInv, Elapse PROVE CredInv'
<1> USE CredAssumption DEF CredInv, CredTypes
<1>1. instant' = instant + 1 /\ UNCHANGED <<rotated, bearer, secretState, token_cache, credSetting>>
  BY DEF Elapse
<1>2. ASSUME NEW s \in Secret, Read(s) PROVE Read(s)'
  BY <1>1, <1>2 DEF Read, Secret
<1>3. CachesOK'
  BY <1>1, <1>2 DEF CachesOK, Timely, Token
<1>4. ASSUME NEW t \in Bearer PROVE BearerOK(bearer[t])'
  <2>1. /\ bearer[t].secret \in Secret /\ bearer[t].got.secret \in Secret
        /\ bearer[t].since \in Nat
    BY DEF Asking, Got
  <2>2. BearerOK(bearer[t]) /\ ~TimedOut(t)
    BY DEF Elapse
  <2> QED
    BY <1>1, <1>2, <2>1, <2>2 DEF BearerOK, Timely, TimedOut, InRequest
<1>5. OneFetch'
  BY <1>1 DEF OneFetch, Secret
<1>6. CredTypes' /\ LockHeld'
  BY <1>1 DEF Elapse, LockHeld
<1> QED
  BY <1>3, <1>4, <1>5, <1>6

-----------------------------------------------------------------------------
(* The invariant, and what follows from it.                                *)

(* Every step keeps the invariant.                                         *)
LEMMA NextCredInv == CredInv /\ [CredNext]_credVars => CredInv'
<1> SUFFICES ASSUME CredInv, [CredNext]_credVars PROVE CredInv'
  OBVIOUS
<1>1. ASSUME NEW t \in Bearer, CredStep(t) PROVE CredInv'
  BY Zenon, <1>1, GetTokenKeeps, CheckTokenKeeps, GetKeeps, SecondCheckKeeps, FetchKeeps,
     CacheSecretKeeps, PostKeeps, IssueKeeps, CacheTokenKeeps DEF CredStep
<1>2. CASE UNCHANGED credVars
  BY <1>2 DEF credVars, CredInv, CredTypes, LockHeld, CachesOK, OneFetch, BearerOK, Read, Timely
<1> QED
  BY <1>1, <1>2, FailsKeeps, RotateKeeps, ElapseKeeps DEF CredNext

(* The invariant always holds.                                             *)
LEMMA AlwaysCredInv == CredSpec => []CredInv
BY InitCredInv, NextCredInv, PTL DEF CredSpec

(* Only the task that fetches a secret holds the mutex of RotatingSecret,  *)
(* and token_expiry keeps no token longer than MAX_OAUTH_TOKEN_TTL_SECS.   *)
THEOREM CredentialTypes == CredSpec => []CredTypeOK
<1>1. CredInv => CredTypeOK
  BY DEF CredInv, CredTypes, LockHeld, CachesOK, Read, CredTypeOK
<1> QED
  BY <1>1, AlwaysCredInv, PTL

(* The second check of RotatingSecret::get makes a burst of calls, of any  *)
(* number of tasks, one call of the provider.                              *)
THEOREM BurstFetchesOnce == CredSpec => []OneFetch
BY AlwaysCredInv, PTL DEF CredInv

(* A token that get_token of the Rest catalog takes from its cache has not *)
(* expired at the server, because the 30 s it keeps in hand are no less    *)
(* than the timeout of the request that fetched it.                        *)
THEOREM CachedTokensLive == CredSpec => []TokenLive
<1>1. CredInv => TokenLive
  <2> SUFFICES ASSUME CredInv, credSetting.catalog = "rest", NEW t \in Bearer,
                      bearer[t].got.from = "cache"
               PROVE  bearer[t].got.at < bearer[t].got.token.issued + bearer[t].got.token.ttl
    BY DEF TokenLive
  <2> DEFINE got == bearer[t].got
  <2>1. got.at \in Nat /\ got.token \in Token
    BY DEF CredInv, CredTypes, Asking, Got
  <2>2. Timely(got.token) /\ got.at + margin < got.token.expires_at
    BY DEF CredInv, BearerOK
  <2> HIDE DEF got
  <2>3. got.at < got.token.issued + got.token.ttl
    BY <2>1, <2>2, CredAssumption DEF Timely, Token
  <2> QED
    BY <2>3 DEF got
<1> QED
  BY <1>1, AlwaysCredInv, PTL

(* A secret that RotatingSecret::get hands out was replaced at the         *)
(* provider less than refresh_after ago, on top of what its fetch took.    *)
THEOREM SecretsCurrent == CredSpec => []SecretCurrent
<1>1. CredInv => SecretCurrent
  <2> SUFFICES ASSUME CredInv, NEW t \in Bearer, bearer[t].got.from = "secret",
                      bearer[t].got.secret.value \in DOMAIN rotated
               PROVE  bearer[t].got.at - rotated[bearer[t].got.secret.value]
                        < refresh_after + (bearer[t].got.secret.at - bearer[t].got.secret.read)
    BY DEF SecretCurrent
  <2> DEFINE got == bearer[t].got
             replaced == rotated[got.secret.value]
  <2>1. got.at \in Nat /\ got.secret \in Secret /\ replaced \in Nat
    BY DEF CredInv, CredTypes, Asking, Got
  <2>2. got.at - got.secret.at < refresh_after /\ got.secret.read <= replaced
    BY DEF CredInv, BearerOK, Read
  <2> HIDE DEF got, replaced
  <2>3. got.at - replaced < refresh_after + (got.secret.at - got.secret.read)
    BY <2>1, <2>2, CredAssumption DEF Secret
  <2> QED
    BY <2>3 DEF got, replaced
<1> QED
  BY <1>1, AlwaysCredInv, PTL

(* What RotatingSecret::get and get_token hand out is good when they do,   *)
(* for any number of tasks, rotations and slow or failing requests.        *)
THEOREM CredentialsAreFresh == CredSpec => []CredentialsFresh
BY BurstFetchesOnce, CachedTokensLive, SecretsCurrent, PTL DEF CredentialsFresh
=============================================================================
