----------------------------- MODULE RequestCache -----------------------------
(***************************************************************************)
(* The GET requests that a process serves through CachingInterceptor        *)
(* (src/packages/cache/src/interceptors/caching.interceptor.ts), with       *)
(* handlers that fetch what they return from an upstream server through     *)
(* ApiService.get() (src/packages/http/src/api/api.service.ts), for some    *)
(* endpoints with a token of NativeAuthSigner                               *)
(* (src/packages/http/src/auth/native.auth.signer.ts).                      *)
(*                                                                         *)
(* Three layers save work: the interceptor lets requests with one cache     *)
(* key wait for the first of them and caches its response; the executer of  *)
(* ApiService lets unsigned GETs of one url share one; the signer keeps its *)
(* token.  What the upstream server returns is known by its version; all    *)
(* handlers ask for the same url.  A step is what runs between two awaits.  *)
(***************************************************************************)
EXTENDS Integers, Sequences

CONSTANTS
  Requests,      \* the connections requests come in on, one after another on each
  Keys,          \* the cache keys
  KeyOf,         \* KeyOf[r]: the key getCacheKey() makes of the requests on r
  Signed,        \* the keys whose handlers pass settings.nativeAuthSigner
  MaxVersion,    \* bound on the changes upstream
  Falsy,         \* the versions that are null, 0, '' or false
  CacheDuration, \* seconds a response is cached
  TokenTtl,      \* config.expirySeconds of the signer
  Margin,        \* the minute before its expiry in which a token is not used any more
  OnFailure,     \* what becomes of a failed GET: see Emit and Reject
  MaxFetch,      \* environment: ticks of a GET, which config.timeout bounds
  MaxSign,       \* environment: ticks from asking for a signable token to its signature
  MaxFailures,   \* bound on the failures of GETs and signatures
  Absent,        \* nothing
  Undefined,     \* the value undefined
  Failure,       \* the error of a GET, or the Error of a handler
  Refusal,       \* the error of a signature
  CustomError    \* the plain object that get() throws: getCustomError()

Versions == 0..MaxVersion
NoValues == {Absent, Undefined, Failure, Refusal, CustomError}
Values   == Versions \cup NoValues

ASSUME ConstantsAssumption ==
  /\ KeyOf \in [Requests -> Keys]
  /\ Signed \subseteq Keys
  /\ MaxVersion \in Nat
  /\ Falsy \subseteq Versions
  /\ CacheDuration \in Nat
  /\ TokenTtl \in Nat
  /\ Margin \in Nat \ {0}
  /\ OnFailure \subseteq {"handled", "object", "Error"}
  /\ MaxFetch \in Nat
  /\ MaxSign \in Nat
  /\ MaxFailures \in Nat
  /\ NoValues \cap Nat = {}
  /\ Absent \notin {Undefined, Failure, Refusal, CustomError}
  /\ Undefined \notin {Failure, Refusal, CustomError}
  /\ Failure \notin {Refusal, CustomError}
  /\ Refusal # CustomError
  /\ Absent \notin Requests

VARIABLES
  pc,         \* where each request stands
  data,       \* what its handler has got from upstream
  waited,     \* ticks of the GET or signature it awaits
  leader,     \* the request whose promise it awaits
  response,   \* what it is answered with
  dictionary, \* pendingRequestsDictionary: whose promise it has for a key
  local,      \* the response cached for a key
  localTtl,   \* ... and the ticks it has left
  executer,   \* who awaits the GET that ApiService's executer has pending, its sender first
  tokenTtl,   \* ticks until the expiryDate of the token that is kept
  tokenLife,  \* ticks until the upstream server takes it for expired
  db,         \* the version upstream
  age,        \* age[v]: ticks since v was replaced there
  failures    \* how many GETs and signatures have failed

requestVars == <<pc, data, waited, leader, response>>
cacheVars   == <<local, localTtl>>
tokenVars   == <<tokenTtl, tokenLife>>
sourceVars  == <<db, age>>
vars == <<requestVars, dictionary, cacheVars, executer, tokenVars, sourceVars, failures>>

Less(n) == IF n = 0 THEN 0 ELSE n - 1

\* How long ago at most a version in a response was replaced upstream.
ResponseBound == MaxFetch + Less(CacheDuration)

\* How long at least the upstream server accepts a token that is sent to it.
TokenBound == (IF Margin < TokenTtl THEN Margin ELSE TokenTtl) - MaxSign

IsSigned(r) == KeyOf[r] \in Signed

NoResponse == [ok |-> FALSE, body |-> Absent]

Init ==
  /\ pc = [r \in Requests |-> "idle"]
  /\ data = [r \in Requests |-> Absent]
  /\ waited = [r \in Requests |-> 0]
  /\ leader = [r \in Requests |-> Absent]
  /\ response = [r \in Requests |-> NoResponse]
  /\ dictionary = [k \in Keys |-> Absent]
  /\ local = [k \in Keys |-> Absent]
  /\ localTtl = [k \in Keys |-> 0]
  /\ executer = <<>>
  /\ tokenTtl = 0
  /\ tokenLife = 0
  /\ db = 0
  /\ age = [v \in Versions |-> 0]
  /\ failures = 0

------------------------------------------------------------------------------
(* CachingInterceptor, before the handler *)

Goto(r, s) == pc' = [pc EXCEPT ![r] = s]

\* The requests in S are answered with the response e.
Answer(S, e) ==
  /\ pc' = [r \in Requests |-> IF r \in S THEN "answered" ELSE pc[r]]
  /\ response' = [r \in Requests |-> IF r \in S THEN e ELSE response[r]]

\* A request awaits the promise that is in the dictionary, or else awaits
\* getLocal(), which gives others of the same turn time to come here too.
Arrive(r) ==
  /\ pc[r] = "idle"
  /\ leader' = [leader EXCEPT ![r] = dictionary[KeyOf[r]]]
  /\ Goto(r, IF dictionary[KeyOf[r]] = Absent THEN "looking" ELSE "waiting")
  /\ UNCHANGED <<data, waited, response, dictionary, cacheVars, executer, tokenVars, sourceVars, failures>>

IsHit(k) == local[k] # Absent /\ local[k] \notin Falsy

\* Mutant of Hit: a cached response lives on when it is used.
HitAndKept(r) ==
  /\ pc[r] = "looking"
  /\ IsHit(KeyOf[r])
  /\ Answer({r}, [ok |-> TRUE, body |-> local[KeyOf[r]]])
  /\ localTtl' = [localTtl EXCEPT ![KeyOf[r]] = CacheDuration]
  /\ UNCHANGED <<data, waited, leader, dictionary, local, executer, tokenVars, sourceVars, failures>>

\* The response is in the cache.
Hit(r) ==
  /\ pc[r] = "looking"
  /\ IsHit(KeyOf[r])
  /\ Answer({r}, [ok |-> TRUE, body |-> local[KeyOf[r]]])
  /\ UNCHANGED <<data, waited, leader, dictionary, cacheVars, executer, tokenVars, sourceVars, failures>>

\* It is not: the request puts its promise into the dictionary, over the one of
\* whoever was as quick, and its handler starts.
Lead(r) ==
  /\ pc[r] = "looking"
  /\ ~IsHit(KeyOf[r])
  /\ dictionary' = [dictionary EXCEPT ![KeyOf[r]] = r]
  /\ Goto(r, "handling")
  /\ UNCHANGED <<data, waited, leader, response, cacheVars, executer, tokenVars, sourceVars, failures>>

------------------------------------------------------------------------------
(* ApiService.get() *)

\* The GET goes out.
Send(r) ==
  /\ Goto(r, "fetching")
  /\ waited' = [waited EXCEPT ![r] = 0]

\* Without a signer, the GET goes through the executer: it joins the one that is
\* pending for the url.
Get(r) ==
  /\ pc[r] = "handling"
  /\ ~IsSigned(r)
  /\ executer' = Append(executer, r)
  /\ IF executer = <<>> THEN Send(r) ELSE Goto(r, "sharing") /\ UNCHANGED waited
  /\ UNCHANGED <<data, leader, response, dictionary, cacheVars, tokenVars, sourceVars, failures>>

\* Mutant of IsFresh: a token is used up to its end.
IsNotExpired == tokenTtl > 0

\* getToken() finds its token good for the next minute.
IsFresh == tokenTtl >= Margin

\* With a signer, getConfig() awaits its token: the one that is kept, or a new one.
\* What carries a token is not shared.
GetSigned(r) ==
  /\ pc[r] = "handling"
  /\ IsSigned(r)
  /\ IF IsFresh THEN Send(r) ELSE Goto(r, "signing") /\ waited' = [waited EXCEPT ![r] = 0]
  /\ UNCHANGED <<data, leader, response, dictionary, cacheVars, executer, tokenVars, sourceVars, failures>>

\* The new token is signed.  It lives from the block it was made of, d ticks ago,
\* and its expiryDate counts from now.  It replaces what another caller may have
\* put there since, and the GET goes out.
SignReturns(r) ==
  /\ pc[r] = "signing"
  /\ tokenTtl' = TokenTtl
  /\ \E d \in 0..waited[r] : tokenLife' = IF d < TokenTtl THEN TokenTtl - d ELSE 0
  /\ Send(r)
  /\ UNCHANGED <<data, leader, response, dictionary, cacheVars, executer, sourceVars, failures>>

\* getToken() rejects, outside the try block of get().
SignFails(r) ==
  /\ pc[r] = "signing"
  /\ failures < MaxFailures
  /\ failures' = failures + 1
  /\ Goto(r, "settled")
  /\ data' = [data EXCEPT ![r] = Refusal]
  /\ UNCHANGED <<waited, leader, response, dictionary, cacheVars, executer, tokenVars, sourceVars>>

\* The upstream server reads what it will answer with.
ReadSource(r) ==
  /\ pc[r] = "fetching"
  /\ data[r] = Absent
  /\ data' = [data EXCEPT ![r] = db]
  /\ UNCHANGED <<pc, waited, leader, response, dictionary, cacheVars, executer, tokenVars, sourceVars, failures>>

\* Mutant of Crew: the entry of the executer goes before those who joined it are served.
CrewAlone(r) == {r}

\* Who gets the outcome of r's GET.
Crew(r) == IF IsSigned(r) THEN {r} ELSE {executer[k] : k \in DOMAIN executer}

\* The GET of r settles with v: for all who await it.
Settle(r, v) ==
  /\ pc' = [s \in Requests |-> IF s \in Crew(r) THEN "settled" ELSE pc[s]]
  /\ data' = [s \in Requests |-> IF s \in Crew(r) THEN v ELSE data[s]]
  /\ executer' = IF IsSigned(r) THEN executer ELSE <<>>
  /\ UNCHANGED <<waited, leader, response, dictionary, cacheVars, tokenVars, sourceVars>>

FetchReturns(r) ==
  /\ pc[r] = "fetching"
  /\ data[r] # Absent
  /\ Settle(r, data[r])
  /\ UNCHANGED failures

FetchFails(r) ==
  /\ pc[r] = "fetching"
  /\ failures < MaxFailures
  /\ failures' = failures + 1
  /\ Settle(r, Failure)

------------------------------------------------------------------------------
(* CachingInterceptor, after the handler *)

\* Mutant of Followers: those who await the promise that is in the dictionary.
FollowersByKey(r) == {s \in Requests : pc[s] = "waiting" /\ leader[s] = dictionary[KeyOf[r]]}

\* Who awaits the promise of r.
Followers(r) == {s \in Requests : pc[s] = "waiting" /\ leader[s] = r}

\* Mutant of Remember: the duration is taken for milliseconds.
RememberForMs(k, v) ==
  /\ local' = [local EXCEPT ![k] = v]
  /\ localTtl' = [localTtl EXCEPT ![k] = 1000 * CacheDuration]

\* setLocal() of the response v: not without a duration, and not of undefined.
Remember(k, v) ==
  IF v \in Versions /\ CacheDuration > 0
  THEN /\ local' = [local EXCEPT ![k] = v]
       /\ localTtl' = [localTtl EXCEPT ![k] = CacheDuration]
  ELSE UNCHANGED cacheVars

\* The handler emits v, what get() returned; undefined if the error handler of
\* get() has handled an error.  Whatever promise is in the dictionary goes out of
\* it, the followers of r are answered, and the response is cached.
Emit(r, v) ==
  /\ pc[r] = "settled"
  /\ \/ v = data[r] /\ v \in Versions
     \/ v = Undefined /\ data[r] = Failure /\ "handled" \in OnFailure
  /\ dictionary' = [dictionary EXCEPT ![KeyOf[r]] = Absent]
  /\ Answer({r} \cup Followers(r), [ok |-> TRUE, body |-> v])
  /\ Remember(KeyOf[r], v)
  /\ UNCHANGED <<data, waited, leader, executer, tokenVars, sourceVars, failures>>

\* What the error of a handler is: that of a signature passes through get() as it
\* is, that of a GET becomes a plain object, which a handler may wrap in an Error.
ErrorKinds(r) ==
  CASE data[r] = Refusal -> {"Error"}
    [] data[r] = Failure -> OnFailure \ {"handled"}
    [] OTHER -> {}

\* What the handler throws.
Thrown(kind) == IF kind = "object" THEN CustomError ELSE Failure

\* Mutant of Reject: the promise is left pending.
RejectAlone(r, kind) ==
  /\ pc[r] = "settled"
  /\ kind \in ErrorKinds(r)
  /\ dictionary' = [dictionary EXCEPT ![KeyOf[r]] = Absent]
  /\ Answer({r}, [ok |-> FALSE, body |-> Thrown(kind)])
  /\ UNCHANGED <<data, waited, leader, cacheVars, executer, tokenVars, sourceVars, failures>>

\* Mutant of IsSuccess: the result of a promise is what it resolves to.
IsResolved(kind) == TRUE

\* What the followers make of it: result instanceof Error.
IsSuccess(kind) == kind # "Error"

\* The handler throws: r is answered with an error, its followers with what they
\* take the error for.
Reject(r, kind) ==
  /\ pc[r] = "settled"
  /\ kind \in ErrorKinds(r)
  /\ dictionary' = [dictionary EXCEPT ![KeyOf[r]] = Absent]
  /\ pc' = [s \in Requests |-> IF s = r \/ s \in Followers(r) THEN "answered" ELSE pc[s]]
  /\ response' = [s \in Requests |->
       CASE s = r -> [ok |-> FALSE, body |-> Thrown(kind)]
         [] s \in Followers(r) -> [ok |-> IsSuccess(kind), body |-> Thrown(kind)]
         [] OTHER -> response[s]]
  /\ UNCHANGED <<data, waited, leader, cacheVars, executer, tokenVars, sourceVars, failures>>

\* The response is sent, and the next request may come in on the connection.
Leave(r) ==
  /\ pc[r] = "answered"
  /\ Goto(r, "idle")
  /\ data' = [data EXCEPT ![r] = Absent]
  /\ waited' = [waited EXCEPT ![r] = 0]
  /\ leader' = [leader EXCEPT ![r] = Absent]
  /\ response' = [response EXCEPT ![r] = NoResponse]
  /\ UNCHANGED <<dictionary, cacheVars, executer, tokenVars, sourceVars, failures>>

------------------------------------------------------------------------------
(* The environment *)

\* What the upstream server serves changes.
Change ==
  /\ db < MaxVersion
  /\ db' = db + 1
  /\ UNCHANGED <<requestVars, dictionary, cacheVars, executer, tokenVars, age, failures>>

\* The LRU cache drops the response to make room for others.
Evict(k) ==
  /\ local[k] # Absent
  /\ local' = [local EXCEPT ![k] = Absent]
  /\ localTtl' = [localTtl EXCEPT ![k] = 0]
  /\ UNCHANGED <<requestVars, dictionary, executer, tokenVars, sourceVars, failures>>

\* A unit of time may pass once everyone awaits an answer that is not overdue.
NothingOverdue ==
  \A r \in Requests :
    /\ pc[r] \in {"idle", "waiting", "sharing", "fetching", "signing"}
    /\ pc[r] = "fetching" => waited[r] < MaxFetch
    /\ pc[r] = "signing" => waited[r] < MaxSign

Tick ==
  /\ NothingOverdue
  /\ waited' = [r \in Requests |-> IF pc[r] \in {"fetching", "signing"} THEN waited[r] + 1 ELSE waited[r]]
  /\ localTtl' = [k \in Keys |-> Less(localTtl[k])]
  /\ local' = [k \in Keys |-> IF localTtl[k] <= 1 THEN Absent ELSE local[k]]
  /\ tokenTtl' = Less(tokenTtl)
  /\ tokenLife' = Less(tokenLife)
  /\ age' = [v \in Versions |-> IF v < db /\ age[v] <= MaxFetch + CacheDuration THEN age[v] + 1 ELSE age[v]]
  /\ UNCHANGED <<pc, data, leader, response, dictionary, executer, db, failures>>

------------------------------------------------------------------------------
\* What happens to a request that has come in.
Proceed(r) ==
  \/ Hit(r)
  \/ Lead(r)
  \/ Get(r)
  \/ GetSigned(r)
  \/ SignReturns(r)
  \/ SignFails(r)
  \/ ReadSource(r)
  \/ FetchReturns(r)
  \/ FetchFails(r)
  \/ \E v \in Values : Emit(r, v)
  \/ \E kind \in {"object", "Error"} : Reject(r, kind)
  \/ Leave(r)

Next ==
  \/ \E r \in Requests : Arrive(r) \/ Proceed(r)
  \/ Change
  \/ \E k \in Keys : Evict(k)
  \/ Tick

Spec == Init /\ [][Next]_vars

\* The event loop runs what is ready; a GET settles, as its timeout sees to, and so
\* does a signature.
Fairness == \A r \in Requests : WF_vars(Proceed(r))

FairSpec == Spec /\ Fairness

------------------------------------------------------------------------------
(* Properties *)

Handling == {"handling", "signing", "fetching", "sharing", "settled"}

\* Every variable stays within its type.
TypeOK ==
  /\ pc \in [Requests -> {"idle", "looking", "waiting", "answered"} \cup Handling]
  /\ data \in [Requests -> Values]
  /\ waited \in [Requests -> Nat]
  /\ leader \in [Requests -> Requests \cup {Absent}]
  /\ response \in [Requests -> [ok : BOOLEAN, body : Values]]
  /\ dictionary \in [Keys -> Requests \cup {Absent}]
  /\ local \in [Keys -> Versions \cup {Absent}]
  /\ localTtl \in [Keys -> 0..CacheDuration]
  /\ executer \in Seq(Requests)
  /\ tokenTtl \in 0..TokenTtl
  /\ tokenLife \in 0..TokenTtl
  /\ db \in Versions
  /\ age \in [Versions -> Nat]
  /\ failures \in 0..MaxFailures

\* Nobody waits for a promise that nobody will settle, though promises hide each
\* other in the dictionary and requests delete each other's: who is in the
\* dictionary, or is waited for, has a handler that runs for the same key.
PromisesAreAlive ==
  /\ \A k \in Keys : dictionary[k] # Absent =>
       pc[dictionary[k]] \in Handling /\ KeyOf[dictionary[k]] = k
  /\ \A r \in Requests : pc[r] = "waiting" =>
       pc[leader[r]] \in Handling /\ KeyOf[leader[r]] = KeyOf[r]

\* One unsigned GET of the url is out at a time, whichever keys and however many leaders
\* ask for it, and whoever shares it is in the list of those it will be settled for.
GetsAreShared ==
  /\ \A r, s \in Requests :
       pc[r] = "fetching" /\ pc[s] = "fetching" /\ ~IsSigned(r) /\ ~IsSigned(s) => r = s
  /\ \A r \in Requests : pc[r] = "sharing" =>
       /\ \E k \in DOMAIN executer : executer[k] = r
       /\ pc[executer[1]] = "fetching"

\* No response is older than one GET and one life in the cache together, also when
\* its request joined others in both layers and late handlers overwrite the cache.
BoundedStaleness ==
  \A r \in Requests : pc[r] = "answered" /\ response[r].body \in Versions =>
    age[response[r].body] <= ResponseBound

\* What a handler throws is an error to the request it ran for, and if it is an Error, to
\* everyone who waited too.  To those who waited for a handler that lets the plain object of
\* ApiService through, and to nobody else, that object is a response like any other.
ErrorsStayErrors ==
  \A r \in Requests : response[r].body \in {Failure, CustomError} =>
    (response[r].ok <=> response[r].body = CustomError /\ leader[r] # Absent)

\* The upstream server accepts every token that is sent to it for TokenBound more
\* ticks, however many callers sign and replace each other's tokens meanwhile.
TokensLast ==
  [][\A r \in Requests :
       IsSigned(r) /\ pc[r] \in {"handling", "signing"} /\ pc'[r] = "fetching" => tokenLife' >= TokenBound]_vars

\* Where a request stands with the executer of ApiService, and what that gave it.
Standing(r) ==
  IF IsSigned(r) THEN "out"
  ELSE CASE pc[r] = "fetching" -> "running"
         [] pc[r] = "sharing" -> "joined"
         [] pc[r] = "settled" -> "settled"
         [] OTHER -> "out"

Given(r) == IF Standing(r) = "settled" THEN data[r] ELSE Absent

Executer == INSTANCE SharedCalls WITH
  Callers <- Requests,
  KeyOf   <- [r \in Requests |-> "url"],
  Outcomes <- Versions \cup {Failure},
  None    <- Absent,
  phase   <- [r \in Requests |-> Standing(r)],
  outcome <- [r \in Requests |-> Given(r)]

\* The unsigned GETs share their calls as PendingExecuter promises: every handler that asks while
\* a GET is out gets the response, or the error, of that one, and signed ones neither get nor give any.
ImplementsSharedCalls == Executer!Spec

\* Every request is answered.
RequestsAreAnswered == \A r \in Requests : pc[r] # "idle" ~> pc[r] = "idle"

==============================================================================
