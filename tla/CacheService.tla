----------------------------- MODULE CacheService -----------------------------
(***************************************************************************)
(* CacheService (src/packages/cache/src/cache/cache.service.ts) for one    *)
(* key: an in-memory cache in every Node.js process in front of one Redis  *)
(* that the processes share, and the PendingExecuter that lets concurrent  *)
(* callers of a process share one createValueFunc().                       *)
(*                                                                         *)
(* A caller is one asynchronous context of a process that calls one method *)
(* after another.  The value of the key is known by its version in the     *)
(* data source that createValueFunc() reads and that writers change.       *)
(* Each process has one pipelined connection to Redis: commands are        *)
(* executed and answered in the order they were sent.                      *)
(***************************************************************************)
EXTENDS Integers, Sequences

CONSTANTS
  Nodes,         \* the processes
  Callers,       \* the asynchronous contexts that use the cache
  Home,          \* Home[c]: the process c runs in
  Calls,         \* the methods they call
  MaxVersion,    \* bound on the writes to the data source
  Undefineds,    \* the versions whose value is undefined
  Nulls,         \* the versions whose value is null
  CacheNullable, \* the parameter cacheNullable
  Absent,        \* no value: what a cache answers on a miss
  Ttl,           \* the parameter ttl: seconds in Redis
  InMemoryTtl,   \* the parameter inMemoryTtl: seconds in a process
  MaxDelay,      \* environment: ticks from sending a command to its answer
  MaxCreate,     \* environment: ticks of createValueFunc(), and from a write to its cache call
  MaxFailures    \* bound on the failures of Redis and of createValueFunc()

Versions == 0..MaxVersion

\* The methods by what they do.
ThroughReads == {"getOrSet", "getOrSetLocal", "getOrSetRemote"}
PlainReads   == {"get", "getRemote", "refreshLocal"}
Refreshes    == {"setOrUpdate", "setOrUpdateLocal", "setOrUpdateRemote"}
Sets         == {"set", "setLocal", "setRemote"}
Deletes      == {"delete", "deleteLocal", "deleteRemote"}
Methods      == ThroughReads \cup PlainReads \cup Refreshes \cup Sets \cup Deletes

LocalOnly  == {"getOrSetLocal", "setOrUpdateLocal", "setLocal", "deleteLocal"}
RemoteOnly == {"getOrSetRemote", "setOrUpdateRemote", "setRemote", "deleteRemote", "getRemote"}

ASSUME ConstantsAssumption ==
  /\ Home \in [Callers -> Nodes]
  /\ Calls \subseteq Methods
  /\ MaxVersion \in Nat
  /\ Undefineds \subseteq Versions
  /\ Nulls \subseteq Versions
  /\ CacheNullable \in BOOLEAN
  /\ Absent \notin Nat
  /\ Ttl \in Nat
  /\ InMemoryTtl \in Nat
  /\ MaxDelay \in Nat
  /\ MaxCreate \in Nat
  /\ MaxFailures \in Nat

VARIABLES
  pc,         \* what each caller is doing
  method,     \* the method it is in
  data,       \* the version it created or wrote
  waited,     \* ticks since it began to create or wrote
  pending,    \* pending[n]: who awaits the promise in n's dictionary, its creator first
  local,      \* local[n]: the version in n's memory
  localTtl,   \* ... and the ticks it has left
  remote,     \* the version in Redis
  remoteTtl,  \* ... and the ticks it has left
  requests,   \* requests[n]: the commands of n that Redis has not executed, oldest first
  replies,    \* replies[n]: the answers on their way to n, oldest first
  db,         \* the version in the data source
  age,        \* age[v]: ticks since version v was overwritten there
  failures    \* how often Redis or createValueFunc() failed

callerVars == <<pc, method, data, waited>>
localVars  == <<local, localTtl>>
remoteVars == <<remote, remoteTtl>>
connVars   == <<requests, replies>>
sourceVars == <<db, age>>
vars == <<callerVars, pending, localVars, remoteVars, connVars, sourceVars, failures>>

Less(n) == IF n = 0 THEN 0 ELSE n - 1

\* How long ago at most the version in Redis, and the one in a process, was overwritten.
RemoteBound == MaxCreate + MaxDelay + Ttl
LocalBound  == MaxCreate + MaxDelay + Less(Ttl) + MaxDelay + InMemoryTtl

\* Mutant of Storable: null is dropped only where undefined is.
StorableUnlessUndefined(v) == v \notin Undefineds

\* set() of both caches drops undefined, and null unless cacheNullable.
Storable(v) == v \notin Undefineds /\ (v \in Nulls => CacheNullable)

UsesLocal(m)  == m \notin RemoteOnly
UsesRemote(m) == m \notin LocalOnly

\* The methods that create the value through executeWithPendingPromise().
UsesExecuter(m) == m \in ThroughReads \cup {"setOrUpdate"}

------------------------------------------------------------------------------
Init ==
  /\ pc = [c \in Callers |-> "idle"]
  /\ method = [c \in Callers |-> "get"]
  /\ data = [c \in Callers |-> Absent]
  /\ waited = [c \in Callers |-> 0]
  /\ pending = [n \in Nodes |-> <<>>]
  /\ local = [n \in Nodes |-> Absent]
  /\ localTtl = [n \in Nodes |-> 0]
  /\ remote = Absent
  /\ remoteTtl = 0
  /\ requests = [n \in Nodes |-> <<>>]
  /\ replies = [n \in Nodes |-> <<>>]
  /\ db = 0
  /\ age = [v \in Versions |-> 0]
  /\ failures = 0

\* c, in method m, goes to state s with the version v.
Goto(c, s, m, v) ==
  /\ pc' = [pc EXCEPT ![c] = s]
  /\ method' = [method EXCEPT ![c] = m]
  /\ data' = [data EXCEPT ![c] = v]
  /\ waited' = [waited EXCEPT ![c] = 0]

\* c's method returns or throws.
Return(c) == Goto(c, "idle", "get", Absent)

\* A command and its answer: for whom, the value stored or read, and its age in ticks.
Message == [by : Callers, op : {"GET", "SET", "DEL"}, v : Versions \cup {Absent}, age : 0..MaxDelay]

\* The process of c sends a command for it.
Send(c, op, v) ==
  requests' = [requests EXCEPT ![Home[c]] = Append(@, [by |-> c, op |-> op, v |-> v, age |-> 0])]

------------------------------------------------------------------------------
(* The in-memory cache *)

\* Mutant of SetLocal: the memory gets the ttl that is meant for Redis.
SetLocalForTtl(n, v) ==
  IF Storable(v) /\ InMemoryTtl > 0
  THEN /\ local' = [local EXCEPT ![n] = v]
       /\ localTtl' = [localTtl EXCEPT ![n] = Ttl]
  ELSE UNCHANGED localVars

\* InMemoryCacheService.set(): an entry without life is not stored.
SetLocal(n, v) ==
  IF Storable(v) /\ InMemoryTtl > 0
  THEN /\ local' = [local EXCEPT ![n] = v]
       /\ localTtl' = [localTtl EXCEPT ![n] = InMemoryTtl]
  ELSE UNCHANGED localVars

DeleteLocal(n) ==
  /\ local' = [local EXCEPT ![n] = Absent]
  /\ localTtl' = [localTtl EXCEPT ![n] = 0]

\* The LRU cache drops the entry to make room for other keys.
Evict(n) ==
  /\ local[n] # Absent
  /\ DeleteLocal(n)
  /\ UNCHANGED <<callerVars, pending, remoteVars, connVars, sourceVars, failures>>

------------------------------------------------------------------------------
(* PendingExecuter *)

\* c needs the value created.  execute(): it joins the creation that is under way in
\* its process for the key, or starts one of its own.
Load(c, m) ==
  IF UsesExecuter(m)
  THEN /\ Goto(c, IF pending[Home[c]] = <<>> THEN "creating" ELSE "joined", m, Absent)
       /\ pending' = [pending EXCEPT ![Home[c]] = Append(@, c)]
  ELSE /\ Goto(c, "creating", m, Absent)
       /\ UNCHANGED pending

\* Who gets the outcome of c's createValueFunc().
Crew(c) ==
  IF UsesExecuter(method[c])
  THEN {pending[Home[c]][k] : k \in DOMAIN pending[Home[c]]}
  ELSE {c}

\* The dictionary once c's promise has settled.
Settled(c) ==
  IF UsesExecuter(method[c]) THEN [pending EXCEPT ![Home[c]] = <<>>] ELSE pending

\* createValueFunc() reads the data source ...
ReadSource(c) ==
  /\ pc[c] = "creating"
  /\ data[c] = Absent
  /\ data' = [data EXCEPT ![c] = db]
  /\ UNCHANGED <<pc, method, waited, pending, localVars, remoteVars, connVars, sourceVars, failures>>

\* Mutant of CreateReturns: those who joined get what is in the data source by then.
CreateReturnsAnew(c) ==
  /\ pc[c] = "creating"
  /\ data[c] # Absent
  /\ pc' = [d \in Callers |-> IF d \in Crew(c) THEN "loaded" ELSE pc[d]]
  /\ data' = [d \in Callers |-> IF d = c \/ d \notin Crew(c) THEN data[d] ELSE db]
  /\ waited' = [d \in Callers |-> IF d \in Crew(c) THEN 0 ELSE waited[d]]
  /\ pending' = Settled(c)
  /\ UNCHANGED <<method, localVars, remoteVars, connVars, sourceVars, failures>>

\* ... and returns what it read: the entry is deleted and all who await the promise
\* go on, each in a microtask of its own.
CreateReturns(c) ==
  /\ pc[c] = "creating"
  /\ data[c] # Absent
  /\ pc' = [d \in Callers |-> IF d \in Crew(c) THEN "loaded" ELSE pc[d]]
  /\ data' = [d \in Callers |-> IF d \in Crew(c) THEN data[c] ELSE data[d]]
  /\ waited' = [d \in Callers |-> IF d \in Crew(c) THEN 0 ELSE waited[d]]
  /\ pending' = Settled(c)
  /\ UNCHANGED <<method, localVars, remoteVars, connVars, sourceVars, failures>>

\* Mutant of CreateFails: the entry is deleted only when the promise is fulfilled.
CreateFailsUnnoticed(c) ==
  /\ pc[c] = "creating"
  /\ failures < MaxFailures
  /\ failures' = failures + 1
  /\ Return(c)
  /\ UNCHANGED <<pending, localVars, remoteVars, connVars, sourceVars>>

\* createValueFunc() rejects: the entry is deleted too, and all of them throw.
CreateFails(c) ==
  /\ pc[c] = "creating"
  /\ failures < MaxFailures
  /\ failures' = failures + 1
  /\ pc' = [d \in Callers |-> IF d \in Crew(c) THEN "idle" ELSE pc[d]]
  /\ method' = [d \in Callers |-> IF d \in Crew(c) THEN "get" ELSE method[d]]
  /\ data' = [d \in Callers |-> IF d \in Crew(c) THEN Absent ELSE data[d]]
  /\ waited' = [d \in Callers |-> IF d \in Crew(c) THEN 0 ELSE waited[d]]
  /\ pending' = Settled(c)
  /\ UNCHANGED <<localVars, remoteVars, connVars, sourceVars>>

------------------------------------------------------------------------------
(* The methods *)

\* What does not let c find its value in memory.  get() takes null for a miss.
LocalMiss(c, m) ==
  CASE m \in {"getOrSet", "getOrSetLocal"} -> local[Home[c]] = Absent
    [] m = "get" -> local[Home[c]] \in {Absent} \cup Nulls
    [] OTHER -> TRUE

\* A method that asks Redis first.  With a value in memory it returns that at once,
\* which changes nothing.
Ask(c, m) ==
  /\ pc[c] = "idle"
  /\ m \in PlainReads \cup {"getOrSet", "getOrSetRemote"}
  /\ LocalMiss(c, m)
  /\ Goto(c, "reading", m, Absent)
  /\ Send(c, "GET", Absent)
  /\ UNCHANGED <<pending, localVars, remoteVars, replies, sourceVars, failures>>

\* A method that creates the value without asking Redis.
Create(c, m) ==
  /\ pc[c] = "idle"
  /\ m \in Refreshes \cup {"getOrSetLocal"}
  /\ LocalMiss(c, m)
  /\ Load(c, m)
  /\ UNCHANGED <<localVars, remoteVars, connVars, sourceVars, failures>>

\* c stores v.  getOrSet() sets the memory only when Redis has answered; the others
\* set it while the SET is on its way.
Store(c, m, v) ==
  LET sends == UsesRemote(m) /\ Storable(v) /\ Ttl > 0
  IN /\ IF sends
        THEN Goto(c, "storing", m, Absent) /\ Send(c, "SET", v)
        ELSE Return(c) /\ UNCHANGED requests
     /\ IF UsesLocal(m) /\ (m = "getOrSet" => ~sends)
        THEN SetLocal(Home[c], v)
        ELSE UNCHANGED localVars

\* c has the created value.
Continue(c) ==
  /\ pc[c] = "loaded"
  /\ Store(c, method[c], data[c])
  /\ UNCHANGED <<pending, remoteVars, replies, sourceVars, failures>>

\* A writer changes the data source, on its way to a set() or a delete().
Write(c) ==
  /\ pc[c] = "idle"
  /\ Calls \cap (Sets \cup Deletes) # {}
  /\ db < MaxVersion
  /\ db' = db + 1
  /\ Goto(c, "wrote", "get", db + 1)
  /\ UNCHANGED <<pending, localVars, remoteVars, connVars, age, failures>>

Set(c, m) ==
  /\ pc[c] = "wrote"
  /\ m \in Sets
  /\ Store(c, m, data[c])
  /\ UNCHANGED <<pending, remoteVars, replies, sourceVars, failures>>

Delete(c, m) ==
  /\ pc[c] = "wrote"
  /\ m \in Deletes
  /\ IF UsesRemote(m)
     THEN Goto(c, "deleting", m, Absent) /\ Send(c, "DEL", Absent)
     ELSE Return(c) /\ UNCHANGED requests
  /\ IF UsesLocal(m) THEN DeleteLocal(Home[c]) ELSE UNCHANGED localVars
  /\ UNCHANGED <<pending, remoteVars, replies, sourceVars, failures>>

------------------------------------------------------------------------------
(* Redis *)

\* GET, SET EX or DEL.
Apply(m) ==
  CASE m.op = "GET" -> UNCHANGED remoteVars
    [] m.op = "SET" -> remote' = m.v /\ remoteTtl' = Ttl
    [] m.op = "DEL" -> remote' = Absent /\ remoteTtl' = 0

\* The oldest command of n is done; a GET is answered with v.
Serve(n, v) ==
  LET m == Head(requests[n])
  IN /\ requests' = [requests EXCEPT ![n] = Tail(@)]
     /\ replies' = [replies EXCEPT ![n] = Append(@, IF m.op = "GET" THEN [m EXCEPT !.v = v] ELSE m)]

Execute(n) ==
  /\ requests[n] # <<>>
  /\ Apply(Head(requests[n]))
  /\ Serve(n, remote)
  /\ UNCHANGED <<callerVars, pending, localVars, sourceVars, failures>>

\* The command's promise rejects, executed or not, and RedisCacheService logs that:
\* get() answers undefined, set() and delete() return as if they had succeeded.
Fail(n) ==
  /\ requests[n] # <<>>
  /\ failures < MaxFailures
  /\ failures' = failures + 1
  /\ Apply(Head(requests[n])) \/ UNCHANGED remoteVars
  /\ Serve(n, Absent)
  /\ UNCHANGED <<callerVars, pending, localVars, sourceVars>>

\* Mutant of Found: what Redis had is stored there again.
FoundAndStored(c, v) ==
  /\ IF method[c] \in ThroughReads
     THEN Goto(c, "storing", method[c], Absent) /\ Send(c, "SET", v)
     ELSE Return(c) /\ UNCHANGED requests
  /\ CASE method[c] = "getOrSet" -> SetLocal(Home[c], v)
       [] method[c] = "refreshLocal" -> IF v \in Nulls THEN DeleteLocal(Home[c]) ELSE SetLocal(Home[c], v)
       [] OTHER -> UNCHANGED localVars

\* Redis had v: getOrSet() and refreshLocal() put it into the memory.
Found(c, v) ==
  /\ Return(c)
  /\ UNCHANGED requests
  /\ CASE method[c] = "getOrSet" -> SetLocal(Home[c], v)
       [] method[c] = "refreshLocal" -> IF v \in Nulls THEN DeleteLocal(Home[c]) ELSE SetLocal(Home[c], v)
       [] OTHER -> UNCHANGED localVars

\* Redis had nothing, or could not tell.
NotFound(c) ==
  /\ UNCHANGED requests
  /\ IF method[c] = "refreshLocal" THEN DeleteLocal(Home[c]) ELSE UNCHANGED localVars
  /\ IF method[c] \in ThroughReads
     THEN Load(c, method[c])
     ELSE Return(c) /\ UNCHANGED pending

Answer(c) == Head(replies[Home[c]])

\* The answer that c awaits arrives.
Answered(c) ==
  /\ replies[Home[c]] # <<>>
  /\ Answer(c).by = c
  /\ replies' = [replies EXCEPT ![Home[c]] = Tail(@)]
  /\ UNCHANGED <<remoteVars, sourceVars, failures>>

ReadAnswered(c) ==
  /\ pc[c] = "reading"
  /\ Answered(c)
  /\ \/ Answer(c).v # Absent /\ Found(c, Answer(c).v) /\ UNCHANGED pending
     \/ Answer(c).v = Absent /\ NotFound(c)

StoreAnswered(c) ==
  /\ pc[c] = "storing"
  /\ Answered(c)
  /\ Return(c)
  /\ IF method[c] = "getOrSet" THEN SetLocal(Home[c], Answer(c).v) ELSE UNCHANGED localVars
  /\ UNCHANGED <<pending, requests>>

DeleteAnswered(c) ==
  /\ pc[c] = "deleting"
  /\ Answered(c)
  /\ Return(c)
  /\ UNCHANGED <<pending, localVars, requests>>

------------------------------------------------------------------------------
(* Time *)

Older(q) == [k \in DOMAIN q |-> [q[k] EXCEPT !.age = @ + 1]]

\* A unit of time may pass once all that is due in it has happened.
NothingOverdue ==
  /\ \A n \in Nodes :
       /\ \A k \in DOMAIN requests[n] : requests[n][k].age < MaxDelay
       /\ \A k \in DOMAIN replies[n] : replies[n][k].age < MaxDelay
  /\ \A c \in Callers :
       /\ pc[c] # "loaded"
       /\ pc[c] \in {"creating", "wrote"} => waited[c] < MaxCreate

Tick ==
  /\ NothingOverdue
  /\ localTtl' = [n \in Nodes |-> Less(localTtl[n])]
  /\ local' = [n \in Nodes |-> IF localTtl[n] <= 1 THEN Absent ELSE local[n]]
  /\ remoteTtl' = Less(remoteTtl)
  /\ remote' = IF remoteTtl <= 1 THEN Absent ELSE remote
  /\ waited' = [c \in Callers |-> IF pc[c] \in {"creating", "wrote"} THEN waited[c] + 1 ELSE waited[c]]
  /\ requests' = [n \in Nodes |-> Older(requests[n])]
  /\ replies' = [n \in Nodes |-> Older(replies[n])]
  /\ age' = [v \in Versions |-> IF v < db /\ age[v] <= LocalBound THEN age[v] + 1 ELSE age[v]]
  /\ UNCHANGED <<pc, method, data, pending, db, failures>>

------------------------------------------------------------------------------
Next ==
  \/ \E c \in Callers :
       \/ \E m \in Calls : Ask(c, m) \/ Create(c, m) \/ Set(c, m) \/ Delete(c, m)
       \/ Write(c)
       \/ ReadSource(c)
       \/ CreateReturns(c)
       \/ CreateFails(c)
       \/ Continue(c)
       \/ ReadAnswered(c)
       \/ StoreAnswered(c)
       \/ DeleteAnswered(c)
  \/ \E n \in Nodes : Execute(n) \/ Fail(n) \/ Evict(n)
  \/ Tick

Spec == Init /\ [][Next]_vars

\* Redis answers, createValueFunc() settles, the event loop runs what is ready, and
\* a writer goes on to its cache call.
Fairness ==
  /\ \A n \in Nodes : WF_vars(Execute(n))
  /\ \A c \in Callers :
       /\ WF_vars(ReadSource(c) \/ CreateReturns(c) \/ CreateFails(c))
       /\ WF_vars(Continue(c) \/ ReadAnswered(c) \/ StoreAnswered(c) \/ DeleteAnswered(c))
       /\ WF_vars(\E m \in Calls : Set(c, m) \/ Delete(c, m))

FairSpec == Spec /\ Fairness

------------------------------------------------------------------------------
(* Properties *)

\* Every variable stays within its type: no entry lives longer than its layer's ttl allows, and
\* what a process has in memory has life left.
TypeOK ==
  /\ pc \in [Callers -> {"idle", "reading", "creating", "joined", "loaded", "storing", "wrote", "deleting"}]
  /\ method \in [Callers -> Methods]
  /\ data \in [Callers -> Versions \cup {Absent}]
  /\ waited \in [Callers -> Nat]
  /\ pending \in [Nodes -> Seq(Callers)]
  /\ local \in [Nodes -> Versions \cup {Absent}]
  /\ localTtl \in [Nodes -> 0..InMemoryTtl]
  /\ \A n \in Nodes : local[n] # Absent => localTtl[n] > 0
  /\ remote \in Versions \cup {Absent}
  /\ remoteTtl \in 0..Ttl
  /\ requests \in [Nodes -> Seq(Message)]
  /\ replies \in [Nodes -> Seq(Message)]
  /\ db \in Versions
  /\ age \in [Versions -> Nat]
  /\ failures \in 0..MaxFailures

\* However many callers of a process miss the key at once, through whichever method,
\* the PendingExecuter runs one createValueFunc() at a time for them.
SingleFlight ==
  \A c, d \in Callers :
    /\ pc[c] = "creating" /\ UsesExecuter(method[c])
    /\ pc[d] = "creating" /\ UsesExecuter(method[d])
    /\ Home[c] = Home[d]
    => c = d

\* An entry of the dictionary belongs to a createValueFunc() that is running: none
\* outlives its promise, whose outcome later callers would get for ever, and nobody
\* awaits a promise that has settled.
EntriesAreAlive ==
  /\ \A n \in Nodes : pending[n] # <<>> =>
       pc[Head(pending[n])] = "creating" /\ Home[Head(pending[n])] = n
  /\ \A c \in Callers : pc[c] = "joined" =>
       \E k \in DOMAIN pending[Home[c]] : k > 1 /\ pending[Home[c]][k] = c

\* No cache answers with a value that was overwritten in the data source longer ago
\* than the ttls allow, whatever raced, failed or was late: memory is filled from
\* Redis, but reading never prolongs the life of what is there.
BoundedStaleness ==
  /\ remote # Absent => age[remote] + remoteTtl <= RemoteBound
  /\ \A n \in Nodes : local[n] # Absent => age[local[n]] + localTtl[n] <= LocalBound

\* Nothing but what set() may store gets into a cache, by whichever method and layer.
OnlyStorable ==
  \A v \in {remote} \cup {local[n] : n \in Nodes} :
    v \notin Undefineds /\ (v \in Nulls => CacheNullable)

\* Where a caller stands with the PendingExecuter of its process, and what that gave it.
Standing(c) ==
  IF ~UsesExecuter(method[c]) THEN "out"
  ELSE CASE pc[c] = "creating" -> "running"
         [] pc[c] = "joined" -> "joined"
         [] pc[c] = "loaded" -> "settled"
         [] OTHER -> "out"

Given(c) == IF Standing(c) = "settled" THEN data[c] ELSE Absent

Executer == INSTANCE SharedCalls WITH
  KeyOf   <- Home,
  Outcomes <- Versions,
  None    <- Absent,
  phase   <- [c \in Callers |-> Standing(c)],
  outcome <- [c \in Callers |-> Given(c)]

\* The methods that create the value share their calls as PendingExecuter promises: everyone
\* who came while a createValueFunc() ran gets what that one returned, in the same step, through
\* whichever methods they came; and nobody gets what was created for somebody before.
ImplementsSharedCalls == Executer!Spec

\* Every call of a method returns or throws, also for those who joined another's
\* createValueFunc().
CallsReturn == \A c \in Callers : pc[c] # "idle" ~> pc[c] = "idle"

\* The README of the package on delete(): it "resolves when the item is successfully
\* deleted from both caches".  With one caller: when delete() returns, Redis does not
\* hold what the caller has overwritten.
DeletedFromBoth ==
  [][\A c \in Callers : pc[c] = "deleting" /\ pc'[c] = "idle" => remote' \in {Absent, db}]_vars

==============================================================================
