# Formal models of the MultiversX NestJS SDK

This directory holds TLA+ specifications of the parts of the SDK (`src/packages/*`) whose correctness depends on
interleaving, timing and failures; the TLC configurations that check them on small instances; and TLAPS proofs of the
properties that matter most, for every value of the constants. `PROJECT.json` maps every definition to the lines it
translates and lists the runs, the mutants that each property catches, the hazards and the theorems.

Contents: [inventory](#1-the-system) · [modules](#2-the-modules) · [runs](#3-the-runs) · [proofs](#4-the-proofs) ·
[what the checks found](#5-where-the-code-and-its-documents-differ) · [what is left out](#6-what-is-not-modelled) ·
[plan](#7-plan)

## 1. The system

The SDK is a set of npm packages used inside NestJS services. A service runs as several Node.js processes that share a
Redis server, a RabbitMQ broker and an Elasticsearch cluster. Within a process, code runs to completion between two
awaits; everything that is hard happens at the awaits, between processes, and when a call to a server fails.

| component | state | operations | talks to |
| --- | --- | --- | --- |
| **RedlockService** (`cache/src/redlock`) | per call: counters of successful and settled SETs, the list of instances that said yes, the retry count, the extension timer, the flag `aborted`; on the instances: the key and its expiry | `lock`, `using`, `release`, `extend` | N Redis instances |
| **CacheService** (`cache/src/cache`), with its batch operations | none of its own; per batch: chunks, what each level has found, tries | get, set, delete, getOrSet, setOrUpdate, refreshLocal, their Local and Remote forms; getMany, batchProcess, batchApply, batchSet, batchDelCache, deleteInCache; hashes, sets, counters | the next three |
| InMemoryCacheService | one LRU cache with ttls per process | get, set, delete, getOrSet, setOrUpdate, getMany, setMany | |
| RedisCacheService | Redis | the same, plus hashes, sets, sorted sets, lists, counters, scan, setnx; every error is logged and swallowed or rethrown, differently per command | Redis |
| PendingExecuter (`common/src/utils`) | dictionary: key to promise | `execute` | CacheService, ApiService |
| CachingInterceptor | dictionary: url to promise | `intercept` | CacheService, the handler |
| Guest cache (service, warmer, middleware, interceptor) | hit counters per minute and process; a sorted set of hits and the computed responses in Redis | record a hit, recompute what is over the threshold | CacheService, Redis |
| LocalCacheService | static dictionary with expiry times | get, set, delete, getOrSet, prune | |
| ApiService (`http`) | a PendingExecuter, a counter of requests | get, post, ... | HTTP |
| NativeAuthSigner | the token and its expiry | getToken | HTTP |
| RabbitPublisherService, consumers, swappable settings | settings of exchanges and duplicate marks in a storage the application provides | publish, consume | the storage of the settings, RabbitMQ |
| Locker, `@Lock` | the set of running job names | lock | |
| ShutdownAwareHandler, `@ShutdownAware` | the promises of the critical tasks, the apps, the flag `shuttingDown` | executeCriticalTask, addShutdownHooks, the signal handlers | the process |
| ElasticService, ElasticQuery | none; per call: an open scroll; per query: its conditions | queries, scrolling, custom values; the query builder | HTTP |
| Auth guards | none | canActivate | CacheService, HTTP |
| ContextTracker, CpuProfiler | dictionaries filled by async_hooks | assign, unassign, the four hooks | |
| array extensions (`common/src/utils/extensions`) | none | functions of an array | |
| the rest (HTTP interceptors, pipes, other decorators and extensions, complexity, configuration, encodings, metrics, wiring) | none, or written and never read | functions of one request or value | |

What is hard in each of them, and what makes it correct:

* **RedlockService.** Replies come late and in any order between instances, SETs fail, keys expire while replies, retries,
  the timer or the action are under way. Correct: an action runs only after a majority said yes; a lock is refused only
  when no majority is possible; lock() ends; the key lives and is its holder's while the action runs; nobody deletes
  another's key; two actions never overlap.
* **CacheService with PendingExecuter.** Callers of one process share a `createValueFunc()`; memory is written after an
  await; processes fill their memory from one Redis; Redis fails and the code goes on. Correct: one creation at a
  time, no entry of the dictionary outlives its promise, every call ends, nothing that may not be stored is, and
  no cache serves a value that was overwritten longer ago than the ttls allow.
* **Batch operations.** Several chunks, some of which fail; results put together by position; three levels, each of which
  is filled with what a lower one finds; retries of what succeeded; entries that come and go meanwhile. Correct: every
  element gets its own value or none, in the answer and in both caches; a call in which nothing failed answers everything.
* **RedisCacheService.** Methods of several commands (count and expire, scan and delete, pop until empty), between which other callers
  run, keys expire and processes stop; errors that one method throws and the next one logs. Correct: a counter with a ttl expires;
  no key that matches survives a deletion by pattern; a list is a queue.
* **CachingInterceptor.** The dictionary is read before an await and written after it; the entry is removed by an
  emission of the handler. Correct: every request is answered, one handler at a time, bounded staleness, errors reach
  those who waited as errors.
* **Guest cache.** Counters tested, sent and reset across awaits; the warmer goes on after errors. Correct: hits are
  neither lost nor counted twice, across requests that overlap and the end of a minute.
* **Locker and ShutdownAwareHandler.** Two decorators in either order, methods that throw, several signals, a timer, apps that do not
  close. Correct: jobs of one name do not overlap and no name is left behind; no accepted critical task is cut
  off before the timeout; the process exits.
* **ElasticService, ElasticQuery.** Pages of a scroll that fail or expire while the index changes; a builder called in any
  order, whose empty parts are removed. Correct: the action gets every document of the scroll once, or the call throws; a query
  finds what was asked.
* **NativeAuthSigner, ApiService.** Correct: no token is used after its expiry; one request per url at a time.
* **ContextTracker, CpuProfiler.** Callbacks of async_hooks interleave with the methods called by the code of a resource. Correct: no
  context is seen but by what its resource led to afterwards; memory is given back; no time is counted twice.

## 2. The modules

| module | models | lines of code |
| --- | --- | --- |
| `Mutex` | what `using()` promises: the abstract lock | `redlock.service.ts` |
| `Redlock` | RedlockService, the Redis instances and their connections | `redlock.service.ts`, `redlock.configuration.ts` |
| `MCRedlock` | constants for TLC | |
| `RedlockProofs` | theorems about `Redlock` | |
| `SharedCalls` | what `PendingExecuter.execute()` promises: abstract calls that share a function | `pending.executer.ts` |
| `CacheService` | CacheService, InMemoryCacheService, RedisCacheService and PendingExecuter for one key, with Redis and the data source | `cache.service.ts`, `in-memory-cache.service.ts`, `redis-cache.service.ts`, `pending.executer.ts` |
| `MCCacheService` | constants for TLC | |
| `CacheServiceProofs` | theorems about `CacheService` | |
| `RequestCache` | CachingInterceptor, and under it the GETs of ApiService with PendingExecuter and NativeAuthSigner | `caching.interceptor.ts`, `api.service.ts`, `native.auth.signer.ts`, `pending.executer.ts` |
| `MCRequestCache` | constants for TLC | |
| `RequestCacheProofs` | theorems about `RequestCache` | |
| `RedisKeys` | RedisCacheService over string keys and counters | `redis-cache.service.ts` |
| `RedisCollections` | RedisCacheService over a list, a hash, sets and a sorted set | `redis-cache.service.ts` |
| `RedisProofs` | theorems about `RedisKeys` and `RedisCollections` | |
| `BatchCache` | the operations of CacheService on many keys | `cache.service.ts`, `batch.utils.ts`, `redis-cache.service.ts`, `in-memory-cache.service.ts` |
| `BatchCacheProofs` | theorems about `BatchCache` | |
| `MCRemote` | `RedisKeys`, `RedisCollections` and `BatchCache` for TLC | |
| `GuestCache` | GuestCacheService and GuestCacheWarmer for one query | `guest-cache.service.ts`, `guest-cache.warmer.ts` |
| `ElasticService` | scrolling and custom values | `elastic.service.ts` |
| `ElasticQuery` | the query builder, and what is left of a query when it is cleaned up | `elastic.query.ts`, `match.query.ts`, `exists.query.ts`, `range.query.ts`, `should.query.ts`, `must.query.ts`, `api.utils.ts` |
| `Jobs` | Locker, `@Lock`, ShutdownAwareHandler, `@ShutdownAware` | `locker.ts`, `lock.ts`, `shutdown-aware` |
| `JobsProofs` | theorems about `Jobs` | |
| `AsyncContexts` | ContextTracker and CpuProfiler with their async_hooks | `context.tracker.ts`, `cpu.profiler.ts` |
| `ArrayExtensions` | the methods added to arrays | `array.extensions.ts` |
| `ServicesProofs` | theorems about `GuestCache`, `ElasticService`, `ElasticQuery`, `AsyncContexts` and `ArrayExtensions` | |
| `Induction` | induction over numbers, and sums, for the proofs | |
| `MCServices` | `GuestCache`, `ElasticService`, `ElasticQuery`, `Jobs`, `AsyncContexts` and `ArrayExtensions` for TLC | |

In `Redlock`, `CacheService` and `RequestCache` time is discrete: `Tick` passes one unit when nothing that is due in the current one is left to happen.
In `Redlock` and `CacheService` a command or reply carries its age, and `MaxDelay` bounds the time from sending a command to its answer. Within a
unit everything interleaves freely. Each process has one pipelined connection to a server: it executes and answers
commands in the order they were sent, as ioredis does.

### Mutex and Redlock

A client is a caller of `using()`, one call after another. Its `pc` says where it is: `idle`; `waiting`, a SET NX has gone to
every instance and the attempt is not decided; `releasing`, the attempt is lost and the DELs of what it had locked are
awaited; `sleeping`, for the retry interval; `acting`, inside the action with the extension timer armed. `elapsed` is the
profiler, `ttl` and `owner` are the key on each instance (the owner is a history variable: the code stores '1').

| TLA+ | code |
| --- | --- |
| `Start` | `using()` up to `lock()`, `lockOnce()` sending its SETs |
| `LockReply` | the then/catch of one SET with `checkQuorum()`: `Acquire` resolves true, `RollBack` resolves false and sends the DELs |
| `RollbackReply`, `Retry`, `GiveUp` | the loop of `lock()`: sleep, retry while the count and the profiler allow it, or throw LockTimeoutError |
| `FinishAction` | the action settles; `finally` clears the timer and calls `release()` without awaiting it, whose DELs are not checked for ownership |
| `Extend`, `StopExtending` | the timer fires: `aborted` is set, the timer armed again and PEXPIRE sent to all, or nothing of that once the lock was held for `HoldLimit` |
| `Forget`, `Orphaned` | between two calls nobody looks at late replies, and what is still in a request queue is executed |
| `SetNX`, `Delete`, `PExpire`, `Execute`, `Fail` | the instances; a failure may hit before or after the command was carried out |
| `Tick` | time: keys expire, timers run down |

`successCount` and `settledCount` keep the code's scope: they are outside the retry loop and go on from the previous
attempt. The properties count what the instances said in the attempt at hand (`Votes`). `WaitTime` rounds `ttl * 0.9` as Math.round does. The 10 in the code's limit of ten key lives on extensions is the
constant `HoldFactor`, so that small instances reach it. `MaxQueue` bounds the commands of earlier calls that may still be
on their way when a client calls again.

`Redlock` implements `Mutex` under the mapping `Phase` (acting is "holding", idle is "idle", anything between is "waiting").

### CacheService

One key, any number of processes (`Nodes`) with asynchronous callers (`Home[c]` is c's process). A value is known by its
version in the data source that `createValueFunc()` reads and that writers change before they call set() or delete(); that is
what staleness is measured against. `Undefineds` and `Nulls` say which versions are undefined or null, because the two
layers treat those with different tests.

| TLA+ | code |
| --- | --- |
| `Ask` | the start of `getOrSet`, `getOrSetRemote`, `get`, `getRemote`, `refreshLocal`: a miss in memory, GET sent |
| `Create` | the start of `setOrUpdate*` and `getOrSetLocal` |
| `Load`, `Crew`, `Settled` | `PendingExecuter.execute()`: join or start; everyone in the entry gets the outcome; the entry goes either way |
| `ReadSource`, `CreateReturns`, `CreateFails` | `createValueFunc()`, which reads the source at one moment and returns at a later one |
| `Store`, `Continue`, `StoreAnswered` | storing what was created. `getOrSet` writes memory after the SET was answered, the others while it is on its way |
| `Write`, `Set`, `Delete` | a writer: the source first, then the cache |
| `Found`, `NotFound`, `ReadAnswered` | what the answer to a GET does: fill the memory, delete it (`refreshLocal`), or create |
| `Execute`, `Fail` | Redis. A command that fails may have been carried out; get() answers undefined, set() and delete() return |
| `Evict` | the LRU cache makes room |

A hit in memory returns at once and changes nothing, so it is a stuttering step. `getOrSet` looks into memory and sends its GET in a later
microtask; the two are one step here, because whatever another caller does between them, the caller sends the same GET. The creations of `getOrSet` and of `setOrUpdate` go through the same dictionary under the same key, so they join
each other, as the code has them do.

**Refinement.** `SharedCalls` is what the callers of `PendingExecuter.execute()` rely on, without its dictionary: who comes while a function runs under
the same key waits for that one, it settles for all of them in one step and with one outcome, and who comes later starts anew. `Standing`, `Given` and
`Executer` map `CacheService` to it: the caller whose `createValueFunc()` runs is "running", who joined it "joined", and both are
"settled" from the outcome until they store it or return; a method that does not use the executer is "out" throughout. `ImplementsSharedCalls` is `SharedCalls` under this map.
`RequestCache` implements it too, with the sender of a GET "running", those who share it "joined", and signed requests "out".

### RequestCache

One process, with connections (`Requests`) on which cached GET requests come in one after another. `KeyOf[r]` is the key that
`getCacheKey()` makes of the requests on r. The handler of every key fetches the same upstream url, so that unsigned handlers
of different keys share a GET in the layer below; the handlers of the keys in `Signed` pass `settings.nativeAuthSigner`. As in `CacheService`
a response is known by its version upstream.

The `pc` of a request is `idle`; `looking`, between the look into the dictionary and the answer of `getLocal()`; `waiting`, for the promise
of its `leader`; `handling`, its handler runs; `signing`, in `getToken()`; `fetching`, its GET is out; `sharing`, it awaits the GET of another one;
`settled`, `get()` has an outcome for it; `answered`, until the response is sent.

| TLA+ | code |
| --- | --- |
| `Arrive` | `intercept()` up to the promise found in the dictionary, or up to `await getLocal()` |
| `Hit`, `Lead` | a response in the cache; or a new promise in the dictionary and `next.handle()` |
| `Get`, `GetSigned`, `Send` | `ApiService.get()` with and without the executer |
| `IsFresh`, `SignReturns`, `SignFails` | `getToken()`: the token that is kept, or a new one, whose expiryDate counts from its signature and whose life counts from its block |
| `Crew`, `Settle`, `FetchReturns`, `FetchFails` | `PendingExecuter.execute()` and the end of the GET |
| `Emit`, `Reject` | `tap` and `catchError`: the dictionary entry goes, the promise resolves, the response is cached |
| `ErrorKinds`, `Thrown`, `IsSuccess` | `get()` throws plain objects, `getToken()` throws Errors; who waited tests `result instanceof Error` |
| `Remember` | `setLocal()` of a response |
| `ReadSource`, `Change`, `Evict`, `Leave`, `Tick` | the upstream server, the LRU cache, the client and the clock |

`OnFailure` says what becomes of a failed GET: its error handler returns true, so that get() returns undefined (`"handled"`), the handler lets the plain
object through (`"object"`: `CustomError`, what `getCustomError()` makes), or it wraps it in an Error (`"Error"`). Two requests that look at the same time both lead, and the second
hides the first in the dictionary; whoever ends first deletes the other's entry. That is allowed: it costs work, and the
properties say that it costs nothing else.

### RedisKeys, RedisCollections, BatchCache

`RedisKeys` keeps of a value only its kind, of a ttl only whether there is one and whether it is positive: `increment()` and `decrement()`
send EXPIRE for any ttl that is truthy (`Truthy`), and Redis deletes the key when it is negative. A behaviour uses the methods of one of the `Menus`.
`Command(c, r, next)` is a command of context c that turns the keys into r: executed and answered, failed before its execution, or
after it; a failure ends the method, thrown or logged. `endless` is a history variable: the keys somebody wrote without a ttl, or whose
EXPIRE a fault took.

| TLA+ | code |
| --- | --- |
| `Set`, `SetNx`, `SetMany`, `Delete`, `DeleteMany`, `FlushDb`, `ExpireMethod`, `IncrBy` | the methods of one command, or one MULTI, each with its own test of null and undefined |
| `Increment`, `IncrementExpires` | `increment()` and `decrement()`: INCR or DECR, then EXPIRE if there is a ttl |
| `GetOrSet`, `SetOrUpdate`, `Created` | the GET that misses, createValueFunc(), the SET |
| `Scan`, `Page`, `DeleteFound` | `scan()` and `deleteByPattern()`; a page is any set of matching keys, as SCAN promises no more than that what was there throughout is returned once |
| `Expire`, `Stop` | a ttl ends; the process stops between two commands |

In `RedisCollections` a behaviour is about one kind of collection. `LPop` to `PopStops` are the loop of `lpop()`, one LPOP at a time; the
methods that read record whether Redis found something and whether the caller got something, with `OnFailure` saying which methods swallow an error, and
`Returned` that `lpop()` answers `[]` when it could take nothing, be it for an error.

In `BatchCache` the value of key k is k itself, or null, so that a value under a wrong key shows. `job` is the one call under way, with what
is left of its payload or level (`rest`), the keys at work (`chunk`) and what the levels found. `Come` and `Go` are everything other callers, ttls and
evictions do to an entry.

| TLA+ | code |
| --- | --- |
| `GetMany` | `getMany()`: memory, then one MGET |
| `ManyRemote`, `Mgets`, `Places`, `Mget`, `At` | `batchGetManyRemote()` and `RedisCacheService.getMany()`: as many MGETs as it takes, any of which may fail and then answers nothing; the answers in a row, read by position |
| `ProcessChunkBegins`, `Handle`, `StoreChunk`, `TryFails`, `ProcessEnds` | `batchProcess()`: a chunk, its tries, the handler, `batchSet()` |
| `GetFromMemory`, `GetFromRedis`, `AskGetter`, `GetFromGetter`, `SaveToMemory`, `SaveToRedis`, `GetEnds` | `batchApply()`, `batchGet()` and `BatchUtils.batchGet()` |
| `Remembered`, `WriteRemote` | `batchSet()`: memory, then one MULTI |
| `DeleteAll`, `DeleteNext` | `batchDelCache()` and `deleteInCache()` |

With a `chunkSize` of `batchGet()` over 100 one MGET of several that fails shifts the answers of the next ones. `mixed` is a history variable: the
keys this can have happened to (`Shifted`). `OwnValues` says that no other key ever has a wrong value, and that Redis has none at all; `AnswersAreOwn`, without
that exception, is violated (`remote_mixup`). Things the models show and no property forbids: a failed MGET makes
batchProcess() leave its chunk undefined without calling the handler; `deleteInCache()` reports keys as deleted whose DEL failed.

### GuestCache, ElasticService, ElasticQuery

`GuestCache` is one query in one process, over minutes: `Arrive` counts a hit up to the first await, `Count` sends a full batch, `Prepare` is
what the first request of a minute sends, `Get` reads the response and drops the counter of the minute before; `ReadMinutes`, `LeaveAlone`, `Warm` and `Target`
are `recompute()`. `gone` is a history variable: hits that failed to arrive, expired or were dropped with an incomplete batch.

`ElasticService`: `Search`, `Act`, `NextPage` and `DeleteScroll` are `getScrollableList()`; the scroll on the server (`snapshot`, `unread`, `scroll`) is external.
A page whose answer is lost is not repeated. `SetCustomValues` and `Refresh`: searches see an update after the next refresh.

`ElasticQuery`: a query is the set of documents it matches. Every builder method adds a condition and, to the history variables `wanted` and `anyOf`,
what the caller asked for; `ToJson` is what is left after the clean-up, read as Elasticsearch reads a bool query (`BoolDocs`, external).
`dropped` marks what is asked for and not in the query: an empty list of alternatives, which the clean-up removes; a date range whose limits
are each 0 or missing, if one is given, which `withDateRangeFilter()` ignores; and the terms that another `withTerms()` replaces. A query
with terms beside other conditions is malformed (`WellFormed`).

### Jobs, AsyncContexts, ArrayExtensions

In `Jobs` a call has a stack `unwind` of what is to be done when its method is over, in the order of its decorators; up to the first await of
a method everything is one step (`CallJob`). `LeaveTask` and `LeaveLock` are the two `finally` blocks. A handler of a signal waits for the tasks that are
pending when it begins (`waits`), or its timer (`Fires`), closes the apps and exits; every signal has one. `@Lock` outside another decorator sees a function
without a name, so that all such methods share the name `Anonymous`, unless the option gives one.

`AsyncContexts` has both users of async_hooks over one tree of resources: `OnInit`, `OnBefore`, `OnAfter` and `OnDestroy` do what the callbacks of the
two do, `Assign`, `Unassign`, `Start`, `StopProfiler` and `Switches` are the methods. `ancestors` (where the triggers of a resource lead back to), `owners` (for which
resource, and when, a context was made), `busy` and `gaps` are history variables. `ContextsApart` allows a context to the resource it was made for and to
those that descend from that and were created later: so two requests of one HTTP server share none unless it was made for the server itself before both. A resource may run
while another one does (synchronous callbacks nest: `stack`).

`ArrayExtensions` has the loops of the code as folds; an array grows, loses elements and is shuffled, and in every state each method is
compared with what it is for. Of the two definitions of `remove()` the one at line 290 is in force; its loop, which removes the first occurrence until there is
none, is the recursive function `rest`. The sum of no elements throws. `ShuffleRearranges`: what `shuffle()` makes of its copy is, after every swap, a rearrangement
of the array by a one-to-one map of the positions.

## 3. The runs

| run | instance | properties |
| --- | --- | --- |
| `redlock_quorum` | 1 client, 3 instances, three failing SETs, two retries after 1 unit, delay 1, key life 4 | `TypeOK` `FirstAttemptBacked` `FirstAttemptExhausted` `NeverWaitsInVain` `LockReturns` |
| `redlock_lease` | 2 clients, 1 instance, key life 30, 2 retries, extension to 20, delay 1, one failing SET or release | `LeaseHeld` `DeletesOnlyOwnKey` `ImplementsMutex` |
| `redlock_even` | 2 clients, 2 instances | `NeverWaitsInVain`, violated |
| `redlock_retry` | 1 client, 3 instances, one retry, two failing SETs | `QuorumBacked`, violated |
| `cache_process` | 2 callers of one process in every pair of all fifteen methods, one version undefined and one null, one failure | `TypeOK` `EntriesAreAlive` `OnlyStorable` `CallsReturn` `ImplementsSharedCalls` |
| `cache_shared` | 3 callers in 2 processes with getOrSet, setOrUpdate, refreshLocal and set; one write, delay 1, creation 1, ttls 2 and 1, one failure | `BoundedStaleness` |
| `requests_signed` | 3 requests of one signed key; 2 versions, one falsy; caching for 2 units, GETs and signatures of 1, tokens of 3 with a margin of 2, one failure, handled, a plain object or an Error | `TypeOK` `PromisesAreAlive` `BoundedStaleness` `ErrorsStayErrors` `TokensLast` |
| `requests_shared` | 2 unsigned requests of one key and a signed one; one version, one failure, a plain object or an Error | `RequestsAreAnswered` `ImplementsSharedCalls` |
| `cache_delete` | 1 caller with getOrSet and delete, one failure | `DeletedFromBoth`, violated |
| `remote` | 2 contexts, 2 keys, 4 menus of methods, 2 faults; 2 clients, 4 items, 2 elements, 2 faults; a batch of 4 keys, one null, 2 errors, 2 changes | `KeysTypeOK` `CounterExpires` `PatternGone` `ListIsAQueue` `BatchTypeOK` `OwnValues` `CleanIsComplete` |
| `remote_mixup` | the same batch, by batchApply() in chunks of 4 | `AnswersAreOwn`, violated |
| `services` | 2 guests, 4 hits, 3 minutes, 1 failure; 3 documents, pages of 2, 1 failure; 3 conditions on 2 fields; 2 calls, 2 apps, 2 signals; 3 resources, 2 profilers, 3 units of time; arrays up to 4 of 3 elements | `HitsAccounted` `ScrollIsComplete` `QueryFindsAsked` `LockSetExact` `Graceful` `Exits` `ContextsApart` `CpuTime` `ArraysAgree` |

**Bounds, and why they suffice.** *redlock_quorum*: three instances are the fewest with a quorum that is neither one nor
all. To a caller of lock() a contender is instances that say no: that is what a SET that fails is, and the key of an own SET that was executed although its
answer was lost, which says no to the next attempts until it expires. Three failures refuse a whole attempt, or one attempt in part and the next one too. With delays a reply
comes after its attempt was decided, and in the next one; with two retries and a key life of 4 keys expire between attempts and during them, and the call ends by the count or by the profiler.
The run has one client because `LockReturns` allows no symmetry; contenders are in *redlock_lease* and *redlock_even*, and the theorems are about any number of them.
What the counts of earlier attempts do to a retry is shown by `redlock_retry` (acquired without a majority) and proved by `RetriesAreHasty` (decided by its first reply, so
also given up while the others might still say yes); that is why two properties are about first attempts, and `NeverWaitsInVain` and `LockReturns` about all. *redlock_lease*: one instance isolates the life of the key from the counting. The numbers make
`WaitTime(ExtendTtl)` = 18 and `WaitTime(KeyExpiration)` = 27 leave room for the round trip of one unit, the action (up to 61) goes
beyond the limit of `HoldFactor` key lives, so that a run passes through several extensions and the end of
them, and the retry interval is shorter than the key's life. *cache_process*: two callers suffice for
joining, joining across methods, and the failure of a joined creation; every pair of methods is met; both ttls are within the bounds of `TypeOK` also where
the two differ (2 and 1). *cache_shared*:
staleness needs a writer, a process that fills its memory from what another one stored, an update that joins a creation from before the write, and the delay and creation time
that make the value old before it is stored; the bounds in the property are tight in this instance (one unit less is violated).
*requests_signed*: three requests of one key are two leaders that hide each other and a follower; with a signer in every handler
they replace each other's token too, which ages beyond its margin while GETs are out; responses are overwritten, expire and are evicted within two
units. `ResponseBound` and `TokenBound` are tight there: `ResponseBound - 1` and `TokenBound + 1` are violated. *requests_shared*: two leaders of one
key are enough to share a GET, which settles or fails for both, next to a signed one that must not be shared; the run has one version and no
symmetry, because it checks liveness. An outcome is that version or the failure, which is enough to see the two of one GET differ and an outcome outlive its call.
`SingleFlight` and `GetsAreShared` (one creation, one unsigned GET at a time) follow from `ImplementsSharedCalls`, whose `Start` requires that nothing runs under the key;
they are proved as well, and no run checks them separately.

*remote* and *services* check components that share no state side by side: every behaviour is one of one component (`focus`), the
others rest in their initial states, so the sizes add up and do not multiply. *remote*: two contexts interleave in every pair of steps of `increment()`,
`deleteByPattern()` and the other methods of a menu, while a key expires in between; two faults are one for each. Two contexts drain a list that a push reaches meanwhile.
The constants of the batch operations are scaled down: 100 elements a `batchProcess()` chunk and 100 keys an MGET are 3, three tries are 2, so that
the four keys, in an order that is not theirs, make two chunks of each, the last one not full; chunks of `batchGet()` have 2 keys, one MGET each, or 4, which takes two. Every level may hold any subset of the keys: what an earlier call left and two changes
(`MaxChanges`) reach it. *services*: four hits are two full batches of 2; with 3 minutes the counter of a minute goes while its hits are still being sent; one failure hits each await. Three
documents with pages of two make a page that is not full and then an empty one; two apps leave one open when the other fails to close; two signals make two handlers.
For the two users of async_hooks, which share nothing but the resources, `ContextsNext` and `ProfilersNext` leave out each other's steps.
Three resources are a server and two of its requests, or a request, what it leads to, and another request.

**Plain objects.** What `ApiService.get()` throws is no Error (`api.service.ts:325`), and those who waited for a handler that lets it through answer it with
status 200 (`caching.interceptor.ts:55-59`), while the request the handler ran for answers with an error. `ErrorsStayErrors` says exactly that, and that
nothing else a handler throws is a response to anyone. No document promises otherwise, so it is recorded here and not as a finding.

**The envelope of `redlock_lease`.** `LeaseHeld`, `DeletesOnlyOwnKey` and `ImplementsMutex` need what `LeaseEnvelope` of `RedlockProofs` says: one instance; `WaitTime` + a round trip + the lag of the timer
< the key's life; PEXPIREs that do not fail; an action that ends before the extensions stop. The run has 27 + 0 + 2 < 30 for the first life, 18 + 0 + 1 < 20 for those
after an extension, and actions of up to 61 with extensions until 60. Outside it the code gives no
mutual exclusion: `WaitTime(k) = k` for k up to 5 ms, so that the first extension comes when the key expires; with
`extendTtl: 0` line 140 takes the 0 for "not given" and line 155 takes it for a ttl, and PEXPIRE 0 deletes the key; after ten key lives
the extension stops by design; and with three instances `release()` (lines 20-24) deletes the key on *all* instances, also
where another client holds it, so that a third client can find a majority while the second one is in its action.
`DeletesOnlyOwnKey` is the property that fails first there. The comments of the code do not promise otherwise, so this is
recorded here and not as a finding.

**Fairness.** Only the liveness properties assume any. `LockReturns` (for an odd number of instances; with an even one lock() may wait for ever, see `redlock_even`): each instance goes on to execute what it was
sent (a failure also settles the command), replies are handled, timers that are due fire (the event loop runs), time passes, and actions end. An action takes at least one
unit of time in that run, or another client could take and free the key infinitely often in one instant. `CallsReturn`:
Redis answers or fails every command (ioredis settles every command), `createValueFunc()` settles, the event loop runs what is ready, and
a writer goes on to its cache call. `RequestsAreAnswered`: one weak fairness per request, `WF(Proceed(r))`: the event loop runs what
is ready, the timeout of axios settles every GET, and so does the client of NativeAuthSigner a signature; a request that waits for another
one is served by that one's steps. `Exits`: one weak fairness per signal, `WF(HandlerSteps(s))`: the timer of `signalShutdownAndWait()`
fires, the event loop goes on with the handler, and `app.close()` settles; nothing is assumed of the methods, which may run for ever. Nothing is assumed of callers that are idle, of failures or of evictions. There is no
strong fairness.

Deadlock is checked in every run: Tick, a new call or a new process is always possible, or the model would have found everyone waiting for everyone.

Each property has a mutant in `PROJECT.json`: a definition changed the way a slip in the code would (an early or late decision
of the quorum, an entry that is not deleted when its promise rejects, a value read from Redis stored there again,
...), under which TLC finds the property violated with the same configuration.

## 4. The proofs

TLAPS proves the following for all constants that satisfy the assumption of the module (any number of clients, instances,
processes, callers, keys, documents, resources and signals, any ttls, sizes and bounds). Nothing else is assumed except what the theorem names.

| theorem | states | assumes |
| --- | --- | --- |
| `RedlockProofs!TypeCorrect` | `[]TypeOK` | |
| `RedlockProofs!AcquiredByQuorum` | `[]FirstAttemptBacked` | |
| `RedlockProofs!RefusedForGoodReason` | `[]FirstAttemptExhausted` | |
| `RedlockProofs!WaitsForGoodReason` | `[]NeverWaitsInVain` | an odd number of instances |
| `RedlockProofs!StuckOnlyByEvenSplit` | `[]HalfPossible` | |
| `RedlockProofs!RetriesAreHasty` | a retry that is waited for has had no reply and counts a quorum of failures | |
| `RedlockProofs!LeaseIsHeld` | `[]LeaseHeld` | `LeaseEnvelope` |
| `RedlockProofs!ReleasesOnlyOwnKey` | `[]DeletesOnlyOwnKey` | `LeaseEnvelope` |
| `RedlockProofs!LockIsMutex` | `ImplementsMutex` | `LeaseEnvelope` |
| `CacheServiceProofs!TypeCorrect` | `[]TypeOK` | |
| `CacheServiceProofs!OneCreationAtATime` | `[]SingleFlight` | |
| `CacheServiceProofs!CallsAreShared` | `ImplementsSharedCalls` | |
| `CacheServiceProofs!NoDeadEntries` | `[]EntriesAreAlive` | |
| `CacheServiceProofs!NothingUnstorable` | `[]OnlyStorable` | |
| `CacheServiceProofs!StalenessIsBounded` | `[]BoundedStaleness` | |
| `RequestCacheProofs!TypeCorrect` | `[]TypeOK` | |
| `RequestCacheProofs!NobodyIsForgotten` | `[]PromisesAreAlive` | |
| `RequestCacheProofs!OneGetAtATime` | `[]GetsAreShared` | |
| `RequestCacheProofs!GetsShareOutcomes` | `ImplementsSharedCalls` | |
| `RequestCacheProofs!StalenessIsBounded` | `[]BoundedStaleness` | |
| `RequestCacheProofs!ErrorsReachEveryone` | `[]ErrorsStayErrors` | |
| `RequestCacheProofs!TokensOutliveTheirUse` | `TokensLast` | |
| `RedisProofs!TypeCorrect` | `[]KeysTypeOK` | |
| `RedisProofs!CountersExpire` | `[]CounterExpires` | |
| `RedisProofs!NoneSurvives` | `PatternGone` | |
| `RedisProofs!QueueForAll` | `[]ListIsAQueue` | |
| `BatchCacheProofs!NoMixups` | `[]OwnValues` | |
| `BatchCacheProofs!CleanCallsAreComplete` | `[]CleanIsComplete` | |
| `BatchCacheProofs!BatchTypes` | `[]BatchTypeOK` | no payload holds an element twice |
| `ServicesProofs!EveryHitIsAccounted` | `[]HitsAccounted` | |
| `ServicesProofs!EveryDocumentIsListed` | `[]ScrollIsComplete` | |
| `ServicesProofs!EveryConditionCounts` | `[]QueryFindsAsked` | |
| `ServicesProofs!ContextsStayApart` | `[]ContextsApart` | |
| `ServicesProofs!NoTimeCountedTwice` | `[]CpuTime` | |
| `ServicesProofs!ShufflesKeepEverything` | `[]ShuffleRearranges`, a part of `ArraysAgree` | |
| `JobsProofs!NamesAreGivenBack` | `[]LockSetExact` | |
| `JobsProofs!ShutdownIsGraceful` | `[]Graceful` | |

The restriction to first attempts, and to an odd number, is necessary: `redlock_retry` and `redlock_even` violate the properties without it, and `RetriesAreHasty` says why. The assumptions of the lease are
discussed with [the run](#3-the-runs), which satisfies them. `BatchTypes` counts how often the handler gets an element, which for an element given twice is once for each.

**The quorum.** The properties speak of the set of instances that said yes in this attempt and of the replies to come, the code of two
counters that go on from attempt to attempt. The inductive invariant `QuorumInv` = `TypeOK` and, for each client, `ConnInv`, `CountInv` and `PhaseInv`, ties them together. A connection
holds at most one SET of the current attempt, in its requests or in its replies (`ConnInv`). In the first attempt the successes counted are the instances that said yes, and what has
settled and what is still awaited are together the number of instances (`CountInv`). As long as the first attempt is waited for, neither decision may have been taken yet;
a retry begins with a quorum of failures counted already and every instance still to answer, so that its first answer, whatever it says, decides it (`PhaseInv`). Hence `RetriesAreHasty`, and
hence `NeverWaitsInVain` for retries too: as long as one is waited for, everybody may still say yes. Cardinalities of finite
sets are the only arithmetic needed beyond that; odd N closes the gap between "not yet lost" and "still possible" in the first attempt, and for any N it is at most one vote wide (`HalfPossible`).

**The lease.** `LeaseHeld` speaks of a caller that acts; its key must already outlive the answer to the SET before, and still outlive the DEL after.
A client *claims* the key (`Claims`) while a PEXPIRE or the DEL of `release()` is at the head of its requests, while the answer that its SET succeeded is on
its way, or while it acts. `LeaseInv` says that who claims the key owns it and that its life outlasts the next command that relies on it (`Outlives`): the
PEXPIRE or DEL that is under way, by what `MaxDelay` leaves it; with no command under way, the one that the timer sends; with no timer, the release at the end of the action. `Shape` says
what can be in a connection and in which order, and `Timed` that the timer is armed until the action has to end. As the key has one owner, no two clients claim it, and with it
no two act: every step maps to a step of `Mutex` or to none.

**The pending executer.** `SingleFlight` is not inductive: a second creation could start if the first one were not in the
dictionary. `ExecInv` = `EntryInv /\ ListedInv` says that an entry lists its creator first and only then those who joined, all of them in methods that use the executer, and
that every creator or joiner of the process is listed. For `CallsAreShared` that makes the list of a process the abstract callers that run or have joined (`ShareCrew`); settling
the list is then one abstract `Settle` or `Reject`, and every other step is a `Start`, a `Join`, a `Use` or nothing, depending on where the caller stands.

**Staleness.** `BoundedStaleness` speaks of the caches only, but a stale value may be on its way in many places. `ContentInv`
gives every place its bound: the version a caller has created was current when its age in the caller's hands began
(`CallersInv`); in a request it was overwritten at most `MaxCreate` and the age of the message ago (`SendsInv`); in the reply to a GET
it carries what was left of its life in Redis (`AnswersInv`); and with those, in Redis and in memory, age plus remaining
life never exceed the bound (`RemoteInv`, `LocalInv`). `SourceInv` says that the current version has age 0. The same
invariant carries `OnlyStorable`: whatever is in a SET or in the reply to a GET is storable.

**Requests.** `AliveInv` is `PromisesAreAlive` with the fact that who waits does wait for a request; it is inductive because a follower keeps its
leader, whatever becomes of the entry of the dictionary. `GetsInv` says that the head of the executer's list, and no other unsigned request, has its GET
out, so that a settlement that empties the list leaves nobody who shares behind. For `GetsShareOutcomes` `SharesInv` adds the other direction: whatever is in the list is unsigned and
is the sender, at its head, or shares; and what a GET that is out has for its outcome is a version or nothing yet.
Staleness again bounds every place a version may be in (`SourceInv`, `DataInv`, `LocalInv`, `ResponseInv`): while a GET is out, what the
server has read for it was replaced no longer ago than the GET has taken, and in the cache age plus remaining life stays within the bound.
`TokenInv` says that the expiryDate of the token that is kept exceeds its real life by at most the time of a signature, whoever signed it;
`TokensLast` is an action property and follows for the step that sends.

**Keys and counters.** The methods of `RedisKeys` differ in the command they send, so the proofs are about commands: what `Put`, `Incr`, `Del`, `Limit` and `Unlimit` make of
a state of the keys (`IsState`), and of the accounts of those without a ttl. `Accounted(r, c, owed)` is `CounterExpires` with the keys that c owes an
EXPIRE set apart: INCR adds its key to what is owed, EXPIRE pays it, and a fault makes the debt endless. With the types `CounterExpires` is inductive.

**Deletion by pattern.** `PatternGone` is an action property. `StepMoves` says how a step of anybody can concern a call that deletes: not at all, by a page of its iteration, by
its own MULTI, or by a fault; and `ScanInv` that what it is about to delete covers what was there throughout, which expiries and other deletions only make less.

**Lists.** `ListIsAQueue` becomes inductive with two facts (`ListInv`): the items of the list are rising, blanks apart, so that the next
item popped is the oldest; and a call that is over holds none, so that a new call starts with none.

**Batches.** The theorems rest on `OwnInv`: that every value is its key's own, also in the answers put together so far, but for the keys in `mixed`. Positions are what it is about: for sequences of any length
and chunks of any size, an index of the answer of `ManyRemote` is that of the key unless an MGET before it failed (`Nth` counts the places that are left), and where one did, the key
is in `Shifted` as soon as a later MGET has an answer to put there. `CleanInv` says of every element of a
clean call where it stands: it is answered, or in the part that is still to come; for `batchApply()` also that memory has it or that it is still to be saved. `TriesInv`
bounds what the handler got: the chunk at work at most as often as there were tries, the chunks behind it never.
The proofs found an ambiguity in the model: the CASE expressions of `GetMany` and `GetEnds` had arms that overlap for keys
that are not asked for or have no answer. TLC takes the first arm that holds, but in the logic any of them may be taken; they are disjoint now.

**Hits.** `HitsAccounted` holds what all requests of a minute are sending as a sum over any number of requests; `HitsInv` adds that only a request that is about to
send has something to send. `Induction` proves that the sum of a finite set takes one element apart (`SumSplits`).

**Listings and queries.** `ScrollInv`: as long as the scroll goes on, the snapshot is what action() has had, followed by the page it gets next and by what the scroll still has. `QueryInv`:
after any builder call no document that is wanted fails a condition, and unless a condition was dropped no other passes them all; `anyOf` is what the alternatives
match together. The alternatives and the rest are then put together as `ToJson` reads them.

**Jobs.** `LockInv` adds the types of the calls: the five stacks a call can have, from which it follows what either `finally` leaves. A call takes a free name, keeps it or gives
it back as its only holder (`ExactTaken`, `ExactKept`, `ExactReleased`). `GraceInv` says what a handler has seen to at each of its steps (`SeenTo`): every unfinished
task is among those it waits for, because none is accepted after the signal; it closes when there are none or its time is up; and the apps it has passed are closed,
also when more are added meanwhile.

**Contexts and CPU time.** `ApartInv`: a context in use exists, so a new one differs from all of them, and was made before whatever is created next; and while there is no hook, which would remove an entry, there is none.
`CpuTime` must leave room for what is running and not counted yet. Each resource on the stack may run inside the one below it, and only the time between is its own;
`Bounded` is a chain of bounds along the stack, from what is counted up to what has passed, in which every step leaves room for the open interval of one resource.

**Shuffling.** `ShuffleInv`: what is left to swap is within the copy, and the copy is a rearrangement of the array. A copy is one by the identity (`CopyRearranges`); swapping two positions
composes the map with their exchange (`SwapRearranges`). That the array stays one while elements leave it needs that `remove()` of any array, by any number of rounds, is an array again (`RemovedType`).

**Induction.** The induction theorems of the library have an operator as a parameter, which the provers cannot instantiate. `AllNumbers` states induction
with a set instead (a set of numbers with 0 and every successor is Nat, since otherwise it lacks a least one), so that the set of sizes for which a sum exists, or of lengths for which
a recursive function has its value, is shown to be all of Nat. That is why `Those`, the elements of a sequence that are in a set, is a recursive function in `BatchCache`, and the loop of `remove()` one in `ArrayExtensions`.

**Only model-checked**: the liveness properties `LockReturns`, `CallsReturn`, `RequestsAreAnswered` and `Exits`, since the prover does not do liveness under fairness;
and `ArraysAgree` but for its part `ShuffleRearranges`, a comparison of the folds of `ArrayExtensions` with what each method is for: every method would need an induction of its own over the array, through folds and
selections that take operators as parameters. The properties that fail are TLC's counterexamples.

## 5. Where the code and its documents differ

* `redlock_even`: with an even number of instances a half-half outcome settles every SET and decides nothing; lock()
  never returns (`redlock.service.ts:46`, against the comment at line 47).
* `redlock_retry`: the counters of the first attempt go on in the second one and add up to a quorum that neither attempt had: the lock is acquired after a retry
  on one instance of three (`redlock.service.ts:32-33`, against `quorumSize` at line 31 and the log at line 68). In the other direction the first reply of a retry may be taken for a lost
  quorum, against the comment at line 47 (`RetriesAreHasty`).
* `cache_delete`: a DEL that fails is logged and delete() resolves, while `cache/README.md:262` has it resolve "when the item is
  successfully deleted from both caches".
* `remote_mixup`: with a `chunkSize` above 100 and an MGET that fails, `batchGet()` answers keys with the values of others (`cache.service.ts:337`,
  against the test of the levels at `batch.utils.spec.ts:183`).

Noticed without a run: `checkForDuplicatedMessages()` logs a duplicate with "not publishing to RabbitMq Exchange" and only returns to `publish()`, which publishes it
(`publisher.service.ts:40-45` and what follows line 76). The example for `getOrSet()` at `cache/README.md:207-218` passes the in-memory ttl as the third and the Redis ttl
as the fourth argument, and `cache.service.ts:287-293` takes them in the opposite order.

## 6. What is not modelled

In `RequestCache`: handlers that complete without an emission or are unsubscribed by a client that goes away (the entry would stay); handlers that emit more
than once; requests that the interceptor passes through; an order of handlers other than one GET each; the other verbs of
ApiService, which use no executer.

Within `CacheService`: other keys (they are independent; `Evict` stands for the pressure they put on
memory); `ttl: null`, which stores without expiry and makes staleness unbounded by intent; the crash of a process, which loses its memory and its dictionary together and leaves Redis to the ttl;
drift between the clocks of processes and of Redis. Of the operations on many keys: the `...Many` forms that are one call of one layer, `setMany()`, several batches at once (other callers are `Come` and `Go`),
`batchProcessChunk()` called directly with more than the 100 elements that `batchProcess()` gives it (one MGET then becomes several),
and the length of a ttl: which one of its ttls `batchSet()` gives a key, where line 559 takes the position within a chunk of 25 for that within the whole, so that from the 26th key on keys get the ttl
of another one; and a `processTtl` that is not configured makes `Math.min(ttl, undefined)` NaN, which the models know only as a MULTI that fails.

Of `RedisCacheService`: `keys()`, which only reads; `defineCommand()` and `executeCommand()`, which run scripts that are not in this repository; the values of counters and scores beyond what a method tests.

In `GuestCache`: the middleware and the interceptor, which keep no state; several queries and several processes, whose counters are independent. After a warm-up that fails, reading the length of the response that is
not there throws, and the response is not renewed; nothing promises when it is, so no property says so.

In `ElasticQuery`: fields, pagination, sort and `extra`. In `ElasticService`: `getItem()`, `getList()` and `getCount()`, one request each.
In `Jobs`: a task that is started by another task, apart from the two decorators on one method. In `AsyncContexts`: time is not counted while CpuProfiler's hook was ever disabled (`gaps`).

Not modelled at all: RabbitPublisherService (four requests in a row, whose duplicate check decides nothing, see section 5), the swappable settings (single entries of a storage) and the consumers, whose delivery is in a library; LocalCacheService (synchronous, every case within reach of a unit test); jitter and the ttl arithmetic (floating point with a random amount; in the models an entry may end at any time);
the auth guards (decisions on one request, made in libraries); metrics and the other profilers (nothing reads them); complexity, configuration, pipes, encodings, the conversions of numbers, dates and strings, and the wiring (no state, no
interleaving); the HTTP interceptors (functions of one request, in an order the application chooses). `PROJECT.json` gives the reason per component.

## 7. Plan

1. Whether the lease can be had with weaker assumptions: PEXPIREs that fail, with a timer that leaves room for a second one, and how much of it three instances keep.
2. A theorem for the staleness of a `batchApply()`, as `CacheServiceProofs` has one for one key.
3. `BatchCache` with two calls at once in place of `Come` and `Go`.
