------------------------------- MODULE BatchCache -------------------------------
(***************************************************************************)
(* The operations of CacheService (src/packages/cache/src/cache/           *)
(* cache.service.ts) on many keys: getMany(), batchProcess(),              *)
(* batchApply(), which is batchGet() with BatchUtils.batchGet()            *)
(* (src/packages/common/src/utils/batch.utils.ts) and a setter, batchSet(),*)
(* batchDelCache() and deleteInCache(), for one caller, while entries of   *)
(* both caches come and go.                                                *)
(*                                                                         *)
(* An element is its key; the value that belongs to key k is k itself, or  *)
(* null, so a value that ends up under a key it does not belong to shows.  *)
(***************************************************************************)
EXTENDS Integers, Sequences, FiniteSets, SequencesExt

CONSTANTS
  Keys,         \* the elements, and their keys
  NullKeys,     \* those whose value is null
  Payloads,     \* the sequences of elements the operations are called with
  BatchCalls,   \* the operations that are called
  ChunkSizes,   \* the parameter chunkSize of batchGet(): 100 by default
  ProcessChunk, \* elements batchProcess() takes at a time: 100
  MgetLimit,    \* keys batchGetManyRemote() takes at a time: 100
  MaxTries,     \* tries of batchProcess() for a chunk: 3
  MaxErrors,    \* bound on failures of Redis, of the handler and of the getter
  MaxChanges,   \* bound on entries that come and go by themselves
  None, Null, Undefined   \* no entry, and the two values

\* batchProcess() asks for no more keys than fit into one MGET; chunkSize is up to the caller.
ASSUME BatchAssumption ==
  /\ NullKeys \subseteq Keys /\ Payloads \subseteq Seq(Keys)
  /\ MaxTries \in Nat \ {0} /\ MaxErrors \in Nat /\ MaxChanges \in Nat
  /\ MgetLimit \in Nat /\ ProcessChunk \in 1..MgetLimit /\ ChunkSizes \subseteq Nat \ {0}
  /\ Keys \cap {None, Null, Undefined} = {}
  /\ None # Null /\ None # Undefined /\ Null # Undefined

Own(k) == IF k \in NullKeys THEN Null ELSE k

VARIABLES
  memory,   \* memory[k]: the value in the in-memory cache
  redis,    \* redis[k]: the value in Redis
  mixed,    \* history: the keys that the caches may have answered with another key's value
  job,      \* the call under way
  answer,   \* answer[k]: what the caller gets for k
  handled,  \* handled[k]: how often handler() was called for k in this call
  applied,  \* applied[k]: where the value is from that setter() was called with, or "none"
  missed,   \* history: what a clean call could not answer or keep: evictions, unknown elements
  errors, changes

cacheVars == <<memory, redis, mixed>>
batchVars == <<cacheVars, job, answer, handled, applied, missed, errors, changes>>

\* rest: what is left of the payload, or of the level; chunk: the keys at work; remaining: those
\* no level has found; fresh: what the getter found, found: what lower levels found; clean: no
\* error so far.
Idle == [op |-> "none", step |-> "done", payload |-> <<>>, rest |-> <<>>, chunk |-> <<>>,
         remaining |-> <<>>, found |-> {}, fresh |-> {}, size |-> 1, skip |-> FALSE,
         tries |-> 0, clean |-> TRUE]

BatchInit ==
  /\ memory = [k \in Keys |-> None]
  /\ redis = [k \in Keys |-> None]
  /\ mixed = {}
  /\ job = Idle
  /\ answer = [k \in Keys |-> None]
  /\ handled = [k \in Keys |-> 0]
  /\ applied = [k \in Keys |-> "none"]
  /\ missed = {}
  /\ errors = 0 /\ changes = 0

\* The call returns, or throws.
Ends(clean) ==
  job' = [Idle EXCEPT !.op = job.op, !.payload = job.payload, !.clean = clean]

Failing == errors < MaxErrors /\ errors' = errors + 1

First(s, n) == SubSeq(s, 1, IF n < Len(s) THEN n ELSE Len(s))
Without(s, n) == SubSeq(s, n + 1, Len(s))

\* The elements of a sequence that are in S, in their order.
Those(s, S) ==
  LET those[n \in 0..Len(s)] ==
        IF n = 0 THEN <<>> ELSE those[n - 1] \o (IF s[n] \in S THEN <<s[n]>> ELSE <<>>)
  IN those[Len(s)]

------------------------------------------------------------------------------
(* The caches *)

\* Mutant of Mget: only what is found is answered.
MgetFound(keys, fails) ==
  IF fails THEN <<>> ELSE SelectSeq([i \in DOMAIN keys |-> redis[keys[i]]], LAMBDA v : v # None)

\* RedisCacheService.getMany(): null for no entry, no answers at all for a failed MGET.
Mget(keys, fails) == IF fails THEN <<>> ELSE [i \in DOMAIN keys |->
  IF redis[keys[i]] = None THEN Null ELSE redis[keys[i]]]

\* The MGET that asks for the i-th of many keys, and all of them.
MgetOf(i) == (i - 1) \div MgetLimit + 1
Mgets(keys) == 1..MgetOf(Len(keys))

\* The i-th smallest of a set of numbers.
Nth(S, i) == CHOOSE n \in S : Cardinality({m \in S : m <= n}) = i

\* The places of the keys whose MGET has not failed.
Places(keys, failed) == {i \in DOMAIN keys : MgetOf(i) \notin failed}

\* batchGetManyRemote(): the answers in a row.  Those of a failed MGET leave no gap, so that the
\* answers of the next one take their places.
ManyRemote(keys, failed) ==
  LET places == Places(keys, failed)
  IN Mget([i \in 1..Cardinality(places) |-> keys[Nth(places, i)]], FALSE)

\* The keys to which that can happen: from a failed MGET on, if a later one is answered.
Shifted(keys, failed) ==
  {keys[i] : i \in {i \in DOMAIN keys :
     \E p \in failed, q \in Mgets(keys) \ failed : p <= MgetOf(i) /\ p < q}}

\* What an index of that answer holds.
At(values, i) == IF i \in DOMAIN values THEN values[i] ELSE Undefined

\* batchSet(): the entries go into memory first ...
Remembered(keys, values) ==
  [k \in Keys |-> IF k \in ToSet(keys) THEN values[k] ELSE memory[k]]

\* ... and in one MULTI into Redis.
WriteRemote(keys, values) ==
  redis' = [k \in Keys |-> IF k \in ToSet(keys) THEN values[k] ELSE redis[k]]

RemoveRemote(S) == redis' = [k \in Keys |-> IF k \in S THEN None ELSE redis[k]]

\* An entry expires or is evicted, or another caller stores it.
Come(k) ==
  /\ changes < MaxChanges
  /\ changes' = changes + 1
  /\ redis[k] = None
  /\ redis' = [redis EXCEPT ![k] = Own(k)]
  /\ UNCHANGED <<memory, mixed, job, answer, handled, missed, errors, applied>>

Go(k) ==
  /\ changes < MaxChanges
  /\ changes' = changes + 1
  /\ \/ /\ memory[k] # None
        /\ memory' = [memory EXCEPT ![k] = None]
        /\ missed' = missed \cup {k}
        /\ UNCHANGED redis
     \/ /\ redis[k] # None
        /\ RemoveRemote({k})
        /\ UNCHANGED <<memory, missed>>
  /\ UNCHANGED <<mixed, job, answer, handled, errors, applied>>

------------------------------------------------------------------------------
(* A call *)

Begin(op) ==
  /\ op \in BatchCalls
  /\ job.step = "done"
  /\ \E p \in Payloads,
        n \in IF op = "batchApply" THEN ChunkSizes ELSE {Idle.size},
        s \in IF op = "batchProcess" THEN BOOLEAN ELSE {Idle.skip} :
       job' = [Idle EXCEPT !.op = op, !.step = "begin", !.payload = p, !.rest = p,
                           !.size = n, !.skip = s]
  /\ answer' = [k \in Keys |-> None]
  /\ handled' = [k \in Keys |-> 0]
  /\ applied' = [k \in Keys |-> "none"]
  /\ missed' = {}
  /\ UNCHANGED <<cacheVars, errors, changes>>

\* getMany(): what memory holds that is not falsy, then one MGET for the rest, in which no value,
\* null and a failure are all undefined.
GetMany == \E fails \in BOOLEAN :
  LET missing == Those(job.payload, {k \in Keys : memory[k] \in {None, Null}})
      values == Mget(missing, fails)
  IN /\ job.op = "getMany" /\ job.step = "begin"
     /\ IF fails THEN Failing ELSE UNCHANGED errors
     /\ answer' = [k \in Keys |->
          CASE k \notin ToSet(job.payload) -> None
            [] k \in ToSet(job.payload) \ ToSet(missing) -> memory[k]
            [] OTHER -> LET v == At(values, CHOOSE i \in DOMAIN missing : missing[i] = k)
                        IN IF v = Null THEN Undefined ELSE v]
     /\ Ends(~fails)
     /\ UNCHANGED <<cacheVars, handled, missed, applied, changes>>

------------------------------------------------------------------------------
(* batchProcess() *)

\* A try for the next chunk: the elements whose answer is null are missing; after a failed MGET
\* there are no answers, so none is, and every element of the chunk is left undefined.
ProcessChunkBegins == \E fails \in BOOLEAN :
  LET chunk == First(job.rest, ProcessChunk)
      cached == IF job.skip THEN [i \in DOMAIN chunk |-> Null]
                ELSE ManyRemote(chunk, IF fails THEN {1} ELSE {})
      missing == Those([i \in DOMAIN cached |-> IF cached[i] = Null THEN chunk[i] ELSE None], Keys)
      settled == [k \in Keys |-> IF k \in ToSet(chunk) \ ToSet(missing)
                   THEN At(cached, CHOOSE i \in DOMAIN chunk : chunk[i] = k) ELSE answer[k]]
  IN /\ job.op = "batchProcess" /\ job.step = "begin" /\ job.rest # <<>>
     /\ IF fails THEN ~job.skip /\ Failing ELSE UNCHANGED errors
     /\ answer' = settled
     /\ job' = [job EXCEPT !.chunk = missing, !.clean = @ /\ ~fails,
                  !.step = IF missing = <<>> THEN "begin" ELSE "handle",
                  !.rest = IF missing = <<>> THEN Without(@, ProcessChunk) ELSE @,
                  !.tries = IF missing = <<>> THEN 0 ELSE @]
     /\ UNCHANGED <<cacheVars, handled, missed, applied, changes>>

\* Mutant of TryFails: the tries are never counted.
TryFailsForever ==
  /\ Failing
  /\ job' = [job EXCEPT !.step = "begin", !.clean = FALSE]

\* An error ends the try, and with the last one the whole call.
TryFails ==
  /\ Failing
  /\ IF job.tries + 1 = MaxTries
     THEN Ends(FALSE)
     ELSE job' = [job EXCEPT !.tries = @ + 1, !.clean = FALSE, !.step = "begin"]

\* handler() is called for the missing elements, at once or a pool's size at a time; if one call
\* throws, the try fails.  Otherwise batchSet() puts the values into memory.
Handle ==
  /\ job.step = "handle"
  /\ \/ /\ handled' = [k \in Keys |-> handled[k] + IF k \in ToSet(job.chunk) THEN 1 ELSE 0]
        /\ memory' = Remembered(job.chunk, [k \in Keys |-> Own(k)])
        /\ job' = [job EXCEPT !.step = "store"]
        /\ UNCHANGED errors
     \/ /\ \E S \in SUBSET ToSet(job.chunk) :
             S # {} /\ handled' = [k \in Keys |-> handled[k] + IF k \in S THEN 1 ELSE 0]
        /\ TryFails
        /\ UNCHANGED memory
  /\ UNCHANGED <<redis, mixed, answer, missed, applied, changes>>

\* The MULTI: once it is answered the chunk is done; if it fails, executed or not, so does the try.
StoreChunk ==
  /\ job.step = "store" /\ job.op = "batchProcess"
  /\ \/ /\ WriteRemote(job.chunk, [k \in Keys |-> Own(k)])
        /\ answer' = [k \in Keys |-> IF k \in ToSet(job.chunk) THEN Own(k) ELSE answer[k]]
        /\ job' = [job EXCEPT !.step = "begin", !.tries = 0, !.rest = Without(@, ProcessChunk)]
        /\ UNCHANGED errors
     \/ /\ \/ WriteRemote(job.chunk, [k \in Keys |-> Own(k)])
           \/ UNCHANGED redis
        /\ TryFails
        /\ UNCHANGED answer
  /\ UNCHANGED <<memory, mixed, handled, missed, applied, changes>>

ProcessEnds ==
  /\ job.op = "batchProcess" /\ job.step = "begin" /\ job.rest = <<>>
  /\ Ends(job.clean)
  /\ UNCHANGED <<cacheVars, answer, handled, missed, errors, applied, changes>>

------------------------------------------------------------------------------
(* batchGet(): three levels, each asked for what the ones before it do not have *)

\* Level 1, the memory, which has an entry for null too.
GetFromMemory ==
  /\ job.op = "batchApply" /\ job.step = "begin"
  /\ answer' = [k \in Keys |-> IF k \in ToSet(job.payload) THEN memory[k] ELSE None]
  /\ job' = [job EXCEPT !.step = "redis", !.rest = Those(@, {k \in Keys : memory[k] = None})]
  /\ UNCHANGED <<cacheVars, handled, missed, errors, applied, changes>>

\* Level 2, a chunk of Redis, with one MGET or several: null is nothing found, and so is what has
\* no answer when MGETs fail.
GetFromRedis == \E failed \in SUBSET Mgets(First(job.rest, job.size)) :
  LET chunk == First(job.rest, job.size)
      values == ManyRemote(chunk, failed)
      found == {i \in DOMAIN chunk : At(values, i) \notin {Null, Undefined}}
  IN /\ job.step = "redis" /\ job.rest # <<>>
     /\ errors' = errors + Cardinality(failed) /\ errors' <= MaxErrors
     /\ mixed' = mixed \cup Shifted(chunk, failed)
     /\ answer' = [k \in Keys |-> IF \E i \in found : chunk[i] = k
          THEN At(values, CHOOSE i \in found : chunk[i] = k) ELSE answer[k]]
     /\ job' = [job EXCEPT !.rest = Without(@, job.size), !.clean = @ /\ failed = {},
                  !.found = @ \cup {chunk[i] : i \in found},
                  !.remaining = @ \o Those(chunk, Keys \ {chunk[i] : i \in found})]
     /\ UNCHANGED <<memory, redis, handled, missed, applied, changes>>

AskGetter ==
  /\ job.step = "redis" /\ job.rest = <<>>
  /\ job' = [job EXCEPT !.step = "getter", !.rest = job.remaining]
  /\ UNCHANGED <<cacheVars, answer, handled, missed, errors, applied, changes>>

\* Level 3, a chunk of the getter: it knows some of the elements, or throws.
GetFromGetter == \E known \in SUBSET ToSet(First(job.rest, job.size)) :
  /\ job.step = "getter" /\ job.rest # <<>>
  /\ \/ /\ answer' = [k \in Keys |-> IF k \in known THEN Own(k) ELSE answer[k]]
        /\ missed' = missed \cup (ToSet(First(job.rest, job.size)) \ known)
        /\ job' = [job EXCEPT !.rest = Without(@, job.size), !.fresh = @ \cup known]
        /\ UNCHANGED errors
     \/ /\ Failing
        /\ Ends(FALSE)
        /\ UNCHANGED <<answer, missed>>
  /\ UNCHANGED <<cacheVars, handled, applied, changes>>

\* Mutant of SavedToMemory: all levels get only what the last one found.
SavedFromLast == job.fresh

\* What memory had not: all that the two other levels found.
SavedToMemory == job.found \cup job.fresh

\* What is found at a level is saved to all levels above it: to memory ...
SaveToMemory ==
  /\ job.step = "getter" /\ job.rest = <<>>
  /\ memory' = Remembered(SetToSeq(SavedToMemory), answer)
  /\ job' = [job EXCEPT !.step = "save", !.rest = SetToSeq(job.fresh)]
  /\ UNCHANGED <<redis, mixed, answer, handled, missed, errors, applied, changes>>

\* ... and, a chunk at a time, to memory and Redis with batchSet(); an error is thrown although all
\* the values are known.
SaveToRedis ==
  LET chunk == First(job.rest, job.size)
  IN /\ job.step = "save" /\ job.rest # <<>>
     /\ memory' = Remembered(chunk, answer)
     /\ \/ /\ WriteRemote(chunk, answer)
           /\ job' = [job EXCEPT !.rest = Without(@, job.size)]
           /\ UNCHANGED errors
        \/ /\ WriteRemote(chunk, answer) \/ UNCHANGED redis
           /\ Failing
           /\ Ends(FALSE)
     /\ UNCHANGED <<mixed, answer, handled, missed, applied, changes>>

\* batchGet() returns; batchApply() then calls setter() with every value in the answer, and
\* whether the getter gave it.
GetEnds ==
  /\ job.step = "save" /\ job.rest = <<>>
  /\ Ends(job.clean)
  /\ applied' = [k \in Keys |-> CASE answer[k] = None -> "none"
                                  [] answer[k] # None /\ k \in job.fresh -> "getter"
                                  [] OTHER -> "cache"]
  /\ UNCHANGED <<cacheVars, answer, handled, missed, errors, changes>>

------------------------------------------------------------------------------
(* Deletions *)

\* batchDelCache() and deleteMany(): memory at once, then all keys in one command.
DeleteAll ==
  /\ job.op = "batchDelCache" /\ job.step = "begin"
  /\ memory' = [k \in Keys |-> IF k \in ToSet(job.payload) THEN None ELSE memory[k]]
  /\ missed' = missed \cup ToSet(job.payload)
  /\ \/ RemoveRemote(ToSet(job.payload)) /\ (UNCHANGED errors \/ Failing)
     \/ Failing /\ UNCHANGED redis
  /\ Ends(job.clean)
  /\ UNCHANGED <<mixed, answer, handled, applied, changes>>

\* deleteInCache(): the keys that KEYS returned for the pattern, one after the other; one whose
\* DEL failed is reported as deleted like the others.
DeleteNext ==
  /\ job.op = "deleteInCache" /\ job.step = "begin"
  /\ IF job.rest = <<>>
     THEN /\ Ends(job.clean)
          /\ UNCHANGED <<memory, redis, answer, errors>>
     ELSE LET k == Head(job.rest)
          IN /\ memory' = [memory EXCEPT ![k] = None]
             /\ answer' = [answer EXCEPT ![k] = Undefined]
             /\ \/ RemoveRemote({k}) /\ UNCHANGED errors
                \/ Failing /\ UNCHANGED redis
             /\ job' = [job EXCEPT !.rest = Tail(@)]
  /\ UNCHANGED <<mixed, handled, missed, applied, changes>>

BatchNext ==
  \/ \E k \in Keys : Come(k) \/ Go(k)
  \/ \E op \in BatchCalls : Begin(op)
  \/ GetMany
  \/ ProcessChunkBegins \/ Handle \/ StoreChunk \/ ProcessEnds
  \/ GetFromMemory \/ GetFromRedis \/ AskGetter \/ GetFromGetter
  \/ SaveToMemory \/ SaveToRedis \/ GetEnds
  \/ DeleteAll \/ DeleteNext

BatchSpec == BatchInit /\ [][BatchNext]_batchVars

------------------------------------------------------------------------------
(* Properties *)

Values == Keys \cup {Null}

BatchTypeOK ==
  /\ memory \in [Keys -> Values \cup {None}]
  /\ redis \in [Keys -> Values \cup {None}]
  /\ answer \in [Keys -> Values \cup {None, Undefined}]
  /\ mixed \subseteq Keys /\ missed \subseteq Keys
  /\ handled \in [Keys -> 0..MaxTries]
  /\ applied \in [Keys -> {"none", "cache", "getter"}]
  /\ job.tries \in 0..MaxTries - 1
  /\ errors \in 0..MaxErrors /\ changes \in 0..MaxChanges

\* However chunks, levels and positions are put together again, a key has its own value or none:
\* in Redis whatever fails, in memory and in the answer unless an MGET for the key, or for keys
\* before it in the same chunk of batchGet(), once failed while a later one of that chunk did not,
\* which takes a chunkSize above MgetLimit.
OwnValues == \A k \in Keys :
  /\ redis[k] \in {None, Own(k)}
  /\ k \notin mixed => memory[k] \in {None, Own(k)} /\ answer[k] \in {None, Undefined, Own(k)}

\* What a chunkSize above MgetLimit breaks: whatever fails, batchGet() answers a key with its own
\* value or not at all.
AnswersAreOwn == \A k \in Keys : answer[k] \in {None, Undefined, Own(k)}

\* A batchProcess() or batchApply() during which nothing failed answers every element, but for
\* those the getter does not know; batchApply() calls setter() for these and no others, and leaves
\* them in memory unless they have gone since, so that the next call is served from there.  Keys
\* whose values an earlier batchApply() has mixed up are beyond its help.
CleanIsComplete ==
  job.step = "done" /\ job.clean /\ job.op \in {"batchProcess", "batchApply"} =>
    \A k \in ToSet(job.payload) :
      /\ answer[k] = Own(k) \/ (job.op = "batchApply" /\ k \in missed \cup mixed)
      /\ job.op = "batchApply" /\ k \notin mixed =>
           (answer[k] = memory[k] \/ k \in missed) /\ (applied[k] # "none" <=> answer[k] = Own(k))

=============================================================================
