------------------------------- MODULE RedisKeys -------------------------------
(***************************************************************************)
(* RedisCacheService (src/packages/cache/src/redis-cache/                  *)
(* redis-cache.service.ts) over the string keys of one Redis: what its     *)
(* methods do to the keys and to their lives when several asynchronous     *)
(* contexts, of one process or of several, call them at once, when         *)
(* commands fail or their answers get lost, and when a process stops       *)
(* between two commands of one method.                                     *)
(*                                                                         *)
(* Of a value only its kind is kept, of a life only whether it is limited. *)
(***************************************************************************)
EXTENDS Integers

CONSTANTS
  Contexts,   \* the asynchronous contexts that call the service
  Names,      \* the keys
  Matching,   \* the keys that match the pattern scan() and deleteByPattern() get
  Menus,      \* sets of methods; one of them is used throughout a behaviour
  MaxFaults   \* bound on failed commands and stopped processes

Kinds == {"value", "null", "undefined"}
Ttls  == {"none", "zero", "negative", "some"}   \* null, 0, a number below it, one above

KeyMethods ==
  {"get", "set", "setnx", "setMany", "getOrSet", "setOrUpdate", "delete", "deleteMany",
   "deleteByPattern", "flushDb", "expire", "scan", "increment", "decrement", "incrby"}

ASSUME KeysAssumption ==
  /\ Matching \subseteq Names
  /\ \A menu \in Menus : menu \subseteq KeyMethods
  /\ MaxFaults \in Nat

VARIABLES
  menu,      \* the methods this behaviour's program calls
  present,   \* the keys that exist
  hollow,    \* those that hold the empty string, which is what undefined is sent as
  expiring,  \* those with a ttl
  endless,   \* history: those without, because nobody asked for one or its EXPIRE failed
  at,        \* at[c]: what context c is doing, and with what
  there,     \* history: the matching keys that were never absent since c's scan began
  faults

redisVars == <<present, hollow, expiring, endless>>
keysVars  == <<menu, redisVars, at, there, faults>>

\* A call: its method, the step it is at, and its keys: those a scan found, or the one it is about.
Call(op, step, keys) == [op |-> op, step |-> step, keys |-> keys]

Quiet == Call("get", "idle", {})

KeysInit ==
  /\ menu \in Menus
  /\ present = {} /\ hollow = {} /\ expiring = {} /\ endless = {}
  /\ at = [c \in Contexts |-> Quiet]
  /\ there = [c \in Contexts |-> {}]
  /\ faults = 0

------------------------------------------------------------------------------
(* Redis *)

\* A state of the keys; every command turns one into another.
Redis == [present |-> present, hollow |-> hollow, expiring |-> expiring, endless |-> endless]

\* Mutant of Put: SET KEEPTTL where no ttl is given.
PutKeepTtl(r, ks, kind, ttl) ==
  [present  |-> r.present \cup ks,
   hollow   |-> r.hollow \ ks,
   expiring |-> IF ttl = "some" THEN r.expiring \cup ks ELSE r.expiring,
   endless  |-> IF ttl = "some" THEN r.endless \ ks ELSE r.endless \cup ks]

\* SET k, or SET k EX ttl, for every k of ks.
Put(r, ks, kind, ttl) ==
  [present  |-> r.present \cup ks,
   hollow   |-> IF kind = "undefined" THEN r.hollow \cup ks ELSE r.hollow \ ks,
   expiring |-> IF ttl = "some" THEN r.expiring \cup ks ELSE r.expiring \ ks,
   endless  |-> IF ttl = "some" THEN r.endless \ ks ELSE r.endless \cup ks]

\* What increment() and decrement() take for a ttl: whatever is truthy.
Truthy == {"negative", "some"}

\* INCR, DECR and INCRBY keep the ttl; a key they create has none.
Incr(r, k, ttl) ==
  [r EXCEPT !.present = @ \cup {k},
            !.endless = IF k \in r.present \/ ttl \in Truthy THEN @ ELSE @ \cup {k}]

Del(r, ks) ==
  [present  |-> r.present \ ks,  hollow  |-> r.hollow \ ks,
   expiring |-> r.expiring \ ks, endless |-> r.endless \ ks]

\* EXPIRE and PEXPIRE of a key that exists, which delete it when the ttl is not positive, and
\* one that is not executed.
Limit(r, ks)   == [r EXCEPT !.expiring = @ \cup (ks \cap r.present), !.endless = @ \ ks]
Unlimit(r, ks) == [r EXCEPT !.endless = @ \cup ((ks \cap r.present) \ r.expiring)]

Becomes(r) ==
  /\ present' = r.present
  /\ hollow' = r.hollow
  /\ expiring' = r.expiring
  /\ endless' = r.endless
  /\ there' = [c \in Contexts |-> there[c] \cap r.present]

Fault == faults < MaxFaults /\ faults' = faults + 1

\* The keys to which a call in this state is about to send EXPIRE, with a ttl above or below 0.
Owed(call) == IF call.step \in {"expire", "expireNow"} THEN call.keys ELSE {}

\* c sends a command, which turns Redis into r.  It is executed and answered, and c goes on
\* with next; or it fails, after or before its execution, and ends c's method.
Command(c, r, next) ==
  \/ /\ Becomes(r)
     /\ at' = [at EXCEPT ![c] = next]
     /\ UNCHANGED <<menu, faults>>
  \/ /\ Fault
     /\ Becomes(Unlimit(r, Owed(next))) \/ Becomes(Unlimit(Redis, Owed(at[c])))
     /\ at' = [at EXCEPT ![c] = Quiet]
     /\ UNCHANGED menu

\* The life of a key ends.
Expire(k) ==
  /\ k \in expiring
  /\ Becomes(Del(Redis, {k}))
  /\ UNCHANGED <<menu, at, faults>>

------------------------------------------------------------------------------
(* Methods of one command: set(), setMany(), delete(), deleteMany() and flushDb() log a
   failure and return as if nothing had happened, the others throw it. *)

Calls(c, op) == op \in menu /\ at[c].step = "idle"

\* set() stores neither undefined, nor null unless cacheNullable, nor what has no life.
Stores(kind, ttl, nullable) ==
  /\ kind # "undefined"
  /\ nullable \/ kind # "null"
  /\ ttl \notin {"zero", "negative"}

Set(c, k) == \E kind \in Kinds, ttl \in Ttls, nullable \in BOOLEAN :
  /\ Calls(c, "set")
  /\ Stores(kind, ttl, nullable)
  /\ Command(c, Put(Redis, {k}, kind, ttl), Quiet)

\* setnx() and setMany() test for null and undefined alike, and only unless cacheNullable:
\* with it undefined is stored, as the empty string.
SetNx(c, k) == \E kind \in Kinds, nullable \in BOOLEAN :
  /\ Calls(c, "setnx")
  /\ nullable \/ kind = "value"
  /\ Command(c, IF k \in present THEN Redis ELSE Put(Redis, {k}, kind, "none"), Quiet)

\* A MULTI of one SET EX for each key; with a ttl of 0 or below each of them fails by itself.
SetMany(c, ks) == \E kind \in Kinds, ttl \in Ttls \ {"none"}, nullable \in BOOLEAN :
  /\ Calls(c, "setMany")
  /\ nullable \/ kind = "value"
  /\ Command(c, IF ttl = "some" THEN Put(Redis, ks, kind, ttl) ELSE Redis, Quiet)

Delete(c, k) ==
  /\ Calls(c, "delete")
  /\ Command(c, Del(Redis, {k}), Quiet)

DeleteMany(c, ks) ==
  /\ Calls(c, "deleteMany")
  /\ Command(c, Del(Redis, ks), Quiet)

FlushDb(c) ==
  /\ Calls(c, "flushDb")
  /\ Command(c, Del(Redis, Names), Quiet)

\* expire() and pexpire()
ExpireMethod(c, k) == \E ttl \in Ttls \ {"none"} :
  /\ Calls(c, "expire")
  /\ Command(c, IF ttl = "some" THEN Limit(Redis, {k}) ELSE Del(Redis, {k}), Quiet)

IncrBy(c, k) ==
  /\ Calls(c, "incrby")
  /\ k \notin hollow
  /\ Command(c, Incr(Redis, k, "none"), Quiet)

------------------------------------------------------------------------------
(* Methods of several commands *)

\* Mutant of Increment: the ttl is set before the number.
IncrementLast(c, k) == \E op \in {"increment", "decrement"} :
  /\ Calls(c, op)
  /\ k \notin hollow
  /\ Command(c, Incr(Limit(Redis, {k}), k, "some"), Quiet)

\* increment() and decrement(): INCR or DECR, which fail for the empty string, and with a truthy ttl ...
Increment(c, k) == \E op \in {"increment", "decrement"}, ttl \in Ttls :
  /\ Calls(c, op)
  /\ k \notin hollow
  /\ Command(c, Incr(Redis, k, ttl),
             IF ttl \in Truthy
             THEN Call(op, IF ttl = "some" THEN "expire" ELSE "expireNow", {k}) ELSE Quiet)

\* ... EXPIRE, which deletes what was just counted when the ttl is negative.  When it fails the
\* error is thrown although the key has been counted.
IncrementExpires(c) ==
  \/ at[c].step = "expire" /\ Command(c, Limit(Redis, at[c].keys), Quiet)
  \/ at[c].step = "expireNow" /\ Command(c, Del(Redis, at[c].keys), Quiet)

\* getOrSet(): a GET that fails, or that finds the empty string, is a miss; a hit changes nothing.
GetOrSet(c, k) ==
  /\ Calls(c, "getOrSet")
  /\ \/ k \notin present \ hollow /\ UNCHANGED faults
     \/ Fault
  /\ at' = [at EXCEPT ![c] = Call("getOrSet", "create", {k})]
  /\ UNCHANGED <<menu, redisVars, there>>

\* setOrUpdate() does not look first.
SetOrUpdate(c, k) ==
  /\ Calls(c, "setOrUpdate")
  /\ at' = [at EXCEPT ![c] = Call("setOrUpdate", "create", {k})]
  /\ UNCHANGED <<menu, redisVars, there, faults>>

\* Their createValueFunc() throws, or returns what set() then stores or drops.
Created(c) == \E kind \in Kinds, ttl \in Ttls \ {"none"}, nullable \in BOOLEAN :
  /\ at[c].step = "create"
  /\ IF Stores(kind, ttl, nullable)
     THEN Command(c, Put(Redis, at[c].keys, kind, ttl), Quiet)
     ELSE /\ at' = [at EXCEPT ![c] = Quiet]
          /\ UNCHANGED <<menu, redisVars, there, faults>>

\* scan() and deleteByPattern() begin to iterate from cursor 0.
Scan(c) == \E op \in {"scan", "deleteByPattern"} :
  /\ Calls(c, op)
  /\ at' = [at EXCEPT ![c] = Call(op, "scan", {})]
  /\ there' = [there EXCEPT ![c] = Matching \cap present]
  /\ UNCHANGED <<menu, redisVars, faults>>

\* Mutant of Collected: a page replaces the one before.
LastPage(found, page) == page

Collected(found, page) == found \cup page

\* A page of the iteration: any of the matching keys that exist.  SCAN answers cursor 0 only when
\* all that were there throughout have been returned.  scan() throws what fails.
Page(c) == \E page \in SUBSET (Matching \cap present) :
  LET returned == at[c].keys \cup page
      keys == Collected(at[c].keys, page)
  IN /\ at[c].step = "scan"
     /\ \/ at' = [at EXCEPT ![c].keys = keys] /\ UNCHANGED faults
        \/ /\ there[c] \subseteq returned
           /\ at' = [at EXCEPT ![c] = IF @.op = "scan" THEN Quiet ELSE Call(@.op, "multi", keys)]
           /\ UNCHANGED faults
        \/ Fault /\ at' = [at EXCEPT ![c] = Quiet]
     /\ UNCHANGED <<menu, redisVars, there>>

\* deleteByPattern() ends with a MULTI of one DEL for each key the iteration returned.
DeleteFound(c) ==
  /\ at[c].step = "multi"
  /\ Command(c, Del(Redis, at[c].keys), Quiet)

\* The process of c stops between two commands.
Stop(c) ==
  /\ at[c].step # "idle"
  /\ Fault
  /\ Becomes(Unlimit(Redis, Owed(at[c])))
  /\ at' = [at EXCEPT ![c] = Quiet]
  /\ UNCHANGED menu

KeysNext ==
  \/ \E k \in Names : Expire(k)
  \/ \E c \in Contexts, k \in Names :
       \/ Set(c, k) \/ SetNx(c, k) \/ Delete(c, k) \/ ExpireMethod(c, k) \/ IncrBy(c, k)
       \/ Increment(c, k) \/ GetOrSet(c, k) \/ SetOrUpdate(c, k)
  \/ \E c \in Contexts, ks \in SUBSET Names : SetMany(c, ks) \/ DeleteMany(c, ks)
  \/ \E c \in Contexts :
       \/ FlushDb(c) \/ IncrementExpires(c) \/ Created(c)
       \/ Scan(c) \/ Page(c) \/ DeleteFound(c) \/ Stop(c)

KeysSpec == KeysInit /\ [][KeysNext]_keysVars

------------------------------------------------------------------------------
(* Properties *)

\* The types; a key has a limited life, or an endless one, only while it exists.
KeysTypeOK ==
  /\ menu \in Menus
  /\ present \subseteq Names
  /\ hollow \subseteq present
  /\ expiring \subseteq present
  /\ endless \subseteq present \ expiring
  /\ at \in [Contexts -> [op : KeyMethods, keys : SUBSET Names,
                          step : {"idle", "expire", "expireNow", "create", "scan", "multi"}]]
  /\ there \in [Contexts -> SUBSET Names]
  /\ faults \in 0..MaxFaults

\* A key without a ttl either was written so by a caller that asked for none, or has lost its
\* EXPIRE to a fault, or has it on its way from increment() or decrement(): the two commands may
\* interleave with a deletion, an expiry and other counts of the same key in any order.
CounterExpires == \A k \in present \ expiring :
  k \in endless \/ \E c \in Contexts : k \in Owed(at[c])

\* When deleteByPattern() ends without an error, no matching key is left that was there since it
\* began, however its iteration was paged and whatever others did meanwhile.
PatternGone == [][\A c \in Contexts :
  at[c].step = "multi" /\ at'[c].step = "idle" /\ UNCHANGED faults
    => there[c] \cap present' = {}]_keysVars

=============================================================================
