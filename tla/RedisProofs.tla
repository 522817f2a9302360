------------------------------- MODULE RedisProofs -------------------------------
(***************************************************************************)
(* Proofs about RedisKeys and RedisCollections, for any contexts, keys,    *)
(* methods, elements, scores and faults.                                   *)
(***************************************************************************)
EXTENDS RedisKeys, RedisCollections, SequenceTheorems, TLAPS

------------------------------------------------------------------------------
(* Keys *)

\* A state of the keys that a command starts from or leads to.
IsState(r) ==
  /\ r \in [present : SUBSET Names, hollow : SUBSET Names, expiring : SUBSET Names, endless : SUBSET Names]
  /\ r.hollow \subseteq r.present
  /\ r.expiring \subseteq r.present
  /\ r.endless \subseteq r.present \ r.expiring

CallType == [op : KeyMethods, keys : SUBSET Names,
             step : {"idle", "expire", "expireNow", "create", "scan", "multi"}]

\* What KeysTypeOK says besides of the keys.
RestType ==
  /\ menu \in Menus
  /\ at \in [Contexts -> CallType]
  /\ there \in [Contexts -> SUBSET Names]
  /\ faults \in 0..MaxFaults

LEMMA TypeGroups == KeysTypeOK <=> RestType /\ IsState(Redis)
BY DEF KeysTypeOK, RestType, IsState, Redis, CallType

------------------------------------------------------------------------------
(* Commands lead from states to states *)

LEMMA PutState ==
  ASSUME NEW r, IsState(r), NEW ks \in SUBSET Names, NEW kind, NEW ttl
  PROVE  IsState(Put(r, ks, kind, ttl))
BY DEF IsState, Put

LEMMA IncrState ==
  ASSUME NEW r, IsState(r), NEW k \in Names, NEW ttl
  PROVE  IsState(Incr(r, k, ttl))
BY DEF IsState, Incr

LEMMA DelState ==
  ASSUME NEW r, IsState(r), NEW ks
  PROVE  IsState(Del(r, ks))
BY DEF IsState, Del

LEMMA LimitState ==
  ASSUME NEW r, IsState(r), NEW ks
  PROVE  IsState(Limit(r, ks)) /\ IsState(Unlimit(r, ks))
BY DEF IsState, Limit, Unlimit

LEMMA BecomesType ==
  ASSUME NEW r, IsState(r), there \in [Contexts -> SUBSET Names], Becomes(r)
  PROVE  IsState(Redis') /\ there' \in [Contexts -> SUBSET Names]
BY DEF IsState, Becomes, Redis

LEMMA QuietType == Quiet \in CallType
BY DEF Quiet, Call, CallType, KeyMethods

LEMMA CommandType ==
  ASSUME KeysAssumption, KeysTypeOK, NEW c \in Contexts, NEW r, IsState(r), NEW next \in CallType,
         Command(c, r, next)
  PROVE  KeysTypeOK'
<1> USE DEF RestType
<1>1. RestType /\ IsState(Redis)
  BY TypeGroups
<1>2. /\ IsState(Unlimit(r, Owed(next)))
      /\ IsState(Unlimit(Redis, Owed(at[c])))
  BY <1>1, LimitState
<1>3. IsState(Redis') /\ there' \in [Contexts -> SUBSET Names]
  BY <1>1, <1>2, BecomesType DEF Command
<1>4. menu' \in Menus /\ at' \in [Contexts -> CallType] /\ faults' \in 0..MaxFaults
  BY <1>1, QuietType DEF Command, Fault, KeysAssumption
<1>5. RestType'
  BY <1>3, <1>4
<1> QED
  BY <1>3, <1>5, TypeGroups DEF KeysTypeOK, IsState, Redis, CallType

------------------------------------------------------------------------------
(* KeysTypeOK *)

LEMMA CallIsTyped ==
  ASSUME NEW op \in KeyMethods, NEW keys \in SUBSET Names,
         NEW step \in {"idle", "expire", "expireNow", "create", "scan", "multi"}
  PROVE  Call(op, step, keys) \in CallType
BY DEF Call, CallType

\* What increment() and decrement() do after INCR or DECR.
Counted(op, k, ttl) ==
  IF ttl \in Truthy THEN Call(op, IF ttl = "some" THEN "expire" ELSE "expireNow", {k}) ELSE Quiet

\* A step that leaves the keys alone and takes c to another step.
LEMMA CallChanges ==
  ASSUME KeysAssumption, KeysTypeOK, NEW c \in Contexts, NEW next \in CallType,
         at' = [at EXCEPT ![c] = next], UNCHANGED <<menu, redisVars>>,
         there' \in [Contexts -> SUBSET Names], UNCHANGED faults \/ Fault
  PROVE  KeysTypeOK'
<1>1. RestType /\ IsState(Redis)
  BY TypeGroups
<1>2. IsState(Redis')
  BY <1>1 DEF Redis, redisVars
<1>3. at' \in [Contexts -> CallType] /\ faults' \in 0..MaxFaults
  BY <1>1 DEF RestType, Fault, KeysAssumption
<1> QED
  BY <1>1, <1>2, <1>3 DEF RestType, KeysTypeOK, IsState, Redis, CallType

LEMMA TypeStep == KeysAssumption /\ KeysTypeOK /\ [KeysNext]_keysVars => KeysTypeOK'
<1> SUFFICES ASSUME KeysAssumption, KeysTypeOK, [KeysNext]_keysVars PROVE KeysTypeOK'
  OBVIOUS
<1>a. RestType /\ IsState(Redis)
  BY TypeGroups
<1>b. Quiet \in CallType
  BY QuietType
<1>1. ASSUME NEW k \in Names, Expire(k) PROVE KeysTypeOK'
  <2>1. IsState(Del(Redis, {k}))
    BY <1>a, DelState
  <2>2. IsState(Redis') /\ there' \in [Contexts -> SUBSET Names]
    BY <1>1, <1>a, <2>1, BecomesType DEF Expire, RestType
  <2> QED
    BY <1>1, <1>a, <2>2 DEF Expire, RestType, KeysTypeOK, IsState, Redis, CallType
<1>2. ASSUME NEW c \in Contexts, NEW k \in Names, Set(c, k) PROVE KeysTypeOK'
  <2>1. PICK kind \in Kinds, ttl \in Ttls : Command(c, Put(Redis, {k}, kind, ttl), Quiet)
    BY <1>2 DEF Set
  <2> QED
    BY <1>a, <1>b, <2>1, PutState, CommandType
<1>3. ASSUME NEW c \in Contexts, NEW k \in Names, SetNx(c, k) PROVE KeysTypeOK'
  <2>1. PICK kind \in Kinds :
          Command(c, IF k \in present THEN Redis ELSE Put(Redis, {k}, kind, "none"), Quiet)
    BY <1>3 DEF SetNx
  <2>2. IsState(IF k \in present THEN Redis ELSE Put(Redis, {k}, kind, "none"))
    BY <1>a, PutState
  <2> QED
    BY <1>b, <2>1, <2>2, CommandType
<1>4. ASSUME NEW c \in Contexts, NEW k \in Names, Delete(c, k) PROVE KeysTypeOK'
  BY <1>4, <1>a, <1>b, DelState, CommandType DEF Delete
<1>5. ASSUME NEW c \in Contexts, NEW k \in Names, ExpireMethod(c, k) PROVE KeysTypeOK'
  <2>1. \/ Command(c, Limit(Redis, {k}), Quiet)
        \/ Command(c, Del(Redis, {k}), Quiet)
    BY <1>5 DEF ExpireMethod
  <2> QED
    BY <1>a, <1>b, <2>1, LimitState, DelState, CommandType
<1>6. ASSUME NEW c \in Contexts, NEW k \in Names, IncrBy(c, k) PROVE KeysTypeOK'
  BY <1>6, <1>a, <1>b, IncrState, CommandType DEF IncrBy
<1>7. ASSUME NEW c \in Contexts, NEW k \in Names, Increment(c, k) PROVE KeysTypeOK'
  <2>1. PICK op \in {"increment", "decrement"}, ttl \in Ttls :
          Command(c, Incr(Redis, k, ttl), Counted(op, k, ttl))
    BY <1>7 DEF Increment, Counted
  <2>2. Call(op, "expire", {k}) \in CallType /\ Call(op, "expireNow", {k}) \in CallType
    BY CallIsTyped DEF KeyMethods
  <2>3. Counted(op, k, ttl) \in CallType
    BY <1>b, <2>2 DEF Counted
  <2> QED
    BY <1>a, <2>1, <2>3, IncrState, CommandType
<1>8. ASSUME NEW c \in Contexts, NEW k \in Names, GetOrSet(c, k) PROVE KeysTypeOK'
  BY <1>8, <1>a, CallIsTyped, CallChanges DEF GetOrSet, KeyMethods, RestType
<1>9. ASSUME NEW c \in Contexts, NEW k \in Names, SetOrUpdate(c, k) PROVE KeysTypeOK'
  BY <1>9, <1>a, CallIsTyped, CallChanges DEF SetOrUpdate, KeyMethods, RestType
<1>10. ASSUME NEW c \in Contexts, NEW ks \in SUBSET Names, SetMany(c, ks) PROVE KeysTypeOK'
  <2>1. PICK kind \in Kinds, ttl \in Ttls \ {"none"} :
          Command(c, IF ttl = "some" THEN Put(Redis, ks, kind, ttl) ELSE Redis, Quiet)
    BY <1>10 DEF SetMany
  <2>2. IsState(IF ttl = "some" THEN Put(Redis, ks, kind, ttl) ELSE Redis)
    BY <1>a, PutState
  <2> QED
    BY <1>b, <2>1, <2>2, CommandType
<1>11. ASSUME NEW c \in Contexts, NEW ks \in SUBSET Names, DeleteMany(c, ks) PROVE KeysTypeOK'
  BY <1>11, <1>a, <1>b, DelState, CommandType DEF DeleteMany
<1>12. ASSUME NEW c \in Contexts, FlushDb(c) PROVE KeysTypeOK'
  BY <1>12, <1>a, <1>b, DelState, CommandType DEF FlushDb
<1>13. ASSUME NEW c \in Contexts, IncrementExpires(c) PROVE KeysTypeOK'
  BY <1>13, <1>a, <1>b, LimitState, DelState, CommandType DEF IncrementExpires
<1>14. ASSUME NEW c \in Contexts, Created(c) PROVE KeysTypeOK'
  <2>1. PICK kind \in Kinds, ttl \in Ttls \ {"none"}, nullable \in BOOLEAN :
          IF Stores(kind, ttl, nullable)
          THEN Command(c, Put(Redis, at[c].keys, kind, ttl), Quiet)
          ELSE at' = [at EXCEPT ![c] = Quiet] /\ UNCHANGED <<menu, redisVars, there, faults>>
    BY <1>14 DEF Created
  <2>2. at[c].keys \in SUBSET Names
    BY <1>a DEF RestType, CallType
  <2>3. CASE Stores(kind, ttl, nullable)
    BY <1>a, <1>b, <2>1, <2>2, <2>3, PutState, CommandType
  <2>4. CASE ~Stores(kind, ttl, nullable)
    BY <1>a, <1>b, <2>1, <2>4, CallChanges DEF RestType
  <2> QED
    BY <2>3, <2>4
<1>15. ASSUME NEW c \in Contexts, Scan(c) PROVE KeysTypeOK'
  <2>1. PICK op \in {"scan", "deleteByPattern"} :
          /\ at' = [at EXCEPT ![c] = Call(op, "scan", {})]
          /\ there' = [there EXCEPT ![c] = Matching \cap present]
          /\ UNCHANGED <<menu, redisVars, faults>>
    BY <1>15 DEF Scan
  <2>2. Call(op, "scan", {}) \in CallType
    BY CallIsTyped DEF KeyMethods
  <2>3. there' \in [Contexts -> SUBSET Names]
    BY <1>a, <2>1 DEF RestType, KeysAssumption
  <2> QED
    BY <2>1, <2>2, <2>3, CallChanges
<1>16. ASSUME NEW c \in Contexts, Page(c) PROVE KeysTypeOK'
  <2>1. PICK page \in SUBSET (Matching \cap present) :
          /\ \/ at' = [at EXCEPT ![c].keys = at[c].keys \cup page]
             \/ at' = [at EXCEPT ![c] = IF @.op = "scan" THEN Quiet
                                        ELSE Call(@.op, "multi", at[c].keys \cup page)]
             \/ at' = [at EXCEPT ![c] = Quiet]
          /\ UNCHANGED faults \/ Fault
          /\ UNCHANGED <<menu, redisVars, there>>
    BY <1>16 DEF Page, Collected
  <2>2. at[c].op \in KeyMethods /\ at[c].keys \cup page \in SUBSET Names
    BY <1>a DEF RestType, CallType, KeysAssumption
  <2>3. at' \in [Contexts -> CallType]
    BY <1>a, <1>b, <2>1, <2>2, CallIsTyped DEF RestType, CallType
  <2> QED
    BY <1>a, <2>1, <2>3 DEF RestType, KeysTypeOK, CallType, redisVars, Fault, KeysAssumption
<1>17. ASSUME NEW c \in Contexts, DeleteFound(c) PROVE KeysTypeOK'
  BY <1>17, <1>a, <1>b, DelState, CommandType DEF DeleteFound
<1>18. ASSUME NEW c \in Contexts, Stop(c) PROVE KeysTypeOK'
  <2>1. IsState(Unlimit(Redis, Owed(at[c])))
    BY <1>a, LimitState
  <2>2. IsState(Redis') /\ there' \in [Contexts -> SUBSET Names]
    BY <1>18, <1>a, <2>1, BecomesType DEF Stop, RestType
  <2> QED
    BY <1>18, <1>a, <1>b, <2>2 DEF Stop, Fault, RestType, KeysTypeOK, IsState, Redis, CallType, KeysAssumption
<1>19. CASE UNCHANGED keysVars
  BY <1>19 DEF keysVars, redisVars, KeysTypeOK
<1> QED
  BY <1>1, <1>2, <1>3, <1>4, <1>5, <1>6, <1>7, <1>8, <1>9, <1>10, <1>11, <1>12, <1>13, <1>14,
     <1>15, <1>16, <1>17, <1>18, <1>19 DEF KeysNext

LEMMA TypeInit == KeysAssumption /\ KeysInit => KeysTypeOK
BY DEF KeysAssumption, KeysInit, KeysTypeOK, Quiet, Call, KeyMethods

\* Every variable keeps its type, and a key has a ttl, or an endless life, only while it exists
\* (all the methods of RedisCacheService over string keys).
THEOREM TypeCorrect == KeysSpec => []KeysTypeOK
BY TypeInit, TypeStep, KeysAssumption, PTL DEF KeysSpec

------------------------------------------------------------------------------
(* CounterExpires *)

\* Every key of r without a ttl is endless, or about to get one from a context other than c,
\* or is one of the owed.
Accounted(r, c, owed) == \A k \in r.present \ r.expiring :
  k \in r.endless \cup owed \/ \E d \in Contexts \ {c} : k \in Owed(at[d])

LEMMA Accounts ==
  ASSUME NEW c \in Contexts
  PROVE  CounterExpires <=> Accounted(Redis, c, Owed(at[c]))
BY DEF CounterExpires, Accounted, Redis, Owed

LEMMA AccountedPut ==
  ASSUME NEW r, NEW c, NEW owed, Accounted(r, c, owed), NEW ks, NEW kind, NEW ttl
  PROVE  Accounted(Put(r, ks, kind, ttl), c, owed)
BY DEF Accounted, Put

LEMMA AccountedDel ==
  ASSUME NEW r, NEW c, NEW owed, Accounted(r, c, owed), NEW ks
  PROVE  Accounted(Del(r, ks), c, owed)
BY DEF Accounted, Del

\* A key that INCR creates is owed its ttl, if there is to be one.
LEMMA AccountedIncr ==
  ASSUME NEW r, IsState(r), NEW c, NEW owed, Accounted(r, c, owed), NEW k, NEW ttl
  PROVE  Accounted(Incr(r, k, ttl), c, IF ttl \in Truthy THEN owed \cup {k} ELSE owed)
BY DEF Accounted, Incr, IsState

\* EXPIRE pays what is owed, whether it limits the life of the keys or ends it ...
LEMMA AccountedLimit ==
  ASSUME NEW r, IsState(r), NEW c, NEW owed, NEW ks, Accounted(r, c, owed \cup ks)
  PROVE  Accounted(Limit(r, ks), c, owed) /\ Accounted(Del(r, ks), c, owed)
BY DEF Accounted, Limit, Del, IsState

\* ... and when it gets lost the keys are endless.
LEMMA AccountedUnlimit ==
  ASSUME NEW r, IsState(r), NEW c, NEW owed, NEW ks, Accounted(r, c, owed \cup ks)
  PROVE  Accounted(Unlimit(r, ks), c, owed)
BY DEF Accounted, Unlimit, IsState

\* The keys become those of r while c goes on with next.
LEMMA AccountedNext ==
  ASSUME KeysTypeOK, NEW c \in Contexts, NEW r, NEW next,
         Accounted(r, c, Owed(next)), Becomes(r), at' = [at EXCEPT ![c] = next]
  PROVE  CounterExpires'
<1>1. at'[c] = next /\ \A d \in Contexts \ {c} : at'[d] = at[d]
  BY DEF KeysTypeOK
<1>2. SUFFICES ASSUME NEW k \in r.present \ r.expiring, k \notin r.endless
               PROVE  \E d \in Contexts : k \in Owed(at'[d])
  BY DEF CounterExpires, Becomes, Owed
<1>3. k \in Owed(next) \/ \E d \in Contexts \ {c} : k \in Owed(at[d])
  BY <1>2 DEF Accounted
<1> QED
  BY <1>1, <1>3 DEF Owed

LEMMA OwesNothing == Owed(Quiet) = {}
BY DEF Owed, Quiet, Call

\* A command, executed or failed, keeps all keys accounted for if its result does.
LEMMA AccountedCommand ==
  ASSUME KeysTypeOK, CounterExpires, NEW c \in Contexts, NEW r, IsState(r), NEW next,
         Accounted(r, c, Owed(next)), Command(c, r, next)
  PROVE  CounterExpires'
<1>1. IsState(Redis) /\ Accounted(Redis, c, Owed(at[c]))
  BY TypeGroups, Accounts
<1>2. CASE Becomes(r) /\ at' = [at EXCEPT ![c] = next]
  BY <1>2, AccountedNext
<1>3. CASE Becomes(Unlimit(r, Owed(next))) /\ at' = [at EXCEPT ![c] = Quiet]
  <2>1. Accounted(Unlimit(r, Owed(next)), c, {})
    BY AccountedUnlimit
  <2> QED
    BY <1>3, <2>1, AccountedNext, OwesNothing
<1>4. CASE Becomes(Unlimit(Redis, Owed(at[c]))) /\ at' = [at EXCEPT ![c] = Quiet]
  <2>1. Accounted(Unlimit(Redis, Owed(at[c])), c, {})
    BY <1>1, AccountedUnlimit
  <2> QED
    BY <1>4, <2>1, AccountedNext, OwesNothing
<1> QED
  BY <1>2, <1>3, <1>4 DEF Command

\* A step between two commands owes no key and pays none.
LEMMA AccountedBetween ==
  ASSUME KeysTypeOK, CounterExpires, UNCHANGED redisVars,
         NEW c \in Contexts, Owed(at[c]) = {}, \A d \in Contexts \ {c} : at'[d] = at[d]
  PROVE  CounterExpires'
<1>1. Accounted(Redis, c, {})
  BY Accounts
<1> QED
  BY <1>1 DEF Accounted, Redis, redisVars, CounterExpires, Owed

LEMMA CounterStep == KeysTypeOK /\ CounterExpires /\ [KeysNext]_keysVars => CounterExpires'
<1> SUFFICES ASSUME KeysTypeOK, CounterExpires, [KeysNext]_keysVars PROVE CounterExpires'
  OBVIOUS
<1>a. IsState(Redis)
  BY TypeGroups
<1>b. ASSUME NEW c \in Contexts PROVE Accounted(Redis, c, Owed(at[c]))
  BY <1>b, Accounts
<1>c. ASSUME NEW c \in Contexts, at[c].step \notin {"expire", "expireNow"}
      PROVE  Owed(at[c]) = {} /\ Accounted(Redis, c, Owed(Quiet))
  BY <1>b, <1>c, OwesNothing DEF Owed
<1>1. ASSUME NEW k \in Names, Expire(k) PROVE CounterExpires'
  BY <1>1 DEF Expire, Becomes, Del, Redis, CounterExpires
<1>2. ASSUME NEW c \in Contexts, NEW k \in Names, Set(c, k) PROVE CounterExpires'
  <2>1. PICK kind \in Kinds, ttl \in Ttls : Command(c, Put(Redis, {k}, kind, ttl), Quiet)
    BY <1>2 DEF Set
  <2>2. Accounted(Put(Redis, {k}, kind, ttl), c, Owed(Quiet))
    BY <1>2, <1>c, AccountedPut DEF Set, Calls
  <2> QED
    BY <1>a, <2>1, <2>2, PutState, AccountedCommand
<1>3. ASSUME NEW c \in Contexts, NEW k \in Names, SetNx(c, k) PROVE CounterExpires'
  <2> DEFINE r(kind) == IF k \in present THEN Redis ELSE Put(Redis, {k}, kind, "none")
  <2>1. PICK kind \in Kinds : Command(c, r(kind), Quiet)
    BY <1>3 DEF SetNx
  <2>2. IsState(r(kind))
    BY <1>a, PutState
  <2>3. Accounted(r(kind), c, Owed(Quiet))
    BY <1>3, <1>c, AccountedPut DEF SetNx, Calls
  <2> QED
    BY <2>1, <2>2, <2>3, AccountedCommand
<1>4. ASSUME NEW c \in Contexts, NEW k \in Names, Delete(c, k) PROVE CounterExpires'
  BY <1>4, <1>a, <1>c, DelState, AccountedDel, AccountedCommand DEF Delete, Calls
<1>5. ASSUME NEW c \in Contexts, NEW k \in Names, ExpireMethod(c, k) PROVE CounterExpires'
  <2>1. Accounted(Redis, c, Owed(Quiet) \cup {k})
    BY <1>5, <1>c DEF ExpireMethod, Calls, Accounted
  <2> QED
    BY <1>5, <1>a, <2>1, LimitState, DelState, AccountedLimit, AccountedCommand DEF ExpireMethod
<1>6. ASSUME NEW c \in Contexts, NEW k \in Names, IncrBy(c, k) PROVE CounterExpires'
  <2>1. Accounted(Incr(Redis, k, "none"), c, Owed(Quiet))
    BY <1>6, <1>a, <1>c, AccountedIncr DEF IncrBy, Calls, Truthy
  <2> QED
    BY <1>6, <1>a, <2>1, IncrState, AccountedCommand DEF IncrBy
<1>7. ASSUME NEW c \in Contexts, NEW k \in Names, Increment(c, k) PROVE CounterExpires'
  <2>1. PICK op \in {"increment", "decrement"}, ttl \in Ttls :
          Command(c, Incr(Redis, k, ttl), Counted(op, k, ttl))
    BY <1>7 DEF Increment, Counted
  <2>2. Owed(Counted(op, k, ttl)) = IF ttl \in Truthy THEN Owed(Quiet) \cup {k} ELSE Owed(Quiet)
    BY OwesNothing DEF Owed, Call, Counted
  <2>3. Accounted(Incr(Redis, k, ttl), c, Owed(Counted(op, k, ttl)))
    <3>1. Accounted(Redis, c, Owed(Quiet))
      BY <1>7, <1>c DEF Increment, Calls
    <3>2. Accounted(Incr(Redis, k, ttl), c, IF ttl \in Truthy THEN Owed(Quiet) \cup {k} ELSE Owed(Quiet))
      BY <1>a, <3>1, AccountedIncr
    <3> QED
      BY <2>2, <3>2
  <2>4. IsState(Incr(Redis, k, ttl))
    BY <1>a, IncrState
  <2> QED
    BY <2>1, <2>3, <2>4, AccountedCommand
<1>8. ASSUME NEW c \in Contexts, NEW k \in Names, GetOrSet(c, k) \/ SetOrUpdate(c, k)
      PROVE  CounterExpires'
  <2>1. /\ at[c].step \notin {"expire", "expireNow"} /\ UNCHANGED redisVars
        /\ \A d \in Contexts \ {c} : at'[d] = at[d]
    BY <1>8 DEF GetOrSet, SetOrUpdate, Calls, KeysTypeOK
  <2> QED
    BY <1>c, <2>1, AccountedBetween
<1>9. ASSUME NEW c \in Contexts, NEW ks \in SUBSET Names, SetMany(c, ks) PROVE CounterExpires'
  <2> DEFINE r(kind, ttl) == IF ttl = "some" THEN Put(Redis, ks, kind, ttl) ELSE Redis
  <2>1. PICK kind \in Kinds, ttl \in Ttls \ {"none"} : Command(c, r(kind, ttl), Quiet)
    BY <1>9 DEF SetMany
  <2>2. IsState(r(kind, ttl))
    BY <1>a, PutState
  <2>3. Accounted(r(kind, ttl), c, Owed(Quiet))
    BY <1>9, <1>c, AccountedPut DEF SetMany, Calls
  <2> QED
    BY <2>1, <2>2, <2>3, AccountedCommand
<1>10. ASSUME NEW c \in Contexts, NEW ks \in SUBSET Names, DeleteMany(c, ks) PROVE CounterExpires'
  BY <1>10, <1>a, <1>c, DelState, AccountedDel, AccountedCommand DEF DeleteMany, Calls
<1>11. ASSUME NEW c \in Contexts, FlushDb(c) PROVE CounterExpires'
  BY <1>11, <1>a, <1>c, DelState, AccountedDel, AccountedCommand DEF FlushDb, Calls
<1>12. ASSUME NEW c \in Contexts, IncrementExpires(c) PROVE CounterExpires'
  <2>1. Accounted(Redis, c, Owed(Quiet) \cup at[c].keys)
    BY <1>12, <1>b, OwesNothing DEF IncrementExpires, Owed
  <2> QED
    BY <1>12, <1>a, <2>1, LimitState, DelState, AccountedLimit, AccountedCommand
       DEF IncrementExpires
<1>13. ASSUME NEW c \in Contexts, Created(c) PROVE CounterExpires'
  <2>1. PICK kind \in Kinds, ttl \in Ttls \ {"none"}, nullable \in BOOLEAN :
          /\ at[c].step = "create"
          /\ IF Stores(kind, ttl, nullable)
             THEN Command(c, Put(Redis, at[c].keys, kind, ttl), Quiet)
             ELSE at' = [at EXCEPT ![c] = Quiet] /\ UNCHANGED <<menu, redisVars, there, faults>>
    BY <1>13 DEF Created
  <2>2. CASE Stores(kind, ttl, nullable)
    <3>1. Accounted(Put(Redis, at[c].keys, kind, ttl), c, Owed(Quiet))
      BY <1>c, <2>1, AccountedPut
    <3>2. IsState(Put(Redis, at[c].keys, kind, ttl))
      BY <1>a, PutState DEF KeysTypeOK
    <3> QED
      BY <2>1, <2>2, <3>1, <3>2, AccountedCommand
  <2>3. CASE ~Stores(kind, ttl, nullable)
    <3>1. UNCHANGED redisVars /\ \A d \in Contexts \ {c} : at'[d] = at[d]
      BY <2>1, <2>3 DEF KeysTypeOK
    <3> QED
      BY <1>c, <2>1, <3>1, AccountedBetween
  <2> QED
    BY <2>2, <2>3
<1>14. ASSUME NEW c \in Contexts, Scan(c) \/ Page(c) PROVE CounterExpires'
  <2>1. /\ at[c].step \notin {"expire", "expireNow"} /\ UNCHANGED redisVars
        /\ \A d \in Contexts \ {c} : at'[d] = at[d]
    BY <1>14 DEF Scan, Page, Calls, KeysTypeOK
  <2> QED
    BY <1>c, <2>1, AccountedBetween
<1>15. ASSUME NEW c \in Contexts, DeleteFound(c) PROVE CounterExpires'
  BY <1>15, <1>a, <1>c, DelState, AccountedDel, AccountedCommand DEF DeleteFound
<1>16. ASSUME NEW c \in Contexts, Stop(c) PROVE CounterExpires'
  <2>1. Accounted(Unlimit(Redis, Owed(at[c])), c, {})
    BY <1>a, <1>b, AccountedUnlimit
  <2> QED
    BY <1>16, <2>1, OwesNothing, AccountedNext DEF Stop
<1>17. CASE UNCHANGED keysVars
  BY <1>17 DEF keysVars, redisVars, CounterExpires
<1> QED
  BY <1>1, <1>2, <1>3, <1>4, <1>5, <1>6, <1>7, <1>8, <1>9, <1>10, <1>11, <1>12, <1>13, <1>14,
     <1>15, <1>16, <1>17 DEF KeysNext

\* A key that nobody wrote without a ttl, and whose EXPIRE no fault has taken, has its ttl or is
\* about to get it: increment() and decrement(), whatever runs between their two commands.
THEOREM CountersExpire == KeysSpec => []CounterExpires
<1>1. KeysInit => CounterExpires
  BY DEF KeysInit, CounterExpires
<1> QED
  BY <1>1, TypeCorrect, CounterStep, PTL DEF KeysSpec

------------------------------------------------------------------------------
(* PatternGone *)

\* What deleteByPattern() is about to delete covers what was there throughout its iteration.
ScanInv == \A c \in Contexts : at[c].step = "multi" => there[c] \subseteq at[c].keys

\* c stays at its step, and no key comes to those that were there throughout.
Rests(c) == at'[c] = at[c] /\ there'[c] \subseteq there[c]

\* c is in no deletion, neither before nor after the step.
Elsewhere(c) == at[c].step # "multi" /\ at'[c].step # "multi"

\* c's method ends with an error.
Fails(c) == Fault /\ at'[c] = Quiet

\* The deletion of c ends.
Deletes(c) == at[c].step = "multi" /\ at'[c] = Quiet /\ Becomes(Del(Redis, at[c].keys))

Moves(c) == Rests(c) \/ Elsewhere(c) \/ Fails(c) \/ Deletes(c) \/ Page(c)

LEMMA QuietStep == Quiet.step = "idle"
BY DEF Quiet, Call

\* Whatever becomes of the keys, nothing is added to what was there throughout.
LEMMA BecomesThere ==
  ASSUME NEW r, Becomes(r), NEW c \in Contexts
  PROVE  there'[c] \subseteq there[c]
BY DEF Becomes

\* A command of a call in no deletion, with a next step in none.
LEMMA CommandMoves ==
  ASSUME KeysTypeOK, NEW d \in Contexts, NEW r, NEW next, Command(d, r, next),
         at[d].step # "multi", next.step # "multi"
  PROVE  \A c \in Contexts : Moves(c)
<1> SUFFICES ASSUME NEW c \in Contexts PROVE Moves(c)
  OBVIOUS
<1>1. there'[c] \subseteq there[c]
  BY BecomesThere DEF Command
<1>2. CASE c # d
  <2>1. at'[c] = at[c]
    BY <1>2 DEF Command, KeysTypeOK
  <2> QED BY <1>1, <2>1 DEF Moves, Rests
<1>3. CASE c = d
  <2>1. at'[c] = next \/ (Fault /\ at'[c] = Quiet)
    BY <1>3 DEF Command, KeysTypeOK
  <2> QED BY <1>3, <2>1 DEF Moves, Elsewhere, Fails
<1> QED BY <1>2, <1>3

\* A step of d without a command, to a step in no deletion.
LEMMA BetweenMoves ==
  ASSUME KeysTypeOK, NEW d \in Contexts, NEW next, at' = [at EXCEPT ![d] = next],
         at[d].step # "multi", next.step # "multi",
         \A c \in Contexts \ {d} : there'[c] = there[c]
  PROVE  \A c \in Contexts : Moves(c)
BY DEF KeysTypeOK, Moves, Rests, Elsewhere

\* How a context gets into a deletion and out of it.
LEMMA StepMoves ==
  ASSUME KeysTypeOK, [KeysNext]_keysVars
  PROVE  \A c \in Contexts : Moves(c)
<1>1. ASSUME NEW k \in Names, Expire(k) PROVE \A c \in Contexts : Moves(c)
  BY <1>1, BecomesThere DEF Expire, Moves, Rests
<1>2. ASSUME NEW d \in Contexts, NEW k \in Names,
             \/ Set(d, k) \/ SetNx(d, k) \/ Delete(d, k) \/ ExpireMethod(d, k) \/ IncrBy(d, k)
      PROVE  \A c \in Contexts : Moves(c)
  <2>1. at[d].step = "idle" /\ \E r : Command(d, r, Quiet)
    BY <1>2 DEF Set, SetNx, Delete, ExpireMethod, IncrBy, Calls
  <2> QED BY <2>1, QuietStep, CommandMoves
<1>3. ASSUME NEW d \in Contexts, NEW k \in Names, Increment(d, k)
      PROVE  \A c \in Contexts : Moves(c)
  <2>1. PICK op \in {"increment", "decrement"}, ttl \in Ttls :
          Command(d, Incr(Redis, k, ttl), Counted(op, k, ttl))
    BY <1>3 DEF Increment, Counted
  <2>2. Counted(op, k, ttl).step # "multi"
    BY QuietStep DEF Call, Counted
  <2>3. at[d].step = "idle"
    BY <1>3 DEF Increment, Calls
  <2> QED BY <2>1, <2>2, <2>3, CommandMoves
<1>4. ASSUME NEW d \in Contexts, NEW k \in Names, GetOrSet(d, k) \/ SetOrUpdate(d, k)
      PROVE  \A c \in Contexts : Moves(c)
  <2>1. PICK op : at' = [at EXCEPT ![d] = Call(op, "create", {k})]
    BY <1>4 DEF GetOrSet, SetOrUpdate
  <2>2. Call(op, "create", {k}).step = "create"
    BY DEF Call
  <2>3. at[d].step = "idle" /\ there' = there
    BY <1>4 DEF GetOrSet, SetOrUpdate, Calls
  <2> QED BY <2>1, <2>2, <2>3, BetweenMoves
<1>5. ASSUME NEW d \in Contexts, NEW ks \in SUBSET Names, SetMany(d, ks) \/ DeleteMany(d, ks)
      PROVE  \A c \in Contexts : Moves(c)
  <2>1. at[d].step = "idle" /\ \E r : Command(d, r, Quiet)
    BY <1>5 DEF SetMany, DeleteMany, Calls
  <2> QED BY <2>1, QuietStep, CommandMoves
<1>6. ASSUME NEW d \in Contexts, FlushDb(d) \/ IncrementExpires(d)
      PROVE  \A c \in Contexts : Moves(c)
  <2>1. at[d].step \in {"idle", "expire", "expireNow"} /\ \E r : Command(d, r, Quiet)
    BY <1>6 DEF FlushDb, IncrementExpires, Calls
  <2> QED BY <2>1, QuietStep, CommandMoves
<1>7. ASSUME NEW d \in Contexts, Created(d) PROVE \A c \in Contexts : Moves(c)
  <2>1. /\ at[d].step = "create"
        /\ \/ \E r : Command(d, r, Quiet)
           \/ at' = [at EXCEPT ![d] = Quiet] /\ there' = there
    BY <1>7 DEF Created
  <2> QED BY <2>1, QuietStep, CommandMoves, BetweenMoves
<1>8. ASSUME NEW d \in Contexts, Scan(d) PROVE \A c \in Contexts : Moves(c)
  <2>1. PICK op : at' = [at EXCEPT ![d] = Call(op, "scan", {})]
    BY <1>8 DEF Scan
  <2>2. Call(op, "scan", {}).step = "scan"
    BY DEF Call
  <2>3. at[d].step = "idle" /\ \A c \in Contexts \ {d} : there'[c] = there[c]
    BY <1>8 DEF Scan, Calls, KeysTypeOK
  <2> QED BY <2>1, <2>2, <2>3, BetweenMoves
<1>9. ASSUME NEW d \in Contexts, Page(d) PROVE \A c \in Contexts : Moves(c)
  <2>1. there' = there /\ \A c \in Contexts \ {d} : at'[c] = at[c]
    BY <1>9 DEF Page, KeysTypeOK
  <2> QED BY <1>9, <2>1 DEF Moves, Rests
<1>10. ASSUME NEW d \in Contexts, DeleteFound(d) PROVE \A c \in Contexts : Moves(c)
  <2> SUFFICES ASSUME NEW c \in Contexts PROVE Moves(c)
    OBVIOUS
  <2>1. there'[c] \subseteq there[c]
    BY <1>10, BecomesThere DEF DeleteFound, Command
  <2>2. CASE c # d
    <3>1. at'[c] = at[c]
      BY <1>10, <2>2 DEF DeleteFound, Command, KeysTypeOK
    <3> QED BY <2>1, <3>1 DEF Moves, Rests
  <2>3. CASE c = d
    <3>1. at'[c] = Quiet /\ at[c].step = "multi"
      BY <1>10, <2>3 DEF DeleteFound, Command, KeysTypeOK
    <3>2. Fault \/ Becomes(Del(Redis, at[c].keys))
      BY <1>10, <2>3 DEF DeleteFound, Command
    <3> QED BY <3>1, <3>2 DEF Moves, Fails, Deletes
  <2> QED BY <2>2, <2>3
<1>11. ASSUME NEW d \in Contexts, Stop(d) PROVE \A c \in Contexts : Moves(c)
  <2> SUFFICES ASSUME NEW c \in Contexts PROVE Moves(c)
    OBVIOUS
  <2>1. there'[c] \subseteq there[c]
    BY <1>11, BecomesThere DEF Stop
  <2>2. (c # d => at'[c] = at[c]) /\ (c = d => at'[c] = Quiet) /\ Fault
    BY <1>11 DEF Stop, KeysTypeOK
  <2> QED BY <2>1, <2>2 DEF Moves, Rests, Fails
<1>12. CASE UNCHANGED keysVars
  BY <1>12 DEF keysVars, Moves, Rests
<1> QED
  BY <1>1, <1>2, <1>3, <1>4, <1>5, <1>6, <1>7, <1>8, <1>9, <1>10, <1>11, <1>12 DEF KeysNext

\* The iteration ends when all that was there throughout has been returned.
LEMMA ScanStep ==
  ASSUME KeysTypeOK, ScanInv, [KeysNext]_keysVars
  PROVE  ScanInv'
<1> SUFFICES ASSUME NEW c \in Contexts, at'[c].step = "multi"
             PROVE  there'[c] \subseteq at'[c].keys
  BY DEF ScanInv
<1>1. CASE Rests(c)
  BY <1>1 DEF Rests, ScanInv
<1>2. CASE Elsewhere(c) \/ Fails(c) \/ Deletes(c)
  BY <1>2, QuietStep DEF Elsewhere, Fails, Deletes
<1>3. CASE Page(c)
  <2>1. PICK page \in SUBSET (Matching \cap present) :
          /\ at[c].step = "scan"
          /\ \/ at' = [at EXCEPT ![c].keys = at[c].keys \cup page]
             \/ /\ there[c] \subseteq at[c].keys \cup page
                /\ at' = [at EXCEPT ![c] = IF @.op = "scan" THEN Quiet
                                           ELSE Call(@.op, "multi", at[c].keys \cup page)]
             \/ at' = [at EXCEPT ![c] = Quiet]
          /\ there' = there
    BY <1>3 DEF Page, Collected
  <2>2. CASE at' = [at EXCEPT ![c].keys = at[c].keys \cup page]
    <3>1. at'[c].step = "scan"
      BY <2>1, <2>2 DEF KeysTypeOK
    <3> QED BY <3>1
  <2>3. CASE at' = [at EXCEPT ![c] = Quiet]
    BY <2>3, QuietStep DEF KeysTypeOK
  <2>4. CASE /\ there[c] \subseteq at[c].keys \cup page
             /\ at' = [at EXCEPT ![c] = IF @.op = "scan" THEN Quiet
                                        ELSE Call(@.op, "multi", at[c].keys \cup page)]
    <3>1. at'[c] = Quiet \/ at'[c] = Call(at[c].op, "multi", at[c].keys \cup page)
      BY <2>4 DEF KeysTypeOK
    <3> QED BY <2>1, <2>4, <3>1, QuietStep DEF Call
  <2> QED BY <2>1, <2>2, <2>3, <2>4
<1> QED BY <1>1, <1>2, <1>3, StepMoves DEF Moves

\* After a deleteByPattern() without an error no matching key is left that was there throughout,
\* for any pages, other callers and expiries.
THEOREM NoneSurvives == KeysSpec => PatternGone
<1> DEFINE Gone == \A c \in Contexts :
             at[c].step = "multi" /\ at'[c].step = "idle" /\ UNCHANGED faults
               => there[c] \cap present' = {}
<1>1. KeysInit => ScanInv
  BY QuietStep DEF KeysInit, ScanInv
<1>2. KeysTypeOK /\ ScanInv /\ [KeysNext]_keysVars => ScanInv'
  BY ScanStep
<1>3. KeysTypeOK /\ ScanInv /\ [KeysNext]_keysVars => [Gone]_keysVars
  <2> SUFFICES ASSUME KeysTypeOK, ScanInv, [KeysNext]_keysVars, NEW c \in Contexts,
                      at[c].step = "multi", at'[c].step = "idle", UNCHANGED faults
               PROVE  there[c] \cap present' = {}
    BY Zenon
  <2>1. ~Fault
    BY DEF Fault, KeysTypeOK
  <2>2. Deletes(c)
    BY <2>1, StepMoves DEF Moves, Rests, Elsewhere, Fails, Page
  <2>3. present' = present \ at[c].keys /\ there[c] \subseteq at[c].keys
    BY <2>2 DEF Deletes, Becomes, Del, Redis, ScanInv
  <2> QED BY <2>3
<1>4. KeysSpec => [][Gone]_keysVars
  BY <1>1, <1>2, <1>3, TypeCorrect, PTL DEF KeysSpec
<1> QED BY <1>4 DEF PatternGone

------------------------------------------------------------------------------
(* Collections *)

Items == Nat \ {Blank}

\* Every item but the blank ones is behind smaller ones.
Rising(s) == \A i, j \in DOMAIN s : i < j /\ s[i] # Blank /\ s[j] # Blank => s[i] < s[j]

Present == Range(list) \ {Blank}

CollectionCalls == {"none", "lpop", "lrange", "hget", "hgetall", "hkeys", "scard", "smembers",
          "zrank", "zrevrank", "zmscore", "zrangebyscore", "zcount", "zrange", "zrevrange"}

AccessType == [op : CollectionCalls, step : {"done", "popping"}, items : Seq(Items),
             answer : {"nothing", "something", "error"}]

ListType ==
  /\ arrived \in Nat
  /\ list \in Seq(Nat)
  /\ delivered \subseteq Items
  /\ lost \subseteq Items
  /\ doing \in [Clients -> AccessType]

\* A queue whose next item is the oldest, that holds nothing for a call that is over.
ListInv ==
  /\ ListType
  /\ ListIsAQueue
  /\ Rising(list)
  /\ \A c \in Clients : doing[c].step = "done" => doing[c].items = <<>>

------------------------------------------------------------------------------
(* Sequences and what is in them *)

\* No list, no items.
LEMMA RangeOfNone == Range(<<>>) = {}
BY DEF Range

\* RPUSH adds its item.
LEMMA RangeOfAppend ==
  ASSUME NEW S, NEW s \in Seq(S), NEW e \in S
  PROVE  Append(s, e) \in Seq(S) /\ Range(Append(s, e)) = Range(s) \cup {e}
<1>1. /\ Append(s, e) \in Seq(S) /\ Len(Append(s, e)) = Len(s) + 1
      /\ \A i \in 1..Len(s) : Append(s, e)[i] = s[i]
      /\ Append(s, e)[Len(s) + 1] = e
  BY AppendProperties
<1>2. /\ Len(s) \in Nat
      /\ Range(s) = {s[i] : i \in 1..Len(s)}
      /\ Range(Append(s, e)) = {Append(s, e)[i] : i \in 1..Len(s) + 1}
  <2>1. DOMAIN s = 1..Len(s) /\ Len(s) \in Nat
    BY LenProperties
  <2>2. DOMAIN Append(s, e) = 1..Len(s) + 1
    BY <1>1, LenProperties
  <2> QED BY <2>1, <2>2, Zenon DEF Range
<1>3. 1..Len(s) + 1 = (1..Len(s)) \cup {Len(s) + 1}
  BY <1>2
<1> QED BY <1>1, <1>2, <1>3

\* LPOP takes the first item.
LEMMA RangeOfTail ==
  ASSUME NEW S, NEW s \in Seq(S), s # <<>>
  PROVE  /\ Head(s) \in S /\ Head(s) = s[1] /\ Tail(s) \in Seq(S)
         /\ Range(s) = {Head(s)} \cup Range(Tail(s))
<1>1. /\ Head(s) \in S /\ Tail(s) \in Seq(S) /\ Len(Tail(s)) = Len(s) - 1
      /\ \A i \in 1..Len(Tail(s)) : Tail(s)[i] = s[i + 1]
  BY HeadTailProperties
<1>2. /\ Len(s) \in Nat \ {0} /\ Head(s) = s[1]
      /\ Range(s) = {s[i] : i \in 1..Len(s)}
      /\ Range(Tail(s)) = {Tail(s)[i] : i \in 1..Len(Tail(s))}
  <2>1. DOMAIN s = 1..Len(s) /\ Len(s) \in Nat \ {0} /\ Head(s) = s[1]
    BY LenProperties, EmptySeq
  <2>2. DOMAIN Tail(s) = 1..Len(Tail(s))
    BY <1>1, LenProperties
  <2> QED BY <2>1, <2>2, Zenon DEF Range
<1>3. Range(s) \subseteq {Head(s)} \cup Range(Tail(s))
  <2> SUFFICES ASSUME NEW i \in 1..Len(s) PROVE s[i] \in {Head(s)} \cup Range(Tail(s))
    BY <1>2
  <2>1. i # 1 => i - 1 \in 1..Len(Tail(s)) /\ i - 1 + 1 = i
    BY <1>1, <1>2
  <2> QED BY <1>1, <1>2, <2>1
<1>4. s[1] \in Range(s)
  BY <1>2
<1>5. ASSUME NEW i \in 1..Len(Tail(s)) PROVE Tail(s)[i] \in Range(s)
  <2>1. i + 1 \in 1..Len(s)
    BY <1>1, <1>2
  <2> QED BY <1>1, <1>2, <2>1
<1> QED BY <1>1, <1>2, <1>3, <1>4, <1>5

\* The head of a rising sequence is its smallest item, and the rest rises.
LEMMA RisingTail ==
  ASSUME NEW s \in Seq(Nat), s # <<>>, Rising(s)
  PROVE  /\ Rising(Tail(s))
         /\ Head(s) # Blank => \A x \in Range(Tail(s)) \ {Blank} : Head(s) < x
<1>1. /\ Tail(s) \in Seq(Nat) /\ Len(Tail(s)) = Len(s) - 1
      /\ \A i \in 1..Len(Tail(s)) : Tail(s)[i] = s[i + 1]
  BY HeadTailProperties
<1>2. Len(s) \in Nat \ {0} /\ Head(s) = s[1] /\ DOMAIN s = 1..Len(s)
      /\ DOMAIN Tail(s) = 1..Len(Tail(s))
  BY <1>1, EmptySeq, LenProperties
<1>3. Rising(Tail(s))
  <2> SUFFICES ASSUME NEW i \in 1..Len(Tail(s)), NEW j \in 1..Len(Tail(s)), i < j,
                      Tail(s)[i] # Blank, Tail(s)[j] # Blank
               PROVE  Tail(s)[i] < Tail(s)[j]
    BY <1>2 DEF Rising
  <2>1. i + 1 \in DOMAIN s /\ j + 1 \in DOMAIN s /\ i + 1 < j + 1
    BY <1>1, <1>2
  <2> QED BY <1>1, <2>1 DEF Rising
<1>4. ASSUME Head(s) # Blank, NEW i \in 1..Len(Tail(s)), Tail(s)[i] # Blank
      PROVE  Head(s) < Tail(s)[i]
  <2>1. 1 \in DOMAIN s /\ i + 1 \in DOMAIN s /\ 1 < i + 1
    BY <1>1, <1>2
  <2> QED BY <1>1, <1>2, <1>4, <2>1 DEF Rising
<1>5. Range(Tail(s)) = {Tail(s)[i] : i \in 1..Len(Tail(s))}
  BY <1>2, Zenon DEF Range
<1> QED BY <1>3, <1>4, <1>5

\* A sequence whose items are all smaller than those of another, and both rise, rise in a row.
LEMMA RisingConcat ==
  ASSUME NEW s \in Seq(Nat), NEW t \in Seq(Nat), Rising(s), Rising(t),
         \A x \in Range(s) \ {Blank}, y \in Range(t) \ {Blank} : x < y
  PROVE  Rising(s \o t)
<1>1. /\ s \o t \in Seq(Nat) /\ Len(s \o t) = Len(s) + Len(t)
      /\ \A i \in 1..Len(s) + Len(t) : (s \o t)[i] = IF i <= Len(s) THEN s[i] ELSE t[i - Len(s)]
  BY ConcatProperties
<1>2. /\ Len(s) \in Nat /\ Len(t) \in Nat
      /\ DOMAIN s = 1..Len(s) /\ DOMAIN t = 1..Len(t) /\ DOMAIN (s \o t) = 1..Len(s) + Len(t)
  BY <1>1, LenProperties
<1> DEFINE st == s \o t
<1> SUFFICES ASSUME NEW i \in DOMAIN st, NEW j \in DOMAIN st, i < j, st[i] # Blank, st[j] # Blank
             PROVE  st[i] < st[j]
  BY DEF Rising
<1>3. CASE j <= Len(s)
  <2>1. i \in DOMAIN s /\ j \in DOMAIN s /\ i <= Len(s)
    BY <1>2, <1>3
  <2>2. st[i] = s[i] /\ st[j] = s[j]
    BY <1>1, <1>2, <1>3, <2>1
  <2> QED BY <2>1, <2>2 DEF Rising
<1>4. CASE ~(i <= Len(s))
  <2>1. i - Len(s) \in DOMAIN t /\ j - Len(s) \in DOMAIN t /\ i - Len(s) < j - Len(s) /\ ~(j <= Len(s))
    BY <1>2, <1>4
  <2>2. st[i] = t[i - Len(s)] /\ st[j] = t[j - Len(s)]
    BY <1>1, <1>2, <1>4, <2>1
  <2> QED BY <2>1, <2>2 DEF Rising
<1>5. CASE i <= Len(s) /\ ~(j <= Len(s))
  <2>1. i \in 1..Len(s) /\ j - Len(s) \in 1..Len(t)
    BY <1>2, <1>5
  <2>2. st[i] = s[i] /\ st[j] = t[j - Len(s)]
    BY <1>1, <1>2, <1>5
  <2>3. st[i] \in Range(s) \ {Blank} /\ st[j] \in Range(t) \ {Blank}
    BY <1>2, <2>1, <2>2 DEF Range
  <2> QED BY <2>3
<1> QED BY <1>2, <1>3, <1>4, <1>5

------------------------------------------------------------------------------
(* The queue *)

\* The list is empty at first.
LEMMA ListInit == CollectionsInit => ListInv
<1> SUFFICES ASSUME CollectionsInit PROVE ListInv
  OBVIOUS
<1>1. Nothing \in AccessType /\ Nothing.items = <<>>
  <2>1. <<>> \in Seq(Items)
    BY EmptySeq
  <2> QED BY <2>1 DEF Nothing, Doing, AccessType, CollectionCalls
<1>2. ListType
  BY <1>1, EmptySeq DEF CollectionsInit, ListType
<1>3. Held = {} /\ Range(list) = {} /\ DOMAIN list = {}
  BY <1>1, RangeOfNone DEF CollectionsInit, Held
<1>4. 1..arrived = {}
  BY DEF CollectionsInit
<1>5. \A c \in Clients : Range(doing[c].items) = {} /\ DOMAIN doing[c].items = {}
  BY <1>1, RangeOfNone DEF CollectionsInit
<1>6. ListIsAQueue
  BY <1>3, <1>4, <1>5 DEF ListIsAQueue, ItemsConserved, CollectionsInit
<1> QED BY <1>1, <1>2, <1>3, <1>6 DEF ListInv, Rising, CollectionsInit

\* The items that calls other than c's hold.
HeldByOthers(c) == UNION {Range(doing[d].items) : d \in Clients \ {c}}

\* What the invariant says of the items, those that c holds and those that other calls hold.
LEMMA Places ==
  ASSUME ListInv, NEW c \in Clients
  PROVE  /\ doing[c] \in AccessType /\ doing[c].items \in Seq(Items)
         /\ Held = Range(doing[c].items) \cup HeldByOthers(c)
         /\ Range(doing[c].items) \cap HeldByOthers(c) = {}
         /\ Held \subseteq Items /\ Range(list) \subseteq Nat
         /\ 1..arrived = Present \cup Held \cup delivered \cup lost
         /\ Held \cap (delivered \cup lost) = {}
         /\ delivered \cap lost = {}
         /\ \A i \in Held \cup delivered \cup lost, j \in Present : i < j
<1>1. ListType /\ ListIsAQueue
  BY DEF ListInv
<1>2. \A d \in Clients : doing[d] \in AccessType
  BY <1>1 DEF ListType
<1>3. \A d \in Clients : doing[d].items \in Seq(Items)
  BY <1>2 DEF AccessType
<1>4. \A d \in Clients : Range(doing[d].items) \subseteq Items
  BY <1>3, RangeOfSeq
<1>5. Range(list) \subseteq Nat
  BY <1>1, RangeOfSeq DEF ListType
<1>6. Held = Range(doing[c].items) \cup HeldByOthers(c)
  BY DEF Held, HeldByOthers
<1>7. Range(doing[c].items) \cap HeldByOthers(c) = {}
  BY <1>1 DEF HeldByOthers, ListIsAQueue, ItemsConserved
<1>8. Held \subseteq Items
  BY <1>4 DEF Held
<1>9. /\ 1..arrived = Present \cup Held \cup delivered \cup lost
      /\ Held \cap (delivered \cup lost) = {}
      /\ delivered \cap lost = {}
      /\ \A i \in Held \cup delivered \cup lost, j \in Present : i < j
  BY <1>1 DEF ListIsAQueue, ItemsConserved, Present
<1> QED BY <1>2, <1>3, <1>5, <1>6, <1>7, <1>8, <1>9

\* A step of c after which it holds other items keeps the invariant if every item is still in one
\* place and the order is kept.
LEMMA QueueStep ==
  ASSUME ListInv, ListType', NEW c \in Clients, NEW held,
         doing'[c].step = "done" => doing'[c].items = <<>>,
         \A d \in Clients \ {c} : doing'[d] = doing[d],
         Rising(list'), Rising(doing'[c].items),
         held = Range(doing'[c].items) \cup HeldByOthers(c),
         Range(doing'[c].items) \cap HeldByOthers(c) = {},
         1..arrived' = (Range(list') \ {Blank}) \cup held \cup delivered' \cup lost',
         held \cap (delivered' \cup lost') = {},
         delivered' \cap lost' = {},
         \A i \in held \cup delivered' \cup lost', j \in Range(list') \ {Blank} : i < j
  PROVE  ListInv'
<1> DEFINE theirs == HeldByOthers(c)
           mine2  == Range(doing'[c].items)
<1>1. ListType /\ ListIsAQueue
  BY DEF ListInv
<1>2. Held' = held
  <2>1. Held' = Range(doing'[c].items) \cup UNION {Range(doing'[d].items) : d \in Clients \ {c}}
    BY DEF Held
  <2>2. {Range(doing'[d].items) : d \in Clients \ {c}} = {Range(doing[d].items) : d \in Clients \ {c}}
    OBVIOUS
  <2> QED BY <2>1, <2>2 DEF HeldByOthers
<1>3. \A d \in Clients : doing'[d].items \in Seq(Items)
  <2>1. \A d \in Clients : doing'[d] \in AccessType
    BY DEF ListType
  <2> QED BY <2>1 DEF AccessType
<1>4. held \subseteq Items /\ delivered' \subseteq Items /\ lost' \subseteq Items
  <2>1. \A d \in Clients : Range(doing'[d].items) \subseteq Items
    BY <1>3, RangeOfSeq
  <2>2. Held' \subseteq Items
    BY <2>1 DEF Held
  <2> QED BY <1>2, <2>2 DEF ListType
<1>5. Range(list') \cap (held \cup delivered' \cup lost') = {}
  <2> SUFFICES ASSUME NEW x \in Range(list'), x \in held \cup delivered' \cup lost' PROVE FALSE
    OBVIOUS
  <2>1. x \in Nat /\ x # Blank
    BY <1>4 DEF Items
  <2>2. x < x
    BY <2>1
  <2> QED BY <2>1, <2>2
<1>6. \A d, e \in Clients : d # e => Range(doing'[d].items) \cap Range(doing'[e].items) = {}
  <2> SUFFICES ASSUME NEW d \in Clients, NEW e \in Clients, d # e
               PROVE  Range(doing'[d].items) \cap Range(doing'[e].items) = {}
    OBVIOUS
  <2>1. CASE d # c /\ e # c
    BY <1>1, <2>1 DEF ListIsAQueue, ItemsConserved
  <2>2. CASE d = c
    <3>1. Range(doing'[e].items) \subseteq HeldByOthers(c)
      BY <2>2 DEF HeldByOthers
    <3> QED BY <2>2, <3>1
  <2>3. CASE e = c
    <3>1. Range(doing'[d].items) \subseteq HeldByOthers(c)
      BY <2>3 DEF HeldByOthers
    <3> QED BY <2>3, <3>1
  <2> QED BY <2>1, <2>2, <2>3
<1>7. ItemsConserved'
  BY <1>2, <1>5, <1>6 DEF ItemsConserved
<1>8. ASSUME NEW d \in Clients, NEW i \in DOMAIN doing'[d].items, NEW j \in DOMAIN doing'[d].items,
             i < j
      PROVE  doing'[d].items[i] < doing'[d].items[j]
  <2>1. CASE d = c
    <3> DEFINE s == doing'[d].items
    <3>1. s \in Seq(Items) /\ DOMAIN s = 1..Len(s)
      BY <1>3, LenProperties
    <3>2. s[i] \in Items /\ s[j] \in Items
      BY <3>1, ElementOfSeq
    <3> QED BY <1>8, <2>1, <3>2 DEF Rising, Items
  <2>2. CASE d # c
    BY <1>1, <1>8, <2>2 DEF ListIsAQueue
  <2> QED BY <2>1, <2>2
<1>9. ListIsAQueue'
  BY <1>2, <1>7, <1>8 DEF ListIsAQueue
<1>10. \A d \in Clients : doing'[d].step = "done" => doing'[d].items = <<>>
  BY DEF ListInv
<1> QED BY <1>9, <1>10 DEF ListInv, Rising

\* lpop() begins, or a method that reads answers: nobody holds more or less.
LEMMA EmptyHandedStep ==
  ASSUME ListInv, NEW c \in Clients, NEW call \in AccessType,
         doing[c].items = <<>>, call.items = <<>>,
         doing' = [doing EXCEPT ![c] = call], UNCHANGED listVars
  PROVE  ListInv'
<1>1. ListType /\ ListType'
  BY DEF ListInv, ListType, listVars
<1>2. /\ doing'[c] = call /\ \A d \in Clients \ {c} : doing'[d] = doing[d]
      /\ Range(doing'[c].items) = Range(doing[c].items)
  BY <1>1 DEF ListType
<1>3. Rising(list') /\ Rising(doing'[c].items)
  BY <1>2 DEF ListInv, Rising, listVars
<1>4. /\ Held = Range(doing'[c].items) \cup HeldByOthers(c)
      /\ Range(doing'[c].items) \cap HeldByOthers(c) = {}
      /\ 1..arrived' = (Range(list') \ {Blank}) \cup Held \cup delivered' \cup lost'
      /\ Held \cap (delivered' \cup lost') = {}
      /\ delivered' \cap lost' = {}
      /\ \A i \in Held \cup delivered' \cup lost', j \in Range(list') \ {Blank} : i < j
  BY <1>2, Places DEF Present, listVars
<1> QED BY <1>1, <1>2, <1>3, <1>4, QueueStep

\* rpush() adds items that are younger than all there are.
LEMMA PushStep ==
  ASSUME ListInv, NEW c \in Clients, RPush(c)
  PROVE  ListInv'
<1>1. PICK n \in 0..2, blank \in BOOLEAN :
        /\ list' = list \o IF blank THEN [i \in 1..n |-> arrived + i] \o <<Blank>>
                                    ELSE [i \in 1..n |-> arrived + i]
        /\ arrived' = arrived + n
        /\ UNCHANGED <<delivered, lost, doing>>
  BY DEF RPush, Pushed
<1> DEFINE new == [i \in 1..n |-> arrived + i]
           all == IF blank THEN new \o <<Blank>> ELSE new
<1>2. ListType
  BY DEF ListInv
<1>3. /\ new \in Seq(Nat) /\ Len(new) = n /\ DOMAIN new = 1..n /\ n \in Nat
      /\ \A i \in 1..n : new[i] = arrived + i /\ new[i] \in Nat
  BY <1>2 DEF ListType
<1>4. Range(new) = arrived + 1..arrived + n /\ Rising(new)
  <2>1. ASSUME NEW x \in arrived + 1..arrived + n PROVE x \in Range(new)
    <3>1. x - arrived \in 1..n /\ arrived + (x - arrived) = x
      BY <1>2 DEF ListType
    <3> QED BY <1>3, <3>1 DEF Range
  <2>2. Range(new) \subseteq arrived + 1..arrived + n
    BY <1>2, <1>3 DEF Range, ListType
  <2>3. Rising(new)
    BY <1>2, <1>3 DEF Rising, ListType
  <2> QED BY <2>1, <2>2, <2>3
<1> HIDE DEF new
<1>5. <<Blank>> \in Seq(Nat) /\ Range(<<Blank>>) = {Blank} /\ Rising(<<Blank>>)
  BY DEF Range, Rising, Blank
<1>6. all \in Seq(Nat) /\ Range(all) \ {Blank} = arrived + 1..arrived + n /\ Rising(all)
  <2>0. arrived \in Nat
    BY <1>2 DEF ListType
  <2>1. Blank \notin arrived + 1..arrived + n
    BY <1>3, <2>0 DEF Blank
  <2>2. CASE blank
    <3> DEFINE one == <<Blank>>
    <3>0. one \in Seq(Nat) /\ Range(one) = {Blank} /\ Rising(one)
      BY <1>5
    <3> HIDE DEF one
    <3>1. new \o one \in Seq(Nat) /\ Range(new \o one) = Range(new) \cup {Blank}
      BY <1>3, <3>0, ConcatProperties, RangeConcatenation
    <3>2. Rising(new \o one)
      BY <1>3, <1>4, <3>0, RisingConcat
    <3>3. all = new \o one
      BY <2>2 DEF one
    <3> QED BY <1>4, <2>1, <3>1, <3>2, <3>3
  <2>3. CASE ~blank
    BY <1>3, <1>4, <2>1, <2>3
  <2> QED BY <2>2, <2>3
<1> HIDE DEF all
<1>7. list' = list \o all
  BY <1>1 DEF all, new
<1>8. list \in Seq(Nat) /\ arrived \in Nat
  BY <1>2 DEF ListType
<1>9. list' \in Seq(Nat) /\ Range(list') = Range(list) \cup Range(all)
  BY <1>6, <1>7, <1>8, ConcatProperties, RangeConcatenation
<1>10. \A x \in Held \cup delivered \cup lost \cup Present : x \in 1..arrived
  BY Places
<1>11. Rising(list')
  <2>1. \A x \in Range(list) \ {Blank}, y \in Range(all) \ {Blank} : x < y
    BY <1>6, <1>8, <1>10 DEF Present
  <2> QED BY <1>6, <1>7, <1>8, <2>1, RisingConcat DEF ListInv
<1>12. ListType'
  BY <1>1, <1>2, <1>3, <1>8, <1>9 DEF ListType
<1>13. 1..arrived' = 1..arrived \cup (arrived + 1..arrived + n)
  BY <1>1, <1>3, <1>8
<1>14. Range(list') \ {Blank} = Present \cup (arrived + 1..arrived + n)
  BY <1>6, <1>9 DEF Present
<1>15. /\ 1..arrived' = (Range(list') \ {Blank}) \cup Held \cup delivered' \cup lost'
       /\ Held = Range(doing'[c].items) \cup HeldByOthers(c)
       /\ Range(doing'[c].items) \cap HeldByOthers(c) = {}
       /\ Held \cap (delivered' \cup lost') = {} /\ delivered' \cap lost' = {}
  BY <1>1, <1>13, <1>14, Places
<1>16. \A i \in Held \cup delivered' \cup lost', j \in Range(list') \ {Blank} : i < j
  <2> SUFFICES ASSUME NEW i \in Held \cup delivered \cup lost, NEW j \in Range(list') \ {Blank}
               PROVE  i < j
    BY <1>1
  <2>1. CASE j \in Present
    BY <2>1, Places
  <2>2. CASE j \in arrived + 1..arrived + n
    BY <1>8, <1>10, <2>2
  <2> QED BY <1>14, <2>1, <2>2
<1>17. doing' = doing /\ Rising(doing'[c].items)
  <2>1. doing[c].items \in Seq(Items) /\ DOMAIN doing[c].items = 1..Len(doing[c].items)
    BY Places, LenProperties
  <2>2. Rising(doing[c].items)
    BY DEF ListInv, ListIsAQueue, Rising
  <2> QED BY <1>1, <2>2
<1> QED BY <1>11, <1>12, <1>15, <1>16, <1>17, QueueStep DEF ListInv

\* lpop() takes the oldest item, which is older than all that is left ...
LEMMA PopStep ==
  ASSUME ListInv, NEW c \in Clients, PopNext(c)
  PROVE  ListInv'
<1> DEFINE h == Head(list)
           s == doing[c].items
<1>1. /\ list # <<>> /\ h # Blank /\ list' = Tail(list) /\ doing[c].step = "popping"
      /\ doing' = [doing EXCEPT ![c].items = Append(s, h)]
      /\ UNCHANGED <<arrived, delivered, lost>>
  BY DEF PopNext
<1>2. ListType
  BY DEF ListInv
<1>3. list \in Seq(Nat) /\ doing[c] \in AccessType /\ s \in Seq(Items) /\ doing \in [Clients -> AccessType]
  BY <1>2 DEF ListType, AccessType
<1>4. /\ h \in Nat /\ Tail(list) \in Seq(Nat) /\ Range(list) = {h} \cup Range(Tail(list))
      /\ Rising(Tail(list)) /\ \A x \in Range(Tail(list)) \ {Blank} : h < x
  <2>1. /\ h \in Nat /\ Tail(list) \in Seq(Nat) /\ Range(list) = {h} \cup Range(Tail(list))
    BY <1>1, <1>3, RangeOfTail
  <2>2. /\ Rising(Tail(list)) /\ \A x \in Range(Tail(list)) \ {Blank} : h < x
    BY <1>1, <1>3, RisingTail DEF ListInv
  <2> QED BY <2>1, <2>2
<1>5. h \in Items /\ Append(s, h) \in Seq(Items) /\ Range(Append(s, h)) = Range(s) \cup {h}
  <2>1. h \in Items
    BY <1>1, <1>4 DEF Items
  <2> QED BY <1>3, <2>1, RangeOfAppend
<1>6. Present = (Range(list') \ {Blank}) \cup {h} /\ h \in Present
  BY <1>1, <1>4 DEF Present
<1> HIDE DEF h, s
<1>7. ListType' /\ doing'[c].items = Append(s, h) /\ doing'[c].step = "popping"
      /\ \A d \in Clients \ {c} : doing'[d] = doing[d]
  BY <1>1, <1>2, <1>3, <1>4, <1>5 DEF ListType, AccessType
<1>8. /\ Held = Range(s) \cup HeldByOthers(c) /\ Range(s) \cap HeldByOthers(c) = {}
      /\ Held \subseteq Items
      /\ 1..arrived = Present \cup Held \cup delivered \cup lost
      /\ Held \cap (delivered \cup lost) = {} /\ delivered \cap lost = {}
      /\ \A i \in Held \cup delivered \cup lost, j \in Present : i < j
  BY Places DEF s
<1>9. h \notin Held \cup delivered \cup lost
  <2>1. h \in Held \cup delivered \cup lost => h < h
    BY <1>6, <1>8
  <2>2. ~(h < h)
    BY <1>4
  <2> QED BY <2>1, <2>2
<1>10. Rising(Append(s, h))
  <2>1. /\ Append(s, h) \in Seq(Items) /\ Len(Append(s, h)) = Len(s) + 1 /\ Len(s) \in Nat
        /\ \A i \in 1..Len(s) : Append(s, h)[i] = s[i]
        /\ Append(s, h)[Len(s) + 1] = h
    BY <1>3, <1>5, AppendProperties, LenProperties DEF s
  <2>2. DOMAIN Append(s, h) = 1..Len(s) + 1 /\ DOMAIN s = 1..Len(s)
    BY <1>3, <2>1, LenProperties DEF s
  <2>3. ASSUME NEW i \in 1..Len(s), NEW j \in 1..Len(s), i < j PROVE s[i] < s[j]
    BY <2>2, <2>3 DEF s, ListInv, ListIsAQueue
  <2>4. \A i \in 1..Len(s) : s[i] < h
    BY <1>6, <1>8, <2>2 DEF Range
  <2> SUFFICES ASSUME NEW i \in 1..Len(s) + 1, NEW j \in 1..Len(s) + 1, i < j
               PROVE  Append(s, h)[i] < Append(s, h)[j]
    BY <2>2 DEF Rising
  <2>5. i \in 1..Len(s) /\ (j \in 1..Len(s) \/ j = Len(s) + 1)
    BY <2>1
  <2> QED BY <2>1, <2>3, <2>4, <2>5
<1>11. /\ Range(doing'[c].items) \cap HeldByOthers(c) = {}
       /\ Held \cup {h} = Range(doing'[c].items) \cup HeldByOthers(c)
  BY <1>5, <1>7, <1>8, <1>9
<1>12. /\ 1..arrived' = (Range(list') \ {Blank}) \cup (Held \cup {h}) \cup delivered' \cup lost'
       /\ (Held \cup {h}) \cap (delivered' \cup lost') = {} /\ delivered' \cap lost' = {}
  BY <1>1, <1>6, <1>8, <1>9
<1>13. \A i \in (Held \cup {h}) \cup delivered' \cup lost', j \in Range(list') \ {Blank} : i < j
  BY <1>1, <1>4, <1>6, <1>8
<1>14. Rising(list') /\ Rising(doing'[c].items)
  BY <1>1, <1>4, <1>7, <1>10
<1>15. doing'[c].step # "done"
  BY <1>7
<1> QED BY <1>7, <1>11, <1>12, <1>13, <1>14, <1>15, QueueStep

\* ... and returns all it holds, after a blank item that it drops or an error that loses one, or
\* stops and loses all it holds: whatever leaves the list is its oldest item.
LEMMA EndStep ==
  ASSUME ListInv, NEW c \in Clients, PopEnds(c) \/ PopFails(c) \/ PopStops(c)
  PROVE  ListInv'
<1> DEFINE s == doing[c].items
           h == Head(list)
<1>1. PICK gone \in SUBSET {h}, call \in {Nothing, Returned(s)} :
        /\ \/ list' = list /\ gone = {}
           \/ list # <<>> /\ list' = Tail(list) /\ gone = {h} \ {Blank}
        /\ \/ delivered' = delivered \cup Range(s) /\ lost' = lost \cup gone
           \/ delivered' = delivered /\ lost' = lost \cup Range(s) /\ gone = {} /\ list' = list
        /\ doing' = [doing EXCEPT ![c] = call]
        /\ arrived' = arrived
  <2>1. CASE PopEnds(c)
    <3>1. CASE list = <<>>
      <4>1. {} \in SUBSET {h} /\ lost' = lost \cup {}
        BY <2>1 DEF PopEnds
      <4> QED BY <2>1, <3>1, <4>1 DEF PopEnds, Deliver
    <3>2. CASE list # <<>>
      <4>1. {} \in SUBSET {h} /\ lost' = lost \cup {} /\ {h} \ {Blank} = {}
        BY <2>1, <3>2 DEF PopEnds
      <4> QED BY <2>1, <3>2, <4>1 DEF PopEnds, Deliver
    <3> QED BY <3>1, <3>2
  <2>2. CASE PopFails(c)
    <3>1. CASE UNCHANGED <<list, lost>>
      <4>1. {} \in SUBSET {h} /\ lost' = lost \cup {}
        BY <3>1
      <4> QED BY <2>2, <3>1, <4>1 DEF PopFails, Deliver, Kept
    <3>2. CASE list # <<>> /\ list' = Tail(list) /\ lost' = lost \cup ({h} \ {Blank})
      <4>1. {h} \ {Blank} \in SUBSET {h}
        OBVIOUS
      <4> QED BY <2>2, <3>2, <4>1 DEF PopFails, Deliver, Kept
    <3> QED BY <2>2, <3>1, <3>2 DEF PopFails
  <2>3. CASE PopStops(c)
    <3>1. {} \in SUBSET {h}
      OBVIOUS
    <3> QED BY <2>3, <3>1 DEF PopStops
  <2> QED BY <2>1, <2>2, <2>3
<1>2. ListType /\ list \in Seq(Nat) /\ doing \in [Clients -> AccessType] /\ Rising(list)
  BY DEF ListInv, ListType
<1>3. /\ list' \in Seq(Nat) /\ Rising(list')
      /\ Present = (Range(list') \ {Blank}) \cup gone
      /\ \A x \in gone, y \in Range(list') \ {Blank} : x < y
      /\ gone \subseteq Present
  <2>1. CASE list' = list /\ gone = {}
    BY <1>2, <2>1 DEF Present
  <2>2. CASE list # <<>> /\ list' = Tail(list) /\ gone = {h} \ {Blank}
    <3>1. /\ h \in Nat /\ Tail(list) \in Seq(Nat) /\ Range(list) = {h} \cup Range(Tail(list))
      BY <1>2, <2>2, RangeOfTail
    <3>2. /\ Rising(Tail(list))
          /\ h # Blank => \A x \in Range(Tail(list)) \ {Blank} : h < x
      BY <1>2, <2>2, RisingTail
    <3> QED BY <2>2, <3>1, <3>2 DEF Present
  <2> QED BY <1>1, <2>1, <2>2
<1>4. /\ s \in Seq(Items) /\ Held = Range(s) \cup HeldByOthers(c)
      /\ Range(s) \cap HeldByOthers(c) = {}
      /\ Held \subseteq Items /\ Range(list) \subseteq Nat
      /\ 1..arrived = Present \cup Held \cup delivered \cup lost
      /\ Held \cap (delivered \cup lost) = {} /\ delivered \cap lost = {}
      /\ \A i \in Held \cup delivered \cup lost, j \in Present : i < j
  BY Places
<1>5. call \in AccessType /\ call.items = <<>> /\ Range(call.items) = {} /\ Rising(call.items)
  <2>1. <<>> \in Seq(Items)
    BY EmptySeq
  <2>2. Nothing \in AccessType
    BY <2>1 DEF Nothing, Doing, AccessType, CollectionCalls
  <2>3. Returned(s) \in AccessType
    BY <2>1 DEF Returned, Doing, AccessType, CollectionCalls
  <2>4. call \in AccessType /\ call.items = <<>>
    BY <2>2, <2>3 DEF Nothing, Returned, Doing
  <2> QED BY <2>4, RangeOfNone DEF Rising
<1>6. /\ doing'[c] = call /\ \A d \in Clients \ {c} : doing'[d] = doing[d]
      /\ doing' \in [Clients -> AccessType]
  BY <1>1, <1>2, <1>5
<1>7. \A x \in gone : x \notin Held \cup delivered \cup lost
  <2> SUFFICES ASSUME NEW x \in gone, x \in Held \cup delivered \cup lost PROVE FALSE
    OBVIOUS
  <2>1. x \in Present /\ x \in Nat
    BY <1>3, <1>4 DEF Present
  <2>2. x < x
    BY <1>4, <2>1
  <2> QED BY <2>1, <2>2
<1> HIDE DEF s, h
<1>8. /\ delivered' \cup lost' = delivered \cup lost \cup Range(s) \cup gone
      /\ delivered' \cap lost' = {}
  BY <1>1, <1>4, <1>7
<1>9. ListType'
  <2>1. gone \subseteq Items
    BY <1>3, <1>4 DEF Present, Items
  <2> QED BY <1>1, <1>2, <1>3, <1>4, <1>6, <2>1 DEF ListType
<1>10. /\ HeldByOthers(c) = Range(doing'[c].items) \cup HeldByOthers(c)
       /\ Range(doing'[c].items) \cap HeldByOthers(c) = {}
  BY <1>5, <1>6
<1>11. /\ 1..arrived' = (Range(list') \ {Blank}) \cup HeldByOthers(c) \cup delivered' \cup lost'
       /\ HeldByOthers(c) \cap (delivered' \cup lost') = {}
  BY <1>1, <1>3, <1>4, <1>7, <1>8
<1>12. \A i \in HeldByOthers(c) \cup delivered' \cup lost', j \in Range(list') \ {Blank} : i < j
  BY <1>3, <1>4, <1>8
<1>13. Rising(doing'[c].items) /\ doing'[c].items = <<>>
  BY <1>5, <1>6
<1> QED BY <1>3, <1>6, <1>8, <1>9, <1>10, <1>11, <1>12, <1>13, QueueStep

\* The methods of the other collections leave the list and what is held of it alone.
LEMMA ElsewhereStep ==
  ASSUME ListInv, UNCHANGED <<listVars, doing>>
  PROVE  ListInv'
<1>1. /\ list' = list /\ arrived' = arrived /\ delivered' = delivered /\ lost' = lost
      /\ doing' = doing
  BY DEF listVars
<1>2. ListType' /\ Rising(list')
  BY <1>1 DEF ListInv, ListType, Rising
<1>3. Held' = Held
  BY <1>1 DEF Held
<1>4. ItemsConserved'
  BY <1>1, <1>3 DEF ListInv, ListIsAQueue, ItemsConserved
<1>5. ListIsAQueue'
  BY <1>1, <1>3, <1>4 DEF ListInv, ListIsAQueue
<1> QED BY <1>1, <1>2, <1>5 DEF ListInv, Rising

\* Whatever a method that reads finds and answers, its call holds nothing.
LEMMA ReadStep ==
  ASSUME ListInv, NEW c \in Clients, NEW op \in CollectionCalls, NEW S, NEW T,
         doing[c].step = "done", Read(c, op, S, T)
  PROVE  ListInv'
<1>1. PICK answer \in {"nothing", "something", "error"} :
        doing' = [doing EXCEPT ![c] = Doing(op, "done", <<>>, answer)]
  BY DEF Read, OnFailure
<1> DEFINE call == Doing(op, "done", <<>>, answer)
<1>2. call \in AccessType /\ call.items = <<>>
  <2>1. <<>> \in Seq(Items)
    BY EmptySeq
  <2> QED BY <2>1 DEF Doing, AccessType
<1>3. doing[c].items = <<>> /\ UNCHANGED listVars
  BY DEF ListInv, Read
<1> HIDE DEF call
<1>4. doing' = [doing EXCEPT ![c] = call]
  BY <1>1 DEF call
<1> QED BY <1>2, <1>3, <1>4, EmptyHandedStep

\* Each method that reads is a Read of a call that was over.
LEMMA ReadsAreReads ==
  ASSUME NEW c \in Clients, LRange(c) \/ ReadHash(c) \/ ReadSet(c) \/ ReadScores(c)
  PROVE  /\ doing[c].step = "done"
         /\ \E op \in CollectionCalls : \E S, T : Read(c, op, S, T)
<1>1. CASE LRange(c)
  BY <1>1 DEF LRange, Ready, CollectionCalls
<1>2. CASE ReadHash(c)
  BY <1>2 DEF ReadHash, Ready, CollectionCalls
<1>3. CASE ReadSet(c)
  BY <1>3 DEF ReadSet, Ready, CollectionCalls
<1>4. CASE ReadScores(c)
  BY <1>4 DEF ReadScores, Ready, CollectionCalls
<1> QED BY <1>1, <1>2, <1>3, <1>4

\* Every step keeps the list in the order of arrival and every item in one place.
LEMMA ListStep == ListInv /\ [CollectionsNext]_collVars => ListInv'
<1> SUFFICES ASSUME ListInv, [CollectionsNext]_collVars PROVE ListInv'
  OBVIOUS
<1>1. ASSUME NEW c \in Clients, RPush(c) PROVE ListInv'
  BY <1>1, PushStep
<1>2. ASSUME NEW c \in Clients, LPop(c) PROVE ListInv'
  <2> DEFINE call == Doing("lpop", "popping", <<>>, "nothing")
  <2>1. call \in AccessType /\ call.items = <<>>
    <3>1. <<>> \in Seq(Items)
      BY EmptySeq
    <3> QED BY <3>1 DEF Doing, AccessType, CollectionCalls
  <2>2. doing[c].items = <<>> /\ UNCHANGED listVars
    BY <1>2 DEF ListInv, LPop, Ready
  <2> HIDE DEF call
  <2>3. doing' = [doing EXCEPT ![c] = call]
    BY <1>2 DEF LPop, call
  <2> QED BY <2>1, <2>2, <2>3, EmptyHandedStep
<1>3. ASSUME NEW c \in Clients, PopNext(c) PROVE ListInv'
  BY <1>3, PopStep
<1>4. ASSUME NEW c \in Clients, PopEnds(c) \/ PopFails(c) \/ PopStops(c) PROVE ListInv'
  BY <1>4, EndStep
<1>5. ASSUME NEW c \in Clients, LRange(c) \/ ReadHash(c) \/ ReadSet(c) \/ ReadScores(c) PROVE ListInv'
  BY <1>5, ReadsAreReads, ReadStep
<1>6. ASSUME NEW c \in Clients, NEW ms \in SUBSET Elements, HSet(c, ms) \/ SAdd(c, ms) PROVE ListInv'
  BY <1>6, ElsewhereStep DEF HSet, SAdd
<1>7. ASSUME NEW c \in Clients, NEW m \in Elements, HIncrBy(c, m) \/ ZAdd(c, m) \/ ZIncrBy(c, m)
      PROVE  ListInv'
  BY <1>7, ElsewhereStep DEF HIncrBy, ZAdd, ZIncrBy
<1>8. ASSUME NEW c \in Clients, SUnionStore(c) PROVE ListInv'
  BY <1>8, ElsewhereStep DEF SUnionStore
<1>9. CASE UNCHANGED collVars
  BY <1>9, ElsewhereStep DEF collVars
<1> QED BY <1>1, <1>2, <1>3, <1>4, <1>5, <1>6, <1>7, <1>8, <1>9 DEF CollectionsNext

\* The list is a queue for any number of contexts and faults: nothing that was pushed is delivered
\* twice, or left behind for what came after it.
THEOREM QueueForAll == CollectionsSpec => []ListIsAQueue
<1>1. CollectionsInit => ListInv
  BY ListInit
<1>2. ListInv /\ [CollectionsNext]_collVars => ListInv'
  BY ListStep
<1>3. ListInv => ListIsAQueue
  BY DEF ListInv
<1> QED BY <1>1, <1>2, <1>3, PTL DEF CollectionsSpec

=============================================================================
