-------------------------- MODULE RequestCacheProofs --------------------------
(***************************************************************************)
(* Proofs about RequestCache, for any requests, keys, ttls and delays.     *)
(***************************************************************************)
EXTENDS RequestCache, SequenceTheorems, TLAPS

States == {"idle", "looking", "waiting", "answered"} \cup Handling

\* TypeOK by groups of variables that change together.
RequestType ==
  /\ pc \in [Requests -> States]
  /\ data \in [Requests -> Values]
  /\ waited \in [Requests -> Nat]
  /\ leader \in [Requests -> Requests \cup {Absent}]
  /\ response \in [Requests -> [ok : BOOLEAN, body : Values]]

CacheType  == local \in [Keys -> Versions \cup {Absent}] /\ localTtl \in [Keys -> 0..CacheDuration]
TokenType  == tokenTtl \in 0..TokenTtl /\ tokenLife \in 0..TokenTtl
SourceType == db \in Versions /\ age \in [Versions -> Nat]

LEMMA TypeGroups ==
  TypeOK <=> /\ RequestType /\ CacheType /\ TokenType /\ SourceType
             /\ dictionary \in [Keys -> Requests \cup {Absent}]
             /\ executer \in Seq(Requests)
             /\ failures \in 0..MaxFailures
BY Zenon DEF TypeOK, RequestType, CacheType, TokenType, SourceType, States

LEMMA TypeGroupsPrime ==
  ASSUME RequestType', CacheType', TokenType', SourceType',
         dictionary' \in [Keys -> Requests \cup {Absent}],
         executer' \in Seq(Requests),
         failures' \in 0..MaxFailures
  PROVE  TypeOK'
BY Zenon DEF TypeOK, RequestType, CacheType, TokenType, SourceType, States

------------------------------------------------------------------------------
(* Type correctness *)

LEMMA GotoType ==
  ASSUME pc \in [Requests -> States], NEW r \in Requests, NEW s \in States, Goto(r, s)
  PROVE  pc' \in [Requests -> States]
BY DEF Goto

LEMMA AnswerType ==
  ASSUME RequestType, NEW S, NEW e \in [ok : BOOLEAN, body : Values], Answer(S, e)
  PROVE  /\ pc' \in [Requests -> States]
         /\ response' \in [Requests -> [ok : BOOLEAN, body : Values]]
BY DEF RequestType, Answer, States

LEMMA SendType ==
  ASSUME RequestType, NEW r \in Requests, Send(r)
  PROVE  pc' \in [Requests -> States] /\ waited' \in [Requests -> Nat]
BY DEF RequestType, Send, Goto, States, Handling

LEMMA SettleType ==
  ASSUME RequestType, executer \in Seq(Requests), NEW r \in Requests, NEW v \in Values, Settle(r, v)
  PROVE  RequestType' /\ executer' \in Seq(Requests)
<1>1. <<>> \in Seq(Requests)
  OBVIOUS
<1>2. pc' \in [Requests -> States] /\ data' \in [Requests -> Values]
  BY DEF RequestType, Settle, States, Handling
<1>3. executer' \in Seq(Requests)
  BY <1>1 DEF Settle
<1> QED BY <1>2, <1>3 DEF RequestType, Settle

LEMMA TypeInit == Init => TypeOK
<1> SUFFICES ASSUME Init PROVE TypeOK
  OBVIOUS
<1>1. <<>> \in Seq(Requests)
  OBVIOUS
<1>2. RequestType
  BY DEF Init, RequestType, States, Values, NoValues, NoResponse
<1>3. CacheType /\ TokenType /\ SourceType
  BY ConstantsAssumption DEF Init, CacheType, TokenType, SourceType, Versions
<1>4. dictionary \in [Keys -> Requests \cup {Absent}] /\ failures \in 0..MaxFailures
  BY ConstantsAssumption DEF Init
<1> QED BY <1>1, <1>2, <1>3, <1>4, TypeGroups DEF Init

LEMMA TypeStep == TypeOK /\ [Next]_vars => TypeOK'
<1> SUFFICES ASSUME TypeOK, [Next]_vars PROVE TypeOK'
  OBVIOUS
<1>0. /\ RequestType /\ CacheType /\ TokenType /\ SourceType
      /\ dictionary \in [Keys -> Requests \cup {Absent}]
      /\ executer \in Seq(Requests)
      /\ failures \in 0..MaxFailures
  BY TypeGroups
<1>k. /\ UNCHANGED cacheVars => CacheType'
      /\ UNCHANGED tokenVars => TokenType'
      /\ UNCHANGED sourceVars => SourceType'
      /\ UNCHANGED requestVars => RequestType'
  BY <1>0 DEF CacheType, TokenType, SourceType, RequestType, cacheVars, tokenVars, sourceVars, requestVars
<1>g. ASSUME RequestType', CacheType', TokenType', SourceType',
             dictionary' \in [Keys -> Requests \cup {Absent}],
             executer' \in Seq(Requests),
             failures' \in 0..MaxFailures
      PROVE  TypeOK'
  BY <1>g, TypeGroupsPrime
<1>c. ASSUME NEW r \in Requests PROVE KeyOf[r] \in Keys
  BY ConstantsAssumption
<1>v. Versions \subseteq Values /\ {Absent, Undefined, Failure, Refusal} \subseteq Values
  BY DEF Values, NoValues
<1>1. ASSUME NEW r \in Requests, Arrive(r) PROVE TypeOK'
  <2>1. pc' \in [Requests -> States] /\ leader' \in [Requests -> Requests \cup {Absent}]
    BY <1>0, <1>1, <1>c DEF Arrive, Goto, RequestType, States
  <2>2. RequestType'
    BY <1>0, <1>1, <2>1 DEF Arrive, RequestType
  <2> QED BY <1>0, <1>1, <1>k, <1>g, <2>2 DEF Arrive
<1>2. ASSUME NEW r \in Requests, Hit(r) PROVE TypeOK'
  <2>1. local[KeyOf[r]] \in Values
    BY <1>0, <1>c, <1>v DEF CacheType
  <2>2. pc' \in [Requests -> States] /\ response' \in [Requests -> [ok : BOOLEAN, body : Values]]
    BY <1>0, <1>2, <2>1, AnswerType DEF Hit
  <2>3. RequestType'
    BY <1>0, <1>2, <2>2 DEF Hit, RequestType
  <2> QED BY <1>0, <1>2, <1>k, <1>g, <2>3 DEF Hit
<1>3. ASSUME NEW r \in Requests, Lead(r) PROVE TypeOK'
  <2>1. RequestType'
    BY <1>0, <1>3 DEF Lead, Goto, RequestType, States, Handling
  <2>2. dictionary' \in [Keys -> Requests \cup {Absent}]
    BY <1>0, <1>3 DEF Lead
  <2> QED BY <1>0, <1>3, <1>k, <1>g, <2>1, <2>2 DEF Lead
<1>4. ASSUME NEW r \in Requests, Get(r) PROVE TypeOK'
  <2>1. executer' \in Seq(Requests)
    BY <1>0, <1>4, AppendProperties DEF Get
  <2>2. pc' \in [Requests -> States] /\ waited' \in [Requests -> Nat]
    <3>1. CASE Send(r)
      BY <1>0, <3>1, SendType
    <3>2. CASE Goto(r, "sharing") /\ UNCHANGED waited
      BY <1>0, <3>2 DEF Goto, RequestType, States, Handling
    <3> QED BY <1>4, <3>1, <3>2 DEF Get
  <2>3. RequestType'
    BY <1>0, <1>4, <2>2 DEF Get, RequestType
  <2> QED BY <1>0, <1>4, <1>k, <1>g, <2>1, <2>3 DEF Get
<1>5. ASSUME NEW r \in Requests, GetSigned(r) PROVE TypeOK'
  <2>1. pc' \in [Requests -> States] /\ waited' \in [Requests -> Nat]
    <3>1. CASE Send(r)
      BY <1>0, <3>1, SendType
    <3>2. CASE Goto(r, "signing") /\ waited' = [waited EXCEPT ![r] = 0]
      BY <1>0, <3>2 DEF Goto, RequestType, States, Handling
    <3> QED BY <1>5, <3>1, <3>2 DEF GetSigned
  <2>2. RequestType'
    BY <1>0, <1>5, <2>1 DEF GetSigned, RequestType
  <2> QED BY <1>0, <1>5, <1>k, <1>g, <2>2 DEF GetSigned
<1>6. ASSUME NEW r \in Requests, SignReturns(r) PROVE TypeOK'
  <2>1. TokenType'
    BY <1>0, <1>6, ConstantsAssumption DEF SignReturns, TokenType, RequestType
  <2>2. RequestType'
    BY <1>0, <1>6, SendType DEF SignReturns, RequestType
  <2> QED BY <1>0, <1>6, <1>k, <1>g, <2>1, <2>2 DEF SignReturns
<1>7. ASSUME NEW r \in Requests, SignFails(r) PROVE TypeOK'
  <2>1. RequestType'
    BY <1>0, <1>7, <1>v DEF SignFails, Goto, RequestType, States, Handling
  <2>2. failures' \in 0..MaxFailures
    BY <1>0, <1>7, ConstantsAssumption DEF SignFails
  <2> QED BY <1>0, <1>7, <1>k, <1>g, <2>1, <2>2 DEF SignFails
<1>8. ASSUME NEW r \in Requests, ReadSource(r) PROVE TypeOK'
  <2>1. RequestType'
    BY <1>0, <1>8, <1>v DEF ReadSource, RequestType, SourceType
  <2> QED BY <1>0, <1>8, <1>k, <1>g, <2>1 DEF ReadSource
<1>9. ASSUME NEW r \in Requests, FetchReturns(r) PROVE TypeOK'
  <2>1. data[r] \in Values
    BY <1>0 DEF RequestType
  <2>2. RequestType' /\ executer' \in Seq(Requests)
    BY <1>0, <1>9, <2>1, SettleType DEF FetchReturns
  <2> QED BY <1>0, <1>9, <1>k, <1>g, <2>2 DEF FetchReturns, Settle
<1>10. ASSUME NEW r \in Requests, FetchFails(r) PROVE TypeOK'
  <2>1. RequestType' /\ executer' \in Seq(Requests)
    BY <1>0, <1>10, <1>v, SettleType DEF FetchFails
  <2>2. failures' \in 0..MaxFailures
    BY <1>0, <1>10, ConstantsAssumption DEF FetchFails
  <2> QED BY <1>0, <1>10, <1>k, <1>g, <2>1, <2>2 DEF FetchFails, Settle
<1>11. ASSUME NEW r \in Requests, NEW v \in Values, Emit(r, v) PROVE TypeOK'
  <2>1. pc' \in [Requests -> States] /\ response' \in [Requests -> [ok : BOOLEAN, body : Values]]
    BY <1>0, <1>11, AnswerType DEF Emit
  <2>2. RequestType'
    BY <1>0, <1>11, <2>1 DEF Emit, RequestType
  <2>3. CacheType'
    <3>1. CASE UNCHANGED cacheVars
      BY <1>k, <3>1
    <3>2. CASE /\ v \in Versions
               /\ local' = [local EXCEPT ![KeyOf[r]] = v]
               /\ localTtl' = [localTtl EXCEPT ![KeyOf[r]] = CacheDuration]
      BY <1>0, <3>2, ConstantsAssumption DEF CacheType
    <3> QED BY <1>11, <3>1, <3>2 DEF Emit, Remember
  <2>4. dictionary' \in [Keys -> Requests \cup {Absent}]
    BY <1>0, <1>11 DEF Emit
  <2> QED BY <1>0, <1>11, <1>k, <1>g, <2>2, <2>3, <2>4 DEF Emit
<1>12. ASSUME NEW r \in Requests, NEW kind \in {"object", "Error"}, Reject(r, kind) PROVE TypeOK'
  <2>1. pc' \in [Requests -> States] /\ response' \in [Requests -> [ok : BOOLEAN, body : Values]]
    <3>1. /\ [ok |-> FALSE, body |-> Thrown(kind)] \in [ok : BOOLEAN, body : Values]
          /\ [ok |-> IsSuccess(kind), body |-> Thrown(kind)] \in [ok : BOOLEAN, body : Values]
      BY DEF Thrown, IsSuccess, Values, NoValues
    <3> HIDE DEF Thrown, IsSuccess
    <3> QED BY <1>0, <1>12, <3>1 DEF Reject, RequestType, States
  <2>2. RequestType'
    BY <1>0, <1>12, <2>1 DEF Reject, RequestType
  <2>3. dictionary' \in [Keys -> Requests \cup {Absent}]
    BY <1>0, <1>12 DEF Reject
  <2> QED BY <1>0, <1>12, <1>k, <1>g, <2>2, <2>3 DEF Reject
<1>13. ASSUME NEW r \in Requests, Leave(r) PROVE TypeOK'
  <2>1. NoResponse \in [ok : BOOLEAN, body : Values]
    BY <1>v DEF NoResponse
  <2>2. RequestType'
    BY <1>0, <1>13, <1>v, <2>1 DEF Leave, Goto, RequestType, States
  <2> QED BY <1>0, <1>13, <1>k, <1>g, <2>2 DEF Leave
<1>14. CASE Change
  <2>1. SourceType'
    BY <1>0, <1>14, ConstantsAssumption DEF Change, SourceType, Versions
  <2> QED BY <1>0, <1>14, <1>k, <1>g, <2>1 DEF Change
<1>15. ASSUME NEW k \in Keys, Evict(k) PROVE TypeOK'
  <2>1. CacheType'
    BY <1>0, <1>15, ConstantsAssumption DEF Evict, CacheType
  <2> QED BY <1>0, <1>15, <1>k, <1>g, <2>1 DEF Evict
<1>16. CASE Tick
  <2>1. RequestType'
    BY <1>0, <1>16 DEF Tick, RequestType
  <2>2. CacheType'
    BY <1>0, <1>16, ConstantsAssumption DEF Tick, CacheType, Less
  <2>3. TokenType' /\ SourceType'
    BY <1>0, <1>16, ConstantsAssumption DEF Tick, TokenType, SourceType, Less
  <2> QED BY <1>0, <1>16, <1>g, <2>1, <2>2, <2>3 DEF Tick
<1>17. CASE UNCHANGED vars
  BY <1>0, <1>17, <1>k, <1>g DEF vars
<1> QED
  BY <1>1, <1>2, <1>3, <1>4, <1>5, <1>6, <1>7, <1>8, <1>9, <1>10, <1>11, <1>12, <1>13, <1>14,
     <1>15, <1>16, <1>17 DEF Next, Proceed

\* Whatever requests come in and whatever fails, every variable keeps its type.
THEOREM TypeCorrect == Spec => []TypeOK
BY TypeInit, TypeStep, PTL DEF Spec

------------------------------------------------------------------------------
(* The promises of the interceptor *)

\* PromisesAreAlive, and who waits does wait for a request.
AliveInv ==
  /\ \A k \in Keys : dictionary[k] # Absent =>
       pc[dictionary[k]] \in Handling /\ KeyOf[dictionary[k]] = k
  /\ \A r \in Requests : pc[r] = "waiting" =>
       leader[r] \in Requests /\ pc[leader[r]] \in Handling /\ KeyOf[leader[r]] = KeyOf[r]

\* A step that ends no handling, starts no waiting and puts nobody into the dictionary.
LEMMA AliveKeep ==
  ASSUME TypeOK, AliveInv, dictionary' = dictionary, leader' = leader,
         \A r \in Requests : pc[r] \in Handling => pc'[r] \in Handling,
         \A r \in Requests : pc'[r] = "waiting" => pc[r] = "waiting"
  PROVE  AliveInv'
BY DEF TypeOK, AliveInv

\* The handler of r is through: its promise settles.
LEMMA AliveEnd ==
  ASSUME TypeOK, AliveInv, NEW r \in Requests, pc[r] = "settled", leader' = leader,
         dictionary' = [dictionary EXCEPT ![KeyOf[r]] = Absent],
         pc' = [s \in Requests |-> IF s = r \/ s \in Followers(r) THEN "answered" ELSE pc[s]]
  PROVE  AliveInv'
<1>1. ASSUME NEW k \in Keys, dictionary'[k] # Absent
      PROVE  pc'[dictionary'[k]] \in Handling /\ KeyOf[dictionary'[k]] = k
  <2>1. k # KeyOf[r] /\ dictionary'[k] = dictionary[k] /\ dictionary[k] \in Requests
    BY <1>1 DEF TypeOK
  <2>2. pc[dictionary[k]] \in Handling /\ KeyOf[dictionary[k]] = k
    BY <1>1, <2>1 DEF AliveInv
  <2>3. dictionary[k] # r /\ dictionary[k] \notin Followers(r)
    BY <2>1, <2>2 DEF Followers, Handling
  <2> QED BY <2>1, <2>2, <2>3
<1>2. ASSUME NEW s \in Requests, pc'[s] = "waiting"
      PROVE  /\ leader[s] \in Requests
             /\ pc'[leader[s]] \in Handling /\ KeyOf[leader[s]] = KeyOf[s]
  <2>1. pc[s] = "waiting" /\ s \notin Followers(r)
    BY <1>2
  <2>2. leader[s] \in Requests /\ pc[leader[s]] \in Handling /\ KeyOf[leader[s]] = KeyOf[s]
    BY <2>1 DEF AliveInv
  <2>3. leader[s] # r /\ leader[s] \notin Followers(r)
    BY <2>1, <2>2 DEF Followers, Handling
  <2> QED BY <2>2, <2>3
<1> QED BY <1>1, <1>2 DEF AliveInv

\* A GET settles: whoever handles goes on handling.
LEMMA AliveSettle ==
  ASSUME TypeOK, AliveInv, NEW r, NEW v, Settle(r, v)
  PROVE  AliveInv'
<1>1. \A s \in Requests : pc'[s] \in {pc[s], "settled"}
  BY DEF Settle
<1>2. "settled" \in Handling /\ "settled" # "waiting"
  BY DEF Handling
<1> QED BY <1>1, <1>2, AliveKeep DEF Settle

LEMMA AliveInit == Init => AliveInv
BY ConstantsAssumption DEF Init, AliveInv

LEMMA AliveStep == TypeOK /\ AliveInv /\ [Next]_vars => AliveInv'
<1> SUFFICES ASSUME TypeOK, AliveInv, [Next]_vars PROVE AliveInv'
  OBVIOUS
<1>0. pc \in [Requests -> States] /\ \A r \in Requests : KeyOf[r] \in Keys
  BY ConstantsAssumption DEF TypeOK, States
<1>1. ASSUME NEW r \in Requests, Arrive(r) PROVE AliveInv'
  <2>1. \A s \in Requests : pc[s] \in Handling => s # r /\ pc'[s] = pc[s]
    BY <1>0, <1>1 DEF Arrive, Goto, Handling
  <2>2. dictionary' = dictionary /\ \A s \in Requests \ {r} : leader'[s] = leader[s] /\ pc'[s] = pc[s]
    BY <1>0, <1>1 DEF Arrive, Goto, TypeOK
  <2>3. pc'[r] = "waiting" => dictionary[KeyOf[r]] # Absent /\ leader'[r] = dictionary[KeyOf[r]]
    BY <1>0, <1>1 DEF Arrive, Goto, TypeOK
  <2>4. dictionary \in [Keys -> Requests \cup {Absent}]
    BY DEF TypeOK
  <2> QED BY <1>0, <2>1, <2>2, <2>3, <2>4 DEF AliveInv
<1>2. ASSUME NEW r \in Requests, Hit(r) PROVE AliveInv'
  <2>1. \A s \in Requests : pc[s] \in Handling => pc'[s] \in Handling
    BY <1>2 DEF Hit, Answer, Handling
  <2>2. \A s \in Requests : pc'[s] = "waiting" => pc[s] = "waiting"
    BY <1>2 DEF Hit, Answer
  <2> QED BY <1>2, <2>1, <2>2, AliveKeep DEF Hit
<1>3. ASSUME NEW r \in Requests, Lead(r) PROVE AliveInv'
  <2>1. /\ \A s \in Requests : pc[s] \in Handling => pc'[s] \in Handling
        /\ \A s \in Requests : pc'[s] = "waiting" => pc[s] = "waiting"
        /\ pc'[r] \in Handling
    BY <1>0, <1>3 DEF Lead, Goto, Handling
  <2>2. leader' = leader /\ dictionary' = [dictionary EXCEPT ![KeyOf[r]] = r]
    BY <1>3 DEF Lead
  <2>3. dictionary \in [Keys -> Requests \cup {Absent}]
    BY DEF TypeOK
  <2> QED BY <1>0, <2>1, <2>2, <2>3 DEF AliveInv
<1>4. ASSUME NEW r \in Requests,
             \/ Get(r) \/ GetSigned(r) \/ SignReturns(r) \/ SignFails(r) \/ ReadSource(r)
      PROVE  AliveInv'
  <2>1. \/ pc' = pc
        \/ \E s \in Handling : pc' = [pc EXCEPT ![r] = s]
    BY <1>4 DEF Get, GetSigned, SignReturns, SignFails, ReadSource, Send, Goto, Handling
  <2>2. dictionary' = dictionary /\ leader' = leader
    BY <1>4 DEF Get, GetSigned, SignReturns, SignFails, ReadSource
  <2>3. "waiting" \notin Handling
    BY DEF Handling
  <2>4. /\ \A s \in Requests : pc[s] \in Handling => pc'[s] \in Handling
        /\ \A s \in Requests : pc'[s] = "waiting" => pc[s] = "waiting"
    BY <1>0, <2>1, <2>3
  <2> QED BY <2>2, <2>4, AliveKeep
<1>5. ASSUME NEW r \in Requests, FetchReturns(r) \/ FetchFails(r) PROVE AliveInv'
  BY <1>5, AliveSettle DEF FetchReturns, FetchFails
<1>6. ASSUME NEW r \in Requests, NEW v \in Values, Emit(r, v) PROVE AliveInv'
  <2>1. pc' = [s \in Requests |-> IF s = r \/ s \in Followers(r) THEN "answered" ELSE pc[s]]
    BY <1>6 DEF Emit, Answer
  <2> QED BY <1>6, <2>1, AliveEnd DEF Emit
<1>7. ASSUME NEW r \in Requests, NEW kind \in {"object", "Error"}, Reject(r, kind) PROVE AliveInv'
  BY <1>7, AliveEnd DEF Reject
<1>8. ASSUME NEW r \in Requests, Leave(r) PROVE AliveInv'
  <2>1. /\ \A s \in Requests : pc[s] \in Handling => s # r /\ pc'[s] = pc[s]
        /\ \A s \in Requests : pc'[s] = "waiting" => s # r /\ pc[s] = "waiting"
    BY <1>0, <1>8 DEF Leave, Goto, Handling
  <2>2. dictionary' = dictionary /\ \A s \in Requests \ {r} : leader'[s] = leader[s]
    BY <1>8 DEF Leave, TypeOK
  <2>3. dictionary \in [Keys -> Requests \cup {Absent}]
    BY DEF TypeOK
  <2> QED BY <2>1, <2>2, <2>3 DEF AliveInv
<1>9. ASSUME Change \/ Tick \/ \E k \in Keys : Evict(k) PROVE AliveInv'
  BY <1>9, AliveKeep DEF Change, Tick, Evict, requestVars
<1>10. CASE UNCHANGED vars
  BY <1>10, AliveKeep DEF vars, requestVars
<1> QED BY <1>1, <1>2, <1>3, <1>4, <1>5, <1>6, <1>7, <1>8, <1>9, <1>10 DEF Next, Proceed

\* However many requests become leaders for a key at once and delete each other's
\* entries, everyone who waits does so for a handler that runs for the same key.
THEOREM NobodyIsForgotten == Spec => []PromisesAreAlive
<1>1. AliveInv => PromisesAreAlive
  BY DEF AliveInv, PromisesAreAlive
<1> QED BY <1>1, TypeInit, TypeStep, AliveInit, AliveStep, PTL DEF Spec

------------------------------------------------------------------------------
(* The executer *)

\* The unsigned GET that is out is that of the first in the executer's list, and whoever
\* shares one is in the list.
GetsInv ==
  /\ \A r \in Requests : pc[r] = "fetching" /\ ~IsSigned(r) => executer # <<>> /\ executer[1] = r
  /\ executer # <<>> => pc[executer[1]] = "fetching" /\ ~IsSigned(executer[1])
  /\ \A r \in Requests : pc[r] = "sharing" => \E k \in DOMAIN executer : executer[k] = r
  /\ \A r \in Requests : pc[r] = "signing" => IsSigned(r)

\* Who heads a list is one of the requests.
LEMMA HeadType ==
  ASSUME TypeOK, executer # <<>>
  PROVE  1 \in DOMAIN executer /\ executer[1] \in Requests
BY DEF TypeOK

\* A step of requests that neither enter nor leave the executer.
LEMMA GetsKeep ==
  ASSUME TypeOK, GetsInv, executer' = executer,
         \A s \in Requests :
           \/ pc'[s] = pc[s]
           \/ /\ pc[s] = "fetching" => IsSigned(s)
              /\ pc'[s] # "sharing"
              /\ pc'[s] \in {"fetching", "signing"} => IsSigned(s)
  PROVE  GetsInv'
BY HeadType DEF GetsInv, IsSigned

\* The GET of r settles: if it is unsigned, nobody is left in the executer.
LEMMA GetsSettle ==
  ASSUME TypeOK, GetsInv, NEW r \in Requests, pc[r] = "fetching", NEW v, Settle(r, v)
  PROVE  GetsInv'
<1>1. CASE IsSigned(r)
  <2>1. executer' = executer
    BY <1>1 DEF Settle
  <2>2. \A s \in Requests : pc'[s] = IF s = r THEN "settled" ELSE pc[s]
    BY <1>1 DEF Settle, Crew
  <2> QED BY <1>1, <2>1, <2>2, GetsKeep
<1>2. CASE ~IsSigned(r)
  <2>1. executer' = <<>>
    BY <1>2 DEF Settle
  <2>2. \A s \in Requests :
          pc'[s] = IF \E k \in DOMAIN executer : executer[k] = s THEN "settled" ELSE pc[s]
    BY <1>2 DEF Settle, Crew
  <2>3. \A s \in Requests : pc'[s] # "sharing" /\ (pc'[s] = "signing" => IsSigned(s))
    BY <2>2 DEF GetsInv
  <2>4. \A s \in Requests : pc'[s] = "fetching" => IsSigned(s)
    BY <2>2, HeadType DEF GetsInv
  <2> QED BY <2>1, <2>3, <2>4 DEF GetsInv, IsSigned
<1> QED BY <1>1, <1>2

\* The GET of r joins the executer.
LEMMA GetsJoin ==
  ASSUME TypeOK, GetsInv, NEW r \in Requests, Get(r)
  PROVE  GetsInv'
<1>0. pc \in [Requests -> States] /\ executer \in Seq(Requests)
  BY DEF TypeOK, States
<1>1. /\ executer' # <<>> /\ executer'[1] = IF executer = <<>> THEN r ELSE executer[1]
      /\ \A k \in DOMAIN executer : k \in DOMAIN executer' /\ executer'[k] = executer[k]
      /\ \E k \in DOMAIN executer' : executer'[k] = r
  <2>1. /\ executer' \in Seq(Requests) /\ Len(executer') = Len(executer) + 1
        /\ \A k \in 1..Len(executer) : executer'[k] = executer[k]
        /\ executer'[Len(executer) + 1] = r
    BY <1>0, AppendProperties DEF Get
  <2>2. Len(executer) \in Nat /\ (executer = <<>> <=> Len(executer) = 0)
    BY <1>0
  <2>3. DOMAIN executer = 1..Len(executer) /\ DOMAIN executer' = 1..(Len(executer) + 1)
    BY <1>0, <2>1
  <2> QED BY <2>1, <2>2, <2>3
<1>2. /\ pc[r] = "handling" /\ ~IsSigned(r)
      /\ \A s \in Requests \ {r} : pc'[s] = pc[s]
      /\ pc'[r] = IF executer = <<>> THEN "fetching" ELSE "sharing"
  BY <1>0 DEF Get, Send, Goto
<1>3. CASE executer = <<>>
  BY <1>1, <1>2, <1>3 DEF GetsInv, IsSigned
<1>4. CASE executer # <<>>
  <2>1. executer[1] \in Requests \ {r}
    BY <1>2, <1>4, HeadType DEF GetsInv
  <2> QED BY <1>1, <1>2, <1>4, <2>1 DEF GetsInv, IsSigned
<1> QED BY <1>3, <1>4

LEMMA GetsInit == Init => GetsInv
BY DEF Init, GetsInv

LEMMA GetsStep == TypeOK /\ GetsInv /\ [Next]_vars => GetsInv'
<1> SUFFICES ASSUME TypeOK, GetsInv, [Next]_vars PROVE GetsInv'
  OBVIOUS
<1>0. pc \in [Requests -> States]
  BY DEF TypeOK, States
<1>1. ASSUME NEW r \in Requests, Get(r) PROVE GetsInv'
  BY <1>1, GetsJoin
<1>2. ASSUME NEW r \in Requests, GetSigned(r) \/ SignReturns(r) PROVE GetsInv'
  <2>1. IsSigned(r)
    BY <1>2 DEF GetSigned, SignReturns, GetsInv
  <2>2. executer' = executer /\ pc[r] # "fetching" /\ pc'[r] # "sharing"
        /\ \A s \in Requests \ {r} : pc'[s] = pc[s]
    BY <1>0, <1>2 DEF GetSigned, SignReturns, Send, Goto
  <2> QED BY <2>1, <2>2, GetsKeep
<1>3. ASSUME NEW r \in Requests, Arrive(r) \/ Lead(r) \/ SignFails(r) \/ Leave(r) PROVE GetsInv'
  <2>1. executer' = executer /\ pc[r] # "fetching"
        /\ pc'[r] \in {"looking", "waiting", "handling", "settled", "idle"}
        /\ \A s \in Requests \ {r} : pc'[s] = pc[s]
    BY <1>0, <1>3 DEF Arrive, Lead, SignFails, Leave, Goto
  <2> QED BY <2>1, GetsKeep
<1>4. ASSUME NEW r \in Requests, FetchReturns(r) \/ FetchFails(r) PROVE GetsInv'
  BY <1>4, GetsSettle DEF FetchReturns, FetchFails
<1>5. ASSUME NEW r \in Requests,
             \/ Hit(r)
             \/ \E v \in Values : Emit(r, v)
             \/ \E kind \in {"object", "Error"} : Reject(r, kind)
      PROVE  GetsInv'
  <2>1. executer' = executer /\ pc[r] # "fetching"
    BY <1>5 DEF Hit, Emit, Reject
  <2>2. \A s \in Requests : pc[s] = "fetching" => s # r /\ s \notin Followers(r)
    BY <2>1 DEF Followers
  <2>3. \A s \in Requests :
          pc'[s] = pc[s] \/ (pc'[s] = "answered" /\ (s = r \/ s \in Followers(r)))
    <3>1. CASE Hit(r)
      BY <3>1 DEF Hit, Answer
    <3>2. ASSUME NEW v \in Values, Emit(r, v)
          PROVE  \A s \in Requests :
                   pc'[s] = pc[s] \/ (pc'[s] = "answered" /\ (s = r \/ s \in Followers(r)))
      BY <3>2 DEF Emit, Answer
    <3>3. ASSUME NEW kind \in {"object", "Error"}, Reject(r, kind)
          PROVE  \A s \in Requests :
                   pc'[s] = pc[s] \/ (pc'[s] = "answered" /\ (s = r \/ s \in Followers(r)))
      BY <3>3 DEF Reject
    <3> QED BY <1>5, <3>1, <3>2, <3>3
  <2> QED BY <2>1, <2>2, <2>3, GetsKeep
<1>6. ASSUME \/ Change \/ Tick \/ UNCHANGED vars \/ \E k \in Keys : Evict(k)
             \/ \E r \in Requests : ReadSource(r)
      PROVE  GetsInv'
  <2>1. UNCHANGED <<pc, executer>>
    BY <1>6 DEF Change, Tick, Evict, ReadSource, vars, requestVars
  <2> QED BY <2>1, GetsKeep
<1> QED BY <1>1, <1>2, <1>3, <1>4, <1>5, <1>6 DEF Next, Proceed

\* However many leaders of whichever keys ask for the url, one unsigned GET is out at a
\* time, and whoever shares it will be settled with it.
THEOREM OneGetAtATime == Spec => []GetsAreShared
<1>1. TypeOK /\ GetsInv => GetsAreShared
  BY HeadType DEF GetsInv, GetsAreShared
<1> QED BY <1>1, TypeInit, TypeStep, GetsInit, GetsStep, PTL DEF Spec

------------------------------------------------------------------------------
(* Staleness *)

\* The version upstream, and those to come, have not been replaced.
SourceInv == \A v \in Versions : v >= db => age[v] = 0

\* What a GET has got is no older than the GET; nobody else has got anything.
DataInv ==
  \A r \in Requests :
    /\ pc[r] \in {"idle", "looking", "waiting", "handling", "signing", "sharing"} => data[r] = Absent
    /\ pc[r] = "fetching" => waited[r] <= MaxFetch /\ (data[r] \in Versions => age[data[r]] <= waited[r])
    /\ pc[r] = "settled" /\ data[r] \in Versions => age[data[r]] <= MaxFetch

\* A cached response has the less time left, the older it is.
LocalInv ==
  \A k \in Keys : local[k] \in Versions =>
    localTtl[k] >= 1 /\ age[local[k]] + localTtl[k] <= MaxFetch + CacheDuration

\* A response was fresh enough when it was given.  (That no request is answered while
\* it still handles plays no part.)
ResponseInv ==
  \A r \in Requests : response[r].body \in Versions =>
    pc[r] \in {"answered", "settled"} /\ age[response[r].body] <= ResponseBound

StaleInv == SourceInv /\ DataInv /\ LocalInv /\ ResponseInv

LEMMA Constants ==
  /\ MaxVersion \in Nat /\ CacheDuration \in Nat /\ TokenTtl \in Nat /\ Margin \in Nat
  /\ MaxFetch \in Nat /\ MaxSign \in Nat
  /\ Absent \notin Versions /\ Undefined \notin Versions /\ Failure \notin Versions /\ Refusal \notin Versions
  /\ CustomError \notin Versions
  /\ Absent # Undefined /\ Absent # Failure /\ Undefined # Failure /\ Failure # Refusal
  /\ CustomError \notin {Absent, Undefined, Failure}
BY ConstantsAssumption DEF Versions, NoValues

\* r moves on within its handler, before its GET.
LEMMA DataMove ==
  ASSUME TypeOK, DataInv, NEW r \in Requests, NEW s, Goto(r, s),
         pc[r] \in {"idle", "looking", "handling", "signing"},
         \/ s \in {"looking", "waiting", "handling", "signing", "sharing"}
         \/ s = "fetching" /\ waited'[r] = 0,
         data' = data, age' = age,
         \A q \in Requests \ {r} : waited'[q] = waited[q]
  PROVE  DataInv'
BY Constants DEF TypeOK, DataInv, Goto

\* Requests that had not begun to GET, or have got something, are answered.
LEMMA DataAnswer ==
  ASSUME DataInv, data' = data, age' = age, waited' = waited,
         \A s \in Requests : pc'[s] \in {pc[s], "answered"}
  PROVE  DataInv'
BY DEF DataInv

\* The requests in S get the response e.
LEMMA ResponseAnswer ==
  ASSUME ResponseInv, NEW S, age' = age,
         \A s \in Requests \ S : pc'[s] = pc[s] /\ response'[s] = response[s],
         \A s \in Requests \cap S : pc'[s] = "answered" /\
           (response'[s].body \in Versions => age[response'[s].body] <= ResponseBound)
  PROVE  ResponseInv'
BY Zenon DEF ResponseInv

\* No one's response changes, and who is answered, or gets something, stays so.
LEMMA ResponseKeep ==
  ASSUME ResponseInv, response' = response, age' = age,
         \A s \in Requests : pc[s] \in {"answered", "settled"} => pc'[s] \in {"answered", "settled"}
  PROVE  ResponseInv'
BY DEF ResponseInv

LEMMA LocalKeep ==
  ASSUME LocalInv, UNCHANGED cacheVars, age' = age
  PROVE  LocalInv'
BY DEF LocalInv, cacheVars

LEMMA SourceKeep ==
  ASSUME SourceInv, UNCHANGED sourceVars
  PROVE  SourceInv' /\ age' = age
BY DEF SourceInv, sourceVars

LEMMA StaleInit == Init => StaleInv
<1> SUFFICES ASSUME Init PROVE StaleInv
  OBVIOUS
<1>1. SourceInv /\ DataInv
  BY Constants DEF Init, SourceInv, DataInv
<1>2. LocalInv /\ ResponseInv
  BY Constants DEF Init, LocalInv, ResponseInv, NoResponse
<1> QED BY <1>1, <1>2 DEF StaleInv

\* Time passes: what is on its way, and what is cached, ages.
LEMMA StaleTick == TypeOK /\ StaleInv /\ Tick => StaleInv'
<1> SUFFICES ASSUME TypeOK, StaleInv, Tick PROVE StaleInv'
  OBVIOUS
<1>0. /\ SourceInv /\ DataInv /\ LocalInv /\ ResponseInv
      /\ db \in Nat /\ age \in [Versions -> Nat] /\ Versions \subseteq Nat
      /\ localTtl \in [Keys -> 0..CacheDuration] /\ waited \in [Requests -> Nat]
  BY DEF TypeOK, StaleInv, Versions
<1>1. /\ \A v \in Versions : age'[v] \in {age[v], age[v] + 1} /\ (v >= db => age'[v] = age[v])
      /\ db' = db /\ pc' = pc /\ data' = data /\ response' = response
  BY <1>0 DEF Tick
<1>2. SourceInv'
  BY <1>0, <1>1 DEF SourceInv
<1>3. DataInv'
  <2> SUFFICES ASSUME NEW r \in Requests
               PROVE  /\ pc[r] \in {"idle", "looking", "waiting", "handling", "signing", "sharing"} =>
                           data[r] = Absent
                      /\ pc[r] = "fetching" =>
                           waited'[r] <= MaxFetch /\ (data[r] \in Versions => age'[data[r]] <= waited'[r])
                      /\ pc[r] = "settled" /\ data[r] \in Versions => age'[data[r]] <= MaxFetch
    BY <1>1 DEF DataInv
  <2>1. pc[r] # "settled" /\ (pc[r] = "fetching" => waited[r] < MaxFetch)
    BY DEF Tick, NothingOverdue
  <2>2. pc[r] = "fetching" => waited'[r] = waited[r] + 1
    BY DEF Tick
  <2>3. ASSUME pc[r] = "fetching", data[r] \in Versions PROVE age'[data[r]] <= waited[r] + 1
    <3>1. age[data[r]] <= waited[r] /\ age[data[r]] \in Nat /\ waited[r] \in Nat
      BY <1>0, <2>3 DEF DataInv
    <3>2. age'[data[r]] \in {age[data[r]], age[data[r]] + 1}
      BY <1>1, <2>3
    <3> QED BY <3>1, <3>2
  <2>4. pc[r] = "fetching" => waited[r] + 1 <= MaxFetch
    BY <1>0, <2>1, Constants
  <2>5. pc[r] \in {"idle", "looking", "waiting", "handling", "signing", "sharing"} => data[r] = Absent
    BY <1>0 DEF DataInv
  <2> QED BY <2>1, <2>2, <2>3, <2>4, <2>5
<1>4. LocalInv'
  <2> SUFFICES ASSUME NEW k \in Keys, local'[k] \in Versions
               PROVE  localTtl'[k] >= 1 /\ age'[local'[k]] + localTtl'[k] <= MaxFetch + CacheDuration
    BY DEF LocalInv
  <2>0. localTtl[k] \in Nat /\ local'[k] = IF localTtl[k] <= 1 THEN Absent ELSE local[k]
    BY <1>0, Constants DEF Tick
  <2>1. localTtl[k] > 1 /\ local'[k] = local[k] /\ localTtl'[k] = localTtl[k] - 1
    BY <2>0, Constants DEF Tick, Less
  <2>2. age[local[k]] + localTtl[k] <= MaxFetch + CacheDuration
    BY <1>0, <2>1 DEF LocalInv
  <2>v. local[k] \in Versions
    BY <2>1
  <2>3. age[local[k]] \in Nat /\ age'[local[k]] \in {age[local[k]], age[local[k]] + 1} /\ localTtl[k] \in Nat
    BY <1>0, <1>1, <2>0, <2>v
  <2>4. age'[local[k]] + (localTtl[k] - 1) <= MaxFetch + CacheDuration /\ localTtl[k] - 1 >= 1
    BY <2>1, <2>2, <2>3, Constants
  <2> QED BY <2>1, <2>4
<1>5. ResponseInv'
  BY <1>0, <1>1 DEF ResponseInv, Tick, NothingOverdue
<1> QED BY <1>2, <1>3, <1>4, <1>5 DEF StaleInv

LEMMA StaleStep == TypeOK /\ StaleInv /\ [Next]_vars => StaleInv'
<1> SUFFICES ASSUME TypeOK, StaleInv, [Next]_vars PROVE StaleInv'
  OBVIOUS
<1>0. /\ SourceInv /\ DataInv /\ LocalInv /\ ResponseInv
      /\ pc \in [Requests -> States] /\ waited \in [Requests -> Nat]
      /\ data \in [Requests -> Values]
      /\ db \in Nat /\ age \in [Versions -> Nat] /\ Versions \subseteq Nat
      /\ local \in [Keys -> Versions \cup {Absent}] /\ localTtl \in [Keys -> 0..CacheDuration]
  BY DEF TypeOK, StaleInv, Versions, States
<1>c. \A r \in Requests : KeyOf[r] \in Keys
  BY ConstantsAssumption
<1>s. UNCHANGED sourceVars => SourceInv' /\ age' = age
  BY <1>0, SourceKeep
<1>g. ASSUME SourceInv', DataInv', LocalInv', ResponseInv' PROVE StaleInv'
  BY <1>g DEF StaleInv
<1>1. ASSUME NEW r \in Requests, Arrive(r) PROVE StaleInv'
  <2>1. \E s \in {"looking", "waiting"} : Goto(r, s)
    BY <1>1 DEF Arrive
  <2>2. DataInv'
    BY <1>0, <1>1, <1>s, <2>1, DataMove DEF Arrive
  <2>3. ResponseInv'
    BY <1>0, <1>1, <1>s, ResponseKeep DEF Arrive, Goto
  <2> QED BY <1>0, <1>1, <1>s, <1>g, <2>2, <2>3, LocalKeep DEF Arrive
<1>2. ASSUME NEW r \in Requests, Hit(r) PROVE StaleInv'
  <2>1. DataInv'
    BY <1>0, <1>2, <1>s, DataAnswer DEF Hit, Answer
  <2>2. age[local[KeyOf[r]]] <= ResponseBound
    <3>1. local[KeyOf[r]] \in Versions
      BY <1>0, <1>c, <1>2 DEF Hit, IsHit
    <3>2. localTtl[KeyOf[r]] >= 1 /\ age[local[KeyOf[r]]] + localTtl[KeyOf[r]] <= MaxFetch + CacheDuration
      BY <1>0, <1>c, <3>1 DEF LocalInv
    <3>3. localTtl[KeyOf[r]] \in 0..CacheDuration /\ age[local[KeyOf[r]]] \in Nat
      BY <1>0, <1>c, <3>1
    <3> QED BY <3>2, <3>3, Constants DEF ResponseBound, Less
  <2>3. ResponseInv'
    <3> DEFINE S == {r}
    <3>1. \A s \in Requests \ S : pc'[s] = pc[s] /\ response'[s] = response[s]
      BY <1>2 DEF Hit, Answer, TypeOK
    <3>2. \A s \in Requests \cap S : pc'[s] = "answered" /\ response'[s].body = local[KeyOf[r]]
      BY <1>2 DEF Hit, Answer
    <3> HIDE DEF S
    <3>4. \A s \in Requests \cap S : pc'[s] = "answered" /\
            (response'[s].body \in Versions => age[response'[s].body] <= ResponseBound)
      BY <2>2, <3>2
    <3>3. age' = age
      BY <1>2, <1>s DEF Hit
    <3> QED BY <1>0, <3>1, <3>3, <3>4, ResponseAnswer
  <2> QED BY <1>0, <1>2, <1>s, <1>g, <2>1, <2>3, LocalKeep DEF Hit
<1>3. ASSUME NEW r \in Requests, Lead(r) PROVE StaleInv'
  <2>1. DataInv'
    BY <1>0, <1>3, <1>s, DataMove DEF Lead
  <2>2. ResponseInv'
    BY <1>0, <1>3, <1>s, ResponseKeep DEF Lead, Goto
  <2> QED BY <1>0, <1>3, <1>s, <1>g, <2>1, <2>2, LocalKeep DEF Lead
<1>4. ASSUME NEW r \in Requests, Get(r) \/ GetSigned(r) \/ SignReturns(r) PROVE StaleInv'
  <2>1. /\ pc[r] \in {"handling", "signing"} /\ data' = data /\ response' = response
        /\ UNCHANGED sourceVars /\ UNCHANGED cacheVars
        /\ \/ Send(r)
           \/ Goto(r, "sharing") /\ UNCHANGED waited
           \/ Goto(r, "signing") /\ waited' = [waited EXCEPT ![r] = 0]
    BY <1>4 DEF Get, GetSigned, SignReturns
  <2>2. DataInv'
    <3>1. CASE Send(r)
      BY <1>0, <1>s, <2>1, <3>1, DataMove DEF Send
    <3>2. CASE Goto(r, "sharing") /\ UNCHANGED waited
      BY <1>0, <1>s, <2>1, <3>2, DataMove
    <3>3. CASE Goto(r, "signing") /\ waited' = [waited EXCEPT ![r] = 0]
      BY <1>0, <1>s, <2>1, <3>3, DataMove
    <3> QED BY <2>1, <3>1, <3>2, <3>3
  <2>3. ResponseInv'
    <3>1. \A s \in Requests \ {r} : pc'[s] = pc[s]
      BY <1>0, <2>1 DEF Send, Goto
    <3> QED BY <1>0, <1>s, <2>1, <3>1, ResponseKeep
  <2> QED BY <1>0, <1>s, <1>g, <2>1, <2>2, <2>3, LocalKeep
<1>5. ASSUME NEW r \in Requests, SignFails(r) PROVE StaleInv'
  <2>1. DataInv'
    BY <1>0, <1>5, <1>s, Constants DEF SignFails, Goto, DataInv
  <2>2. ResponseInv'
    BY <1>0, <1>5, <1>s, ResponseKeep DEF SignFails, Goto
  <2> QED BY <1>0, <1>5, <1>s, <1>g, <2>1, <2>2, LocalKeep DEF SignFails
<1>6. ASSUME NEW r \in Requests, ReadSource(r) PROVE StaleInv'
  <2>1. age[db] = 0 /\ db \in Versions
    BY <1>0 DEF SourceInv, TypeOK
  <2>2. DataInv'
    BY <1>0, <1>6, <1>s, <2>1 DEF ReadSource, DataInv
  <2>3. ResponseInv'
    BY <1>0, <1>6, <1>s, ResponseKeep DEF ReadSource
  <2> QED BY <1>0, <1>6, <1>s, <1>g, <2>2, <2>3, LocalKeep DEF ReadSource
<1>7. ASSUME NEW r \in Requests, FetchReturns(r) \/ FetchFails(r) PROVE StaleInv'
  <2>1. PICK v : Settle(r, v) /\ (v \in Versions => age[v] <= MaxFetch)
    <3>1. CASE FetchReturns(r)
      <4>1. data[r] \in Versions => age[data[r]] <= waited[r] /\ waited[r] <= MaxFetch
        BY <1>0, <3>1 DEF FetchReturns, DataInv
      <4>2. waited[r] \in Nat /\ (data[r] \in Versions => age[data[r]] \in Nat)
        BY <1>0
      <4>3. data[r] \in Versions => age[data[r]] <= MaxFetch
        BY <4>1, <4>2, Constants
      <4> QED BY <3>1, <4>3 DEF FetchReturns
    <3>2. CASE FetchFails(r)
      BY <3>2, Constants DEF FetchFails
    <3> QED BY <1>7, <3>1, <3>2
  <2>2. /\ UNCHANGED sourceVars /\ UNCHANGED cacheVars /\ response' = response /\ waited' = waited
        /\ \A s \in Requests : \/ pc'[s] = pc[s] /\ data'[s] = data[s]
                               \/ pc'[s] = "settled" /\ data'[s] = v
    BY <2>1 DEF Settle
  <2>3. DataInv'
    BY <1>0, <1>s, <2>1, <2>2 DEF DataInv
  <2>4. ResponseInv'
    BY <1>0, <1>s, <2>2, ResponseKeep
  <2> QED BY <1>0, <1>s, <1>g, <2>2, <2>3, <2>4, LocalKeep
<1>8. ASSUME NEW r \in Requests, NEW v \in Values, Emit(r, v) PROVE StaleInv'
  <2>1. v \in Versions => age[v] <= MaxFetch
    BY <1>0, <1>8, Constants DEF Emit, DataInv
  <2>2. UNCHANGED sourceVars
    BY <1>8 DEF Emit
  <2>3. DataInv'
    BY <1>0, <1>8, <1>s, <2>2, DataAnswer DEF Emit, Answer
  <2>4. ResponseInv'
    <3> DEFINE S == {r} \cup Followers(r)
    <3>1. v \in Versions => age[v] <= ResponseBound
      BY <1>0, <2>1, Constants DEF ResponseBound, Less
    <3>2. Answer(S, [ok |-> TRUE, body |-> v])
      BY <1>8 DEF Emit
    <3> HIDE DEF S
    <3>3. /\ \A s \in Requests \ S : pc'[s] = pc[s] /\ response'[s] = response[s]
          /\ \A s \in Requests \cap S : pc'[s] = "answered" /\ response'[s].body = v
      BY <3>2 DEF Answer
    <3>4. \A s \in Requests \cap S : pc'[s] = "answered" /\
            (response'[s].body \in Versions => age[response'[s].body] <= ResponseBound)
      BY <3>1, <3>3
    <3> QED BY <1>0, <1>s, <2>2, <3>3, <3>4, ResponseAnswer
  <2>5. LocalInv'
    <3>1. CASE UNCHANGED cacheVars
      BY <1>0, <1>s, <2>2, <3>1, LocalKeep
    <3>2. CASE /\ v \in Versions /\ CacheDuration > 0
               /\ local' = [local EXCEPT ![KeyOf[r]] = v]
               /\ localTtl' = [localTtl EXCEPT ![KeyOf[r]] = CacheDuration]
      <4>1. CacheDuration >= 1 /\ age[v] + CacheDuration <= MaxFetch + CacheDuration
        BY <1>0, <2>1, <3>2, Constants
      <4>2. \A k \in Keys : \/ local'[k] = v /\ localTtl'[k] = CacheDuration
                            \/ local'[k] = local[k] /\ localTtl'[k] = localTtl[k]
        BY <1>0, <3>2
      <4> QED BY <1>0, <1>s, <2>2, <4>1, <4>2 DEF LocalInv
    <3> QED BY <1>8, <3>1, <3>2 DEF Emit, Remember
  <2> QED BY <1>s, <1>g, <2>2, <2>3, <2>4, <2>5
<1>9. ASSUME NEW r \in Requests, NEW kind \in {"object", "Error"}, Reject(r, kind) PROVE StaleInv'
  <2>1. UNCHANGED sourceVars /\ UNCHANGED cacheVars /\ UNCHANGED <<data, waited>>
    BY <1>9 DEF Reject
  <2>2. \A s \in Requests : \/ pc'[s] = pc[s] /\ response'[s] = response[s]
                            \/ pc'[s] = "answered" /\ response'[s].body = Thrown(kind)
    BY <1>9, Zenon DEF Reject
  <2>3. DataInv'
    BY <1>0, <1>s, <2>1, <2>2, DataAnswer
  <2>4. ResponseInv'
    <3>1. Thrown(kind) \notin Versions
      BY Constants DEF Thrown
    <3> QED BY <1>0, <1>s, <2>1, <2>2, <3>1 DEF ResponseInv
  <2> QED BY <1>0, <1>s, <1>g, <2>1, <2>3, <2>4, LocalKeep
<1>10. ASSUME NEW r \in Requests, Leave(r) PROVE StaleInv'
  <2>1. DataInv'
    BY <1>0, <1>10, <1>s DEF Leave, Goto, DataInv
  <2>2. ResponseInv'
    BY <1>0, <1>10, <1>s, Constants DEF Leave, Goto, ResponseInv, NoResponse, TypeOK
  <2> QED BY <1>0, <1>10, <1>s, <1>g, <2>1, <2>2, LocalKeep DEF Leave
<1>11. CASE Change
  <2>1. age' = age /\ db' = db + 1 /\ UNCHANGED requestVars /\ UNCHANGED cacheVars
    BY <1>11 DEF Change
  <2>2. SourceInv'
    BY <1>0, <2>1 DEF SourceInv
  <2>3. DataInv' /\ ResponseInv'
    BY <1>0, <2>1 DEF DataInv, ResponseInv, requestVars
  <2> QED BY <1>0, <1>g, <2>1, <2>2, <2>3, LocalKeep
<1>12. ASSUME NEW k \in Keys, Evict(k) PROVE StaleInv'
  <2>1. UNCHANGED sourceVars /\ UNCHANGED requestVars
    BY <1>12 DEF Evict
  <2>2. \A j \in Keys : \/ local'[j] = Absent
                        \/ local'[j] = local[j] /\ localTtl'[j] = localTtl[j]
    BY <1>0, <1>12 DEF Evict
  <2>3. LocalInv'
    BY <1>0, <1>s, <2>1, <2>2, Constants DEF LocalInv
  <2>4. DataInv' /\ ResponseInv'
    BY <1>0, <1>s, <2>1 DEF DataInv, ResponseInv, requestVars
  <2> QED BY <1>s, <1>g, <2>1, <2>3, <2>4
<1>13. CASE Tick
  BY <1>13, StaleTick
<1>14. CASE UNCHANGED vars
  <2>1. DataInv' /\ ResponseInv'
    BY <1>0, <1>14 DEF vars, DataInv, ResponseInv, requestVars, sourceVars
  <2> QED BY <1>0, <1>14, <1>s, <1>g, <2>1, LocalKeep DEF vars
<1> QED
  BY <1>1, <1>2, <1>3, <1>4, <1>5, <1>6, <1>7, <1>8, <1>9, <1>10, <1>11, <1>12, <1>13, <1>14
  DEF Next, Proceed

\* No response was replaced upstream longer ago than one GET and one life in the cache,
\* for any durations and any number of requests, also when several handlers of a key
\* overwrite each other's cached responses.
THEOREM StalenessIsBounded == Spec => []BoundedStaleness
<1>1. StaleInv => BoundedStaleness
  BY DEF StaleInv, ResponseInv, BoundedStaleness
<1> QED BY <1>1, TypeInit, TypeStep, StaleInit, StaleStep, PTL DEF Spec

------------------------------------------------------------------------------
(* Sharing calls: SharedCalls is implemented *)

\* The executer's list holds its sender and those who share, all unsigned, and a GET
\* that is out has got nothing yet or a version.
SharesInv ==
  /\ \A k \in DOMAIN executer :
       /\ ~IsSigned(executer[k])
       /\ pc[executer[k]] = IF k = 1 THEN "fetching" ELSE "sharing"
  /\ \A r \in Requests : pc[r] = "fetching" => data[r] \in Versions \cup {Absent}

LEMMA ListType == ASSUME TypeOK PROVE \A k \in DOMAIN executer : executer[k] \in Requests
BY DEF TypeOK

LEMMA SharesKeep ==
  ASSUME TypeOK, SharesInv, executer' = executer,
         \A s \in Requests : \/ IsSigned(s)
                             \/ pc[s] \notin {"fetching", "sharing"}
                             \/ pc'[s] = pc[s],
         \A s \in Requests : pc'[s] = "fetching" => data'[s] \in Versions \cup {Absent}
  PROVE  SharesInv'
<1>1. ASSUME NEW k \in DOMAIN executer
      PROVE  /\ ~IsSigned(executer[k])
             /\ pc'[executer[k]] = IF k = 1 THEN "fetching" ELSE "sharing"
  <2>1. PICK s \in Requests : s = executer[k]
    BY ListType
  <2>2. ~IsSigned(s) /\ pc[s] = IF k = 1 THEN "fetching" ELSE "sharing"
    BY <2>1 DEF SharesInv
  <2> QED BY <2>1, <2>2
<1> QED BY <1>1 DEF SharesInv, IsSigned

LEMMA SharesSettle ==
  ASSUME TypeOK, GetsInv, SharesInv, NEW r \in Requests, pc[r] = "fetching", NEW v, Settle(r, v)
  PROVE  SharesInv'
<1>1. \A s \in Requests : /\ pc'[s] = IF s \in Crew(r) THEN "settled" ELSE pc[s]
                          /\ data'[s] = IF s \in Crew(r) THEN v ELSE data[s]
  BY DEF Settle
<1>2. \A s \in Requests : pc'[s] = "fetching" => data'[s] \in Versions \cup {Absent}
  BY <1>1 DEF SharesInv
<1>3. CASE IsSigned(r)
  <2>1. executer' = executer /\ \A s \in Requests : ~IsSigned(s) => pc'[s] = pc[s]
    BY <1>1, <1>3 DEF Settle, Crew
  <2> QED BY <1>2, <2>1, SharesKeep
<1>4. CASE ~IsSigned(r)
  BY <1>2, <1>4 DEF Settle, SharesInv
<1> QED BY <1>3, <1>4

LEMMA SharesJoin ==
  ASSUME TypeOK, DataInv, SharesInv, NEW r \in Requests, Get(r)
  PROVE  SharesInv'
<1>0. pc \in [Requests -> States] /\ executer \in Seq(Requests)
  BY DEF TypeOK, States
<1>1. /\ executer' \in Seq(Requests) /\ Len(executer') = Len(executer) + 1
      /\ \A k \in 1..Len(executer) : executer'[k] = executer[k]
      /\ executer'[Len(executer) + 1] = r
  BY <1>0, AppendProperties DEF Get
<1>2. Len(executer) \in Nat /\ (executer = <<>> <=> Len(executer) = 0)
  BY <1>0
<1>3. DOMAIN executer = 1..Len(executer) /\ DOMAIN executer' = 1..(Len(executer) + 1)
  BY <1>0, <1>1
<1>4. /\ pc[r] = "handling" /\ ~IsSigned(r) /\ data' = data
      /\ \A s \in Requests \ {r} : pc'[s] = pc[s]
      /\ pc'[r] = IF executer = <<>> THEN "fetching" ELSE "sharing"
  BY <1>0 DEF Get, Send, Goto
<1>5. ASSUME NEW k \in 1..(Len(executer) + 1)
      PROVE  /\ ~IsSigned(executer'[k])
             /\ pc'[executer'[k]] = IF k = 1 THEN "fetching" ELSE "sharing"
  <2>1. CASE k = Len(executer) + 1
    <3>1. executer'[k] = r /\ (k = 1 <=> executer = <<>>)
      BY <1>1, <1>2, <2>1
    <3> QED BY <1>4, <3>1
  <2>2. CASE k # Len(executer) + 1
    <3>1. k \in DOMAIN executer /\ executer'[k] = executer[k]
      BY <1>1, <1>2, <1>3, <2>2
    <3>2. PICK s \in Requests : s = executer[k]
      BY <3>1, ListType
    <3>3. ~IsSigned(s) /\ pc[s] = IF k = 1 THEN "fetching" ELSE "sharing"
      BY <3>1, <3>2 DEF SharesInv
    <3>4. s # r
      BY <1>4, <3>3
    <3> QED BY <1>4, <3>1, <3>2, <3>3, <3>4
  <2> QED BY <2>1, <2>2
<1>6. \A s \in Requests : pc'[s] = "fetching" => data'[s] \in Versions \cup {Absent}
  BY <1>4 DEF SharesInv, DataInv
<1> QED BY <1>3, <1>5, <1>6 DEF SharesInv, IsSigned

LEMMA SharesInit == Init => SharesInv
BY DEF Init, SharesInv

LEMMA SharesStep == TypeOK /\ GetsInv /\ DataInv /\ SharesInv /\ [Next]_vars => SharesInv'
<1> SUFFICES ASSUME TypeOK, GetsInv, DataInv, SharesInv, [Next]_vars PROVE SharesInv'
  OBVIOUS
<1>0. pc \in [Requests -> States] /\ data \in [Requests -> Values] /\ db \in Versions
  BY DEF TypeOK, States
<1>1. ASSUME NEW r \in Requests, Get(r) PROVE SharesInv'
  BY <1>1, SharesJoin
<1>2. ASSUME NEW r \in Requests, GetSigned(r) \/ SignReturns(r) PROVE SharesInv'
  <2>1. /\ executer' = executer /\ data' = data /\ pc[r] \in {"handling", "signing"}
        /\ \A s \in Requests \ {r} : pc'[s] = pc[s]
    BY <1>0, <1>2 DEF GetSigned, SignReturns, Send, Goto
  <2>2. \A s \in Requests : pc'[s] = "fetching" => data'[s] \in Versions \cup {Absent}
    BY <2>1 DEF SharesInv, DataInv
  <2> QED BY <2>1, <2>2, SharesKeep
<1>3. ASSUME NEW r \in Requests, Arrive(r) \/ Lead(r) \/ SignFails(r) \/ Leave(r) PROVE SharesInv'
  <2>1. /\ executer' = executer /\ pc[r] \notin {"fetching", "sharing"} /\ pc'[r] # "fetching"
        /\ \A s \in Requests \ {r} : pc'[s] = pc[s] /\ data'[s] = data[s]
    BY <1>0, <1>3 DEF Arrive, Lead, SignFails, Leave, Goto
  <2>2. \A s \in Requests : pc'[s] = "fetching" => data'[s] \in Versions \cup {Absent}
    BY <2>1 DEF SharesInv
  <2> QED BY <2>1, <2>2, SharesKeep
<1>4. ASSUME NEW r \in Requests, FetchReturns(r) \/ FetchFails(r) PROVE SharesInv'
  BY <1>4, SharesSettle DEF FetchReturns, FetchFails
<1>5. ASSUME NEW r \in Requests, ReadSource(r) PROVE SharesInv'
  <2>1. executer' = executer /\ pc' = pc /\ \A s \in Requests : data'[s] \in {data[s], db}
    BY <1>0, <1>5 DEF ReadSource
  <2> QED BY <1>0, <2>1, SharesKeep DEF SharesInv
<1>6. ASSUME NEW r \in Requests,
             \/ Hit(r)
             \/ \E v \in Values : Emit(r, v)
             \/ \E kind \in {"object", "Error"} : Reject(r, kind)
      PROVE  SharesInv'
  <2>1. /\ executer' = executer /\ data' = data
        /\ \A s \in Requests :
             \/ pc'[s] = pc[s]
             \/ pc'[s] = "answered" /\ pc[s] \notin {"fetching", "sharing"}
    BY <1>6 DEF Hit, Emit, Reject, Answer, Followers
  <2> QED BY <2>1, SharesKeep DEF SharesInv
<1>7. ASSUME Change \/ Tick \/ UNCHANGED vars \/ \E k \in Keys : Evict(k)
      PROVE  SharesInv'
  <2>1. UNCHANGED <<pc, data, executer>>
    BY <1>7 DEF Change, Tick, Evict, vars, requestVars
  <2> QED BY <2>1, SharesKeep DEF SharesInv
<1> QED BY <1>1, <1>2, <1>3, <1>4, <1>5, <1>6, <1>7 DEF Next, Proceed

LEMMA SharesAlways == Spec => [](TypeOK /\ GetsInv /\ SharesInv)
<1>1. StaleInv => DataInv
  BY DEF StaleInv
<1> QED BY <1>1, TypeInit, TypeStep, GetsInit, GetsStep, StaleInit, StaleStep, SharesInit, SharesStep,
           PTL DEF Spec

Phase   == [s \in Requests |-> Standing(s)]
Outcome == [s \in Requests |-> Given(s)]

\* Where a request stands when the executer has something to do with it.
Shared == {"fetching", "sharing", "settled"}

SharedStep == Executer!Next \/ UNCHANGED <<Phase, Outcome>>

\* A step of which the executer sees nothing.
LEMMA ShareQuiet ==
  ASSUME \A s \in Requests : \/ IsSigned(s)
                             \/ pc[s] \notin Shared /\ pc'[s] \notin Shared
                             \/ pc'[s] = pc[s] /\ (pc[s] = "settled" => data'[s] = data[s])
  PROVE  SharedStep
<1>1. \A s \in Requests : Standing(s)' = Standing(s)
  BY DEF Standing, IsSigned, Shared
<1>2. \A s \in Requests : Standing(s) = "settled" => ~IsSigned(s) /\ pc[s] = "settled"
  BY DEF Standing
<1>3. \A s \in Requests : Given(s)' = Given(s)
  BY <1>1, <1>2 DEF Given, Shared
<1> QED BY <1>1, <1>3 DEF Phase, Outcome, SharedStep

\* The executer's list is the abstract Running and Joined.
LEMMA ShareCrew ==
  ASSUME TypeOK, GetsInv, SharesInv, NEW r \in Requests
  PROVE  /\ {executer[k] : k \in DOMAIN executer} = Executer!Running(r) \cup Executer!Joined(r)
         /\ Executer!Running(r) = {} <=> executer = <<>>
<1>1. ASSUME NEW k \in DOMAIN executer
      PROVE  executer[k] \in Executer!Running(r) \cup Executer!Joined(r)
  <2>1. PICK s \in Requests : s = executer[k]
    BY ListType
  <2>2. ~IsSigned(s) /\ pc[s] \in {"fetching", "sharing"}
    BY <2>1 DEF SharesInv
  <2>3. Standing(s) \in {"running", "joined"}
    BY <2>2 DEF Standing
  <2>4. s \in Executer!Running(r) \cup Executer!Joined(r)
    BY <2>3 DEF Executer!Running, Executer!Joined
  <2> QED BY <2>1, <2>4
<1>2. ASSUME NEW s \in Executer!Running(r) \cup Executer!Joined(r)
      PROVE  \E k \in DOMAIN executer : executer[k] = s
  <2>1. s \in Requests /\ Standing(s) \in {"running", "joined"}
    BY DEF Executer!Running, Executer!Joined
  <2>2. ~IsSigned(s) /\ pc[s] \in {"fetching", "sharing"}
    BY <2>1 DEF Standing
  <2> QED BY <2>1, <2>2, HeadType DEF GetsInv
<1>3. ASSUME executer # <<>> PROVE Executer!Running(r) # {}
  <2>1. PICK s \in Requests : s = executer[1]
    BY <1>3, HeadType
  <2>2. Standing(s) = "running"
    BY <1>3, <2>1 DEF GetsInv, Standing
  <2> QED BY <2>2 DEF Executer!Running
<1>4. ASSUME Executer!Running(r) # {} PROVE executer # <<>>
  <2>1. PICK s \in Requests : Standing(s) = "running"
    BY <1>4 DEF Executer!Running
  <2>2. ~IsSigned(s) /\ pc[s] = "fetching"
    BY <2>1 DEF Standing
  <2> QED BY <2>1, <2>2 DEF GetsInv
<1> QED BY <1>1, <1>2, <1>3, <1>4

\* An unsigned GET goes out, or joins the one that is out.
LEMMA ShareGet ==
  ASSUME TypeOK, GetsInv, SharesInv, NEW r \in Requests, Get(r)
  PROVE  SharedStep
<1>1. /\ pc[r] = "handling" /\ ~IsSigned(r) /\ data' = data
      /\ \A s \in Requests \ {r} : pc'[s] = pc[s]
      /\ pc'[r] = IF executer = <<>> THEN "fetching" ELSE "sharing"
  BY DEF Get, Send, Goto, TypeOK
<1>2. \A s \in Requests \ {r} : Standing(s)' = Standing(s) /\ Given(s)' = Given(s)
  BY <1>1 DEF Standing, Given, IsSigned
<1>3. /\ Standing(r) = "out" /\ Given(r) = Absent /\ Given(r)' = Absent
      /\ Standing(r)' = IF executer = <<>> THEN "running" ELSE "joined"
  BY <1>1 DEF Standing, Given, IsSigned
<1>4. /\ Phase' = [Phase EXCEPT ![r] = Standing(r)'] /\ Outcome' = Outcome /\ Phase[r] = "out"
  BY <1>2, <1>3 DEF Phase, Outcome
<1>5. CASE executer = <<>>
  <2>1. Executer!Start(r)
    BY <1>3, <1>4, <1>5, ShareCrew DEF Executer!Start, Phase, Outcome
  <2> QED BY <2>1 DEF SharedStep, Executer!Next
<1>6. CASE executer # <<>>
  <2>1. Executer!Join(r)
    BY <1>3, <1>4, <1>6, ShareCrew DEF Executer!Join, Phase, Outcome
  <2> QED BY <2>1 DEF SharedStep, Executer!Next
<1> QED BY <1>5, <1>6

\* A GET settles: if it is unsigned, for all who share it, and with one outcome.
LEMMA ShareSettle ==
  ASSUME TypeOK, GetsInv, SharesInv, NEW r \in Requests, pc[r] = "fetching",
         NEW v \in Versions \cup {Failure}, Settle(r, v)
  PROVE  SharedStep
<1>1. \A s \in Requests : /\ pc'[s] = IF s \in Crew(r) THEN "settled" ELSE pc[s]
                          /\ data'[s] = IF s \in Crew(r) THEN v ELSE data[s]
  BY DEF Settle
<1>2. CASE IsSigned(r)
  BY <1>1, <1>2, ShareQuiet DEF Crew
<1>3. CASE ~IsSigned(r)
  <2>1. Crew(r) = Executer!Running(r) \cup Executer!Joined(r)
    BY <1>3, ShareCrew DEF Crew
  <2>2. \A s \in Crew(r) : ~IsSigned(s)
    BY <2>1 DEF Executer!Running, Executer!Joined, Standing
  <2>3. \A s \in Requests : /\ Standing(s)' = IF s \in Crew(r) THEN "settled" ELSE Standing(s)
                            /\ Given(s)' = IF s \in Crew(r) THEN v ELSE Given(s)
    BY <1>1, <2>2 DEF Standing, Given, IsSigned
  <2>4. Standing(r) = "running"
    BY <1>3 DEF Standing
  <2>5. Executer!Settle(r, v)
    BY <2>1, <2>3, <2>4 DEF Executer!Settle
  <2> QED BY <2>5 DEF SharedStep, Executer!Next
<1> QED BY <1>2, <1>3

\* A handler that has an outcome ends with it, and takes its followers along.
LEMMA ShareUse ==
  ASSUME NEW r \in Requests, pc[r] = "settled", pc'[r] = "answered", data' = data,
         \A s \in Requests \ {r} : pc'[s] = pc[s] \/ (pc[s] = "waiting" /\ pc'[s] = "answered")
  PROVE  SharedStep
<1>1. CASE IsSigned(r)
  BY <1>1, ShareQuiet DEF Shared
<1>2. CASE ~IsSigned(r)
  <2>1. \A s \in Requests \ {r} : Standing(s)' = Standing(s) /\ Given(s)' = Given(s)
    BY DEF Standing, Given, IsSigned
  <2>2. Standing(r) = "settled" /\ Standing(r)' = "out" /\ Given(r)' = Absent
    BY <1>2 DEF Standing, Given, IsSigned
  <2>3. /\ Phase[r] = "settled"
        /\ Phase' = [Phase EXCEPT ![r] = "out"] /\ Outcome' = [Outcome EXCEPT ![r] = Absent]
    BY <2>1, <2>2 DEF Phase, Outcome
  <2>4. Executer!Use(r)
    BY <2>3 DEF Executer!Use, Phase, Outcome
  <2> QED BY <2>4 DEF SharedStep, Executer!Next
<1> QED BY <1>1, <1>2

LEMMA ShareStep == TypeOK /\ GetsInv /\ SharesInv /\ [Next]_vars => SharedStep
<1> SUFFICES ASSUME TypeOK, GetsInv, SharesInv, [Next]_vars PROVE SharedStep
  OBVIOUS
<1>0. pc \in [Requests -> States] /\ data \in [Requests -> Values]
  BY DEF TypeOK, States
<1>1. ASSUME NEW r \in Requests, Get(r) PROVE SharedStep
  BY <1>1, ShareGet
<1>2. ASSUME NEW r \in Requests, GetSigned(r) \/ SignReturns(r) \/ SignFails(r) PROVE SharedStep
  <2>1. IsSigned(r)
    BY <1>2 DEF GetSigned, SignReturns, SignFails, GetsInv
  <2>2. \A s \in Requests \ {r} : pc'[s] = pc[s] /\ data'[s] = data[s]
    BY <1>0, <1>2 DEF GetSigned, SignReturns, SignFails, Send, Goto
  <2> QED BY <2>1, <2>2, ShareQuiet
<1>3. ASSUME NEW r \in Requests, Arrive(r) \/ Lead(r) \/ Leave(r) PROVE SharedStep
  <2>1. /\ pc[r] \notin Shared /\ pc'[r] \notin Shared
        /\ \A s \in Requests \ {r} : pc'[s] = pc[s] /\ data'[s] = data[s]
    BY <1>0, <1>3 DEF Arrive, Lead, Leave, Goto, Shared
  <2> QED BY <2>1, ShareQuiet
<1>4. ASSUME NEW r \in Requests, ReadSource(r) PROVE SharedStep
  <2>1. pc' = pc /\ pc[r] = "fetching" /\ \A s \in Requests \ {r} : data'[s] = data[s]
    BY <1>0, <1>4 DEF ReadSource
  <2> QED BY <2>1, ShareQuiet
<1>5. ASSUME NEW r \in Requests, FetchReturns(r) PROVE SharedStep
  <2>1. pc[r] = "fetching" /\ data[r] \in Versions /\ Settle(r, data[r])
    BY <1>5 DEF FetchReturns, SharesInv
  <2> QED BY <2>1, ShareSettle
<1>6. ASSUME NEW r \in Requests, FetchFails(r) PROVE SharedStep
  BY <1>6, ShareSettle DEF FetchFails
<1>7. ASSUME NEW r \in Requests, Hit(r) PROVE SharedStep
  <2>1. /\ data' = data /\ pc[r] = "looking" /\ pc'[r] = "answered"
        /\ \A s \in Requests \ {r} : pc'[s] = pc[s]
    BY <1>7 DEF Hit, Answer
  <2> QED BY <2>1, ShareQuiet DEF Shared
<1>8. ASSUME NEW r \in Requests, NEW v \in Values, Emit(r, v) PROVE SharedStep
  <2>1. /\ data' = data /\ pc[r] = "settled"
        /\ \A s \in Requests : pc'[s] = IF s \in {r} \cup Followers(r) THEN "answered" ELSE pc[s]
    BY <1>8 DEF Emit, Answer
  <2> QED BY <2>1, ShareUse DEF Followers
<1>9. ASSUME NEW r \in Requests, NEW kind \in {"object", "Error"}, Reject(r, kind) PROVE SharedStep
  <2>1. /\ data' = data /\ pc[r] = "settled"
        /\ \A s \in Requests : pc'[s] = IF s = r \/ s \in Followers(r) THEN "answered" ELSE pc[s]
    BY <1>9 DEF Reject
  <2> QED BY <2>1, ShareUse DEF Followers
<1>10. ASSUME Change \/ Tick \/ UNCHANGED vars \/ \E k \in Keys : Evict(k)
       PROVE  SharedStep
  <2>1. UNCHANGED <<pc, data>>
    BY <1>10 DEF Change, Tick, Evict, vars, requestVars
  <2> QED BY <2>1, ShareQuiet
<1> QED BY <1>1, <1>2, <1>3, <1>4, <1>5, <1>6, <1>7, <1>8, <1>9, <1>10 DEF Next, Proceed

\* The executer of ApiService implements SharedCalls, for any requests, keys and durations and
\* whatever fails: each unsigned GET settles for exactly the handlers that asked while it was out,
\* in one step and with one outcome, and no signed one takes part.
THEOREM GetsShareOutcomes == Spec => ImplementsSharedCalls
<1>1. Init => Executer!Init
  BY DEF Init, Executer!Init, Standing, Given
<1>2. TypeOK /\ GetsInv /\ SharesInv /\ [Next]_vars => [Executer!Next]_(Executer!callVars)
  BY ShareStep DEF SharedStep, Executer!callVars, Phase, Outcome
<1> QED BY <1>1, <1>2, SharesAlways, PTL DEF Spec, ImplementsSharedCalls, Executer!Spec

------------------------------------------------------------------------------
(* Errors *)

\* Who handles has no leader and who waits has one, nobody else has a response, and what a
\* handler threw is kept apart.
ErrorsInv ==
  \A r \in Requests :
    /\ pc[r] \in Handling \cup {"looking"} => leader[r] = Absent
    /\ pc[r] = "waiting" => leader[r] # Absent
    /\ pc[r] # "answered" => response[r] = NoResponse
    /\ response[r].body \in {Failure, CustomError} =>
         (response[r].ok <=> response[r].body = CustomError /\ leader[r] # Absent)

\* A step that answers nobody, lets nobody in and ends no handling.
LEMMA ErrorsKeep ==
  ASSUME ErrorsInv, leader' = leader, response' = response,
         \A r \in Requests : \/ pc'[r] = pc[r]
                             \/ pc[r] \in Handling \cup {"looking"} /\ pc'[r] \in Handling
  PROVE  ErrorsInv'
BY DEF ErrorsInv, Handling

\* The requests of S are answered with what is nothing that a handler threw.
LEMMA ErrorsAnswer ==
  ASSUME ErrorsInv, leader' = leader, NEW S, NEW v, v \notin {Failure, CustomError},
         Answer(S, [ok |-> TRUE, body |-> v])
  PROVE  ErrorsInv'
<1>1. \A r \in Requests :
        \/ pc'[r] = pc[r] /\ response'[r] = response[r]
        \/ pc'[r] = "answered" /\ response'[r] = [ok |-> TRUE, body |-> v]
  BY DEF Answer
<1>2. [ok |-> TRUE, body |-> v].body \notin {Failure, CustomError}
  OBVIOUS
<1> QED BY <1>1, <1>2 DEF ErrorsInv, Handling

LEMMA ErrorsInit == Init => ErrorsInv
<1>1. NoResponse.body \notin {Failure, CustomError}
  BY Constants DEF NoResponse
<1>2. ASSUME Init, NEW r \in Requests
      PROVE  pc[r] = "idle" /\ response[r] = NoResponse
  BY <1>2 DEF Init
<1> QED BY <1>1, <1>2 DEF ErrorsInv, Handling

LEMMA ErrorsStep == TypeOK /\ SharesInv /\ ErrorsInv /\ [Next]_vars => ErrorsInv'
<1> SUFFICES ASSUME TypeOK, SharesInv, ErrorsInv, [Next]_vars PROVE ErrorsInv'
  OBVIOUS
<1>0. /\ local \in [Keys -> Versions \cup {Absent}] /\ pc \in [Requests -> States]
      /\ leader \in [Requests -> Requests \cup {Absent}]
      /\ response \in [Requests -> [ok : BOOLEAN, body : Values]]
      /\ \A r \in Requests : KeyOf[r] \in Keys
  BY ConstantsAssumption DEF TypeOK, States
<1>1. ASSUME NEW r \in Requests, Hit(r) PROVE ErrorsInv'
  <2>1. local[KeyOf[r]] \notin {Failure, CustomError}
    BY <1>0, Constants
  <2> QED BY <1>1, <2>1, ErrorsAnswer DEF Hit
<1>2. ASSUME NEW r \in Requests, NEW v \in Values, Emit(r, v) PROVE ErrorsInv'
  <2>1. v \notin {Failure, CustomError}
    BY <1>2, Constants DEF Emit
  <2> QED BY <1>2, <2>1, ErrorsAnswer DEF Emit
<1>3. ASSUME NEW r \in Requests, NEW kind \in {"object", "Error"}, Reject(r, kind)
      PROVE  ErrorsInv'
  <2>1. /\ pc[r] = "settled" /\ leader' = leader
        /\ pc' = [s \in Requests |-> IF s = r \/ s \in Followers(r) THEN "answered" ELSE pc[s]]
        /\ response' = [s \in Requests |->
             CASE s = r -> [ok |-> FALSE, body |-> Thrown(kind)]
               [] s \in Followers(r) -> [ok |-> IsSuccess(kind), body |-> Thrown(kind)]
               [] OTHER -> response[s]]
    BY <1>3 DEF Reject
  <2>2. Thrown(kind) \in {Failure, CustomError} /\ (IsSuccess(kind) <=> Thrown(kind) = CustomError)
    BY Constants DEF Thrown, IsSuccess
  <2>3. leader[r] = Absent
    BY <2>1 DEF ErrorsInv, Handling
  <2>4. ASSUME NEW s \in Requests
        PROVE  /\ pc'[s] \in Handling \cup {"looking"} => leader'[s] = Absent
               /\ pc'[s] = "waiting" => leader'[s] # Absent
               /\ pc'[s] # "answered" => response'[s] = NoResponse
               /\ response'[s].body \in {Failure, CustomError} =>
                    (response'[s].ok <=> response'[s].body = CustomError /\ leader'[s] # Absent)
    <3>1. CASE s = r
      <4>1. pc'[s] = "answered" /\ response'[s] = [ok |-> FALSE, body |-> Thrown(kind)]
        <5>1. s \notin Followers(r)
          BY <2>1, <3>1 DEF Followers
        <5> QED BY <2>1, <3>1, <5>1, Zenon
      <4>2. ~response'[s].ok
        BY <4>1
      <4> QED BY <2>1, <2>3, <3>1, <4>1, <4>2 DEF Handling
    <3>2. CASE s # r /\ s \in Followers(r)
      <4>1. pc'[s] = "answered" /\ response'[s] = [ok |-> IsSuccess(kind), body |-> Thrown(kind)]
        BY <2>1, <3>2, Zenon
      <4>2. leader[s] # Absent
        BY <3>2 DEF Followers, ErrorsInv
      <4>3. (response'[s].ok <=> IsSuccess(kind)) /\ response'[s].body = Thrown(kind)
        <5> HIDE DEF IsSuccess, Thrown
        <5> QED BY <4>1
      <4> QED BY <2>1, <2>2, <4>1, <4>2, <4>3 DEF Handling
    <3>3. CASE s # r /\ s \notin Followers(r)
      <4>1. pc'[s] = pc[s] /\ response'[s] = response[s]
        BY <2>1, <3>3, Zenon
      <4> QED BY <2>1, <4>1 DEF ErrorsInv
    <3> QED BY <3>1, <3>2, <3>3
  <2> QED BY <2>4 DEF ErrorsInv
<1>4. ASSUME NEW r \in Requests, Leave(r) PROVE ErrorsInv'
  <2>1. /\ pc'[r] = "idle" /\ response'[r] = NoResponse
        /\ \A s \in Requests \ {r} :
             pc'[s] = pc[s] /\ response'[s] = response[s] /\ leader'[s] = leader[s]
    BY <1>0, <1>4 DEF Leave, Goto
  <2>2. NoResponse.body \notin {Failure, CustomError}
    BY Constants DEF NoResponse
  <2> QED BY <2>1, <2>2 DEF ErrorsInv, Handling
<1>5. ASSUME NEW r \in Requests, Arrive(r) PROVE ErrorsInv'
  <2>1. /\ pc[r] = "idle" /\ response' = response
        /\ leader'[r] = dictionary[KeyOf[r]]
        /\ pc'[r] = IF dictionary[KeyOf[r]] = Absent THEN "looking" ELSE "waiting"
        /\ \A s \in Requests \ {r} : pc'[s] = pc[s] /\ leader'[s] = leader[s]
    BY <1>0, <1>5 DEF Arrive, Goto
  <2>2. response[r] = NoResponse /\ NoResponse.body \notin {Failure, CustomError}
    BY <2>1, Constants DEF NoResponse, ErrorsInv
  <2> QED BY <2>1, <2>2 DEF ErrorsInv, Handling
<1>6. ASSUME NEW r \in Requests,
             \/ Lead(r) \/ Get(r) \/ GetSigned(r) \/ SignReturns(r) \/ SignFails(r)
             \/ ReadSource(r)
      PROVE  ErrorsInv'
  <2>1. \/ pc' = pc
        \/ pc[r] \in Handling \cup {"looking"} /\ \E s \in Handling : pc' = [pc EXCEPT ![r] = s]
    BY <1>6 DEF Lead, Get, GetSigned, SignReturns, SignFails, ReadSource, Send, Goto, Handling
  <2>2. leader' = leader /\ response' = response
    BY <1>6 DEF Lead, Get, GetSigned, SignReturns, SignFails, ReadSource
  <2> QED BY <1>0, <2>1, <2>2, ErrorsKeep
<1>7. ASSUME NEW r \in Requests, FetchReturns(r) \/ FetchFails(r) PROVE ErrorsInv'
  <2>1. PICK v : pc[r] = "fetching" /\ Settle(r, v)
    BY <1>7 DEF FetchReturns, FetchFails
  <2>2. \A s \in Crew(r) : pc[s] \in {"fetching", "sharing"}
    BY <2>1 DEF Crew, SharesInv
  <2>3. \A s \in Requests : pc'[s] = IF s \in Crew(r) THEN "settled" ELSE pc[s]
    BY <2>1 DEF Settle
  <2>4. leader' = leader /\ response' = response
    BY <2>1 DEF Settle
  <2> QED BY <2>2, <2>3, <2>4, ErrorsKeep DEF Handling
<1>8. ASSUME Change \/ Tick \/ UNCHANGED vars \/ \E k \in Keys : Evict(k)
      PROVE  ErrorsInv'
  <2>1. pc' = pc /\ leader' = leader /\ response' = response
    BY <1>8 DEF Change, Tick, Evict, vars, requestVars
  <2> QED BY <2>1, ErrorsKeep
<1> QED BY <1>1, <1>2, <1>3, <1>4, <1>5, <1>6, <1>7, <1>8 DEF Next, Proceed

\* Whatever handlers throw: an Error is an error to everyone who waited for it, and a plain
\* object of ApiService is one to the request whose handler threw it and to nobody else.
THEOREM ErrorsReachEveryone == Spec => []ErrorsStayErrors
<1>1. ErrorsInv => ErrorsStayErrors
  BY DEF ErrorsInv, ErrorsStayErrors
<1> QED BY <1>1, ErrorsInit, ErrorsStep, SharesAlways, PTL DEF Spec

------------------------------------------------------------------------------
(* Tokens *)

\* The token that is kept lives nearly as long as its expiryDate says, and no signature
\* takes longer than the difference.
TokenInv ==
  /\ tokenTtl <= tokenLife + MaxSign
  /\ \A r \in Requests : pc[r] = "signing" => waited[r] <= MaxSign

LEMMA TokenInit == Init => TokenInv
BY Constants DEF Init, TokenInv

\* Moving a bound over an inequality.
LEMMA Moved ==
  ASSUME NEW a \in Nat, NEW b \in Nat, NEW c \in Nat, c >= a - b
  PROVE  a <= c + b
OBVIOUS

LEMMA TokenStep ==
  ASSUME TypeOK, TokenInv, [Next]_vars
  PROVE  TokenInv' /\ [\A r \in Requests :
           IsSigned(r) /\ pc[r] \in {"handling", "signing"} /\ pc'[r] = "fetching" =>
             tokenLife' >= TokenBound]_vars
<1> DEFINE Sent == \A r \in Requests :
             IsSigned(r) /\ pc[r] \in {"handling", "signing"} /\ pc'[r] = "fetching" =>
               tokenLife' >= TokenBound
<1>0. /\ tokenTtl \in 0..TokenTtl /\ tokenLife \in 0..TokenTtl
      /\ pc \in [Requests -> States] /\ waited \in [Requests -> Nat]
  BY DEF TypeOK, States
<1>n. MaxSign \in Nat /\ TokenTtl \in Nat
  BY Constants
<1>m. TokenBound \in Int /\ TokenBound <= Margin - MaxSign /\ TokenBound <= TokenTtl - MaxSign
  BY Constants DEF TokenBound
<1>k. ASSUME tokenTtl' = tokenTtl, tokenLife' = tokenLife,
             \A r \in Requests : pc'[r] = "signing" => waited'[r] <= MaxSign
      PROVE  TokenInv'
  BY <1>k DEF TokenInv
<1>s. ASSUME \A r \in Requests : pc[r] \in {"handling", "signing"} => pc'[r] # "fetching"
      PROVE  Sent
  BY <1>s
<1>1. ASSUME NEW r \in Requests, Get(r) PROVE TokenInv' /\ Sent
  <2>1. /\ ~IsSigned(r) /\ UNCHANGED tokenVars
        /\ \A s \in Requests \ {r} : pc'[s] = pc[s] /\ waited'[s] = waited[s]
        /\ pc'[r] \in {"fetching", "sharing"}
    BY <1>0, <1>1 DEF Get, Send, Goto
  <2> QED BY <1>k, <2>1 DEF TokenInv, tokenVars
<1>2. ASSUME NEW r \in Requests, GetSigned(r) PROVE TokenInv' /\ Sent
  <2>1. /\ UNCHANGED tokenVars
        /\ \A s \in Requests \ {r} : pc'[s] = pc[s] /\ waited'[s] = waited[s]
        /\ \/ IsFresh /\ pc'[r] = "fetching"
           \/ pc'[r] = "signing" /\ waited'[r] = 0
    BY <1>0, <1>2 DEF GetSigned, Send, Goto
  <2>2. IsFresh => tokenLife >= TokenBound
    BY <1>0, <1>m, Constants DEF IsFresh, TokenInv
  <2>3. TokenInv'
    BY <1>k, <2>1, Constants DEF TokenInv, tokenVars
  <2> QED BY <2>1, <2>2, <2>3 DEF tokenVars
<1>3. ASSUME NEW r \in Requests, SignReturns(r) PROVE TokenInv' /\ Sent
  <2>1. /\ \A s \in Requests \ {r} : pc'[s] = pc[s] /\ waited'[s] = waited[s]
        /\ pc'[r] = "fetching"
    BY <1>0, <1>3 DEF SignReturns, Send, Goto
  <2>2. tokenTtl' = TokenTtl /\ tokenLife' \in Nat /\ tokenLife' >= TokenTtl - MaxSign
    <3>1. waited[r] \in Nat /\ waited[r] <= MaxSign
      BY <1>0, <1>3 DEF SignReturns, TokenInv
    <3>2. PICK d \in 0..waited[r] : tokenLife' = IF d < TokenTtl THEN TokenTtl - d ELSE 0
      BY <1>3 DEF SignReturns
    <3>3. d \in Nat /\ d <= MaxSign
      BY <3>1, Constants
    <3>4. tokenLife' \in Nat /\ tokenLife' >= TokenTtl - MaxSign
      BY <3>2, <3>3, Constants
    <3> QED BY <1>3, <3>4 DEF SignReturns
  <2>3. tokenLife' >= TokenBound /\ tokenTtl' <= tokenLife' + MaxSign
    <3>1. tokenLife' >= TokenBound
      BY <1>m, <1>n, <2>2
    <3>2. TokenTtl <= tokenLife' + MaxSign
      BY <1>n, <2>2, Moved
    <3> QED BY <2>2, <3>1, <3>2
  <2>4. TokenInv'
    BY <2>1, <2>3 DEF TokenInv
  <2> QED BY <2>3, <2>4
<1>4. ASSUME NEW r \in Requests, Arrive(r) \/ Lead(r) \/ SignFails(r) \/ Leave(r) \/ ReadSource(r)
      PROVE  TokenInv' /\ Sent
  <2>1. /\ UNCHANGED tokenVars
        /\ \A s \in Requests \ {r} : pc'[s] = pc[s] /\ waited'[s] = waited[s]
        /\ \/ pc'[r] = pc[r] /\ waited'[r] = waited[r]
           \/ pc'[r] \in {"looking", "waiting", "handling", "settled", "idle"}
    BY <1>0, <1>4 DEF Arrive, Lead, SignFails, Leave, ReadSource, Goto
  <2> QED BY <1>k, <1>s, <2>1 DEF TokenInv, tokenVars
<1>5. ASSUME NEW r \in Requests,
             \/ Hit(r) \/ FetchReturns(r) \/ FetchFails(r)
             \/ \E v \in Values : Emit(r, v)
             \/ \E kind \in {"object", "Error"} : Reject(r, kind)
      PROVE  TokenInv' /\ Sent
  <2>1. UNCHANGED <<tokenVars, waited>>
    BY <1>5 DEF Hit, FetchReturns, FetchFails, Settle, Emit, Reject
  <2>2. \A s \in Requests : pc'[s] \in {pc[s], "answered", "settled"}
    BY <1>5 DEF Hit, FetchReturns, FetchFails, Settle, Emit, Reject, Answer
  <2> QED BY <1>k, <1>s, <2>1, <2>2 DEF TokenInv, tokenVars
<1>6. ASSUME Change \/ \E k \in Keys : Evict(k) PROVE TokenInv' /\ Sent
  <2>1. UNCHANGED <<tokenVars, pc, waited>>
    BY <1>6 DEF Change, Evict, requestVars
  <2> QED BY <1>k, <1>s, <2>1 DEF TokenInv, tokenVars
<1>7. CASE Tick
  <2>1. tokenTtl' <= tokenLife' + MaxSign
    BY <1>0, <1>7, Constants DEF Tick, Less, TokenInv
  <2>2. \A r \in Requests : pc'[r] = "signing" => waited'[r] <= MaxSign
    <3> SUFFICES ASSUME NEW r \in Requests, pc[r] = "signing" PROVE waited'[r] <= MaxSign
      BY <1>7 DEF Tick
    <3>1. waited[r] \in Nat /\ waited[r] < MaxSign /\ waited'[r] = waited[r] + 1
      BY <1>0, <1>7 DEF Tick, NothingOverdue
    <3> QED BY <3>1, Constants
  <2>3. pc' = pc
    BY <1>7 DEF Tick
  <2> QED BY <1>s, <2>1, <2>2, <2>3 DEF TokenInv
<1>8. CASE UNCHANGED vars
  BY <1>8, <1>k DEF vars, requestVars, tokenVars, TokenInv
<1> QED BY <1>1, <1>2, <1>3, <1>4, <1>5, <1>6, <1>7, <1>8 DEF Next, Proceed

\* However many callers sign at once and whoever of them is last, a token that is sent
\* is accepted upstream for the rest of its margin, less the time a signature takes.
THEOREM TokensOutliveTheirUse == Spec => TokensLast
<1>1. TypeOK /\ TokenInv /\ [Next]_vars =>
        TokenInv' /\ [\A r \in Requests :
          IsSigned(r) /\ pc[r] \in {"handling", "signing"} /\ pc'[r] = "fetching" =>
            tokenLife' >= TokenBound]_vars
  BY TokenStep
<1> QED BY <1>1, TypeInit, TypeStep, TokenInit, PTL DEF Spec, TokensLast

==============================================================================
