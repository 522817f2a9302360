-------------------------- MODULE CacheServiceProofs --------------------------
(***************************************************************************)
(* Proofs about CacheService, for any processes, callers, methods, ttls    *)
(* and delays.                                                             *)
(***************************************************************************)
EXTENDS CacheService, SequenceTheorems, TLAPS

States == {"idle", "reading", "creating", "joined", "loaded", "storing", "wrote", "deleting"}

Value == Versions \cup {Absent}

\* TypeOK by groups of variables that change together.
CallerType ==
  /\ pc \in [Callers -> States]
  /\ method \in [Callers -> Methods]
  /\ data \in [Callers -> Value]
  /\ waited \in [Callers -> Nat]

LocalType  ==
  /\ local \in [Nodes -> Value] /\ localTtl \in [Nodes -> 0..InMemoryTtl]
  /\ \A n \in Nodes : local[n] # Absent => localTtl[n] > 0
RemoteType == remote \in Value /\ remoteTtl \in 0..Ttl
SourceType == db \in Versions /\ age \in [Versions -> Nat]

LEMMA TypeGroups ==
  TypeOK <=> /\ CallerType /\ LocalType /\ RemoteType /\ SourceType
             /\ pending \in [Nodes -> Seq(Callers)]
             /\ requests \in [Nodes -> Seq(Message)]
             /\ replies \in [Nodes -> Seq(Message)]
             /\ failures \in 0..MaxFailures
BY Zenon DEF TypeOK, CallerType, LocalType, RemoteType, SourceType, States, Value

LEMMA TypeGroupsPrime ==
  ASSUME CallerType', LocalType', RemoteType', SourceType',
         pending' \in [Nodes -> Seq(Callers)],
         requests' \in [Nodes -> Seq(Message)],
         replies' \in [Nodes -> Seq(Message)],
         failures' \in 0..MaxFailures
  PROVE  TypeOK'
BY Zenon DEF TypeOK, CallerType, LocalType, RemoteType, SourceType, States, Value

------------------------------------------------------------------------------
(* Type correctness *)

LEMMA GotoType ==
  ASSUME CallerType, NEW c \in Callers, NEW s \in States, NEW m \in Methods, NEW v \in Value,
         Goto(c, s, m, v)
  PROVE  CallerType'
BY DEF CallerType, Goto

LEMMA ReturnType ==
  ASSUME CallerType, NEW c \in Callers, Return(c)
  PROVE  CallerType'
<1>1. "get" \in Methods
  BY DEF Methods, PlainReads
<1> QED BY <1>1, GotoType DEF Return, States, Value

LEMMA SendType ==
  ASSUME requests \in [Nodes -> Seq(Message)], NEW c \in Callers,
         NEW op \in {"GET", "SET", "DEL"}, NEW v \in Value, Send(c, op, v)
  PROVE  requests' \in [Nodes -> Seq(Message)]
<1> DEFINE m == [by |-> c, op |-> op, v |-> v, age |-> 0]
<1>1. Home[c] \in Nodes /\ MaxDelay \in Nat
  BY ConstantsAssumption
<1>2. m \in Message
  BY <1>1 DEF Message, Value
<1>3. Append(requests[Home[c]], m) \in Seq(Message)
  BY <1>1, <1>2, AppendProperties
<1> HIDE DEF m
<1>4. requests' = [requests EXCEPT ![Home[c]] = Append(@, m)]
  BY DEF Send, m
<1> QED BY <1>1, <1>3, <1>4

LEMMA SetLocalType ==
  ASSUME LocalType, NEW n \in Nodes, NEW v \in Value, SetLocal(n, v)
  PROVE  LocalType'
<1>1. InMemoryTtl \in Nat
  BY ConstantsAssumption
<1> QED BY <1>1 DEF LocalType, SetLocal, localVars

LEMMA DeleteLocalType ==
  ASSUME LocalType, NEW n \in Nodes, DeleteLocal(n)
  PROVE  LocalType'
BY ConstantsAssumption DEF LocalType, DeleteLocal, Value

LEMMA LoadType ==
  ASSUME CallerType, pending \in [Nodes -> Seq(Callers)],
         NEW c \in Callers, NEW m \in Methods, Load(c, m)
  PROVE  CallerType' /\ pending' \in [Nodes -> Seq(Callers)]
<1>1. Home[c] \in Nodes /\ Absent \in Value
  BY ConstantsAssumption DEF Value
<1>2. Append(pending[Home[c]], c) \in Seq(Callers)
  BY <1>1, AppendProperties
<1>3. CASE UsesExecuter(m)
  <2>1. \E s \in States : Goto(c, s, m, Absent)
    BY <1>3 DEF Load, States
  <2>2. pending' = [pending EXCEPT ![Home[c]] = Append(@, c)]
    BY <1>3 DEF Load
  <2> QED BY <1>1, <1>2, <2>1, <2>2, GotoType
<1>4. CASE ~UsesExecuter(m)
  <2>1. Goto(c, "creating", m, Absent) /\ pending' = pending
    BY <1>4 DEF Load
  <2> QED BY <1>1, <2>1, GotoType DEF States
<1> QED BY <1>3, <1>4

LEMMA StoreType ==
  ASSUME CallerType, LocalType, requests \in [Nodes -> Seq(Message)],
         NEW c \in Callers, NEW m \in Methods, NEW v \in Value, Store(c, m, v)
  PROVE  CallerType' /\ LocalType' /\ requests' \in [Nodes -> Seq(Message)]
<1>1. Home[c] \in Nodes /\ Absent \in Value
  BY ConstantsAssumption DEF Value
<1>2. LocalType'
  <2>1. SetLocal(Home[c], v) \/ UNCHANGED localVars
    BY DEF Store
  <2>2. CASE UNCHANGED localVars
    BY <2>2 DEF LocalType, localVars
  <2> QED BY <1>1, <2>1, <2>2, SetLocalType
<1>3. \/ Goto(c, "storing", m, Absent) /\ Send(c, "SET", v)
      \/ Return(c) /\ UNCHANGED requests
  BY DEF Store
<1>4. CASE Goto(c, "storing", m, Absent) /\ Send(c, "SET", v)
  BY <1>1, <1>2, <1>4, GotoType, SendType DEF States
<1>5. CASE Return(c) /\ UNCHANGED requests
  BY <1>2, <1>5, ReturnType
<1> QED BY <1>3, <1>4, <1>5

\* The outcome of c's createValueFunc() reaches its crew.
LEMMA SettledType ==
  ASSUME pending \in [Nodes -> Seq(Callers)], NEW c \in Callers, pending' = Settled(c)
  PROVE  pending' \in [Nodes -> Seq(Callers)]
<1>1. <<>> \in Seq(Callers)
  OBVIOUS
<1> QED BY <1>1 DEF Settled

\* Redis takes the oldest command of n.
LEMMA ServeType ==
  ASSUME requests \in [Nodes -> Seq(Message)], replies \in [Nodes -> Seq(Message)],
         NEW n \in Nodes, NEW v \in Value, requests[n] # <<>>, Serve(n, v)
  PROVE  /\ Head(requests[n]) \in Message
         /\ requests' \in [Nodes -> Seq(Message)]
         /\ replies' \in [Nodes -> Seq(Message)]
<1> DEFINE m == Head(requests[n])
           answer == IF m.op = "GET" THEN [m EXCEPT !.v = v] ELSE m
<1>1. m \in Message /\ Tail(requests[n]) \in Seq(Message)
  BY HeadTailProperties
<1>2. answer \in Message
  BY <1>1 DEF Message, Value
<1>3. Append(replies[n], answer) \in Seq(Message)
  BY <1>2, AppendProperties
<1>4. /\ requests' = [requests EXCEPT ![n] = Tail(@)]
      /\ replies' = [replies EXCEPT ![n] = Append(@, answer)]
  BY DEF Serve
<1> HIDE DEF m, answer
<1>5. requests' \in [Nodes -> Seq(Message)] /\ replies' \in [Nodes -> Seq(Message)]
  BY <1>1, <1>3, <1>4
<1> QED BY <1>1, <1>5 DEF m

LEMMA ApplyType ==
  ASSUME RemoteType, NEW m \in Message, Apply(m)
  PROVE  RemoteType'
<1>1. Ttl \in Nat
  BY ConstantsAssumption
<1>2. m.op \in {"GET", "SET", "DEL"} /\ m.v \in Value
  BY DEF Message, Value
<1>3. CASE m.op = "GET"
  BY <1>3 DEF Apply, RemoteType, remoteVars
<1>4. CASE m.op = "SET"
  BY <1>1, <1>2, <1>4 DEF Apply, RemoteType
<1>5. CASE m.op = "DEL"
  BY <1>5, ConstantsAssumption DEF Apply, RemoteType, Value
<1> QED BY <1>2, <1>3, <1>4, <1>5

\* An answer arrives.
LEMMA AnsweredType ==
  ASSUME replies \in [Nodes -> Seq(Message)], NEW c \in Callers, Answered(c)
  PROVE  /\ Answer(c) \in Message
         /\ replies' \in [Nodes -> Seq(Message)]
<1>1. Home[c] \in Nodes
  BY ConstantsAssumption
<1>2. Answer(c) \in Message /\ Tail(replies[Home[c]]) \in Seq(Message)
  BY <1>1, HeadTailProperties DEF Answered, Answer
<1>3. replies' = [replies EXCEPT ![Home[c]] = Tail(replies[Home[c]])]
  BY <1>1 DEF Answered
<1> DEFINE rest == Tail(replies[Home[c]])
<1> HIDE DEF rest
<1>4. replies' \in [Nodes -> Seq(Message)]
  BY <1>1, <1>2, <1>3 DEF rest
<1> QED BY <1>2, <1>4

\* A unit of time ages the messages that may still get older.
LEMMA OlderType ==
  ASSUME NEW q \in Seq(Message), \A k \in DOMAIN q : q[k].age < MaxDelay
  PROVE  Older(q) \in Seq(Message)
<1>1. /\ Len(q) \in Nat
      /\ DOMAIN q = 1..Len(q)
      /\ \A k \in 1..Len(q) : q[k] \in Message
  BY LenProperties, ElementOfSeq
<1>2. ASSUME NEW m \in Message, m.age < MaxDelay
      PROVE  [m EXCEPT !.age = @ + 1] \in Message
  <2>1. m.age + 1 \in 0..MaxDelay
    <3>1. m.age \in 0..MaxDelay
      BY DEF Message
    <3> QED BY <1>2, <3>1, ConstantsAssumption
  <2> QED BY <2>1 DEF Message
<1>3. [k \in 1..Len(q) |-> [q[k] EXCEPT !.age = @ + 1]] \in [1..Len(q) -> Message]
  BY <1>1, <1>2
<1>4. Older(q) = [k \in 1..Len(q) |-> [q[k] EXCEPT !.age = @ + 1]]
  BY <1>1, Zenon DEF Older
<1> HIDE DEF Older, Message
<1> QED BY <1>1, <1>3, <1>4, SeqDef

LEMMA TypeInit == Init => TypeOK
<1> SUFFICES ASSUME Init PROVE TypeOK
  OBVIOUS
<1>1. 0 \in Versions /\ "get" \in Methods
  BY ConstantsAssumption DEF Versions, Methods, PlainReads
<1>2. \A T : <<>> \in Seq(T)
  OBVIOUS
<1>3. failures \in 0..MaxFailures
  BY ConstantsAssumption DEF Init
<1>4. CallerType /\ LocalType /\ RemoteType /\ SourceType
  BY <1>1, ConstantsAssumption DEF Init, CallerType, LocalType, RemoteType, SourceType, Value, States
<1>5. /\ pending \in [Nodes -> Seq(Callers)]
      /\ requests \in [Nodes -> Seq(Message)]
      /\ replies \in [Nodes -> Seq(Message)]
  BY <1>2 DEF Init
<1> QED BY <1>3, <1>4, <1>5, TypeGroups

LEMMA TypeStep == TypeOK /\ [Next]_vars => TypeOK'
<1> SUFFICES ASSUME TypeOK, [Next]_vars PROVE TypeOK'
  OBVIOUS
<1> USE DEF connVars
<1>0. /\ CallerType /\ LocalType /\ RemoteType /\ SourceType
      /\ pending \in [Nodes -> Seq(Callers)]
      /\ requests \in [Nodes -> Seq(Message)]
      /\ replies \in [Nodes -> Seq(Message)]
      /\ failures \in 0..MaxFailures
  BY TypeGroups
<1>k. /\ UNCHANGED callerVars => CallerType'
      /\ UNCHANGED localVars => LocalType'
      /\ UNCHANGED remoteVars => RemoteType'
      /\ UNCHANGED sourceVars => SourceType'
      /\ UNCHANGED pending => pending' \in [Nodes -> Seq(Callers)]
      /\ UNCHANGED requests => requests' \in [Nodes -> Seq(Message)]
      /\ UNCHANGED replies => replies' \in [Nodes -> Seq(Message)]
      /\ UNCHANGED failures => failures' \in 0..MaxFailures
  BY <1>0 DEF CallerType, LocalType, RemoteType, SourceType, callerVars, localVars, remoteVars, sourceVars
<1>g. (/\ CallerType' /\ LocalType' /\ RemoteType' /\ SourceType'
       /\ pending' \in [Nodes -> Seq(Callers)]
       /\ requests' \in [Nodes -> Seq(Message)]
       /\ replies' \in [Nodes -> Seq(Message)]
       /\ failures' \in 0..MaxFailures) => TypeOK'
  BY TypeGroupsPrime
<1>c. /\ \A c \in Callers : Home[c] \in Nodes
      /\ Calls \subseteq Methods
      /\ Absent \in Value
      /\ \A c \in Callers : data[c] \in Value /\ method[c] \in Methods
  BY <1>0, ConstantsAssumption DEF Value, CallerType
<1>1. ASSUME NEW c \in Callers, NEW m \in Calls, Ask(c, m) PROVE TypeOK'
  <2>1. CallerType'
    BY <1>0, <1>1, <1>c, GotoType DEF Ask, States
  <2>2. requests' \in [Nodes -> Seq(Message)]
    BY <1>0, <1>1, <1>c, SendType DEF Ask
  <2> QED BY <1>1, <1>k, <1>g, <2>1, <2>2 DEF Ask
<1>2. ASSUME NEW c \in Callers, NEW m \in Calls, Create(c, m) PROVE TypeOK'
  <2>1. CallerType' /\ pending' \in [Nodes -> Seq(Callers)]
    BY <1>0, <1>2, <1>c, LoadType DEF Create
  <2> QED BY <1>2, <1>k, <1>g, <2>1 DEF Create
<1>3. ASSUME NEW c \in Callers, NEW m \in Calls, Set(c, m) PROVE TypeOK'
  <2>1. CallerType' /\ LocalType' /\ requests' \in [Nodes -> Seq(Message)]
    BY <1>0, <1>3, <1>c, StoreType DEF Set
  <2> QED BY <1>3, <1>k, <1>g, <2>1 DEF Set
<1>4. ASSUME NEW c \in Callers, NEW m \in Calls, Delete(c, m) PROVE TypeOK'
  <2>1. CallerType'
    BY <1>0, <1>4, <1>c, GotoType, ReturnType DEF Delete, States
  <2>2. requests' \in [Nodes -> Seq(Message)]
    BY <1>0, <1>4, <1>c, SendType DEF Delete
  <2>3. LocalType'
    BY <1>0, <1>4, <1>c, <1>k, DeleteLocalType DEF Delete
  <2> QED BY <1>4, <1>k, <1>g, <2>1, <2>2, <2>3 DEF Delete
<1>5. ASSUME NEW c \in Callers, Write(c) PROVE TypeOK'
  <2>1. db + 1 \in Versions
    BY <1>0, <1>5, ConstantsAssumption DEF Write, Versions, SourceType
  <2>2. CallerType'
    BY <1>0, <1>5, <2>1, GotoType DEF Write, States, Methods, PlainReads, Value
  <2>3. SourceType'
    BY <1>0, <1>5, <2>1 DEF Write, SourceType
  <2> QED BY <1>5, <1>k, <1>g, <2>2, <2>3 DEF Write
<1>6. ASSUME NEW c \in Callers, ReadSource(c) PROVE TypeOK'
  <2>1. CallerType'
    BY <1>0, <1>6 DEF ReadSource, CallerType, SourceType, Value
  <2> QED BY <1>6, <1>k, <1>g, <2>1 DEF ReadSource
<1>7. ASSUME NEW c \in Callers, CreateReturns(c) PROVE TypeOK'
  <2>1. CallerType'
    <3> HIDE DEF Crew
    <3> QED BY <1>0, <1>7, <1>c DEF CreateReturns, CallerType, States
  <2>2. pending' \in [Nodes -> Seq(Callers)]
    BY <1>0, <1>7, SettledType DEF CreateReturns
  <2> QED BY <1>7, <1>k, <1>g, <2>1, <2>2 DEF CreateReturns
<1>8. ASSUME NEW c \in Callers, CreateFails(c) PROVE TypeOK'
  <2>1. CallerType'
    <3>1. "get" \in Methods /\ "idle" \in States
      BY DEF Methods, PlainReads, States
    <3> QED BY <1>0, <1>8, <1>c, <3>1 DEF CreateFails, CallerType
  <2>2. pending' \in [Nodes -> Seq(Callers)]
    BY <1>0, <1>8, SettledType DEF CreateFails
  <2>3. failures' \in 0..MaxFailures
    BY <1>0, <1>8, ConstantsAssumption DEF CreateFails
  <2> QED BY <1>8, <1>k, <1>g, <2>1, <2>2, <2>3 DEF CreateFails
<1>9. ASSUME NEW c \in Callers, Continue(c) PROVE TypeOK'
  <2>1. CallerType' /\ LocalType' /\ requests' \in [Nodes -> Seq(Message)]
    BY <1>0, <1>9, <1>c, StoreType DEF Continue
  <2> QED BY <1>9, <1>k, <1>g, <2>1 DEF Continue
<1>10. ASSUME NEW c \in Callers, ReadAnswered(c) PROVE TypeOK'
  <2>1. Answer(c) \in Message /\ replies' \in [Nodes -> Seq(Message)]
    BY <1>0, <1>10, AnsweredType DEF ReadAnswered
  <2>2. Answer(c).v \in Value
    BY <2>1 DEF Message, Value
  <2>3. CASE Found(c, Answer(c).v) /\ UNCHANGED pending
    <3>1. CallerType' /\ UNCHANGED requests
      BY <1>0, <2>3, ReturnType DEF Found
    <3>2. \/ SetLocal(Home[c], Answer(c).v)
          \/ DeleteLocal(Home[c])
          \/ UNCHANGED localVars
      BY <2>3 DEF Found
    <3>3. LocalType'
      BY <1>0, <1>c, <1>k, <2>2, <3>2, SetLocalType, DeleteLocalType
    <3> QED BY <1>10, <1>k, <1>g, <2>1, <2>3, <3>1, <3>3 DEF ReadAnswered, Answered
  <2>4. CASE NotFound(c)
    <3>1. LocalType' /\ UNCHANGED requests
      BY <1>0, <1>c, <1>k, <2>4, DeleteLocalType DEF NotFound
    <3>2. CallerType' /\ pending' \in [Nodes -> Seq(Callers)]
      BY <1>0, <1>c, <1>k, <2>4, LoadType, ReturnType DEF NotFound
    <3> QED BY <1>10, <1>k, <1>g, <2>1, <3>1, <3>2 DEF ReadAnswered, Answered
  <2> QED BY <1>10, <2>3, <2>4 DEF ReadAnswered
<1>11. ASSUME NEW c \in Callers, StoreAnswered(c) PROVE TypeOK'
  <2>1. Answer(c) \in Message /\ replies' \in [Nodes -> Seq(Message)]
    BY <1>0, <1>11, AnsweredType DEF StoreAnswered
  <2>2. Answer(c).v \in Value
    BY <2>1 DEF Message, Value
  <2>3. CallerType' /\ LocalType'
    BY <1>0, <1>11, <1>c, <1>k, <2>2, ReturnType, SetLocalType DEF StoreAnswered
  <2> QED BY <1>11, <1>k, <1>g, <2>1, <2>3 DEF StoreAnswered, Answered
<1>12. ASSUME NEW c \in Callers, DeleteAnswered(c) PROVE TypeOK'
  <2>1. replies' \in [Nodes -> Seq(Message)]
    BY <1>0, <1>12, AnsweredType DEF DeleteAnswered
  <2>2. CallerType'
    BY <1>0, <1>12, ReturnType DEF DeleteAnswered
  <2> QED BY <1>12, <1>k, <1>g, <2>1, <2>2 DEF DeleteAnswered, Answered
<1>13. ASSUME NEW n \in Nodes, Execute(n) PROVE TypeOK'
  <2>1. /\ Head(requests[n]) \in Message
        /\ requests' \in [Nodes -> Seq(Message)]
        /\ replies' \in [Nodes -> Seq(Message)]
    BY <1>0, <1>13, ServeType DEF Execute, RemoteType
  <2>2. RemoteType'
    BY <1>0, <1>13, <2>1, ApplyType DEF Execute
  <2> QED BY <1>13, <1>k, <1>g, <2>1, <2>2 DEF Execute
<1>14. ASSUME NEW n \in Nodes, Fail(n) PROVE TypeOK'
  <2>1. /\ Head(requests[n]) \in Message
        /\ requests' \in [Nodes -> Seq(Message)]
        /\ replies' \in [Nodes -> Seq(Message)]
    BY <1>0, <1>14, <1>c, ServeType DEF Fail
  <2>2. RemoteType'
    BY <1>0, <1>14, <1>k, <2>1, ApplyType DEF Fail
  <2>3. failures' \in 0..MaxFailures
    BY <1>0, <1>14, ConstantsAssumption DEF Fail
  <2> QED BY <1>14, <1>k, <1>g, <2>1, <2>2, <2>3 DEF Fail
<1>15. ASSUME NEW n \in Nodes, Evict(n) PROVE TypeOK'
  <2>1. LocalType'
    BY <1>0, <1>15, DeleteLocalType DEF Evict
  <2> QED BY <1>15, <1>k, <1>g, <2>1 DEF Evict
<1>16. CASE Tick
  <2>1. /\ requests' \in [Nodes -> Seq(Message)]
        /\ replies' \in [Nodes -> Seq(Message)]
    <3>1. \A n \in Nodes : Older(requests[n]) \in Seq(Message) /\ Older(replies[n]) \in Seq(Message)
      BY <1>0, <1>16, OlderType DEF Tick, NothingOverdue
    <3>2. /\ requests' = [n \in Nodes |-> Older(requests[n])]
          /\ replies' = [n \in Nodes |-> Older(replies[n])]
      BY <1>16 DEF Tick
    <3> HIDE DEF Older
    <3> QED BY <3>1, <3>2
  <2>2. CallerType'
    BY <1>0, <1>16 DEF Tick, CallerType
  <2>3. LocalType' /\ RemoteType'
    BY <1>0, <1>16, ConstantsAssumption DEF Tick, LocalType, RemoteType, Value, Less
  <2>4. SourceType'
    BY <1>0, <1>16 DEF Tick, SourceType
  <2> QED BY <1>16, <1>k, <1>g, <2>1, <2>2, <2>3, <2>4 DEF Tick
<1>17. CASE UNCHANGED vars
  BY <1>17, <1>k, <1>g DEF vars
<1> QED
  BY <1>1, <1>2, <1>3, <1>4, <1>5, <1>6, <1>7, <1>8, <1>9, <1>10, <1>11, <1>12, <1>13, <1>14,
     <1>15, <1>16, <1>17 DEF Next

\* Whatever the processes, methods, delays and failures, every variable keeps its type.
THEOREM TypeCorrect == Spec => []TypeOK
BY TypeInit, TypeStep, PTL DEF Spec

------------------------------------------------------------------------------
(* The PendingExecuter *)

\* Who is in the dictionary or waits for it.
Engaged == {"creating", "joined"}

\* A dictionary entry lists its creator, then those who joined it ...
EntryInv ==
  \A n \in Nodes : \A k \in DOMAIN pending[n] :
    /\ Home[pending[n][k]] = n
    /\ pc[pending[n][k]] = IF k = 1 THEN "creating" ELSE "joined"
    /\ UsesExecuter(method[pending[n][k]])

\* ... and whoever creates through the executer or has joined is listed.
ListedInv ==
  \A c \in Callers :
    /\ pc[c] = "creating" /\ UsesExecuter(method[c]) =>
         1 \in DOMAIN pending[Home[c]] /\ pending[Home[c]][1] = c
    /\ pc[c] = "joined" =>
         \E k \in DOMAIN pending[Home[c]] : k > 1 /\ pending[Home[c]][k] = c

ExecInv == EntryInv /\ ListedInv

\* A step that leaves the engaged callers alone and engages none.
LEMMA ExecFrame ==
  ASSUME TypeOK, ExecInv, pending' = pending,
         \A d \in Callers : pc[d] \in Engaged \/ pc'[d] \in Engaged =>
                              pc'[d] = pc[d] /\ method'[d] = method[d]
  PROVE  ExecInv'
<1>1. \A n \in Nodes : \A k \in DOMAIN pending[n] : pending[n][k] \in Callers
  BY LenProperties, ElementOfSeq DEF TypeOK
<1>2. EntryInv'
  BY <1>1 DEF ExecInv, EntryInv, Engaged, UsesExecuter
<1>3. ListedInv'
  BY DEF ExecInv, ListedInv, Engaged, UsesExecuter
<1> QED BY <1>2, <1>3 DEF ExecInv

LEMMA ExecGoto ==
  ASSUME TypeOK, ExecInv, NEW c \in Callers, pc[c] \notin Engaged,
         NEW s \in States \ Engaged, NEW m, NEW v, Goto(c, s, m, v), pending' = pending
  PROVE  ExecInv'
<1>1. /\ pc' = [pc EXCEPT ![c] = s]
      /\ method' = [method EXCEPT ![c] = m]
      /\ pc \in [Callers -> States] /\ method \in [Callers -> Methods]
  BY DEF Goto, TypeOK, States
<1>2. \A d \in Callers \ {c} : pc'[d] = pc[d] /\ method'[d] = method[d]
  BY <1>1
<1>3. pc'[c] = s
  BY <1>1
<1> QED BY <1>2, <1>3, ExecFrame

LEMMA ExecReturn ==
  ASSUME TypeOK, ExecInv, NEW c \in Callers, pc[c] \notin Engaged, Return(c), pending' = pending
  PROVE  ExecInv'
BY ExecGoto DEF Return, States, Engaged

LEMMA ExecStore ==
  ASSUME TypeOK, ExecInv, NEW c \in Callers, pc[c] \notin Engaged, NEW m, NEW v,
         Store(c, m, v), pending' = pending
  PROVE  ExecInv'
<1>1. Goto(c, "storing", m, Absent) \/ Return(c)
  BY DEF Store
<1>2. "storing" \in States \ Engaged
  BY DEF States, Engaged
<1> QED BY <1>1, <1>2, ExecGoto, ExecReturn

\* Somebody starts a creation or joins the one under way.
LEMMA ExecLoad ==
  ASSUME TypeOK, ExecInv, NEW c \in Callers, pc[c] \notin Engaged, NEW m \in Methods, Load(c, m)
  PROVE  ExecInv'
<1> DEFINE n == Home[c]
           s == IF UsesExecuter(m) /\ pending[n] # <<>> THEN "joined" ELSE "creating"
<1>1. /\ n \in Nodes
      /\ pending \in [Nodes -> Seq(Callers)]
      /\ pc \in [Callers -> States] /\ method \in [Callers -> Methods]
  BY ConstantsAssumption DEF TypeOK, States
<1>2. pc' = [pc EXCEPT ![c] = s] /\ method' = [method EXCEPT ![c] = m]
  BY DEF Load, Goto
<1>3. /\ pc'[c] = s /\ method'[c] = m
      /\ \A d \in Callers \ {c} : pc'[d] = pc[d] /\ method'[d] = method[d]
  BY <1>1, <1>2
<1>4. \A j \in Nodes : /\ Len(pending[j]) \in Nat
                       /\ DOMAIN pending[j] = 1..Len(pending[j])
                       /\ \A k \in DOMAIN pending[j] : pending[j][k] \in Callers \ {c}
  <2> SUFFICES ASSUME NEW j \in Nodes
               PROVE  /\ Len(pending[j]) \in Nat
                      /\ DOMAIN pending[j] = 1..Len(pending[j])
                      /\ \A k \in DOMAIN pending[j] : pending[j][k] \in Callers \ {c}
    OBVIOUS
  <2>1. pending[j] \in Seq(Callers)
    BY <1>1
  <2>2. /\ Len(pending[j]) \in Nat
        /\ DOMAIN pending[j] = 1..Len(pending[j])
        /\ \A k \in DOMAIN pending[j] : pending[j][k] \in Callers
    BY <2>1, LenProperties, ElementOfSeq
  <2>3. \A k \in DOMAIN pending[j] : pc[pending[j][k]] \in Engaged
    BY DEF ExecInv, EntryInv, Engaged
  <2> QED BY <2>2, <2>3
<1>5. CASE UsesExecuter(m)
  <2>1. pending' = [pending EXCEPT ![n] = Append(pending[n], c)]
    BY <1>1, <1>5 DEF Load
  <2>2. /\ DOMAIN Append(pending[n], c) = 1..(Len(pending[n]) + 1)
        /\ \A k \in 1..Len(pending[n]) : Append(pending[n], c)[k] = pending[n][k]
        /\ Append(pending[n], c)[Len(pending[n]) + 1] = c
    BY <1>1, AppendProperties, LenProperties
  <2>3. /\ pending'[n] = Append(pending[n], c)
        /\ \A j \in Nodes \ {n} : pending'[j] = pending[j]
    <3> HIDE DEF n
    <3> QED BY <1>1, <2>1
  <2>4. s = IF Len(pending[n]) = 0 THEN "creating" ELSE "joined"
    BY <1>1, <1>5, EmptySeq
  <2> HIDE DEF n, s
  <2>5. EntryInv'
    <3> SUFFICES ASSUME NEW j \in Nodes, NEW k \in DOMAIN pending'[j]
                 PROVE  /\ Home[pending'[j][k]] = j
                        /\ pc'[pending'[j][k]] = IF k = 1 THEN "creating" ELSE "joined"
                        /\ UsesExecuter(method'[pending'[j][k]])
      BY DEF EntryInv, UsesExecuter
    <3>1. CASE j = n /\ k = Len(pending[n]) + 1
      <4>1. pending'[j][k] = c
        BY <2>2, <2>3, <3>1
      <4>2. k = 1 <=> Len(pending[n]) = 0
        BY <1>1, <1>4, <3>1
      <4> QED BY <1>3, <1>5, <2>4, <3>1, <4>1, <4>2 DEF n
    <3>2. CASE ~(j = n /\ k = Len(pending[n]) + 1)
      <4>1. k \in DOMAIN pending[j] /\ pending'[j][k] = pending[j][k]
        <5>1. CASE j = n
          <6>1. k \in 1..(Len(pending[n]) + 1) /\ k # Len(pending[n]) + 1
            BY <2>2, <2>3, <3>2, <5>1
          <6>2. k \in 1..Len(pending[n])
            BY <1>1, <1>4, <6>1
          <6> QED BY <1>1, <1>4, <2>2, <2>3, <5>1, <6>2
        <5>2. CASE j # n
          BY <2>3, <5>2
        <5> QED BY <5>1, <5>2
      <4>2. pending[j][k] \in Callers \ {c}
        BY <1>4, <4>1
      <4> QED BY <1>3, <4>1, <4>2 DEF ExecInv, EntryInv
    <3> QED BY <3>1, <3>2
  <2>6. ListedInv'
    <3> SUFFICES ASSUME NEW d \in Callers
                 PROVE  /\ pc'[d] = "creating" /\ UsesExecuter(method'[d]) =>
                             1 \in DOMAIN pending'[Home[d]] /\ pending'[Home[d]][1] = d
                        /\ pc'[d] = "joined" =>
                             \E k \in DOMAIN pending'[Home[d]] : k > 1 /\ pending'[Home[d]][k] = d
      BY DEF ListedInv, UsesExecuter
    <3>1. CASE d = c
      <4>1. CASE Len(pending[n]) = 0
        <5>1. 1 \in DOMAIN pending'[n] /\ pending'[n][1] = c
          BY <2>2, <2>3, <4>1
        <5> QED BY <1>3, <2>4, <3>1, <4>1, <5>1 DEF n
      <4>2. CASE Len(pending[n]) # 0
        <5> DEFINE k == Len(pending[n]) + 1
        <5>1. k \in DOMAIN pending'[n] /\ k > 1 /\ pending'[n][k] = c
          BY <1>1, <1>4, <2>2, <2>3, <4>2
        <5> QED BY <1>3, <2>4, <3>1, <4>2, <5>1 DEF n
      <4> QED BY <4>1, <4>2
    <3>2. CASE d # c
      <4>1. pc'[d] = pc[d] /\ method'[d] = method[d]
        BY <1>3, <3>2
      <4>2. Home[d] \in Nodes
        BY ConstantsAssumption
      <4>3. \A k \in DOMAIN pending[Home[d]] :
              k \in DOMAIN pending'[Home[d]] /\ pending'[Home[d]][k] = pending[Home[d]][k]
        <5>1. CASE Home[d] = n
          <6>1. \A k \in 1..Len(pending[n]) : k \in 1..(Len(pending[n]) + 1)
            BY <1>1, <1>4
          <6> QED BY <1>1, <1>4, <2>2, <2>3, <5>1, <6>1
        <5>2. CASE Home[d] # n
          BY <2>3, <4>2, <5>2
        <5> QED BY <5>1, <5>2
      <4> QED BY <4>1, <4>3 DEF ExecInv, ListedInv
    <3> QED BY <3>1, <3>2
  <2> QED BY <2>5, <2>6 DEF ExecInv
<1>6. CASE ~UsesExecuter(m)
  <2>1. pending' = pending /\ s = "creating"
    BY <1>6 DEF Load
  <2>2. EntryInv'
    BY <1>3, <1>4, <2>1 DEF ExecInv, EntryInv, UsesExecuter
  <2>3. ListedInv'
    BY <1>3, <1>6, <2>1 DEF ExecInv, ListedInv, UsesExecuter
  <2> QED BY <2>2, <2>3 DEF ExecInv
<1> QED BY <1>5, <1>6

\* A creation settles: its entry goes, and so does everybody in it.
LEMMA ExecSettle ==
  ASSUME TypeOK, ExecInv, NEW c \in Callers, pc[c] = "creating", pending' = Settled(c),
         NEW s \in States \ Engaged,
         pc' = [d \in Callers |-> IF d \in Crew(c) THEN s ELSE pc[d]],
         \A d \in Callers \ Crew(c) : method'[d] = method[d]
  PROVE  ExecInv'
<1>1. /\ \A d \in Callers : Home[d] \in Nodes
      /\ pending \in [Nodes -> Seq(Callers)]
  BY ConstantsAssumption DEF TypeOK
<1>2. \A n \in Nodes : \A k \in DOMAIN pending[n] : pending[n][k] \in Callers
  BY <1>1, LenProperties, ElementOfSeq
<1>3. \A d \in Callers : pc'[d] = IF d \in Crew(c) THEN s ELSE pc[d]
  BY Zenon
<1>4. CASE UsesExecuter(method[c])
  <2>1. Crew(c) = {pending[Home[c]][k] : k \in DOMAIN pending[Home[c]]}
    BY <1>4 DEF Crew
  <2>2. /\ pending'[Home[c]] = <<>>
        /\ \A n \in Nodes \ {Home[c]} : pending'[n] = pending[n]
    BY <1>1, <1>4 DEF Settled
  <2>3. DOMAIN pending'[Home[c]] = {}
    BY <2>2
  <2>4. EntryInv'
    <3> SUFFICES ASSUME NEW n \in Nodes, NEW k \in DOMAIN pending'[n]
                 PROVE  /\ Home[pending'[n][k]] = n
                        /\ pc'[pending'[n][k]] = IF k = 1 THEN "creating" ELSE "joined"
                        /\ UsesExecuter(method'[pending'[n][k]])
      BY DEF EntryInv, UsesExecuter
    <3>1. n # Home[c] /\ pending'[n] = pending[n]
      BY <2>2, <2>3
    <3>2. pending[n][k] \in Callers /\ Home[pending[n][k]] = n
      BY <1>2, <3>1 DEF ExecInv, EntryInv
    <3>3. \A d \in Crew(c) : Home[d] = Home[c]
      BY <1>1, <2>1 DEF ExecInv, EntryInv
    <3>4. pending[n][k] \notin Crew(c)
      BY <3>1, <3>2, <3>3
    <3> QED BY <1>3, <3>1, <3>2, <3>4 DEF ExecInv, EntryInv
  <2>5. ListedInv'
    <3>1. ASSUME NEW d \in Callers, d \notin Crew(c), Home[d] # Home[c]
          PROVE  /\ pc'[d] = pc[d] /\ method'[d] = method[d]
                 /\ pending'[Home[d]] = pending[Home[d]]
      BY <1>1, <1>3, <2>2, <3>1
    <3>2. ASSUME NEW d \in Callers, NEW k \in DOMAIN pending[Home[d]], pending[Home[d]][k] = d,
                 d \notin Crew(c)
          PROVE  Home[d] # Home[c]
      BY <2>1, <3>2
    <3>3. ASSUME NEW d \in Callers, pc'[d] = "joined"
          PROVE  \E k \in DOMAIN pending'[Home[d]] : k > 1 /\ pending'[Home[d]][k] = d
      <4>1. d \notin Crew(c) /\ pc[d] = "joined"
        BY <1>3, <3>3 DEF Engaged
      <4>2. PICK k \in DOMAIN pending[Home[d]] : k > 1 /\ pending[Home[d]][k] = d
        BY <4>1 DEF ExecInv, ListedInv
      <4>3. pending'[Home[d]] = pending[Home[d]]
        BY <3>1, <3>2, <4>1, <4>2
      <4> QED BY <4>2, <4>3, Zenon
    <3>4. ASSUME NEW d \in Callers, pc'[d] = "creating", method'[d] \in ThroughReads \cup {"setOrUpdate"}
          PROVE  1 \in DOMAIN pending'[Home[d]] /\ pending'[Home[d]][1] = d
      <4>1. d \notin Crew(c) /\ pc[d] = "creating" /\ method[d] = method'[d]
        BY <1>3, <3>4 DEF Engaged
      <4>2. 1 \in DOMAIN pending[Home[d]] /\ pending[Home[d]][1] = d
        BY <3>4, <4>1 DEF ExecInv, ListedInv, UsesExecuter
      <4>3. pending'[Home[d]] = pending[Home[d]]
        BY <3>1, <3>2, <4>1, <4>2
      <4> QED BY <4>2, <4>3
    <3> QED BY <3>3, <3>4 DEF ListedInv, UsesExecuter
  <2> QED BY <2>4, <2>5 DEF ExecInv
<1>5. CASE ~UsesExecuter(method[c])
  <2>1. Crew(c) = {c} /\ pending' = pending
    BY <1>5 DEF Crew, Settled
  <2>2. \A n \in Nodes : \A k \in DOMAIN pending[n] : pending[n][k] # c
    BY <1>5 DEF ExecInv, EntryInv
  <2>3. EntryInv'
    BY <1>2, <1>3, <2>1, <2>2 DEF ExecInv, EntryInv, UsesExecuter
  <2>4. ListedInv'
    BY <1>3, <2>1 DEF ExecInv, ListedInv, UsesExecuter, Engaged
  <2> QED BY <2>3, <2>4 DEF ExecInv
<1> QED BY <1>4, <1>5

LEMMA ExecInit == Init => ExecInv
<1> SUFFICES ASSUME Init PROVE ExecInv
  OBVIOUS
<1>1. \A n \in Nodes : DOMAIN pending[n] = {}
  <2>1. \A n \in Nodes : pending[n] = <<>>
    BY DEF Init
  <2>2. DOMAIN <<>> = {}
    <3>1. Len(<<>>) = 0 /\ <<>> \in Seq(Callers)
      OBVIOUS
    <3>2. DOMAIN <<>> = 1..0
      BY <3>1
    <3> QED BY <3>2
  <2> QED BY <2>1, <2>2
<1>2. \A c \in Callers : pc[c] = "idle"
  BY DEF Init
<1> QED BY <1>1, <1>2 DEF ExecInv, EntryInv, ListedInv

LEMMA ExecStep == TypeOK /\ ExecInv /\ [Next]_vars => ExecInv'
<1> SUFFICES ASSUME TypeOK, ExecInv, [Next]_vars PROVE ExecInv'
  OBVIOUS
<1>k. UNCHANGED <<pc, method, pending>> => ExecInv'
  BY ExecFrame
<1>m. Calls \subseteq Methods /\ \A c \in Callers : method[c] \in Methods
  BY ConstantsAssumption DEF TypeOK
<1>1. ASSUME NEW c \in Callers, NEW m \in Calls, Ask(c, m) PROVE ExecInv'
  BY <1>1, ExecGoto DEF Ask, States, Engaged
<1>2. ASSUME NEW c \in Callers, NEW m \in Calls, Create(c, m) PROVE ExecInv'
  BY <1>2, <1>m, ExecLoad DEF Create, Engaged
<1>3. ASSUME NEW c \in Callers, NEW m \in Calls, Set(c, m) PROVE ExecInv'
  BY <1>3, ExecStore DEF Set, Engaged
<1>4. ASSUME NEW c \in Callers, NEW m \in Calls, Delete(c, m) PROVE ExecInv'
  BY <1>4, ExecGoto, ExecReturn DEF Delete, States, Engaged
<1>5. ASSUME NEW c \in Callers, Write(c) PROVE ExecInv'
  BY <1>5, ExecGoto DEF Write, States, Engaged
<1>6. ASSUME NEW c \in Callers, ReadSource(c) PROVE ExecInv'
  BY <1>6, <1>k DEF ReadSource
<1>7. ASSUME NEW c \in Callers, CreateReturns(c) PROVE ExecInv'
  <2>1. "loaded" \in States \ Engaged
    BY DEF States, Engaged
  <2> QED BY <1>7, <2>1, ExecSettle DEF CreateReturns
<1>8. ASSUME NEW c \in Callers, CreateFails(c) PROVE ExecInv'
  <2>1. "idle" \in States \ Engaged
    BY DEF States, Engaged
  <2>2. \A d \in Callers \ Crew(c) : method'[d] = method[d]
    BY <1>8, Zenon DEF CreateFails
  <2> QED BY <1>8, <2>1, <2>2, ExecSettle DEF CreateFails
<1>9. ASSUME NEW c \in Callers, Continue(c) PROVE ExecInv'
  BY <1>9, ExecStore DEF Continue, Engaged
<1>10. ASSUME NEW c \in Callers, ReadAnswered(c) PROVE ExecInv'
  <2>1. pc[c] \notin Engaged
    BY <1>10 DEF ReadAnswered, Engaged
  <2>2. (Return(c) /\ UNCHANGED pending) \/ Load(c, method[c])
    BY <1>10 DEF ReadAnswered, Found, NotFound
  <2> QED BY <1>m, <2>1, <2>2, ExecReturn, ExecLoad
<1>11. ASSUME NEW c \in Callers, StoreAnswered(c) PROVE ExecInv'
  BY <1>11, ExecReturn DEF StoreAnswered, Engaged
<1>12. ASSUME NEW c \in Callers, DeleteAnswered(c) PROVE ExecInv'
  BY <1>12, ExecReturn DEF DeleteAnswered, Engaged
<1>13. ASSUME NEW n \in Nodes, Execute(n) \/ Fail(n) \/ Evict(n) PROVE ExecInv'
  BY <1>13, <1>k DEF Execute, Fail, Evict, callerVars
<1>14. CASE Tick
  BY <1>14, <1>k DEF Tick
<1>15. CASE UNCHANGED vars
  BY <1>15, <1>k DEF vars, callerVars
<1> QED
  BY <1>1, <1>2, <1>3, <1>4, <1>5, <1>6, <1>7, <1>8, <1>9, <1>10, <1>11, <1>12, <1>13, <1>14,
     <1>15 DEF Next

LEMMA ExecAlways == Spec => [](TypeOK /\ ExecInv)
BY TypeInit, TypeStep, ExecInit, ExecStep, PTL DEF Spec

\* PendingExecuter runs one createValueFunc() per process at a time, for any number of
\* callers and any mix of the methods that go through it.
THEOREM OneCreationAtATime == Spec => []SingleFlight
<1>1. ExecInv => SingleFlight
  BY DEF ExecInv, ListedInv, SingleFlight
<1> QED BY <1>1, ExecAlways, PTL

\* No dictionary entry outlives its promise, and nobody awaits one that has settled.
THEOREM NoDeadEntries == Spec => []EntriesAreAlive
<1>1. TypeOK /\ ExecInv => EntriesAreAlive
  <2> SUFFICES ASSUME TypeOK, ExecInv PROVE EntriesAreAlive
    OBVIOUS
  <2>1. ASSUME NEW n \in Nodes, pending[n] # <<>>
        PROVE  pc[Head(pending[n])] = "creating" /\ Home[Head(pending[n])] = n
    <3>1. pending[n] \in Seq(Callers)
      BY DEF TypeOK
    <3>2. 1 \in DOMAIN pending[n] /\ Head(pending[n]) = pending[n][1]
      BY <2>1, <3>1, EmptySeq, LenProperties
    <3> QED BY <3>2 DEF ExecInv, EntryInv
  <2> QED BY <2>1 DEF ExecInv, ListedInv, EntriesAreAlive
<1> QED BY <1>1, ExecAlways, PTL

------------------------------------------------------------------------------
(* Sharing calls: SharedCalls is implemented *)

Phase   == [d \in Callers |-> Standing(d)]
Outcome == [d \in Callers |-> Given(d)]

\* A step of which the executer sees what happens to one caller at most.
LEMMA ShareOne ==
  ASSUME NEW c \in Callers, \A d \in Callers \ {c} : Standing(d)' = Standing(d) /\ Given(d)' = Given(d)
  PROVE  /\ Phase' = [Phase EXCEPT ![c] = Standing(c)']
         /\ Outcome' = [Outcome EXCEPT ![c] = Given(c)']
BY DEF Phase, Outcome

\* A step of which it sees nothing.
LEMMA ShareQuiet ==
  ASSUME \A d \in Callers : Standing(d)' = Standing(d) /\ Given(d)' = Given(d)
  PROVE  UNCHANGED <<Phase, Outcome>>
BY DEF Phase, Outcome

\* What Goto does as the executer sees it.
LEMMA ShareGoto ==
  ASSUME TypeOK, NEW c \in Callers, NEW s \in States, NEW m \in Methods, NEW v, Goto(c, s, m, v)
  PROVE  /\ \A d \in Callers \ {c} : Standing(d)' = Standing(d) /\ Given(d)' = Given(d)
         /\ Standing(c)' = IF ~UsesExecuter(m) THEN "out"
                           ELSE CASE s = "creating" -> "running"
                                  [] s = "joined" -> "joined"
                                  [] s = "loaded" -> "settled"
                                  [] OTHER -> "out"
         /\ s # "loaded" => Given(c)' = Absent
<1>1. /\ pc' = [pc EXCEPT ![c] = s] /\ method' = [method EXCEPT ![c] = m]
      /\ data' = [data EXCEPT ![c] = v]
      /\ pc \in [Callers -> States] /\ method \in [Callers -> Methods]
      /\ data \in [Callers -> Value]
  BY DEF Goto, TypeOK, States, Value
<1>2. /\ \A d \in Callers \ {c} : pc'[d] = pc[d] /\ method'[d] = method[d] /\ data'[d] = data[d]
      /\ pc'[c] = s /\ method'[c] = m
  BY <1>1
<1>3. \A d \in Callers \ {c} : Standing(d)' = Standing(d) /\ Given(d)' = Given(d)
  BY <1>2 DEF Standing, Given, UsesExecuter
<1>4. Standing(c)' = IF ~UsesExecuter(m) THEN "out"
                     ELSE CASE s = "creating" -> "running"
                            [] s = "joined" -> "joined"
                            [] s = "loaded" -> "settled"
                            [] OTHER -> "out"
  BY <1>2 DEF Standing, UsesExecuter
<1>5. s # "loaded" => Standing(c)' # "settled"
  BY <1>4 DEF States
<1> QED BY <1>3, <1>4, <1>5 DEF Given

\* A caller moves outside the executer.
LEMMA ShareOutside ==
  ASSUME TypeOK, NEW c \in Callers, Standing(c) = "out",
         NEW s \in States \ (Engaged \cup {"loaded"}), NEW m \in Methods, NEW v, Goto(c, s, m, v)
  PROVE  UNCHANGED <<Phase, Outcome>>
<1>1. /\ \A d \in Callers \ {c} : Standing(d)' = Standing(d) /\ Given(d)' = Given(d)
      /\ Standing(c)' = "out" /\ Given(c)' = Absent
  BY ShareGoto DEF Engaged
<1>2. Given(c) = Absent
  BY DEF Given
<1> QED BY <1>1, <1>2, ShareQuiet

LEMMA ShareReturn ==
  ASSUME TypeOK, NEW c \in Callers, Standing(c) = "out", Return(c)
  PROVE  UNCHANGED <<Phase, Outcome>>
<1>1. "idle" \in States \ (Engaged \cup {"loaded"}) /\ "get" \in Methods
  BY DEF States, Engaged, Methods, PlainReads
<1> QED BY <1>1, ShareOutside DEF Return

LEMMA ShareStore ==
  ASSUME TypeOK, NEW c \in Callers, Standing(c) = "out", NEW m \in Methods, NEW v, Store(c, m, v)
  PROVE  UNCHANGED <<Phase, Outcome>>
<1>1. Goto(c, "storing", m, Absent) \/ Return(c)
  BY DEF Store
<1>2. "storing" \in States \ (Engaged \cup {"loaded"})
  BY DEF States, Engaged
<1> QED BY <1>1, <1>2, ShareOutside, ShareReturn

\* The list in the dictionary is the abstract Running and Joined.
LEMMA ShareCrew ==
  ASSUME TypeOK, ExecInv, NEW c \in Callers
  PROVE  {pending[Home[c]][k] : k \in DOMAIN pending[Home[c]]} =
           Executer!Running(c) \cup Executer!Joined(c)
<1> DEFINE q == pending[Home[c]]
<1>1. Home[c] \in Nodes /\ \A k \in DOMAIN q : q[k] \in Callers
  BY ConstantsAssumption, LenProperties, ElementOfSeq DEF TypeOK
<1>2. ASSUME NEW k \in DOMAIN q
      PROVE  q[k] \in Executer!Running(c) \cup Executer!Joined(c)
  <2>1. /\ q[k] \in Callers /\ Home[q[k]] = Home[c] /\ UsesExecuter(method[q[k]])
        /\ pc[q[k]] \in {"creating", "joined"}
    BY <1>1, <1>2 DEF ExecInv, EntryInv
  <2>2. Standing(q[k]) \in {"running", "joined"}
    BY <2>1 DEF Standing
  <2> HIDE DEF q
  <2> QED BY <2>1, <2>2 DEF Executer!Running, Executer!Joined
<1>3. ASSUME NEW d \in Executer!Running(c) \cup Executer!Joined(c)
      PROVE  \E k \in DOMAIN q : q[k] = d
  <2>1. d \in Callers /\ Home[d] = Home[c] /\ Standing(d) \in {"running", "joined"}
    BY <1>3 DEF Executer!Running, Executer!Joined
  <2>2. pc[d] = "joined" \/ (pc[d] = "creating" /\ UsesExecuter(method[d]))
    BY <2>1 DEF Standing
  <2> QED BY <2>1, <2>2 DEF ExecInv, ListedInv
<1> HIDE DEF q
<1>4. {q[k] : k \in DOMAIN q} = Executer!Running(c) \cup Executer!Joined(c)
  BY <1>2, <1>3
<1> QED BY <1>4 DEF q

\* Somebody runs under the key whenever there is an entry for it.
LEMMA ShareRunning ==
  ASSUME TypeOK, ExecInv, NEW c \in Callers
  PROVE  Executer!Running(c) = {} <=> pending[Home[c]] = <<>>
<1>1. Home[c] \in Nodes /\ pending[Home[c]] \in Seq(Callers)
  BY ConstantsAssumption DEF TypeOK
<1>2. ASSUME pending[Home[c]] # <<>> PROVE Executer!Running(c) # {}
  <2>1. 1 \in DOMAIN pending[Home[c]]
    BY <1>1, <1>2, EmptySeq, LenProperties
  <2>2. PICK d : d = pending[Home[c]][1]
    OBVIOUS
  <2>3. d \in Callers /\ Home[d] = Home[c] /\ pc[d] = "creating" /\ UsesExecuter(method[d])
    BY <1>1, <2>1, <2>2, LenProperties, ElementOfSeq DEF ExecInv, EntryInv
  <2>4. Standing(d) = "running"
    BY <2>3 DEF Standing
  <2> QED BY <2>3, <2>4 DEF Executer!Running
<1>3. ASSUME Executer!Running(c) # {} PROVE pending[Home[c]] # <<>>
  <2>1. PICK d \in Callers : Home[d] = Home[c] /\ Standing(d) = "running"
    BY <1>3 DEF Executer!Running
  <2>2. pc[d] = "creating" /\ UsesExecuter(method[d])
    BY <2>1 DEF Standing
  <2>3. 1 \in DOMAIN pending[Home[c]]
    BY <2>1, <2>2 DEF ExecInv, ListedInv
  <2> QED BY <1>1, <2>3, LenProperties, EmptySeq
<1> QED BY <1>2, <1>3

SharedStep == Executer!Next \/ UNCHANGED <<Phase, Outcome>>

\* A caller that needs the value starts or joins.
LEMMA ShareLoad ==
  ASSUME TypeOK, ExecInv, NEW c \in Callers, Standing(c) = "out", NEW m \in Methods, Load(c, m)
  PROVE  SharedStep
<1> DEFINE s == IF UsesExecuter(m) /\ pending[Home[c]] # <<>> THEN "joined" ELSE "creating"
<1>1. Goto(c, s, m, Absent) /\ s \in States \ {"loaded"}
  BY DEF Load, States
<1>2. Given(c) = Absent
  BY DEF Given
<1>3. /\ \A d \in Callers \ {c} : Standing(d)' = Standing(d) /\ Given(d)' = Given(d)
      /\ Standing(c)' = IF ~UsesExecuter(m) THEN "out"
                        ELSE IF s = "creating" THEN "running" ELSE "joined"
      /\ Given(c)' = Given(c)
  BY <1>1, <1>2, ShareGoto
<1>4. CASE ~UsesExecuter(m)
  BY <1>3, <1>4, ShareQuiet DEF SharedStep
<1>5. CASE UsesExecuter(m)
  <2>1. Phase' = [Phase EXCEPT ![c] = Standing(c)'] /\ Outcome' = Outcome /\ Phase[c] = "out"
    BY <1>3, ShareOne DEF Phase, Outcome
  <2>2. Standing(c)' = IF pending[Home[c]] = <<>> THEN "running" ELSE "joined"
    BY <1>3, <1>5
  <2>3. CASE pending[Home[c]] = <<>>
    <3>1. Executer!Running(c) = {}
      BY <2>3, ShareRunning
    <3>2. Executer!Start(c)
      BY <2>1, <2>2, <2>3, <3>1 DEF Executer!Start, Phase, Outcome
    <3> QED BY <3>2 DEF SharedStep, Executer!Next
  <2>4. CASE pending[Home[c]] # <<>>
    <3>1. Executer!Running(c) # {}
      BY <2>4, ShareRunning
    <3>2. Executer!Join(c)
      BY <2>1, <2>2, <2>4, <3>1 DEF Executer!Join, Phase, Outcome
    <3> QED BY <3>2 DEF SharedStep, Executer!Next
  <2> QED BY <2>3, <2>4
<1> QED BY <1>4, <1>5

\* Whoever has got an outcome uses it once.
LEMMA ShareUse ==
  ASSUME TypeOK, NEW c \in Callers, Continue(c)
  PROVE  SharedStep
<1>1. pc[c] = "loaded" /\ method[c] \in Methods /\ Store(c, method[c], data[c])
  BY DEF Continue, TypeOK
<1>2. CASE ~UsesExecuter(method[c])
  BY <1>1, <1>2, ShareStore DEF Standing, SharedStep
<1>3. CASE UsesExecuter(method[c])
  <2>1. Goto(c, "storing", method[c], Absent) \/ Goto(c, "idle", "get", Absent)
    BY <1>1 DEF Store, Return
  <2>2. "storing" \in States /\ "idle" \in States /\ "get" \in Methods
    BY DEF States, Methods, PlainReads
  <2>3. /\ \A d \in Callers \ {c} : Standing(d)' = Standing(d) /\ Given(d)' = Given(d)
        /\ Standing(c)' = "out" /\ Given(c)' = Absent
    BY <1>1, <2>1, <2>2, ShareGoto
  <2>4. Phase' = [Phase EXCEPT ![c] = "out"] /\ Outcome' = [Outcome EXCEPT ![c] = Absent]
    BY <2>3, ShareOne
  <2>5. Phase[c] = "settled"
    BY <1>1, <1>3 DEF Phase, Standing
  <2>6. Executer!Use(c)
    BY <2>4, <2>5 DEF Executer!Use, Phase, Outcome
  <2> QED BY <2>6 DEF SharedStep, Executer!Next
<1> QED BY <1>2, <1>3

\* A createValueFunc() returns: for the whole crew, with what it read.
LEMMA ShareSettle ==
  ASSUME TypeOK, ExecInv, NEW c \in Callers, CreateReturns(c)
  PROVE  SharedStep
<1>1. /\ pc[c] = "creating" /\ data[c] \in Versions /\ method' = method
      /\ \A d \in Callers : /\ pc'[d] = IF d \in Crew(c) THEN "loaded" ELSE pc[d]
                            /\ data'[d] = IF d \in Crew(c) THEN data[c] ELSE data[d]
  BY DEF CreateReturns, TypeOK
<1>2. CASE ~UsesExecuter(method[c])
  <2>1. Crew(c) = {c}
    BY <1>2 DEF Crew
  <2>2. \A d \in Callers : Standing(d)' = Standing(d) /\ Given(d)' = Given(d)
    BY <1>1, <1>2, <2>1 DEF Standing, Given, UsesExecuter
  <2> QED BY <2>2, ShareQuiet DEF SharedStep
<1>3. CASE UsesExecuter(method[c])
  <2>1. Crew(c) = Executer!Running(c) \cup Executer!Joined(c)
    BY <1>3, ShareCrew DEF Crew
  <2>2. \A d \in Crew(c) : UsesExecuter(method[d])
    BY <2>1 DEF Executer!Running, Executer!Joined, Standing
  <2>3. \A d \in Callers :
          /\ Standing(d)' = IF d \in Crew(c) THEN "settled" ELSE Standing(d)
          /\ Given(d)' = IF d \in Crew(c) THEN data[c] ELSE Given(d)
    BY <1>1, <2>2 DEF Standing, Given, UsesExecuter
  <2>4. Standing(c) = "running"
    BY <1>1, <1>3 DEF Standing
  <2>5. Executer!Settle(c, data[c])
    BY <2>1, <2>3, <2>4 DEF Executer!Settle
  <2> QED BY <1>1, <2>5 DEF SharedStep, Executer!Next
<1> QED BY <1>2, <1>3

\* It rejects: the whole crew throws.
LEMMA ShareFail ==
  ASSUME TypeOK, ExecInv, NEW c \in Callers, CreateFails(c)
  PROVE  SharedStep
<1>1. /\ pc[c] = "creating"
      /\ \A d \in Callers : /\ pc'[d] = IF d \in Crew(c) THEN "idle" ELSE pc[d]
                            /\ method'[d] = IF d \in Crew(c) THEN "get" ELSE method[d]
                            /\ data'[d] = IF d \in Crew(c) THEN Absent ELSE data[d]
  BY DEF CreateFails
<1>2. \A d \in Callers : /\ Standing(d)' = IF d \in Crew(c) THEN "out" ELSE Standing(d)
                         /\ d \notin Crew(c) => Given(d)' = Given(d)
                         /\ d \in Crew(c) => Given(d)' = Absent
  BY <1>1 DEF Standing, Given, UsesExecuter
<1>3. CASE ~UsesExecuter(method[c])
  <2>1. Crew(c) = {c} /\ Standing(c) = "out" /\ Given(c) = Absent
    BY <1>1, <1>3 DEF Crew, Standing, Given
  <2> QED BY <1>2, <2>1, ShareQuiet DEF SharedStep
<1>4. CASE UsesExecuter(method[c])
  <2>1. Crew(c) = Executer!Running(c) \cup Executer!Joined(c)
    BY <1>4, ShareCrew DEF Crew
  <2>2. \A d \in Callers : d \in Crew(c) => Given(d) = Absent
    BY <2>1 DEF Executer!Running, Executer!Joined, Given
  <2>3. Standing(c) = "running"
    BY <1>1, <1>4 DEF Standing
  <2>4. Outcome' = Outcome
    BY <1>2, <2>2 DEF Outcome
  <2>5. Executer!Reject(c)
    BY <1>2, <2>1, <2>3, <2>4 DEF Executer!Reject, Outcome
  <2> QED BY <2>5 DEF SharedStep, Executer!Next
<1> QED BY <1>3, <1>4

LEMMA ShareStep == TypeOK /\ ExecInv /\ [Next]_vars => SharedStep
<1> SUFFICES ASSUME TypeOK, ExecInv, [Next]_vars PROVE SharedStep
  OBVIOUS
<1>k. ASSUME UNCHANGED <<pc, method>>,
             \A d \in Callers : pc[d] = "loaded" => data'[d] = data[d]
      PROVE  SharedStep
  <2>1. \A d \in Callers : Standing(d)' = Standing(d) /\ (Standing(d) = "settled" => pc[d] = "loaded")
    BY <1>k DEF Standing, UsesExecuter
  <2>2. \A d \in Callers : Given(d)' = Given(d)
    BY <1>k, <2>1 DEF Given
  <2> QED BY <2>1, <2>2, ShareQuiet DEF SharedStep
<1>m. Calls \subseteq Methods /\ \A c \in Callers : method[c] \in Methods
  BY ConstantsAssumption DEF TypeOK
<1>o. \A c \in Callers : pc[c] \in {"idle", "wrote", "reading", "storing", "deleting"} => Standing(c) = "out"
  BY DEF Standing
<1>1. ASSUME NEW c \in Callers, NEW m \in Calls, Ask(c, m) PROVE SharedStep
  BY <1>1, <1>m, <1>o, ShareOutside DEF Ask, States, Engaged, SharedStep
<1>2. ASSUME NEW c \in Callers, NEW m \in Calls, Create(c, m) PROVE SharedStep
  BY <1>2, <1>m, <1>o, ShareLoad DEF Create
<1>3. ASSUME NEW c \in Callers, NEW m \in Calls, Set(c, m) PROVE SharedStep
  BY <1>3, <1>m, <1>o, ShareStore DEF Set, SharedStep
<1>4. ASSUME NEW c \in Callers, NEW m \in Calls, Delete(c, m) PROVE SharedStep
  BY <1>4, <1>m, <1>o, ShareOutside, ShareReturn DEF Delete, States, Engaged, SharedStep
<1>5. ASSUME NEW c \in Callers, Write(c) PROVE SharedStep
  <2>1. "wrote" \in States \ (Engaged \cup {"loaded"}) /\ "get" \in Methods
    BY DEF States, Engaged, Methods, PlainReads
  <2> QED BY <1>5, <1>o, <2>1, ShareOutside DEF Write, SharedStep
<1>6. ASSUME NEW c \in Callers, ReadSource(c) PROVE SharedStep
  <2>1. pc[c] = "creating" /\ UNCHANGED <<pc, method>> /\ data' = [data EXCEPT ![c] = db]
    BY <1>6 DEF ReadSource
  <2>2. \A d \in Callers : pc[d] = "loaded" => data'[d] = data[d]
    BY <2>1
  <2> QED BY <2>1, <2>2, <1>k
<1>7. ASSUME NEW c \in Callers, CreateReturns(c) PROVE SharedStep
  BY <1>7, ShareSettle
<1>8. ASSUME NEW c \in Callers, CreateFails(c) PROVE SharedStep
  BY <1>8, ShareFail
<1>9. ASSUME NEW c \in Callers, Continue(c) PROVE SharedStep
  BY <1>9, ShareUse
<1>10. ASSUME NEW c \in Callers, ReadAnswered(c) PROVE SharedStep
  <2>1. Standing(c) = "out"
    BY <1>10, <1>o DEF ReadAnswered
  <2>2. Return(c) \/ Load(c, method[c])
    BY <1>10 DEF ReadAnswered, Found, NotFound
  <2> QED BY <1>m, <2>1, <2>2, ShareReturn, ShareLoad DEF SharedStep
<1>11. ASSUME NEW c \in Callers, StoreAnswered(c) \/ DeleteAnswered(c) PROVE SharedStep
  <2>1. Standing(c) = "out" /\ Return(c)
    BY <1>11, <1>o DEF StoreAnswered, DeleteAnswered
  <2> QED BY <2>1, ShareReturn DEF SharedStep
<1>12. ASSUME NEW n \in Nodes, Execute(n) \/ Fail(n) \/ Evict(n) PROVE SharedStep
  BY <1>12, <1>k DEF Execute, Fail, Evict, callerVars
<1>13. CASE Tick
  BY <1>13, <1>k DEF Tick
<1>14. CASE UNCHANGED vars
  BY <1>14, <1>k DEF vars, callerVars
<1> QED
  BY <1>1, <1>2, <1>3, <1>4, <1>5, <1>6, <1>7, <1>8, <1>9, <1>10, <1>11, <1>12, <1>13, <1>14 DEF Next

\* CacheService implements SharedCalls, for any callers, processes and mix of methods: every
\* createValueFunc() of the executer settles for exactly those who asked while it ran, in one
\* step and with one value, and what it returned reaches nobody who came later.
THEOREM CallsAreShared == Spec => ImplementsSharedCalls
<1>1. Init => Executer!Init
  BY DEF Init, Executer!Init, Standing, Given
<1>2. TypeOK /\ ExecInv /\ [Next]_vars => [Executer!Next]_(Executer!callVars)
  BY ShareStep DEF SharedStep, Executer!callVars, Phase, Outcome
<1> QED BY <1>1, <1>2, ExecAlways, PTL DEF Spec, ImplementsSharedCalls, Executer!Spec

------------------------------------------------------------------------------
(* What the caches hold, and how old it is *)

\* The messages of a queue.
Messages(q) == {q[k] : k \in DOMAIN q}

\* How long ago at most a version was overwritten when Redis answers with it.
AnswerBound == MaxCreate + MaxDelay + Less(Ttl)

\* What is current, or still to be written, has not been overwritten.
SourceInv == \A v \in Versions : v >= db => age[v] = 0

\* A caller's version was overwritten after it began to create or wrote it, and it
\* takes no longer than MaxCreate over that.
CallersInv ==
  \A c \in Callers :
    /\ pc[c] \in {"creating", "wrote"} => waited[c] <= MaxCreate
    /\ data[c] \in Versions =>
         /\ pc[c] \in {"creating", "wrote", "loaded"}
         /\ age[data[c]] <= IF pc[c] = "loaded" THEN MaxCreate ELSE waited[c]

\* What is sent to Redis to be stored may be stored, and was fresh when it was sent.
SendsInv ==
  \A n \in Nodes : \A m \in Messages(requests[n]) :
    /\ m.op = "SET" => Ttl > 0 /\ Storable(m.v)
    /\ m.v \in Versions => age[m.v] <= MaxCreate + m.age

AnswersInv ==
  \A n \in Nodes : \A m \in Messages(replies[n]) :
    m.v \in Versions => age[m.v] <= AnswerBound + m.age

RemoteInv ==
  /\ Storable(remote)
  /\ remote \in Versions => remoteTtl \in 1..Ttl /\ age[remote] + remoteTtl <= RemoteBound

LocalInv ==
  \A n \in Nodes :
    /\ Storable(local[n])
    /\ local[n] \in Versions => age[local[n]] + localTtl[n] <= LocalBound

ContentInv == SourceInv /\ CallersInv /\ SendsInv /\ AnswersInv /\ RemoteInv /\ LocalInv

LEMMA BoundTypes ==
  /\ Ttl \in Nat /\ InMemoryTtl \in Nat /\ MaxDelay \in Nat /\ MaxCreate \in Nat
  /\ Less(Ttl) \in Nat /\ AnswerBound \in Nat /\ RemoteBound \in Nat /\ LocalBound \in Nat
  /\ MaxCreate <= AnswerBound
BY ConstantsAssumption DEF Less, AnswerBound, RemoteBound, LocalBound

LEMMA AgeType ==
  ASSUME TypeOK
  PROVE  \A v \in Versions : age[v] \in Nat
BY DEF TypeOK

LEMMA NothingIsStorable == Storable(Absent) /\ Absent \notin Versions
<1>1. Absent \notin Versions
  BY ConstantsAssumption DEF Versions
<1>2. Absent \notin Undefineds /\ Absent \notin Nulls
  BY <1>1, ConstantsAssumption
<1> QED BY <1>1, <1>2, Zenon DEF Storable

(* The messages of a queue that grows, shrinks and ages. *)

LEMMA MessagesOfAppend ==
  ASSUME NEW q \in Seq(Message), NEW m \in Message
  PROVE  Messages(Append(q, m)) \subseteq Messages(q) \cup {m}
<1>1. /\ Len(q) \in Nat
      /\ DOMAIN q = 1..Len(q)
      /\ DOMAIN Append(q, m) = 1..(Len(q) + 1)
      /\ \A k \in 1..Len(q) : Append(q, m)[k] = q[k]
      /\ Append(q, m)[Len(q) + 1] = m
  BY LenProperties, AppendProperties
<1>2. ASSUME NEW k \in DOMAIN Append(q, m) PROVE Append(q, m)[k] \in Messages(q) \cup {m}
  <2>1. k \in 1..Len(q) \/ k = Len(q) + 1
    BY <1>1, <1>2
  <2> QED BY <1>1, <2>1 DEF Messages
<1> QED BY <1>2 DEF Messages

LEMMA MessagesOfTail ==
  ASSUME NEW q \in Seq(Message), q # <<>>
  PROVE  Head(q) \in Messages(q) /\ Messages(Tail(q)) \subseteq Messages(q)
<1>1. /\ Len(q) \in Nat /\ Len(q) > 0
      /\ DOMAIN q = 1..Len(q)
      /\ Head(q) = q[1]
      /\ Tail(q) \in Seq(Message) /\ Len(Tail(q)) = Len(q) - 1
      /\ \A k \in 1..Len(Tail(q)) : Tail(q)[k] = q[k + 1]
  BY LenProperties, EmptySeq, HeadTailProperties
<1>2. DOMAIN Tail(q) = 1..(Len(q) - 1)
  BY <1>1, LenProperties
<1>3. ASSUME NEW k \in DOMAIN Tail(q) PROVE Tail(q)[k] \in Messages(q)
  <2>1. k + 1 \in DOMAIN q /\ Tail(q)[k] = q[k + 1]
    BY <1>1, <1>2, <1>3
  <2> QED BY <2>1 DEF Messages
<1>4. 1 \in DOMAIN q
  BY <1>1
<1> QED BY <1>1, <1>3, <1>4 DEF Messages

LEMMA MessagesAreTyped ==
  ASSUME NEW q \in Seq(Message)
  PROVE  Messages(q) \subseteq Message
BY LenProperties, ElementOfSeq DEF Messages

LEMMA MessagesOfOlder ==
  ASSUME NEW q \in Seq(Message), NEW m \in Messages(Older(q))
  PROVE  \E old \in Messages(q) :
           old.age \in Nat /\ m.op = old.op /\ m.v = old.v /\ m.age = old.age + 1
<1>1. DOMAIN Older(q) = DOMAIN q /\ \A k \in DOMAIN q : Older(q)[k] = [q[k] EXCEPT !.age = @ + 1]
  BY Zenon DEF Older
<1>2. PICK k \in DOMAIN Older(q) : m = Older(q)[k]
  BY Zenon DEF Messages
<1>3. q[k] \in Messages(q) /\ q[k] \in Message
  <2>1. q[k] \in Messages(q)
    BY <1>1, <1>2, Zenon DEF Messages
  <2> QED BY <2>1, MessagesAreTyped
<1>4. m = [q[k] EXCEPT !.age = @ + 1]
  BY <1>1, <1>2, Zenon
<1>5. q[k].age \in Nat /\ m.op = q[k].op /\ m.v = q[k].v /\ m.age = q[k].age + 1
  BY <1>3, <1>4, BoundTypes DEF Message
<1> QED BY <1>3, <1>5

(* The steps that are not Tick leave age as it is. *)

LEMMA CallersGoto ==
  ASSUME TypeOK, CallersInv, age' = age, NEW c \in Callers, NEW s, NEW m, NEW v, Goto(c, s, m, v),
         v \in Versions => s = "wrote" /\ age[v] = 0
  PROVE  CallersInv'
<1>1. /\ pc' = [pc EXCEPT ![c] = s] /\ data' = [data EXCEPT ![c] = v]
      /\ waited' = [waited EXCEPT ![c] = 0]
      /\ c \in DOMAIN pc /\ c \in DOMAIN data /\ c \in DOMAIN waited
  BY DEF Goto, TypeOK
<1>2. pc'[c] = s /\ data'[c] = v /\ waited'[c] = 0
  BY <1>1
<1>3. \A d \in Callers \ {c} : pc'[d] = pc[d] /\ data'[d] = data[d] /\ waited'[d] = waited[d]
  BY <1>1 DEF TypeOK
<1> QED BY <1>2, <1>3, BoundTypes DEF CallersInv

LEMMA CallersReturn ==
  ASSUME TypeOK, CallersInv, age' = age, NEW c \in Callers, Return(c)
  PROVE  CallersInv'
BY CallersGoto, NothingIsStorable DEF Return

LEMMA SendsAppend ==
  ASSUME TypeOK, SendsInv, age' = age, NEW c \in Callers, NEW op \in {"GET", "SET", "DEL"}, NEW v \in Value,
         Send(c, op, v),
         op = "SET" => Ttl > 0 /\ Storable(v),
         v \in Versions => age[v] <= MaxCreate
  PROVE  SendsInv'
<1> DEFINE m == [by |-> c, op |-> op, v |-> v, age |-> 0]
           n == Home[c]
<1>1. n \in Nodes /\ m \in Message /\ m.op = op /\ m.v = v /\ m.age = 0
  BY ConstantsAssumption DEF Message, Value
<1>2. requests' = [requests EXCEPT ![n] = Append(requests[n], m)]
  BY DEF Send
<1>3. m.v \in Versions => age[m.v] <= MaxCreate + m.age
  BY <1>1, BoundTypes
<1>4. m.op = "SET" => Ttl > 0 /\ Storable(m.v)
  BY <1>1
<1> HIDE DEF m, n
<1>5. requests'[n] = Append(requests[n], m) /\ \A p \in Nodes \ {n} : requests'[p] = requests[p]
  BY <1>1, <1>2 DEF TypeOK
<1>6. Messages(requests'[n]) \subseteq Messages(requests[n]) \cup {m}
  BY <1>1, <1>5, MessagesOfAppend DEF TypeOK
<1> QED BY <1>3, <1>4, <1>5, <1>6 DEF SendsInv

LEMMA LocalSet ==
  ASSUME TypeOK, LocalInv, age' = age, NEW n \in Nodes, NEW v \in Value, SetLocal(n, v),
         v \in Versions => age[v] <= AnswerBound + MaxDelay
  PROVE  LocalInv'
<1>1. CASE Storable(v) /\ InMemoryTtl > 0
  <2>1. /\ local' = [local EXCEPT ![n] = v]
        /\ localTtl' = [localTtl EXCEPT ![n] = InMemoryTtl]
    BY <1>1 DEF SetLocal
  <2>2. v \in Versions => age[v] + InMemoryTtl <= LocalBound
    <3>1. LocalBound = AnswerBound + MaxDelay + InMemoryTtl
      BY BoundTypes DEF LocalBound, AnswerBound
    <3> QED BY <3>1, BoundTypes, AgeType
  <2>3. /\ local'[n] = v /\ localTtl'[n] = InMemoryTtl
        /\ \A p \in Nodes \ {n} : local'[p] = local[p] /\ localTtl'[p] = localTtl[p]
    BY <2>1 DEF TypeOK
  <2> QED BY <1>1, <2>2, <2>3 DEF LocalInv, Storable
<1>2. CASE ~(Storable(v) /\ InMemoryTtl > 0)
  BY <1>2 DEF SetLocal, localVars, LocalInv, Storable
<1> QED BY <1>1, <1>2

LEMMA LocalDelete ==
  ASSUME TypeOK, LocalInv, age' = age, NEW n \in Nodes, DeleteLocal(n)
  PROVE  LocalInv'
<1>1. /\ local'[n] = Absent
      /\ \A p \in Nodes \ {n} : local'[p] = local[p] /\ localTtl'[p] = localTtl[p]
  BY DEF DeleteLocal, TypeOK
<1> QED BY <1>1, NothingIsStorable DEF LocalInv, Storable

\* A created or written version goes to Redis or into memory while it is fresh.
LEMMA ContentStore ==
  ASSUME TypeOK, CallersInv, SendsInv, LocalInv, age' = age,
         NEW c \in Callers, NEW m, NEW v \in Value, Store(c, m, v),
         v \in Versions => age[v] <= MaxCreate
  PROVE  CallersInv' /\ SendsInv' /\ LocalInv'
<1>1. Home[c] \in Nodes
  BY ConstantsAssumption
<1>2. LocalInv'
  <2>1. SetLocal(Home[c], v) \/ UNCHANGED localVars
    BY DEF Store
  <2>2. v \in Versions => age[v] <= AnswerBound + MaxDelay
    BY BoundTypes, AgeType
  <2>3. CASE UNCHANGED localVars
    BY <2>3 DEF LocalInv, localVars, Storable
  <2> QED BY <1>1, <2>1, <2>2, <2>3, LocalSet
<1>3. \/ /\ Goto(c, "storing", m, Absent) /\ Send(c, "SET", v)
         /\ Storable(v) /\ Ttl > 0
      \/ Return(c) /\ UNCHANGED requests
  BY DEF Store
<1>4. CASE Goto(c, "storing", m, Absent) /\ Send(c, "SET", v) /\ Storable(v) /\ Ttl > 0
  <2>1. CallersInv'
    BY <1>4, CallersGoto, NothingIsStorable
  <2>2. SendsInv'
    BY <1>4, SendsAppend
  <2> QED BY <1>2, <2>1, <2>2
<1>5. CASE Return(c) /\ UNCHANGED requests
  BY <1>2, <1>5, CallersReturn DEF SendsInv, Messages, Storable
<1> QED BY <1>3, <1>4, <1>5

LEMMA CallersLoad ==
  ASSUME TypeOK, CallersInv, age' = age, NEW c \in Callers, NEW m, Load(c, m)
  PROVE  CallersInv'
<1>1. \E s \in States : Goto(c, s, m, Absent)
  BY DEF Load, States
<1> QED BY <1>1, CallersGoto, NothingIsStorable

\* Redis takes the oldest command of n and answers it, a GET with v.
LEMMA ContentServe ==
  ASSUME TypeOK, SendsInv, AnswersInv, age' = age, NEW n \in Nodes, NEW v \in Value,
         requests[n] # <<>>, Serve(n, v),
         v \in Versions => age[v] <= AnswerBound
  PROVE  /\ SendsInv' /\ AnswersInv'
         /\ Head(requests[n]) \in Messages(requests[n])
         /\ Head(requests[n]) \in Message
<1> DEFINE m == Head(requests[n])
           answer == IF m.op = "GET" THEN [m EXCEPT !.v = v] ELSE m
<1>1. /\ m \in Message /\ m \in Messages(requests[n])
      /\ Messages(Tail(requests[n])) \subseteq Messages(requests[n])
  BY HeadTailProperties, MessagesOfTail DEF TypeOK
<1>2. /\ answer \in Message /\ answer.age = m.age
      /\ answer.v = IF m.op = "GET" THEN v ELSE m.v
  BY <1>1 DEF Message, Value
<1>3. answer.v \in Versions => age[answer.v] <= AnswerBound + answer.age
  <2>1. m.age \in Nat
    BY <1>1, BoundTypes DEF Message
  <2> HIDE DEF m, answer
  <2>2. v \in Versions => age[v] <= AnswerBound + m.age
    BY <2>1, BoundTypes, AgeType
  <2>3. m.v \in Versions => age[m.v] <= MaxCreate + m.age
    BY <1>1 DEF SendsInv
  <2>4. m.v \in Versions => age[m.v] <= AnswerBound + m.age
    BY <2>1, <2>3, BoundTypes, AgeType
  <2> QED BY <1>2, <2>2, <2>4
<1>4. /\ requests' = [requests EXCEPT ![n] = Tail(requests[n])]
      /\ replies' = [replies EXCEPT ![n] = Append(replies[n], answer)]
  BY DEF Serve
<1> HIDE DEF m, answer
<1>5. /\ requests'[n] = Tail(requests[n]) /\ \A p \in Nodes \ {n} : requests'[p] = requests[p]
      /\ replies'[n] = Append(replies[n], answer) /\ \A p \in Nodes \ {n} : replies'[p] = replies[p]
  BY <1>4 DEF TypeOK
<1>6. Messages(replies'[n]) \subseteq Messages(replies[n]) \cup {answer}
  BY <1>2, <1>5, MessagesOfAppend DEF TypeOK
<1>7. SendsInv'
  BY <1>1, <1>5 DEF SendsInv
<1>8. AnswersInv'
  BY <1>3, <1>5, <1>6 DEF AnswersInv
<1> QED BY <1>1, <1>7, <1>8 DEF m

LEMMA RemoteApply ==
  ASSUME TypeOK, RemoteInv, SendsInv, age' = age, NEW n \in Nodes,
         NEW m \in Messages(requests[n]), m \in Message, Apply(m)
  PROVE  RemoteInv'
<1>1. m.op \in {"GET", "SET", "DEL"} /\ m.v \in Value /\ m.age \in 0..MaxDelay
  BY DEF Message, Value
<1>2. CASE m.op = "GET"
  BY <1>2 DEF Apply, RemoteInv, remoteVars, Storable
<1>3. CASE m.op = "SET"
  <2>1. remote' = m.v /\ remoteTtl' = Ttl
    BY <1>3 DEF Apply
  <2>2. Ttl > 0 /\ Storable(m.v) /\ (m.v \in Versions => age[m.v] <= MaxCreate + m.age)
    BY <1>3 DEF SendsInv
  <2>3. m.v \in Versions => age[m.v] + Ttl <= RemoteBound
    BY <1>1, <2>2, BoundTypes, AgeType DEF RemoteBound
  <2> QED BY <2>1, <2>2, <2>3, BoundTypes DEF RemoteInv, Storable
<1>4. CASE m.op = "DEL"
  BY <1>4, NothingIsStorable DEF Apply, RemoteInv, Storable
<1> QED BY <1>1, <1>2, <1>3, <1>4

\* What Redis holds is young enough to be its answer.
LEMMA RemoteIsFresh ==
  ASSUME TypeOK, RemoteInv
  PROVE  remote \in Versions => age[remote] <= AnswerBound
BY BoundTypes DEF TypeOK, RemoteInv, RemoteBound, AnswerBound, Less

LEMMA ContentAnswered ==
  ASSUME TypeOK, AnswersInv, age' = age, NEW c \in Callers, Answered(c)
  PROVE  /\ AnswersInv'
         /\ Answer(c).v \in Value
         /\ Answer(c).v \in Versions => age[Answer(c).v] <= AnswerBound + MaxDelay
<1> DEFINE n == Home[c]
           rest == Tail(replies[n])
<1>1. n \in Nodes /\ replies[n] \in Seq(Message) /\ replies[n] # <<>>
  BY ConstantsAssumption DEF TypeOK, Answered
<1>2. Answer(c) \in Messages(replies[n]) /\ Messages(rest) \subseteq Messages(replies[n])
  BY <1>1, MessagesOfTail DEF Answer
<1>3. Answer(c) \in Message
  BY <1>1, <1>2, MessagesAreTyped
<1>4. replies' = [replies EXCEPT ![n] = rest]
  BY DEF Answered
<1> HIDE DEF n, rest
<1>5. replies'[n] = rest /\ \A p \in Nodes \ {n} : replies'[p] = replies[p]
  BY <1>1, <1>4 DEF TypeOK
<1>6. AnswersInv'
  BY <1>1, <1>2, <1>5 DEF AnswersInv
<1>7. Answer(c).v \in Value /\ Answer(c).age \in 0..MaxDelay
  BY <1>3 DEF Message, Value
<1>8. Answer(c).v \in Versions => age[Answer(c).v] <= AnswerBound + Answer(c).age
  BY <1>1, <1>2 DEF AnswersInv
<1> HIDE DEF Answer
<1>9. Answer(c).v \in Versions => age[Answer(c).v] <= AnswerBound + MaxDelay
  BY <1>7, <1>8, BoundTypes, AgeType
<1> QED BY <1>6, <1>7, <1>9

\* Time: ages, delays and waits grow together, and the ttls shrink.
LEMMA ContentTick ==
  ASSUME TypeOK, ContentInv, Tick
  PROVE  ContentInv'
<1>1. ASSUME NEW v \in Versions
      PROVE  age[v] \in Nat /\ age'[v] \in Nat /\ age'[v] <= age[v] + 1 /\ (v >= db => age'[v] = age[v])
  <2>1. age[v] \in Nat /\ v \in Int /\ db \in Int
    <3>1. age \in [Versions -> Nat] /\ db \in Versions
      BY DEF TypeOK
    <3> QED BY <3>1 DEF Versions
  <2>2. age'[v] = IF v < db /\ age[v] <= LocalBound THEN age[v] + 1 ELSE age[v]
    BY DEF Tick
  <2> QED BY <2>1, <2>2
<1>2. SourceInv'
  BY <1>1 DEF ContentInv, SourceInv, Tick
<1>3. CallersInv'
  <2> SUFFICES ASSUME NEW c \in Callers
               PROVE  /\ pc'[c] \in {"creating", "wrote"} => waited'[c] <= MaxCreate
                      /\ data'[c] \in Versions =>
                           /\ pc'[c] \in {"creating", "wrote", "loaded"}
                           /\ age'[data'[c]] <= IF pc'[c] = "loaded" THEN MaxCreate ELSE waited'[c]
    BY DEF CallersInv
  <2>1. /\ pc' = pc /\ data' = data /\ pc[c] # "loaded" /\ waited[c] \in Nat
        /\ pc[c] \in {"creating", "wrote"} => waited[c] < MaxCreate /\ waited'[c] = waited[c] + 1
    BY DEF Tick, NothingOverdue, TypeOK
  <2>2. data[c] \in Versions => pc[c] \in {"creating", "wrote"} /\ age[data[c]] <= waited[c]
    BY <2>1 DEF ContentInv, CallersInv
  <2>3. data[c] \in Versions => age'[data[c]] <= waited[c] + 1
    BY <1>1, <2>1, <2>2
  <2> QED BY <2>1, <2>2, <2>3, BoundTypes
<1>4. ASSUME NEW v, NEW b \in Nat, NEW t \in Nat, v \in Versions => age[v] <= b + t
      PROVE  v \in Versions => age'[v] <= b + (t + 1)
  BY <1>1, <1>4
<1>5. SendsInv'
  <2> SUFFICES ASSUME NEW n \in Nodes, NEW m \in Messages(requests'[n])
               PROVE  /\ m.op = "SET" => Ttl > 0 /\ Storable(m.v)
                      /\ m.v \in Versions => age'[m.v] <= MaxCreate + m.age
    BY DEF SendsInv, Storable
  <2>1. requests'[n] = Older(requests[n]) /\ requests[n] \in Seq(Message)
    BY Zenon DEF Tick, TypeOK
  <2>2. PICK old \in Messages(requests[n]) :
          old.age \in Nat /\ m.op = old.op /\ m.v = old.v /\ m.age = old.age + 1
    BY <2>1, MessagesOfOlder
  <2>3. /\ old.op = "SET" => Ttl > 0 /\ Storable(old.v)
        /\ old.v \in Versions => age[old.v] <= MaxCreate + old.age
    BY DEF ContentInv, SendsInv
  <2>4. m.v \in Versions => age'[m.v] <= MaxCreate + m.age
    BY <1>4, <2>2, <2>3, BoundTypes
  <2> QED BY <2>2, <2>3, <2>4, Zenon
<1>6. AnswersInv'
  <2> SUFFICES ASSUME NEW n \in Nodes, NEW m \in Messages(replies'[n])
               PROVE  m.v \in Versions => age'[m.v] <= AnswerBound + m.age
    BY DEF AnswersInv, AnswerBound, Less
  <2>1. replies'[n] = Older(replies[n]) /\ replies[n] \in Seq(Message)
    BY Zenon DEF Tick, TypeOK
  <2>2. PICK old \in Messages(replies[n]) :
          old.age \in Nat /\ m.op = old.op /\ m.v = old.v /\ m.age = old.age + 1
    BY <2>1, MessagesOfOlder
  <2>3. old.v \in Versions => age[old.v] <= AnswerBound + old.age
    BY DEF ContentInv, AnswersInv
  <2> QED BY <1>4, <2>2, <2>3, BoundTypes
<1>7. RemoteInv'
  <2>1. CASE remoteTtl <= 1
    BY <2>1, NothingIsStorable DEF Tick, RemoteInv, Storable
  <2>2. CASE remoteTtl > 1
    <3>1. remote' = remote /\ remoteTtl' = remoteTtl - 1 /\ remoteTtl \in Nat
      BY <2>2 DEF Tick, Less, TypeOK
    <3>2. remote \in Versions => remoteTtl' \in 1..Ttl /\ age'[remote] + remoteTtl' <= RemoteBound
      BY <1>1, <2>2, <3>1, BoundTypes DEF ContentInv, RemoteInv
    <3> QED BY <3>1, <3>2 DEF ContentInv, RemoteInv, Storable, RemoteBound
  <2> QED BY <2>1, <2>2 DEF TypeOK
<1>8. LocalInv'
  <2> SUFFICES ASSUME NEW n \in Nodes
               PROVE  /\ Storable(local'[n])
                      /\ local'[n] \in Versions => age'[local'[n]] + localTtl'[n] <= LocalBound
    BY DEF LocalInv, Storable
  <2>1. CASE localTtl[n] <= 1
    BY <2>1, NothingIsStorable DEF Tick
  <2>2. CASE localTtl[n] > 1
    <3>1. local'[n] = local[n] /\ localTtl'[n] = localTtl[n] - 1 /\ localTtl[n] \in Nat
      BY <2>2 DEF Tick, Less, TypeOK
    <3>2. local[n] \in Versions => age'[local[n]] + localTtl'[n] <= LocalBound
      BY <1>1, <2>2, <3>1, BoundTypes DEF ContentInv, LocalInv
    <3> QED BY <3>1, <3>2 DEF ContentInv, LocalInv
  <2> QED BY <2>1, <2>2 DEF TypeOK
<1> QED BY <1>2, <1>3, <1>5, <1>6, <1>7, <1>8 DEF ContentInv

LEMMA ContentInit == Init => ContentInv
<1> SUFFICES ASSUME Init PROVE ContentInv
  OBVIOUS
<1>1. \A q : q = <<>> => Messages(q) = {}
  <2>1. Len(<<>>) = 0 /\ <<>> \in Seq(Callers)
    OBVIOUS
  <2>2. DOMAIN <<>> = {}
    BY <2>1
  <2> QED BY <2>2 DEF Messages
<1>2. SourceInv /\ CallersInv
  BY NothingIsStorable DEF Init, SourceInv, CallersInv
<1>3. SendsInv /\ AnswersInv
  BY <1>1 DEF Init, SendsInv, AnswersInv
<1>4. RemoteInv /\ LocalInv
  BY NothingIsStorable DEF Init, RemoteInv, LocalInv
<1> QED BY <1>2, <1>3, <1>4 DEF ContentInv

LEMMA ContentStep == TypeOK /\ ContentInv /\ [Next]_vars => ContentInv'
<1> SUFFICES ASSUME TypeOK, ContentInv, [Next]_vars PROVE ContentInv'
  OBVIOUS
<1> USE DEF connVars
<1>0. SourceInv /\ CallersInv /\ SendsInv /\ AnswersInv /\ RemoteInv /\ LocalInv
  BY DEF ContentInv
<1>k. ASSUME age' = age
      PROVE  /\ UNCHANGED db => SourceInv'
             /\ UNCHANGED callerVars => CallersInv'
             /\ UNCHANGED requests => SendsInv'
             /\ UNCHANGED replies => AnswersInv'
             /\ UNCHANGED remoteVars => RemoteInv'
             /\ UNCHANGED localVars => LocalInv'
  <2>1. UNCHANGED db => SourceInv'
    BY <1>0, <1>k DEF SourceInv
  <2>2. UNCHANGED callerVars => CallersInv'
    BY <1>0, <1>k DEF CallersInv, callerVars
  <2>3. UNCHANGED requests => SendsInv'
    BY <1>0, <1>k DEF SendsInv, Messages, Storable
  <2>4. UNCHANGED replies => AnswersInv'
    BY <1>0, <1>k DEF AnswersInv, Messages, AnswerBound, Less
  <2>5. UNCHANGED remoteVars => RemoteInv'
    BY <1>0, <1>k DEF RemoteInv, remoteVars, Storable, RemoteBound
  <2>6. UNCHANGED localVars => LocalInv'
    BY <1>0, <1>k DEF LocalInv, localVars, Storable
  <2> QED BY <2>1, <2>2, <2>3, <2>4, <2>5, <2>6
<1>g. SourceInv' /\ CallersInv' /\ SendsInv' /\ AnswersInv' /\ RemoteInv' /\ LocalInv' => ContentInv'
  BY DEF ContentInv
<1>c. /\ \A c \in Callers : Home[c] \in Nodes /\ data[c] \in Value
      /\ Absent \in Value /\ Absent \notin Versions /\ Storable(Absent)
      /\ remote \in Value
  BY ConstantsAssumption, NothingIsStorable DEF Value, TypeOK
<1>d. ASSUME NEW c \in Callers, pc[c] \in {"creating", "wrote", "loaded"}
      PROVE  data[c] \in Versions => age[data[c]] <= MaxCreate
  BY <1>0, <1>d, BoundTypes, AgeType DEF CallersInv, TypeOK
<1>1. ASSUME NEW c \in Callers, NEW m \in Calls, Ask(c, m) PROVE ContentInv'
  <2>1. age' = age /\ db' = db
    BY <1>1 DEF Ask, sourceVars
  <2>2. CallersInv' /\ SendsInv'
    BY <1>0, <1>1, <1>c, <2>1, CallersGoto, SendsAppend DEF Ask
  <2> QED BY <1>1, <1>k, <1>g, <2>1, <2>2 DEF Ask
<1>2. ASSUME NEW c \in Callers, NEW m \in Calls, Create(c, m) PROVE ContentInv'
  <2>1. age' = age /\ db' = db
    BY <1>2 DEF Create, sourceVars
  <2>2. CallersInv'
    BY <1>0, <1>2, <2>1, CallersLoad DEF Create
  <2> QED BY <1>2, <1>k, <1>g, <2>1, <2>2 DEF Create
<1>3. ASSUME NEW c \in Callers, NEW m \in Calls, Set(c, m) PROVE ContentInv'
  <2>1. age' = age /\ db' = db
    BY <1>3 DEF Set, sourceVars
  <2>2. CallersInv' /\ SendsInv' /\ LocalInv'
    BY <1>0, <1>3, <1>c, <1>d, <2>1, ContentStore DEF Set
  <2> QED BY <1>3, <1>k, <1>g, <2>1, <2>2 DEF Set
<1>4. ASSUME NEW c \in Callers, NEW m \in Calls, Delete(c, m) PROVE ContentInv'
  <2>1. age' = age /\ db' = db
    BY <1>4 DEF Delete, sourceVars
  <2>2. CallersInv'
    BY <1>0, <1>4, <1>c, <2>1, CallersGoto, CallersReturn DEF Delete
  <2>3. SendsInv'
    BY <1>0, <1>4, <1>c, <1>k, <2>1, SendsAppend DEF Delete
  <2>4. LocalInv'
    BY <1>0, <1>4, <1>c, <1>k, <2>1, LocalDelete DEF Delete
  <2> QED BY <1>4, <1>k, <1>g, <2>1, <2>2, <2>3, <2>4 DEF Delete
<1>5. ASSUME NEW c \in Callers, Write(c) PROVE ContentInv'
  <2>1. age' = age /\ db' = db + 1 /\ db \in Nat /\ db + 1 \in Versions
    <3>1. db \in Versions /\ db < MaxVersion /\ db' = db + 1 /\ age' = age
      BY <1>5 DEF Write, TypeOK
    <3> QED BY <3>1, ConstantsAssumption DEF Versions
  <2>2. SourceInv'
    BY <1>0, <2>1 DEF SourceInv, Versions
  <2>3. age[db + 1] = 0
    BY <1>0, <2>1 DEF SourceInv
  <2>4. CallersInv'
    BY <1>0, <1>5, <2>1, <2>3, CallersGoto DEF Write
  <2> QED BY <1>5, <1>k, <1>g, <2>1, <2>2, <2>4 DEF Write
<1>6. ASSUME NEW c \in Callers, ReadSource(c) PROVE ContentInv'
  <2>1. age' = age /\ db' = db /\ db \in Versions /\ age[db] = 0
    BY <1>0, <1>6 DEF ReadSource, sourceVars, TypeOK, SourceInv, Versions
  <2>2. CallersInv'
    <3>1. /\ pc' = pc /\ waited' = waited /\ pc[c] = "creating" /\ waited[c] \in Nat
          /\ data'[c] = db /\ \A d \in Callers \ {c} : data'[d] = data[d]
      BY <1>6 DEF ReadSource, TypeOK
    <3> QED BY <1>0, <2>1, <3>1 DEF CallersInv
  <2> QED BY <1>6, <1>k, <1>g, <2>1, <2>2 DEF ReadSource
<1>7. ASSUME NEW c \in Callers, CreateReturns(c) PROVE ContentInv'
  <2>1. age' = age /\ db' = db
    BY <1>7 DEF CreateReturns, sourceVars
  <2>2. CallersInv'
    <3>1. /\ \A d \in Crew(c) \cap Callers : pc'[d] = "loaded" /\ data'[d] = data[c] /\ waited'[d] = 0
          /\ \A d \in Callers \ Crew(c) : pc'[d] = pc[d] /\ data'[d] = data[d] /\ waited'[d] = waited[d]
      BY <1>7, Zenon DEF CreateReturns
    <3>2. data[c] \in Versions => age[data[c]] <= MaxCreate
      BY <1>7, <1>d DEF CreateReturns
    <3> HIDE DEF Crew
    <3> QED BY <1>0, <2>1, <3>1, <3>2 DEF CallersInv
  <2> QED BY <1>7, <1>k, <1>g, <2>1, <2>2 DEF CreateReturns
<1>8. ASSUME NEW c \in Callers, CreateFails(c) PROVE ContentInv'
  <2>1. age' = age /\ db' = db
    BY <1>8 DEF CreateFails, sourceVars
  <2>2. CallersInv'
    <3>1. /\ \A d \in Crew(c) \cap Callers : pc'[d] = "idle" /\ data'[d] = Absent
          /\ \A d \in Callers \ Crew(c) : pc'[d] = pc[d] /\ data'[d] = data[d] /\ waited'[d] = waited[d]
      BY <1>8, Zenon DEF CreateFails
    <3> HIDE DEF Crew
    <3> QED BY <1>0, <1>c, <2>1, <3>1 DEF CallersInv
  <2> QED BY <1>8, <1>k, <1>g, <2>1, <2>2 DEF CreateFails
<1>9. ASSUME NEW c \in Callers, Continue(c) PROVE ContentInv'
  <2>1. age' = age /\ db' = db
    BY <1>9 DEF Continue, sourceVars
  <2>2. CallersInv' /\ SendsInv' /\ LocalInv'
    BY <1>0, <1>9, <1>c, <1>d, <2>1, ContentStore DEF Continue
  <2> QED BY <1>9, <1>k, <1>g, <2>1, <2>2 DEF Continue
<1>10. ASSUME NEW c \in Callers, ReadAnswered(c) PROVE ContentInv'
  <2>1. age' = age /\ db' = db
    BY <1>10 DEF ReadAnswered, Answered, sourceVars
  <2>2. /\ AnswersInv' /\ Answer(c).v \in Value
        /\ Answer(c).v \in Versions => age[Answer(c).v] <= AnswerBound + MaxDelay
    BY <1>0, <1>10, <2>1, ContentAnswered DEF ReadAnswered
  <2>3. RemoteInv' /\ SourceInv'
    BY <1>10, <1>k, <2>1 DEF ReadAnswered, Answered
  <2>4. CASE Found(c, Answer(c).v)
    <3>1. CallersInv' /\ SendsInv'
      BY <1>0, <1>k, <2>1, <2>4, CallersReturn DEF Found
    <3>2. \/ SetLocal(Home[c], Answer(c).v)
          \/ DeleteLocal(Home[c])
          \/ UNCHANGED localVars
      BY <2>4 DEF Found
    <3>3. LocalInv'
      BY <1>0, <1>c, <1>k, <2>1, <2>2, <3>2, LocalSet, LocalDelete
    <3> QED BY <1>g, <2>2, <2>3, <3>1, <3>3
  <2>5. CASE NotFound(c)
    <3>1. LocalInv' /\ SendsInv'
      BY <1>0, <1>c, <1>k, <2>1, <2>5, LocalDelete DEF NotFound
    <3>2. CallersInv'
      BY <1>0, <2>1, <2>5, CallersLoad, CallersReturn DEF NotFound
    <3> QED BY <1>g, <2>2, <2>3, <3>1, <3>2
  <2> QED BY <1>10, <2>4, <2>5 DEF ReadAnswered
<1>11. ASSUME NEW c \in Callers, StoreAnswered(c) PROVE ContentInv'
  <2>1. age' = age /\ db' = db
    BY <1>11 DEF StoreAnswered, Answered, sourceVars
  <2>2. /\ AnswersInv' /\ Answer(c).v \in Value
        /\ Answer(c).v \in Versions => age[Answer(c).v] <= AnswerBound + MaxDelay
    BY <1>0, <1>11, <2>1, ContentAnswered DEF StoreAnswered
  <2>3. CallersInv'
    BY <1>0, <1>11, <2>1, CallersReturn DEF StoreAnswered
  <2>4. LocalInv'
    BY <1>0, <1>11, <1>c, <1>k, <2>1, <2>2, LocalSet DEF StoreAnswered
  <2> QED BY <1>11, <1>k, <1>g, <2>1, <2>2, <2>3, <2>4 DEF StoreAnswered, Answered
<1>12. ASSUME NEW c \in Callers, DeleteAnswered(c) PROVE ContentInv'
  <2>1. age' = age /\ db' = db
    BY <1>12 DEF DeleteAnswered, Answered, sourceVars
  <2>2. AnswersInv' /\ CallersInv'
    BY <1>0, <1>12, <2>1, ContentAnswered, CallersReturn DEF DeleteAnswered
  <2> QED BY <1>12, <1>k, <1>g, <2>1, <2>2 DEF DeleteAnswered, Answered
<1>13. ASSUME NEW n \in Nodes, Execute(n) PROVE ContentInv'
  <2>1. age' = age /\ db' = db
    BY <1>13 DEF Execute, sourceVars
  <2>2. /\ SendsInv' /\ AnswersInv'
        /\ Head(requests[n]) \in Messages(requests[n]) /\ Head(requests[n]) \in Message
    BY <1>0, <1>13, <1>c, <2>1, RemoteIsFresh, ContentServe DEF Execute
  <2>3. RemoteInv'
    BY <1>0, <1>13, <2>1, <2>2, RemoteApply DEF Execute
  <2> QED BY <1>13, <1>k, <1>g, <2>1, <2>2, <2>3 DEF Execute
<1>14. ASSUME NEW n \in Nodes, Fail(n) PROVE ContentInv'
  <2>1. age' = age /\ db' = db
    BY <1>14 DEF Fail, sourceVars
  <2>2. /\ SendsInv' /\ AnswersInv'
        /\ Head(requests[n]) \in Messages(requests[n]) /\ Head(requests[n]) \in Message
    BY <1>0, <1>14, <1>c, <2>1, ContentServe DEF Fail
  <2>3. RemoteInv'
    BY <1>0, <1>14, <1>k, <2>1, <2>2, RemoteApply DEF Fail
  <2> QED BY <1>14, <1>k, <1>g, <2>1, <2>2, <2>3 DEF Fail
<1>15. ASSUME NEW n \in Nodes, Evict(n) PROVE ContentInv'
  <2>1. age' = age /\ db' = db
    BY <1>15 DEF Evict, sourceVars
  <2>2. LocalInv'
    BY <1>0, <1>15, <2>1, LocalDelete DEF Evict
  <2> QED BY <1>15, <1>k, <1>g, <2>1, <2>2 DEF Evict
<1>16. CASE Tick
  BY <1>16, ContentTick
<1>17. CASE UNCHANGED vars
  <2>1. age' = age /\ db' = db
    BY <1>17 DEF vars, sourceVars
  <2> QED BY <1>17, <1>k, <1>g, <2>1 DEF vars
<1> QED
  BY <1>1, <1>2, <1>3, <1>4, <1>5, <1>6, <1>7, <1>8, <1>9, <1>10, <1>11, <1>12, <1>13, <1>14,
     <1>15, <1>16, <1>17 DEF Next

LEMMA ContentAlways == Spec => [](TypeOK /\ ContentInv)
BY TypeInit, TypeStep, ContentInit, ContentStep, PTL DEF Spec

\* Neither Redis nor the memory of a process ever holds a value that set() must drop,
\* whichever method put it there.
THEOREM NothingUnstorable == Spec => []OnlyStorable
<1>1. ContentInv => OnlyStorable
  BY Zenon DEF ContentInv, RemoteInv, LocalInv, OnlyStorable, Storable
<1> QED BY <1>1, ContentAlways, PTL

\* No cache answers with a value that was overwritten longer ago than the two ttls and
\* the delays allow, for any ttls and delays, however many processes refresh each
\* other's values from Redis.
THEOREM StalenessIsBounded == Spec => []BoundedStaleness
<1>1. TypeOK /\ ContentInv => BoundedStaleness
  BY DEF TypeOK, ContentInv, RemoteInv, LocalInv, BoundedStaleness
<1> QED BY <1>1, ContentAlways, PTL
==============================================================================
