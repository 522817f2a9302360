---------------------------- MODULE RedlockProofs ----------------------------
(* Theorems about Redlock for every number of clients and instances and every *)
(* value of the other constants.                                              *)
EXTENDS Redlock, FiniteSetTheorems, SequenceTheorems, TLAPS

------------------------------------------------------------------------------
(* Constants and operators *)

\* The derived constants are the numbers the code computes with.
LEMMA DerivedConstants ==
  /\ HoldLimit \in Nat
  /\ MaxElapsed \in Nat
  /\ ExtensionTtl \in Nat
  /\ NextWait \in Int
  /\ WaitTime(KeyExpiration) \in Int
<1>1. HoldLimit \in Nat
  BY ConstantsAssumption DEF HoldLimit
<1>2. MaxElapsed \in Nat
  BY <1>1, ConstantsAssumption DEF MaxElapsed
<1>3. ExtensionTtl \in Nat
  BY ConstantsAssumption DEF ExtensionTtl
<1>4. ASSUME NEW t \in Nat PROVE WaitTime(t) \in Int
  BY <1>4 DEF WaitTime
<1>5. NextWait \in Int
  BY <1>4, ConstantsAssumption DEF NextWait
<1> QED BY <1>1, <1>2, <1>3, <1>4, <1>5, ConstantsAssumption

\* The commands lock(), release() and extend() send are well formed.
LEMMA CommandType ==
  ASSUME NEW op \in Ops, NEW att \in 0..(MaxRetries + 1)
  PROVE  Command(op, att) \in Request
  BY ConstantsAssumption DEF Command, Request

\* Sending keeps a client's requests well typed.
LEMMA SendType ==
  ASSUME NEW q \in [Instances -> Seq(Request)], NEW S, NEW cmd \in Request
  PROVE  Send(q, S, cmd) \in [Instances -> Seq(Request)]
<1> SUFFICES ASSUME NEW i \in Instances
             PROVE  (IF i \in S THEN Append(q[i], cmd) ELSE q[i]) \in Seq(Request)
  BY DEF Send
<1>1. Append(q[i], cmd) \in Seq(Request)
  BY AppendProperties
<1> QED BY <1>1

\* So does the end of the lock() call that sent them.
LEMMA OrphanedType ==
  ASSUME NEW q \in [Instances -> Seq(Request)]
  PROVE  Orphaned(q) \in [Instances -> Seq(Request)]
<1> SUFFICES ASSUME NEW i \in Instances
             PROVE  [k \in DOMAIN q[i] |-> [q[i][k] EXCEPT !.att = 0]] \in Seq(Request)
  BY DEF Orphaned
<1>1. q[i] \in Seq(Request)
  OBVIOUS
<1>2. /\ Len(q[i]) \in Nat
      /\ DOMAIN q[i] = 1..Len(q[i])
      /\ \A k \in 1..Len(q[i]) : q[i][k] \in Request
  BY <1>1, LenProperties, ElementOfSeq
<1>3. ASSUME NEW r \in Request PROVE [r EXCEPT !.att = 0] \in Request
  <2>1. 0 \in 0..(MaxRetries + 1)
    BY ConstantsAssumption
  <2> QED BY <2>1 DEF Request
<1>4. [k \in 1..Len(q[i]) |-> [q[i][k] EXCEPT !.att = 0]] \in [1..Len(q[i]) -> Request]
  BY <1>2, <1>3
<1> QED BY <1>2, <1>4, SeqDef

\* A unit of time ages messages that may still get older.
LEMMA OlderType ==
  ASSUME NEW T, NEW q \in [Instances -> Seq(T)],
         T = Request \/ T = Reply,
         \A i \in Instances : \A k \in DOMAIN q[i] : q[i][k].age < MaxDelay
  PROVE  Older(q) \in [Instances -> Seq(T)]
<1> SUFFICES ASSUME NEW i \in Instances
             PROVE  [k \in DOMAIN q[i] |-> [q[i][k] EXCEPT !.age = @ + 1]] \in Seq(T)
  BY DEF Older
<1>1. q[i] \in Seq(T)
  OBVIOUS
<1>2. /\ Len(q[i]) \in Nat
      /\ DOMAIN q[i] = 1..Len(q[i])
      /\ \A k \in 1..Len(q[i]) : q[i][k] \in T
  BY <1>1, LenProperties, ElementOfSeq
<1>3. ASSUME NEW m \in T, m.age < MaxDelay
      PROVE  [m EXCEPT !.age = @ + 1] \in T
  <2>1. m.age \in 0..MaxDelay
    <3>1. CASE T = Request
      BY <3>1 DEF Request
    <3>2. CASE T = Reply
      BY <3>2 DEF Reply
    <3> QED BY <3>1, <3>2
  <2>2. m.age + 1 \in 0..MaxDelay
    BY <1>3, <2>1, ConstantsAssumption
  <2> QED BY <2>2 DEF Request, Reply
<1>4. [k \in 1..Len(q[i]) |-> [q[i][k] EXCEPT !.age = @ + 1]] \in [1..Len(q[i]) -> T]
  BY <1>2, <1>3
<1> QED BY <1>2, <1>4, SeqDef

\* Executing a command leaves the store well typed.
LEMMA ApplyType ==
  ASSUME TypeOK, NEW c \in Clients, NEW i \in Instances, NEW op \in Ops, Apply(c, i, op)
  PROVE  ttl' \in [Instances -> Nat] /\ owner' \in [Instances -> Clients \cup {NoClient}]
<1>1. CASE op = "set"
  <2>1. SetNX(c, i)
    BY <1>1 DEF Apply
  <2>2. /\ ttl \in [Instances -> Nat] /\ owner \in [Instances -> Clients \cup {NoClient}]
        /\ KeyExpiration \in Nat
    BY ConstantsAssumption DEF TypeOK
  <2> QED BY <2>1, <2>2 DEF SetNX
<1>2. CASE op \in {"del", "release"}
  <2>1. Delete(c, i)
    BY <1>2 DEF Apply
  <2> QED BY <2>1 DEF Delete, TypeOK
<1>3. CASE op = "pexpire"
  <2>1. PExpire(c, i)
    BY <1>3 DEF Apply
  <2>2. ttl[i] \in Nat /\ owner[i] \in Clients \cup {NoClient}
    BY DEF TypeOK
  <2> QED BY <2>1, <2>2, DerivedConstants DEF PExpire, TypeOK
<1> QED BY <1>1, <1>2, <1>3 DEF Ops

\* The oldest request leaves the queue, and its answer joins the replies.
LEMMA ServeType ==
  ASSUME TypeOK, NEW c \in Clients, NEW i \in Instances, NEW ok \in BOOLEAN,
         requests[c][i] # <<>>, Serve(c, i, ok)
  PROVE  /\ requests' \in [Clients -> [Instances -> Seq(Request)]]
         /\ replies' \in [Clients -> [Instances -> Seq(Reply)]]
<1> DEFINE req == Head(requests[c][i])
           answer == [op |-> req.op, att |-> req.att, ok |-> ok, age |-> req.age]
<1>1. requests[c][i] \in Seq(Request) /\ replies[c][i] \in Seq(Reply)
  BY DEF TypeOK
<1>2. req \in Request /\ Tail(requests[c][i]) \in Seq(Request)
  BY <1>1, HeadTailProperties
<1>3. requests' \in [Clients -> [Instances -> Seq(Request)]]
  BY <1>2 DEF Serve, TypeOK
<1>4. CASE IsAwaited(req)
  <2>1. answer \in Reply
    BY <1>2, <1>4 DEF IsAwaited, Request, Reply
  <2>2. Append(replies[c][i], answer) \in Seq(Reply)
    BY <1>1, <2>1, AppendProperties
  <2>3. replies' = [replies EXCEPT ![c][i] = Append(replies[c][i], answer)]
    BY <1>4 DEF Serve
  <2> QED BY <1>3, <2>2, <2>3 DEF TypeOK
<1>5. CASE ~IsAwaited(req)
  BY <1>3, <1>5 DEF Serve, TypeOK
<1> QED BY <1>4, <1>5

------------------------------------------------------------------------------
(* Type correctness *)

\* The types hold at first.
LEMMA TypeInit == Init => TypeOK
<1> SUFFICES ASSUME Init PROVE TypeOK
  OBVIOUS
<1>1. Off \in Int
  BY ConstantsAssumption DEF Off
<1>2. <<>> \in Seq(Request) /\ <<>> \in Seq(Reply)
  BY EmptySeq
<1>3. 0 \in 0..MaxRetries /\ 0 \in 0..MaxElapsed /\ 0 \in 0..MaxFailures
  BY ConstantsAssumption, DerivedConstants
<1> QED BY <1>1, <1>2, <1>3 DEF Init, TypeOK

\* Every step keeps the types.
LEMMA TypeStep == TypeOK /\ [Next]_vars => TypeOK'
<1> SUFFICES ASSUME TypeOK, [Next]_vars PROVE TypeOK'
  OBVIOUS
<1> USE DEF lockVars, usingVars, connVars, redisVars
<1>0. /\ Off \in Int
      /\ 0 \in 0..MaxRetries
      /\ 0 \in 0..MaxElapsed
      /\ \A op \in Ops : Command(op, 0) \in Request /\ Command(op, 1) \in Request
  <2>1. 0 \in 0..(MaxRetries + 1) /\ 1 \in 0..(MaxRetries + 1)
    BY ConstantsAssumption
  <2> QED BY <2>1, ConstantsAssumption, DerivedConstants, CommandType DEF Off
<1>1. ASSUME NEW c \in Clients, Start(c) PROVE TypeOK'
  <2>1. requests[c] \in [Instances -> Seq(Request)]
    BY DEF TypeOK
  <2>2. Send(requests[c], Instances, Command("set", 1)) \in [Instances -> Seq(Request)]
    BY <1>0, <2>1, SendType DEF Ops
  <2> QED BY <1>0, <1>1, <2>2 DEF Start, TypeOK
<1>2. ASSUME NEW c \in Clients, Retry(c) PROVE TypeOK'
  <2>1. requests[c] \in [Instances -> Seq(Request)] /\ retryTimes[c] \in 0..MaxRetries
    BY DEF TypeOK
  <2>2. Attempt(c) + 1 \in 0..(MaxRetries + 1) /\ retryTimes[c] + 1 \in 0..MaxRetries
    BY <1>2, <2>1, ConstantsAssumption DEF Retry, MayRetry, Attempt
  <2>3. Send(requests[c], Instances, Command("set", Attempt(c) + 1)) \in [Instances -> Seq(Request)]
    BY <2>1, <2>2, SendType, CommandType DEF Ops
  <2> QED BY <1>0, <1>2, <2>2, <2>3 DEF Retry, TypeOK
<1>3. ASSUME NEW c \in Clients, GiveUp(c) PROVE TypeOK'
  <2>1. requests[c] \in [Instances -> Seq(Request)]
    BY DEF TypeOK
  <2>2. Orphaned(requests[c]) \in [Instances -> Seq(Request)]
    BY <2>1, OrphanedType
  <2>3. [i \in Instances |-> <<>>] \in [Instances -> Seq(Reply)]
    BY EmptySeq
  <2> QED BY <1>0, <1>3, <2>2, <2>3 DEF GiveUp, Forget, TypeOK
<1>4. ASSUME NEW c \in Clients, FinishAction(c) PROVE TypeOK'
  <2>1. requests[c] \in [Instances -> Seq(Request)]
    BY DEF TypeOK
  <2>2. Send(Orphaned(requests[c]), Instances, Command("release", 0))
          \in [Instances -> Seq(Request)]
    BY <1>0, <2>1, OrphanedType, SendType DEF Ops
  <2>3. [i \in Instances |-> <<>>] \in [Instances -> Seq(Reply)]
    BY EmptySeq
  <2> QED BY <1>0, <1>4, <2>2, <2>3 DEF FinishAction, Forget, TypeOK
<1>5. ASSUME NEW c \in Clients, Extend(c) PROVE TypeOK'
  <2>1. requests[c] \in [Instances -> Seq(Request)]
    BY DEF TypeOK
  <2>2. Send(requests[c], Instances, Command("pexpire", 0)) \in [Instances -> Seq(Request)]
    BY <1>0, <2>1, SendType DEF Ops
  <2> QED BY <1>5, <2>2, DerivedConstants DEF Extend, TypeOK
<1>6. ASSUME NEW c \in Clients, StopExtending(c) PROVE TypeOK'
  BY <1>0, <1>6 DEF StopExtending, TypeOK
<1>7. ASSUME NEW c \in Clients, NEW i \in Instances, Execute(c, i) PROVE TypeOK'
  <2>1. Head(requests[c][i]) \in Request
    BY <1>7, HeadTailProperties DEF Execute, TypeOK
  <2>2. Head(requests[c][i]).op \in Ops
    BY <2>1 DEF Request
  <2>3. ttl' \in [Instances -> Nat] /\ owner' \in [Instances -> Clients \cup {NoClient}]
    BY <1>7, <2>2, ApplyType DEF Execute
  <2>4. /\ requests' \in [Clients -> [Instances -> Seq(Request)]]
        /\ replies' \in [Clients -> [Instances -> Seq(Reply)]]
    BY <1>7, ServeType DEF Execute
  <2> QED BY <1>7, <2>3, <2>4 DEF Execute, TypeOK
<1>8. ASSUME NEW c \in Clients, NEW i \in Instances, Fail(c, i) PROVE TypeOK'
  <2>1. Head(requests[c][i]) \in Request
    BY <1>8, HeadTailProperties DEF Fail, TypeOK
  <2>2. Head(requests[c][i]).op \in Ops
    BY <2>1 DEF Request
  <2>3. ttl' \in [Instances -> Nat] /\ owner' \in [Instances -> Clients \cup {NoClient}]
    BY <1>8, <2>2, ApplyType DEF Fail, TypeOK
  <2>4. /\ requests' \in [Clients -> [Instances -> Seq(Request)]]
        /\ replies' \in [Clients -> [Instances -> Seq(Reply)]]
    BY <1>8, ServeType DEF Fail
  <2>5. failures' \in 0..MaxFailures
    BY <1>8, ConstantsAssumption DEF Fail, TypeOK
  <2> QED BY <1>8, <2>3, <2>4, <2>5 DEF Fail, TypeOK
<1>9. ASSUME NEW c \in Clients, NEW i \in Instances, LockReply(c, i) PROVE TypeOK'
  <2> DEFINE reply == Head(replies[c][i])
             S == successInstances[c]
                    \cup (IF reply.ok /\ reply.att = Attempt(c) THEN {i} ELSE {})
  <2>1. replies' \in [Clients -> [Instances -> Seq(Reply)]]
    BY <1>9, HeadTailProperties DEF LockReply, TypeOK
  <2>2. S \in SUBSET Instances
    BY DEF TypeOK
  <2>3. /\ successCount' \in [Clients -> Nat]
        /\ settledCount' \in [Clients -> Nat]
        /\ successInstances' \in [Clients -> SUBSET Instances]
    <3>1. /\ successCount' = [successCount EXCEPT ![c] = @ + (IF reply.ok THEN 1 ELSE 0)]
          /\ settledCount' = [settledCount EXCEPT ![c] = @ + 1]
          /\ successInstances' = [successInstances EXCEPT ![c] = S]
      BY <1>9 DEF LockReply, TypeOK
    <3>2. /\ successCount \in [Clients -> Nat]
          /\ settledCount \in [Clients -> Nat]
          /\ successInstances \in [Clients -> SUBSET Instances]
      BY DEF TypeOK
    <3> HIDE DEF reply, S
    <3>3. successCount' \in [Clients -> Nat] /\ settledCount' \in [Clients -> Nat]
      BY <3>1, <3>2
    <3>4. successInstances' \in [Clients -> SUBSET Instances]
      BY <2>2, <3>1, <3>2
    <3> QED BY <3>3, <3>4
  <2>4. CASE Acquire(c)
    BY <1>9, <2>1, <2>3, <2>4, DerivedConstants DEF LockReply, Acquire, TypeOK
  <2>5. CASE RollBack(c, S)
    <3>1. requests[c] \in [Instances -> Seq(Request)]
      BY DEF TypeOK
    <3>2. Send(requests[c], S, Command("del", 0)) \in [Instances -> Seq(Request)]
      BY <1>0, <3>1, SendType DEF Ops
    <3>3. /\ requests' \in [Clients -> [Instances -> Seq(Request)]]
          /\ rollback' \in [Clients -> SUBSET Instances]
      BY <2>2, <2>5, <3>2 DEF RollBack, TypeOK
    <3>4. pc' \in [Clients -> {"idle", "waiting", "releasing", "sleeping", "acting"}]
      BY <2>5 DEF RollBack, TypeOK
    <3>5. timer' \in [Clients -> Int]
      BY <1>0, <2>5, ConstantsAssumption DEF RollBack, TypeOK
    <3> QED
      BY <1>9, <2>1, <2>3, <3>3, <3>4, <3>5 DEF LockReply, TypeOK
  <2>6. CASE UNCHANGED <<pc, timer, rollback, requests>>
    BY <1>9, <2>1, <2>3, <2>6 DEF LockReply, TypeOK
  <2>7. Acquire(c) \/ RollBack(c, S) \/ UNCHANGED <<pc, timer, rollback, requests>>
    BY <1>9 DEF LockReply
  <2> QED BY <2>4, <2>5, <2>6, <2>7
<1>10. ASSUME NEW c \in Clients, NEW i \in Instances, RollbackReply(c, i) PROVE TypeOK'
  <2>1. replies' \in [Clients -> [Instances -> Seq(Reply)]]
    BY <1>10, HeadTailProperties DEF RollbackReply, TypeOK
  <2>2. /\ rollback' \in [Clients -> SUBSET Instances]
        /\ pc' \in [Clients -> {"idle", "waiting", "releasing", "sleeping", "acting"}]
    BY <1>10 DEF RollbackReply, TypeOK
  <2>3. timer' \in [Clients -> Int]
    <3>1. timer' = timer \/ timer' = [timer EXCEPT ![c] = RetryInterval]
      BY <1>10 DEF RollbackReply
    <3>2. timer \in [Clients -> Int] /\ RetryInterval \in Int
      BY ConstantsAssumption DEF TypeOK
    <3> QED BY <3>1, <3>2
  <2> QED BY <1>10, <2>1, <2>2, <2>3 DEF RollbackReply, TypeOK
<1>11. CASE Tick
  <2>1. /\ requests' \in [Clients -> [Instances -> Seq(Request)]]
        /\ replies' \in [Clients -> [Instances -> Seq(Reply)]]
    <3>1. ASSUME NEW c \in Clients
          PROVE  /\ Older(requests[c]) \in [Instances -> Seq(Request)]
                 /\ Older(replies[c]) \in [Instances -> Seq(Reply)]
      BY <1>11, OlderType DEF Tick, NothingOverdue, TypeOK
    <3> QED BY <1>11, <3>1 DEF Tick
  <2>2. ttl' \in [Instances -> Nat]
    BY <1>11 DEF Tick, Less, TypeOK
  <2>3. owner' \in [Instances -> Clients \cup {NoClient}]
    BY <1>11 DEF Tick, TypeOK
  <2>4. timer' \in [Clients -> Int]
    BY <1>0, <1>11 DEF Tick, TypeOK
  <2>5. elapsed' \in [Clients -> 0..MaxElapsed]
    BY <1>11, DerivedConstants DEF Tick, TypeOK
  <2> QED BY <1>11, <2>1, <2>2, <2>3, <2>4, <2>5 DEF Tick, TypeOK
<1>12. CASE UNCHANGED vars
  BY <1>12 DEF vars, TypeOK
<1> QED BY <1>1, <1>2, <1>3, <1>4, <1>5, <1>6, <1>7, <1>8, <1>9, <1>10, <1>11, <1>12 DEF Next

\* Every variable stays within its type, whatever the constants: the counters never
\* leave the naturals, no retry is counted beyond maxRetries and no message is
\* older than the environment allows.
THEOREM TypeCorrect == Spec => []TypeOK
<1>1. Init => TypeOK
  BY TypeInit
<1>2. TypeOK /\ [Next]_vars => TypeOK'
  BY TypeStep
<1> QED BY <1>1, <1>2, PTL DEF Spec

------------------------------------------------------------------------------
(* The SET of one attempt on one connection *)

\* q, the requests or the replies on one connection, holds the SET of attempt a.
HasSet(q, a) == \E k \in DOMAIN q : IsSetOf(q[k], a)

\* ... and not twice.
SetOnce(q, a) == \A k, l \in DOMAIN q : IsSetOf(q[k], a) /\ IsSetOf(q[l], a) => k = l

\* The attempts that the SETs of q are of are among those of M.
SetsOf(q, M) == \A k \in DOMAIN q : q[k].op = "set" => q[k].att \in M

\* Another message at the end of the queue is one more, which must be of M too.
LEMMA AppendSets ==
  ASSUME NEW M, NEW T, NEW q \in Seq(T), NEW m \in T, SetsOf(q, M), m.op = "set" => m.att \in M
  PROVE  SetsOf(Append(q, m), M)
<1>1. /\ Len(q) \in Nat
      /\ DOMAIN q = 1..Len(q)
      /\ DOMAIN Append(q, m) = 1..(Len(q) + 1)
      /\ \A k \in 1..Len(q) : Append(q, m)[k] = q[k]
      /\ Append(q, m)[Len(q) + 1] = m
  BY AppendProperties, LenProperties
<1> QED BY <1>1 DEF SetsOf

\* What leaves was of M, and so is what stays.
LEMMA TailSets ==
  ASSUME NEW M, NEW T, NEW q \in Seq(T), q # <<>>, SetsOf(q, M)
  PROVE  SetsOf(Tail(q), M) /\ (Head(q).op = "set" => Head(q).att \in M)
<1>1. /\ Len(q) \in Nat \ {0}
      /\ DOMAIN q = 1..Len(q)
      /\ DOMAIN Tail(q) = 1..(Len(q) - 1)
      /\ \A k \in 1..(Len(q) - 1) : Tail(q)[k] = q[k + 1]
      /\ Head(q) = q[1]
  BY HeadTailProperties, LenProperties, EmptySeq
<1> QED BY <1>1 DEF SetsOf

\* There is no SET of an attempt that is not in M.
LEMMA NoSuchSet ==
  ASSUME NEW M, NEW q, NEW a, a \notin M, SetsOf(q, M)
  PROVE  ~HasSet(q, a) /\ SetOnce(q, a)
BY DEF SetsOf, HasSet, SetOnce, IsSetOf

\* Another message at the end of the queue changes nothing; a first SET is the only one.
LEMMA AppendSet ==
  ASSUME NEW a, NEW T, NEW q \in Seq(T), NEW m \in T
  PROVE  /\ HasSet(Append(q, m), a) <=> HasSet(q, a) \/ IsSetOf(m, a)
         /\ SetOnce(q, a) /\ ~(HasSet(q, a) /\ IsSetOf(m, a)) => SetOnce(Append(q, m), a)
<1>1. /\ Len(q) \in Nat
      /\ DOMAIN q = 1..Len(q)
      /\ DOMAIN Append(q, m) = 1..(Len(q) + 1)
      /\ \A k \in 1..Len(q) : Append(q, m)[k] = q[k]
      /\ Append(q, m)[Len(q) + 1] = m
  BY AppendProperties, LenProperties
<1>2. HasSet(Append(q, m), a) <=> HasSet(q, a) \/ IsSetOf(m, a)
  BY <1>1 DEF HasSet
<1>3. SetOnce(q, a) /\ ~(HasSet(q, a) /\ IsSetOf(m, a)) => SetOnce(Append(q, m), a)
  BY <1>1 DEF HasSet, SetOnce
<1> QED BY <1>2, <1>3

\* When the oldest message leaves, it takes the SET with it if it is the SET.
LEMMA TailSet ==
  ASSUME NEW a, NEW T, NEW q \in Seq(T), q # <<>>, SetOnce(q, a)
  PROVE  /\ SetOnce(Tail(q), a)
         /\ HasSet(q, a) <=> HasSet(Tail(q), a) \/ IsSetOf(Head(q), a)
         /\ ~(HasSet(Tail(q), a) /\ IsSetOf(Head(q), a))
<1>1. /\ Len(q) \in Nat \ {0}
      /\ DOMAIN q = 1..Len(q)
      /\ DOMAIN Tail(q) = 1..(Len(q) - 1)
      /\ \A k \in 1..(Len(q) - 1) : Tail(q)[k] = q[k + 1]
      /\ Head(q) = q[1]
  BY HeadTailProperties, LenProperties, EmptySeq
<1>2. SetOnce(Tail(q), a)
  BY <1>1 DEF SetOnce
<1>3. HasSet(Tail(q), a) => HasSet(q, a)
  BY <1>1 DEF HasSet
<1>4. IsSetOf(Head(q), a) => HasSet(q, a)
  BY <1>1 DEF HasSet
<1>5. ASSUME HasSet(q, a), ~IsSetOf(Head(q), a) PROVE HasSet(Tail(q), a)
  <2>1. PICK k \in 1..Len(q) : IsSetOf(q[k], a)
    BY <1>1, <1>5 DEF HasSet
  <2>2. k - 1 \in 1..(Len(q) - 1) /\ Tail(q)[k - 1] = q[k]
    BY <1>1, <1>5, <2>1
  <2> QED BY <1>1, <2>1, <2>2 DEF HasSet
<1>6. ~(HasSet(Tail(q), a) /\ IsSetOf(Head(q), a))
  BY <1>1 DEF HasSet, SetOnce
<1> QED BY <1>2, <1>3, <1>4, <1>5, <1>6

\* The end of a lock() call leaves no current SET among the requests.
LEMMA OrphanedSet ==
  ASSUME NEW a \in Nat \ {0}, NEW q \in [Instances -> Seq(Request)], NEW i \in Instances
  PROVE  /\ ~HasSet(Orphaned(q)[i], a) /\ SetOnce(Orphaned(q)[i], a)
         /\ SetsOf(Orphaned(q)[i], {0})
<1>1. ASSUME NEW k \in DOMAIN q[i]
      PROVE  ~IsSetOf([q[i][k] EXCEPT !.att = 0], a) /\ [q[i][k] EXCEPT !.att = 0].att = 0
  <2>1. q[i][k] \in Request
    BY LenProperties, ElementOfSeq
  <2> QED BY <2>1 DEF IsSetOf, Request
<1> QED BY <1>1 DEF Orphaned, HasSet, SetOnce, SetsOf

\* Time moves no message.
LEMMA OlderSet ==
  ASSUME NEW a, NEW T, NEW q \in [Instances -> Seq(T)], NEW i \in Instances,
         T = Request \/ T = Reply
  PROVE  /\ HasSet(Older(q)[i], a) <=> HasSet(q[i], a)
         /\ SetOnce(Older(q)[i], a) <=> SetOnce(q[i], a)
         /\ \A M : SetsOf(Older(q)[i], M) <=> SetsOf(q[i], M)
         /\ DOMAIN Older(q)[i] = DOMAIN q[i]
         /\ \A k \in DOMAIN q[i] : /\ Older(q)[i][k].op = q[i][k].op
                                   /\ Older(q)[i][k].att = q[i][k].att
<1>1. ASSUME NEW k \in DOMAIN q[i]
      PROVE  /\ [q[i][k] EXCEPT !.age = @ + 1].op = q[i][k].op
             /\ [q[i][k] EXCEPT !.age = @ + 1].att = q[i][k].att
  <2>1. q[i][k] \in T
    BY LenProperties, ElementOfSeq
  <2>2. CASE T = Request
    BY <2>1, <2>2 DEF Request
  <2>3. CASE T = Reply
    BY <2>1, <2>3 DEF Reply
  <2> QED BY <2>2, <2>3
<1>2. /\ DOMAIN Older(q)[i] = DOMAIN q[i]
      /\ \A k \in DOMAIN q[i] : Older(q)[i][k] = [q[i][k] EXCEPT !.age = @ + 1]
  BY DEF Older
<1>3. /\ DOMAIN Older(q)[i] = DOMAIN q[i]
      /\ \A k \in DOMAIN q[i] : /\ Older(q)[i][k].op = q[i][k].op
                                /\ Older(q)[i][k].att = q[i][k].att
  BY <1>1, <1>2
<1> HIDE DEF Older
<1>4. \A k \in DOMAIN q[i] : IsSetOf(Older(q)[i][k], a) <=> IsSetOf(q[i][k], a)
  BY <1>3, Zenon DEF IsSetOf
<1>5. HasSet(Older(q)[i], a) <=> HasSet(q[i], a)
  BY <1>3, <1>4, Zenon DEF HasSet
<1>6. SetOnce(Older(q)[i], a) <=> SetOnce(q[i], a)
  BY <1>3, <1>4, Zenon DEF SetOnce
<1>7. \A M : SetsOf(Older(q)[i], M) <=> SetsOf(q[i], M)
  BY <1>3, Zenon DEF SetsOf
<1> QED BY <1>3, <1>5, <1>6, <1>7

------------------------------------------------------------------------------
(* The counters of lock(), through its retries *)

\* The SETs of c are of its attempts so far, and in the replies none is of an earlier call. That of
\* the current attempt is on a connection at most once, on its way to the instance or back; a
\* client between two calls expects nothing.
ConnInv(c) ==
  \A i \in Instances :
    /\ SetsOf(requests[c][i], 0..Attempt(c))
    /\ SetsOf(replies[c][i], 1..Attempt(c))
    /\ SetOnce(requests[c][i], Attempt(c))
    /\ SetOnce(replies[c][i], Attempt(c))
    /\ ~(HasSet(requests[c][i], Attempt(c)) /\ HasSet(replies[c][i], Attempt(c)))
    /\ pc[c] = "idle" => ~HasSet(requests[c][i], Attempt(c)) /\ ~HasSet(replies[c][i], Attempt(c))

\* In the first attempt successCount counts successInstances, and settledCount the instances
\* whose answer is not awaited any more.
CountInv(c) ==
  pc[c] # "idle" /\ retryTimes[c] = 0 =>
    /\ successCount[c] = Cardinality(successInstances[c])
    /\ settledCount[c] + Cardinality(Awaited(c)) = Cardinality(Instances)
    /\ successInstances[c] \cap Awaited(c) = {}

\* What the counters say where lock() has got to.  A retry begins with a quorum of failures
\* counted already: whatever its first answer says, it decides it.
PhaseInv(c) ==
  /\ pc[c] = "idle" => retryTimes[c] = 0
  /\ pc[c] = "waiting" /\ retryTimes[c] = 0 =>
       /\ successCount[c] < QuorumSize
       /\ settledCount[c] - successCount[c] < QuorumSize
  /\ pc[c] = "waiting" /\ retryTimes[c] # 0 =>
       /\ settledCount[c] - successCount[c] >= QuorumSize
       /\ Awaited(c) = Instances
  /\ pc[c] = "acting" /\ retryTimes[c] = 0 => successCount[c] >= QuorumSize
  /\ pc[c] \in {"releasing", "sleeping"} => settledCount[c] - successCount[c] >= QuorumSize

QuorumInv == TypeOK /\ \A c \in Clients : ConnInv(c) /\ CountInv(c) /\ PhaseInv(c)

\* Sizes of sets of instances, and what QuorumSize is.
LEMMA Sizes ==
  /\ Cardinality(Instances) \in Nat
  /\ QuorumSize \in Nat \ {0}
  /\ 2 * QuorumSize > Cardinality(Instances)
  /\ 2 * QuorumSize <= Cardinality(Instances) + 2
  /\ Cardinality(Instances) % 2 = 1 => 2 * QuorumSize = Cardinality(Instances) + 1
  /\ \A S \in SUBSET Instances : IsFiniteSet(S) /\ Cardinality(S) \in Nat
  /\ Cardinality({}) = 0
<1>1. Cardinality(Instances) \in Nat
  BY ConstantsAssumption, FS_CardinalityType
<1>2. \A S \in SUBSET Instances : IsFiniteSet(S) /\ Cardinality(S) \in Nat
  BY ConstantsAssumption, FS_Subset, FS_CardinalityType
<1>3. ASSUME NEW n \in Nat
      PROVE  /\ (n \div 2) + 1 \in Nat \ {0}
             /\ 2 * ((n \div 2) + 1) > n
             /\ 2 * ((n \div 2) + 1) <= n + 2
             /\ n % 2 = 1 => 2 * ((n \div 2) + 1) = n + 1
  OBVIOUS
<1> QED BY <1>1, <1>2, <1>3, FS_EmptySet DEF QuorumSize

\* The awaited instances are those whose connection holds the SET of the current attempt.
LEMMA AwaitedIsHasSet ==
  ASSUME NEW c \in Clients
  PROVE  Awaited(c) = {i \in Instances : \/ HasSet(requests[c][i], Attempt(c))
                                         \/ HasSet(replies[c][i], Attempt(c))}
BY DEF Awaited, HasSet

\* The same after a step.
LEMMA AwaitedIsHasSetPrime ==
  ASSUME NEW c \in Clients
  PROVE  Awaited(c)' = {i \in Instances : \/ HasSet(requests'[c][i], Attempt(c)')
                                          \/ HasSet(replies'[c][i], Attempt(c)')}
BY DEF Awaited, HasSet

\* The attempts are numbers, and stay the same with retryTimes.
LEMMA AttemptType ==
  ASSUME TypeOK, NEW c \in Clients
  PROVE  Attempt(c) \in 1..(MaxRetries + 1) /\ (retryTimes[c] = 0 <=> Attempt(c) = 1)
BY ConstantsAssumption DEF TypeOK, Attempt

\* A step of another client leaves this one's invariant alone.
LEMMA FrameOfClient ==
  ASSUME NEW d \in Clients, ConnInv(d), CountInv(d), PhaseInv(d),
         pc'[d] = pc[d], requests'[d] = requests[d], replies'[d] = replies[d],
         successCount'[d] = successCount[d], settledCount'[d] = settledCount[d],
         successInstances'[d] = successInstances[d], retryTimes'[d] = retryTimes[d]
  PROVE  ConnInv(d)' /\ CountInv(d)' /\ PhaseInv(d)'
<1>1. Awaited(d)' = Awaited(d)
  BY DEF Awaited, Attempt
<1>2. Attempt(d)' = Attempt(d)
  BY DEF Attempt
<1> QED BY <1>1, <1>2 DEF ConnInv, CountInv, PhaseInv

\* The variables of the clients other than c are as they were.
OthersUnchanged(c) ==
  \A d \in Clients \ {c} :
    /\ pc'[d] = pc[d] /\ requests'[d] = requests[d] /\ replies'[d] = replies[d]
    /\ successCount'[d] = successCount[d] /\ settledCount'[d] = settledCount[d]
    /\ successInstances'[d] = successInstances[d] /\ retryTimes'[d] = retryTimes[d]

\* A step of a client that keeps its own part of the invariant, and leaves alone what the parts of
\* the others speak of, keeps the whole.
LEMMA OneClientStep ==
  ASSUME QuorumInv, TypeOK', NEW c \in Clients, OthersUnchanged(c),
         ConnInv(c)', CountInv(c)', PhaseInv(c)'
  PROVE  QuorumInv'
<1>1. ASSUME NEW d \in Clients \ {c}
      PROVE  ConnInv(d)' /\ CountInv(d)' /\ PhaseInv(d)'
  BY FrameOfClient DEF OthersUnchanged, QuorumInv
<1> QED BY <1>1 DEF QuorumInv

\* A step of c that moves no SET and no counter keeps the invariant, if c's new place
\* agrees with the counters.
LEMMA NoSetMoves ==
  ASSUME TypeOK, TypeOK', NEW c \in Clients,
         ConnInv(c), CountInv(c), pc[c] # "idle", pc'[c] # "idle",
         Awaited(c)' = Awaited(c) => PhaseInv(c)',
         \A i \in Instances :
           /\ HasSet(requests'[c][i], Attempt(c)) <=> HasSet(requests[c][i], Attempt(c))
           /\ HasSet(replies'[c][i], Attempt(c)) <=> HasSet(replies[c][i], Attempt(c))
           /\ SetOnce(requests'[c][i], Attempt(c)) /\ SetOnce(replies'[c][i], Attempt(c))
           /\ SetsOf(requests'[c][i], 0..Attempt(c)) /\ SetsOf(replies'[c][i], 1..Attempt(c)),
         retryTimes'[c] = retryTimes[c],
         successCount'[c] = successCount[c], settledCount'[c] = settledCount[c],
         successInstances'[c] = successInstances[c]
  PROVE  ConnInv(c)' /\ CountInv(c)' /\ PhaseInv(c)'
<1>0. Attempt(c)' = Attempt(c)
  BY DEF Attempt
<1>1. ConnInv(c)'
  BY <1>0 DEF ConnInv
<1>2. Awaited(c)' = Awaited(c)
  BY <1>0, AwaitedIsHasSet, AwaitedIsHasSetPrime
<1>3. CountInv(c)'
  BY <1>2 DEF CountInv
<1> QED BY <1>1, <1>2, <1>3

\* The oldest request of c on i goes to the instance and, if awaited, comes back:
\* a current SET becomes a reply, everything else leaves no SET behind.
LEMMA ServeStep ==
  ASSUME QuorumInv, TypeOK',
         NEW c \in Clients, NEW i \in Instances, NEW ok \in BOOLEAN,
         requests[c][i] # <<>>, Serve(c, i, ok),
         UNCHANGED <<lockVars, usingVars>>
  PROVE  QuorumInv'
<1> DEFINE A == Attempt(c)
           req == Head(requests[c][i])
           answer == [op |-> req.op, att |-> req.att, ok |-> ok, age |-> req.age]
<1>1. /\ requests[c][i] \in Seq(Request)
      /\ replies[c][i] \in Seq(Reply)
      /\ req \in Request
      /\ ConnInv(c) /\ CountInv(c) /\ PhaseInv(c)
      /\ TypeOK
  <2>1. TypeOK /\ ConnInv(c) /\ CountInv(c) /\ PhaseInv(c)
    BY DEF QuorumInv
  <2>2. requests[c][i] \in Seq(Request) /\ replies[c][i] \in Seq(Reply)
    BY <2>1 DEF TypeOK
  <2>3. req \in Request
    BY <2>2, HeadTailProperties
  <2> QED BY <2>1, <2>2, <2>3
<1>2. req.op = "set" => req.att \in 0..A
  BY <1>1, TailSets DEF ConnInv
<1>3. OthersUnchanged(c)
  <2>1. requests' = [requests EXCEPT ![c][i] = Tail(@)]
    BY DEF Serve
  <2>2. \/ replies' = [replies EXCEPT ![c][i] = Append(@, answer)]
        \/ replies' = replies
    BY DEF Serve
  <2>3. \A d \in Clients \ {c} : requests'[d] = requests[d] /\ replies'[d] = replies[d]
    BY <1>1, <2>1, <2>2 DEF TypeOK
  <2> QED BY <2>3 DEF OthersUnchanged, lockVars, usingVars
<1>4. /\ \A j \in Instances \ {i} : requests'[c][j] = requests[c][j] /\ replies'[c][j] = replies[c][j]
      /\ requests'[c][i] = Tail(requests[c][i])
      /\ IsAwaited(req) => replies'[c][i] = Append(replies[c][i], answer)
      /\ ~IsAwaited(req) => replies'[c][i] = replies[c][i]
  <2>1. requests' = [requests EXCEPT ![c][i] = Tail(@)]
    BY DEF Serve
  <2>2. /\ IsAwaited(req) => replies' = [replies EXCEPT ![c][i] = Append(@, answer)]
        /\ ~IsAwaited(req) => replies' = replies
    BY DEF Serve
  <2>3. /\ requests \in [Clients -> [Instances -> Seq(Request)]]
        /\ replies \in [Clients -> [Instances -> Seq(Reply)]]
    BY <1>1 DEF TypeOK
  <2> HIDE DEF req, answer
  <2>4. /\ \A j \in Instances \ {i} : requests'[c][j] = requests[c][j]
        /\ requests'[c][i] = Tail(requests[c][i])
    BY <2>1, <2>3
  <2>5. CASE IsAwaited(req)
    <3>1. /\ \A j \in Instances \ {i} : replies'[c][j] = replies[c][j]
          /\ replies'[c][i] = Append(replies[c][i], answer)
      BY <2>2, <2>3, <2>5
    <3> QED BY <2>4, <2>5, <3>1
  <2>6. CASE ~IsAwaited(req)
    BY <2>2, <2>4, <2>6
  <2> QED BY <2>5, <2>6
<1>5. /\ SetsOf(requests'[c][i], 0..A)
      /\ SetOnce(requests'[c][i], A)
      /\ HasSet(requests[c][i], A) <=> HasSet(requests'[c][i], A) \/ IsSetOf(req, A)
      /\ ~(HasSet(requests'[c][i], A) /\ IsSetOf(req, A))
  <2> DEFINE q == requests[c][i]
  <2>1. q \in Seq(Request) /\ q # <<>> /\ SetOnce(q, A) /\ SetsOf(q, 0..A)
    BY <1>1 DEF ConnInv
  <2>2. requests'[c][i] = Tail(q)
    BY <1>4
  <2> HIDE DEF q, A
  <2>3. SetsOf(Tail(q), 0..A)
    BY <2>1, TailSets
  <2>4. /\ SetOnce(Tail(q), A)
        /\ HasSet(q, A) <=> HasSet(Tail(q), A) \/ IsSetOf(Head(q), A)
        /\ ~(HasSet(Tail(q), A) /\ IsSetOf(Head(q), A))
    BY <2>1, TailSet
  <2> QED BY <2>2, <2>3, <2>4 DEF q
<1>6. /\ SetOnce(replies'[c][i], A)
      /\ HasSet(replies'[c][i], A) <=> HasSet(replies[c][i], A) \/ IsSetOf(req, A)
      /\ SetsOf(replies'[c][i], 1..A)
  <2>1. CASE IsAwaited(req)
    <3>1. answer \in Reply
      BY <1>1, <2>1 DEF IsAwaited, Request, Reply
    <3>2. answer.op = "set" => answer.att \in 1..A
      <4>1. A \in Nat
        BY <1>1, AttemptType, ConstantsAssumption
      <4> QED BY <1>2, <2>1, <4>1 DEF IsAwaited
    <3>3. IsSetOf(answer, A) <=> IsSetOf(req, A)
      BY DEF IsSetOf
    <3>4. /\ SetOnce(replies'[c][i], A)
          /\ HasSet(replies'[c][i], A) <=> HasSet(replies[c][i], A) \/ IsSetOf(req, A)
      <4> DEFINE q == replies[c][i]
      <4>1. SetOnce(q, A) /\ ~(HasSet(q, A) /\ IsSetOf(answer, A))
        BY <1>1, <1>5, <3>3 DEF ConnInv
      <4>2. q \in Seq(Reply)
        BY <1>1
      <4> HIDE DEF q, answer
      <4>3. /\ HasSet(Append(q, answer), A) <=> HasSet(q, A) \/ IsSetOf(answer, A)
            /\ SetOnce(Append(q, answer), A)
        BY <3>1, <4>1, <4>2, AppendSet
      <4> QED BY <1>4, <2>1, <3>3, <4>3 DEF q
    <3>5. SetsOf(replies'[c][i], 1..A)
      <4> DEFINE q == replies[c][i]
      <4>1. q \in Seq(Reply) /\ SetsOf(q, 1..A)
        BY <1>1 DEF ConnInv
      <4> HIDE DEF q, answer
      <4>2. SetsOf(Append(q, answer), 1..A)
        BY <3>1, <3>2, <4>1, AppendSets
      <4> QED BY <1>4, <2>1, <4>2 DEF q
    <3> QED BY <3>4, <3>5
  <2>2. CASE ~IsAwaited(req)
    <3>1. A # 0
      BY <1>1, AttemptType, ConstantsAssumption
    <3>2. ~IsSetOf(req, A)
      BY <2>2, <3>1 DEF IsAwaited, IsSetOf
    <3> QED BY <1>1, <1>4, <2>2, <3>2 DEF ConnInv
  <2> QED BY <2>1, <2>2
<1>0. Attempt(c)' = A
  BY DEF Attempt, lockVars
<1>7. ConnInv(c)'
  BY <1>0, <1>1, <1>4, <1>5, <1>6 DEF ConnInv, usingVars
<1>8. Awaited(c)' = Awaited(c)
  <2>1. ASSUME NEW j \in Instances
        PROVE  HasSet(requests'[c][j], A) \/ HasSet(replies'[c][j], A)
                 <=> HasSet(requests[c][j], A) \/ HasSet(replies[c][j], A)
    BY <1>4, <1>5, <1>6
  <2>2. /\ Awaited(c) = {j \in Instances : HasSet(requests[c][j], A) \/ HasSet(replies[c][j], A)}
        /\ Awaited(c)' = {j \in Instances : HasSet(requests'[c][j], A) \/ HasSet(replies'[c][j], A)}
    BY <1>0, AwaitedIsHasSet, AwaitedIsHasSetPrime
  <2> QED BY <2>1, <2>2
<1>9. CountInv(c)' /\ PhaseInv(c)'
  BY <1>1, <1>8 DEF CountInv, PhaseInv, lockVars, usingVars
<1> QED BY <1>3, <1>7, <1>9, OneClientStep

\* A command that is no SET of the current attempt, sent to some instances, leaves the
\* SETs where they are.
LEMMA SendOther ==
  ASSUME NEW a \in Nat \ {0}, NEW M, NEW q \in [Instances -> Seq(Request)], NEW S, NEW i \in Instances,
         NEW op \in Ops \ {"set"}, SetOnce(q[i], a), SetsOf(q[i], M)
  PROVE  /\ SetOnce(Send(q, S, Command(op, 0))[i], a)
         /\ SetsOf(Send(q, S, Command(op, 0))[i], M)
         /\ HasSet(Send(q, S, Command(op, 0))[i], a) <=> HasSet(q[i], a)
<1>1. Command(op, 0) \in Request /\ ~IsSetOf(Command(op, 0), a) /\ Command(op, 0).op # "set"
  <2>1. 0 \in 0..(MaxRetries + 1)
    BY ConstantsAssumption
  <2> QED BY <2>1, CommandType DEF Command, IsSetOf
<1>2. /\ HasSet(Append(q[i], Command(op, 0)), a) <=> HasSet(q[i], a)
      /\ SetOnce(Append(q[i], Command(op, 0)), a)
      /\ SetsOf(Append(q[i], Command(op, 0)), M)
  BY <1>1, AppendSet, AppendSets
<1> QED BY <1>2 DEF Send

\* The SETs of an attempt go out: every instance is awaited.
LEMMA SendSets ==
  ASSUME NEW a \in 1..(MaxRetries + 1), NEW q \in [Instances -> Seq(Request)], NEW i \in Instances,
         SetsOf(q[i], 0..a), ~HasSet(q[i], a), SetOnce(q[i], a)
  PROVE  /\ SetsOf(Send(q, Instances, Command("set", a))[i], 0..a)
         /\ SetOnce(Send(q, Instances, Command("set", a))[i], a)
         /\ HasSet(Send(q, Instances, Command("set", a))[i], a)
<1>1. a \in 0..(MaxRetries + 1) /\ a \in 0..a
  BY ConstantsAssumption
<1>2. /\ Command("set", a) \in Request /\ IsSetOf(Command("set", a), a)
      /\ Command("set", a).att = a
  BY <1>1, CommandType DEF Command, IsSetOf, Ops
<1>3. /\ HasSet(Append(q[i], Command("set", a)), a)
      /\ SetOnce(Append(q[i], Command("set", a)), a)
      /\ SetsOf(Append(q[i], Command("set", a)), 0..a)
  BY <1>1, <1>2, AppendSet, AppendSets
<1> QED BY <1>3 DEF Send

\* A new call of lock(): all of the instances are awaited and none has answered.
LEMMA StartStep ==
  ASSUME QuorumInv, TypeOK', NEW c \in Clients, Start(c)
  PROVE  QuorumInv'
<1>1. TypeOK /\ ConnInv(c) /\ PhaseInv(c) /\ requests[c] \in [Instances -> Seq(Request)]
  BY DEF QuorumInv, TypeOK
<1>2. OthersUnchanged(c)
  BY <1>1 DEF Start, OthersUnchanged, TypeOK
<1>3. /\ pc[c] = "idle" /\ pc'[c] = "waiting"
      /\ retryTimes[c] = 0 /\ retryTimes'[c] = 0
      /\ successCount'[c] = 0 /\ settledCount'[c] = 0 /\ successInstances'[c] = {}
      /\ replies' = replies
      /\ requests'[c] = Send(requests[c], Instances, Command("set", 1))
  BY <1>1 DEF Start, PhaseInv, TypeOK
<1>4. Attempt(c) = 1 /\ Attempt(c)' = 1
  BY <1>3 DEF Attempt
<1>5. ASSUME NEW i \in Instances
      PROVE  /\ SetsOf(requests'[c][i], 0..1) /\ SetOnce(requests'[c][i], 1)
             /\ HasSet(requests'[c][i], 1)
             /\ ~HasSet(replies'[c][i], 1)
  <2>1. /\ SetsOf(requests[c][i], 0..1) /\ SetOnce(requests[c][i], 1)
        /\ ~HasSet(requests[c][i], 1) /\ ~HasSet(replies[c][i], 1)
    BY <1>1, <1>3, <1>4 DEF ConnInv
  <2>2. 1 \in 1..(MaxRetries + 1)
    BY ConstantsAssumption
  <2> QED BY <1>1, <1>3, <2>1, <2>2, SendSets
<1>6. ConnInv(c)'
  BY <1>1, <1>3, <1>4, <1>5 DEF ConnInv
<1>7. Awaited(c)' = Instances
  BY <1>4, <1>5, AwaitedIsHasSetPrime
<1>8. CountInv(c)' /\ PhaseInv(c)'
  BY <1>3, <1>7, Sizes DEF CountInv, PhaseInv
<1> QED BY <1>2, <1>6, <1>8, OneClientStep

\* The loop of lock() goes round: all of the instances are awaited again, and what has failed so
\* far goes on to count.
LEMMA RetryStep ==
  ASSUME QuorumInv, TypeOK', NEW c \in Clients, Retry(c)
  PROVE  QuorumInv'
<1> DEFINE a == Attempt(c) + 1
<1>1. TypeOK /\ ConnInv(c) /\ PhaseInv(c) /\ requests[c] \in [Instances -> Seq(Request)]
  BY DEF QuorumInv, TypeOK
<1>2. OthersUnchanged(c)
  BY <1>1 DEF Retry, OthersUnchanged, TypeOK
<1>3. /\ pc[c] = "sleeping" /\ pc'[c] = "waiting"
      /\ retryTimes'[c] = retryTimes[c] + 1
      /\ successCount'[c] = successCount[c] /\ settledCount'[c] = settledCount[c]
      /\ replies' = replies
      /\ requests'[c] = Send(requests[c], Instances, Command("set", a))
  BY <1>1 DEF Retry, TypeOK
<1>4. /\ retryTimes'[c] # 0 /\ Attempt(c) \in Nat /\ a \in 1..(MaxRetries + 1)
      /\ Attempt(c)' = a /\ a \notin 0..Attempt(c) /\ a \notin 1..Attempt(c)
      /\ 0..Attempt(c) \subseteq 0..a /\ 1..Attempt(c) \subseteq 1..a
  <2>1. retryTimes[c] \in Nat /\ retryTimes'[c] \in 0..MaxRetries
    BY <1>1, ConstantsAssumption DEF TypeOK
  <2> QED BY <1>3, <2>1, ConstantsAssumption DEF Attempt
<1> HIDE DEF a
<1>5. ASSUME NEW i \in Instances
      PROVE  /\ SetsOf(requests'[c][i], 0..a) /\ SetsOf(replies'[c][i], 1..a)
             /\ SetOnce(requests'[c][i], a) /\ SetOnce(replies'[c][i], a)
             /\ HasSet(requests'[c][i], a)
             /\ ~HasSet(replies'[c][i], a)
  <2>1. SetsOf(requests[c][i], 0..Attempt(c)) /\ SetsOf(replies[c][i], 1..Attempt(c))
    BY <1>1 DEF ConnInv
  <2>2. /\ ~HasSet(requests[c][i], a) /\ SetOnce(requests[c][i], a)
        /\ ~HasSet(replies[c][i], a) /\ SetOnce(replies[c][i], a)
    BY <1>4, <2>1, NoSuchSet
  <2>3. SetsOf(requests[c][i], 0..a) /\ SetsOf(replies[c][i], 1..a)
    BY <1>4, <2>1 DEF SetsOf
  <2> QED BY <1>1, <1>3, <1>4, <2>2, <2>3, SendSets
<1>6. ConnInv(c)'
  BY <1>3, <1>4, <1>5 DEF ConnInv
<1>7. Awaited(c)' = Instances
  BY <1>4, <1>5, AwaitedIsHasSetPrime
<1>8. CountInv(c)' /\ PhaseInv(c)'
  BY <1>1, <1>3, <1>4, <1>7 DEF CountInv, PhaseInv
<1> QED BY <1>2, <1>6, <1>8, OneClientStep

\* A call of using() ends: nothing is awaited any more.
LEMMA ForgetStep ==
  ASSUME QuorumInv, TypeOK', NEW c \in Clients, GiveUp(c) \/ FinishAction(c)
  PROVE  QuorumInv'
<1>1. TypeOK
  BY DEF QuorumInv
<1>2. /\ OthersUnchanged(c) /\ pc'[c] = "idle" /\ retryTimes'[c] = 0
      /\ replies'[c] = [i \in Instances |-> <<>>]
  <2>1. Forget(c) /\ \A d \in Clients \ {c} : requests'[d] = requests[d]
    BY <1>1 DEF GiveUp, FinishAction, TypeOK
  <2> QED BY <1>1, <2>1 DEF Forget, OthersUnchanged, TypeOK
<1>3. ASSUME NEW i \in Instances
      PROVE  /\ SetOnce(requests'[c][i], 1) /\ ~HasSet(requests'[c][i], 1)
             /\ SetsOf(requests'[c][i], {0})
  <2>1. requests[c] \in [Instances -> Seq(Request)]
    BY <1>1 DEF TypeOK
  <2>2. /\ ~HasSet(Orphaned(requests[c])[i], 1) /\ SetOnce(Orphaned(requests[c])[i], 1)
        /\ SetsOf(Orphaned(requests[c])[i], {0})
    BY <2>1, OrphanedSet
  <2>3. CASE GiveUp(c)
    BY <1>1, <2>2, <2>3 DEF GiveUp, TypeOK
  <2>4. CASE FinishAction(c)
    <3>1. Orphaned(requests[c]) \in [Instances -> Seq(Request)]
      BY <2>1, OrphanedType
    <3>2. requests'[c] = Send(Orphaned(requests[c]), Instances, Command("release", 0))
      BY <1>1, <2>4 DEF FinishAction, TypeOK
    <3> QED BY <2>2, <3>1, <3>2, SendOther DEF Ops
  <2> QED BY <2>3, <2>4
<1>4. ASSUME NEW i \in Instances
      PROVE  SetOnce(replies'[c][i], 1) /\ ~HasSet(replies'[c][i], 1) /\ SetsOf(replies'[c][i], 1..1)
  BY <1>2 DEF HasSet, SetOnce, SetsOf
<1>5. ConnInv(c)'
  <2>1. Attempt(c)' = 1
    BY <1>2 DEF Attempt
  <2>2. \A i \in Instances : SetsOf(requests'[c][i], 0..1)
    BY <1>3 DEF SetsOf
  <2> QED BY <1>2, <1>3, <1>4, <2>1, <2>2 DEF ConnInv
<1>6. CountInv(c)' /\ PhaseInv(c)'
  BY <1>2 DEF CountInv, PhaseInv
<1> QED BY <1>2, <1>5, <1>6, OneClientStep

\* The extension timer sends PEXPIREs, which are no SETs, or nothing.
LEMMA ExtensionStep ==
  ASSUME QuorumInv, TypeOK', NEW c \in Clients, Extend(c) \/ StopExtending(c)
  PROVE  QuorumInv'
<1> DEFINE A == Attempt(c)
<1>1. TypeOK /\ ConnInv(c) /\ CountInv(c) /\ PhaseInv(c)
  BY DEF QuorumInv
<1>0. A \in Nat \ {0}
  BY <1>1, AttemptType, ConstantsAssumption
<1>2. /\ UNCHANGED <<pc, successCount, settledCount, successInstances, retryTimes, replies>>
      /\ pc[c] = "acting"
      /\ \A d \in Clients \ {c} : requests'[d] = requests[d]
  BY <1>1 DEF Extend, StopExtending, TypeOK, lockVars, connVars
<1>3. ASSUME NEW i \in Instances
      PROVE  /\ SetOnce(requests'[c][i], A) /\ SetsOf(requests'[c][i], 0..A)
             /\ HasSet(requests'[c][i], A) <=> HasSet(requests[c][i], A)
  <2>1. requests[c] \in [Instances -> Seq(Request)] /\ SetOnce(requests[c][i], A) /\ SetsOf(requests[c][i], 0..A)
    BY <1>1 DEF TypeOK, ConnInv
  <2>2. CASE Extend(c)
    <3>1. requests'[c] = Send(requests[c], Instances, Command("pexpire", 0))
      BY <1>1, <2>2 DEF Extend, TypeOK
    <3> HIDE DEF A
    <3>2. Send(requests[c], Instances, Command("pexpire", 0))[i] = requests'[c][i]
      BY <2>1, <3>1
    <3> DEFINE q == requests[c]
               M == 0..A
    <3>3. /\ q \in [Instances -> Seq(Request)] /\ SetOnce(q[i], A) /\ SetsOf(q[i], M)
          /\ "pexpire" \in Ops \ {"set"}
      BY <2>1 DEF Ops
    <3> HIDE DEF q, M
    <3>4. /\ SetOnce(Send(q, Instances, Command("pexpire", 0))[i], A)
          /\ SetsOf(Send(q, Instances, Command("pexpire", 0))[i], M)
          /\ HasSet(Send(q, Instances, Command("pexpire", 0))[i], A) <=> HasSet(q[i], A)
      BY <1>0, <3>3, SendOther
    <3> QED BY <3>2, <3>4 DEF q, M
  <2>3. CASE StopExtending(c)
    BY <2>1, <2>3 DEF StopExtending, connVars
  <2> QED BY <2>2, <2>3
<1>4. Awaited(c)' = Awaited(c) => PhaseInv(c)'
  BY <1>1, <1>2 DEF PhaseInv
<1>5. \A i \in Instances :
        /\ SetOnce(replies[c][i], A)
        /\ SetsOf(replies[c][i], 1..A)
  BY <1>1 DEF ConnInv
<1>6. ConnInv(c)' /\ CountInv(c)' /\ PhaseInv(c)'
  BY <1>1, <1>2, <1>3, <1>4, <1>5, NoSetMoves
<1> QED BY <1>2, <1>6, OneClientStep DEF OthersUnchanged

\* A DEL of the rollback has settled.
LEMMA RollbackReplyStep ==
  ASSUME QuorumInv, TypeOK', NEW c \in Clients, NEW i \in Instances,
         RollbackReply(c, i)
  PROVE  QuorumInv'
<1> DEFINE A == Attempt(c)
<1>1. TypeOK /\ ConnInv(c) /\ CountInv(c) /\ PhaseInv(c) /\ replies[c][i] \in Seq(Reply)
  BY DEF QuorumInv, TypeOK
<1>2. /\ UNCHANGED <<successCount, settledCount, successInstances, retryTimes, requests>>
      /\ pc[c] = "releasing" /\ pc'[c] \in {"releasing", "sleeping"}
      /\ \A d \in Clients \ {c} : pc'[d] = pc[d] /\ replies'[d] = replies[d]
      /\ \A j \in Instances \ {i} : replies'[c][j] = replies[c][j]
      /\ replies'[c][i] = Tail(replies[c][i])
      /\ replies[c][i] # <<>>
      /\ Head(replies[c][i]).op = "del"
  <2>1. /\ pc[c] = "releasing"
        /\ \/ pc' = [pc EXCEPT ![c] = "sleeping"]
           \/ pc' = pc
    BY DEF RollbackReply
  <2>2. replies' = [replies EXCEPT ![c][i] = Tail(@)]
    BY DEF RollbackReply
  <2>3. pc'[c] \in {"releasing", "sleeping"} /\ \A d \in Clients \ {c} : pc'[d] = pc[d]
    BY <1>1, <2>1 DEF TypeOK
  <2>4. /\ \A d \in Clients \ {c} : replies'[d] = replies[d]
        /\ \A j \in Instances \ {i} : replies'[c][j] = replies[c][j]
        /\ replies'[c][i] = Tail(replies[c][i])
    BY <1>1, <2>2 DEF TypeOK
  <2> QED BY <2>3, <2>4 DEF RollbackReply
<1>3. /\ SetOnce(replies'[c][i], A)
      /\ HasSet(replies'[c][i], A) <=> HasSet(replies[c][i], A)
  <2>1. ~IsSetOf(Head(replies[c][i]), A)
    BY <1>2 DEF IsSetOf
  <2> QED BY <1>1, <1>2, <2>1, TailSet DEF ConnInv
<1>4. SetsOf(replies'[c][i], 1..A)
  BY <1>1, <1>2, TailSets DEF ConnInv
<1>5. Awaited(c)' = Awaited(c) => PhaseInv(c)'
  BY <1>1, <1>2 DEF PhaseInv
<1>6. ASSUME NEW j \in Instances
      PROVE  /\ HasSet(requests'[c][j], A) <=> HasSet(requests[c][j], A)
             /\ HasSet(replies'[c][j], A) <=> HasSet(replies[c][j], A)
             /\ SetOnce(requests'[c][j], A) /\ SetOnce(replies'[c][j], A)
             /\ SetsOf(requests'[c][j], 0..A) /\ SetsOf(replies'[c][j], 1..A)
  <2>1. CASE j = i
    BY <1>1, <1>2, <1>3, <1>4, <2>1 DEF ConnInv
  <2>2. CASE j # i
    BY <1>1, <1>2, <2>2 DEF ConnInv
  <2> QED BY <2>1, <2>2
<1>7. ConnInv(c)' /\ CountInv(c)' /\ PhaseInv(c)'
  BY <1>1, <1>2, <1>5, <1>6, NoSetMoves
<1> QED BY <1>2, <1>7, OneClientStep DEF OthersUnchanged

\* Time passes.
LEMMA TickStep ==
  ASSUME QuorumInv, TypeOK', Tick
  PROVE  QuorumInv'
<1> SUFFICES ASSUME NEW c \in Clients PROVE ConnInv(c)' /\ CountInv(c)' /\ PhaseInv(c)'
  BY DEF QuorumInv
<1>1. TypeOK /\ ConnInv(c) /\ CountInv(c) /\ PhaseInv(c)
  BY DEF QuorumInv
<1>2. /\ UNCHANGED <<pc, successCount, settledCount, successInstances, retryTimes>>
      /\ requests'[c] = Older(requests[c]) /\ replies'[c] = Older(replies[c])
      /\ requests[c] \in [Instances -> Seq(Request)]
      /\ replies[c] \in [Instances -> Seq(Reply)]
  BY <1>1 DEF Tick, TypeOK, lockVars
<1> DEFINE A == Attempt(c)
<1>0. Attempt(c)' = A
  BY <1>2 DEF Attempt
<1>3. ASSUME NEW i \in Instances
      PROVE  /\ HasSet(requests'[c][i], A) <=> HasSet(requests[c][i], A)
             /\ HasSet(replies'[c][i], A) <=> HasSet(replies[c][i], A)
             /\ SetOnce(requests'[c][i], A) /\ SetOnce(replies'[c][i], A)
             /\ SetsOf(requests'[c][i], 0..A) /\ SetsOf(replies'[c][i], 1..A)
  <2>1. /\ SetOnce(requests[c][i], A) /\ SetOnce(replies[c][i], A)
        /\ SetsOf(requests[c][i], 0..A) /\ SetsOf(replies[c][i], 1..A)
    BY <1>1 DEF ConnInv
  <2> HIDE DEF A
  <2>2. /\ HasSet(Older(requests[c])[i], A) <=> HasSet(requests[c][i], A)
        /\ SetOnce(Older(requests[c])[i], A) <=> SetOnce(requests[c][i], A)
        /\ \A M : SetsOf(Older(requests[c])[i], M) <=> SetsOf(requests[c][i], M)
    BY <1>2, OlderSet
  <2>3. /\ HasSet(Older(replies[c])[i], A) <=> HasSet(replies[c][i], A)
        /\ SetOnce(Older(replies[c])[i], A) <=> SetOnce(replies[c][i], A)
        /\ \A M : SetsOf(Older(replies[c])[i], M) <=> SetsOf(replies[c][i], M)
    BY <1>2, OlderSet
  <2> QED BY <1>2, <2>1, <2>2, <2>3
<1>5. ConnInv(c)'
  BY <1>0, <1>1, <1>2, <1>3 DEF ConnInv
<1>6. Awaited(c)' = Awaited(c)
  <2>1. Awaited(c) = {i \in Instances : HasSet(requests[c][i], A) \/ HasSet(replies[c][i], A)}
    BY AwaitedIsHasSet
  <2>2. Awaited(c)' = {i \in Instances : HasSet(requests'[c][i], A) \/ HasSet(replies'[c][i], A)}
    BY <1>0, AwaitedIsHasSetPrime
  <2> HIDE DEF A
  <2> QED BY <1>3, <2>1, <2>2
<1>7. CountInv(c)' /\ PhaseInv(c)'
  BY <1>1, <1>2, <1>6 DEF CountInv, PhaseInv
<1> QED BY <1>5, <1>7

\* The answer of one instance: it is counted once, as a success or not, and the
\* attempt is decided as soon as the counters decide it.
LEMMA LockReplyStep ==
  ASSUME QuorumInv, TypeOK', NEW c \in Clients, NEW i \in Instances,
         LockReply(c, i)
  PROVE  QuorumInv'
<1> DEFINE A == Attempt(c)
           reply == Head(replies[c][i])
           current == reply.att = A
           gain == IF reply.ok /\ current THEN {i} ELSE {}
           S == successInstances[c] \cup gain
<1>1. /\ TypeOK /\ ConnInv(c) /\ CountInv(c) /\ PhaseInv(c)
      /\ replies[c][i] \in Seq(Reply) /\ replies[c][i] # <<>>
      /\ requests[c] \in [Instances -> Seq(Request)]
  <2>1. TypeOK /\ ConnInv(c) /\ CountInv(c) /\ PhaseInv(c)
    BY DEF QuorumInv
  <2>2. replies[c][i] \in Seq(Reply) /\ requests[c] \in [Instances -> Seq(Request)]
    BY <2>1 DEF TypeOK
  <2> QED BY <2>1, <2>2 DEF LockReply
<1>2. reply \in Reply /\ reply.op = "set" /\ reply.att \in 1..A /\ reply.ok \in BOOLEAN
  <2>1. reply \in Reply
    BY <1>1, HeadTailProperties
  <2>2. reply.op = "set" => reply.att \in 1..A
    BY <1>1, TailSets DEF ConnInv
  <2> QED BY <2>1, <2>2 DEF Reply, LockReply
<1>3. A \in Nat /\ (retryTimes[c] = 0 <=> A = 1)
  BY <1>1, AttemptType, ConstantsAssumption
<1>4. current <=> IsSetOf(reply, A)
  BY <1>2 DEF IsSetOf
<1>5. /\ current => HasSet(replies[c][i], A) /\ i \in Awaited(c)
      /\ pc[c] # "idle"
      /\ retryTimes[c] = 0 => current
  <2>1. current => HasSet(replies[c][i], A)
    BY <1>1, <1>4, TailSet DEF ConnInv
  <2>2. retryTimes[c] = 0 => current
    BY <1>2, <1>3
  <2>3. pc[c] # "idle"
    BY <1>1, <2>1, <2>2 DEF ConnInv, PhaseInv
  <2>4. HasSet(replies[c][i], A) => i \in Awaited(c)
    BY AwaitedIsHasSet
  <2> QED BY <2>1, <2>2, <2>3, <2>4
<1>0. Attempt(c)' = A
  BY DEF Attempt, LockReply
<1>6. /\ UNCHANGED retryTimes
      /\ \A d \in Clients \ {c} : /\ successCount'[d] = successCount[d]
                                  /\ settledCount'[d] = settledCount[d]
                                  /\ successInstances'[d] = successInstances[d]
                                  /\ replies'[d] = replies[d]
      /\ successCount'[c] = successCount[c] + (IF reply.ok THEN 1 ELSE 0)
      /\ settledCount'[c] = settledCount[c] + 1
      /\ successInstances'[c] = S
      /\ \A j \in Instances \ {i} : replies'[c][j] = replies[c][j]
      /\ replies'[c][i] = Tail(replies[c][i])
  <2>1. replies' = [replies EXCEPT ![c][i] = Tail(@)] /\ UNCHANGED retryTimes
    BY DEF LockReply
  <2>2. /\ successCount' = [successCount EXCEPT ![c] =
             successCount[c] + (IF reply.ok THEN 1 ELSE 0)]
        /\ settledCount' = [settledCount EXCEPT ![c] = settledCount[c] + 1]
        /\ successInstances' = [successInstances EXCEPT ![c] = S]
    BY DEF LockReply
  <2> QED BY <1>1, <2>1, <2>2 DEF TypeOK
<1> DEFINE success == successCount'[c]
           settled == settledCount'[c]
<1>7. \/ pc[c] = "waiting" /\ current /\ QuorumReached(success, settled) /\ Acquire(c)
      \/ pc[c] = "waiting" /\ current /\ QuorumLost(success, settled) /\ RollBack(c, S)
      \/ /\ pc[c] = "waiting" /\ current => ~QuorumReached(success, settled) /\ ~QuorumLost(success, settled)
         /\ UNCHANGED <<pc, requests>>
  BY <1>6 DEF LockReply
<1>8. ASSUME NEW j \in Instances
      PROVE  /\ SetOnce(requests'[c][j], A) /\ SetsOf(requests'[c][j], 0..A)
             /\ HasSet(requests'[c][j], A) <=> HasSet(requests[c][j], A)
  <2>1. SetOnce(requests[c][j], A) /\ SetsOf(requests[c][j], 0..A)
    BY <1>1 DEF ConnInv
  <2>2. CASE RollBack(c, S)
    <3>1. requests'[c] = Send(requests[c], S, Command("del", 0))
      BY <1>1, <2>2 DEF RollBack, TypeOK
    <3>2. /\ SetOnce(Send(requests[c], S, Command("del", 0))[j], A)
          /\ SetsOf(Send(requests[c], S, Command("del", 0))[j], 0..A)
          /\ HasSet(Send(requests[c], S, Command("del", 0))[j], A) <=> HasSet(requests[c][j], A)
      <4>1. A \in Nat \ {0}
        BY <1>2, <1>3
      <4> HIDE DEF S, A
      <4> QED BY <1>1, <2>1, <4>1, SendOther DEF Ops
    <3> QED BY <3>1, <3>2
  <2>3. CASE UNCHANGED requests
    BY <2>1, <2>3
  <2> QED BY <1>7, <2>2, <2>3 DEF Acquire
<1>9. /\ pc'[c] # "idle"
      /\ \A d \in Clients \ {c} : pc'[d] = pc[d] /\ requests'[d] = requests[d]
  <2>1. CASE Acquire(c)
    BY <1>1, <2>1 DEF Acquire, TypeOK
  <2>2. CASE RollBack(c, S)
    BY <1>1, <2>2 DEF RollBack, TypeOK
  <2>3. CASE UNCHANGED <<pc, requests>>
    BY <1>5, <2>3
  <2> QED BY <1>7, <2>1, <2>2, <2>3
<1>10. OthersUnchanged(c)
  BY <1>6, <1>9 DEF OthersUnchanged
<1>11. /\ SetOnce(replies'[c][i], A)
       /\ current => ~HasSet(replies'[c][i], A)
       /\ ~current => (HasSet(replies'[c][i], A) <=> HasSet(replies[c][i], A))
       /\ SetsOf(replies'[c][i], 1..A)
  <2>1. /\ SetOnce(replies[c][i], A) /\ SetsOf(replies[c][i], 1..A)
    BY <1>1 DEF ConnInv
  <2>2. /\ SetOnce(Tail(replies[c][i]), A) /\ SetsOf(Tail(replies[c][i]), 1..A)
        /\ HasSet(replies[c][i], A) <=> HasSet(Tail(replies[c][i]), A) \/ IsSetOf(reply, A)
        /\ ~(HasSet(Tail(replies[c][i]), A) /\ IsSetOf(reply, A))
    BY <1>1, <2>1, TailSet, TailSets
  <2> QED BY <1>4, <1>6, <2>2
<1>12. ConnInv(c)'
  <2> SUFFICES ASSUME NEW j \in Instances
               PROVE  /\ SetOnce(replies'[c][j], A)
                      /\ ~(HasSet(requests'[c][j], A) /\ HasSet(replies'[c][j], A))
                      /\ SetsOf(replies'[c][j], 1..A)
    BY <1>0, <1>8, <1>9 DEF ConnInv
  <2>1. CASE j = i
    <3>1. ~(HasSet(requests[c][i], A) /\ HasSet(replies[c][i], A))
      BY <1>1 DEF ConnInv
    <3> QED BY <1>8, <1>11, <2>1, <3>1
  <2>2. CASE j # i
    BY <1>1, <1>6, <1>8, <2>2 DEF ConnInv
  <2> QED BY <2>1, <2>2
<1>13. Awaited(c)' = IF current THEN Awaited(c) \ {i} ELSE Awaited(c)
  <2>1. current => ~HasSet(requests'[c][i], A) /\ ~HasSet(replies'[c][i], A)
    BY <1>1, <1>5, <1>8, <1>11 DEF ConnInv
  <2>2. ~current => (HasSet(requests'[c][i], A) \/ HasSet(replies'[c][i], A)
                       <=> HasSet(requests[c][i], A) \/ HasSet(replies[c][i], A))
    BY <1>8, <1>11
  <2>3. ASSUME NEW j \in Instances \ {i}
        PROVE  HasSet(requests'[c][j], A) \/ HasSet(replies'[c][j], A)
                 <=> HasSet(requests[c][j], A) \/ HasSet(replies[c][j], A)
    BY <1>6, <1>8
  <2>4. /\ Awaited(c) = {j \in Instances : HasSet(requests[c][j], A) \/ HasSet(replies[c][j], A)}
        /\ Awaited(c)' = {j \in Instances : HasSet(requests'[c][j], A) \/ HasSet(replies'[c][j], A)}
    BY <1>0, AwaitedIsHasSet, AwaitedIsHasSetPrime
  <2> HIDE DEF current, A
  <2>5. CASE current
    BY <2>1, <2>3, <2>4, <2>5
  <2>6. CASE ~current
    BY <2>2, <2>3, <2>4, <2>6
  <2> QED BY <2>5, <2>6
<1>14. CountInv(c)'
  <2> SUFFICES ASSUME retryTimes[c] = 0
               PROVE  /\ successCount'[c] = Cardinality(successInstances'[c])
                      /\ settledCount'[c] + Cardinality(Awaited(c)') = Cardinality(Instances)
                      /\ successInstances'[c] \cap Awaited(c)' = {}
    BY <1>6 DEF CountInv
  <2>0. current /\ Awaited(c)' = Awaited(c) \ {i} /\ i \in Awaited(c)
    BY <1>5, <1>13
  <2>1. /\ successInstances[c] \in SUBSET Instances /\ Awaited(c) \in SUBSET Instances
        /\ successCount[c] \in Nat /\ settledCount[c] \in Nat
    BY <1>1 DEF TypeOK, Awaited
  <2>2. /\ successCount[c] = Cardinality(successInstances[c])
        /\ settledCount[c] + Cardinality(Awaited(c)) = Cardinality(Instances)
        /\ successInstances[c] \cap Awaited(c) = {}
    BY <1>1, <1>5 DEF CountInv
  <2>3. Cardinality(Awaited(c) \ {i}) = Cardinality(Awaited(c)) - 1
    BY <2>0, <2>1, Sizes, FS_RemoveElement
  <2>4. Cardinality(successInstances[c] \cup {i}) = Cardinality(successInstances[c]) + 1
    BY <2>0, <2>1, <2>2, Sizes, FS_AddElement
  <2>5. successCount'[c] = Cardinality(successInstances'[c])
    BY <1>2, <1>6, <2>0, <2>2, <2>4
  <2>6. settledCount'[c] + Cardinality(Awaited(c)') = Cardinality(Instances)
    BY <1>6, <2>0, <2>1, <2>2, <2>3, Sizes
  <2>7. successInstances'[c] \cap Awaited(c)' = {}
    BY <1>6, <2>0, <2>2
  <2> QED BY <2>5, <2>6, <2>7
<1>15. PhaseInv(c)'
  <2>1. /\ successCount[c] \in Nat /\ settledCount[c] \in Nat
        /\ success \in Nat /\ settled \in Nat
        /\ success >= successCount[c]
        /\ settled - success >= settledCount[c] - successCount[c]
        /\ QuorumSize \in Nat
    <3>1. successCount[c] \in Nat /\ settledCount[c] \in Nat /\ QuorumSize \in Nat
      BY <1>1, Sizes DEF TypeOK
    <3> HIDE DEF reply
    <3> QED BY <1>2, <1>6, <3>1
  <2>2. CASE pc[c] = "waiting" /\ QuorumReached(success, settled) /\ Acquire(c)
    BY <1>1, <2>2 DEF Acquire, QuorumReached, PhaseInv, TypeOK
  <2>3. CASE pc[c] = "waiting" /\ QuorumLost(success, settled) /\ RollBack(c, S)
    BY <1>1, <2>3 DEF RollBack, QuorumLost, PhaseInv, TypeOK
  <2>4. CASE /\ pc[c] = "waiting" /\ current => ~QuorumReached(success, settled) /\ ~QuorumLost(success, settled)
             /\ UNCHANGED <<pc, requests>>
    <3>1. pc'[c] = pc[c] /\ retryTimes'[c] = retryTimes[c] /\ pc[c] # "idle"
      BY <1>5, <1>6, <2>4
    <3>2. ASSUME pc[c] = "waiting", retryTimes[c] = 0
          PROVE  success < QuorumSize /\ settled - success < QuorumSize
      BY <1>5, <2>1, <2>4, <3>2 DEF QuorumReached, QuorumLost
    <3>3. ASSUME pc[c] = "waiting", retryTimes[c] # 0
          PROVE  settled - success >= QuorumSize /\ Awaited(c)' = Instances
      <4>1. settledCount[c] - successCount[c] >= QuorumSize /\ Awaited(c) = Instances
        BY <1>1, <3>3 DEF PhaseInv
      <4>2. settled - success >= QuorumSize
        BY <2>1, <4>1
      <4>3. ~current
        BY <2>1, <2>4, <3>3, <4>2 DEF QuorumReached, QuorumLost
      <4> QED BY <1>13, <4>1, <4>2, <4>3
    <3>4. pc[c] = "acting" /\ retryTimes[c] = 0 => success >= QuorumSize
      BY <1>1, <2>1 DEF PhaseInv
    <3>5. pc[c] \in {"releasing", "sleeping"} => settled - success >= QuorumSize
      BY <1>1, <2>1 DEF PhaseInv
    <3> QED BY <3>1, <3>2, <3>3, <3>4, <3>5 DEF PhaseInv
  <2> QED BY <1>7, <2>2, <2>3, <2>4
<1> QED BY <1>10, <1>12, <1>14, <1>15, OneClientStep

\* Every step keeps the votes with their clients.
LEMMA QuorumStep == QuorumInv /\ [Next]_vars => QuorumInv'
<1> SUFFICES ASSUME QuorumInv, [Next]_vars PROVE QuorumInv'
  OBVIOUS
<1>1. TypeOK'
  BY TypeStep DEF QuorumInv
<1>2. ASSUME NEW c \in Clients, Start(c) PROVE QuorumInv'
  BY <1>1, <1>2, StartStep
<1>3. ASSUME NEW c \in Clients, Retry(c) PROVE QuorumInv'
  BY <1>1, <1>3, RetryStep
<1>4. ASSUME NEW c \in Clients, GiveUp(c) \/ FinishAction(c) PROVE QuorumInv'
  BY <1>1, <1>4, ForgetStep
<1>5. ASSUME NEW c \in Clients, Extend(c) \/ StopExtending(c) PROVE QuorumInv'
  BY <1>1, <1>5, ExtensionStep
<1>6. ASSUME NEW c \in Clients, NEW i \in Instances, Execute(c, i) PROVE QuorumInv'
  BY <1>1, <1>6, ServeStep DEF Execute
<1>7. ASSUME NEW c \in Clients, NEW i \in Instances, Fail(c, i) PROVE QuorumInv'
  BY <1>1, <1>7, ServeStep DEF Fail
<1>8. ASSUME NEW c \in Clients, NEW i \in Instances, LockReply(c, i) PROVE QuorumInv'
  BY <1>1, <1>8, LockReplyStep
<1>9. ASSUME NEW c \in Clients, NEW i \in Instances, RollbackReply(c, i) PROVE QuorumInv'
  BY <1>1, <1>9, RollbackReplyStep
<1>10. CASE Tick
  BY <1>1, <1>10, TickStep
<1>11. CASE UNCHANGED vars
  <2> USE DEF vars, lockVars, usingVars, connVars
  <2>1. \A c \in Clients : Awaited(c)' = Awaited(c) /\ Attempt(c)' = Attempt(c)
    BY <1>11 DEF Awaited, Attempt
  <2> QED BY <1>1, <1>11, <2>1 DEF QuorumInv, ConnInv, CountInv, PhaseInv
<1> QED BY <1>2, <1>3, <1>4, <1>5, <1>6, <1>7, <1>8, <1>9, <1>10, <1>11 DEF Next

\* Nobody has a vote at first.
LEMMA QuorumInit == Init => QuorumInv
<1> SUFFICES ASSUME Init PROVE QuorumInv
  OBVIOUS
<1>1. TypeOK
  BY TypeInit
<1>2. ASSUME NEW c \in Clients PROVE ConnInv(c) /\ CountInv(c) /\ PhaseInv(c)
  BY DEF Init, ConnInv, CountInv, PhaseInv, HasSet, SetOnce, SetsOf
<1> QED BY <1>1, <1>2 DEF QuorumInv

\* The quorum argument holds of every behaviour.
LEMMA QuorumAlways == Spec => []QuorumInv
<1>1. Init => QuorumInv
  BY QuorumInit
<1>2. QuorumInv /\ [Next]_vars => QuorumInv'
  BY QuorumStep
<1> QED BY <1>1, <1>2, PTL DEF Spec

\* Whoever got the lock in its first attempt does not run the action on counts alone: a majority
\* of the instances has accepted the SET of that attempt.
THEOREM AcquiredByQuorum == Spec => []FirstAttemptBacked
<1>1. QuorumInv => FirstAttemptBacked
  BY DEF QuorumInv, CountInv, PhaseInv, FirstAttemptBacked, Acting
<1> QED BY <1>1, QuorumAlways, PTL

\* lock() abandons its first attempt only when the instances that have said yes and those still to
\* answer are no majority together.
THEOREM RefusedForGoodReason == Spec => []FirstAttemptExhausted
<1>1. QuorumInv => FirstAttemptExhausted
  <2> SUFFICES ASSUME QuorumInv, NEW c \in Clients, pc[c] \in {"releasing", "sleeping"},
                      retryTimes[c] = 0
               PROVE  ~QuorumPossible(c)
    BY DEF FirstAttemptExhausted
  <2>1. CountInv(c) /\ PhaseInv(c) /\ TypeOK
    BY DEF QuorumInv
  <2>2. /\ successCount[c] = Cardinality(successInstances[c])
        /\ settledCount[c] + Cardinality(Awaited(c)) = Cardinality(Instances)
        /\ settledCount[c] - successCount[c] >= QuorumSize
    BY <2>1 DEF CountInv, PhaseInv
  <2>3. /\ Cardinality(Awaited(c)) \in Nat
        /\ successCount[c] \in Nat /\ settledCount[c] \in Nat
    BY <2>1, Sizes DEF Awaited, TypeOK
  <2>4. Cardinality(successInstances[c]) + Cardinality(Awaited(c)) < QuorumSize
    <3>1. QuorumSize \in Nat /\ 2 * QuorumSize > Cardinality(Instances) /\ Cardinality(Instances) \in Nat
      BY Sizes
    <3> QED BY <2>2, <2>3, <3>1
  <2>5. Cardinality(successInstances[c]) \in Nat /\ QuorumSize \in Nat
    BY <2>2, <2>3, Sizes
  <2> QED BY <2>3, <2>4, <2>5 DEF QuorumPossible, Votes
<1> QED BY <1>1, QuorumAlways, PTL

\* What the counters of lines 32-33 do to a retry, for any instances and any number of retries: as long
\* as it is waited for it has had no reply at all, and the failures counted before are a quorum
\* already. Its first reply decides it, whatever it says and whoever else would still say yes.
THEOREM RetriesAreHasty ==
  Spec => [](\A c \in Clients : pc[c] = "waiting" /\ retryTimes[c] # 0 =>
               /\ Awaited(c) = Instances
               /\ settledCount[c] - successCount[c] >= QuorumSize)
<1>1. QuorumInv => \A c \in Clients : pc[c] = "waiting" /\ retryTimes[c] # 0 =>
                     /\ Awaited(c) = Instances
                     /\ settledCount[c] - successCount[c] >= QuorumSize
  BY DEF QuorumInv, PhaseInv
<1> QED BY <1>1, QuorumAlways, PTL

\* Whichever attempt it is in, a caller only waits while the instances that have said yes and those
\* still to answer are at least half of them together.
LEMMA WaitsForHalf == QuorumInv => HalfPossible
<1> SUFFICES ASSUME QuorumInv, NEW c \in Clients, pc[c] = "waiting"
             PROVE  2 * Votes(c) >= Cardinality(Instances)
  BY DEF HalfPossible
<1>1. CountInv(c) /\ PhaseInv(c) /\ TypeOK
  BY DEF QuorumInv
<1>2. /\ Cardinality(Awaited(c)) \in Nat /\ Cardinality(successInstances[c]) \in Nat
      /\ successCount[c] \in Nat /\ settledCount[c] \in Nat
  BY <1>1, Sizes DEF Awaited, TypeOK
<1>3. CASE retryTimes[c] = 0
  <2>1. /\ successCount[c] = Cardinality(successInstances[c])
        /\ settledCount[c] + Cardinality(Awaited(c)) = Cardinality(Instances)
        /\ settledCount[c] - successCount[c] < QuorumSize
    BY <1>1, <1>3 DEF CountInv, PhaseInv
  <2>2. /\ QuorumSize \in Nat /\ Cardinality(Instances) \in Nat
        /\ 2 * QuorumSize <= Cardinality(Instances) + 2
    BY Sizes
  <2>3. 2 * (successCount[c] + Cardinality(Awaited(c))) >= Cardinality(Instances)
    BY <1>2, <2>1, <2>2
  <2> QED BY <2>1, <2>3 DEF Votes
<1>4. CASE retryTimes[c] # 0
  <2>1. Awaited(c) = Instances
    BY <1>1, <1>4 DEF PhaseInv
  <2>2. 2 * (Cardinality(successInstances[c]) + Cardinality(Awaited(c))) >= Cardinality(Instances)
    BY <1>2, <2>1
  <2> QED BY <2>2 DEF Votes
<1> QED BY <1>3, <1>4

\* Whatever the number of instances and of retries, an attempt that is still waited for has at
\* least half of the instances for it or unheard of: the only vain wait is the half-half split.
THEOREM StuckOnlyByEvenSplit == Spec => []HalfPossible
BY WaitsForHalf, QuorumAlways, PTL

\* With an odd number of instances there is no such split: as long as lock() waits, in any of its
\* attempts, a majority may still say yes.
THEOREM WaitsForGoodReason ==
  ASSUME Cardinality(Instances) % 2 = 1 PROVE Spec => []NeverWaitsInVain
<1>1. HalfPossible /\ QuorumInv => NeverWaitsInVain
  <2> SUFFICES ASSUME HalfPossible, QuorumInv, NEW c \in Clients, pc[c] = "waiting"
               PROVE  QuorumPossible(c)
    BY DEF NeverWaitsInVain
  <2>1. 2 * Votes(c) >= Cardinality(Instances)
    BY DEF HalfPossible
  <2>2. Votes(c) \in Nat
    <3>1. Awaited(c) \in SUBSET Instances /\ successInstances[c] \in SUBSET Instances
      BY DEF Awaited, QuorumInv, TypeOK
    <3>2. Cardinality(Awaited(c)) \in Nat /\ Cardinality(successInstances[c]) \in Nat
      BY <3>1, Sizes
    <3> QED BY <3>2 DEF Votes
  <2>3. Votes(c) >= QuorumSize
    BY <2>1, <2>2, Sizes
  <2> QED BY <2>3 DEF QuorumPossible
<1> QED BY <1>1, WaitsForHalf, QuorumAlways, PTL

------------------------------------------------------------------------------
(* The lease of a single instance *)

\* When the lease can be relied on: one instance, since a client counts on the key of each by
\* itself; no PEXPIRE fails, since release() and the next extension come too late otherwise; the
\* timer of the extension, its lag and the two commands that may be behind it end before the key
\* expires, and so do those of every later extension; and an action ends before the extensions
\* stop.  The values of the run redlock_lease are such.
LeaseEnvelope ==
  /\ Cardinality(Instances) = 1
  /\ "pexpire" \notin FailingOps
  /\ WaitTime(KeyExpiration) + TimerLag + 2 * MaxDelay < KeyExpiration
  /\ NextWait + TimerLag + MaxDelay < ExtensionTtl
  /\ MaxAction <= HoldLimit + 1

\* q and r, the requests and replies of a client on its connection: p is its place and n its
\* attempt.  A SET is the last request and its answer the only reply; a PEXPIRE is sent
\* during an action, and once that is over the DEL of release() comes behind it.
Shape(q, r, p, n) ==
  /\ \A k \in DOMAIN q :
       /\ q[k].op # "del"
       /\ q[k].op = "set" => k = Len(q) /\ p = "waiting" /\ q[k].att = n /\ r = <<>>
       /\ q[k].op = "pexpire" =>
            p = "acting" \/ (k < Len(q) /\ q[k + 1].op \in {"pexpire", "release"})
       /\ q[k].op = "release" => p # "acting" /\ (k < Len(q) => q[k + 1].op = "set")
  /\ r # <<>> => /\ Len(r) = 1 /\ q = <<>> /\ p = "waiting"
                 /\ r[1].op = "set" /\ r[1].att = n

\* The commands that rely on the key being there.
Relies(q) == q # <<>> /\ q[1].op \in {"pexpire", "release"}

\* The client relies on the key being its own.
Claims(q, r, p) == Relies(q) \/ (r # <<>> /\ r[1].ok) \/ p = "acting"

\* life, what is left of the key, outlives the next command that relies on it ...
Outlives(q, r, p, t, life) ==
  /\ Relies(q) => life + q[1].age > MaxDelay
  /\ r # <<>> /\ r[1].ok => life + r[1].age >= KeyExpiration
  /\ p = "acting" /\ q = <<>> =>
       IF t = Off THEN life > MaxDelay ELSE life > t + TimerLag + MaxDelay

\* ... as the timer t sees to until the action has to end.
Timed(q, p, t, e) ==
  p = "acting" =>
    /\ t = Off => e >= MaxAction
    /\ t # Off => t >= -TimerLag
    /\ t # Off /\ q # <<>> => t <= NextWait

LeaseOf(c, i) ==
  /\ Shape(requests[c][i], replies[c][i], pc[c], Attempt(c))
  /\ Outlives(requests[c][i], replies[c][i], pc[c], timer[c], ttl[i])
  /\ Timed(requests[c][i], pc[c], timer[c], elapsed[c])
  /\ Claims(requests[c][i], replies[c][i], pc[c]) => owner[i] = c

\* With one instance the first answer decides.
Undecided(c) ==
  /\ pc[c] # "releasing"
  /\ pc[c] # "acting" => successCount[c] = 0 /\ successInstances[c] = {}

LeaseInv == TypeOK /\ \A c \in Clients : Undecided(c) /\ \A i \in Instances : LeaseOf(c, i)

\* The envelope in numbers.
LEMMA EnvelopeNumbers ==
  ASSUME LeaseEnvelope
  PROVE  /\ QuorumSize = 1
         /\ \A i, j \in Instances : i = j
         /\ KeyExpiration \in Nat /\ MaxDelay \in Nat /\ TimerLag \in Nat /\ MaxAction \in Nat
         /\ Off \in Int /\ Off < -TimerLag
         /\ WaitTime(KeyExpiration) \in Nat /\ NextWait \in Nat
         /\ ExtensionTtl \in Nat /\ HoldLimit \in Nat
         /\ WaitTime(KeyExpiration) + TimerLag + 2 * MaxDelay < KeyExpiration
         /\ NextWait + TimerLag + MaxDelay < ExtensionTtl
         /\ MaxAction <= HoldLimit + 1
         /\ MaxDelay < KeyExpiration
<1>1. QuorumSize = 1
  BY DEF LeaseEnvelope, QuorumSize
<1>2. \A i, j \in Instances : i = j
  <2>1. PICK r : Instances = {r}
    BY ConstantsAssumption, FS_Singleton DEF LeaseEnvelope
  <2> QED BY <2>1
<1>3. \A t \in Nat : WaitTime(t) \in Nat
  BY DEF WaitTime
<1>4. NextWait \in Nat
  BY <1>3, ConstantsAssumption DEF NextWait
<1>5. Off \in Int /\ Off < -TimerLag
  BY ConstantsAssumption DEF Off
<1>6. MaxDelay < KeyExpiration
  <2>1. WaitTime(KeyExpiration) \in Nat /\ MaxDelay \in Nat /\ TimerLag \in Nat /\ KeyExpiration \in Nat
    BY <1>3, ConstantsAssumption
  <2>2. WaitTime(KeyExpiration) + TimerLag + 2 * MaxDelay < KeyExpiration
    BY DEF LeaseEnvelope
  <2> QED BY <2>1, <2>2
<1> QED BY <1>1, <1>2, <1>3, <1>4, <1>5, <1>6, ConstantsAssumption, DerivedConstants DEF LeaseEnvelope

\* Requests are numbered from 1 and aged 0 to MaxDelay.
LEMMA RequestSeq ==
  ASSUME NEW q \in Seq(Request)
  PROVE  /\ Len(q) \in Nat /\ DOMAIN q = 1..Len(q)
         /\ q = <<>> <=> Len(q) = 0
         /\ \A k \in 1..Len(q) : q[k] \in Request /\ q[k].op \in Ops /\ q[k].age \in 0..MaxDelay
<1>1. /\ Len(q) \in Nat /\ DOMAIN q = 1..Len(q)
      /\ \A k \in 1..Len(q) : q[k] \in Request
  BY LenProperties, ElementOfSeq
<1>2. q = <<>> <=> Len(q) = 0
  BY EmptySeq
<1> QED BY <1>1, <1>2 DEF Request

\* Only operations, and the attempts of SETs, make the shape.
LEMMA SameShape ==
  ASSUME NEW q \in Seq(Request), NEW q2 \in Seq(Request), NEW r, NEW p, NEW n,
         Shape(q, r, p, n),
         Len(q2) = Len(q),
         \A k \in 1..Len(q) : q2[k].op = q[k].op /\ (q[k].op = "set" => q2[k].att = q[k].att)
  PROVE  Shape(q2, r, p, n)
<1>1. /\ Len(q) \in Nat /\ DOMAIN q = 1..Len(q) /\ DOMAIN q2 = 1..Len(q)
      /\ q = <<>> <=> Len(q) = 0
      /\ q2 = <<>> <=> Len(q) = 0
  BY RequestSeq
<1>2. ASSUME NEW k \in 1..Len(q), k < Len(q) PROVE q2[k + 1].op = q[k + 1].op
  <2>1. k + 1 \in 1..Len(q)
    BY <1>1, <1>2
  <2> QED BY <2>1
<1>3. ASSUME NEW k \in 1..Len(q)
      PROVE  /\ q2[k].op # "del"
             /\ q2[k].op = "set" => k = Len(q2) /\ p = "waiting" /\ q2[k].att = n /\ r = <<>>
             /\ q2[k].op = "pexpire" =>
                  p = "acting" \/ (k < Len(q2) /\ q2[k + 1].op \in {"pexpire", "release"})
             /\ q2[k].op = "release" => p # "acting" /\ (k < Len(q2) => q2[k + 1].op = "set")
  BY <1>1, <1>2 DEF Shape
<1> QED BY <1>1, <1>3 DEF Shape

\* A SET goes out when none is under way, and nothing is asked of the key that was not before.
LEMMA SetGoesOut ==
  ASSUME NEW q \in Seq(Request), NEW r, NEW p, NEW n, NEW m, NEW t, NEW life,
         Command("set", m) \in Request,
         p \in {"idle", "sleeping"}, Shape(q, r, p, n), Outlives(q, r, p, t, life)
  PROVE  LET q2 == Append(q, Command("set", m))
         IN /\ Shape(q2, r, "waiting", m)
            /\ \A u : Outlives(q2, r, "waiting", u, life)
            /\ Claims(q2, r, "waiting") => Claims(q, r, p)
<1> DEFINE q2 == Append(q, Command("set", m))
<1>2. /\ q2 \in Seq(Request)
      /\ Len(q2) = Len(q) + 1
      /\ \A k \in 1..Len(q) : q2[k] = q[k]
      /\ q2[Len(q) + 1].op = "set" /\ q2[Len(q) + 1].att = m
  BY AppendProperties DEF Command
<1>3. /\ Len(q) \in Nat /\ DOMAIN q = 1..Len(q) /\ (q = <<>> <=> Len(q) = 0)
      /\ DOMAIN q2 = 1..(Len(q) + 1)
  BY <1>2, RequestSeq
<1> HIDE DEF q2
<1>4. r = <<>>
  BY DEF Shape
<1>5. ASSUME NEW k \in 1..Len(q)
      PROVE  /\ q[k].op # "del" /\ q[k].op # "set"
             /\ q[k].op = "pexpire" => k < Len(q) /\ q2[k + 1].op \in {"pexpire", "release"}
             /\ q[k].op = "release" => q2[k + 1].op = "set"
  <2>1. k < Len(q) => q2[k + 1] = q[k + 1]
    <3>1. k < Len(q) => k + 1 \in 1..Len(q)
      BY <1>3
    <3> QED BY <1>2, <3>1
  <2>2. Len(q) \in Nat
    BY RequestSeq
  <2>3. k = Len(q) \/ k < Len(q)
    BY <2>2
  <2> QED BY <1>2, <1>3, <2>1, <2>3 DEF Shape
<1>6. Shape(q2, r, "waiting", m)
  <2>1. ASSUME NEW k \in DOMAIN q2
        PROVE  /\ q2[k].op # "del"
               /\ q2[k].op = "set" => k = Len(q2) /\ q2[k].att = m /\ r = <<>>
               /\ q2[k].op = "pexpire" => k < Len(q2) /\ q2[k + 1].op \in {"pexpire", "release"}
               /\ q2[k].op = "release" => (k < Len(q2) => q2[k + 1].op = "set")
    <3>1. CASE k = Len(q) + 1
      BY <1>2, <1>4, <3>1
    <3>2. CASE k \in 1..Len(q)
      BY <1>2, <1>3, <1>5, <3>2
    <3> QED BY <1>3, <3>1, <3>2
  <2> QED BY <1>4, <2>1 DEF Shape
<1>7. Relies(q2) => Relies(q) /\ q2[1] = q[1]
  BY <1>2, <1>3 DEF Relies
<1> QED BY <1>4, <1>6, <1>7 DEF Outlives, Claims, q2

\* A PEXPIRE goes out when the timer fires, while the key still lives.
LEMMA ExtensionGoesOut ==
  ASSUME LeaseEnvelope,
         NEW q \in Seq(Request), NEW r, NEW n, NEW t \in Int, NEW e, NEW life \in Nat,
         Shape(q, r, "acting", n), Outlives(q, r, "acting", t, life), Timed(q, "acting", t, e),
         t # Off
  PROVE  LET q2 == Append(q, Command("pexpire", 0))
         IN /\ Shape(q2, r, "acting", n)
            /\ Outlives(q2, r, "acting", NextWait, life)
            /\ Timed(q2, "acting", NextWait, e)
<1>0. /\ MaxDelay \in Nat /\ TimerLag \in Nat /\ Off \in Int /\ NextWait \in Nat /\ Off < -TimerLag
  BY EnvelopeNumbers
<1> DEFINE q2 == Append(q, Command("pexpire", 0))
<1>1. Command("pexpire", 0) \in Request
  BY CommandType, ConstantsAssumption DEF Ops
<1>2. /\ q2 \in Seq(Request)
      /\ Len(q2) = Len(q) + 1
      /\ \A k \in 1..Len(q) : q2[k] = q[k]
      /\ q2[Len(q) + 1].op = "pexpire" /\ q2[Len(q) + 1].age = 0
  BY <1>1, AppendProperties DEF Command
<1>3. /\ Len(q) \in Nat /\ DOMAIN q = 1..Len(q) /\ (q = <<>> <=> Len(q) = 0)
      /\ DOMAIN q2 = 1..(Len(q) + 1) /\ q2 # <<>>
  BY <1>2, RequestSeq
<1> HIDE DEF q2
<1>4. r = <<>>
  BY DEF Shape
<1>5. \A k \in 1..Len(q) : q[k].op \notin {"del", "set", "release"}
  BY <1>3 DEF Shape
<1>6. Shape(q2, r, "acting", n)
  <2>1. ASSUME NEW k \in DOMAIN q2 PROVE q2[k].op \notin {"del", "set", "release"}
    BY <1>2, <1>3, <1>5
  <2> QED BY <1>4, <2>1 DEF Shape
<1>7. life + q2[1].age > MaxDelay
  <2>1. CASE q = <<>>
    <3>1. q2[1].age = 0
      BY <1>2, <1>3, <2>1
    <3>2. life > MaxDelay
      <4>1. IF t = Off THEN life > MaxDelay ELSE life > t + TimerLag + MaxDelay
        BY <2>1 DEF Outlives
      <4>2. t # Off => t >= -TimerLag
        BY DEF Timed
      <4> QED BY <1>0, <4>1, <4>2
    <3> QED BY <3>1, <3>2
  <2>2. CASE q # <<>>
    <3>1. q2[1] = q[1] /\ q[1].op \in Ops
      BY <1>2, <1>3, <2>2, RequestSeq
    <3>2. Relies(q)
      BY <1>3, <1>5, <2>2, <3>1 DEF Relies, Ops
    <3> QED BY <3>1, <3>2 DEF Outlives
  <2> QED BY <2>1, <2>2
<1>8. Outlives(q2, r, "acting", NextWait, life)
  BY <1>3, <1>4, <1>7 DEF Outlives
<1>9. Timed(q2, "acting", NextWait, e)
  BY <1>0 DEF Timed
<1> QED BY <1>6, <1>8, <1>9 DEF q2

\* The DEL of release() goes out when the action ends, while the key still lives.
LEMMA ReleaseGoesOut ==
  ASSUME LeaseEnvelope,
         NEW q \in Seq(Request), NEW r, NEW n, NEW m, NEW t \in Int, NEW u, NEW e, NEW life \in Nat,
         Shape(q, r, "acting", n), Outlives(q, r, "acting", t, life), Timed(q, "acting", t, e)
  PROVE  LET q2 == Append(q, Command("release", 0))
         IN /\ Shape(q2, <<>>, "idle", m)
            /\ Outlives(q2, <<>>, "idle", u, life)
<1>0. /\ MaxDelay \in Nat /\ TimerLag \in Nat /\ Off \in Int /\ NextWait \in Nat /\ Off < -TimerLag
  BY EnvelopeNumbers
<1> DEFINE q2 == Append(q, Command("release", 0))
<1>1. Command("release", 0) \in Request
  BY CommandType, ConstantsAssumption DEF Ops
<1>2. /\ q2 \in Seq(Request)
      /\ Len(q2) = Len(q) + 1
      /\ \A k \in 1..Len(q) : q2[k] = q[k]
      /\ q2[Len(q) + 1].op = "release" /\ q2[Len(q) + 1].age = 0
  BY <1>1, AppendProperties DEF Command
<1>3. /\ Len(q) \in Nat /\ DOMAIN q = 1..Len(q) /\ (q = <<>> <=> Len(q) = 0)
      /\ DOMAIN q2 = 1..(Len(q) + 1) /\ q2 # <<>>
  BY <1>2, RequestSeq
<1> HIDE DEF q2
<1>5. \A k \in 1..Len(q) : q[k].op = "pexpire"
  BY <1>3, RequestSeq DEF Shape, Ops
<1>6. Shape(q2, <<>>, "idle", m)
  <2>1. ASSUME NEW k \in DOMAIN q2
        PROVE  /\ q2[k].op \notin {"del", "set"}
               /\ q2[k].op = "pexpire" => k < Len(q2) /\ q2[k + 1].op \in {"pexpire", "release"}
               /\ q2[k].op = "release" => ~(k < Len(q2))
    <3>1. CASE k = Len(q) + 1
      BY <1>2, <1>3, <3>1
    <3>2. CASE k \in 1..Len(q)
      <4>1. q2[k].op = "pexpire" /\ k < Len(q2)
        BY <1>2, <1>3, <1>5, <3>2
      <4>2. k + 1 \in 1..Len(q) \/ k + 1 = Len(q) + 1
        BY <1>3, <3>2
      <4> QED BY <1>2, <1>5, <4>1, <4>2
    <3> QED BY <1>3, <3>1, <3>2
  <2> QED BY <2>1 DEF Shape
<1>7. life + q2[1].age > MaxDelay
  <2>1. CASE q = <<>>
    <3>1. q2[1].age = 0
      BY <1>2, <1>3, <2>1
    <3>2. life > MaxDelay
      <4>1. IF t = Off THEN life > MaxDelay ELSE life > t + TimerLag + MaxDelay
        BY <2>1 DEF Outlives
      <4>2. t # Off => t >= -TimerLag
        BY DEF Timed
      <4> QED BY <1>0, <4>1, <4>2
    <3> QED BY <3>1, <3>2
  <2>2. CASE q # <<>>
    <3>1. q2[1] = q[1] /\ q[1].op = "pexpire"
      BY <1>2, <1>3, <1>5, <2>2
    <3> QED BY <2>2, <3>1 DEF Outlives, Relies
  <2> QED BY <2>1, <2>2
<1> QED BY <1>6, <1>7 DEF Outlives, q2

\* The oldest request leaves for the instance.
LEMMA RequestLeaves ==
  ASSUME NEW q \in Seq(Request), NEW r, NEW p, NEW n, q # <<>>, Shape(q, r, p, n)
  PROVE  /\ r = <<>> /\ q[1] = Head(q)
         /\ q[1].op \in {"set", "pexpire", "release"}
         /\ q[1].op = "set" => Tail(q) = <<>> /\ p = "waiting" /\ q[1].att = n
         /\ q[1].op # "set" => Shape(Tail(q), r, p, n)
         /\ q[1].op = "pexpire" => p = "acting" \/ Relies(Tail(q))
         /\ q[1].op = "release" => p # "acting" /\ ~Relies(Tail(q))
<1> DEFINE q2 == Tail(q)
<1>1. /\ q2 \in Seq(Request)
      /\ Len(q2) = Len(q) - 1
      /\ \A k \in 1..Len(q) - 1 : q2[k] = q[k + 1]
      /\ q[1] = Head(q)
  BY HeadTailProperties
<1>2. /\ Len(q) \in Nat \ {0} /\ DOMAIN q = 1..Len(q)
      /\ DOMAIN q2 = 1..Len(q) - 1
      /\ q2 = <<>> <=> Len(q) - 1 = 0
      /\ 1 \in 1..Len(q) /\ q[1].op \in Ops
  <2>1. Len(q) \in Nat \ {0} /\ DOMAIN q = 1..Len(q)
    BY RequestSeq
  <2>2. 1 \in 1..Len(q)
    BY <2>1
  <2>3. DOMAIN q2 = 1..Len(q) - 1 /\ (q2 = <<>> <=> Len(q) - 1 = 0)
    BY <1>1, RequestSeq
  <2> QED BY <2>1, <2>2, <2>3, RequestSeq
<1> HIDE DEF q2
<1>3. r = <<>>
  BY DEF Shape
<1>4. /\ q[1].op # "del"
      /\ q[1].op = "set" => 1 = Len(q) /\ p = "waiting" /\ q[1].att = n
      /\ q[1].op = "pexpire" => p = "acting" \/ (1 < Len(q) /\ q[2].op \in {"pexpire", "release"})
      /\ q[1].op = "release" => p # "acting" /\ (1 < Len(q) => q[2].op = "set")
  <2>1. 1 + 1 = 2
    OBVIOUS
  <2> QED BY <1>2, <2>1 DEF Shape
<1>5. 1 < Len(q) => q2 # <<>> /\ q2[1] = q[2]
  <2>1. 1 < Len(q) => 1 \in 1..Len(q) - 1 /\ Len(q) - 1 # 0
    BY <1>2
  <2>2. 1 + 1 = 2
    OBVIOUS
  <2> QED BY <1>1, <1>2, <2>1, <2>2
<1>6. 1 < Len(q) \/ q2 = <<>>
  <2>1. Len(q) \in Nat \ {0}
    BY <1>2
  <2>2. 1 < Len(q) \/ Len(q) - 1 = 0
    <3>1. \A n0 \in Nat \ {0} : 1 < n0 \/ n0 - 1 = 0
      OBVIOUS
    <3> QED BY <2>1, <3>1
  <2> QED BY <1>2, <2>2
<1>7. Shape(q2, r, p, n)
  <2>1. ASSUME NEW k \in 1..Len(q) - 1
        PROVE  /\ k + 1 \in 1..Len(q) /\ q2[k] = q[k + 1]
               /\ k < Len(q2) <=> k + 1 < Len(q)
               /\ k = Len(q2) <=> k + 1 = Len(q)
               /\ k < Len(q2) => q2[k + 1] = q[k + 2]
    <3>1. Len(q) \in Nat \ {0} /\ Len(q2) = Len(q) - 1
      BY <1>1, <1>2
    <3>2. /\ k + 1 \in 1..Len(q)
          /\ k < Len(q2) <=> k + 1 < Len(q)
          /\ k = Len(q2) <=> k + 1 = Len(q)
          /\ k < Len(q2) => k + 1 \in 1..Len(q) - 1 /\ k + 1 + 1 = k + 2
      BY <3>1
    <3> QED BY <1>1, <3>2
  <2>2. ASSUME NEW k \in DOMAIN q2
        PROVE  /\ q2[k].op # "del"
               /\ q2[k].op = "set" => k = Len(q2) /\ p = "waiting" /\ q2[k].att = n /\ r = <<>>
               /\ q2[k].op = "pexpire" =>
                    p = "acting" \/ (k < Len(q2) /\ q2[k + 1].op \in {"pexpire", "release"})
               /\ q2[k].op = "release" => p # "acting" /\ (k < Len(q2) => q2[k + 1].op = "set")
    <3>1. k + 1 \in DOMAIN q /\ k + 1 + 1 = k + 2 /\ k \in 1..Len(q) - 1
      <4>1. k \in 1..Len(q) - 1
        BY <1>2
      <4>2. k + 1 \in 1..Len(q)
        BY <2>1, <4>1
      <4>3. k + 1 + 1 = k + 2
        BY <4>1
      <4> QED BY <1>2, <4>1, <4>2, <4>3
    <3>2. /\ q[k + 1].op # "del"
          /\ q[k + 1].op = "set" => k + 1 = Len(q) /\ p = "waiting" /\ q[k + 1].att = n /\ r = <<>>
          /\ q[k + 1].op = "pexpire" =>
               p = "acting" \/ (k + 1 < Len(q) /\ q[k + 2].op \in {"pexpire", "release"})
          /\ q[k + 1].op = "release" => p # "acting" /\ (k + 1 < Len(q) => q[k + 2].op = "set")
      BY <3>1 DEF Shape
    <3>3. q2[k] = q[k + 1] /\ (k < Len(q2) <=> k + 1 < Len(q)) /\ (k = Len(q2) <=> k + 1 = Len(q))
          /\ (k < Len(q2) => q2[k + 1] = q[k + 2])
      BY <2>1, <3>1
    <3> QED BY <3>2, <3>3
  <2> QED BY <1>3, <2>2 DEF Shape
<1>8. q[1].op \in {"set", "pexpire", "release"}
  BY <1>2, <1>4 DEF Ops
<1>9. q[1].op = "set" => q2 = <<>>
  <2>1. Len(q) \in Nat
    BY <1>2
  <2>2. 1 = Len(q) => Len(q) - 1 = 0
    BY <2>1
  <2> QED BY <1>2, <1>4, <2>2
<1>10. /\ q[1].op = "pexpire" => p = "acting" \/ Relies(q2)
       /\ q[1].op = "release" => ~Relies(q2)
  BY <1>4, <1>5, <1>6 DEF Relies
<1> QED BY <1>1, <1>3, <1>4, <1>7, <1>8, <1>9, <1>10 DEF q2

\* A key that somebody relies on is alive.
LEMMA ClaimedIsAlive ==
  ASSUME LeaseEnvelope,
         NEW q \in Seq(Request), NEW r \in Seq(Reply), NEW p, NEW t \in Int, NEW e, NEW n,
         NEW life \in Nat,
         Shape(q, r, p, n), Outlives(q, r, p, t, life), Timed(q, p, t, e), Claims(q, r, p)
  PROVE  life > 0
<1>0. /\ MaxDelay \in Nat /\ TimerLag \in Nat /\ KeyExpiration \in Nat
      /\ MaxDelay < KeyExpiration
  BY EnvelopeNumbers
<1>1. CASE Relies(q)
  <2>1. q[1].age \in 0..MaxDelay
    BY <1>1, RequestSeq DEF Relies
  <2>2. life + q[1].age > MaxDelay
    BY <1>1 DEF Outlives
  <2> QED BY <1>0, <2>1, <2>2
<1>2. CASE r # <<>> /\ r[1].ok
  <2>1. r[1] \in Reply
    BY <1>2, LenProperties, ElementOfSeq, EmptySeq
  <2>2. r[1].age \in 0..MaxDelay
    BY <2>1 DEF Reply
  <2>3. life + r[1].age >= KeyExpiration
    BY <1>2 DEF Outlives
  <2> QED BY <1>0, <2>2, <2>3
<1>3. CASE p = "acting" /\ ~Relies(q)
  <2>1. q = <<>>
    <3> SUFFICES ASSUME q # <<>> PROVE FALSE
      OBVIOUS
    <3>1. q[1].op \in {"set", "pexpire", "release"} /\ q[1].op # "set"
      BY <1>3, RequestLeaves
    <3> QED BY <1>3, <3>1 DEF Relies
  <2>2. IF t = Off THEN life > MaxDelay ELSE life > t + TimerLag + MaxDelay
    BY <1>3, <2>1 DEF Outlives
  <2>3. t # Off => t >= -TimerLag
    BY <1>3 DEF Timed
  <2> QED BY <1>0, <2>2, <2>3
<1> QED BY <1>1, <1>2, <1>3 DEF Claims

\* A unit of time takes no key from those who rely on it.
LEMMA TimePasses ==
  ASSUME LeaseEnvelope,
         NEW q \in Seq(Request), NEW q2 \in Seq(Request), NEW r \in Seq(Reply), NEW r2 \in Seq(Reply),
         NEW p, NEW n, NEW t \in Int, NEW e \in Int, NEW e2 \in Int, NEW life \in Nat,
         Shape(q, r, p, n), Outlives(q, r, p, t, life), Timed(q, p, t, e),
         Len(q2) = Len(q), Len(r2) = Len(r),
         \A k \in 1..Len(q) : /\ q2[k].op = q[k].op /\ q2[k].att = q[k].att
                              /\ q2[k].age = q[k].age + 1 /\ q[k].age < MaxDelay,
         \A k \in 1..Len(r) : /\ r2[k].op = r[k].op /\ r2[k].att = r[k].att /\ r2[k].ok = r[k].ok
                              /\ r2[k].age = r[k].age + 1 /\ r[k].age < MaxDelay,
         t # Off => t > -TimerLag,
         p = "acting" => e < MaxAction,
         e2 >= e
  PROVE  LET t2 == IF t = Off THEN Off ELSE t - 1
         IN /\ Shape(q2, r2, p, n)
            /\ Outlives(q2, r2, p, t2, Less(life))
            /\ Timed(q2, p, t2, e2)
            /\ Claims(q2, r2, p) => Claims(q, r, p) /\ life > 1
<1> DEFINE t2 == IF t = Off THEN Off ELSE t - 1
<1>0. /\ MaxDelay \in Nat /\ TimerLag \in Nat /\ KeyExpiration \in Nat /\ NextWait \in Nat
      /\ Off \in Int /\ Off < -TimerLag /\ MaxDelay < KeyExpiration /\ MaxAction \in Nat
  BY EnvelopeNumbers
<1>1. /\ Len(q) \in Nat /\ (q = <<>> <=> Len(q) = 0) /\ (q2 = <<>> <=> Len(q) = 0)
      /\ \A k \in 1..Len(q) : q[k].age \in 0..MaxDelay
  BY RequestSeq
<1>2. /\ Len(r) \in Nat /\ (r = <<>> <=> Len(r) = 0) /\ (r2 = <<>> <=> Len(r) = 0)
      /\ \A k \in 1..Len(r) : r[k].age \in 0..MaxDelay
  <2>1. \A k \in 1..Len(r) : r[k] \in Reply
    BY LenProperties, ElementOfSeq
  <2> QED BY <2>1, LenProperties, EmptySeq DEF Reply
<1>3. q # <<>> => /\ q2 # <<>> /\ q2[1].op = q[1].op /\ q2[1].age = q[1].age + 1
                  /\ q[1].age < MaxDelay /\ q[1].age \in 0..MaxDelay
  <2>1. q # <<>> => 1 \in 1..Len(q)
    BY <1>1
  <2> QED BY <1>1, <2>1
<1>4. r # <<>> => /\ r2 # <<>> /\ r2[1].ok = r[1].ok /\ r2[1].age = r[1].age + 1
                  /\ r2[1].op = r[1].op /\ r2[1].att = r[1].att
                  /\ r[1].age < MaxDelay /\ r[1].age \in 0..MaxDelay
  <2>1. r # <<>> => 1 \in 1..Len(r)
    BY <1>2
  <2> QED BY <1>2, <2>1
<1>5. (q2 # <<>> => q # <<>>) /\ (r2 # <<>> => r # <<>>)
  BY <1>1, <1>2
<1>6. Shape(q2, r2, p, n)
  <2>1. Shape(q2, r, p, n)
    BY SameShape
  <2>2. r # <<>> => Len(r) = 1 /\ q = <<>> /\ p = "waiting" /\ r[1].op = "set" /\ r[1].att = n
    BY DEF Shape
  <2>3. q = <<>> => q2 = <<>>
    BY <1>1
  <2>4. r = <<>> <=> r2 = <<>>
    BY <1>2
  <2>5. r2 # <<>> => Len(r2) = 1 /\ q2 = <<>> /\ p = "waiting" /\ r2[1].op = "set" /\ r2[1].att = n
    BY <1>4, <2>2, <2>3, <2>4
  <2>6. \A k \in DOMAIN q2 :
          /\ q2[k].op # "del"
          /\ q2[k].op = "set" => k = Len(q2) /\ p = "waiting" /\ q2[k].att = n /\ r2 = <<>>
          /\ q2[k].op = "pexpire" =>
               p = "acting" \/ (k < Len(q2) /\ q2[k + 1].op \in {"pexpire", "release"})
          /\ q2[k].op = "release" => p # "acting" /\ (k < Len(q2) => q2[k + 1].op = "set")
    BY <2>1, <2>4 DEF Shape
  <2> QED BY <2>5, <2>6 DEF Shape
<1>7. Timed(q2, p, t2, e2)
  <2>1. p = "acting" => t # Off
    BY <1>0 DEF Timed
  <2>2. t # Off => t2 = t - 1 /\ t2 >= -TimerLag /\ t2 # Off
    BY <1>0
  <2>3. p = "acting" /\ q2 # <<>> => t <= NextWait
    BY <1>5, <2>1 DEF Timed
  <2>4. p = "acting" /\ q2 # <<>> => t2 <= NextWait
    BY <1>0, <2>1, <2>2, <2>3
  <2> QED BY <2>1, <2>2, <2>4 DEF Timed
<1>8. Relies(q2) => /\ Relies(q) /\ life > 1
                    /\ Less(life) + q2[1].age > MaxDelay
  <2> SUFFICES ASSUME Relies(q2) PROVE Relies(q) /\ life > 1 /\ Less(life) + q2[1].age > MaxDelay
    OBVIOUS
  <2>1. Relies(q) /\ q2[1].age = q[1].age + 1 /\ q[1].age < MaxDelay /\ q[1].age \in 0..MaxDelay
    BY <1>3, <1>5 DEF Relies
  <2>2. life + q[1].age > MaxDelay
    BY <2>1 DEF Outlives
  <2> QED BY <1>0, <2>1, <2>2 DEF Less
<1>9. r2 # <<>> /\ r2[1].ok => /\ r # <<>> /\ r[1].ok /\ life > 1
                               /\ Less(life) + r2[1].age >= KeyExpiration
  <2> SUFFICES ASSUME r2 # <<>>, r2[1].ok
               PROVE  r # <<>> /\ r[1].ok /\ life > 1 /\ Less(life) + r2[1].age >= KeyExpiration
    OBVIOUS
  <2>1. /\ r # <<>> /\ r[1].ok /\ r2[1].age = r[1].age + 1
        /\ r[1].age < MaxDelay /\ r[1].age \in 0..MaxDelay
    BY <1>4, <1>5
  <2>2. life + r[1].age >= KeyExpiration
    BY <2>1 DEF Outlives
  <2> QED BY <1>0, <2>1, <2>2 DEF Less
<1>10. p = "acting" /\ q2 = <<>> => life > 1 /\ t # Off /\ t2 = t - 1 /\ Less(life) > t2 + TimerLag + MaxDelay
  <2> SUFFICES ASSUME p = "acting", q2 = <<>>
               PROVE  life > 1 /\ t # Off /\ t2 = t - 1 /\ Less(life) > t2 + TimerLag + MaxDelay
    OBVIOUS
  <2>1. t # Off /\ t > -TimerLag
    BY <1>0 DEF Timed
  <2>2. life > t + TimerLag + MaxDelay
    BY <1>1, <2>1 DEF Outlives
  <2> QED BY <1>0, <2>1, <2>2 DEF Less
<1>11. Outlives(q2, r2, p, t2, Less(life))
  <2>1. p = "acting" /\ q2 = <<>> => t2 # Off
    BY <1>0, <1>10
  <2> HIDE DEF t2
  <2> QED BY <1>8, <1>9, <1>10, <2>1 DEF Outlives
<1>12. p = "acting" => life > 1
  <2>1. CASE q2 = <<>>
    BY <1>10, <2>1
  <2>2. CASE q2 # <<>>
    <3>1. p = "acting" => Relies(q2)
      <4>1. q2[1].op \in {"set", "pexpire", "release"} /\ (q2[1].op = "set" => p = "waiting")
        BY <1>6, <2>2, RequestLeaves
      <4> QED BY <2>2, <4>1 DEF Relies
    <3> QED BY <1>8, <3>1
  <2> QED BY <2>1, <2>2
<1>13. Claims(q2, r2, p) => Claims(q, r, p) /\ life > 1
  BY <1>8, <1>9, <1>12 DEF Claims
<1> QED BY <1>6, <1>7, <1>11, <1>13

\* The other clients, their timers and what Redis holds are as they were.
OnlyClient(c) ==
  /\ OthersUnchanged(c)
  /\ \A d \in Clients \ {c} : timer'[d] = timer[d] /\ elapsed'[d] = elapsed[d]
  /\ UNCHANGED <<ttl, owner>>

\* A step of one client is that client's business alone.
LEMMA OwnStep ==
  ASSUME LeaseInv, TypeOK', NEW c \in Clients, OnlyClient(c),
         Undecided(c)', \A i \in Instances : LeaseOf(c, i)'
  PROVE  LeaseInv'
<1>1. ASSUME NEW d \in Clients \ {c}
      PROVE  Undecided(d)' /\ \A i \in Instances : LeaseOf(d, i)'
  <2>1. Undecided(d) /\ \A i \in Instances : LeaseOf(d, i)
    BY DEF LeaseInv
  <2>2. /\ pc'[d] = pc[d] /\ requests'[d] = requests[d] /\ replies'[d] = replies[d]
        /\ successCount'[d] = successCount[d] /\ successInstances'[d] = successInstances[d]
        /\ retryTimes'[d] = retryTimes[d] /\ timer'[d] = timer[d] /\ elapsed'[d] = elapsed[d]
        /\ ttl' = ttl /\ owner' = owner
    BY DEF OnlyClient, OthersUnchanged
  <2> QED BY <2>1, <2>2 DEF Undecided, LeaseOf, Attempt
<1> QED BY <1>1 DEF LeaseInv

\* What the invariant says of one connection.
LEMMA Connection ==
  ASSUME LeaseInv, NEW c \in Clients, NEW i \in Instances
  PROVE  /\ TypeOK /\ Undecided(c)
         /\ requests[c][i] \in Seq(Request) /\ replies[c][i] \in Seq(Reply)
         /\ ttl[i] \in Nat /\ timer[c] \in Int /\ elapsed[c] \in Nat
         /\ Shape(requests[c][i], replies[c][i], pc[c], Attempt(c))
         /\ Outlives(requests[c][i], replies[c][i], pc[c], timer[c], ttl[i])
         /\ Timed(requests[c][i], pc[c], timer[c], elapsed[c])
         /\ Claims(requests[c][i], replies[c][i], pc[c]) => owner[i] = c
<1>1. TypeOK /\ Undecided(c) /\ LeaseOf(c, i)
  BY DEF LeaseInv
<1>2. /\ requests[c][i] \in Seq(Request) /\ replies[c][i] \in Seq(Reply)
      /\ ttl[i] \in Nat /\ timer[c] \in Int /\ elapsed[c] \in Nat
  <2>1. elapsed[c] \in 0..MaxElapsed
    BY <1>1 DEF TypeOK
  <2> QED BY <1>1, <2>1, DerivedConstants DEF TypeOK
<1> QED BY <1>1, <1>2 DEF LeaseOf

\* A new call, or another attempt, sends its SET.
LEMMA LeaseSetStep ==
  ASSUME LeaseEnvelope, LeaseInv, TypeOK', NEW c \in Clients, Start(c) \/ Retry(c)
  PROVE  LeaseInv'
<1>1. TypeOK
  BY DEF LeaseInv
<1>2. OnlyClient(c)
  <2>1. CASE Start(c)
    BY <1>1, <2>1 DEF Start, OnlyClient, OthersUnchanged, TypeOK, redisVars
  <2>2. CASE Retry(c)
    BY <1>1, <2>2 DEF Retry, OnlyClient, OthersUnchanged, TypeOK, redisVars
  <2> QED BY <2>1, <2>2
<1>3. /\ pc[c] \in {"idle", "sleeping"} /\ pc'[c] = "waiting" /\ replies'[c] = replies[c]
      /\ successInstances'[c] = {}
      /\ successCount'[c] = 0 \/ successCount'[c] = successCount[c]
      /\ requests'[c] = Send(requests[c], Instances, Command("set", Attempt(c)'))
  <2>1. CASE Start(c)
    BY <1>1, <2>1 DEF Start, TypeOK, Attempt
  <2>2. CASE Retry(c)
    BY <1>1, <2>2 DEF Retry, TypeOK, Attempt
  <2> QED BY <2>1, <2>2
<1>4. Command("set", Attempt(c)') \in Request
  <2>1. retryTimes'[c] \in 0..MaxRetries
    BY DEF TypeOK
  <2>2. Attempt(c)' \in 0..(MaxRetries + 1)
    BY <2>1, ConstantsAssumption DEF Attempt
  <2> QED BY <2>2, CommandType DEF Ops
<1>5. Undecided(c)'
  <2>1. Undecided(c)
    BY DEF LeaseInv
  <2> QED BY <1>3, <2>1 DEF Undecided
<1>6. ASSUME NEW i \in Instances PROVE LeaseOf(c, i)'
  <2> DEFINE q == requests[c][i]
             r == replies[c][i]
             p == pc[c]
             n == Attempt(c)
             m == Attempt(c)'
             t == timer[c]
             life == ttl[i]
  <2>1. requests'[c][i] = Append(q, Command("set", m))
    BY <1>1, <1>3 DEF Send
  <2>2. /\ q \in Seq(Request) /\ Command("set", m) \in Request /\ p \in {"idle", "sleeping"}
        /\ Shape(q, r, p, n) /\ Outlives(q, r, p, t, life)
        /\ Claims(q, r, p) => owner[i] = c
    BY <1>3, <1>4, Connection
  <2> HIDE DEF q, r, p, n, m, t, life
  <2>4. /\ Shape(requests'[c][i], r, "waiting", m)
        /\ \A u : Outlives(requests'[c][i], r, "waiting", u, life)
        /\ Claims(requests'[c][i], r, "waiting") => owner[i] = c
    BY <2>1, <2>2, SetGoesOut
  <2>3. Timed(requests'[c][i], "waiting", timer'[c], elapsed'[c])
    BY DEF Timed
  <2> QED BY <1>2, <1>3, <2>3, <2>4 DEF LeaseOf, OnlyClient, r, m, life
<1> QED BY <1>2, <1>5, <1>6, OwnStep

\* What is left in a queue when a call ends looks as it did.
LEMMA OrphanedLooks ==
  ASSUME NEW q \in [Instances -> Seq(Request)], NEW i \in Instances
  PROVE  /\ Orphaned(q)[i] \in Seq(Request)
         /\ Len(Orphaned(q)[i]) = Len(q[i])
         /\ \A k \in 1..Len(q[i]) : /\ Orphaned(q)[i][k].op = q[i][k].op
                                    /\ Orphaned(q)[i][k].age = q[i][k].age
<1>1. Orphaned(q)[i] \in Seq(Request)
  BY OrphanedType
<1>2. /\ Len(q[i]) \in Nat /\ DOMAIN q[i] = 1..Len(q[i])
      /\ \A k \in 1..Len(q[i]) : q[i][k] \in Request
  BY RequestSeq
<1>3. Orphaned(q)[i] = [k \in 1..Len(q[i]) |-> [q[i][k] EXCEPT !.att = 0]]
  BY <1>2 DEF Orphaned
<1>4. Len(Orphaned(q)[i]) = Len(q[i])
  BY <1>1, <1>2, <1>3, LenProperties
<1> QED BY <1>1, <1>2, <1>3, <1>4 DEF Request

\* Without a SET among the requests, an end of the call changes nothing that matters.
LEMMA OrphanedLease ==
  ASSUME NEW q \in Seq(Request), NEW q2 \in Seq(Request), NEW r, NEW p, NEW n,
         NEW t, NEW e, NEW life,
         p # "waiting",
         Len(q2) = Len(q),
         \A k \in 1..Len(q) : q2[k].op = q[k].op /\ q2[k].age = q[k].age,
         Shape(q, r, p, n), Outlives(q, r, p, t, life), Timed(q, p, t, e)
  PROVE  /\ Shape(q2, r, p, n) /\ Outlives(q2, r, p, t, life) /\ Timed(q2, p, t, e)
         /\ Relies(q2) <=> Relies(q)
<1>1. /\ Len(q) \in Nat /\ DOMAIN q = 1..Len(q)
      /\ q = <<>> <=> Len(q) = 0
      /\ q2 = <<>> <=> Len(q) = 0
  BY RequestSeq
<1>2. \A k \in 1..Len(q) : q[k].op # "set"
  BY <1>1 DEF Shape
<1>3. Shape(q2, r, p, n)
  BY <1>2, SameShape
<1>4. q # <<>> => q2[1].op = q[1].op /\ q2[1].age = q[1].age
  <2>1. q # <<>> => 1 \in 1..Len(q)
    BY <1>1
  <2> QED BY <2>1
<1>5. Relies(q2) <=> Relies(q)
  BY <1>1, <1>4 DEF Relies
<1> QED BY <1>1, <1>3, <1>4, <1>5 DEF Outlives, Timed, Relies

\* lock() gives up after its last attempt.
LEMMA LeaseGiveUpStep ==
  ASSUME LeaseEnvelope, LeaseInv, TypeOK', NEW c \in Clients, GiveUp(c)
  PROVE  LeaseInv'
<1>1. TypeOK
  BY DEF LeaseInv
<1>2. OnlyClient(c)
  BY <1>1 DEF GiveUp, Forget, OnlyClient, OthersUnchanged, TypeOK, redisVars
<1>3. /\ pc[c] = "sleeping" /\ pc'[c] = "idle" /\ replies'[c] = [i \in Instances |-> <<>>]
      /\ successInstances'[c] = {} /\ successCount'[c] = 0
      /\ requests'[c] = Orphaned(requests[c])
      /\ requests[c] \in [Instances -> Seq(Request)]
  BY <1>1 DEF GiveUp, Forget, TypeOK
<1>4. ASSUME NEW i \in Instances PROVE LeaseOf(c, i)'
  <2> DEFINE q == requests[c][i]
             q2 == requests'[c][i]
  <2>1. /\ q \in Seq(Request) /\ Shape(q, replies[c][i], "sleeping", Attempt(c))
        /\ Outlives(q, replies[c][i], "sleeping", timer[c], ttl[i])
        /\ Timed(q, "sleeping", timer[c], elapsed[c])
        /\ Claims(q, replies[c][i], "sleeping") => owner[i] = c
    BY <1>3, Connection
  <2>2. /\ q2 \in Seq(Request) /\ Len(q2) = Len(q)
        /\ \A k \in 1..Len(q) : q2[k].op = q[k].op /\ q2[k].age = q[k].age
    <3>1. q2 = Orphaned(requests[c])[i]
      BY <1>3
    <3> QED BY <1>3, <3>1, OrphanedLooks
  <2>3. replies'[c][i] = <<>>
    BY <1>3
  <2> HIDE DEF q, q2
  <2>4. /\ Shape(q2, replies[c][i], "sleeping", Attempt(c))
        /\ Outlives(q2, replies[c][i], "sleeping", timer[c], ttl[i])
        /\ Relies(q2) <=> Relies(q)
    BY <2>1, <2>2, OrphanedLease
  <2>5. Shape(q2, <<>>, "idle", Attempt(c)')
    BY <2>4 DEF Shape
  <2>6. Outlives(q2, <<>>, "idle", timer'[c], ttl[i]) /\ Timed(q2, "idle", timer'[c], elapsed'[c])
    BY <2>4 DEF Outlives, Timed
  <2>7. Claims(q2, <<>>, "idle") => owner[i] = c
    BY <2>1, <2>4 DEF Claims
  <2> QED BY <1>2, <1>3, <2>3, <2>5, <2>6, <2>7 DEF LeaseOf, OnlyClient, q2
<1>5. Undecided(c)'
  BY <1>3 DEF Undecided
<1> QED BY <1>2, <1>4, <1>5, OwnStep

\* The action ends while the key is its client's, and the DEL will still find it.
LEMMA LeaseFinishStep ==
  ASSUME LeaseEnvelope, LeaseInv, TypeOK', NEW c \in Clients, FinishAction(c)
  PROVE  LeaseInv'
<1>1. TypeOK
  BY DEF LeaseInv
<1>2. OnlyClient(c)
  BY <1>1 DEF FinishAction, Forget, OnlyClient, OthersUnchanged, TypeOK, redisVars
<1>3. /\ pc[c] = "acting" /\ pc'[c] = "idle" /\ replies'[c] = [i \in Instances |-> <<>>]
      /\ successInstances'[c] = {} /\ successCount'[c] = 0
      /\ requests'[c] = Send(Orphaned(requests[c]), Instances, Command("release", 0))
      /\ requests[c] \in [Instances -> Seq(Request)]
  BY <1>1 DEF FinishAction, Forget, TypeOK
<1>4. ASSUME NEW i \in Instances PROVE LeaseOf(c, i)'
  <2> DEFINE q == requests[c][i]
             o == Orphaned(requests[c])[i]
             q2 == requests'[c][i]
  <2>1. /\ q \in Seq(Request) /\ Shape(q, replies[c][i], "acting", Attempt(c))
        /\ Outlives(q, replies[c][i], "acting", timer[c], ttl[i])
        /\ Timed(q, "acting", timer[c], elapsed[c])
        /\ Claims(q, replies[c][i], "acting") => owner[i] = c
        /\ ttl[i] \in Nat /\ timer[c] \in Int
    BY <1>3, Connection
  <2>2. /\ o \in Seq(Request) /\ Len(o) = Len(q)
        /\ \A k \in 1..Len(q) : o[k].op = q[k].op /\ o[k].age = q[k].age
    BY <1>3, OrphanedLooks
  <2>3. q2 = Append(o, Command("release", 0)) /\ replies'[c][i] = <<>>
    BY <1>3 DEF Send, Orphaned
  <2> HIDE DEF q, q2, o
  <2>4. /\ Shape(o, replies[c][i], "acting", Attempt(c))
        /\ Outlives(o, replies[c][i], "acting", timer[c], ttl[i])
        /\ Timed(o, "acting", timer[c], elapsed[c])
    BY <2>1, <2>2, OrphanedLease
  <2>5. Shape(q2, <<>>, "idle", Attempt(c)') /\ Outlives(q2, <<>>, "idle", timer'[c], ttl[i])
    BY <2>1, <2>2, <2>3, <2>4, ReleaseGoesOut
  <2>6. Timed(q2, "idle", timer'[c], elapsed'[c])
    BY DEF Timed
  <2>7. owner[i] = c
    BY <2>1 DEF Claims
  <2> QED BY <1>2, <1>3, <2>3, <2>5, <2>6, <2>7 DEF LeaseOf, OnlyClient, q2
<1>5. Undecided(c)'
  BY <1>3 DEF Undecided
<1> QED BY <1>2, <1>4, <1>5, OwnStep

\* The extension timer fires: PEXPIRE is on its way in time, or time is up.
LEMMA LeaseExtendStep ==
  ASSUME LeaseEnvelope, LeaseInv, TypeOK', NEW c \in Clients, Extend(c) \/ StopExtending(c)
  PROVE  LeaseInv'
<1>1. TypeOK /\ Undecided(c)
  BY DEF LeaseInv
<1>2. OnlyClient(c)
  <2>1. CASE Extend(c)
    BY <1>1, <2>1 DEF Extend, OnlyClient, OthersUnchanged, TypeOK, lockVars, redisVars
  <2>2. CASE StopExtending(c)
    BY <1>1, <2>2 DEF StopExtending, OnlyClient, OthersUnchanged, TypeOK, lockVars, connVars, redisVars
  <2> QED BY <2>1, <2>2
<1>3. /\ pc[c] = "acting" /\ timer[c] # Off
      /\ pc' = pc /\ replies' = replies /\ elapsed' = elapsed
      /\ UNCHANGED <<successCount, successInstances, retryTimes>>
  BY DEF Extend, StopExtending, Due, lockVars, connVars
<1>4. Undecided(c)'
  BY <1>1, <1>3 DEF Undecided
<1>5. Attempt(c)' = Attempt(c)
  BY <1>3 DEF Attempt
<1>6. ASSUME NEW i \in Instances, Extend(c) PROVE LeaseOf(c, i)'
  <2>1. /\ timer'[c] = NextWait
        /\ requests'[c][i] = Append(requests[c][i], Command("pexpire", 0))
    BY <1>1, <1>6 DEF Extend, TypeOK, Send
  <2>2. /\ Shape(requests'[c][i], replies[c][i], "acting", Attempt(c))
        /\ Outlives(requests'[c][i], replies[c][i], "acting", NextWait, ttl[i])
        /\ Timed(requests'[c][i], "acting", NextWait, elapsed[c])
    BY <1>3, <2>1, Connection, ExtensionGoesOut
  <2>3. owner[i] = c
    BY <1>3, Connection DEF Claims
  <2> QED BY <1>2, <1>3, <1>5, <2>1, <2>2, <2>3 DEF LeaseOf, OnlyClient
<1>7. ASSUME NEW i \in Instances, StopExtending(c) PROVE LeaseOf(c, i)'
  <2> DEFINE q == requests[c][i]
  <2>1. /\ timer'[c] = Off /\ requests' = requests /\ elapsed[c] > HoldLimit
    BY <1>1, <1>7 DEF StopExtending, TypeOK, connVars
  <2>2. /\ Shape(q, replies[c][i], "acting", Attempt(c))
        /\ Outlives(q, replies[c][i], "acting", timer[c], ttl[i])
        /\ Timed(q, "acting", timer[c], elapsed[c])
        /\ owner[i] = c
        /\ ttl[i] \in Nat /\ timer[c] \in Int /\ elapsed[c] \in Nat
    BY <1>3, Connection DEF Claims
  <2> HIDE DEF q
  <2>3. q = <<>> => ttl[i] > MaxDelay
    <3>1. q = <<>> => ttl[i] > timer[c] + TimerLag + MaxDelay
      BY <1>3, <2>2 DEF Outlives
    <3>2. timer[c] >= -TimerLag
      BY <1>3, <2>2 DEF Timed
    <3>3. MaxDelay \in Nat /\ TimerLag \in Nat
      BY EnvelopeNumbers
    <3> QED BY <2>2, <3>1, <3>2, <3>3
  <2>4. Outlives(q, replies[c][i], "acting", Off, ttl[i])
    BY <2>2, <2>3 DEF Outlives
  <2>5. elapsed[c] >= MaxAction
    BY <2>1, <2>2, EnvelopeNumbers
  <2>6. Timed(q, "acting", Off, elapsed[c])
    BY <2>5 DEF Timed
  <2> QED BY <1>2, <1>3, <1>5, <2>1, <2>2, <2>4, <2>6 DEF LeaseOf, OnlyClient, q
<1> QED BY <1>2, <1>4, <1>6, <1>7, OwnStep

\* An answer to a SET decides: the key that was set is the caller's for the first extension to
\* find, or there is none and nothing to delete.
LEMMA LeaseReplyStep ==
  ASSUME LeaseEnvelope, LeaseInv, TypeOK', NEW c \in Clients, NEW i \in Instances, LockReply(c, i)
  PROVE  /\ LeaseInv'
         /\ pc[c] = "waiting"
         /\ pc'[c] = "sleeping" \/ (pc'[c] = "acting" /\ Claims(requests[c][i], replies[c][i], pc[c]))
         /\ \A d \in Clients \ {c} : pc'[d] = pc[d]
<1> DEFINE reply == replies[c][i][1]
           success == successCount[c] + (IF reply.ok THEN 1 ELSE 0)
           settled == settledCount[c] + 1
           S == successInstances[c] \cup (IF reply.ok THEN {i} ELSE {})
<1>1. /\ TypeOK /\ Undecided(c)
      /\ Shape(requests[c][i], replies[c][i], pc[c], Attempt(c))
      /\ Outlives(requests[c][i], replies[c][i], pc[c], timer[c], ttl[i])
      /\ Claims(requests[c][i], replies[c][i], pc[c]) => owner[i] = c
      /\ replies[c][i] \in Seq(Reply) /\ ttl[i] \in Nat
  BY Connection
<1>2. replies[c][i] # <<>> /\ Head(replies[c][i]) = reply
  BY DEF LockReply
<1>3. /\ pc[c] = "waiting" /\ reply.op = "set" /\ reply.att = Attempt(c)
      /\ requests[c][i] = <<>> /\ Len(replies[c][i]) = 1
  BY <1>1, <1>2 DEF Shape
<1>4. /\ successCount[c] = 0 /\ successInstances[c] = {} /\ settledCount[c] \in Nat
  BY <1>1, <1>3 DEF Undecided, TypeOK
<1>5. reply \in Reply /\ reply.ok \in BOOLEAN /\ reply.age \in 0..MaxDelay
  <2>1. reply \in Reply
    BY <1>1, <1>3, LenProperties, ElementOfSeq
  <2> QED BY <2>1 DEF Reply
<1>6. Tail(replies[c][i]) = <<>>
  <2>1. Tail(replies[c][i]) \in Seq(Reply) /\ Len(Tail(replies[c][i])) = Len(replies[c][i]) - 1
    BY <1>1, <1>2, HeadTailProperties
  <2>2. Len(Tail(replies[c][i])) = 0
    BY <1>3, <2>1
  <2> QED BY <2>1, <2>2, EmptySeq
<1>7. /\ replies' = [replies EXCEPT ![c][i] = <<>>]
      /\ successCount' = [successCount EXCEPT ![c] = success]
      /\ successInstances' = [successInstances EXCEPT ![c] = S]
      /\ settledCount' = [settledCount EXCEPT ![c] = settled]
      /\ \/ QuorumReached(success, settled) /\ Acquire(c)
         \/ QuorumLost(success, settled) /\ RollBack(c, S)
         \/ ~QuorumReached(success, settled) /\ ~QuorumLost(success, settled)
      /\ UNCHANGED <<retryTimes, elapsed, ttl, owner>>
  BY <1>2, <1>3, <1>6 DEF LockReply, redisVars
<1>8. /\ QuorumSize = 1 /\ \A j \in Instances : j = i
      /\ KeyExpiration \in Nat /\ MaxDelay \in Nat /\ TimerLag \in Nat
      /\ Off \in Int /\ Off < -TimerLag /\ WaitTime(KeyExpiration) \in Nat
      /\ WaitTime(KeyExpiration) + TimerLag + 2 * MaxDelay < KeyExpiration
  BY EnvelopeNumbers
<1>9. /\ replies'[c][i] = <<>> /\ Attempt(c)' = Attempt(c)
      /\ \A d \in Clients \ {c} : replies'[d] = replies[d]
  BY <1>1, <1>7 DEF TypeOK, Attempt
<1>10. CASE reply.ok
  <2>1. success = 1 /\ QuorumReached(success, settled) /\ ~QuorumLost(success, settled)
    BY <1>4, <1>8, <1>10 DEF QuorumReached, QuorumLost
  <2>2. Acquire(c)
    BY <1>7, <2>1
  <2>3. /\ pc'[c] = "acting" /\ timer'[c] = WaitTime(KeyExpiration) /\ requests' = requests
        /\ OnlyClient(c)
    BY <1>1, <1>7, <1>9, <2>2 DEF Acquire, OnlyClient, OthersUnchanged, TypeOK
  <2>4. owner[i] = c /\ Claims(requests[c][i], replies[c][i], pc[c])
    BY <1>1, <1>2, <1>10 DEF Claims
  <2>5. ttl[i] > WaitTime(KeyExpiration) + TimerLag + MaxDelay
    <3>1. ttl[i] + reply.age >= KeyExpiration
      BY <1>1, <1>2, <1>10 DEF Outlives
    <3> QED BY <1>1, <1>5, <1>8, <3>1
  <2>6. WaitTime(KeyExpiration) # Off /\ WaitTime(KeyExpiration) >= -TimerLag
    BY <1>8
  <2>7. Shape(<<>>, <<>>, "acting", Attempt(c))
    BY DEF Shape
  <2>8. /\ Outlives(<<>>, <<>>, "acting", WaitTime(KeyExpiration), ttl[i])
        /\ Timed(<<>>, "acting", WaitTime(KeyExpiration), elapsed[c])
    BY <2>5, <2>6 DEF Outlives, Timed, Relies
  <2>9. LeaseOf(c, i)'
    BY <1>3, <1>7, <1>9, <2>3, <2>4, <2>7, <2>8 DEF LeaseOf
  <2>10. Undecided(c)'
    BY <2>3 DEF Undecided
  <2> QED BY <1>3, <1>8, <2>3, <2>4, <2>9, <2>10, OwnStep DEF OnlyClient, OthersUnchanged
<1>11. CASE ~reply.ok
  <2>1. success = 0 /\ S = {} /\ ~QuorumReached(success, settled) /\ QuorumLost(success, settled)
    BY <1>4, <1>8, <1>11 DEF QuorumReached, QuorumLost
  <2>2. RollBack(c, {})
    BY <1>7, <2>1
  <2>3. /\ pc'[c] = "sleeping" /\ OnlyClient(c)
        /\ requests'[c] = Send(requests[c], {}, Command("del", 0))
        /\ successCount'[c] = 0 /\ successInstances'[c] = {}
    BY <1>1, <1>7, <1>9, <2>1, <2>2 DEF RollBack, OnlyClient, OthersUnchanged, TypeOK
  <2>4. requests'[c][i] = <<>>
    BY <1>3, <2>3 DEF Send
  <2>5. /\ Shape(<<>>, <<>>, "sleeping", Attempt(c))
        /\ Outlives(<<>>, <<>>, "sleeping", timer'[c], ttl[i])
        /\ Timed(<<>>, "sleeping", timer'[c], elapsed[c])
        /\ ~Claims(<<>>, <<>>, "sleeping")
    BY DEF Shape, Outlives, Timed, Claims, Relies
  <2>6. LeaseOf(c, i)'
    BY <1>7, <1>9, <2>3, <2>4, <2>5 DEF LeaseOf
  <2>7. Undecided(c)'
    BY <2>3 DEF Undecided
  <2> QED BY <1>3, <1>8, <2>3, <2>6, <2>7, OwnStep DEF OnlyClient, OthersUnchanged
<1> QED BY <1>5, <1>10, <1>11

\* The instance executes a command, or it fails: only the client who relies on the key touches it.
LEMMA LeaseServeStep ==
  ASSUME LeaseEnvelope, LeaseInv, TypeOK', NEW c \in Clients, NEW i \in Instances, NEW ok \in BOOLEAN,
         requests[c][i] # <<>>, Serve(c, i, ok),
         \/ Apply(c, i, Head(requests[c][i]).op)
         \/ UNCHANGED <<ttl, owner>> /\ Head(requests[c][i]).op # "pexpire" /\ ~ok,
         Head(requests[c][i]).op = "set" /\ ok => ttl[i] = 0,
         UNCHANGED <<lockVars, usingVars>>
  PROVE  LeaseInv'
<1> DEFINE q == requests[c][i]
           r == replies[c][i]
           req == Head(q)
           answer == [op |-> req.op, att |-> req.att, ok |-> ok, age |-> req.age]
<1>1. /\ TypeOK /\ Undecided(c)
      /\ q \in Seq(Request) /\ r \in Seq(Reply)
      /\ ttl[i] \in Nat /\ timer[c] \in Int
      /\ Shape(q, r, pc[c], Attempt(c))
      /\ Outlives(q, r, pc[c], timer[c], ttl[i])
      /\ Timed(q, pc[c], timer[c], elapsed[c])
      /\ Claims(q, r, pc[c]) => owner[i] = c
  BY Connection
<1>2. /\ r = <<>> /\ q[1] = req
      /\ req.op \in {"set", "pexpire", "release"}
      /\ req.op = "set" => Tail(q) = <<>> /\ pc[c] = "waiting" /\ req.att = Attempt(c)
      /\ req.op # "set" => Shape(Tail(q), r, pc[c], Attempt(c))
      /\ req.op = "pexpire" => pc[c] = "acting" \/ Relies(Tail(q))
      /\ req.op = "release" => pc[c] # "acting" /\ ~Relies(Tail(q))
  BY <1>1, RequestLeaves
<1>3. req \in Request /\ req.age \in 0..MaxDelay /\ Tail(q) \in Seq(Request)
  <2>1. req \in Request /\ Tail(q) \in Seq(Request)
    BY <1>1, HeadTailProperties
  <2> QED BY <2>1 DEF Request
<1>4. /\ KeyExpiration \in Nat \ {0} /\ MaxDelay \in Nat /\ TimerLag \in Nat /\ NextWait \in Nat
      /\ ExtensionTtl \in Nat /\ NextWait + TimerLag + MaxDelay < ExtensionTtl
      /\ Off \in Int /\ \A j \in Instances : j = i
  BY EnvelopeNumbers, ConstantsAssumption
<1>5. /\ requests' = [requests EXCEPT ![c][i] = Tail(q)]
      /\ requests'[c][i] = Tail(q)
      /\ \A d \in Clients \ {c} : requests'[d] = requests[d] /\ replies'[d] = replies[d]
  <2>1. /\ requests' = [requests EXCEPT ![c][i] = Tail(q)]
        /\ replies' = [replies EXCEPT ![c][i] = Append(r, answer)] \/ UNCHANGED replies
    BY DEF Serve
  <2>2. /\ requests \in [Clients -> [Instances -> Seq(Request)]]
        /\ replies \in [Clients -> [Instances -> Seq(Reply)]]
    BY <1>1 DEF TypeOK
  <2> HIDE DEF answer, q, r
  <2> QED BY <2>1, <2>2
<1>6. req.op = "set" => replies'[c][i] = <<answer>>
  <2>1. req.op = "set" => IsAwaited(req)
    <3>1. retryTimes[c] + 1 # 0
      <4>1. retryTimes[c] \in 0..MaxRetries
        BY <1>1 DEF TypeOK
      <4> QED BY <4>1, ConstantsAssumption
    <3> QED BY <1>2, <3>1 DEF IsAwaited, Attempt
  <2>2. Append(<<>>, answer) = <<answer>>
    OBVIOUS
  <2>3. req.op = "set" => replies' = [replies EXCEPT ![c][i] = Append(r, answer)]
    BY <2>1 DEF Serve
  <2>4. replies \in [Clients -> [Instances -> Seq(Reply)]]
    BY <1>1 DEF TypeOK
  <2>5. req.op = "set" => replies'[c][i] = Append(r, answer)
    <3> HIDE DEF answer
    <3> QED BY <2>3, <2>4
  <2> QED BY <1>2, <2>2, <2>5
<1>7. req.op # "set" => replies'[c][i] = <<>>
  <2>1. req.op # "set" => ~IsAwaited(req)
    BY <1>2 DEF IsAwaited
  <2> QED BY <1>2, <2>1 DEF Serve
<1>8. UNCHANGED <<pc, timer, elapsed, successCount, successInstances, retryTimes>>
  BY DEF lockVars, usingVars
<1>9. ASSUME NEW d \in Clients PROVE Undecided(d)'
  BY <1>8 DEF Undecided, LeaseInv
<1>10. Attempt(c)' = Attempt(c)
  BY <1>8 DEF Attempt
<1>11. ASSUME NEW d \in Clients \ {c}, Claims(requests[d][i], replies[d][i], pc[d])
       PROVE  UNCHANGED <<ttl, owner>>
  <2>1. owner[i] = d /\ ttl[i] > 0
    BY <1>11, Connection, ClaimedIsAlive
  <2>2. ~Claims(q, r, pc[c])
    BY <1>1, <2>1
  <2>3. req.op = "set"
    BY <1>2, <2>2 DEF Claims, Relies
  <2>4. Apply(c, i, req.op) => SetNX(c, i)
    BY <2>3 DEF Apply
  <2>5. SetNX(c, i) => UNCHANGED <<ttl, owner>>
    BY <1>1, <2>1 DEF SetNX
  <2> QED BY <2>4, <2>5
<1>12. ASSUME NEW d \in Clients \ {c} PROVE LeaseOf(d, i)'
  <2>1. /\ Shape(requests[d][i], replies[d][i], pc[d], Attempt(d))
        /\ Outlives(requests[d][i], replies[d][i], pc[d], timer[d], ttl[i])
        /\ Timed(requests[d][i], pc[d], timer[d], elapsed[d])
        /\ Claims(requests[d][i], replies[d][i], pc[d]) => owner[i] = d
    BY Connection
  <2>2. /\ requests'[d][i] = requests[d][i] /\ replies'[d][i] = replies[d][i]
        /\ pc'[d] = pc[d] /\ timer'[d] = timer[d] /\ elapsed'[d] = elapsed[d] /\ Attempt(d)' = Attempt(d)
    BY <1>5, <1>8 DEF Attempt
  <2>3. CASE Claims(requests[d][i], replies[d][i], pc[d])
    <3>1. ttl' = ttl /\ owner' = owner
      BY <1>11, <2>3
    <3> QED BY <2>1, <2>2, <3>1 DEF LeaseOf
  <2>4. CASE ~Claims(requests[d][i], replies[d][i], pc[d])
    <3>1. Outlives(requests[d][i], replies[d][i], pc[d], timer[d], ttl'[i])
      BY <2>4 DEF Claims, Outlives
    <3> QED BY <2>1, <2>2, <2>4, <3>1 DEF LeaseOf
  <2> QED BY <2>3, <2>4
<1>13. ASSUME req.op = "set" PROVE LeaseOf(c, i)'
  <2>1. /\ Tail(q) = <<>> /\ pc[c] = "waiting" /\ req.att = Attempt(c) /\ replies'[c][i] = <<answer>>
    BY <1>2, <1>6, <1>13
  <2>2. ok => ttl'[i] = KeyExpiration /\ owner'[i] = c
    <3>1. ok => SetNX(c, i)
      BY <1>13 DEF Apply
    <3> QED BY <1>1, <1>13, <3>1 DEF SetNX, TypeOK
  <2>3. <<answer>>[1] = answer /\ Len(<<answer>>) = 1 /\ <<answer>> # <<>>
    OBVIOUS
  <2>4. Shape(<<>>, <<answer>>, "waiting", Attempt(c))
    BY <1>13, <2>1, <2>3 DEF Shape
  <2>5. ok => ttl'[i] + answer.age >= KeyExpiration
    BY <1>3, <1>4, <2>2
  <2>6. /\ Outlives(<<>>, <<answer>>, "waiting", timer[c], ttl'[i])
        /\ Timed(<<>>, "waiting", timer[c], elapsed[c])
    BY <2>3, <2>5 DEF Outlives, Timed, Relies
  <2>7. Claims(<<>>, <<answer>>, "waiting") => owner'[i] = c
    BY <2>2, <2>3 DEF Claims, Relies
  <2> QED BY <1>5, <1>8, <1>10, <2>1, <2>4, <2>6, <2>7 DEF LeaseOf
<1>14. ASSUME req.op = "pexpire" PROVE LeaseOf(c, i)'
  <2>1. Relies(q)
    BY <1>2, <1>14 DEF Relies
  <2>2. ttl[i] > 0 /\ owner[i] = c
    <3>1. ttl[i] + req.age > MaxDelay
      BY <1>1, <1>2, <2>1 DEF Outlives
    <3> QED BY <1>1, <1>3, <1>4, <2>1, <3>1 DEF Claims
  <2>3. ExtensionTtl > MaxDelay /\ ExtensionTtl # 0
    BY <1>4
  <2>4. ttl'[i] = ExtensionTtl /\ owner'[i] = c
    <3>1. PExpire(c, i)
      BY <1>14 DEF Apply
    <3>2. ttl[i] # 0 /\ i \in DOMAIN ttl /\ i \in DOMAIN owner
      BY <1>1, <2>2 DEF TypeOK
    <3>3. /\ ttl' = [ttl EXCEPT ![i] = ExtensionTtl]
          /\ owner' = [owner EXCEPT ![i] = IF ExtensionTtl = 0 THEN NoClient ELSE @]
      BY <3>1, <3>2 DEF PExpire
    <3> QED BY <2>2, <2>3, <3>2, <3>3
  <2>5. Relies(Tail(q)) => ExtensionTtl + Tail(q)[1].age > MaxDelay
    <3>1. Relies(Tail(q)) => Tail(q)[1].age \in 0..MaxDelay
      BY <1>3, RequestSeq DEF Relies
    <3>2. MaxDelay \in Nat /\ ExtensionTtl \in Nat
      BY <1>4
    <3>3. \A a \in 0..MaxDelay : ExtensionTtl + a > MaxDelay
      BY <2>3, <3>2
    <3> QED BY <3>1, <3>3
  <2>6. pc[c] = "acting" /\ timer[c] # Off => /\ timer[c] >= -TimerLag /\ timer[c] <= NextWait
                                             /\ ExtensionTtl > timer[c] + TimerLag + MaxDelay
    <3>1. pc[c] = "acting" /\ timer[c] # Off => timer[c] >= -TimerLag /\ timer[c] <= NextWait
      BY <1>1 DEF Timed
    <3> QED BY <1>1, <1>4, <3>1
  <2>7. /\ Outlives(Tail(q), <<>>, pc[c], timer[c], ExtensionTtl)
        /\ Timed(Tail(q), pc[c], timer[c], elapsed[c])
    <3>1. Timed(Tail(q), pc[c], timer[c], elapsed[c])
      BY <1>1, <2>6 DEF Timed
    <3>2. Outlives(Tail(q), <<>>, pc[c], timer[c], ExtensionTtl)
      BY <2>3, <2>5, <2>6 DEF Outlives
    <3> QED BY <3>1, <3>2
  <2>8. Shape(Tail(q), <<>>, pc[c], Attempt(c)) /\ replies'[c][i] = <<>>
    BY <1>2, <1>7, <1>14
  <2> QED BY <1>5, <1>8, <1>10, <2>4, <2>7, <2>8 DEF LeaseOf
<1>15. ASSUME req.op = "release" PROVE LeaseOf(c, i)'
  <2>1. /\ pc[c] # "acting" /\ ~Relies(Tail(q)) /\ replies'[c][i] = <<>>
        /\ Shape(Tail(q), <<>>, pc[c], Attempt(c))
    BY <1>2, <1>7, <1>15
  <2>2. ~Claims(Tail(q), <<>>, pc[c])
    BY <2>1 DEF Claims
  <2>3. /\ Outlives(Tail(q), <<>>, pc[c], timer[c], ttl'[i])
        /\ Timed(Tail(q), pc[c], timer[c], elapsed[c])
    BY <2>1 DEF Outlives, Timed
  <2> QED BY <1>5, <1>8, <1>10, <2>1, <2>2, <2>3 DEF LeaseOf
<1>16. LeaseOf(c, i)'
  BY <1>2, <1>13, <1>14, <1>15
<1>17. ASSUME NEW d \in Clients, NEW j \in Instances PROVE LeaseOf(d, j)'
  BY <1>4, <1>12, <1>16
<1> QED BY <1>9, <1>17 DEF LeaseInv

\* Time leaves the requests in their places and ages them.
LEMMA OlderRequests ==
  ASSUME NEW q \in [Instances -> Seq(Request)], NEW i \in Instances
  PROVE  /\ Len(Older(q)[i]) = Len(q[i])
         /\ \A k \in 1..Len(q[i]) :
              /\ Older(q)[i][k].op = q[i][k].op /\ Older(q)[i][k].att = q[i][k].att
              /\ Older(q)[i][k].age = q[i][k].age + 1
<1>1. /\ Len(q[i]) \in Nat /\ DOMAIN q[i] = 1..Len(q[i])
      /\ \A k \in 1..Len(q[i]) : q[i][k] \in Request
  BY LenProperties, ElementOfSeq
<1>2. Older(q)[i] = [k \in 1..Len(q[i]) |-> [q[i][k] EXCEPT !.age = @ + 1]]
  BY <1>1 DEF Older
<1>3. Len(Older(q)[i]) = Len(q[i])
  BY <1>1, <1>2, LenProperties
<1>4. ASSUME NEW m \in Request
      PROVE  LET o == [m EXCEPT !.age = @ + 1]
             IN o.op = m.op /\ o.att = m.att /\ o.age = m.age + 1
  BY DEF Request
<1> QED BY <1>1, <1>2, <1>3, <1>4

\* ... and the replies.
LEMMA OlderReplies ==
  ASSUME NEW q \in [Instances -> Seq(Reply)], NEW i \in Instances
  PROVE  /\ Len(Older(q)[i]) = Len(q[i])
         /\ \A k \in 1..Len(q[i]) :
              /\ Older(q)[i][k].op = q[i][k].op /\ Older(q)[i][k].att = q[i][k].att
              /\ Older(q)[i][k].ok = q[i][k].ok
              /\ Older(q)[i][k].age = q[i][k].age + 1
<1>1. /\ Len(q[i]) \in Nat /\ DOMAIN q[i] = 1..Len(q[i])
      /\ \A k \in 1..Len(q[i]) : q[i][k] \in Reply
  BY LenProperties, ElementOfSeq
<1>2. Older(q)[i] = [k \in 1..Len(q[i]) |-> [q[i][k] EXCEPT !.age = @ + 1]]
  BY <1>1 DEF Older
<1>3. Len(Older(q)[i]) = Len(q[i])
  BY <1>1, <1>2, LenProperties
<1>4. ASSUME NEW m \in Reply
      PROVE  LET o == [m EXCEPT !.age = @ + 1]
             IN o.op = m.op /\ o.att = m.att /\ o.ok = m.ok /\ o.age = m.age + 1
  BY DEF Reply
<1> QED BY <1>1, <1>2, <1>3, <1>4

\* A unit of time passes: nothing that is due is late, so every key that is relied on lives on.
LEMMA LeaseTickStep ==
  ASSUME LeaseEnvelope, LeaseInv, TypeOK', Tick
  PROVE  LeaseInv'
<1>1. ASSUME NEW c \in Clients PROVE Undecided(c)'
  BY DEF LeaseInv, Undecided, Tick, lockVars
<1>2. ASSUME NEW c \in Clients, NEW i \in Instances PROVE LeaseOf(c, i)'
  <2> DEFINE q == requests[c][i]
             q2 == requests'[c][i]
             r == replies[c][i]
             r2 == replies'[c][i]
             p == pc[c]
             n == Attempt(c)
             t == timer[c]
             e == elapsed[c]
             e2 == elapsed'[c]
             life == ttl[i]
  <2>1. /\ q \in Seq(Request) /\ r \in Seq(Reply) /\ life \in Nat /\ t \in Int /\ e \in Nat
        /\ Shape(q, r, p, n) /\ Outlives(q, r, p, t, life) /\ Timed(q, p, t, e)
        /\ Claims(q, r, p) => owner[i] = c
        /\ TypeOK
    BY Connection
  <2>2. /\ requests[c] \in [Instances -> Seq(Request)] /\ replies[c] \in [Instances -> Seq(Reply)]
        /\ requests'[c] = Older(requests[c]) /\ replies'[c] = Older(replies[c])
        /\ requests'[c] \in [Instances -> Seq(Request)] /\ replies'[c] \in [Instances -> Seq(Reply)]
    BY <2>1 DEF TypeOK, Tick
  <2>3. /\ \A k \in DOMAIN q : q[k].age < MaxDelay
        /\ \A k \in DOMAIN r : r[k].age < MaxDelay
        /\ t # Off => t > -TimerLag
        /\ p = "acting" => e < MaxAction
    BY DEF Tick, NothingOverdue
  <2>4. /\ q2 \in Seq(Request) /\ Len(q2) = Len(q)
        /\ \A k \in 1..Len(q) : /\ q2[k].op = q[k].op /\ q2[k].att = q[k].att
                                /\ q2[k].age = q[k].age + 1 /\ q[k].age < MaxDelay
    <3>1. DOMAIN q = 1..Len(q)
      BY <2>1, LenProperties
    <3>2. q2 = Older(requests[c])[i] /\ q2 \in Seq(Request)
      BY <2>2
    <3>3. /\ Len(Older(requests[c])[i]) = Len(requests[c][i])
          /\ \A k \in 1..Len(requests[c][i]) :
               /\ Older(requests[c])[i][k].op = requests[c][i][k].op
               /\ Older(requests[c])[i][k].att = requests[c][i][k].att
               /\ Older(requests[c])[i][k].age = requests[c][i][k].age + 1
      BY <2>2, OlderRequests
    <3> QED BY <2>3, <3>1, <3>2, <3>3
  <2>5. /\ r2 \in Seq(Reply) /\ Len(r2) = Len(r)
        /\ \A k \in 1..Len(r) : /\ r2[k].op = r[k].op /\ r2[k].att = r[k].att /\ r2[k].ok = r[k].ok
                                /\ r2[k].age = r[k].age + 1 /\ r[k].age < MaxDelay
    <3>1. DOMAIN r = 1..Len(r)
      BY <2>1, LenProperties
    <3>2. r2 = Older(replies[c])[i] /\ r2 \in Seq(Reply)
      BY <2>2
    <3>3. /\ Len(Older(replies[c])[i]) = Len(replies[c][i])
          /\ \A k \in 1..Len(replies[c][i]) :
               /\ Older(replies[c])[i][k].op = replies[c][i][k].op
               /\ Older(replies[c])[i][k].att = replies[c][i][k].att
               /\ Older(replies[c])[i][k].ok = replies[c][i][k].ok
               /\ Older(replies[c])[i][k].age = replies[c][i][k].age + 1
      BY <2>2, OlderReplies
    <3> QED BY <2>3, <3>1, <3>2, <3>3
  <2>6. e2 \in Int /\ e2 >= e
    <3>1. e2 = IF pc[c] # "idle" /\ elapsed[c] < MaxElapsed THEN elapsed[c] + 1 ELSE elapsed[c]
      BY DEF Tick
    <3> QED BY <2>1, <3>1
  <2>7. /\ timer'[c] = IF t = Off THEN Off ELSE t - 1
        /\ ttl'[i] = Less(life) /\ pc'[c] = p /\ Attempt(c)' = n
        /\ owner'[i] = IF life <= 1 THEN NoClient ELSE owner[i]
    BY DEF Tick, Attempt, lockVars
  <2> HIDE DEF q, q2, r, r2, p, n, t, e, e2, life
  <2>8. /\ Shape(q2, r2, p, n)
        /\ Outlives(q2, r2, p, timer'[c], Less(life))
        /\ Timed(q2, p, timer'[c], e2)
        /\ Claims(q2, r2, p) => Claims(q, r, p) /\ life > 1
    <3> DEFINE t2 == IF t = Off THEN Off ELSE t - 1
    <3>1. t \in Int /\ e \in Int
      BY <2>1
    <3>2. /\ \A k \in 1..Len(q) : /\ q2[k].op = q[k].op /\ q2[k].att = q[k].att
                                  /\ q2[k].age = q[k].age + 1 /\ q[k].age < MaxDelay
          /\ \A k \in 1..Len(r) : /\ r2[k].op = r[k].op /\ r2[k].att = r[k].att
                                  /\ r2[k].ok = r[k].ok
                                  /\ r2[k].age = r[k].age + 1 /\ r[k].age < MaxDelay
      BY <2>4, <2>5
    <3>3. /\ t # Off => t > -TimerLag
          /\ p = "acting" => e < MaxAction
          /\ e2 >= e /\ e2 \in Int
      BY <2>3, <2>6
    <3>4. /\ Shape(q2, r2, p, n)
          /\ Outlives(q2, r2, p, t2, Less(life))
          /\ Timed(q2, p, t2, e2)
          /\ Claims(q2, r2, p) => Claims(q, r, p) /\ life > 1
      BY <2>1, <2>4, <2>5, <3>1, <3>2, <3>3, TimePasses
    <3>5. timer'[c] = t2
      BY <2>7
    <3> QED BY <3>4, <3>5
  <2>9. Claims(q2, r2, p) => owner'[i] = c
    <3>1. life > 1 => ~(life <= 1)
      BY <2>1
    <3> QED BY <2>1, <2>7, <2>8, <3>1
  <2>10. q2 = requests'[c][i] /\ r2 = replies'[c][i] /\ e2 = elapsed'[c]
    BY DEF q2, r2, e2
  <2> QED BY <2>7, <2>8, <2>9, <2>10 DEF LeaseOf
<1> QED BY <1>1, <1>2 DEF LeaseInv

\* LeaseInv is inductive.
LEMMA LeaseInit == LeaseEnvelope /\ Init => LeaseInv
<1> SUFFICES ASSUME LeaseEnvelope, Init PROVE LeaseInv
  OBVIOUS
<1>1. ASSUME NEW c \in Clients, NEW i \in Instances PROVE LeaseOf(c, i)
  <2>1. requests[c][i] = <<>> /\ replies[c][i] = <<>> /\ pc[c] = "idle"
    BY DEF Init
  <2>2. /\ Shape(<<>>, <<>>, "idle", Attempt(c)) /\ Outlives(<<>>, <<>>, "idle", timer[c], ttl[i])
        /\ Timed(<<>>, "idle", timer[c], elapsed[c]) /\ ~Claims(<<>>, <<>>, "idle")
    BY DEF Shape, Outlives, Timed, Claims, Relies
  <2> QED BY <2>1, <2>2 DEF LeaseOf
<1>2. ASSUME NEW c \in Clients PROVE Undecided(c)
  BY DEF Init, Undecided
<1> QED BY <1>1, <1>2, TypeInit DEF LeaseInv

\* Every step keeps the lease.
LEMMA LeaseStep == LeaseEnvelope /\ LeaseInv /\ [Next]_vars => LeaseInv'
<1> SUFFICES ASSUME LeaseEnvelope, LeaseInv, [Next]_vars PROVE LeaseInv'
  OBVIOUS
<1>1. TypeOK'
  BY TypeStep DEF LeaseInv
<1>2. ASSUME NEW c \in Clients, Start(c) \/ Retry(c) PROVE LeaseInv'
  BY <1>1, <1>2, LeaseSetStep
<1>3. ASSUME NEW c \in Clients, GiveUp(c) PROVE LeaseInv'
  BY <1>1, <1>3, LeaseGiveUpStep
<1>4. ASSUME NEW c \in Clients, FinishAction(c) PROVE LeaseInv'
  BY <1>1, <1>4, LeaseFinishStep
<1>5. ASSUME NEW c \in Clients, Extend(c) \/ StopExtending(c) PROVE LeaseInv'
  BY <1>1, <1>5, LeaseExtendStep
<1>6. ASSUME NEW c \in Clients, NEW i \in Instances, Execute(c, i) PROVE LeaseInv'
  <2> DEFINE op == Head(requests[c][i]).op
             ok == op = "set" => ttl[i] = 0
  <2>1. ok \in BOOLEAN /\ (op = "set" /\ ok => ttl[i] = 0)
    OBVIOUS
  <2>2. /\ requests[c][i] # <<>> /\ Serve(c, i, ok) /\ Apply(c, i, op)
        /\ UNCHANGED <<lockVars, usingVars>>
    BY <1>6 DEF Execute
  <2> HIDE DEF ok
  <2> QED BY <1>1, <2>1, <2>2, LeaseServeStep
<1>7. ASSUME NEW c \in Clients, NEW i \in Instances, Fail(c, i) PROVE LeaseInv'
  <2>1. /\ requests[c][i] # <<>> /\ Serve(c, i, FALSE)
        /\ Head(requests[c][i]).op # "pexpire"
        /\ Apply(c, i, Head(requests[c][i]).op) \/ UNCHANGED <<ttl, owner>>
        /\ UNCHANGED <<lockVars, usingVars>>
    BY <1>7 DEF Fail, LeaseEnvelope
  <2>2. FALSE \in BOOLEAN
    OBVIOUS
  <2> QED BY <1>1, <2>1, <2>2, LeaseServeStep
<1>8. ASSUME NEW c \in Clients, NEW i \in Instances, LockReply(c, i) PROVE LeaseInv'
  BY <1>1, <1>8, LeaseReplyStep
<1>9. ASSUME NEW c \in Clients, NEW i \in Instances, RollbackReply(c, i) PROVE LeaseInv'
  BY <1>9 DEF RollbackReply, LeaseInv, Undecided
<1>10. CASE Tick
  BY <1>1, <1>10, LeaseTickStep
<1>11. CASE UNCHANGED vars
  <2> USE DEF vars, lockVars, usingVars, connVars, redisVars
  <2> QED BY <1>1, <1>11 DEF LeaseInv, LeaseOf, Undecided, Attempt
<1> QED BY <1>2, <1>3, <1>4, <1>5, <1>6, <1>7, <1>8, <1>9, <1>10, <1>11 DEF Next

\* The lease argument holds of every behaviour within the envelope.
LEMMA LeaseAlways == ASSUME LeaseEnvelope PROVE Spec => []LeaseInv
<1>1. Init => LeaseInv
  BY LeaseInit
<1>2. LeaseInv /\ [Next]_vars => LeaseInv'
  BY LeaseStep
<1> QED BY <1>1, <1>2, PTL DEF Spec

\* On a single instance, with the timer and the delays in the proportion the envelope asks for, the
\* key is the caller's and alive all the time its action runs.
THEOREM LeaseIsHeld == ASSUME LeaseEnvelope PROVE Spec => []LeaseHeld
<1>1. LeaseInv => LeaseHeld
  <2> SUFFICES ASSUME LeaseInv, NEW c \in Clients, Acting(c)
               PROVE  Cardinality({i \in Instances : ttl[i] > 0 /\ owner[i] = c}) >= QuorumSize
    BY DEF LeaseHeld
  <2>1. ASSUME NEW i \in Instances PROVE ttl[i] > 0 /\ owner[i] = c
    <3>1. Claims(requests[c][i], replies[c][i], pc[c])
      BY DEF Claims, Acting
    <3> QED BY <3>1, Connection, ClaimedIsAlive
  <2>2. {i \in Instances : ttl[i] > 0 /\ owner[i] = c} = Instances
    BY <2>1
  <2>3. QuorumSize = 1 /\ Cardinality(Instances) = 1
    BY EnvelopeNumbers DEF LeaseEnvelope
  <2> QED BY <2>2, <2>3
<1> QED BY <1>1, LeaseAlways, PTL

\* There release(), which does not look whose key it deletes and is not awaited, deletes only the
\* key of its own caller.
THEOREM ReleasesOnlyOwnKey == ASSUME LeaseEnvelope PROVE Spec => []DeletesOnlyOwnKey
<1>1. LeaseInv => DeletesOnlyOwnKey
  <2> SUFFICES ASSUME LeaseInv, NEW c \in Clients, NEW i \in Instances,
                      NEW k \in DOMAIN requests[c][i],
                      requests[c][i][k].op \in {"del", "release"}
               PROVE  owner[i] = c
    BY DEF DeletesOnlyOwnKey
  <2> DEFINE q == requests[c][i]
  <2>1. /\ q \in Seq(Request) /\ Shape(q, replies[c][i], pc[c], Attempt(c))
        /\ Claims(q, replies[c][i], pc[c]) => owner[i] = c
    BY Connection
  <2>2. /\ Len(q) \in Nat /\ DOMAIN q = 1..Len(q) /\ k \in 1..Len(q)
        /\ q # <<>>
    <3>1. /\ Len(q) \in Nat /\ DOMAIN q = 1..Len(q) /\ (q = <<>> <=> Len(q) = 0)
      BY <2>1, RequestSeq
    <3> QED BY <3>1
  <2>3. q[k].op = "release"
    BY <2>1 DEF Shape
  <2>4. q[1].op # "set"
    <3>1. q[1].op = "set" => 1 = Len(q)
      <4>1. 1 \in DOMAIN q
        BY <2>2
      <4> QED BY <2>1, <4>1 DEF Shape
    <3>2. 1 = Len(q) => k = 1
      BY <2>2
    <3> QED BY <2>3, <3>1, <3>2
  <2>5. q[1].op \in {"set", "pexpire", "release"}
    BY <2>1, <2>2, RequestLeaves
  <2> QED BY <2>1, <2>2, <2>4, <2>5 DEF Claims, Relies
<1> QED BY <1>1, LeaseAlways, PTL

\* Two callers cannot both rely on the key.
LEMMA OneHolder ==
  ASSUME LeaseEnvelope, LeaseInv, NEW c \in Clients, NEW d \in Clients, NEW i \in Instances,
         Claims(requests[c][i], replies[c][i], pc[c]), pc[d] = "acting"
  PROVE  c = d
<1>1. Claims(requests[d][i], replies[d][i], pc[d])
  BY DEF Claims
<1> QED BY <1>1, Connection

\* Every step of the code is a step of the lock or none.
LEMMA MutexStep ==
  LeaseEnvelope /\ LeaseInv /\ [Next]_vars => [AbstractLock!Next]_Phase
<1> SUFFICES ASSUME LeaseEnvelope, LeaseInv, [Next]_vars
             PROVE  AbstractLock!Next \/ Phase' = Phase
  BY DEF AbstractLock!Next
<1>1. TypeOK /\ TypeOK' /\ LeaseInv'
  BY TypeStep, LeaseStep DEF LeaseInv
<1>2. /\ Phase \in [Clients -> {"idle", "holding", "waiting"}]
      /\ \A c \in Clients : /\ Phase[c] = "idle" <=> pc[c] = "idle"
                            /\ Phase[c] = "holding" <=> pc[c] = "acting"
                            /\ Phase[c] = "waiting" <=> pc[c] \in {"waiting", "releasing", "sleeping"}
  BY <1>1 DEF Phase, TypeOK
<1>3. /\ Phase' \in [Clients -> {"idle", "holding", "waiting"}]
      /\ \A c \in Clients : /\ Phase'[c] = "idle" <=> pc'[c] = "idle"
                            /\ Phase'[c] = "holding" <=> pc'[c] = "acting"
                            /\ Phase'[c] = "waiting" <=> pc'[c] \in {"waiting", "releasing", "sleeping"}
  BY <1>1 DEF Phase, TypeOK
<1>4. pc' = pc => Phase' = Phase
  BY DEF Phase
<1> HIDE DEF Phase
\* A step that moves c alone.
<1>5. ASSUME NEW c \in Clients, NEW to, pc' = [pc EXCEPT ![c] = to],
             to \in {"idle", "waiting", "sleeping", "acting"}
      PROVE  /\ to = "idle" => Phase' = [Phase EXCEPT ![c] = "idle"]
             /\ to = "acting" => Phase' = [Phase EXCEPT ![c] = "holding"]
             /\ to \in {"waiting", "sleeping"} => Phase' = [Phase EXCEPT ![c] = "waiting"]
  <2>1. pc'[c] = to /\ \A d \in Clients \ {c} : pc'[d] = pc[d]
    BY <1>1, <1>5 DEF TypeOK
  <2>2. \A d \in Clients \ {c} : Phase'[d] = Phase[d]
    BY <1>2, <1>3, <2>1
  <2> QED BY <1>2, <1>3, <1>5, <2>1, <2>2
<1>6. ASSUME NEW c \in Clients, Start(c) PROVE AbstractLock!Request(c)
  <2>1. pc[c] = "idle" /\ pc' = [pc EXCEPT ![c] = "waiting"]
    BY <1>6 DEF Start
  <2> QED BY <1>2, <1>5, <2>1 DEF AbstractLock!Request
<1>7. ASSUME NEW c \in Clients, Retry(c) PROVE Phase' = Phase
  <2>1. pc[c] = "sleeping" /\ pc' = [pc EXCEPT ![c] = "waiting"]
    BY <1>7 DEF Retry
  <2>2. Phase' = [Phase EXCEPT ![c] = "waiting"] /\ Phase[c] = "waiting"
    BY <1>2, <1>5, <2>1
  <2> QED BY <1>2, <2>2
<1>8. ASSUME NEW c \in Clients, GiveUp(c) PROVE AbstractLock!Refuse(c)
  <2>1. pc[c] = "sleeping" /\ pc' = [pc EXCEPT ![c] = "idle"]
    BY <1>8 DEF GiveUp, Forget
  <2> QED BY <1>2, <1>5, <2>1 DEF AbstractLock!Refuse
<1>9. ASSUME NEW c \in Clients, FinishAction(c) PROVE AbstractLock!Release(c)
  <2>1. pc[c] = "acting" /\ pc' = [pc EXCEPT ![c] = "idle"]
    BY <1>9 DEF FinishAction, Forget
  <2> QED BY <1>2, <1>5, <2>1 DEF AbstractLock!Release
<1>10. ASSUME NEW c \in Clients, NEW i \in Instances, LockReply(c, i)
       PROVE  AbstractLock!Grant(c) \/ Phase' = Phase
  <2>1. /\ pc[c] = "waiting"
        /\ pc'[c] = "sleeping" \/ (pc'[c] = "acting" /\ Claims(requests[c][i], replies[c][i], pc[c]))
        /\ \A d \in Clients \ {c} : pc'[d] = pc[d]
    BY <1>1, <1>10, LeaseReplyStep
  <2>2. pc' = [pc EXCEPT ![c] = pc'[c]]
    BY <1>1, <2>1 DEF TypeOK
  <2>3. CASE pc'[c] = "sleeping"
    <3>1. Phase' = [Phase EXCEPT ![c] = "waiting"] /\ Phase[c] = "waiting"
      BY <1>2, <1>5, <2>1, <2>2, <2>3
    <3> QED BY <1>2, <3>1
  <2>4. CASE pc'[c] = "acting"
    <3>1. \A d \in Clients : pc[d] # "acting"
      <4> SUFFICES ASSUME NEW d \in Clients, pc[d] = "acting" PROVE FALSE
        OBVIOUS
      <4>1. Claims(requests[c][i], replies[c][i], pc[c])
        BY <2>1, <2>4
      <4>2. c = d
        BY <4>1, OneHolder
      <4> QED BY <2>1, <4>2
    <3>2. Phase' = [Phase EXCEPT ![c] = "holding"] /\ Phase[c] = "waiting"
      BY <1>2, <1>5, <2>1, <2>2, <2>4
    <3> QED BY <1>2, <3>1, <3>2 DEF AbstractLock!Grant
  <2> QED BY <2>1, <2>3, <2>4
<1>11. ASSUME NEW c \in Clients, NEW i \in Instances, RollbackReply(c, i) PROVE FALSE
  BY <1>11 DEF RollbackReply, LeaseInv, Undecided
<1>12. ASSUME \/ UNCHANGED vars \/ Tick
              \/ \E c \in Clients : \/ Extend(c) \/ StopExtending(c)
                                    \/ \E i \in Instances : Execute(c, i) \/ Fail(c, i)
       PROVE  pc' = pc
  BY <1>12 DEF vars, usingVars, Tick, Extend, StopExtending, Execute, Fail
<1> QED BY <1>4, <1>6, <1>7, <1>8, <1>9, <1>10, <1>11, <1>12 DEF Next, AbstractLock!Next

\* using() is a mutual exclusion lock there: it grants the lock to one caller at a time, whatever
\* the delays, the failed SETs and DELs, and the keys that expire.
THEOREM LockIsMutex == ASSUME LeaseEnvelope PROVE Spec => ImplementsMutex
<1>1. Init => AbstractLock!Init
  BY DEF Init, AbstractLock!Init, Phase
<1>2. LeaseInv /\ [Next]_vars => [AbstractLock!Next]_Phase
  BY MutexStep
<1> QED BY <1>1, <1>2, LeaseAlways, PTL DEF Spec, ImplementsMutex, AbstractLock!Spec

==============================================================================
