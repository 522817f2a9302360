------------------------------- MODULE Redlock -------------------------------
(***************************************************************************)
(* RedlockService (src/packages/cache/src/redlock/redlock.service.ts): a   *)
(* lock kept as one key on each of several independent Redis instances.    *)
(*                                                                         *)
(* A client is one caller of using(): it takes the lock, runs its action   *)
(* while a timer extends the keys, and gives the lock back, any number of  *)
(* times.  Every client has one connection per instance; ioredis pipelines *)
(* it, so commands are executed and answered in the order they were sent.  *)
(*                                                                         *)
(* Time is discrete.  Tick lets one unit pass: the keys' TTLs and the      *)
(* clients' timers count down.  How much a reply and a timer may be late   *)
(* is a parameter.                                                         *)
(***************************************************************************)
EXTENDS Integers, Sequences, FiniteSets

CONSTANTS
  Clients,        \* the concurrent callers of using() on one lock key
  NoClient,       \* the owner of a key that is not there
  Instances,      \* the Redis instances of redisArray
  KeyExpiration,  \* configuration.keyExpiration
  MaxRetries,     \* configuration.maxRetries
  RetryInterval,  \* configuration.retryInterval
  ExtendTtl,      \* configuration.extendTtl, Undefined when it is not given
  Undefined,      \* ... which is no number
  HoldFactor,     \* extension stops after HoldFactor * keyExpiration (the code: 10)
  MaxDelay,       \* environment: ticks from sending a command to its reply
  TimerLag,       \* environment: ticks by which the event loop fires a timer late
  MinAction,      \* environment: ticks from using() being called to its action ending,
  MaxAction,      \* ... at least and at most
  MaxFailures,    \* bound on the commands that fail
  FailingOps,     \* the commands that may fail
  MaxQueue        \* bound: a call starts only behind this many unanswered commands

ASSUME ConstantsAssumption ==
  /\ NoClient \notin Clients
  /\ IsFiniteSet(Instances)
  /\ KeyExpiration \in Nat \ {0}
  /\ MaxRetries \in Nat
  /\ RetryInterval \in Nat
  /\ Undefined \notin Nat
  /\ ExtendTtl \in Nat \cup {Undefined}
  /\ HoldFactor \in Nat \ {0}
  /\ MaxDelay \in Nat
  /\ TimerLag \in Nat
  /\ MinAction \in Nat
  /\ MaxAction \in Nat
  /\ MaxFailures \in Nat
  /\ FailingOps \subseteq {"set", "del", "release", "pexpire"}
  /\ MaxQueue \in Nat

VARIABLES
  pc,                \* what each client's using() is doing
  successCount,      \* lock(): the variables of its closure
  settledCount,
  retryTimes,
  successInstances,
  rollback,          \* lock(): the instances whose DEL it awaits
  elapsed,           \* ticks on the profilers of using() and lock()
  timer,             \* ticks until the sleep ends or the extension fires
  aborted,           \* signal.aborted
  requests,          \* requests[c][i]: commands of c that i has not executed, oldest first
  replies,           \* replies[c][i]: answers of i that c awaits, oldest first
  ttl,               \* ttl[i]: what is left of the key's life on i, 0 when absent
  owner,             \* owner[i]: whose SET created that key (the code stores '1')
  failures           \* the commands that failed

lockVars   == <<successCount, settledCount, retryTimes, successInstances, rollback>>
usingVars  == <<pc, elapsed, timer, aborted>>
redisVars  == <<ttl, owner, failures>>
connVars   == <<requests, replies>>
vars       == <<lockVars, usingVars, connVars, redisVars>>

Off == -TimerLag - 1          \* a timer that is not armed
HoldLimit == HoldFactor * KeyExpiration

\* elapsed stops counting where no comparison can tell any more.
MaxElapsed == (IF MaxAction > HoldLimit THEN MaxAction ELSE HoldLimit) + 1

\* lock() line 31.
QuorumSize == (Cardinality(Instances) \div 2) + 1

\* Mutant of WaitTime: the factor is forgotten.
WholeTtl(t) == t

\* Math.round(ttl * 0.9), halves rounding up as in JavaScript.
WaitTime(t) == (9 * t + 5) \div 10

\* configuration.extendTtl ?? configuration.keyExpiration: 0 is a value for ??.
ExtensionTtl == IF ExtendTtl = Undefined THEN KeyExpiration ELSE ExtendTtl

\* Mutant of NextWait: the timer goes by keyExpiration although extendTtl is shorter.
WaitIgnoringExtendTtl == WaitTime(KeyExpiration)

\* applyExtension's waitTime after the first run: 0 is no value for !extendTtl.
NextWait ==
  IF ExtendTtl \in {Undefined, 0} THEN WaitTime(KeyExpiration) ELSE WaitTime(ExtendTtl)

------------------------------------------------------------------------------
(* Commands in flight *)

Ops == {"set", "del", "release", "pexpire"}

\* A SET carries the attempt of lock() that sent it, 0 once that call of lock() is
\* over.  The DELs that lock() awaits are "del", those of release() are "release".
Request == [op : Ops, att : 0..(MaxRetries + 1), age : 0..MaxDelay]
Reply   == [op : {"set", "del"}, att : 0..(MaxRetries + 1), ok : BOOLEAN, age : 0..MaxDelay]

Command(op, att) == [op |-> op, att |-> att, age |-> 0]

\* q, the requests of one client, after it sends cmd to the instances of S.
Send(q, S, cmd) == [i \in Instances |-> IF i \in S THEN Append(q[i], cmd) ELSE q[i]]

\* q when the lock() call that sent its SETs is over.
Orphaned(q) == [i \in Instances |-> [k \in DOMAIN q[i] |-> [q[i][k] EXCEPT !.att = 0]]]

\* Nobody looks at the result of a SET whose lock() call is over, and nobody at
\* those of release() and extend(): their failures are dropped too.
IsAwaited(req) == (req.op = "set" /\ req.att # 0) \/ req.op = "del"

Attempt(c) == retryTimes[c] + 1

IsSetOf(m, attempt) == m.op = "set" /\ m.att = attempt

\* The instances whose answer to the SET of c's current attempt lock() has not seen.
Awaited(c) ==
  {i \in Instances :
     \/ \E k \in DOMAIN requests[c][i] : IsSetOf(requests[c][i][k], Attempt(c))
     \/ \E k \in DOMAIN replies[c][i] : IsSetOf(replies[c][i][k], Attempt(c))}

------------------------------------------------------------------------------
Init ==
  /\ pc = [c \in Clients |-> "idle"]
  /\ successCount = [c \in Clients |-> 0]
  /\ settledCount = [c \in Clients |-> 0]
  /\ retryTimes = [c \in Clients |-> 0]
  /\ successInstances = [c \in Clients |-> {}]
  /\ rollback = [c \in Clients |-> {}]
  /\ elapsed = [c \in Clients |-> 0]
  /\ timer = [c \in Clients |-> Off]
  /\ aborted = [c \in Clients |-> FALSE]
  /\ requests = [c \in Clients |-> [i \in Instances |-> <<>>]]
  /\ replies = [c \in Clients |-> [i \in Instances |-> <<>>]]
  /\ ttl = [i \in Instances |-> 0]
  /\ owner = [i \in Instances |-> NoClient]
  /\ failures = 0

\* using() is called, and calls lock(): the counters start at 0 and one SET NX PX
\* goes to every instance.
Start(c) ==
  /\ pc[c] = "idle"
  /\ \A i \in Instances : Len(requests[c][i]) <= MaxQueue
  /\ pc' = [pc EXCEPT ![c] = "waiting"]
  /\ successCount' = [successCount EXCEPT ![c] = 0]
  /\ settledCount' = [settledCount EXCEPT ![c] = 0]
  /\ retryTimes' = [retryTimes EXCEPT ![c] = 0]
  /\ successInstances' = [successInstances EXCEPT ![c] = {}]
  /\ elapsed' = [elapsed EXCEPT ![c] = 0]
  /\ aborted' = [aborted EXCEPT ![c] = FALSE]
  /\ requests' = [requests EXCEPT ![c] = Send(@, Instances, Command("set", 1))]
  /\ UNCHANGED <<rollback, timer, replies, redisVars>>

------------------------------------------------------------------------------
(* A Redis instance *)

\* SET key '1' PX keyExpiration NX.
SetNX(c, i) ==
  IF ttl[i] = 0
  THEN /\ ttl' = [ttl EXCEPT ![i] = KeyExpiration]
       /\ owner' = [owner EXCEPT ![i] = c]
  ELSE UNCHANGED <<ttl, owner>>

\* DEL key: whoever set it.
Delete(c, i) ==
  /\ ttl' = [ttl EXCEPT ![i] = 0]
  /\ owner' = [owner EXCEPT ![i] = NoClient]

\* PEXPIRE key: nothing if the key is not there, and it goes away at once with 0.
PExpire(c, i) ==
  IF ttl[i] = 0
  THEN UNCHANGED <<ttl, owner>>
  ELSE /\ ttl' = [ttl EXCEPT ![i] = ExtensionTtl]
       /\ owner' = [owner EXCEPT ![i] = IF ExtensionTtl = 0 THEN NoClient ELSE @]

Apply(c, i, op) ==
  CASE op = "set" -> SetNX(c, i)
    [] op \in {"del", "release"} -> Delete(c, i)
    [] op = "pexpire" -> PExpire(c, i)

\* The instance takes the oldest request; its answer travels back if it is awaited.
Serve(c, i, ok) ==
  LET req == Head(requests[c][i])
  IN /\ requests' = [requests EXCEPT ![c][i] = Tail(@)]
     /\ IF IsAwaited(req)
        THEN replies' = [replies EXCEPT ![c][i] =
               Append(@, [op |-> req.op, att |-> req.att, ok |-> ok, age |-> req.age])]
        ELSE UNCHANGED replies

Execute(c, i) ==
  /\ requests[c][i] # <<>>
  /\ Apply(c, i, Head(requests[c][i]).op)
  /\ Serve(c, i, Head(requests[c][i]).op = "set" => ttl[i] = 0)
  /\ UNCHANGED <<lockVars, usingVars, failures>>

\* The command's promise rejects: the connection broke before or after the
\* instance executed it.
Fail(c, i) ==
  /\ requests[c][i] # <<>>
  /\ Head(requests[c][i]).op \in FailingOps
  /\ failures < MaxFailures
  /\ failures' = failures + 1
  /\ Apply(c, i, Head(requests[c][i]).op) \/ UNCHANGED <<ttl, owner>>
  /\ Serve(c, i, FALSE)
  /\ UNCHANGED <<lockVars, usingVars>>

------------------------------------------------------------------------------
(* The client *)

\* The attempt's promise resolves to true: lock() returns true, using() arms the
\* first extension and starts its action.
Acquire(c) ==
  /\ pc' = [pc EXCEPT ![c] = "acting"]
  /\ timer' = [timer EXCEPT ![c] = WaitTime(KeyExpiration)]
  /\ UNCHANGED <<rollback, requests>>

\* The attempt's promise resolves to false: lock() deletes the keys it has seen
\* set so far and awaits that, or goes straight to sleep when there is none.
RollBack(c, S) ==
  /\ requests' = [requests EXCEPT ![c] = Send(@, S, Command("del", 0))]
  /\ rollback' = [rollback EXCEPT ![c] = S]
  /\ pc' = [pc EXCEPT ![c] = IF S = {} THEN "sleeping" ELSE "releasing"]
  /\ timer' = [timer EXCEPT ![c] = IF S = {} THEN RetryInterval ELSE Off]

\* Mutants of checkQuorum(): half is taken for a majority; it gives up one failure
\* too early; one failure too late; never.
HalfReached(success, settled) == success >= QuorumSize - 1
LostTooEarly(success, settled) == success < QuorumSize /\ settled - success >= QuorumSize - 1
LostTooLate(success, settled) == success < QuorumSize /\ settled - success > QuorumSize
NeverLost(success, settled) == FALSE

\* checkQuorum().
QuorumReached(success, settled) == success >= QuorumSize
QuorumLost(success, settled) == success < QuorumSize /\ settled - success >= QuorumSize

\* lockOnce() settles.  The counters belong to the call of lock(), whichever of
\* its attempts the reply is for; the promise and successInstances to the attempt.
LockReply(c, i) ==
  LET reply    == Head(replies[c][i])
      current  == reply.att = Attempt(c)
      success  == successCount[c] + (IF reply.ok THEN 1 ELSE 0)
      settled  == settledCount[c] + 1
      S        == successInstances[c] \cup (IF reply.ok /\ current THEN {i} ELSE {})
      deciding == pc[c] = "waiting" /\ current
  IN /\ replies[c][i] # <<>>
     /\ reply.op = "set"
     /\ replies' = [replies EXCEPT ![c][i] = Tail(@)]
     /\ successCount' = [successCount EXCEPT ![c] = success]
     /\ settledCount' = [settledCount EXCEPT ![c] = settled]
     /\ successInstances' = [successInstances EXCEPT ![c] = S]
     /\ \/ deciding /\ QuorumReached(success, settled) /\ Acquire(c)
        \/ deciding /\ QuorumLost(success, settled) /\ RollBack(c, S)
        \/ /\ deciding => ~QuorumReached(success, settled) /\ ~QuorumLost(success, settled)
           /\ UNCHANGED <<pc, timer, rollback, requests>>
     /\ UNCHANGED <<retryTimes, elapsed, aborted, redisVars>>

\* One DEL of the rollback settles, whether it succeeded or not; after the last
\* one lock() sleeps.
RollbackReply(c, i) ==
  LET left == rollback[c] \ {i}
  IN /\ pc[c] = "releasing"
     /\ replies[c][i] # <<>>
     /\ Head(replies[c][i]).op = "del"
     /\ replies' = [replies EXCEPT ![c][i] = Tail(@)]
     /\ rollback' = [rollback EXCEPT ![c] = left]
     /\ IF left = {}
        THEN /\ pc' = [pc EXCEPT ![c] = "sleeping"]
             /\ timer' = [timer EXCEPT ![c] = RetryInterval]
        ELSE UNCHANGED <<pc, timer>>
     /\ UNCHANGED <<successCount, settledCount, retryTimes, successInstances,
                    elapsed, aborted, requests, redisVars>>

Due(c) == timer[c] # Off /\ timer[c] <= 0

\* Mutant of MayRetry: the count is compared before it is incremented.
MayRetryOnceMore(c) == retryTimes[c] <= MaxRetries /\ elapsed[c] < KeyExpiration

MayRetry(c) == retryTimes[c] + 1 <= MaxRetries /\ elapsed[c] < KeyExpiration

\* The sleep is over and the loop goes round: successCount and settledCount keep
\* what they hold.
Retry(c) ==
  /\ pc[c] = "sleeping" /\ Due(c)
  /\ MayRetry(c)
  /\ retryTimes' = [retryTimes EXCEPT ![c] = @ + 1]
  /\ successInstances' = [successInstances EXCEPT ![c] = {}]
  /\ pc' = [pc EXCEPT ![c] = "waiting"]
  /\ timer' = [timer EXCEPT ![c] = Off]
  /\ requests' = [requests EXCEPT ![c] = Send(@, Instances, Command("set", Attempt(c) + 1))]
  /\ UNCHANGED <<successCount, settledCount, rollback, elapsed, aborted, replies, redisVars>>

\* The client is between two calls of using(): its variables are out of scope, and
\* nobody looks at a late reply.
Forget(c) ==
  /\ pc' = [pc EXCEPT ![c] = "idle"]
  /\ timer' = [timer EXCEPT ![c] = Off]
  /\ successCount' = [successCount EXCEPT ![c] = 0]
  /\ settledCount' = [settledCount EXCEPT ![c] = 0]
  /\ retryTimes' = [retryTimes EXCEPT ![c] = 0]
  /\ successInstances' = [successInstances EXCEPT ![c] = {}]
  /\ elapsed' = [elapsed EXCEPT ![c] = 0]
  /\ aborted' = [aborted EXCEPT ![c] = FALSE]
  /\ replies' = [replies EXCEPT ![c] = [i \in Instances |-> <<>>]]

\* The sleep is over and the loop ends: using() throws a LockTimeoutError.
GiveUp(c) ==
  /\ pc[c] = "sleeping" /\ Due(c)
  /\ ~MayRetry(c)
  /\ Forget(c)
  /\ requests' = [requests EXCEPT ![c] = Orphaned(@)]
  /\ UNCHANGED <<rollback, redisVars>>

\* The action returns or throws: the timer is cleared and release(), which using()
\* does not await, deletes the key on every instance.
FinishAction(c) ==
  /\ pc[c] = "acting"
  /\ elapsed[c] >= MinAction
  /\ Forget(c)
  /\ requests' = [requests EXCEPT ![c] = Send(Orphaned(@), Instances, Command("release", 0))]
  /\ UNCHANGED <<rollback, redisVars>>

\* Mutant of Extend: the timer is not armed again.
ExtendOnce(c) ==
  /\ pc[c] = "acting" /\ Due(c)
  /\ elapsed[c] <= HoldLimit
  /\ aborted' = [aborted EXCEPT ![c] = TRUE]
  /\ timer' = [timer EXCEPT ![c] = Off]
  /\ requests' = [requests EXCEPT ![c] = Send(@, Instances, Command("pexpire", 0))]
  /\ UNCHANGED <<lockVars, pc, elapsed, replies, redisVars>>

\* The extension timer fires: the action is told, the timer is armed again and the
\* keys are extended.
Extend(c) ==
  /\ pc[c] = "acting" /\ Due(c)
  /\ elapsed[c] <= HoldLimit
  /\ aborted' = [aborted EXCEPT ![c] = TRUE]
  /\ timer' = [timer EXCEPT ![c] = NextWait]
  /\ requests' = [requests EXCEPT ![c] = Send(@, Instances, Command("pexpire", 0))]
  /\ UNCHANGED <<lockVars, pc, elapsed, replies, redisVars>>

\* The lock was held for too long: the timer is not armed again.
StopExtending(c) ==
  /\ pc[c] = "acting" /\ Due(c)
  /\ elapsed[c] > HoldLimit
  /\ aborted' = [aborted EXCEPT ![c] = TRUE]
  /\ timer' = [timer EXCEPT ![c] = Off]
  /\ UNCHANGED <<lockVars, pc, elapsed, connVars, redisVars>>

------------------------------------------------------------------------------
(* Time *)

Less(n) == IF n = 0 THEN 0 ELSE n - 1

Older(q) == [i \in Instances |-> [k \in DOMAIN q[i] |-> [q[i][k] EXCEPT !.age = @ + 1]]]

\* A unit of time may pass once every reply, timer and action that is due in it
\* has happened.
NothingOverdue ==
  /\ \A c \in Clients, i \in Instances :
       /\ \A k \in DOMAIN requests[c][i] : requests[c][i][k].age < MaxDelay
       /\ \A k \in DOMAIN replies[c][i] : replies[c][i][k].age < MaxDelay
  /\ \A c \in Clients : timer[c] # Off => timer[c] > -TimerLag
  /\ \A c \in Clients : pc[c] = "acting" => elapsed[c] < MaxAction

Tick ==
  /\ NothingOverdue
  /\ ttl' = [i \in Instances |-> Less(ttl[i])]
  /\ owner' = [i \in Instances |-> IF ttl[i] <= 1 THEN NoClient ELSE owner[i]]
  /\ timer' = [c \in Clients |-> IF timer[c] = Off THEN Off ELSE timer[c] - 1]
  /\ elapsed' = [c \in Clients |->
       IF pc[c] # "idle" /\ elapsed[c] < MaxElapsed THEN elapsed[c] + 1 ELSE elapsed[c]]
  /\ requests' = [c \in Clients |-> Older(requests[c])]
  /\ replies' = [c \in Clients |-> Older(replies[c])]
  /\ UNCHANGED <<lockVars, pc, aborted, failures>>

------------------------------------------------------------------------------
Next ==
  \/ \E c \in Clients :
       \/ Start(c)
       \/ Retry(c)
       \/ GiveUp(c)
       \/ FinishAction(c)
       \/ Extend(c)
       \/ StopExtending(c)
       \/ \E i \in Instances :
            \/ Execute(c, i)
            \/ Fail(c, i)
            \/ LockReply(c, i)
            \/ RollbackReply(c, i)
  \/ Tick

Spec == Init /\ [][Next]_vars

\* Redis answers, the event loop runs due timers, time passes and actions end.
\* A caller need never call using().
Fairness ==
  /\ \A c \in Clients, i \in Instances :
       /\ WF_vars(Execute(c, i))
       /\ WF_vars(LockReply(c, i) \/ RollbackReply(c, i))
  /\ \A c \in Clients :
       WF_vars(Retry(c) \/ GiveUp(c) \/ FinishAction(c) \/ Extend(c) \/ StopExtending(c))
  /\ WF_vars(Tick)

FairSpec == Spec /\ Fairness

------------------------------------------------------------------------------
(* Properties *)

Acting(c) == pc[c] = "acting"

\* The instances that have said yes to c's current attempt or have not been heard of.
Votes(c) == Cardinality(successInstances[c]) + Cardinality(Awaited(c))

\* A quorum of c's current attempt is still possible.
QuorumPossible(c) == Votes(c) >= QuorumSize

\* Every variable stays within its type.
TypeOK ==
  /\ pc \in [Clients -> {"idle", "waiting", "releasing", "sleeping", "acting"}]
  /\ successCount \in [Clients -> Nat]
  /\ settledCount \in [Clients -> Nat]
  /\ retryTimes \in [Clients -> 0..MaxRetries]
  /\ successInstances \in [Clients -> SUBSET Instances]
  /\ rollback \in [Clients -> SUBSET Instances]
  /\ elapsed \in [Clients -> 0..MaxElapsed]
  /\ timer \in [Clients -> Int]
  /\ aborted \in [Clients -> BOOLEAN]
  /\ requests \in [Clients -> [Instances -> Seq(Request)]]
  /\ replies \in [Clients -> [Instances -> Seq(Reply)]]
  /\ ttl \in [Instances -> Nat]
  /\ owner \in [Instances -> Clients \cup {NoClient}]
  /\ failures \in 0..MaxFailures

\* "Acquired lock for resource" (line 68), after any number of retries: whoever runs its action
\* has had the SET of this attempt accepted by a majority of the instances.  The code breaks this:
\* a retry may acquire the lock on the counts of earlier attempts.
QuorumBacked ==
  \A c \in Clients : Acting(c) => Cardinality(successInstances[c]) >= QuorumSize

\* Whoever gets the lock in its first attempt gets it by a majority, whatever is late, fails or
\* expires, and however many retries are allowed.
FirstAttemptBacked ==
  \A c \in Clients : Acting(c) /\ retryTimes[c] = 0 => Cardinality(successInstances[c]) >= QuorumSize

\* lock() abandons its first attempt only "when it's impossible to reach quorum due to too
\* many failures" (line 47): never while the replies still to come could make one.  A retry is
\* abandoned for the failures of earlier attempts (RetriesAreHasty in RedlockProofs).
FirstAttemptExhausted ==
  \A c \in Clients : pc[c] \in {"releasing", "sleeping"} /\ retryTimes[c] = 0 => ~QuorumPossible(c)

\* With an odd number of instances each attempt, retries included, is abandoned then: no caller
\* waits for one whose quorum is out of reach.  An even number can split half-half.
NeverWaitsInVain ==
  \A c \in Clients : pc[c] = "waiting" => QuorumPossible(c)

\* What remains of that with an even number: only half of the instances can be waited for in vain.
HalfPossible ==
  \A c \in Clients : pc[c] = "waiting" => 2 * Votes(c) >= Cardinality(Instances)

\* With an odd number of instances every call of lock() ends, through its retries and however late
\* the replies are: the action starts, or a LockTimeoutError is thrown.
LockReturns ==
  \A c \in Clients : pc[c] = "waiting" ~> (pc[c] = "idle" \/ Acting(c))

\* With one instance, and as long as the delays, the timer and the key's life leave room for each
\* other (LeaseEnvelope in RedlockProofs): while an action runs, its client owns the key; each
\* extension reaches Redis before the key expires, and nobody else's release or rollback takes
\* it away.
LeaseHeld ==
  \A c \in Clients : Acting(c) =>
    Cardinality({i \in Instances : ttl[i] > 0 /\ owner[i] = c}) >= QuorumSize

\* With one instance, inside the same envelope: a DEL on its way finds the key its own client set,
\* or none, and frees no lock that somebody else was granted meanwhile.  With several instances
\* release() also deletes, where its caller lost, the key a contender has set.
DeletesOnlyOwnKey ==
  \A c \in Clients, i \in Instances : \A k \in DOMAIN requests[c][i] :
    requests[c][i][k].op \in {"del", "release"} => owner[i] \in {c, NoClient}

\* Where each caller stands, as a user of the lock sees it.
Phase == [c \in Clients |->
  CASE pc[c] = "idle" -> "idle" [] pc[c] = "acting" -> "holding" [] OTHER -> "waiting"]

AbstractLock == INSTANCE Mutex WITH phase <- Phase

\* With one instance, inside the same envelope: using() is a mutual exclusion lock.
ImplementsMutex == AbstractLock!Spec

==============================================================================
