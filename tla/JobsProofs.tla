------------------------------- MODULE JobsProofs -------------------------------
(***************************************************************************)
(* Proofs about Jobs, for any calls, methods, apps and signals.            *)
(***************************************************************************)
EXTENDS Jobs, TLAPS

\* What may be left to be done for a call, from the inside out.
Unwinds == {<<>>, <<"lock">>, <<"task">>, <<"lock", "task">>, <<"task", "lock">>}

CallType == [step : {"done", "method", "over"}, key : Methods \cup {Anonymous}, unwind : Unwinds,
             thrown : BOOLEAN]

\* A call that is under way has something left to be done, and while its method runs all of it.
CallsType ==
  /\ call \in [JobCalls -> CallType]
  /\ \A j \in JobCalls :
       /\ call[j].step = "done" <=> call[j].unwind = <<>>
       /\ call[j].step = "method" => call[j].unwind \in {<<"lock", "task">>, <<"task", "lock">>}

Locked(c) == "lock" \in ToSet(c.unwind)
Holders == {j \in JobCalls : "lock" \in ToSet(call[j].unwind)}

\* LockSetExact needs the types of the calls, which tell what LeaveLock leaves behind.
LockInv == CallsType /\ LockSetExact

LEMMA Exact ==
  LockSetExact <=> (Alive => /\ lockSet = {call[j].key : j \in Holders}
                             /\ \A i, j \in Holders : call[i].key = call[j].key => i = j)
<1>1. Holders = {j \in JobCalls : "lock" \in ToSet(call[j].unwind)}
  BY DEF Holders
<1> QED
  BY <1>1, Zenon DEF LockSetExact

LEMMA UnwindElements ==
  /\ ToSet(<<>>) = {} /\ ToSet(<<"lock">>) = {"lock"} /\ ToSet(<<"task">>) = {"task"}
  /\ ToSet(<<"lock", "task">>) = {"lock", "task"} /\ ToSet(<<"task", "lock">>) = {"lock", "task"}
BY DEF ToSet

LEMMA UnwindParts ==
  /\ Len(<<"lock">>) = 1 /\ Len(<<"task">>) = 1
  /\ Len(<<"lock", "task">>) = 2 /\ Len(<<"task", "lock">>) = 2
  /\ Head(<<"lock">>) = "lock" /\ Head(<<"task">>) = "task"
  /\ Head(<<"lock", "task">>) = "lock" /\ Tail(<<"lock", "task">>) = <<"task">>
  /\ Head(<<"task", "lock">>) = "task" /\ Tail(<<"task", "lock">>) = <<"lock">>
OBVIOUS

LEMMA UnwindHeads ==
  ASSUME NEW u \in Unwinds, u # <<>>
  PROVE  /\ Head(u) = "task" => (Len(u) = 1 /\ u = <<"task">>)
                               \/ (Len(u) # 1 /\ u = <<"task", "lock">> /\ Tail(u) = <<"lock">>)
         /\ Head(u) = "lock" => (Len(u) = 1 /\ u = <<"lock">>)
                               \/ (Len(u) = 2 /\ u = <<"lock", "task">> /\ Tail(u) = <<"task">>)
         /\ Head(u) \in {"task", "lock"}
<1>1. CASE u = <<"lock">> \/ u = <<"task">>
  BY <1>1, UnwindParts
<1>2. CASE u = <<"lock", "task">>
  BY <1>2, UnwindParts
<1>3. CASE u = <<"task", "lock">>
  BY <1>3, UnwindParts
<1> QED
  BY <1>1, <1>2, <1>3 DEF Unwinds

LEMMA NoCallType == NoCall \in CallType /\ NoCall.step = "done" /\ NoCall.unwind = <<>> /\ ~Locked(NoCall)
BY UnwindElements DEF NoCall, CallType, Unwinds, Locked

\* The type of the calls after one of them has changed.
LEMMA CallsStep ==
  ASSUME CallsType, NEW j \in JobCalls, NEW c \in CallType, call' = [call EXCEPT ![j] = c],
         c.step = "done" <=> c.unwind = <<>>,
         c.step = "method" => c.unwind \in {<<"lock", "task">>, <<"task", "lock">>}
  PROVE  CallsType'
BY DEF CallsType

\* No name changes hands when the call that has changed holds one as before.
LEMMA ExactKept ==
  ASSUME LockInv, Alive, NEW j \in JobCalls, NEW c, call' = [call EXCEPT ![j] = c],
         Locked(c) <=> Locked(call[j]), Locked(c) => c.key = call[j].key, UNCHANGED lockSet
  PROVE  LockSetExact'
<1>1. Holders' = Holders /\ \A i \in Holders : call'[i].key = call[i].key
  BY DEF LockInv, CallsType, Holders, Locked
<1> QED
  BY <1>1, Exact DEF LockInv, LockSetExact, Holders, Locked

\* A free name is taken by one call more ...
LEMMA ExactTaken ==
  ASSUME LockInv, Alive, NEW j \in JobCalls, NEW c, call' = [call EXCEPT ![j] = c],
         ~Locked(call[j]), Locked(c), Free(c.key), lockSet' = lockSet \cup {c.key}
  PROVE  LockSetExact'
<1>1. Holders' = Holders \cup {j} /\ j \notin Holders /\ call'[j] = c /\ \A i \in Holders : call'[i] = call[i]
  BY DEF LockInv, CallsType, Holders, Locked
<1>2. /\ lockSet = {call[i].key : i \in Holders}
      /\ \A h, i \in Holders : call[h].key = call[i].key => h = i
  BY Exact DEF LockInv
<1>3. /\ lockSet' = {call'[i].key : i \in Holders'}
      /\ \A h, i \in Holders' : call'[h].key = call'[i].key => h = i
  BY <1>1, <1>2 DEF Free
<1> QED
  BY <1>3 DEF LockSetExact, Holders, Locked

\* ... and given back by its only holder.
LEMMA ExactReleased ==
  ASSUME LockInv, Alive, NEW j \in JobCalls, NEW c, call' = [call EXCEPT ![j] = c],
         Locked(call[j]), ~Locked(c), lockSet' = lockSet \ {call[j].key}
  PROVE  LockSetExact'
<1>1. Holders' = Holders \ {j} /\ j \in Holders /\ \A i \in Holders \ {j} : call'[i] = call[i]
  BY DEF LockInv, CallsType, Holders, Locked
<1>2. /\ lockSet = {call[i].key : i \in Holders}
      /\ \A h, i \in Holders : call[h].key = call[i].key => h = i
  BY Exact DEF LockInv
<1>3. /\ lockSet' = {call'[i].key : i \in Holders'}
      /\ \A h, i \in Holders' : call'[h].key = call'[i].key => h = i
  BY <1>1, <1>2
<1> QED
  BY <1>3 DEF LockSetExact, Holders, Locked

\* What LeaveTask and LeaveLock leave of a call.
LEMMA UnwoundCall ==
  ASSUME CallsType, NEW j \in JobCalls, call[j].step = "over", Unwound(j)
  PROVE  \E c \in CallType :
           /\ call' = [call EXCEPT ![j] = c]
           /\ \/ c = NoCall /\ call[j].unwind \in {<<"task">>, <<"lock">>} /\ Len(call[j].unwind) = 1
              \/ /\ c = [call[j] EXCEPT !.unwind = Tail(call[j].unwind)]
                 /\ Len(call[j].unwind) # 1
                 /\ \/ call[j].unwind = <<"task", "lock">> /\ c.unwind = <<"lock">>
                    \/ call[j].unwind = <<"lock", "task">> /\ c.unwind = <<"task">>
<1> DEFINE u == call[j].unwind
           c == IF Len(u) = 1 THEN NoCall ELSE [call[j] EXCEPT !.unwind = Tail(u)]
<1>1. u \in Unwinds /\ u # <<>> /\ call[j] \in CallType
  BY DEF CallsType, CallType
<1>2. call' = [call EXCEPT ![j] = c]
  BY DEF Unwound, CallsType
<1>3. CASE Len(u) = 1
  <2>1. u \in {<<"task">>, <<"lock">>}
    BY <1>1, <1>3, UnwindHeads, UnwindParts
  <2> QED
    BY <1>2, <1>3, <2>1, NoCallType
<1>4. CASE Len(u) # 1
  <2>1. (u = <<"task", "lock">> /\ Tail(u) = <<"lock">>) \/ (u = <<"lock", "task">> /\ Tail(u) = <<"task">>)
    BY <1>1, <1>4, UnwindHeads, UnwindParts
  <2>2. Tail(u) \in Unwinds
    BY <2>1 DEF Unwinds
  <2>3. c \in CallType /\ c = [call[j] EXCEPT !.unwind = Tail(u)] /\ c.unwind = Tail(u)
    BY <1>1, <1>4, <2>2 DEF CallType
  <2> QED
    BY <1>2, <1>4, <2>1, <2>3
<1> QED
  BY <1>3, <1>4

------------------------------------------------------------------------------
(* LockSetExact *)

\* A method that runs, one the handler has refused, and one whose name was taken.
Method(key, unwind)  == [step |-> "method", key |-> key, unwind |-> unwind, thrown |-> FALSE]
Over(key, task, thrown) == [step |-> "over", key |-> key, unwind |-> <<task>>, thrown |-> thrown]

LEMMA NewCalls ==
  ASSUME NEW key \in Methods \cup {Anonymous}, NEW thrown \in BOOLEAN
  PROVE  /\ Method(key, <<"task", "lock">>) \in CallType /\ Locked(Method(key, <<"task", "lock">>))
         /\ Method(key, <<"lock", "task">>) \in CallType /\ Locked(Method(key, <<"lock", "task">>))
         /\ Over(key, "lock", thrown) \in CallType /\ Locked(Over(key, "lock", thrown))
         /\ Over(key, "task", thrown) \in CallType /\ ~Locked(Over(key, "task", thrown))
BY UnwindElements DEF Method, Over, CallType, Unwinds, Locked

LEMMA DoneHoldsNothing == ASSUME CallsType, NEW j \in JobCalls, call[j].step = "done" PROVE ~Locked(call[j])
BY UnwindElements DEF CallsType, Locked

LEMMA LockCall == ASSUME LockInv, NEW j \in JobCalls, CallJob(j) PROVE LockInv'
<1>1. PICK method \in Methods, named \in BOOLEAN, outer \in {"lock", "task"} :
        IF outer = "lock" THEN LockFirst(j, LockName(method, named, outer))
                          ELSE TaskFirst(j, LockName(method, named, outer))
  BY DEF CallJob
<1> DEFINE key == LockName(method, named, outer)
<1>2. key \in Methods \cup {Anonymous}
  BY DEF LockName
<1>3. Alive /\ ~Locked(call[j])
  BY DoneHoldsNothing DEF LockInv, CallJob
<1> HIDE DEF key
<1>4. ASSUME NEW c \in CallType, call' = [call EXCEPT ![j] = c], c.key = key, c.step # "done",
             c.unwind # <<>>, c.step = "method" => c.unwind \in {<<"lock", "task">>, <<"task", "lock">>},
             \/ Locked(c) /\ Free(key) /\ lockSet' = lockSet \cup {key}
             \/ ~Locked(c) /\ UNCHANGED lockSet
      PROVE  LockInv'
  <2>1. CallsType'
    BY <1>4, CallsStep DEF LockInv
  <2>2. LockSetExact'
    BY <1>3, <1>4, ExactTaken, ExactKept
  <2> QED
    BY <2>1, <2>2 DEF LockInv
<1>5. CASE outer = "lock" /\ LockFirst(j, key)
  <2>1. CASE Accepts
    BY <1>2, <1>4, <1>5, <2>1, NewCalls DEF LockFirst, Called, Method
  <2>2. CASE ~Accepts
    BY <1>2, <1>4, <1>5, <2>2, NewCalls DEF LockFirst, Called, Over
  <2> QED
    BY <2>1, <2>2
<1>6. CASE outer = "task" /\ TaskFirst(j, key)
  <2>1. CASE Free(key)
    BY <1>2, <1>4, <1>6, <2>1, NewCalls DEF TaskFirst, Called, Method
  <2>2. CASE ~Free(key)
    BY <1>2, <1>4, <1>6, <2>2, NewCalls DEF TaskFirst, Called, Over
  <2> QED
    BY <2>1, <2>2
<1> QED
  BY <1>1, <1>5, <1>6 DEF key

LEMMA LockEnds == ASSUME LockInv, NEW j \in JobCalls, MethodEnds(j) PROVE LockInv'
<1>1. PICK thrown \in BOOLEAN : call' = [call EXCEPT ![j] = [call[j] EXCEPT !.step = "over", !.thrown = thrown]]
  BY DEF MethodEnds, LockInv, CallsType
<1> DEFINE c == [call[j] EXCEPT !.step = "over", !.thrown = thrown]
<1>2. c \in CallType /\ c.step = "over" /\ c.unwind = call[j].unwind /\ c.key = call[j].key
  BY DEF LockInv, CallsType, CallType
<1>3. Alive /\ c.unwind # <<>> /\ UNCHANGED lockSet
  BY <1>2 DEF MethodEnds, LockInv, CallsType
<1> HIDE DEF c
<1>4. call' = [call EXCEPT ![j] = c]
  BY <1>1 DEF c
<1>5. CallsType'
  BY <1>2, <1>3, <1>4, CallsStep DEF LockInv
<1>6. LockSetExact'
  BY <1>2, <1>3, <1>4, ExactKept DEF Locked
<1> QED
  BY <1>5, <1>6 DEF LockInv

LEMMA LockLeaves == ASSUME LockInv, NEW j \in JobCalls, LeaveTask(j) \/ LeaveLock(j) PROVE LockInv'
<1>1. PICK c \in CallType :
        /\ call' = [call EXCEPT ![j] = c]
        /\ \/ c = NoCall /\ call[j].unwind \in {<<"task">>, <<"lock">>}
           \/ /\ c = [call[j] EXCEPT !.unwind = Tail(call[j].unwind)]
              /\ \/ call[j].unwind = <<"task", "lock">> /\ c.unwind = <<"lock">>
                 \/ call[j].unwind = <<"lock", "task">> /\ c.unwind = <<"task">>
  BY UnwoundCall DEF LockInv, LeaveTask, LeaveLock
<1>2. CallsType'
  <2>1. (c.step = "done" <=> c.unwind = <<>>) /\ c.step # "method"
    BY <1>1, NoCallType DEF LeaveTask, LeaveLock, LockInv, CallsType, CallType
  <2> QED
    BY <1>1, <2>1, CallsStep DEF LockInv
<1>3. LockSetExact'
  <2>1. CASE LeaveTask(j)
    <3>1. (Locked(c) <=> Locked(call[j])) /\ (Locked(c) => c.key = call[j].key)
      BY <1>1, <2>1, UnwindElements, UnwindParts, NoCallType DEF LeaveTask, Locked, LockInv, CallsType, CallType
    <3> QED
      BY <1>1, <2>1, <3>1, ExactKept DEF LeaveTask
  <2>2. CASE LeaveLock(j)
    <3>1. Locked(call[j]) /\ ~Locked(c)
      BY <1>1, <2>2, UnwindElements, UnwindParts, NoCallType DEF LeaveLock, Locked
    <3> QED
      BY <1>1, <2>2, <3>1, ExactReleased DEF LeaveLock, Released
  <2> QED
    BY <2>1, <2>2
<1> QED
  BY <1>2, <1>3 DEF LockInv

LEMMA LockSame == ASSUME LockInv, UNCHANGED <<call, lockSet>>, Alive' => Alive PROVE LockInv'
<1>1. CallsType'
  BY DEF LockInv, CallsType
<1>2. LockSetExact'
  BY DEF LockInv, LockSetExact
<1> QED
  BY <1>1, <1>2 DEF LockInv

LEMMA NoCalls == call = [j \in JobCalls |-> NoCall] /\ lockSet = {} => LockInv
<1> SUFFICES ASSUME call = [j \in JobCalls |-> NoCall], lockSet = {} PROVE LockInv
  OBVIOUS
<1>1. CallsType
  BY NoCallType DEF CallsType
<1>2. Holders = {}
  BY NoCallType DEF Holders, Locked
<1>3. LockSetExact
  BY <1>2, Exact
<1> QED
  BY <1>1, <1>3 DEF LockInv

LEMMA LockStep == LockInv /\ [JobsNext]_jobsVars => LockInv'
<1> SUFFICES ASSUME LockInv, [JobsNext]_jobsVars PROVE LockInv'
  OBVIOUS
<1>1. ASSUME NEW j \in JobCalls, CallJob(j) \/ MethodEnds(j) \/ LeaveTask(j) \/ LeaveLock(j) PROVE LockInv'
  BY <1>1, LockCall, LockEnds, LockLeaves
<1>2. ASSUME NEW app \in Apps, AddShutdownHooks(app) PROVE LockInv'
  BY <1>2, LockSame DEF AddShutdownHooks, Alive
<1>3. ASSUME NEW s \in Signals, Signal(s) \/ HandlerSteps(s) PROVE LockInv'
  BY <1>3, LockSame DEF Signal, HandlerSteps, Fires, Proceed, CloseApp, Exit, Alive
<1>4. CASE Restart
  <2>1. call' = [j \in JobCalls |-> NoCall] /\ lockSet' = {}
    BY <1>4 DEF Restart
  <2>2. CallsType'
    BY <2>1, NoCallType DEF CallsType
  <2>3. \A j \in JobCalls : "lock" \notin ToSet(call'[j].unwind)
    BY <2>1, NoCallType DEF Locked
  <2>4. LockSetExact'
    BY <2>1, <2>3 DEF LockSetExact
  <2> QED
    BY <2>2, <2>4 DEF LockInv
<1>5. CASE UNCHANGED jobsVars
  BY <1>5, LockSame DEF jobsVars, Alive
<1> QED
  BY <1>1, <1>2, <1>3, <1>4, <1>5 DEF JobsNext

\* Whatever a method throws, wherever a shutdown begins and in whichever order @Lock and
\* @ShutdownAware are put: Locker's set of names is that of the jobs that run.
THEOREM NamesAreGivenBack == JobsSpec => []LockSetExact
<1>1. JobsInit => LockInv
  BY NoCalls DEF JobsInit
<1>2. LockInv => LockSetExact
  BY DEF LockInv
<1> QED
  BY <1>1, <1>2, LockStep, PTL DEF JobsSpec

------------------------------------------------------------------------------
(* Graceful *)

Tasked(c) == "task" \in ToSet(c.unwind)

\* A critical task that was accepted and whose promise is not settled.
Unfinished(c) == Tasked(c) /\ ~(c.step = "over" /\ Head(c.unwind) = "task")

HandlerType == [step : {"off", "waiting", "closing"}, waits : SUBSET JobCalls, fired : BOOLEAN, next : Nat]

\* What a handler has seen to: it waits for all that is unfinished, which nothing joins after the
\* signal; it begins to close when that, or its time, is over; and the apps it has passed are closed.
SeenTo(h) ==
  /\ \A j \in JobCalls : Unfinished(call[j]) => j \in h.waits
  /\ h.step = "closing" => h.fired \/ h.waits = {}
  /\ h.next <= Len(apps) + 1
  /\ \A i \in 1..Len(apps) : i < h.next => apps[i] \in closed

GraceType ==
  /\ apps \in Seq(Apps)
  /\ pendingTasks \subseteq JobCalls
  /\ handler \in [Signals -> HandlerType]
  /\ exited \in [code : {"none", "success", "failure"}, by : Signals \cup {"none"}]

GraceInv ==
  /\ GraceType
  /\ \A j \in JobCalls : Tasked(call[j]) => j \in pendingTasks
  /\ \A s \in Signals : handler[s].step # "off" => shuttingDown /\ SeenTo(handler[s])
  /\ exited.code = "success" =>
       /\ exited.by \in Signals
       /\ handler[exited.by].step = "closing" /\ handler[exited.by].next > Len(apps)

LEMMA GraceIsEnough == CallsType /\ GraceInv => Graceful
<1> SUFFICES ASSUME CallsType, GraceInv, exited.code = "success"
             PROVE  /\ ToSet(apps) \subseteq closed
                    /\ handler[exited.by].fired \/ \A j \in JobCalls : ~Unfinished(call[j])
  BY Zenon DEF Graceful, Unfinished, Tasked
<1> DEFINE h == handler[exited.by]
<1>1. h.step = "closing" /\ h.next > Len(apps) /\ SeenTo(h) /\ h.next \in Nat
  BY DEF GraceInv, GraceType, HandlerType
<1>2. \A i \in 1..Len(apps) : i < h.next
  BY <1>1 DEF GraceInv, GraceType
<1>3. ToSet(apps) \subseteq closed
  BY <1>1, <1>2 DEF SeenTo, ToSet, GraceInv, GraceType
<1> QED
  BY <1>1, <1>3 DEF SeenTo

LEMMA NewTasks ==
  ASSUME NEW key, NEW thrown
  PROVE  /\ Tasked(Method(key, <<"task", "lock">>)) /\ Tasked(Method(key, <<"lock", "task">>))
         /\ ~Tasked(Over(key, "lock", thrown))
         /\ Tasked(Over(key, "task", thrown)) /\ ~Unfinished(Over(key, "task", thrown))
BY UnwindElements, UnwindParts DEF Tasked, Unfinished, Method, Over

\* A handler has seen to everything still when one call has changed, unless that call has become
\* an unfinished task, and when it is waited for no more, unless it is one.
LEMMA SeenToKept ==
  ASSUME CallsType, GraceInv, NEW j \in JobCalls, NEW c, call' = [call EXCEPT ![j] = c],
         UNCHANGED <<apps, closed>>, NEW s \in Signals, SeenTo(handler[s]),
         \/ handler'[s] = handler[s] /\ (Unfinished(c) => Unfinished(call[j]))
         \/ handler'[s] = [handler[s] EXCEPT !.waits = handler[s].waits \ {j}] /\ ~Unfinished(c)
  PROVE  SeenTo(handler[s])'
<1>1. \A i \in JobCalls : call'[i] = IF i = j THEN c ELSE call[i]
  BY DEF CallsType
<1>2. \A i \in JobCalls : Unfinished(call'[i]) => i \in handler'[s].waits
  BY <1>1 DEF SeenTo, GraceInv, GraceType, HandlerType
<1>3. /\ handler'[s].step = handler[s].step /\ handler'[s].fired = handler[s].fired
      /\ handler'[s].next = handler[s].next /\ handler'[s].waits \subseteq handler[s].waits
  BY DEF GraceInv, GraceType, HandlerType
<1> QED
  BY <1>2, <1>3 DEF SeenTo, Unfinished, Tasked

\* A step of one call: it may become a task that is pending, and an unfinished one only before any
\* signal.
LEMMA GraceCall ==
  ASSUME CallsType, GraceInv, Alive, NEW j \in JobCalls, NEW c, call' = [call EXCEPT ![j] = c],
         UNCHANGED <<apps, closed, shuttingDown, exited>>,
         Tasked(c) => j \in pendingTasks', pendingTasks \ {j} \subseteq pendingTasks',
         pendingTasks' \subseteq pendingTasks \cup {j},
         \/ UNCHANGED handler /\ (Unfinished(c) => Unfinished(call[j]) \/ ~shuttingDown)
         \/ Settles(j) /\ ~Unfinished(c)
  PROVE  GraceInv'
<1>1. handler' \in [Signals -> HandlerType] /\ \A s \in Signals : handler'[s].step = handler[s].step
  BY DEF GraceInv, GraceType, HandlerType, Settles
<1>2. \A i \in JobCalls : Tasked(call[i])' => i \in pendingTasks'
  <2>1. \A i \in JobCalls : call'[i] = IF i = j THEN c ELSE call[i]
    BY DEF CallsType
  <2> QED
    BY <2>1 DEF GraceInv, Tasked
<1>3. ASSUME NEW s \in Signals, handler'[s].step # "off" PROVE shuttingDown' /\ SeenTo(handler[s])'
  <2>1. shuttingDown /\ SeenTo(handler[s])
    BY <1>1, <1>3 DEF GraceInv
  <2>2. \/ handler'[s] = handler[s] /\ (Unfinished(c) => Unfinished(call[j]))
        \/ handler'[s] = [handler[s] EXCEPT !.waits = handler[s].waits \ {j}] /\ ~Unfinished(c)
    BY <2>1 DEF Settles
  <2> QED
    BY <2>1, <2>2, SeenToKept
<1>4. exited'.code # "success"
  BY DEF Alive, Running
<1> QED
  BY <1>1, <1>2, <1>3, <1>4 DEF GraceInv, GraceType

LEMMA GraceCalls == ASSUME CallsType, GraceInv, NEW j \in JobCalls, CallJob(j) PROVE GraceInv'
<1>1. PICK method \in Methods, named \in BOOLEAN, outer \in {"lock", "task"} :
        IF outer = "lock" THEN LockFirst(j, LockName(method, named, outer))
                          ELSE TaskFirst(j, LockName(method, named, outer))
  BY DEF CallJob
<1> DEFINE key == LockName(method, named, outer)
<1>2. Alive /\ UNCHANGED <<apps, closed, shuttingDown, exited, handler>>
  BY DEF CallJob
<1> HIDE DEF key
<1>3. ASSUME NEW c, call' = [call EXCEPT ![j] = c],
             \/ UNCHANGED pendingTasks /\ ~Tasked(c)
             \/ pendingTasks' = pendingTasks \cup {j} /\ Accepts
      PROVE  GraceInv'
  BY <1>2, <1>3, GraceCall DEF Accepts, Unfinished
<1>4. CASE outer = "lock" /\ LockFirst(j, key)
  BY <1>3, <1>4, NewTasks DEF LockFirst, Called, Method, Over
<1>5. CASE outer = "task" /\ TaskFirst(j, key)
  BY <1>3, <1>5 DEF TaskFirst, Called
<1> QED
  BY <1>1, <1>4, <1>5 DEF key

LEMMA GraceEnds == ASSUME CallsType, GraceInv, NEW j \in JobCalls, MethodEnds(j) PROVE GraceInv'
<1>1. PICK thrown \in BOOLEAN : call' = [call EXCEPT ![j] = [call[j] EXCEPT !.step = "over", !.thrown = thrown]]
  BY DEF MethodEnds, CallsType
<1> DEFINE c == [call[j] EXCEPT !.step = "over", !.thrown = thrown]
<1>2. c.step = "over" /\ c.unwind = call[j].unwind /\ call[j].step = "method"
  BY DEF MethodEnds, CallsType, CallType
<1>3. Tasked(c) => j \in pendingTasks
  BY <1>2 DEF GraceInv, Tasked
<1>4. IF Head(call[j].unwind) = "task" THEN Settles(j) /\ ~Unfinished(c)
      ELSE UNCHANGED handler /\ (Unfinished(c) => Unfinished(call[j]))
  BY <1>2 DEF MethodEnds, Unfinished, Tasked
<1> HIDE DEF c
<1>5. call' = [call EXCEPT ![j] = c]
  BY <1>1 DEF c
<1> QED
  BY <1>3, <1>4, <1>5, GraceCall DEF MethodEnds

LEMMA GraceLeaves == ASSUME CallsType, GraceInv, NEW j \in JobCalls, LeaveTask(j) \/ LeaveLock(j) PROVE GraceInv'
<1>1. PICK c \in CallType :
        /\ call' = [call EXCEPT ![j] = c]
        /\ \/ c = NoCall /\ call[j].unwind \in {<<"task">>, <<"lock">>} /\ Len(call[j].unwind) = 1
           \/ /\ c = [call[j] EXCEPT !.unwind = Tail(call[j].unwind)]
              /\ Len(call[j].unwind) # 1
              /\ \/ call[j].unwind = <<"task", "lock">> /\ c.unwind = <<"lock">>
                 \/ call[j].unwind = <<"lock", "task">> /\ c.unwind = <<"task">>
  BY UnwoundCall DEF LeaveTask, LeaveLock
<1>2. ~Tasked(NoCall)
  BY NoCallType, UnwindElements DEF Tasked
<1>3. CASE LeaveTask(j)
  <2>1. ~Tasked(c)
    BY <1>1, <1>2, <1>3, UnwindElements, UnwindParts DEF LeaveTask, Tasked
  <2> QED
    BY <1>1, <1>3, <2>1, GraceCall DEF LeaveTask, Unfinished
<1>4. CASE LeaveLock(j)
  <2>1. CASE Len(call[j].unwind) = 2
    <3>1. call[j].unwind = <<"lock", "task">> /\ c.unwind = <<"task">> /\ c.step = "over"
      BY <1>1, <1>4, <2>1, UnwindParts DEF LeaveLock, CallsType, CallType
    <3>2. ~Unfinished(c) /\ j \in pendingTasks
      BY <3>1, UnwindElements, UnwindParts DEF Unfinished, Tasked, GraceInv
    <3> QED
      BY <1>1, <1>4, <2>1, <3>2, GraceCall DEF LeaveLock
  <2>2. CASE Len(call[j].unwind) # 2
    <3>1. c = NoCall
      BY <1>1, <1>4, <2>2, UnwindParts DEF LeaveLock
    <3> QED
      BY <1>1, <1>2, <1>4, <2>2, <3>1, GraceCall DEF LeaveLock, Unfinished
  <2> QED
    BY <2>1, <2>2
<1> QED
  BY <1>3, <1>4

\* A step of a handler, or of all of them, that leaves the calls alone.
LEMMA GraceHandler ==
  ASSUME GraceInv, Alive, UNCHANGED <<call, pendingTasks>>, GraceType',
         \A s \in Signals : handler'[s].step # "off" => shuttingDown' /\ SeenTo(handler[s])',
         exited'.code # "success"
  PROVE  GraceInv'
BY DEF GraceInv, Tasked

LEMMA AliveCode == Alive => exited.code # "success"
BY DEF Alive, Running

\* SeenTo depends on the calls, the apps and the closed ones besides the handler.
LEMMA SeenToSame ==
  ASSUME NEW s \in Signals, SeenTo(handler[s]), UNCHANGED <<call, apps, handler[s]>>, closed \subseteq closed'
  PROVE  SeenTo(handler[s])'
BY DEF SeenTo, Unfinished, Tasked

LEMMA GraceHooks == ASSUME GraceInv, NEW app \in Apps, AddShutdownHooks(app) PROVE GraceInv'
<1>1. UNCHANGED <<call, pendingTasks, handler, exited, shuttingDown, closed>> /\ Alive
  BY DEF AddShutdownHooks
<1>2. /\ apps' \in Seq(Apps) /\ Len(apps') \in Nat /\ Len(apps) \in Nat
      /\ \/ apps' = apps
         \/ Len(apps') = Len(apps) + 1 /\ \A i \in 1..Len(apps) : apps'[i] = apps[i]
  BY DEF AddShutdownHooks, GraceInv, GraceType
<1>3. GraceType'
  BY <1>1, <1>2 DEF GraceInv, GraceType
<1>4. ASSUME NEW s \in Signals, handler'[s].step # "off" PROVE shuttingDown' /\ SeenTo(handler[s])'
  <2>1. shuttingDown /\ SeenTo(handler[s]) /\ handler[s].next \in Nat
    BY <1>1, <1>4 DEF GraceInv, GraceType, HandlerType
  <2> QED
    BY <1>1, <1>2, <2>1 DEF SeenTo, Unfinished, Tasked
<1> QED
  BY <1>1, <1>3, <1>4, GraceHandler, AliveCode

LEMMA GraceSignal == ASSUME CallsType, GraceInv, NEW s \in Signals, Signal(s) PROVE GraceInv'
<1> DEFINE waits == {j \in pendingTasks : call[j].step = "method" \/ Head(call[j].unwind) = "lock"}
           h == [step |-> "waiting", waits |-> waits, fired |-> FALSE, next |-> 1]
<1>1. /\ UNCHANGED <<call, pendingTasks, exited, apps, closed>> /\ Alive /\ shuttingDown'
      /\ handler' = [handler EXCEPT ![s] = h]
  BY DEF Signal
<1>2. ASSUME NEW j \in JobCalls, Unfinished(call[j]) PROVE j \in waits
  <2>1. j \in pendingTasks /\ Tasked(call[j])
    BY <1>2 DEF Unfinished, GraceInv
  <2>2. call[j].unwind \in Unwinds /\ call[j].unwind # <<>> /\ call[j].step \in {"method", "over"}
    BY <2>1, UnwindElements DEF CallsType, CallType, Tasked
  <2> QED
    BY <1>2, <2>1, <2>2, UnwindHeads DEF Unfinished
<1>3. waits \subseteq JobCalls
  BY DEF GraceInv, GraceType
<1> HIDE DEF waits
<1>4. GraceType'
  BY <1>1, <1>3 DEF GraceInv, GraceType, HandlerType
<1>5. ASSUME NEW r \in Signals, handler'[r].step # "off" PROVE SeenTo(handler[r])'
  <2>1. CASE r = s
    <3>1. handler'[r] = h /\ Len(apps) \in Nat
      BY <1>1, <2>1 DEF GraceInv, GraceType
    <3> QED
      BY <1>1, <1>2, <3>1 DEF SeenTo, Unfinished, Tasked
  <2>2. CASE r # s
    BY <1>1, <1>5, <2>2, SeenToSame DEF GraceInv, GraceType
  <2> QED
    BY <2>1, <2>2
<1> QED
  BY <1>1, <1>4, <1>5, GraceHandler, AliveCode

LEMMA GraceSteps == ASSUME GraceInv, NEW s \in Signals, HandlerSteps(s) PROVE GraceInv'
<1>a. Alive /\ handler[s] \in HandlerType /\ Len(apps) \in Nat
  BY DEF GraceInv, GraceType, HandlerSteps, Fires, Proceed, CloseApp, Exit
<1>b. handler[s].step # "off" /\ SeenTo(handler[s])
  BY DEF GraceInv, HandlerSteps, Fires, Proceed, CloseApp, Exit
\* One handler goes on, and the process does not exit.
<1>c. ASSUME UNCHANGED <<call, pendingTasks, shuttingDown, apps>>, closed \subseteq closed',
             NEW h \in HandlerType, handler' = [handler EXCEPT ![s] = h],
             exited' \in [code : {"none", "failure"}, by : Signals \cup {"none"}], SeenTo(handler[s])'
      PROVE  GraceInv'
  <2>1. GraceType'
    BY <1>c DEF GraceInv, GraceType
  <2>2. ASSUME NEW r \in Signals, handler'[r].step # "off" PROVE shuttingDown' /\ SeenTo(handler[r])'
    <3>1. CASE r = s
      BY <1>b, <1>c, <3>1 DEF GraceInv
    <3>2. CASE r # s
      BY <1>c, <2>2, <3>2, SeenToSame DEF GraceInv, GraceType
    <3> QED
      BY <3>1, <3>2
  <2> QED
    BY <1>a, <1>c, <2>1, <2>2, GraceHandler
<1>d. UNCHANGED exited => exited' \in [code : {"none", "failure"}, by : Signals \cup {"none"}]
  BY <1>a DEF Alive, Running
<1>1. CASE Fires(s)
  <2> DEFINE h == [handler[s] EXCEPT !.fired = TRUE]
  <2>1. /\ UNCHANGED <<call, pendingTasks, shuttingDown, apps, closed, exited>>
        /\ handler' = [handler EXCEPT ![s] = h] /\ handler'[s] = h
    BY <1>1 DEF Fires, GraceInv, GraceType
  <2>2. h \in HandlerType /\ SeenTo(handler[s])'
    BY <1>a, <1>b, <2>1 DEF HandlerType, SeenTo, Unfinished, Tasked
  <2> QED
    BY <1>c, <1>d, <2>1, <2>2
<1>2. CASE Proceed(s)
  <2> DEFINE h == [handler[s] EXCEPT !.step = "closing"]
  <2>1. /\ UNCHANGED <<call, pendingTasks, shuttingDown, apps, closed, exited>>
        /\ handler' = [handler EXCEPT ![s] = h] /\ handler'[s] = h
    BY <1>2 DEF Proceed, GraceInv, GraceType
  <2>2. h \in HandlerType /\ SeenTo(handler[s])'
    BY <1>2, <1>a, <1>b, <2>1 DEF Proceed, RaceIsOver, HandlerType, SeenTo, Unfinished, Tasked
  <2> QED
    BY <1>c, <1>d, <2>1, <2>2
<1>3. CASE CloseApp(s) /\ UNCHANGED exited
  <2> DEFINE h == [handler[s] EXCEPT !.next = handler[s].next + 1]
  <2>1. /\ UNCHANGED <<call, pendingTasks, shuttingDown, apps>>
        /\ closed' = closed \cup {apps[handler[s].next]} /\ handler[s].next <= Len(apps)
        /\ handler' = [handler EXCEPT ![s] = h] /\ handler'[s] = h
    BY <1>3, <1>a DEF CloseApp, GraceInv, GraceType, Alive, Running
  <2>2. h \in HandlerType
    BY <1>a DEF HandlerType
  <2>3. SeenTo(handler[s])'
    BY <1>a, <1>b, <2>1 DEF HandlerType, SeenTo, Unfinished, Tasked
  <2> QED
    BY <1>3, <1>c, <1>d, <2>1, <2>2, <2>3
<1>4. CASE CloseApp(s) /\ exited' = [code |-> "failure", by |-> s] /\ UNCHANGED <<closed, handler>>
  <2>1. UNCHANGED <<call, pendingTasks, shuttingDown, apps>>
    BY <1>4 DEF CloseApp
  <2>2. handler' = [handler EXCEPT ![s] = handler[s]]
    BY <1>4 DEF GraceInv, GraceType
  <2>3. SeenTo(handler[s])'
    BY <1>4, <1>b, <2>1, SeenToSame
  <2> QED
    BY <1>4, <1>a, <1>c, <2>1, <2>2, <2>3
<1>5. CASE Exit(s)
  <2>1. /\ UNCHANGED <<call, pendingTasks, shuttingDown, apps, closed, handler>>
        /\ exited' = [code |-> "success", by |-> s]
        /\ handler[s].step = "closing" /\ handler[s].next > Len(apps)
    BY <1>5 DEF Exit
  <2>2. GraceType'
    BY <2>1 DEF GraceInv, GraceType
  <2>3. ASSUME NEW r \in Signals, handler'[r].step # "off" PROVE shuttingDown' /\ SeenTo(handler[r])'
    BY <2>1, <2>3, SeenToSame DEF GraceInv
  <2> QED
    BY <2>1, <2>2, <2>3 DEF GraceInv, Tasked
<1> QED
  BY <1>1, <1>2, <1>3, <1>4, <1>5 DEF HandlerSteps, CloseApp

LEMMA GraceBegins ==
  ASSUME apps = <<>>, pendingTasks = {}, call = [j \in JobCalls |-> NoCall],
         handler = [s \in Signals |-> NoHandler], exited = Running
  PROVE  GraceInv
<1>1. GraceType
  BY DEF GraceType, HandlerType, NoHandler, Running
<1>2. ~Tasked(NoCall)
  BY NoCallType, UnwindElements DEF Tasked
<1> QED
  BY <1>1, <1>2 DEF GraceInv, NoHandler, Running

LEMMA GraceStep == CallsType /\ GraceInv /\ [JobsNext]_jobsVars => GraceInv'
<1> SUFFICES ASSUME CallsType, GraceInv, [JobsNext]_jobsVars PROVE GraceInv'
  OBVIOUS
<1>1. ASSUME NEW j \in JobCalls, CallJob(j) \/ MethodEnds(j) \/ LeaveTask(j) \/ LeaveLock(j) PROVE GraceInv'
  BY <1>1, GraceCalls, GraceEnds, GraceLeaves
<1>2. ASSUME NEW app \in Apps, AddShutdownHooks(app) PROVE GraceInv'
  BY <1>2, GraceHooks
<1>3. ASSUME NEW s \in Signals, Signal(s) \/ HandlerSteps(s) PROVE GraceInv'
  BY <1>3, GraceSignal, GraceSteps
<1>4. CASE Restart
  <2>1. /\ apps' = <<>> /\ pendingTasks' = {} /\ call' = [j \in JobCalls |-> NoCall]
        /\ handler' = [s \in Signals |-> NoHandler] /\ exited' = Running
    BY <1>4 DEF Restart
  <2>2. GraceType'
    BY <2>1 DEF GraceType, HandlerType, NoHandler, Running
  <2>3. \A j \in JobCalls : ~Tasked(call[j])'
    BY <2>1, NoCallType, UnwindElements DEF Tasked
  <2> QED
    BY <2>1, <2>2, <2>3 DEF GraceInv, NoHandler, Running
<1>5. CASE UNCHANGED jobsVars
  <2>1. UNCHANGED <<apps, closed, call, handler, pendingTasks, shuttingDown, exited>>
    BY <1>5 DEF jobsVars
  <2>2. ASSUME NEW s \in Signals, SeenTo(handler[s]) PROVE SeenTo(handler[s])'
    BY <2>1, <2>2, SeenToSame
  <2> QED
    BY <2>1, <2>2 DEF GraceInv, GraceType, Tasked
<1> QED
  BY <1>1, <1>2, <1>3, <1>4, <1>5 DEF JobsNext

\* handleShutdown(): the process exits with code 0 only when its apps are closed and, before the
\* timeout, the critical tasks it accepted are finished, for any number of them and of signals.
THEOREM ShutdownIsGraceful == JobsSpec => []Graceful
<1>1. JobsInit => LockInv /\ GraceInv
  BY NoCalls, GraceBegins DEF JobsInit
<1>2. LockInv /\ GraceInv => Graceful
  BY GraceIsEnough DEF LockInv
<1>3. LockInv => CallsType
  BY DEF LockInv
<1> QED
  BY <1>1, <1>2, <1>3, LockStep, GraceStep, PTL DEF JobsSpec

=============================================================================
