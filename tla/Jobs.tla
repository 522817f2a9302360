---------------------------------- MODULE Jobs ----------------------------------
(***************************************************************************)
(* Jobs of one process: methods with @Lock, which Locker runs one at a     *)
(* time for each name (src/packages/common/src/utils/locker.ts), and with  *)
(* @ShutdownAware, which ShutdownAwareHandler lets finish before the       *)
(* process exits (src/packages/common/src/common/shutdown-aware), with the *)
(* two decorators in either order.  Signals may arrive at any time.        *)
(***************************************************************************)
EXTENDS Integers, Sequences, SequencesExt

CONSTANTS
  JobCalls,   \* the calls of decorated methods that may be under way at once
  Methods,    \* the methods
  Anonymous,  \* the name of a function that a decorator returned
  Apps,       \* what addShutdownHooks() is called with
  Signals     \* the signals that may arrive

VARIABLES
  lockSet,       \* Locker.lockSet
  initialized, shuttingDown, apps, pendingTasks,   \* the fields of ShutdownAwareHandler
  call,          \* call[j]: a call of a decorated method
  handler,       \* handler[s]: handleShutdown() for signal s
  closed,        \* the apps that are closed
  exited         \* the exit code of the process, if it has exited, and the handler it is from

jobsVars == <<lockSet, initialized, shuttingDown, apps, pendingTasks,
              call, handler, closed, exited>>

\* unwind: what is still to be done once the method is over, from the inside out.
NoCall == [step |-> "done", key |-> Anonymous, unwind |-> <<>>, thrown |-> FALSE]
NoHandler == [step |-> "off", waits |-> {}, fired |-> FALSE, next |-> 1]
Running == [code |-> "none", by |-> "none"]

JobsInit ==
  /\ lockSet = {}
  /\ initialized = FALSE /\ shuttingDown = FALSE
  /\ apps = <<>> /\ pendingTasks = {}
  /\ call = [j \in JobCalls |-> NoCall]
  /\ handler = [s \in Signals |-> NoHandler]
  /\ closed = {}
  /\ exited = Running

Alive == exited = Running

\* The key @Lock uses: its option, or the name of the function it wraps; a wrapper has none.
LockName(method, named, outer) ==
  IF named \/ outer = "task" THEN method ELSE Anonymous

\* Mutant of Accepts: the handler takes tasks while it is shutting down.
AcceptsAlways == initialized

\* executeCriticalTask() throws unless it is initialized, and a ShuttingDownError after a signal.
Accepts == initialized /\ ~shuttingDown

Free(key) == key \notin lockSet

------------------------------------------------------------------------------
(* Calls.  Up to the first await of the method everything happens in one turn. *)

Called(j, key, step, unwind, thrown) ==
  call' = [call EXCEPT ![j] = [step |-> step, key |-> key, unwind |-> unwind, thrown |-> thrown]]

\* @Lock outside: nothing happens if the name is taken, which @Lock does not tell its caller; and
\* it is taken before the task is accepted or not.
LockFirst(j, key) ==
  /\ Free(key)
  /\ lockSet' = lockSet \cup {key}
  /\ IF Accepts
     THEN /\ Called(j, key, "method", <<"task", "lock">>, FALSE)
          /\ pendingTasks' = pendingTasks \cup {j}
     ELSE /\ Called(j, key, "over", <<"lock">>, TRUE)
          /\ UNCHANGED pendingTasks

\* @ShutdownAware outside: nothing happens if the task is not accepted, but for the error; one
\* that is accepted is over at once if the name is taken.
TaskFirst(j, key) ==
  /\ Accepts
  /\ pendingTasks' = pendingTasks \cup {j}
  /\ IF Free(key)
     THEN /\ Called(j, key, "method", <<"lock", "task">>, FALSE)
          /\ lockSet' = lockSet \cup {key}
     ELSE /\ Called(j, key, "over", <<"task">>, FALSE)
          /\ UNCHANGED lockSet

CallJob(j) == \E method \in Methods, named \in BOOLEAN, outer \in {"lock", "task"} :
  LET key == LockName(method, named, outer)
  IN /\ Alive /\ call[j].step = "done"
     /\ IF outer = "lock" THEN LockFirst(j, key) ELSE TaskFirst(j, key)
     /\ UNCHANGED <<initialized, shuttingDown, apps, handler, closed, exited>>

\* A promise that settles is one less for allSettled().
Settles(j) == handler' = [s \in Signals |-> [handler[s] EXCEPT !.waits = @ \ {j}]]

\* The method returns or throws.
MethodEnds(j) == \E thrown \in BOOLEAN :
  /\ Alive /\ call[j].step = "method"
  /\ call' = [call EXCEPT ![j].step = "over", ![j].thrown = thrown]
  /\ IF Head(call[j].unwind) = "task" THEN Settles(j) ELSE UNCHANGED handler
  /\ UNCHANGED <<lockSet, initialized, shuttingDown, apps, pendingTasks, closed, exited>>

Unwound(j) == call' = [call EXCEPT
  ![j] = IF Len(@.unwind) = 1 THEN NoCall ELSE [call[j] EXCEPT !.unwind = Tail(call[j].unwind)]]

\* The end of executeCriticalTask(): its promise is pending no longer.
LeaveTask(j) ==
  /\ Alive /\ call[j].step = "over" /\ Head(call[j].unwind) = "task"
  /\ pendingTasks' = pendingTasks \ {j}
  /\ Unwound(j)
  /\ UNCHANGED <<lockSet, initialized, shuttingDown, apps, handler, closed, exited>>

\* Mutant of Released: only a job that succeeds gives its name back.
ReleasedOnSuccess(j) == IF call[j].thrown THEN lockSet ELSE lockSet \ {call[j].key}

Released(j) == lockSet \ {call[j].key}

\* The end of lock(): the name is given back whether the method returned or threw, and whether
\* or not measuring it throws, as it does without a MetricsService.  @Lock drops the LockResult.
LeaveLock(j) ==
  /\ Alive /\ call[j].step = "over" /\ Head(call[j].unwind) = "lock"
  /\ lockSet' = Released(j)
  /\ Unwound(j)
  /\ IF Len(call[j].unwind) = 2 THEN Settles(j) ELSE UNCHANGED handler
  /\ UNCHANGED <<initialized, shuttingDown, apps, pendingTasks, closed, exited>>

------------------------------------------------------------------------------
(* ShutdownAwareHandler *)

\* addShutdownHooks(): the set of apps keeps their order; the first call installs the listeners.
AddShutdownHooks(app) ==
  /\ Alive
  /\ apps' = IF app \in ToSet(apps) THEN apps ELSE Append(apps, app)
  /\ initialized' = TRUE
  /\ UNCHANGED <<lockSet, shuttingDown, pendingTasks, call, handler, closed, exited>>

Signal(s) ==
  /\ Alive /\ initialized
  /\ handler[s].step = "off"
  /\ shuttingDown' = TRUE
  /\ handler' = [handler EXCEPT ![s] =
       [step |-> "waiting",
        waits |-> {j \in pendingTasks : call[j].step = "method" \/ Head(call[j].unwind) = "lock"},
        fired |-> FALSE, next |-> 1]]
  /\ UNCHANGED <<lockSet, initialized, apps, pendingTasks, call, closed, exited>>

\* The timer of signalShutdownAndWait().
Fires(s) ==
  /\ Alive /\ handler[s].step = "waiting" /\ ~handler[s].fired
  /\ handler' = [handler EXCEPT ![s].fired = TRUE]
  /\ UNCHANGED <<lockSet, initialized, shuttingDown, apps, pendingTasks, call, closed, exited>>

\* Mutant of RaceIsOver: no timeout.
AllAreSettled(h) == h.waits = {}

RaceIsOver(h) == h.waits = {} \/ h.fired

Proceed(s) ==
  /\ Alive /\ handler[s].step = "waiting" /\ RaceIsOver(handler[s])
  /\ handler' = [handler EXCEPT ![s].step = "closing"]
  /\ UNCHANGED <<lockSet, initialized, shuttingDown, apps, pendingTasks, call, closed, exited>>

\* The apps are closed one after the other, by every handler anew.  A close() that rejects ends
\* handleShutdown(): the rejection, which nobody handles, ends the process with code 1.
CloseApp(s) ==
  LET h == handler[s]
  IN /\ Alive /\ h.step = "closing" /\ h.next <= Len(apps)
     /\ \/ /\ closed' = closed \cup {apps[h.next]}
           /\ handler' = [handler EXCEPT ![s].next = @ + 1]
           /\ UNCHANGED exited
        \/ /\ exited' = [code |-> "failure", by |-> s]
           /\ UNCHANGED <<closed, handler>>
     /\ UNCHANGED <<lockSet, initialized, shuttingDown, apps, pendingTasks, call>>

Exit(s) ==
  /\ Alive /\ handler[s].step = "closing" /\ handler[s].next > Len(apps)
  /\ exited' = [code |-> "success", by |-> s]
  /\ UNCHANGED <<lockSet, initialized, shuttingDown, apps, pendingTasks, call, handler, closed>>

\* The process is started again.
Restart ==
  /\ ~Alive
  /\ lockSet' = {}
  /\ initialized' = FALSE /\ shuttingDown' = FALSE
  /\ apps' = <<>> /\ pendingTasks' = {}
  /\ call' = [j \in JobCalls |-> NoCall]
  /\ handler' = [s \in Signals |-> NoHandler]
  /\ closed' = {}
  /\ exited' = Running

HandlerSteps(s) == Fires(s) \/ Proceed(s) \/ CloseApp(s) \/ Exit(s)

JobsNext ==
  \/ \E j \in JobCalls : CallJob(j) \/ MethodEnds(j) \/ LeaveTask(j) \/ LeaveLock(j)
  \/ \E app \in Apps : AddShutdownHooks(app)
  \/ \E s \in Signals : Signal(s) \/ HandlerSteps(s)
  \/ Restart

JobsSpec == JobsInit /\ [][JobsNext]_jobsVars

------------------------------------------------------------------------------
(* Properties *)

\* A name is taken exactly as long as one call runs under it: whatever throws, on whichever level
\* and during a shutdown too, no name is left behind, which would refuse the job for ever.
LockSetExact == Alive =>
  LET holders == {j \in JobCalls : "lock" \in ToSet(call[j].unwind)}
  IN /\ lockSet = {call[j].key : j \in holders}
     /\ \A i, j \in holders : call[i].key = call[j].key => i = j

\* A process that exits by itself has closed every app and, unless the timeout of the handler it
\* exits from has passed, finished every critical task it accepted, before or after the signals.
Graceful == exited.code = "success" =>
  /\ ToSet(apps) \subseteq closed
  /\ handler[exited.by].fired \/ \A j \in JobCalls :
       "task" \in ToSet(call[j].unwind) => call[j].step = "over" /\ Head(call[j].unwind) = "task"

\* After a signal the process exits, even if a critical task never ends.
Exits == (\E s \in Signals : handler[s].step # "off") ~> ~Alive

=============================================================================
