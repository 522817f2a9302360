------------------------------ MODULE AsyncContexts ------------------------------
(***************************************************************************)
(* What ContextTracker (src/packages/common/src/utils/context.tracker.ts)  *)
(* and CpuProfiler (src/packages/monitoring/src/profilers/cpu.profiler.ts) *)
(* keep about asynchronous resources: their async_hooks callbacks and the  *)
(* methods that the code running in a resource calls.                      *)
(***************************************************************************)
EXTENDS Integers, Sequences

CONSTANTS
  MaxResources,  \* bound on the asynchronous resources
  Contents,      \* what is assigned to a context
  Profilers,     \* the instances of CpuProfiler
  MaxClock       \* bound on the time that passes

ASSUME AsyncAssumption == MaxResources \in Nat /\ MaxClock \in Nat

Resources == 1..MaxResources
Outside == 0       \* what triggers a resource that no other resource does
Absent == 0        \* no entry in a dictionary

VARIABLES
  created,      \* the number of resources, numbered in the order of their init events
  live,         \* those that are not destroyed
  stack,        \* those whose code is running, the innermost last
  ancestors,    \* history: ancestors[r]: r and the resources its triggers lead back to
  contextOf,    \* ContextTracker.asyncHookDict: the context of a resource
  contextDict,  \* the contexts: what is assigned to them
  owners,       \* history: the resource each was made in, and how many there were at that time
  tracking,     \* whether ContextTracker has its hook
  profilerOf,   \* CpuProfiler.asyncHookDict: the profiler of a resource ...
  timestamp,    \* ... and since when it has been running
  profiler,     \* profiler[p]: "new", "started" or "stopped"
  duration,     \* CpuProfiler.profilerDict, and for a profiler that has stopped what stop() returned
  profiling,    \* whether CpuProfiler has its hook: "none", "enabled" or "disabled"
  gaps,         \* history: whether it ever was disabled
  clock,
  busy          \* history: the time the resources have been running, each counted for itself

asyncVars == <<created, live, stack, ancestors, contextOf, contextDict, owners, tracking,
               profilerOf, timestamp, profiler, duration, profiling, gaps, clock, busy>>

trackerVars  == <<contextOf, contextDict, owners, tracking>>
profilerVars == <<profilerOf, timestamp, profiler, duration, profiling, gaps>>

AsyncInit ==
  /\ created = 0 /\ live = {} /\ stack = <<>>
  /\ ancestors = [r \in Resources |-> {r}]
  /\ contextOf = [r \in Resources |-> Absent]
  /\ contextDict = <<>> /\ owners = <<>>
  /\ tracking = FALSE
  /\ profilerOf = [r \in Resources |-> Absent]
  /\ timestamp = [r \in Resources |-> 0]
  /\ profiler = [p \in Profilers |-> "new"]
  /\ duration = [p \in Profilers |-> 0]
  /\ profiling = "none" /\ gaps = FALSE
  /\ clock = 1 /\ busy = 0

Current == stack[Len(stack)]   \* executionAsyncId()

------------------------------------------------------------------------------
(* Events of async_hooks *)

\* The entry of a resource that is created: what its trigger has, be it the code that is running
\* or the promise that is awaited.
Inherited(dict, trigger) == IF trigger = Outside THEN Absent ELSE dict[trigger]

OnInit(trigger) ==
  LET r == created + 1
  IN /\ created < MaxResources
     /\ created' = r
     /\ live' = live \cup {r}
     /\ ancestors' = IF trigger = Outside
          THEN ancestors ELSE [ancestors EXCEPT ![r] = @ \cup ancestors[trigger]]
     /\ contextOf' = IF tracking
          THEN [contextOf EXCEPT ![r] = Inherited(contextOf, trigger)] ELSE contextOf
     /\ profilerOf' = IF profiling = "enabled"
          THEN [profilerOf EXCEPT ![r] = Inherited(profilerOf, trigger)] ELSE profilerOf
     /\ UNCHANGED <<stack, contextDict, owners, tracking, timestamp, profiler, duration, profiling, gaps,
                    clock, busy>>

OnBefore(r) ==
  /\ r \notin {stack[i] : i \in DOMAIN stack}
  /\ stack' = Append(stack, r)
  /\ timestamp' = IF profiling = "enabled" /\ profilerOf[r] # Absent
       THEN [timestamp EXCEPT ![r] = clock] ELSE timestamp
  /\ UNCHANGED <<created, live, ancestors, trackerVars, profilerOf, profiler, duration, profiling, gaps,
                 clock, busy>>

\* Mutant of Counts: a resource that was already running when its profiler started counts as well.
CountsAll(r) == profilerOf[r] # Absent /\ profiler[profilerOf[r]] = "started"

Counts(r) ==
  /\ profilerOf[r] # Absent /\ profiler[profilerOf[r]] = "started"
  /\ timestamp[r] > 0

\* The time goes to the profiler of the resource if that has not stopped; the entry goes in any case.
OnAfter ==
  /\ stack # <<>>
  /\ stack' = SubSeq(stack, 1, Len(stack) - 1)
  /\ IF profiling = "enabled"
     THEN /\ duration' = [p \in Profilers |-> IF Counts(Current) /\ p = profilerOf[Current]
               THEN duration[p] + clock - timestamp[Current] ELSE duration[p]]
          /\ profilerOf' = [profilerOf EXCEPT ![Current] = Absent]
          /\ timestamp' = [timestamp EXCEPT ![Current] = 0]
     ELSE UNCHANGED <<duration, profilerOf, timestamp>>
  /\ UNCHANGED <<created, live, ancestors, trackerVars, profiler, profiling, gaps, clock, busy>>

OnDestroy(r) ==
  /\ r \notin {stack[i] : i \in DOMAIN stack}
  /\ live' = live \ {r}
  /\ contextOf' = IF tracking THEN [contextOf EXCEPT ![r] = Absent] ELSE contextOf
  /\ IF profiling = "enabled"
     THEN /\ profilerOf' = [profilerOf EXCEPT ![r] = Absent]
          /\ timestamp' = [timestamp EXCEPT ![r] = 0]
     ELSE UNCHANGED <<profilerOf, timestamp>>
  /\ UNCHANGED <<created, stack, ancestors, contextDict, owners, tracking, profiler, duration, profiling,
                 gaps, clock, busy>>

Tick ==
  /\ clock < MaxClock
  /\ clock' = clock + 1
  /\ busy' = busy + Len(stack)
  /\ UNCHANGED <<created, live, stack, ancestors, trackerVars, profilerVars>>

------------------------------------------------------------------------------
(* ContextTracker *)

\* Mutant of NewContext: every context has the same id.
NewContextSame == 1

\* randomUUID()
NewContext == Len(contextDict) + 1

\* assign(): the running resource gets a context unless it has one, and the context the contents,
\* those of all the resources that share it.
Assign(contents) ==
  LET id == IF contextOf[Current] = Absent THEN NewContext ELSE contextOf[Current]
  IN /\ stack # <<>>
     /\ tracking' = TRUE
     /\ contextOf' = [contextOf EXCEPT ![Current] = id]
     /\ contextDict' = IF id \in DOMAIN contextDict
          THEN [contextDict EXCEPT ![id] = @ \cup {contents}]
          ELSE Append(contextDict, {contents})
     /\ owners' = IF id \in DOMAIN contextDict
          THEN owners ELSE Append(owners, [by |-> Current, at |-> created])
     /\ UNCHANGED <<created, live, stack, ancestors, profilerVars, clock, busy>>

\* get()
ContextOfResource(r) == IF contextOf[r] = Absent THEN {} ELSE contextDict[contextOf[r]]

\* unassign(): the contents go, the entries that lead to them stay.
Unassign ==
  /\ stack # <<>> /\ contextOf[Current] # Absent
  /\ contextDict' = [contextDict EXCEPT ![contextOf[Current]] = {}]
  /\ UNCHANGED <<created, live, stack, ancestors, contextOf, owners, tracking, profilerVars, clock, busy>>

------------------------------------------------------------------------------
(* CpuProfiler *)

\* The constructor calls start(): from now on the running resource is that of the new profiler,
\* whichever profiler it was of, but its time counts only after its next before event.
Start(p) ==
  /\ stack # <<>> /\ profiler[p] = "new"
  /\ profiler' = [profiler EXCEPT ![p] = "started"]
  /\ profilerOf' = [profilerOf EXCEPT ![Current] = p]
  /\ timestamp' = [timestamp EXCEPT ![Current] = 0]
  /\ profiling' = IF profiling = "none" THEN "enabled" ELSE profiling
  /\ UNCHANGED <<created, live, stack, ancestors, trackerVars, duration, gaps, clock, busy>>

StopProfiler(p) ==
  /\ profiler[p] = "started"
  /\ profiler' = [profiler EXCEPT ![p] = "stopped"]
  /\ UNCHANGED <<created, live, stack, ancestors, trackerVars, profilerOf, timestamp, duration,
                 profiling, gaps, clock, busy>>

\* enable() and disable(), which make the hook if there is none yet.
Switches == \E value \in {"enabled", "disabled"} :
  /\ profiling' = value
  /\ gaps' = (gaps \/ value = "disabled")
  /\ UNCHANGED <<created, live, stack, ancestors, trackerVars, profilerOf, timestamp, profiler, duration,
                 clock, busy>>

\* With nothing left to run the process ends; another one begins.
NextProcess ==
  /\ live = {} /\ created > 0
  /\ created' = 0
  /\ ancestors' = [r \in Resources |-> {r}]
  /\ contextDict' = <<>> /\ owners' = <<>> /\ tracking' = FALSE
  /\ profilerOf' = [r \in Resources |-> Absent]
  /\ timestamp' = [r \in Resources |-> 0]
  /\ profiler' = [p \in Profilers |-> "new"]
  /\ duration' = [p \in Profilers |-> 0]
  /\ profiling' = "none" /\ gaps' = FALSE
  /\ clock' = 1 /\ busy' = 0
  /\ UNCHANGED <<live, stack, contextOf>>

AsyncNext ==
  \/ \E trigger \in live \cup {Outside} : OnInit(trigger)
  \/ \E r \in live : OnBefore(r) \/ OnDestroy(r)
  \/ OnAfter \/ Tick
  \/ \E contents \in Contents : Assign(contents)
  \/ Unassign
  \/ \E p \in Profilers : Start(p) \/ StopProfiler(p)
  \/ Switches \/ NextProcess

AsyncSpec == AsyncInit /\ [][AsyncNext]_asyncVars

------------------------------------------------------------------------------
(* Properties *)

\* A context that assign() makes for a resource is had by that resource and by those its triggers lead
\* to that were created afterwards, and by no other: not by the resource that triggered it, no
\* callback that was already under way, and no other request of the same server, whatever their
\* callbacks do in between.  (Requests do share a context that was made for the server itself before
\* they came, and a resource that has one already does not get its own.)  And no entry of a resource
\* stays when that is destroyed.
ContextsApart == \A r \in Resources : contextOf[r] # Absent =>
  /\ r \in live
  /\ LET owner == owners[contextOf[r]]
     IN r = owner.by \/ (owner.by \in ancestors[r] /\ r > owner.at)

\* No time is counted in which nothing ran, and none twice: resources that run within one another
\* count each for itself, be it with several profilers that start, stop and take over resources.
\* While the hook is disabled it misses the ends of what runs, and counts time nothing ran in.
CpuTime == ~gaps => \A p, q \in Profilers :
  duration[p] + (IF p = q THEN 0 ELSE duration[q]) <= busy

=============================================================================
