------------------------------ MODULE MCServices ------------------------------
(***************************************************************************)
(* The components of one process that have nothing in common but that, for *)
(* TLC: every behaviour is one of one of them, named by focus, while the   *)
(* others rest in their initial states.                                    *)
(***************************************************************************)
EXTENDS GuestCache, ElasticService, ElasticQuery, Jobs, AsyncContexts, ArrayExtensions

CONSTANTS g1, g2

VARIABLE focus

servicesVars == <<guestVars, elasticVars, queryVars, jobsVars, asyncVars, arrayVars, focus>>

MCInit ==
  /\ GuestInit /\ ElasticInit /\ QueryInit /\ JobsInit /\ AsyncInit /\ ArrayInit
  /\ focus \in {"guest", "elastic", "query", "jobs", "contexts", "profilers", "arrays"}

\* Contexts and profilers share nothing but the resources, and are looked at apart; without a
\* profiler time does not matter, and two resources are enough for two profilers.
ContextsNext == AsyncNext /\ UNCHANGED <<profiling, clock>>
ProfilersNext == AsyncNext /\ ~tracking' /\ created' <= 2

MCNext ==
  /\ \/ focus = "guest" /\ GuestNext /\ UNCHANGED <<elasticVars, queryVars, jobsVars, asyncVars, arrayVars>>
     \/ focus = "elastic" /\ ElasticNext /\ UNCHANGED <<guestVars, queryVars, jobsVars, asyncVars, arrayVars>>
     \/ focus = "query" /\ QueryNext /\ UNCHANGED <<guestVars, elasticVars, jobsVars, asyncVars, arrayVars>>
     \/ focus = "jobs" /\ JobsNext /\ UNCHANGED <<guestVars, elasticVars, queryVars, asyncVars, arrayVars>>
     \/ focus = "contexts" /\ ContextsNext /\ UNCHANGED <<guestVars, elasticVars, queryVars, jobsVars, arrayVars>>
     \/ focus = "profilers" /\ ProfilersNext /\ UNCHANGED <<guestVars, elasticVars, queryVars, jobsVars, arrayVars>>
     \/ focus = "arrays" /\ ArrayNext /\ UNCHANGED <<guestVars, elasticVars, queryVars, jobsVars, asyncVars>>
  /\ UNCHANGED focus

\* The event loop runs the steps of a handler of ShutdownAwareHandler.
MCSpec ==
  /\ MCInit /\ [][MCNext]_servicesVars
  /\ \A s \in Signals : WF_jobsVars(focus = "jobs" /\ HandlerSteps(s) /\ UNCHANGED focus)
=============================================================================
