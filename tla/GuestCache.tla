------------------------------- MODULE GuestCache -------------------------------
(***************************************************************************)
(* GuestCacheService and GuestCacheWarmer (src/packages/cache/src/         *)
(* guest-cache): one query of users who are not logged in.  A process      *)
(* counts its hits per minute and sends them to a sorted set of that       *)
(* minute in Redis, batchSize at a time; the warmer recomputes the         *)
(* response of the queries that were hit often enough.                     *)
(***************************************************************************)
EXTENDS Integers, FiniteSets, Functions

CONSTANTS
  Guests,        \* the requests a process works on at the same time
  BatchSize,     \* the option batchSize
  HitsThreshold, \* the option cacheTriggerHitsThreshold
  MaxMinute,     \* bound on the minutes that pass
  MaxHits,       \* bound on the hits
  MaxUpsets      \* bound on failures of Redis and of the target

ASSUME GuestAssumption ==
  /\ IsFiniteSet(Guests)
  /\ BatchSize \in Nat \ {0} /\ HitsThreshold \in Nat /\ MaxMinute \in Nat /\ MaxHits \in Nat

Minutes == 0..MaxMinute
NoCounter == -1   \* no entry for the query in the process's counter of a minute

VARIABLES
  minute,    \* the clock
  counter,   \* counter[m]: cacheHitsCounter of the process
  score,     \* score[m]: the score of the query in Redis
  guest,     \* guest[g]: step of a request, its minute and the hits it is sending
  body,      \* whether Redis has the query
  response,  \* whether Redis has a response to it
  warmer,    \* step of recompute(), and whether the query was hot in one of the minutes
  hits,      \* history: hits[m]: the hits in minute m
  gone,      \* history: gone[m]: those that failed to arrive, expired, or were deleted with the counter
  upsets

guestVars == <<minute, counter, score, guest, body, response, warmer, hits, gone, upsets>>

Away == [step |-> "done", minute |-> 0, first |-> FALSE, amount |-> 0]

GuestInit ==
  /\ minute = 0
  /\ counter = [m \in Minutes |-> NoCounter]
  /\ score = [m \in Minutes |-> 0]
  /\ guest = [g \in Guests |-> Away]
  /\ body = FALSE /\ response = FALSE
  /\ warmer = [step |-> "idle", at |-> 0, hot |-> FALSE]
  /\ hits = [m \in Minutes |-> 0]
  /\ gone = [m \in Minutes |-> 0]
  /\ upsets = 0

Upset == upsets < MaxUpsets /\ upsets' = upsets + 1

\* Mutant of NextCount: the counter begins again at 0.
NextCountZero(n) == IF n < BatchSize THEN n + 1 ELSE 0

NextCount(n) == IF n < BatchSize THEN n + 1 ELSE 1

------------------------------------------------------------------------------
(* getOrSetRequestCache(); requests that are not to be cached return before they count. *)

Arrive(g) ==
  LET first == counter[minute] \in {NoCounter, 0}
      n == NextCount(IF first THEN 0 ELSE counter[minute])
  IN /\ guest[g].step = "done"
     /\ SumFunction(hits) < MaxHits
     /\ counter' = [counter EXCEPT ![minute] = n]
     /\ hits' = [hits EXCEPT ![minute] = @ + 1]
     /\ guest' = [guest EXCEPT ![g] =
          [step |-> IF n >= BatchSize THEN "count" ELSE IF first THEN "zero" ELSE "get",
           minute |-> minute, first |-> first, amount |-> IF n >= BatchSize THEN n ELSE 0]]
     /\ UNCHANGED <<minute, score, body, response, warmer, gone, upsets>>

\* A ZINCRBY that fails is thrown, and what it would have added is nowhere any more.
Count(g) ==
  LET r == guest[g]
      Added == score' = [score EXCEPT ![r.minute] = @ + r.amount] /\ UNCHANGED gone
  IN /\ r.step = "count"
     /\ \/ /\ Added
           /\ guest' = [guest EXCEPT ![g].step = IF r.first THEN "zero" ELSE "get", ![g].amount = 0]
           /\ UNCHANGED upsets
        \/ /\ Upset
           /\ \/ Added
              \/ gone' = [gone EXCEPT ![r.minute] = @ + r.amount] /\ UNCHANGED score
           /\ guest' = [guest EXCEPT ![g] = Away]
     /\ UNCHANGED <<minute, counter, body, response, warmer, hits>>

\* The first request of a minute adds 0, stores the query and limits the life of the counters.
\* The error of set() is swallowed, the other two are thrown.
Prepare(g) ==
  LET After == [zero |-> "body", body |-> "expire", expire |-> "get"]
      step == guest[g].step
  IN /\ step \in DOMAIN After
     /\ \/ /\ guest' = [guest EXCEPT ![g].step = After[step]]
           /\ body' = (body \/ step = "body")
           /\ UNCHANGED upsets
        \/ /\ Upset
           /\ guest' = [guest EXCEPT ![g] = IF step = "body" THEN [@ EXCEPT !.step = "expire"] ELSE Away]
           /\ body' \in {body, body \/ step = "body"}
     /\ UNCHANGED <<minute, counter, score, response, warmer, hits, gone>>

\* The response is answered if there is one; then the counters of the minute before go.
Get(g) ==
  LET before == guest[g].minute - 1
      unsent == IF counter[before] \in 1..BatchSize - 1 THEN counter[before] ELSE 0
  IN /\ guest[g].step = "get"
     /\ guest' = [guest EXCEPT ![g] = Away]
     /\ IF before \in Minutes
        THEN /\ counter' = [counter EXCEPT ![before] = NoCounter]
             /\ gone' = [gone EXCEPT ![before] = @ + unsent]
        ELSE UNCHANGED <<counter, gone>>
     /\ UNCHANGED <<minute, score, body, response, warmer, hits, upsets>>

------------------------------------------------------------------------------
(* recompute() *)

Hot(m) == m \in Minutes /\ score[m] >= HitsThreshold

\* Two ZRANGEBYSCORE; the error of either is thrown.
Recompute ==
  \/ /\ warmer.step = "idle"
     /\ warmer' = [step |-> "previous", at |-> minute, hot |-> Hot(minute)]
  \/ /\ warmer.step = "previous"
     /\ warmer' = [warmer EXCEPT !.step = "body", !.hot = @ \/ Hot(warmer.at - 1)]

ReadMinutes ==
  /\ Recompute
  /\ UNCHANGED <<minute, counter, score, guest, body, response, hits, gone, upsets>>

\* A query that is not hot, or whose body is not there, is left alone; or its error ends recompute().
LeaveAlone ==
  /\ \/ warmer.step = "body" /\ (~warmer.hot \/ ~body) /\ UNCHANGED upsets
     \/ warmer.step \in {"previous", "body"} /\ Upset
  /\ warmer' = [warmer EXCEPT !.step = "idle", !.hot = FALSE]
  /\ UNCHANGED <<minute, counter, score, guest, body, response, hits, gone>>

Warm ==
  /\ warmer.step = "body" /\ warmer.hot /\ body
  /\ warmer' = [warmer EXCEPT !.step = "target"]
  /\ UNCHANGED <<minute, counter, score, guest, body, response, hits, gone, upsets>>

\* The target answers and the response is stored, or lost to a swallowed error.  If the target
\* fails the query is deleted, and reading the length of the missing data throws: no response is set.
Target ==
  /\ warmer.step = "target"
  /\ \/ response' = TRUE /\ UNCHANGED <<body, upsets>>
     \/ Upset /\ body' \in {body, FALSE} /\ UNCHANGED response
  /\ warmer' = [warmer EXCEPT !.step = "idle", !.hot = FALSE]
  /\ UNCHANGED <<minute, counter, score, guest, hits, gone>>

------------------------------------------------------------------------------
NextMinute ==
  /\ minute < MaxMinute
  /\ minute' = minute + 1
  /\ UNCHANGED <<counter, score, guest, body, response, warmer, hits, gone, upsets>>

\* Entries of Redis expire; the counters of a minute not before the next one is over.
RedisExpires ==
  /\ \/ body /\ body' = FALSE /\ UNCHANGED <<response, score, gone>>
     \/ response /\ response' = FALSE /\ UNCHANGED <<body, score, gone>>
     \/ \E m \in Minutes :
          /\ m + 1 < minute /\ score[m] > 0
          /\ score' = [score EXCEPT ![m] = 0]
          /\ gone' = [gone EXCEPT ![m] = @ + score[m]]
          /\ UNCHANGED <<body, response>>
  /\ UNCHANGED <<minute, counter, guest, warmer, hits, upsets>>

GuestNext ==
  \/ \E g \in Guests : Arrive(g) \/ Count(g) \/ Prepare(g) \/ Get(g)
  \/ ReadMinutes \/ LeaveAlone \/ Warm \/ Target
  \/ NextMinute \/ RedisExpires

GuestSpec == GuestInit /\ [][GuestNext]_guestVars

------------------------------------------------------------------------------
(* Properties *)

\* The hits of minute m that requests are sending, and those the process has still to send.
Sending(m) == SumFunction([g \in {h \in Guests : guest[h].minute = m} |-> guest[g].amount])
Unsent(m) == IF counter[m] \in 1..BatchSize - 1 THEN counter[m] ELSE 0

\* Every hit is in the counter of its minute in Redis, on its way there, or waiting in the process
\* for its batch to be full, unless it failed to arrive, expired or was dropped with an incomplete
\* batch: requests that overlap in a process, or over the end of a minute, neither lose hits nor
\* count any twice.
HitsAccounted == \A m \in Minutes :
  hits[m] = score[m] + Sending(m) + Unsent(m) + gone[m]

=============================================================================
