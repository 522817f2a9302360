----------------------------- MODULE ServicesProofs -----------------------------
(***************************************************************************)
(* Proofs about GuestCache, ElasticService, ElasticQuery, AsyncContexts    *)
(* and ArrayExtensions, for any number of guests, documents, conditions,   *)
(* resources, elements and failures.                                       *)
(***************************************************************************)
EXTENDS GuestCache, ElasticService, ElasticQuery, AsyncContexts, ArrayExtensions,
        Induction, SequenceTheorems, TLAPS

------------------------------------------------------------------------------
(* GuestCache *)

Requests == [step : {"done", "count", "zero", "body", "expire", "get"},
             minute : Minutes, first : BOOLEAN, amount : Nat]

GuestType ==
  /\ minute \in Minutes
  /\ counter \in [Minutes -> -1..BatchSize]
  /\ score \in [Minutes -> Nat]
  /\ gone \in [Minutes -> Nat]
  /\ hits \in [Minutes -> Nat]
  /\ guest \in [Guests -> Requests]

\* HitsAccounted is not inductive: a request that is not about to send its hits must have none.
HitsInv ==
  /\ GuestType
  /\ HitsAccounted
  /\ \A g \in Guests : guest[g].step # "count" => guest[g].amount = 0

\* Sending(m) for requests gs.
SendingOf(gs, m) == SumFunction([g \in {h \in Guests : gs[h].minute = m} |-> gs[g].amount])

\* The part of one of them in it.
Part(r, m) == IF r.minute = m THEN r.amount ELSE 0

\* What all others are sending.
SendingWithout(gs, g, m) == SumFunction([h \in {k \in Guests : gs[k].minute = m} \ {g} |-> gs[h].amount])

\* The requests whose count is on its way, without one of them.
LEMMA SendingSplits ==
  ASSUME NEW gs \in [Guests -> Requests], NEW g \in Guests, NEW m
  PROVE  /\ SendingWithout(gs, g, m) \in Int
         /\ SendingOf(gs, m) = Part(gs[g], m) + SendingWithout(gs, g, m)
<1> DEFINE S == {k \in Guests : gs[k].minute = m}
           f == [h \in S |-> gs[h].amount]
<1>1. \A h \in Guests : gs[h].amount \in Nat
  BY DEF Requests
<1>2. IsFiniteSet(S) /\ f \in [S -> Int] /\ SendingOf(gs, m) = SumFunction(f)
  BY <1>1, GuestAssumption, FS_Subset DEF SendingOf
<1>3. CASE g \in S
  <2>1. [h \in S \ {g} |-> gs[h].amount] = [h \in S \ {g} |-> f[h]]
    OBVIOUS
  <2>2. f[g] = gs[g].amount /\ gs[g].minute = m
    BY <1>3
  <2>3. SendingWithout(gs, g, m) = SumFunction([h \in S \ {g} |-> f[h]])
    BY <2>1 DEF SendingWithout
  <2>4. Part(gs[g], m) = f[g]
    BY <2>2 DEF Part
  <2> HIDE DEF S, f
  <2>5. /\ SumFunction([h \in S \ {g} |-> f[h]]) \in Int
        /\ SumFunction(f) = f[g] + SumFunction([h \in S \ {g} |-> f[h]])
    BY <1>2, <1>3, SumSplits
  <2> QED BY <1>2, <2>3, <2>4, <2>5
<1>4. CASE g \notin S
  <2>1. S \ {g} = S /\ gs[g].minute # m
    BY <1>4
  <2>2. SumFunction(f) \in Int
    <3> HIDE DEF S, f
    <3> QED BY <1>2, SumType
  <2>3. SendingWithout(gs, g, m) = SumFunction(f) /\ Part(gs[g], m) = 0
    BY <2>1 DEF SendingWithout, Part
  <2> QED BY <1>2, <2>2, <2>3
<1> QED BY <1>3, <1>4

\* What is being sent changes by as much as a request that changes.
ChangesBy(old, new, part, newPart) ==
  old \in Int /\ new \in Int /\ part \in Nat /\ newPart \in Nat /\ new = old - part + newPart

\* How a step of one request changes that number.
LEMMA SendingChanges ==
  ASSUME NEW gs \in [Guests -> Requests], NEW g \in Guests, NEW r \in Requests, NEW m,
         NEW hs, hs = [gs EXCEPT ![g] = r]
  PROVE  ChangesBy(SendingOf(gs, m), SendingOf(hs, m), Part(gs[g], m), Part(r, m))
<1>1. hs \in [Guests -> Requests] /\ hs[g] = r
  OBVIOUS
<1>2. {k \in Guests : hs[k].minute = m} \ {g} = {k \in Guests : gs[k].minute = m} \ {g}
  OBVIOUS
<1>3. SendingWithout(hs, g, m) = SendingWithout(gs, g, m)
  BY <1>2 DEF SendingWithout
<1>4. Part(gs[g], m) \in Nat /\ Part(r, m) \in Nat
  BY DEF Part, Requests
<1>5. SendingWithout(gs, g, m) \in Int /\ SendingOf(gs, m) = Part(gs[g], m) + SendingWithout(gs, g, m)
  BY SendingSplits
<1>6. SendingOf(hs, m) = Part(r, m) + SendingWithout(gs, g, m)
  BY <1>1, <1>3, SendingSplits
<1> QED BY <1>4, <1>5, <1>6 DEF ChangesBy

\* INCR answers one more than before, and an absent counter counts as none.
LEMMA NextCountIs ==
  ASSUME NEW n \in 0..BatchSize
  PROVE  NextCount(n) \in 1..BatchSize /\ (n < BatchSize => NextCount(n) = n + 1) /\ (n = BatchSize => NextCount(n) = 1)
BY GuestAssumption DEF NextCount

\* A step of a request, and what it does to the numbers of one minute.
LEMMA RequestStep ==
  ASSUME HitsInv, NEW g \in Guests, NEW r \in Requests,
         guest' = [guest EXCEPT ![g] = r], r.step # "count" => r.amount = 0,
         GuestType',
         \A m \in Minutes : hits'[m] - score'[m] - Unsent(m)' - gone'[m]
                            = hits[m] - score[m] - Unsent(m) - gone[m] + Part(r, m) - Part(guest[g], m)
  PROVE  HitsInv'
<1>1. ASSUME NEW m \in Minutes PROVE hits'[m] = score'[m] + Sending(m)' + Unsent(m)' + gone'[m]
  <2>1. /\ Sending(m) \in Int /\ Sending(m)' \in Int
        /\ Sending(m)' = Sending(m) - Part(guest[g], m) + Part(r, m)
        /\ Part(guest[g], m) \in Nat /\ Part(r, m) \in Nat
    <3>1. guest \in [Guests -> Requests] /\ guest' = [guest EXCEPT ![g] = r]
      BY DEF HitsInv, GuestType
    <3>2. Sending(m) = SendingOf(guest, m) /\ Sending(m)' = SendingOf(guest', m)
      BY DEF Sending, SendingOf
    <3>3. ChangesBy(SendingOf(guest, m), SendingOf(guest', m), Part(guest[g], m), Part(r, m))
      BY <3>1, SendingChanges
    <3> QED BY <3>2, <3>3 DEF ChangesBy
  <2>2. /\ hits'[m] \in Int /\ score'[m] \in Int /\ Unsent(m)' \in Int /\ gone'[m] \in Int
        /\ hits[m] \in Int /\ score[m] \in Int /\ Unsent(m) \in Int /\ gone[m] \in Int
    BY GuestAssumption DEF HitsInv, GuestType, Unsent
  <2>3. hits[m] = score[m] + Sending(m) + Unsent(m) + gone[m]
    BY DEF HitsInv, HitsAccounted
  <2>4. hits'[m] - score'[m] - Unsent(m)' - gone'[m]
        = hits[m] - score[m] - Unsent(m) - gone[m] + Part(r, m) - Part(guest[g], m)
    OBVIOUS
  <2> HIDE DEF Sending, Unsent, Part
  <2> QED BY <2>1, <2>2, <2>3, <2>4
<1>2. \A h \in Guests : guest'[h].step # "count" => guest'[h].amount = 0
  BY DEF HitsInv, GuestType
<1> QED BY <1>1, <1>2 DEF HitsInv, HitsAccounted

\* A request that arrives is counted with its first command.
LEMMA ArriveKeepsHits == ASSUME HitsInv, NEW g \in Guests, Arrive(g) PROVE HitsInv'
<1> DEFINE first == counter[minute] \in {NoCounter, 0}
           n == NextCount(IF first THEN 0 ELSE counter[minute])
           r == [step |-> IF n >= BatchSize THEN "count" ELSE IF first THEN "zero" ELSE "get",
                 minute |-> minute, first |-> first, amount |-> IF n >= BatchSize THEN n ELSE 0]
<1>0. /\ minute \in Minutes /\ counter \in [Minutes -> -1..BatchSize]
      /\ hits \in [Minutes -> Nat] /\ score \in [Minutes -> Nat] /\ gone \in [Minutes -> Nat]
      /\ BatchSize \in Nat \ {0}
  BY GuestAssumption DEF HitsInv, GuestType
<1>1. /\ guest[g].step = "done" /\ guest' = [guest EXCEPT ![g] = r]
      /\ counter' = [counter EXCEPT ![minute] = n]
      /\ hits' = [hits EXCEPT ![minute] = @ + 1]
      /\ UNCHANGED <<minute, score, gone>>
  BY DEF Arrive
<1>2. /\ n \in 1..BatchSize
      /\ first => n = 1 /\ Unsent(minute) = 0
      /\ ~first /\ counter[minute] < BatchSize => n = counter[minute] + 1 /\ Unsent(minute) = counter[minute]
      /\ counter[minute] = BatchSize => n = 1 /\ Unsent(minute) = 0
  <2>1. (IF first THEN 0 ELSE counter[minute]) \in 0..BatchSize
    BY <1>0 DEF NoCounter
  <2> QED BY <1>0, <2>1, NextCountIs DEF Unsent, NoCounter
<1>3. n = Unsent(minute) + 1 /\ n \in 1..BatchSize
  <2>1. first \/ (~first /\ counter[minute] < BatchSize) \/ counter[minute] = BatchSize
    BY <1>0
  <2> HIDE DEF n, first
  <2> QED BY <1>0, <1>2, <2>1
<1> HIDE DEF n
<1>4. Unsent(minute)' = IF n >= BatchSize THEN 0 ELSE n
  BY <1>0, <1>1, <1>3 DEF Unsent
<1>5. \A m \in Minutes : m # minute => Unsent(m)' = Unsent(m) /\ hits'[m] = hits[m]
  BY <1>0, <1>1 DEF Unsent
<1>6. r \in Requests /\ (r.step # "count" => r.amount = 0)
  <2>1. first \in BOOLEAN
    OBVIOUS
  <2> HIDE DEF first
  <2> QED BY <1>0, <1>3, <2>1 DEF Requests
<1>7. /\ \A m \in Minutes : Part(guest[g], m) = 0 /\ (m # minute => Part(r, m) = 0)
      /\ Part(r, minute) = IF n >= BatchSize THEN n ELSE 0
  BY <1>1 DEF HitsInv, Part
<1> HIDE DEF r, first
<1>8. GuestType'
  <2>1. counter' \in [Minutes -> -1..BatchSize] /\ hits' \in [Minutes -> Nat]
    BY <1>0, <1>1, <1>3
  <2>2. guest' \in [Guests -> Requests]
    BY <1>1, <1>6 DEF HitsInv, GuestType
  <2> QED BY <1>0, <1>1, <2>1, <2>2 DEF GuestType
<1>9. ASSUME NEW m \in Minutes
      PROVE  hits'[m] - score'[m] - Unsent(m)' - gone'[m]
             = hits[m] - score[m] - Unsent(m) - gone[m] + Part(r, m) - Part(guest[g], m)
  <2>1. hits[m] \in Nat /\ score[m] \in Nat /\ gone[m] \in Nat /\ Unsent(m) \in Int
    BY <1>0 DEF Unsent
  <2>2. CASE m = minute
    <3>1. hits'[m] = hits[m] + 1 /\ score'[m] = score[m] /\ gone'[m] = gone[m]
      BY <1>0, <1>1, <2>2
    <3>2. Part(r, m) = (IF n >= BatchSize THEN n ELSE 0) /\ Part(guest[g], m) = 0
      BY <1>7, <2>2
    <3>3. Unsent(m)' = IF n >= BatchSize THEN 0 ELSE n
      BY <1>1, <1>4, <2>2 DEF Unsent
    <3>4. n = Unsent(m) + 1 /\ n \in Int
      BY <1>3, <2>2
    <3> QED BY <1>0, <2>1, <3>1, <3>2, <3>3, <3>4
  <2>3. CASE m # minute
    BY <1>1, <1>5, <1>7, <2>1, <2>3
  <2> QED BY <2>2, <2>3
<1> QED BY <1>1, <1>6, <1>8, <1>9, RequestStep

\* The answer of INCR settles the request, or finds that the counter is new.
LEMMA CountKeepsHits == ASSUME HitsInv, NEW g \in Guests, Count(g) PROVE HitsInv'
<1> DEFINE q == guest[g]
<1>a. /\ minute \in Minutes /\ counter \in [Minutes -> -1..BatchSize]
      /\ hits \in [Minutes -> Nat] /\ score \in [Minutes -> Nat] /\ gone \in [Minutes -> Nat]
      /\ guest \in [Guests -> Requests] /\ BatchSize \in Nat
  BY GuestAssumption DEF HitsInv, GuestType
<1>b. 0 \in Minutes
  BY GuestAssumption DEF Minutes
<1>c. q \in Requests /\ q.minute \in Minutes /\ q.amount \in Nat
  BY <1>a DEF Requests
<1>0. /\ q \in Requests /\ q.minute \in Minutes /\ q.amount \in Nat
      /\ hits \in [Minutes -> Nat] /\ score \in [Minutes -> Nat] /\ gone \in [Minutes -> Nat]
      /\ guest \in [Guests -> Requests]
      /\ counter \in [Minutes -> -1..BatchSize] /\ minute \in Minutes /\ 0 \in Minutes
      /\ BatchSize \in Nat
  BY <1>a, <1>b, <1>c
<1>1. UNCHANGED <<minute, counter, hits>>
  BY DEF Count
<1>2. \/ score' = [score EXCEPT ![q.minute] = @ + q.amount] /\ gone' = gone
      \/ gone' = [gone EXCEPT ![q.minute] = @ + q.amount] /\ score' = score
  BY DEF Count
<1>3. PICK r \in Requests : guest' = [guest EXCEPT ![g] = r] /\ r.amount = 0
  <2>1. CASE guest' = [guest EXCEPT ![g] = Away]
    <3>1. Away \in Requests /\ Away.amount = 0
      BY <1>0 DEF Away, Requests
    <3> QED BY <2>1, <3>1
  <2>2. CASE guest' = [guest EXCEPT ![g].step = IF q.first THEN "zero" ELSE "get", ![g].amount = 0]
    <3> DEFINE s == [q EXCEPT !.step = IF q.first THEN "zero" ELSE "get", !.amount = 0]
    <3>1. s \in Requests /\ s.amount = 0
      BY <1>0 DEF Requests
    <3>2. guest' = [guest EXCEPT ![g] = s]
      BY <1>0, <2>2 DEF Requests
    <3> QED BY <3>1, <3>2
  <2> QED BY <2>1, <2>2 DEF Count
<1>4. GuestType'
  <2>1. score' \in [Minutes -> Nat] /\ gone' \in [Minutes -> Nat]
    BY <1>0, <1>2
  <2> QED BY <1>0, <1>1, <1>3, <2>1 DEF GuestType
<1>5. ASSUME NEW m \in Minutes
      PROVE  hits'[m] - score'[m] - Unsent(m)' - gone'[m]
             = hits[m] - score[m] - Unsent(m) - gone[m] + Part(r, m) - Part(guest[g], m)
  <2>1. hits[m] \in Nat /\ score[m] \in Nat /\ gone[m] \in Nat /\ Unsent(m) \in Int /\ Unsent(m)' = Unsent(m)
    BY <1>0, <1>1 DEF Unsent
  <2>2. Part(r, m) = 0 /\ Part(guest[g], m) = (IF q.minute = m THEN q.amount ELSE 0)
    BY <1>3 DEF Part
  <2>3. score'[m] + gone'[m] = score[m] + gone[m] + Part(guest[g], m)
    BY <1>0, <1>2, <2>1, <2>2
  <2>4. score'[m] \in Nat /\ gone'[m] \in Nat /\ Part(guest[g], m) \in Nat
    BY <1>0, <1>4, <2>2 DEF GuestType
  <2>5. hits'[m] = hits[m]
    BY <1>1
  <2>6. \A h, s, u, o, x, y, p \in Int : x + y = s + o + p => h - x - u - y = h - s - u - o + 0 - p
    OBVIOUS
  <2> HIDE DEF q
  <2> QED BY <2>1, <2>2, <2>3, <2>4, <2>5, <2>6
<1> QED BY <1>3, <1>4, <1>5, RequestStep

\* What only a request with no hits to send does.
LEMMA EmptyRequestStep ==
  ASSUME HitsInv, NEW g \in Guests, NEW r \in Requests, guest[g].amount = 0,
         guest' = [guest EXCEPT ![g] = r], r.amount = 0,
         UNCHANGED <<minute, hits, score>>,
         counter' \in [Minutes -> -1..BatchSize], gone' \in [Minutes -> Nat],
         \A m \in Minutes : Unsent(m)' + gone'[m] = Unsent(m) + gone[m]
  PROVE  HitsInv'
<1>0. /\ minute \in Minutes /\ counter \in [Minutes -> -1..BatchSize]
      /\ hits \in [Minutes -> Nat] /\ score \in [Minutes -> Nat] /\ gone \in [Minutes -> Nat]
      /\ guest \in [Guests -> Requests] /\ BatchSize \in Nat
  BY GuestAssumption DEF HitsInv, GuestType
<1>1. GuestType'
  BY <1>0 DEF GuestType
<1>2. ASSUME NEW m \in Minutes
      PROVE  hits'[m] - score'[m] - Unsent(m)' - gone'[m]
             = hits[m] - score[m] - Unsent(m) - gone[m] + Part(r, m) - Part(guest[g], m)
  <2>1. /\ hits[m] \in Nat /\ score[m] \in Nat /\ gone[m] \in Nat /\ gone'[m] \in Nat
        /\ Unsent(m) \in Int /\ Unsent(m)' \in Int
    BY <1>0 DEF Unsent
  <2>2. Part(r, m) = 0 /\ Part(guest[g], m) = 0 /\ hits'[m] = hits[m] /\ score'[m] = score[m]
    BY DEF Part
  <2> QED BY <2>1, <2>2
<1> QED BY <1>1, <1>2, RequestStep

\* Preparing the entry of a query counts nothing.
LEMMA PrepareKeepsHits == ASSUME HitsInv, NEW g \in Guests, Prepare(g) PROVE HitsInv'
<1> DEFINE q == guest[g]
<1>0. /\ q \in Requests /\ guest \in [Guests -> Requests] /\ 0 \in Minutes
      /\ counter \in [Minutes -> -1..BatchSize] /\ gone \in [Minutes -> Nat]
  BY GuestAssumption DEF HitsInv, GuestType, Minutes
<1>1. /\ UNCHANGED <<minute, counter, score, hits, gone>>
      /\ q.step \in {"zero", "body", "expire"}
  BY DEF Prepare
<1>2. q.amount = 0
  BY <1>1 DEF HitsInv
<1>3. PICK r \in Requests : guest' = [guest EXCEPT ![g] = r] /\ r.amount = 0
  <2>1. CASE guest' = [guest EXCEPT ![g] = Away]
    <3>1. Away \in Requests /\ Away.amount = 0
      BY <1>0 DEF Away, Requests
    <3> QED BY <2>1, <3>1
  <2>2. ASSUME NEW next \in {"body", "expire", "get"}, guest' = [guest EXCEPT ![g].step = next]
        PROVE  \E r \in Requests : guest' = [guest EXCEPT ![g] = r] /\ r.amount = 0
    <3> DEFINE s == [q EXCEPT !.step = next]
    <3>1. s \in Requests /\ s.amount = 0
      BY <1>0, <1>2 DEF Requests
    <3>2. guest' = [guest EXCEPT ![g] = s]
      BY <1>0, <2>2 DEF Requests
    <3> QED BY <3>1, <3>2
  <2>3. \/ guest' = [guest EXCEPT ![g] = Away]
        \/ \E next \in {"body", "expire", "get"} : guest' = [guest EXCEPT ![g].step = next]
    <3> DEFINE Next == [zero |-> "body", body |-> "expire", expire |-> "get"]
    <3>1. Next[q.step] \in {"body", "expire", "get"}
      BY <1>1
    <3>2. \/ guest' = [guest EXCEPT ![g].step = Next[q.step]]
          \/ guest' = [guest EXCEPT ![g] = IF q.step = "body" THEN [@ EXCEPT !.step = "expire"] ELSE Away]
      BY DEF Prepare
    <3>3. [guest EXCEPT ![g] = [guest[g] EXCEPT !.step = "expire"]] = [guest EXCEPT ![g].step = "expire"]
      OBVIOUS
    <3> HIDE DEF Next
    <3> QED BY <1>0, <3>1, <3>2, <3>3
  <2> QED BY <2>1, <2>2, <2>3
<1>4. \A m \in Minutes : Unsent(m)' + gone'[m] = Unsent(m) + gone[m]
  BY <1>1 DEF Unsent
<1>5. gone' \in [Minutes -> Nat] /\ counter' \in [Minutes -> -1..BatchSize]
  BY <1>0, <1>1
<1> QED BY <1>0, <1>1, <1>2, <1>3, <1>4, <1>5, EmptyRequestStep

\* Reading the entry counts nothing.
LEMMA GetKeepsHits == ASSUME HitsInv, NEW g \in Guests, Get(g) PROVE HitsInv'
<1> DEFINE before == guest[g].minute - 1
           unsent == IF counter[before] \in 1..BatchSize - 1 THEN counter[before] ELSE 0
<1>0. /\ guest[g] \in Requests /\ guest \in [Guests -> Requests] /\ 0 \in Minutes
      /\ counter \in [Minutes -> -1..BatchSize] /\ gone \in [Minutes -> Nat] /\ BatchSize \in Nat \ {0}
  BY GuestAssumption DEF HitsInv, GuestType, Minutes
<1>1. /\ guest[g].step = "get" /\ guest' = [guest EXCEPT ![g] = Away]
      /\ UNCHANGED <<minute, score, hits>>
  BY DEF Get
<1>2. \/ /\ before \in Minutes
         /\ counter' = [counter EXCEPT ![before] = NoCounter]
         /\ gone' = [gone EXCEPT ![before] = @ + unsent]
      \/ UNCHANGED <<counter, gone>>
  BY DEF Get
<1>3. guest[g].amount = 0 /\ Away \in Requests /\ Away.amount = 0
  BY <1>0, <1>1 DEF HitsInv, Away, Requests
<1> HIDE DEF before
<1>4. before \in Minutes => unsent = Unsent(before) /\ unsent \in Nat
  BY <1>0 DEF Unsent
<1> HIDE DEF unsent
<1>5. gone' \in [Minutes -> Nat] /\ counter' \in [Minutes -> -1..BatchSize]
  BY <1>0, <1>2, <1>4 DEF NoCounter
<1>6. ASSUME NEW m \in Minutes PROVE Unsent(m)' + gone'[m] = Unsent(m) + gone[m]
  <2>1. Unsent(m) \in Nat /\ gone[m] \in Nat
    BY <1>0 DEF Unsent
  <2>2. CASE UNCHANGED <<counter, gone>>
    BY <2>2 DEF Unsent
  <2>3. CASE /\ before \in Minutes
             /\ counter' = [counter EXCEPT ![before] = NoCounter]
             /\ gone' = [gone EXCEPT ![before] = @ + unsent]
    <3>1. CASE m = before
      <4>1. Unsent(m)' = 0
        BY <1>0, <2>3, <3>1 DEF Unsent, NoCounter
      <4> QED BY <1>0, <1>4, <2>1, <2>3, <3>1, <4>1
    <3>2. CASE m # before
      BY <1>0, <2>3, <3>2 DEF Unsent
    <3> QED BY <3>1, <3>2
  <2> QED BY <1>2, <2>2, <2>3
<1> QED BY <1>1, <1>3, <1>5, <1>6, EmptyRequestStep

\* What leaves the requests and the counters alone, and what Redis and history have in sum.
LEMMA OtherStep ==
  ASSUME HitsInv, UNCHANGED <<counter, guest, hits>>, minute' \in Minutes,
         score' \in [Minutes -> Nat], gone' \in [Minutes -> Nat],
         \A m \in Minutes : score'[m] + gone'[m] = score[m] + gone[m]
  PROVE  HitsInv'
<1>1. GuestType'
  BY DEF HitsInv, GuestType
<1>2. ASSUME NEW m \in Minutes PROVE hits'[m] = score'[m] + Sending(m)' + Unsent(m)' + gone'[m]
  <2>1. Sending(m)' = Sending(m) /\ Unsent(m)' = Unsent(m) /\ hits'[m] = hits[m]
    BY DEF Sending, Unsent
  <2>2. Sending(m) \in Int
    <3>1. \A h \in Guests : guest[h].amount \in Int
      BY DEF HitsInv, GuestType, Requests
    <3>2. IsFiniteSet({h \in Guests : guest[h].minute = m})
      BY GuestAssumption, FS_Subset
    <3>3. [g \in {h \in Guests : guest[h].minute = m} |-> guest[g].amount]
            \in [{h \in Guests : guest[h].minute = m} -> Int]
      BY <3>1
    <3> QED BY <3>2, <3>3, SumType DEF Sending
  <2>3. /\ Unsent(m) \in Int /\ score[m] \in Nat /\ gone[m] \in Nat /\ score'[m] \in Nat /\ gone'[m] \in Nat
    BY GuestAssumption DEF HitsInv, GuestType, Unsent
  <2>4. hits[m] = score[m] + Sending(m) + Unsent(m) + gone[m]
    BY DEF HitsInv, HitsAccounted
  <2>5. score'[m] + gone'[m] = score[m] + gone[m]
    OBVIOUS
  <2> QED BY <2>1, <2>2, <2>3, <2>4, <2>5
<1> QED BY <1>1, <1>2 DEF HitsInv, HitsAccounted

\* Every step accounts for every hit.
LEMMA HitsStep == HitsInv /\ [GuestNext]_guestVars => HitsInv'
<1> SUFFICES ASSUME HitsInv, [GuestNext]_guestVars PROVE HitsInv'
  OBVIOUS
<1>0. minute \in Minutes /\ score \in [Minutes -> Nat] /\ gone \in [Minutes -> Nat]
  BY DEF HitsInv, GuestType
<1>1. CASE UNCHANGED <<minute, counter, score, guest, hits, gone>>
  BY <1>0, <1>1, OtherStep
<1>2. CASE NextMinute
  <2>1. minute' \in Minutes
    BY <1>0, <1>2, GuestAssumption DEF NextMinute, Minutes
  <2> QED BY <1>0, <1>2, <2>1, OtherStep DEF NextMinute
<1>3. CASE RedisExpires
  <2>1. CASE UNCHANGED <<score, gone>>
    BY <1>1, <1>3, <2>1 DEF RedisExpires
  <2>2. ASSUME NEW k \in Minutes, score' = [score EXCEPT ![k] = 0],
               gone' = [gone EXCEPT ![k] = @ + score[k]]
        PROVE  HitsInv'
    <3>1. score' \in [Minutes -> Nat] /\ gone' \in [Minutes -> Nat]
      BY <1>0, <2>2
    <3>2. \A m \in Minutes : score'[m] + gone'[m] = score[m] + gone[m]
      BY <1>0, <2>2
    <3> QED BY <1>0, <1>3, <3>1, <3>2, OtherStep DEF RedisExpires
  <2> QED BY <1>3, <2>1, <2>2 DEF RedisExpires
<1>4. CASE ReadMinutes
  BY <1>1, <1>4 DEF ReadMinutes
<1>5. CASE LeaveAlone \/ Warm \/ Target
  BY <1>1, <1>5 DEF LeaveAlone, Warm, Target
<1>6. CASE UNCHANGED guestVars
  BY <1>1, <1>6 DEF guestVars
<1> QED
  BY <1>2, <1>3, <1>4, <1>5, <1>6, ArriveKeepsHits, CountKeepsHits, PrepareKeepsHits, GetKeepsHits
  DEF GuestNext

\* No hit of a guest is lost or counted twice, for any number of overlapping requests, batch
\* size, threshold and number of minutes.
THEOREM EveryHitIsAccounted == GuestSpec => []HitsAccounted
<1>1. GuestInit => HitsInv
  <2> SUFFICES ASSUME GuestInit PROVE HitsInv
    OBVIOUS
  <2>1. 0 \in Minutes /\ Away \in Requests /\ Away.amount = 0
    BY GuestAssumption DEF Minutes, Away, Requests
  <2>2. GuestType
    BY <2>1, GuestAssumption DEF GuestInit, GuestType, NoCounter
  <2>3. \A g \in Guests : guest[g] = Away
    BY DEF GuestInit
  <2>4. ASSUME NEW m \in Minutes PROVE hits[m] = score[m] + Sending(m) + Unsent(m) + gone[m]
    <3>1. hits[m] = 0 /\ score[m] = 0 /\ gone[m] = 0 /\ Unsent(m) = 0
      BY GuestAssumption DEF GuestInit, Unsent, NoCounter
    <3>2. IsFiniteSet({h \in Guests : guest[h].minute = m})
      BY GuestAssumption, FS_Subset
    <3>3. [g \in {h \in Guests : guest[h].minute = m} |-> guest[g].amount]
            \in [{h \in Guests : guest[h].minute = m} -> {0}]
      BY <2>1, <2>3
    <3>4. Sending(m) = 0
      BY <3>2, <3>3, SumOfZeros DEF Sending
    <3> QED BY <3>1, <3>4
  <2> QED BY <2>1, <2>2, <2>3, <2>4 DEF HitsInv, HitsAccounted
<1>2. HitsInv => HitsAccounted
  BY DEF HitsInv
<1> QED BY <1>1, <1>2, HitsStep, PTL DEF GuestSpec

------------------------------------------------------------------------------
(* ElasticService *)

\* What IsPrefix says, element by element.
LEMMA PrefixFacts ==
  ASSUME NEW S, NEW s \in Seq(S), NEW t \in Seq(S)
  PROVE  IsPrefix(s, s \o t) /\ IsPrefix(<<>>, s)
<1>1. /\ s \o t \in Seq(S) /\ Len(s \o t) = Len(s) + Len(t)
      /\ \A i \in 1..Len(s) + Len(t) : (s \o t)[i] = IF i <= Len(s) THEN s[i] ELSE t[i - Len(s)]
  BY ConcatProperties
<1>2. Len(s) \in Nat /\ Len(t) \in Nat
  BY LenProperties
<1>3. IsPrefix(s, s \o t)
  <2>1. \A i \in 1..Len(s) : s[i] \in S /\ (s \o t)[i] = s[i]
    BY <1>1, <1>2, ElementOfSeq
  <2>2. /\ SubSeq(s \o t, 1, Len(s)) \in Seq(S)
        /\ Len(SubSeq(s \o t, 1, Len(s))) = IF 1 <= Len(s) THEN Len(s) - 1 + 1 ELSE 0
        /\ \A i \in 1..Len(s) - 1 + 1 : SubSeq(s \o t, 1, Len(s))[i] = (s \o t)[1 + i - 1]
    BY <1>2, <2>1, SubSeqProperties
  <2>3. Len(s) - 1 + 1 = Len(s) /\ \A i \in 1..Len(s) : 1 + i - 1 = i
    BY <1>2
  <2>4. SubSeq(s \o t, 1, Len(s)) = s
    BY <1>2, <2>1, <2>2, <2>3, SeqEqual
  <2>5. SubSeq(s, 1, Len(s)) = s
    BY SubSeqFull
  <2> QED BY <1>1, <1>2, <2>4, <2>5 DEF IsPrefix
<1>4. IsPrefix(<<>>, s)
  <2>1. SubSeq(s, 1, 0) = <<>> /\ SubSeq(<<>>, 1, 0) = <<>> /\ Len(<<>>) = 0
    BY SubSeqEmpty
  <2> QED BY <1>2, <2>1 DEF IsPrefix
<1> QED BY <1>3, <1>4

\* A page and what comes after it are the whole, and a page is only empty when nothing is left.
LEMMA PageAndAfter ==
  ASSUME NEW S, NEW s \in Seq(S)
  PROVE  /\ Page(s) \in Seq(S) /\ After(s) \in Seq(S) /\ Page(s) \o After(s) = s
         /\ Page(s) = <<>> => s = <<>>
<1> DEFINE n == IF PageSize < Len(s) THEN PageSize ELSE Len(s)
<1>1. Len(s) \in Nat /\ DOMAIN s = 1..Len(s) /\ PageSize \in Nat \ {0} /\ n \in 0..Len(s)
  BY LenProperties, ElasticAssumption
<1>2. \A i \in 1..Len(s) : s[i] \in S
  BY ElementOfSeq
<1>3. Page(s) = SubSeq(s, 1, n) /\ After(s) = SubSeq(s, PageSize + 1, Len(s))
  BY DEF Page, After
<1>4. SubSeq(s, PageSize + 1, Len(s)) = SubSeq(s, n + 1, Len(s))
  <2>1. CASE PageSize < Len(s)
    BY <2>1
  <2>2. CASE ~(PageSize < Len(s))
    <3>1. /\ Len(s) < n + 1 /\ Len(s) < PageSize + 1
          /\ n + 1 \in Int /\ PageSize + 1 \in Int /\ Len(s) \in Int
      BY <1>1, <2>2
    <3>2. SubSeq(s, n + 1, Len(s)) = <<>>
      BY <3>1, SubSeqEmpty
    <3>3. SubSeq(s, PageSize + 1, Len(s)) = <<>>
      BY <3>1, SubSeqEmpty
    <3> QED BY <3>2, <3>3
  <2> QED BY <2>1, <2>2
<1> HIDE DEF n
<1>5. SubSeq(s, 1, n) \in Seq(S) /\ Len(SubSeq(s, 1, n)) = IF 1 <= n THEN n - 1 + 1 ELSE 0
  <2>1. \A i \in 1..n : s[i] \in S
    BY <1>1, <1>2
  <2> QED BY <1>1, <2>1, SubSeqProperties
<1>6. SubSeq(s, n + 1, Len(s)) \in Seq(S)
  <2>1. \A i \in n + 1..Len(s) : s[i] \in S
    BY <1>1, <1>2
  <2> QED BY <1>1, <2>1, SubSeqProperties
<1>7. SubSeq(s, 1, n) \o SubSeq(s, n + 1, Len(s)) = s
  <2>1. 1 \in 1..Len(s) + 1 /\ n \in 1 - 1..Len(s) /\ Len(s) \in n..Len(s)
    BY <1>1
  <2>2. SubSeq(s, 1, n) \o SubSeq(s, n + 1, Len(s)) = SubSeq(s, 1, Len(s))
    BY <2>1, ConcatAdjacentSubSeq
  <2> QED BY <2>2, SubSeqFull
<1>8. SubSeq(s, 1, n) = <<>> => s = <<>>
  <2>1. SubSeq(s, 1, n) = <<>> => n = 0
    BY <1>1, <1>5, EmptySeq
  <2>2. n = 0 => Len(s) = 0
    BY <1>1 DEF n
  <2>3. Len(s) = 0 => s = <<>>
    BY EmptySeq
  <2> QED BY <2>1, <2>2, <2>3
<1> QED BY <1>3, <1>4, <1>5, <1>6, <1>7, <1>8

ListerType ==
  /\ index \in Seq(Nat) /\ snapshot \in Seq(Nat) /\ unread \in Seq(Nat)
  /\ acted \in Seq(Nat) /\ page \in Seq(Nat)
  /\ lister \in {"idle", "act", "scroll", "read", "failed", "returned", "thrown"}
  /\ outages \in Nat

\* While pages are passed to action(), those it has had, the one it gets next and those that the
\* scroll still has are the snapshot.
ScrollInv ==
  /\ ListerType
  /\ ScrollIsComplete
  /\ lister = "act" => snapshot = (acted \o page) \o unread
  /\ lister = "scroll" => snapshot = acted \o unread
  /\ lister = "read" => acted = snapshot

\* No listing is under way at first.
LEMMA ScrollInit == ElasticInit => ScrollInv
<1> SUFFICES ASSUME ElasticInit PROVE ScrollInv
  OBVIOUS
<1>1. <<>> \in Seq(Nat)
  BY EmptySeq
<1>2. index \in Seq(Nat)
  BY ElasticAssumption DEF ElasticInit
<1>3. IsPrefix(<<>>, <<>>)
  BY <1>1, PrefixFacts
<1> QED BY <1>1, <1>2, <1>3 DEF ElasticInit, ScrollInv, ListerType, ScrollIsComplete

\* The first page and the scroll behind it are the snapshot.
LEMMA SearchStep == ASSUME ScrollInv, Search PROVE ScrollInv'
<1>1. /\ index \in Seq(Nat) /\ <<>> \in Seq(Nat) /\ outages \in Nat
      /\ Page(index) \in Seq(Nat) /\ After(index) \in Seq(Nat) /\ Page(index) \o After(index) = index
  BY PageAndAfter, EmptySeq DEF ScrollInv, ListerType
<1>2. <<>> \o Page(index) = Page(index)
  BY <1>1, ConcatEmptySeq
<1>3. IsPrefix(<<>>, index) /\ IsPrefix(<<>>, <<>>)
  BY <1>1, PrefixFacts
<1>4. /\ acted' = <<>> /\ index' = index
      /\ \/ /\ snapshot' = index /\ unread' = After(index)
            /\ \/ page' = Page(index) /\ lister' = "act" /\ outages' = outages
               \/ lister' = "thrown" /\ page' = <<>> /\ outages' = outages + 1
         \/ /\ lister' = "thrown" /\ page' = <<>> /\ outages' = outages + 1
            /\ snapshot' = <<>> /\ unread' = <<>>
  BY DEF Search, Outage
<1>5. ListerType'
  <2>1. outages' \in Nat /\ lister' \in {"act", "thrown"}
    BY <1>1, <1>4
  <2>2. snapshot' \in Seq(Nat) /\ unread' \in Seq(Nat) /\ page' \in Seq(Nat)
    BY <1>1, <1>4
  <2> QED BY <1>1, <1>4, <2>1, <2>2 DEF ListerType
<1>6. ScrollIsComplete'
  BY <1>1, <1>3, <1>4 DEF ScrollIsComplete
<1> QED BY <1>1, <1>2, <1>4, <1>5, <1>6 DEF ScrollInv

\* The page that is acted on is the next part of the snapshot.
LEMMA ActStep == ASSUME ScrollInv, Act PROVE ScrollInv'
<1>1. /\ ListerType /\ lister = "act" /\ snapshot = (acted \o page) \o unread
      /\ acted' = acted \o page /\ page' = <<>>
      /\ \/ lister' = "scroll" /\ outages' = outages
         \/ lister' = "failed" /\ outages' = outages + 1
      /\ UNCHANGED <<index, snapshot, unread>>
  BY DEF ScrollInv, Act, Outage
<1>2. acted' \in Seq(Nat) /\ <<>> \in Seq(Nat)
  BY <1>1, ConcatProperties, EmptySeq DEF ListerType
<1>3. IsPrefix(acted', snapshot')
  BY <1>1, <1>2, PrefixFacts DEF ListerType
<1>4. ListerType'
  BY <1>1, <1>2 DEF ListerType
<1> QED BY <1>1, <1>3, <1>4 DEF ScrollInv, ScrollIsComplete

\* The next page is what the scroll has next.
LEMMA NextPageStep == ASSUME ScrollInv, NextPage PROVE ScrollInv'
<1>1. /\ ListerType /\ lister = "scroll" /\ snapshot = acted \o unread
      /\ IsPrefix(acted, snapshot)
      /\ \/ /\ page' = Page(unread) /\ unread' = After(unread) /\ outages' = outages
            /\ lister' = IF IsLast(Page(unread)) THEN "read" ELSE "act"
         \/ /\ outages' \in {outages, outages + 1} /\ unread' \in {unread, After(unread)}
            /\ lister' = "failed" /\ page' = page
      /\ UNCHANGED <<index, snapshot, acted>>
  BY DEF ScrollInv, ScrollIsComplete, NextPage
<1>2. /\ acted \in Seq(Nat) /\ unread \in Seq(Nat)
      /\ Page(unread) \in Seq(Nat) /\ After(unread) \in Seq(Nat)
      /\ Page(unread) \o After(unread) = unread
      /\ Page(unread) = <<>> => unread = <<>>
  BY <1>1, PageAndAfter DEF ListerType
<1>3. (acted \o Page(unread)) \o After(unread) = snapshot
  <2>1. (acted \o Page(unread)) \o After(unread) = acted \o (Page(unread) \o After(unread))
    <3> DEFINE t == Page(unread)
               u == After(unread)
    <3>1. t \in Seq(Nat) /\ u \in Seq(Nat) /\ acted \in Seq(Nat)
      BY <1>2
    <3> HIDE DEF t, u
    <3>2. (acted \o t) \o u = acted \o (t \o u)
      BY <3>1, ConcatAssociative
    <3> QED BY <3>2 DEF t, u
  <2> QED BY <1>1, <1>2, <2>1
<1>4. IsLast(Page(unread)) => snapshot = acted
  BY <1>1, <1>2, ConcatEmptySeq DEF IsLast
<1>5. ListerType'
  BY <1>1, <1>2 DEF ListerType
<1> QED BY <1>1, <1>3, <1>4, <1>5 DEF ScrollInv, ScrollIsComplete

\* The scroll is deleted when it has no more.
LEMMA DeleteScrollStep == ASSUME ScrollInv, DeleteScroll PROVE ScrollInv'
<1>1. <<>> \in Seq(Nat)
  BY EmptySeq
<1>2. /\ ListerType /\ IsPrefix(acted, snapshot)
      /\ lister = "read" => acted = snapshot
      /\ outages \in Nat /\ page' = <<>>
      /\ UNCHANGED <<index, snapshot, unread, acted>>
      /\ \/ /\ scroll' = "deleted" /\ outages' = outages
            /\ \/ lister = "read" /\ lister' = "returned"
               \/ lister' = "thrown"
         \/ lister' = "thrown" /\ outages' = outages + 1
  BY DEF ScrollInv, ScrollIsComplete, DeleteScroll, Outage, ListerType
<1>3. outages' \in Nat /\ lister' \in {"returned", "thrown"}
  BY <1>2
<1>4. ListerType'
  BY <1>1, <1>2, <1>3 DEF ListerType
<1> QED BY <1>2, <1>4 DEF ScrollInv, ScrollIsComplete

\* Every step keeps the snapshot in three parts: acted on, at hand, unread.
LEMMA ScrollStep == ScrollInv /\ [ElasticNext]_elasticVars => ScrollInv'
<1> SUFFICES ASSUME ScrollInv, [ElasticNext]_elasticVars PROVE ScrollInv'
  OBVIOUS
<1>1. CASE ScrollExpires
  BY <1>1 DEF ScrollExpires, ScrollInv, ListerType, ScrollIsComplete
<1>2. CASE IndexChanges
  <2>1. index' \in Seq(Nat)
    <3>1. index \in Seq(Nat) /\ Documents + 1 \in Nat
      BY ElasticAssumption DEF ScrollInv, ListerType
    <3>2. Append(index, Documents + 1) \in Seq(Nat)
      BY <3>1, AppendProperties
    <3>3. index # <<>> => Tail(index) \in Seq(Nat)
      BY <3>1, HeadTailProperties
    <3> QED BY <1>2, <3>2, <3>3 DEF IndexChanges
  <2>2. UNCHANGED <<snapshot, unread, scroll, acted, page, lister, outages>>
    BY <1>2 DEF IndexChanges
  <2> QED BY <2>1, <2>2 DEF ScrollInv, ListerType, ScrollIsComplete
<1>3. CASE SetCustomValues
  <2>1. /\ UNCHANGED <<index, snapshot, unread, scroll, acted, page, lister>> /\ lister = "idle"
        /\ outages' \in {outages, outages + 1}
    BY <1>3 DEF SetCustomValues, Outage
  <2> QED BY <2>1 DEF ScrollInv, ListerType, ScrollIsComplete
<1>4. CASE Refresh \/ UNCHANGED elasticVars
  BY <1>4 DEF Refresh, elasticVars, ScrollInv, ListerType, ScrollIsComplete
<1> QED BY <1>1, <1>2, <1>3, <1>4, SearchStep, ActStep, NextPageStep, DeleteScrollStep DEF ElasticNext

\* For any index, page size and faults, getScrollableList() passes the snapshot to action() in its
\* order, and all of it before it returns.
THEOREM EveryDocumentIsListed == ElasticSpec => []ScrollIsComplete
<1>1. ElasticInit => ScrollInv
  BY ScrollInit
<1>2. ScrollInv /\ [ElasticNext]_elasticVars => ScrollInv'
  BY ScrollStep
<1>3. ScrollInv => ScrollIsComplete
  BY DEF ScrollInv
<1> QED BY <1>1, <1>2, <1>3, PTL DEF ElasticSpec

------------------------------------------------------------------------------
(* ElasticQuery *)

QueryType ==
  /\ condition \in [must : SUBSET SUBSET Docs, must_not : SUBSET SUBSET Docs,
                    should : SUBSET SUBSET Docs, filter : SUBSET SUBSET Docs,
                    terms : SUBSET SUBSET Docs]
  /\ wanted \in SUBSET Docs
  /\ dropped \in BOOLEAN

\* The documents that pass every condition but should.
Passing(c) == {d \in Docs : /\ \A q \in c.must \cup c.filter \cup c.terms : d \in q
                            /\ \A q \in c.must_not : d \notin q}

\* What the builder has collected so far, whether or not the query is one that Elasticsearch
\* accepts: no document that is wanted fails a condition, and unless a condition was dropped no
\* other passes them all.
QueryInv ==
  /\ QueryType
  /\ wanted \subseteq Passing(condition)
  /\ dropped \/ Passing(condition) \subseteq wanted
  /\ anyOf = UNION condition.should
  /\ \A s, t \in condition.terms : s = t

\* One more query under an option changes nothing else.
LEMMA AddedFields == ASSUME QueryType, NEW q \in SUBSET Docs PROVE
  /\ Added("must", q) = [condition EXCEPT !.must = @ \cup {q}]
  /\ Added("must_not", q) = [condition EXCEPT !.must_not = @ \cup {q}]
  /\ Added("should", q) = [condition EXCEPT !.should = @ \cup {q}]
  /\ Added("filter", q) = [condition EXCEPT !.filter = @ \cup {q}]
BY DEF Added, QueryType

\* A list of alternatives is satisfied by what satisfies one of them, an empty one by everything.
LEMMA ShouldDocsAre == ASSUME NEW queries \in SUBSET SUBSET Docs PROVE
  /\ queries # {} => ShouldDocs(queries) = UNION queries
  /\ queries = {} => ShouldDocs(queries) = Docs
<1> DEFINE b == [NoConditions EXCEPT !.should = queries]
<1>1. b.must = {} /\ b.filter = {} /\ b.must_not = {} /\ b.should = queries
  BY DEF NoConditions
<1>2. ShouldDocs(queries) =
        {d \in Docs : /\ \A q \in b.must \cup b.filter : d \in q
                      /\ \A q \in b.must_not : d \notin q
                      /\ queries # {} => \E q \in queries : d \in q}
  <2>1. CASE queries = {}
    BY <1>1, <2>1 DEF ShouldDocs, BoolDocs
  <2>2. CASE queries # {}
    BY <1>1, <2>2 DEF ShouldDocs, BoolDocs
  <2> QED BY <2>1, <2>2
<1> QED BY <1>1, <1>2

\* Every step that adds a condition keeps the documents that pass in step with those asked for.
LEMMA QueryStep == QueryInv /\ [QueryNext]_queryVars => QueryInv'
<1> SUFFICES ASSUME QueryInv, [QueryNext]_queryVars PROVE QueryInv'
  OBVIOUS
<1>0. /\ QueryType /\ wanted \subseteq Docs
      /\ condition = [must |-> condition.must, must_not |-> condition.must_not,
                      should |-> condition.should, filter |-> condition.filter,
                      terms |-> condition.terms]
  BY DEF QueryInv, QueryType
<1>a. ASSUME NEW q \in SUBSET Docs, condition' = Added("must", q) \/ condition' = Added("filter", q),
             wanted' \subseteq wanted \cap q, wanted' = wanted \cap q \/ dropped',
             dropped => dropped', dropped' \in BOOLEAN, UNCHANGED anyOf
      PROVE  QueryInv'
  <2>1. /\ condition'.must \cup condition'.filter = condition.must \cup condition.filter \cup {q}
        /\ condition'.must_not = condition.must_not /\ condition'.should = condition.should
        /\ condition'.terms = condition.terms
        /\ QueryType'
    BY <1>0, <1>a, AddedFields DEF QueryType
  <2>2. Passing(condition') = Passing(condition) \cap q
    BY <2>1 DEF Passing
  <2> QED BY <1>a, <2>1, <2>2 DEF QueryInv
<1>1. ASSUME NEW q \in SUBSET Docs, WithCondition(q) PROVE QueryInv'
  <2>1. CASE condition' = Added("must", q) /\ wanted' = wanted \cap q /\ UNCHANGED anyOf
    BY <1>1, <1>a, <2>1 DEF WithCondition, QueryInv, QueryType
  <2>2. CASE condition' = Added("must_not", q) /\ wanted' = wanted \ q /\ UNCHANGED anyOf
    <3>1. /\ condition'.must_not = condition.must_not \cup {q}
          /\ condition'.must = condition.must /\ condition'.should = condition.should
          /\ condition'.terms = condition.terms /\ condition'.filter = condition.filter
          /\ QueryType'
      BY <1>0, <1>1, <2>2, AddedFields DEF QueryType, WithCondition
    <3>2. Passing(condition') = Passing(condition) \ q
      BY <3>1 DEF Passing
    <3> QED BY <1>1, <2>2, <3>1, <3>2 DEF QueryInv, WithCondition
  <2>3. CASE condition' = Added("should", q) /\ anyOf' = anyOf \cup q /\ UNCHANGED wanted
    <3>1. /\ condition'.must_not = condition.must_not
          /\ condition'.must = condition.must /\ condition'.should = condition.should \cup {q}
          /\ condition'.terms = condition.terms /\ condition'.filter = condition.filter
          /\ QueryType'
      BY <1>0, <1>1, <2>3, AddedFields DEF QueryType, WithCondition
    <3>2. Passing(condition') = Passing(condition)
      BY <3>1 DEF Passing
    <3>3. anyOf' = UNION condition'.should
      BY <2>3, <3>1 DEF QueryInv
    <3> QED BY <1>1, <2>3, <3>1, <3>2, <3>3 DEF QueryInv, WithCondition
  <2> QED BY <1>1, <2>1, <2>2, <2>3 DEF WithCondition
<1>2. ASSUME NEW queries \in SUBSET SUBSET Docs, OneOf(queries) PROVE QueryInv'
  <2>1. /\ UNION queries \subseteq ShouldDocs(queries) /\ ShouldDocs(queries) \in SUBSET Docs
        /\ queries = {} \/ ShouldDocs(queries) = UNION queries
    BY ShouldDocsAre
  <2> QED BY <1>2, <1>a, <1>0, <2>1 DEF OneOf, QueryType
<1>3. ASSUME NEW f \in Fields, WithMustMultiShould(f) PROVE QueryInv'
  <2>1. PICK values \in SUBSET FieldValues : OneOf({MatchDocs(f, v) : v \in values})
    BY <1>3 DEF WithMustMultiShould
  <2>2. {MatchDocs(f, v) : v \in values} \in SUBSET SUBSET Docs
    BY DEF MatchDocs
  <2> QED BY <1>2, <2>1, <2>2
<1>4. ASSUME NEW keys \in SUBSET Fields, WithSearch(keys) PROVE QueryInv'
  <2>1. PICK term \in FieldValues : OneOf({MatchDocs(f, term) : f \in keys})
    BY <1>4 DEF WithSearch
  <2>2. {MatchDocs(f, term) : f \in keys} \in SUBSET SUBSET Docs
    BY DEF MatchDocs
  <2> QED BY <1>2, <2>1, <2>2
<1>5. ASSUME NEW f \in Fields, NEW low, NEW high, WithRange(f, low, high) PROVE QueryInv'
  <2>1. RangeDocs(f, low, high) \in SUBSET Docs
    BY DEF RangeDocs, ExistsDocs
  <2> QED BY <1>5, <1>a, <1>0, <2>1 DEF WithRange, QueryType
<1>6. ASSUME NEW f \in Fields, WithDateRange(f) PROVE QueryInv'
  <2>1. CASE \E low, high : WithRange(f, low, high)
    BY <1>5, <2>1
  <2>2. CASE /\ UNCHANGED <<condition, anyOf>> /\ wanted' \subseteq wanted
             /\ wanted' = wanted \/ dropped'
             /\ dropped' \in BOOLEAN /\ (dropped => dropped')
    BY <1>0, <2>2 DEF QueryInv, QueryType
  <2>3. PICK before, after \in FieldValues \cup {Missing} :
          LET high == IF before = Missing THEN Now ELSE before
              low  == IF after = Missing THEN 0 ELSE after
              nothing == before = Missing /\ after = Missing
          IN IF before \in {0, Missing} /\ after \in {0, Missing}
             THEN /\ wanted' = IF nothing THEN wanted ELSE wanted \cap RangeDocs(f, low, high)
                  /\ dropped' = (dropped \/ ~nothing)
                  /\ UNCHANGED <<condition, anyOf>>
             ELSE WithRange(f, low, high)
    BY <1>6 DEF WithDateRange
  <2> QED BY <1>0, <2>1, <2>2, <2>3 DEF QueryType
<1>7. ASSUME NEW f \in Fields, WithTerms(f) PROVE QueryInv'
  <2>1. PICK values \in SUBSET FieldValues :
          /\ condition' = [condition EXCEPT !.terms = {UNION {MatchDocs(f, v) : v \in values}}]
          /\ wanted' = wanted \cap UNION {MatchDocs(f, v) : v \in values}
          /\ dropped' = (dropped \/ condition.terms # {})
          /\ UNCHANGED anyOf
    BY <1>7 DEF WithTerms
  <2> DEFINE t == UNION {MatchDocs(f, v) : v \in values}
  <2>2. t \in SUBSET Docs
    BY DEF MatchDocs
  <2> HIDE DEF t
  <2>3. /\ condition'.must_not = condition.must_not /\ condition'.must = condition.must
        /\ condition'.should = condition.should /\ condition'.filter = condition.filter
        /\ condition'.terms = {t}
        /\ QueryType'
    BY <1>0, <2>1, <2>2 DEF QueryType, t
  <2>4. /\ Passing(condition) \cap t \subseteq Passing(condition')
        /\ condition.terms = {} => Passing(condition') = Passing(condition) \cap t
    BY <2>1, <2>3 DEF Passing
  <2>5. wanted' = wanted \cap t
    BY <2>1 DEF t
  <2> QED BY <2>1, <2>3, <2>4, <2>5 DEF QueryInv
<1>8. CASE Create
  BY <1>8 DEF Create, QueryInv, QueryType, Passing, NoConditions
<1>9. CASE UNCHANGED queryVars
  BY <1>9 DEF queryVars, QueryInv, QueryType, Passing
<1> QED
  <2>1. \A f \in Fields, v, not \in FieldValues :
          /\ MatchDocs(f, v) \in SUBSET Docs /\ ExistsDocs(f) \in SUBSET Docs
          /\ MustDocs({MatchDocs(f, v)}, {MatchDocs(f, not)}) \in SUBSET Docs
    BY DEF MatchDocs, ExistsDocs, MustDocs, BoolDocs
  <2>2. \A f \in Fields : ExistsDocs(f) \in SUBSET Docs
    BY DEF ExistsDocs
  <2> QED BY <1>1, <1>3, <1>4, <1>5, <1>6, <1>7, <1>8, <1>9, <2>1, <2>2 DEF QueryNext

\* Read as Elasticsearch reads them, the conditions find what was asked for.
LEMMA CollectedIsFound == QueryInv => QueryFindsAsked
<1> SUFFICES ASSUME QueryInv, WellFormed
             PROVE  LET asked == IF condition.should = {} THEN wanted ELSE wanted \cap anyOf
                    IN asked \subseteq ToJson /\ (ToJson \subseteq asked \/ dropped)
  BY DEF QueryFindsAsked
<1> DEFINE asked == IF condition.should = {} THEN wanted ELSE wanted \cap anyOf
           passed == IF condition.should = {} THEN Passing(condition)
                     ELSE Passing(condition) \cap UNION condition.should
<1>1. asked \subseteq passed /\ (passed \subseteq asked \/ dropped)
  BY DEF QueryInv
<1>2. ToJson = passed
  <2>1. CASE ~BoolIsEmpty
    <3>1. condition.terms = {}
      BY <2>1 DEF WellFormed
    <3>2. CASE condition.should = {}
      BY <2>1, <3>1, <3>2 DEF ToJson, BoolDocs, MinimumShouldMatch, Passing
    <3>3. CASE condition.should # {}
      BY <2>1, <3>1, <3>3 DEF ToJson, BoolDocs, MinimumShouldMatch, Passing
    <3> QED BY <3>2, <3>3
  <2>2. CASE BoolIsEmpty
    <3>1. condition.must = {} /\ condition.must_not = {} /\ condition.should = {} /\ condition.filter = {}
      BY <2>2 DEF BoolIsEmpty
    <3>2. CASE condition.terms = {}
      BY <2>2, <3>1, <3>2 DEF ToJson, Passing
    <3>3. CASE condition.terms # {}
      <4>1. PICK t \in condition.terms : condition.terms = {t} /\ t \in SUBSET Docs
        BY <3>3 DEF QueryInv, QueryType
      <4>2. Passing(condition) = t
        BY <3>1, <4>1 DEF Passing
      <4> QED BY <2>2, <3>1, <3>3, <4>1, <4>2 DEF ToJson
    <3> QED BY <3>2, <3>3
  <2> QED BY <2>1, <2>2
<1> QED BY <1>1, <1>2

\* Whatever conditions a caller adds, in whatever number and order, and whatever fields and values
\* there are: a query that Elasticsearch accepts finds what was asked for.
THEOREM EveryConditionCounts == QuerySpec => []QueryFindsAsked
<1>1. QueryInit => QueryInv
  <2> SUFFICES ASSUME QueryInit PROVE QueryInv
    OBVIOUS
  <2>1. /\ condition.must = {} /\ condition.must_not = {} /\ condition.should = {}
        /\ condition.filter = {} /\ condition.terms = {}
        /\ QueryType
    BY DEF QueryInit, QueryType, NoConditions
  <2>2. Passing(condition) = Docs
    BY <2>1 DEF Passing
  <2> QED BY <2>1, <2>2 DEF QueryInit, QueryInv
<1> QED BY <1>1, QueryStep, CollectedIsFound, PTL DEF QuerySpec

------------------------------------------------------------------------------
(* AsyncContexts *)

StackType == stack \in Seq(Resources) /\ \A i \in 1..Len(stack) : stack[i] \in live

DictType == contextDict \in Seq(SUBSET Contents)

OwnersType ==
  /\ owners \in Seq([by : Resources, at : Nat]) /\ Len(owners) = Len(contextDict)
  /\ \A i \in 1..Len(owners) : owners[i].at <= created

\* The types of what ContextsApart depends on: a context that a resource has exists.
TrackerType ==
  /\ created \in 0..MaxResources
  /\ live \subseteq 1..created
  /\ StackType
  /\ ancestors \in [Resources -> SUBSET Resources]
  /\ \A r \in Resources : r \in ancestors[r]
  /\ DictType /\ OwnersType
  /\ contextOf \in [Resources -> 0..Len(contextDict)]
  /\ tracking \in BOOLEAN

\* ContextsApart is not inductive: a new context must differ from all that are in use, those there are
\* must be older than the next resource, and while there is no hook, which would remove the entry of a
\* resource that ends, there must be none.
ApartInv ==
  /\ TrackerType
  /\ ContextsApart
  /\ ~tracking => \A r \in Resources : contextOf[r] = Absent

\* What is on the stack is a live resource.
LEMMA CurrentIsLive == TrackerType /\ stack # <<>> => Current \in live /\ Current \in Resources
BY DEF StackType, TrackerType, Current

\* The stack without its top.
LEMMA PopProperties ==
  ASSUME NEW S, NEW s \in Seq(S), NEW n \in Nat, Len(s) = n + 1
  PROVE  LET t == SubSeq(s, 1, n)
         IN t \in Seq(S) /\ Len(t) = n /\ \A i \in 1..n : t[i] = s[i]
<1>1. \A i \in 1..n : s[i] \in S
  BY LenProperties
<1>2. /\ SubSeq(s, 1, n) \in Seq(S)
      /\ Len(SubSeq(s, 1, n)) = IF 1 <= n THEN n - 1 + 1 ELSE 0
      /\ \A i \in 1..n - 1 + 1 : SubSeq(s, 1, n)[i] = s[1 + i - 1]
  BY <1>1, SubSeqProperties
<1>3. n - 1 + 1 = n /\ (1 <= n \/ n = 0) /\ \A i \in 1..n : 1 + i - 1 = i
  OBVIOUS
<1> QED
  BY <1>2, <1>3

\* An absent count is zero.
LEMMA AbsentIsNone == Absent = 0
BY DEF Absent

\* The dictionary has one entry for every resource so far.
LEMMA DictIsLong == DictType => Len(contextDict) \in Nat /\ DOMAIN contextDict = 1..Len(contextDict)
BY DEF DictType

\* What leaves the resources, their entries and the contexts alone.
LEMMA SameStack == StackType /\ UNCHANGED <<stack, live>> => StackType'
BY DEF StackType

\* The dictionary keeps its type where it does not change.
LEMMA SameDict == DictType /\ UNCHANGED contextDict => DictType'
BY DEF DictType

\* So do the tracker and its stack.
LEMMA SameTracker ==
  ASSUME ApartInv, UNCHANGED <<created, live, ancestors, trackerVars>>, StackType'
  PROVE  ApartInv'
BY SameDict DEF ApartInv, TrackerType, OwnersType, ContextsApart, trackerVars

\* The owner of the context of a resource.
LEMMA OwnerOfContext ==
  ASSUME TrackerType, NEW r \in Resources, contextOf[r] # Absent
  PROVE  /\ contextOf[r] \in 1..Len(owners)
         /\ owners[contextOf[r]].at \in Nat /\ owners[contextOf[r]].at <= created
<1>1. contextOf[r] \in 0..Len(contextDict) /\ Len(contextDict) \in Nat /\ contextOf[r] # 0
  BY DictIsLong, AbsentIsNone DEF TrackerType
<1>2. contextOf[r] \in 1..Len(owners)
  BY <1>1 DEF TrackerType, OwnersType
<1>3. owners[contextOf[r]] \in [by : Resources, at : Nat]
  BY <1>2, ElementOfSeq DEF TrackerType, OwnersType
<1> QED
  BY <1>2, <1>3 DEF TrackerType, OwnersType

\* Every step keeps the contexts of different calls apart.
LEMMA ApartStep == ApartInv /\ [AsyncNext]_asyncVars => ApartInv'
<1> SUFFICES ASSUME ApartInv, [AsyncNext]_asyncVars PROVE ApartInv'
  OBVIOUS
<1> USE AsyncAssumption DEF ApartInv
<1>a. Len(contextDict) \in Nat /\ 0 \in 0..Len(contextDict)
  BY DictIsLong DEF TrackerType
<1>b. UNCHANGED <<stack, live>> => StackType'
  BY SameStack DEF TrackerType
<1>c. UNCHANGED contextDict => DictType'
  BY SameDict DEF TrackerType
<1>1. ASSUME NEW trigger \in live \cup {Outside}, OnInit(trigger) PROVE ApartInv'
  <2> DEFINE r == created + 1
  <2>1. /\ r \in Resources /\ created' = r /\ live' = live \cup {r}
        /\ UNCHANGED <<stack, contextDict, owners, tracking>>
    BY <1>1 DEF OnInit, TrackerType, Resources
  <2>2. trigger = Outside \/ (trigger \in Resources /\ trigger # r /\ trigger # Outside)
    BY DEF TrackerType, Resources, Outside
  <2>3. contextOf[r] = Absent
    BY <2>1 DEF ContextsApart, TrackerType
  <2>4. \A s \in Resources \ {r} : contextOf'[s] = contextOf[s] /\ ancestors'[s] = ancestors[s]
    BY <1>1 DEF OnInit, TrackerType
  <2>5. \/ contextOf'[r] = Absent
        \/ /\ trigger # Outside /\ contextOf'[r] = contextOf[trigger]
           /\ ancestors'[r] = ancestors[r] \cup ancestors[trigger]
    BY <1>1, <2>1, <2>2, <2>3 DEF OnInit, Inherited, TrackerType
  <2>6. tracking \/ contextOf'[r] = Absent
    BY <1>1, <2>3 DEF OnInit
  <2>7. TrackerType'
    <3>1. contextOf' \in [Resources -> 0..Len(contextDict)]
      BY <1>1, <1>a, <2>1, <2>2, AbsentIsNone DEF OnInit, Inherited, TrackerType
    <3>5. ancestors' \in [Resources -> SUBSET Resources] /\ \A s \in Resources : s \in ancestors'[s]
      BY <1>1, <2>1, <2>2 DEF OnInit, TrackerType
    <3>6. OwnersType'
      <4>1. created <= created' /\ created \in Nat
        BY <2>1 DEF TrackerType
      <4>2. owners \in Seq([by : Resources, at : Nat])
        BY DEF TrackerType, OwnersType
      <4>3. \A i \in 1..Len(owners) : owners[i].at \in Nat
        <5>1. \A i \in 1..Len(owners) : owners[i] \in [by : Resources, at : Nat]
          BY <4>2, ElementOfSeq
        <5> QED BY <5>1
      <4> QED BY <2>1, <4>1, <4>2, <4>3 DEF TrackerType, OwnersType
    <3>2. StackType'
      BY <2>1 DEF TrackerType, StackType
    <3>3. 1..created \subseteq 1..r /\ r \in 1..r /\ r \in 0..MaxResources
      BY <2>1 DEF TrackerType, Resources
    <3>4. live' \subseteq 1..created' /\ created' \in 0..MaxResources
      BY <2>1, <3>3 DEF TrackerType
    <3> QED
      BY <1>c, <2>1, <3>1, <3>2, <3>4, <3>5, <3>6 DEF TrackerType
  <2>8. ContextsApart'
    <3>1. ASSUME NEW s \in Resources \ {r}, contextOf'[s] # Absent
          PROVE  /\ s \in live'
                 /\ LET owner == owners'[contextOf'[s]]
                    IN s = owner.by \/ (owner.by \in ancestors'[s] /\ s > owner.at)
      BY <2>1, <2>4, <3>1 DEF ContextsApart
    <3>2. ASSUME contextOf'[r] # Absent
          PROVE  LET owner == owners'[contextOf'[r]]
                 IN owner.by \in ancestors'[r] /\ r > owner.at
      <4>1. /\ trigger \in Resources /\ contextOf'[r] = contextOf[trigger]
            /\ ancestors[trigger] \subseteq ancestors'[r]
        BY <2>2, <2>5, <3>2
      <4>2. owners[contextOf[trigger]].by \in ancestors[trigger]
        BY <3>2, <4>1 DEF ContextsApart, TrackerType
      <4>3. r > owners[contextOf[trigger]].at
        <5>1. owners[contextOf[trigger]].at \in Nat /\ owners[contextOf[trigger]].at <= created
          BY <3>2, <4>1, OwnerOfContext
        <5>2. created \in Nat
          BY DEF TrackerType
        <5> QED BY <5>1, <5>2
      <4> QED BY <2>1, <4>1, <4>2, <4>3
    <3> QED
      BY <2>1, <3>1, <3>2 DEF ContextsApart
  <2> QED
    BY <2>1, <2>4, <2>6, <2>7, <2>8
<1>2. ASSUME NEW r \in live, OnBefore(r) PROVE ApartInv'
  <2>1. r \in Resources /\ stack \in Seq(Resources) /\ stack' = Append(stack, r) /\ live' = live
    <3>1. live \subseteq 1..created /\ created \in 0..MaxResources /\ stack \in Seq(Resources)
      BY DEF TrackerType, StackType
    <3>2. r \in Resources
      BY <1>2, <3>1 DEF Resources
    <3> QED BY <1>2, <3>1, <3>2 DEF OnBefore
  <2>2. /\ stack' \in Seq(Resources) /\ Len(stack') = Len(stack) + 1
        /\ \A i \in 1..Len(stack') : stack'[i] = IF i = Len(stack) + 1 THEN r ELSE stack[i]
    BY <2>1
  <2>3. StackType'
    BY <2>1, <2>2 DEF TrackerType, StackType
  <2> QED
    BY <1>2, <2>3, SameTracker DEF OnBefore
<1>3. ASSUME NEW r \in live, OnDestroy(r) PROVE ApartInv'
  <2>1. /\ r \in Resources /\ live' = live \ {r}
        /\ UNCHANGED <<created, stack, ancestors, contextDict, owners, tracking>>
    <3>1. r \in Resources
      BY DEF TrackerType, Resources
    <3> QED
      BY <1>3, <3>1 DEF OnDestroy
  <2>2. \A s \in Resources : contextOf'[s] = IF s = r THEN Absent ELSE contextOf[s]
    BY <1>3, <2>1 DEF OnDestroy, TrackerType
  <2>3. contextOf' \in [Resources -> 0..Len(contextDict)]
    BY <1>3, <1>a, AbsentIsNone DEF OnDestroy, TrackerType
  <2>4. StackType'
    BY <1>3, <2>1 DEF OnDestroy, TrackerType, StackType
  <2> QED
    BY <1>c, <2>1, <2>2, <2>3, <2>4 DEF TrackerType, OwnersType, ContextsApart
<1>4. CASE OnAfter
  <2>1. stack \in Seq(Resources) /\ Len(stack) \in Nat \ {0} /\ live' = live
        /\ stack' = SubSeq(stack, 1, Len(stack) - 1)
    BY <1>4 DEF OnAfter, TrackerType, StackType
  <2>2. /\ stack' \in Seq(Resources) /\ Len(stack') = Len(stack) - 1
        /\ \A i \in 1..Len(stack') : stack'[i] = stack[i]
    <3> DEFINE n == Len(stack) - 1
    <3>1. n \in Nat /\ Len(stack) = n + 1 /\ stack' = SubSeq(stack, 1, n)
      BY <2>1
    <3> HIDE DEF n
    <3>2. stack' \in Seq(Resources) /\ Len(stack') = n /\ \A i \in 1..n : stack'[i] = stack[i]
      BY <2>1, <3>1, PopProperties
    <3> QED
      BY <3>1, <3>2 DEF n
  <2>3. StackType'
    BY <2>1, <2>2 DEF TrackerType, StackType
  <2> QED
    BY <1>4, <2>3, SameTracker DEF OnAfter
<1>5. CASE Tick
  BY <1>5, <1>b, SameTracker DEF Tick
<1>6. ASSUME NEW contents \in Contents, Assign(contents) PROVE ApartInv'
  <2>1. Current \in live /\ Current \in Resources
    BY <1>6, CurrentIsLive DEF Assign
  <2>2. UNCHANGED <<created, live, stack, ancestors>> /\ tracking' = TRUE
    BY <1>6 DEF Assign
  <2>3. CASE contextOf[Current] = Absent
    <3> DEFINE id == Len(contextDict) + 1
    <3>1. contextDict' = Append(contextDict, {contents}) /\ contextOf' = [contextOf EXCEPT ![Current] = id]
      BY <1>6, <1>a, <2>3, DictIsLong DEF Assign, NewContext, TrackerType
    <3>2. DictType' /\ Len(contextDict') = id
      BY <3>1 DEF TrackerType, DictType
    <3>3. 0..Len(contextDict) \subseteq 0..id /\ id \in 0..id /\ id \notin 0..Len(contextDict)
      BY <1>a
    <3> HIDE DEF id
    <3>4. \A s \in Resources : contextOf[s] # id /\ contextOf'[s] = IF s = Current THEN id ELSE contextOf[s]
      BY <2>1, <3>1, <3>3 DEF TrackerType
    <3>7. owners' = Append(owners, [by |-> Current, at |-> created])
      BY <1>6, <1>a, <2>3, DictIsLong DEF Assign, NewContext, TrackerType, id
    <3>8. /\ owners' \in Seq([by : Resources, at : Nat]) /\ Len(owners') = id
          /\ owners'[id] = [by |-> Current, at |-> created]
          /\ \A i \in 1..Len(owners) : owners'[i] = owners[i]
          /\ \A i \in 1..id : i = id \/ i \in 1..Len(owners)
      <4>1. /\ owners \in Seq([by : Resources, at : Nat]) /\ Len(owners) = Len(contextDict)
            /\ created \in Nat
        BY DEF TrackerType, OwnersType
      <4> QED BY <2>1, <3>7, <4>1 DEF id
    <3>9. OwnersType'
      <4>1. created \in Nat /\ owners'[id].at = created
        BY <3>8 DEF TrackerType
      <4>2. ASSUME NEW i \in 1..Len(owners') PROVE owners'[i].at <= created'
        <5>1. i = id \/ i \in 1..Len(owners)
          BY <3>8
        <5>2. CASE i = id
          BY <2>2, <4>1, <5>2
        <5>3. CASE i \in 1..Len(owners)
          BY <2>2, <3>8, <5>3 DEF TrackerType, OwnersType
        <5> QED BY <5>1, <5>2, <5>3
      <4> QED BY <3>2, <3>8, <4>2 DEF OwnersType
    <3>5. ContextsApart'
      <4>1. ASSUME NEW s \in Resources, s # Current, contextOf[s] # Absent
            PROVE  owners'[contextOf[s]] = owners[contextOf[s]]
        BY <3>8, <4>1, OwnerOfContext
      <4> QED BY <2>1, <2>2, <3>4, <3>8, <4>1 DEF ContextsApart
    <3>6. contextOf' \in [Resources -> 0..Len(contextDict')]
      BY <3>1, <3>2, <3>3 DEF TrackerType
    <3> QED
      BY <1>b, <2>2, <3>2, <3>5, <3>6, <3>9 DEF TrackerType
  <2>4. CASE contextOf[Current] # Absent
    <3>1. contextOf[Current] \in DOMAIN contextDict
      BY <1>a, <2>1, <2>4, AbsentIsNone, DictIsLong DEF TrackerType
    <3>2. /\ contextDict' = [contextDict EXCEPT ![contextOf[Current]] = contextDict[contextOf[Current]] \cup {contents}]
          /\ contextOf' = contextOf /\ owners' = owners
      BY <1>6, <2>1, <2>4, <3>1 DEF Assign, TrackerType
    <3>3. DictType' /\ Len(contextDict') = Len(contextDict)
      BY <3>1, <3>2 DEF TrackerType, DictType
    <3> QED
      BY <1>b, <2>2, <3>2, <3>3 DEF TrackerType, OwnersType, ContextsApart
  <2> QED
    BY <2>3, <2>4
<1>7. CASE Unassign
  <2>1. Current \in Resources
    BY <1>7, CurrentIsLive DEF Unassign
  <2>2. contextOf[Current] \in DOMAIN contextDict
    BY <1>7, <1>a, <2>1, AbsentIsNone, DictIsLong DEF Unassign, TrackerType
  <2>3. DictType' /\ Len(contextDict') = Len(contextDict)
    BY <1>7, <2>2 DEF Unassign, TrackerType, DictType
  <2> QED
    BY <1>7, <1>b, <2>3 DEF Unassign, TrackerType, OwnersType, ContextsApart
<1>8. ASSUME NEW p \in Profilers, Start(p) \/ StopProfiler(p) PROVE ApartInv'
  BY <1>8, <1>b, SameTracker DEF Start, StopProfiler
<1>9. CASE Switches
  BY <1>9, <1>b, SameTracker DEF Switches
<1>10. CASE NextProcess
  <2>1. \A r \in Resources : contextOf[r] = Absent
    BY <1>10 DEF NextProcess, ContextsApart
  <2>2. DictType' /\ Len(contextDict') = 0 /\ OwnersType'
    BY <1>10 DEF NextProcess, DictType, OwnersType
  <2>3. /\ contextOf' \in [Resources -> 0..Len(contextDict')]
        /\ ancestors' \in [Resources -> SUBSET Resources] /\ \A r \in Resources : r \in ancestors'[r]
    BY <1>10, <2>1, <2>2, AbsentIsNone DEF NextProcess, TrackerType
  <2>4. live' = {} /\ created' = 0 /\ tracking' = FALSE /\ contextOf' = contextOf
    BY <1>10 DEF NextProcess
  <2>5. StackType'
    BY <1>10, <1>b DEF NextProcess
  <2>6. TrackerType'
    <3>1. 0 \in 0..MaxResources
      OBVIOUS
    <3> QED
      BY <2>2, <2>3, <2>4, <2>5, <3>1 DEF TrackerType
  <2> QED
    BY <2>1, <2>4, <2>6 DEF ContextsApart
<1>11. CASE UNCHANGED asyncVars
  BY <1>11, <1>b, SameTracker DEF asyncVars, trackerVars
<1> QED
  BY <1>1, <1>2, <1>3, <1>4, <1>5, <1>6, <1>7, <1>8, <1>9, <1>10, <1>11 DEF AsyncNext

\* At first there is one resource, without a context.
LEMMA ApartInit == AsyncInit => ApartInv
<1>1. AsyncInit => TrackerType
  <2> SUFFICES ASSUME AsyncInit PROVE TrackerType
    OBVIOUS
  <2>1. StackType /\ DictType /\ Len(contextDict) = 0 /\ OwnersType
    BY DEF AsyncInit, StackType, DictType, OwnersType
  <2>2. /\ contextOf \in [Resources -> 0..0]
        /\ ancestors \in [Resources -> SUBSET Resources] /\ \A r \in Resources : r \in ancestors[r]
    BY AbsentIsNone DEF AsyncInit
  <2>3. 0 \in 0..MaxResources
    BY AsyncAssumption
  <2> QED
    BY <2>1, <2>2, <2>3 DEF AsyncInit, TrackerType
<1> QED
  BY <1>1 DEF AsyncInit, ApartInv, ContextsApart

\* A context of ContextTracker reaches no resource but the one it was made for and those that its
\* triggers lead to afterwards, and no entry outlives its resource, in whatever order the events of any
\* number of resources arrive.
THEOREM ContextsStayApart == AsyncSpec => []ContextsApart
<1>1. ApartInv => ContextsApart
  BY DEF ApartInv
<1> QED
  BY <1>1, ApartInit, ApartStep, PTL DEF AsyncSpec

------------------------------------------------------------------------------
(* CpuProfiler *)

\* The time of a resource that no profiler has yet, if its last before event was noted in ts.
Open(ts, r, c) == IF ts[r] > 0 THEN c - ts[r] ELSE 0

\* The resources on a stack s share what is between x, the time that is counted, and y, the time
\* they ran: b[i] bounds what is counted once the innermost i have ended.
Bounded(s, ts, c, x, y) == \E b \in [0..Len(s) -> Int] :
  /\ b[0] = x
  /\ b[Len(s)] <= y
  /\ \A i \in 0..Len(s) : x <= b[i]
  /\ \A i \in 1..Len(s) : b[i - 1] + Open(ts, s[i], c) <= b[i]

CpuType ==
  /\ timestamp \in [Resources -> Nat]
  /\ duration \in [Profilers -> Int]
  /\ clock \in Nat /\ busy \in Int
  /\ gaps \in BOOLEAN
  /\ profiling \in {"none", "enabled", "disabled"}

Counted(p, q) == duration[p] + (IF p = q THEN 0 ELSE duration[q])

\* CpuTime is not inductive: the time of what is running is not counted yet, and there must be
\* room for it.  As long as the hook was never disabled, only what is running has a timestamp.
CpuInv ==
  /\ CpuType
  /\ ~gaps =>
       /\ profiling # "disabled"
       /\ profiling = "none" => \A r \in Resources : timestamp[r] = 0
       /\ \A r \in Resources : timestamp[r] <= clock
       /\ \A r \in Resources : timestamp[r] > 0 => \E i \in 1..Len(stack) : stack[i] = r
       /\ \A p, q \in Profilers : Bounded(stack, timestamp, clock, Counted(p, q), busy)

\* A timestamp that is taken away, or set to now, leaves no less room.
LEMMA BoundedLess ==
  ASSUME NEW s \in Seq(Resources), NEW c \in Int, NEW x \in Int, NEW y \in Int,
         NEW ts \in [Resources -> Nat], NEW tt \in [Resources -> Nat],
         \A i \in 1..Len(s) : Open(tt, s[i], c) <= Open(ts, s[i], c),
         Bounded(s, ts, c, x, y)
  PROVE  Bounded(s, tt, c, x, y)
<1>1. PICK b \in [0..Len(s) -> Int] :
        /\ b[0] = x /\ b[Len(s)] <= y
        /\ \A i \in 0..Len(s) : x <= b[i]
        /\ \A i \in 1..Len(s) : b[i - 1] + Open(ts, s[i], c) <= b[i]
  BY DEF Bounded
<1>2. ASSUME NEW i \in 1..Len(s) PROVE b[i - 1] + Open(tt, s[i], c) <= b[i]
  <2>0. s[i] \in Resources /\ Len(s) \in Nat
    OBVIOUS
  <2>a. i - 1 \in 0..Len(s) /\ i \in 0..Len(s)
    BY <2>0
  <2>1. b[i - 1] \in Int /\ b[i] \in Int
    BY <2>a
  <2>2. Open(ts, s[i], c) \in Int /\ Open(tt, s[i], c) \in Int
    BY <2>0 DEF Open
  <2>3. b[i - 1] + Open(ts, s[i], c) <= b[i] /\ Open(tt, s[i], c) <= Open(ts, s[i], c)
    BY <1>1
  <2> DEFINE u == b[i - 1]
             v == b[i]
             o == Open(ts, s[i], c)
             w == Open(tt, s[i], c)
  <2>4. u \in Int /\ v \in Int /\ o \in Int /\ w \in Int /\ u + o <= v /\ w <= o
    BY <2>1, <2>2, <2>3
  <2> HIDE DEF u, v, o, w
  <2>5. u + w <= v
    BY <2>4
  <2> QED BY <2>5 DEF u, v, w
<1> QED BY <1>1, <1>2 DEF Bounded

\* When time passes every resource on the stack has run.
LEMMA BoundedTick ==
  ASSUME NEW s \in Seq(Resources), NEW c \in Int, NEW x \in Int, NEW y \in Int,
         NEW ts \in [Resources -> Nat], Bounded(s, ts, c, x, y)
  PROVE  Bounded(s, ts, c + 1, x, y + Len(s))
<1>1. PICK b \in [0..Len(s) -> Int] :
        /\ b[0] = x /\ b[Len(s)] <= y
        /\ \A i \in 0..Len(s) : x <= b[i]
        /\ \A i \in 1..Len(s) : b[i - 1] + Open(ts, s[i], c) <= b[i]
  BY DEF Bounded
<1> DEFINE d == [i \in 0..Len(s) |-> b[i] + i]
<1>0. Len(s) \in Nat /\ 0 \in 0..Len(s) /\ Len(s) \in 0..Len(s)
  OBVIOUS
<1>a. d \in [0..Len(s) -> Int] /\ \A i \in 0..Len(s) : d[i] = b[i] + i /\ b[i] \in Int
  BY <1>0
<1> HIDE DEF d
<1>2. d[0] = x /\ d[Len(s)] <= y + Len(s)
  BY <1>0, <1>1, <1>a
<1>3. \A i \in 0..Len(s) : x <= d[i]
  BY <1>0, <1>1, <1>a
<1>4. ASSUME NEW i \in 1..Len(s) PROVE d[i - 1] + Open(ts, s[i], c + 1) <= d[i]
  <2>0. s[i] \in Resources /\ i - 1 \in 0..Len(s) /\ i \in 0..Len(s)
    BY <1>0
  <2>1. b[i - 1] \in Int /\ b[i] \in Int /\ d[i - 1] = b[i - 1] + (i - 1) /\ d[i] = b[i] + i
    BY <1>a, <2>0
  <2>2. Open(ts, s[i], c) \in Int /\ Open(ts, s[i], c + 1) \in Int /\ Open(ts, s[i], c + 1) <= Open(ts, s[i], c) + 1
    BY <2>0 DEF Open
  <2>3. b[i - 1] + Open(ts, s[i], c) <= b[i]
    BY <1>1
  <2>4. \A u, v, o, w \in Int : u + o <= v /\ w <= o + 1 => u + (i - 1) + w <= v + i
    BY <1>0
  <2> QED BY <2>1, <2>2, <2>3, <2>4
<1> QED BY <1>a, <1>2, <1>3, <1>4 DEF Bounded

\* A resource that begins to run has nothing to count yet.
LEMMA BoundedPush ==
  ASSUME NEW s \in Seq(Resources), NEW c \in Int, NEW x \in Int, NEW y \in Int,
         NEW ts \in [Resources -> Nat], NEW r \in Resources, Open(ts, r, c) = 0,
         Bounded(s, ts, c, x, y)
  PROVE  Bounded(Append(s, r), ts, c, x, y)
<1>1. PICK b \in [0..Len(s) -> Int] :
        /\ b[0] = x /\ b[Len(s)] <= y
        /\ \A i \in 0..Len(s) : x <= b[i]
        /\ \A i \in 1..Len(s) : b[i - 1] + Open(ts, s[i], c) <= b[i]
  BY DEF Bounded
<1> DEFINE n == Len(s)
           d == [i \in 0..n + 1 |-> IF i = n + 1 THEN b[n] ELSE b[i]]
<1>2. /\ n \in Nat /\ Len(Append(s, r)) = n + 1
      /\ \A i \in 1..n + 1 : Append(s, r)[i] = IF i = n + 1 THEN r ELSE s[i]
  <2>1. n \in Nat /\ Len(Append(s, r)) = n + 1 /\ Append(s, r)[n + 1] = r
    BY AppendProperties, LenProperties
  <2>2. \A i \in 1..n : Append(s, r)[i] = s[i]
    BY AppendProperties
  <2>3. \A i \in 1..n + 1 : i # n + 1 => i \in 1..n
    BY <2>1
  <2> QED BY <2>1, <2>2, <2>3
<1>3. /\ d \in [0..n + 1 -> Int]
      /\ \A i \in 0..n : d[i] = b[i]
      /\ d[n + 1] = b[n] /\ b[n] \in Int
  BY <1>2
<1>4. d[0] = x /\ d[n + 1] <= y /\ \A i \in 0..n + 1 : x <= d[i]
  BY <1>1, <1>2, <1>3
<1>5. ASSUME NEW i \in 1..n + 1 PROVE d[i - 1] + Open(ts, Append(s, r)[i], c) <= d[i]
  <2>1. CASE i = n + 1
    BY <1>2, <1>3, <2>1
  <2>2. CASE i \in 1..n
    BY <1>1, <1>2, <1>3, <2>2
  <2> QED BY <1>2, <2>1, <2>2
<1> HIDE DEF d
<1> QED BY <1>2, <1>3, <1>4, <1>5 DEF Bounded

\* The time of a resource that ends may be counted.
LEMMA BoundedPop ==
  ASSUME NEW s \in Seq(Resources), NEW c \in Int, NEW x \in Int, NEW y \in Int, NEW d \in Nat,
         NEW ts \in [Resources -> Nat], NEW t \in Seq(Resources), Len(s) = Len(t) + 1,
         \A i \in 1..Len(t) : t[i] = s[i],
         d <= Open(ts, s[Len(s)], c),
         Bounded(s, ts, c, x, y)
  PROVE  Bounded(t, ts, c, x + d, y)
<1>1. PICK b \in [0..Len(s) -> Int] :
        /\ b[0] = x /\ b[Len(s)] <= y
        /\ \A i \in 0..Len(s) : x <= b[i]
        /\ \A i \in 1..Len(s) : b[i - 1] + Open(ts, s[i], c) <= b[i]
  BY DEF Bounded
<1> DEFINE n == Len(t)
           e == [i \in 0..n |-> b[i] + d]
<1>2. n \in Nat /\ Len(s) = n + 1 /\ s[n + 1] \in Resources
  OBVIOUS
<1>b. \A i \in 0..n : i \in 0..Len(s)
  BY <1>2
<1>a. \A i \in 0..n : b[i] \in Int
  BY <1>b
<1>3. e \in [0..n -> Int] /\ \A i \in 0..n : e[i] = b[i] + d /\ b[i] \in Int
  BY <1>a
<1> HIDE DEF e
<1>4. e[0] = x + d /\ \A i \in 0..n : x + d <= e[i]
  BY <1>1, <1>2, <1>3
<1>5. e[n] <= y
  <2>0. PICK k \in 1..Len(s) : k = n + 1
    BY <1>2
  <2>a. b[k - 1] + Open(ts, s[k], c) <= b[k] /\ b[Len(s)] <= y
    BY <1>1
  <2>b. k - 1 = n /\ k = Len(s)
    BY <1>2, <2>0
  <2>1. b[n] + Open(ts, s[n + 1], c) <= b[n + 1] /\ b[n + 1] <= y
    BY <2>0, <2>a, <2>b
  <2>2. Open(ts, s[n + 1], c) \in Int /\ b[n + 1] \in Int
    BY <1>2 DEF Open
  <2>3. n \in 0..n /\ b[n] \in Int /\ e[n] = b[n] + d /\ d <= Open(ts, s[n + 1], c)
    BY <1>2, <1>3
  <2> QED BY <2>1, <2>2, <2>3
<1>6. ASSUME NEW i \in 1..n PROVE e[i - 1] + Open(ts, t[i], c) <= e[i]
  <2>1. b[i - 1] + Open(ts, s[i], c) <= b[i] /\ t[i] = s[i] /\ s[i] \in Resources
    BY <1>1, <1>2
  <2>2. Open(ts, s[i], c) \in Int
    BY <2>1 DEF Open
  <2>a. i \in 0..n /\ i - 1 \in 0..n
    BY <1>2
  <2>3. /\ b[i] \in Int /\ b[i - 1] \in Int
        /\ e[i] = b[i] + d /\ e[i - 1] = b[i - 1] + d
    BY <1>3, <2>a
  <2>4. \A u, v, o \in Int : u + o <= v => u + d + o <= v + d
    OBVIOUS
  <2> QED BY <2>1, <2>2, <2>3, <2>4
<1> QED BY <1>2, <1>3, <1>4, <1>5, <1>6 DEF Bounded

\* With no timestamp nothing is left to count.
LEMMA BoundedNew ==
  ASSUME NEW s \in Seq(Resources), NEW c \in Int, NEW ts \in [Resources -> Nat],
         \A r \in Resources : ts[r] = 0
  PROVE  Bounded(s, ts, c, 0, 0)
<1> DEFINE b == [i \in 0..Len(s) |-> 0]
<1>1. b \in [0..Len(s) -> Int] /\ b[0] = 0 /\ b[Len(s)] <= 0
  OBVIOUS
<1>2. \A i \in 0..Len(s) : 0 <= b[i]
  OBVIOUS
<1>3. \A i \in 1..Len(s) : b[i - 1] + Open(ts, s[i], c) <= b[i]
  BY DEF Open
<1> HIDE DEF b
<1> QED BY <1>1, <1>2, <1>3 DEF Bounded

\* What a profiler has counted is a number.
LEMMA CountedType == CpuType => \A p, q \in Profilers : Counted(p, q) \in Int
BY DEF CpuType, Counted

\* What neither counts, nor lets time pass, nor takes up or lays down a resource.
LEMMA CpuSame ==
  ASSUME ApartInv, CpuInv, CpuType', UNCHANGED <<stack, duration, clock, busy>>, gaps => gaps',
         ~gaps' => /\ profiling' # "disabled"
                   /\ profiling' = "none" => profiling = "none"
                   /\ \A r \in Resources : timestamp'[r] \in {timestamp[r], 0}
  PROVE  CpuInv'
<1> SUFFICES ASSUME ~gaps'
             PROVE  /\ profiling' = "none" => \A r \in Resources : timestamp'[r] = 0
                    /\ \A r \in Resources : timestamp'[r] <= clock
                    /\ \A r \in Resources : timestamp'[r] > 0 => \E i \in 1..Len(stack) : stack[i] = r
                    /\ \A p, q \in Profilers : Bounded(stack, timestamp', clock, Counted(p, q), busy)
  BY DEF CpuInv, Counted
<1>1. /\ stack \in Seq(Resources) /\ timestamp \in [Resources -> Nat] /\ timestamp' \in [Resources -> Nat]
      /\ clock \in Nat /\ busy \in Int
  BY DEF ApartInv, TrackerType, StackType, CpuInv, CpuType
<1>2. \A i \in 1..Len(stack) : Open(timestamp', stack[i], clock) <= Open(timestamp, stack[i], clock)
  <2>1. SUFFICES ASSUME NEW r \in Resources PROVE Open(timestamp', r, clock) <= Open(timestamp, r, clock)
    BY <1>1
  <2>2. timestamp'[r] \in {timestamp[r], 0} /\ timestamp[r] <= clock /\ timestamp[r] \in Nat
    BY <1>1 DEF CpuInv
  <2> QED BY <1>1, <2>2 DEF Open
<1>3. ASSUME NEW p \in Profilers, NEW q \in Profilers
      PROVE  Bounded(stack, timestamp', clock, Counted(p, q), busy)
  <2>1. Counted(p, q) \in Int /\ clock \in Int /\ Bounded(stack, timestamp, clock, Counted(p, q), busy)
    BY <1>1, CountedType DEF CpuInv
  <2> QED BY <1>1, <1>2, <2>1, BoundedLess
<1>4. \A r \in Resources :
        timestamp'[r] \in {timestamp[r], 0} /\ timestamp[r] \in Nat /\ timestamp[r] <= clock
  BY <1>1 DEF CpuInv
<1>5. /\ profiling' = "none" => \A r \in Resources : timestamp'[r] = 0
      /\ \A r \in Resources : timestamp'[r] <= clock
  BY <1>1, <1>4 DEF CpuInv
<1>6. \A r \in Resources : timestamp'[r] > 0 => \E i \in 1..Len(stack) : stack[i] = r
  <2>1. \A r \in Resources : timestamp'[r] > 0 => timestamp[r] > 0
    BY <1>4
  <2> QED BY <2>1 DEF CpuInv
<1> QED BY <1>3, <1>5, <1>6

\* Every step keeps the counted time within the time of the stack.
LEMMA CpuStep == ApartInv /\ CpuInv /\ [AsyncNext]_asyncVars => CpuInv'
<1> SUFFICES ASSUME ApartInv, CpuInv, [AsyncNext]_asyncVars PROVE CpuInv'
  OBVIOUS
<1>0. /\ stack \in Seq(Resources) /\ Len(stack) \in Nat /\ live \subseteq Resources
      /\ CpuType
      /\ \A p, q \in Profilers : Counted(p, q) \in Int
  BY CountedType, AsyncAssumption DEF ApartInv, TrackerType, StackType, CpuInv, Resources
<1>1. ASSUME NEW trigger, OnInit(trigger) PROVE CpuInv'
  <2>1. CpuType'
    BY <1>0, <1>1 DEF OnInit, CpuType
  <2> QED BY <1>1, <2>1, CpuSame DEF OnInit, CpuInv, CpuType
<1>2. ASSUME NEW r \in live, OnBefore(r) PROVE CpuInv'
  <2>1. CpuType'
    BY <1>0, <1>2 DEF OnBefore, CpuType
  <2>2. CASE gaps
    BY <1>2, <2>1, <2>2 DEF OnBefore, CpuInv
  <2>3. CASE ~gaps
    <3>1. /\ timestamp' \in [Resources -> Nat] /\ timestamp \in [Resources -> Nat] /\ clock \in Nat /\ busy \in Int
          /\ r \in Resources
      BY <1>0, <2>1 DEF CpuType
    <3>2. /\ \A u \in Resources : timestamp[u] <= clock
          /\ \A u \in Resources : timestamp[u] > 0 => \E i \in 1..Len(stack) : stack[i] = u
          /\ profiling = "none" => \A u \in Resources : timestamp[u] = 0
      BY <2>3 DEF CpuInv
    <3>3. timestamp[r] = 0
      BY <1>0, <1>2, <3>1, <3>2 DEF OnBefore
    <3>4. \A u \in Resources : timestamp'[u] = timestamp[u] \/ (u = r /\ timestamp'[u] = clock /\ profiling = "enabled")
      BY <1>2, <3>1 DEF OnBefore
    <3>5. /\ stack' \in Seq(Resources) /\ Len(stack') = Len(stack) + 1 /\ stack' = Append(stack, r)
          /\ stack'[Len(stack) + 1] = r
          /\ \A i \in 1..Len(stack) : stack'[i] = stack[i]
      BY <1>0, <1>2, <3>1 DEF OnBefore
    <3>6. \A i \in 1..Len(stack) : Open(timestamp', stack[i], clock) <= Open(timestamp, stack[i], clock)
      <4>1. SUFFICES ASSUME NEW u \in Resources PROVE Open(timestamp', u, clock) <= Open(timestamp, u, clock)
        BY <1>0
      <4> QED BY <3>1, <3>2, <3>3, <3>4 DEF Open
    <3>7. Open(timestamp', r, clock) = 0
      BY <3>1, <3>3, <3>4 DEF Open
    <3>8. ASSUME NEW p \in Profilers, NEW q \in Profilers
          PROVE  Bounded(stack', timestamp', clock, Counted(p, q), busy)
      <4>1. Bounded(stack, timestamp, clock, Counted(p, q), busy)
        BY <2>3 DEF CpuInv
      <4>2. Counted(p, q) \in Int /\ clock \in Int /\ stack \in Seq(Resources)
        BY <1>0, <3>1
      <4>3. Bounded(stack, timestamp', clock, Counted(p, q), busy)
        BY <3>1, <3>6, <4>1, <4>2, BoundedLess
      <4>4. Bounded(Append(stack, r), timestamp', clock, Counted(p, q), busy)
        BY <3>1, <3>7, <4>2, <4>3, BoundedPush
      <4> QED BY <3>5, <4>4
    <3>9. ASSUME NEW u \in Resources, timestamp'[u] > 0 PROVE \E i \in 1..Len(stack') : stack'[i] = u
      <4>1. CASE u = r
        BY <1>0, <3>5, <4>1
      <4>2. CASE u # r
        <5>1. PICK i \in 1..Len(stack) : stack[i] = u
          BY <3>2, <3>4, <3>9, <4>2
        <5>2. i \in 1..Len(stack') /\ stack'[i] = u
          BY <1>0, <3>5, <5>1
        <5> QED BY <5>2
      <4> QED BY <4>1, <4>2
    <3>10. UNCHANGED <<duration, clock, busy, profiling, gaps>>
      BY <1>2 DEF OnBefore
    <3> QED BY <2>1, <2>3, <3>1, <3>2, <3>4, <3>8, <3>9, <3>10 DEF CpuInv, Counted
  <2> QED BY <2>2, <2>3
<1>3. ASSUME NEW r \in live, OnDestroy(r) PROVE CpuInv'
  <2>0. timestamp' = timestamp \/ timestamp' = [timestamp EXCEPT ![r] = 0]
    BY <1>3 DEF OnDestroy
  <2>1. CpuType'
    BY <1>0, <1>3, <2>0 DEF OnDestroy, CpuType
  <2>2. \A u \in Resources : timestamp'[u] \in {timestamp[u], 0}
    BY <1>0, <2>0 DEF CpuType
  <2> QED BY <1>3, <2>1, <2>2, CpuSame DEF OnDestroy, CpuInv
<1>4. CASE OnAfter
  <2>0. /\ stack # <<>> /\ Current \in Resources /\ Current = stack[Len(stack)] /\ Len(stack) >= 1
        /\ UNCHANGED <<clock, busy, profiling, gaps>>
        /\ clock \in Nat /\ busy \in Int /\ timestamp \in [Resources -> Nat] /\ duration \in [Profilers -> Int]
    BY <1>0, <1>4 DEF OnAfter, Current, CpuType
  <2>1. CpuType'
    <3>1. timestamp' \in [Resources -> Nat]
      BY <1>4, <2>0 DEF OnAfter
    <3>2. duration' \in [Profilers -> Int]
      BY <1>4, <2>0 DEF OnAfter
    <3> QED BY <1>0, <2>0, <3>1, <3>2 DEF CpuType
  <2>2. /\ stack' \in Seq(Resources) /\ Len(stack) = Len(stack') + 1
        /\ \A i \in 1..Len(stack') : stack'[i] = stack[i]
    <3> DEFINE n == Len(stack) - 1
    <3>1. n \in Nat /\ Len(stack) = n + 1 /\ stack' = SubSeq(stack, 1, n)
      BY <1>0, <1>4, <2>0 DEF OnAfter
    <3> HIDE DEF n
    <3> QED BY <1>0, <3>1, PopProperties
  <2>3. CASE gaps
    BY <2>0, <2>1, <2>3 DEF CpuInv
  <2>4. CASE ~gaps
    <3>1. /\ \A u \in Resources : timestamp[u] <= clock
          /\ \A u \in Resources : timestamp[u] > 0 => \E i \in 1..Len(stack) : stack[i] = u
          /\ profiling = "none" => \A u \in Resources : timestamp[u] = 0
          /\ profiling \in {"none", "enabled"}
      BY <1>0, <2>4 DEF CpuInv, CpuType
    <3>2. \A u \in Resources : timestamp'[u] = IF u = Current THEN 0 ELSE timestamp[u]
      BY <1>4, <2>0, <3>1 DEF OnAfter
    <3>3. timestamp' \in [Resources -> Nat] /\ duration' \in [Profilers -> Int]
      BY <2>1 DEF CpuType
    <3>4. \A i \in 1..Len(stack') : Open(timestamp', stack'[i], clock) <= Open(timestamp, stack'[i], clock)
      <4>1. SUFFICES ASSUME NEW u \in Resources PROVE Open(timestamp', u, clock) <= Open(timestamp, u, clock)
        BY <2>2
      <4> QED BY <2>0, <3>1, <3>2 DEF Open
    <3>5. ASSUME NEW p \in Profilers, NEW q \in Profilers
          PROVE  Bounded(stack', timestamp', clock, Counted(p, q)', busy)
      <4> DEFINE t == clock - timestamp[Current]
      <4>1. t \in Nat
        BY <2>0, <3>1
      <4>2. ASSUME NEW u \in Profilers
            PROVE  duration'[u] = IF profiling = "enabled" /\ Counts(Current) /\ u = profilerOf[Current]
                                  THEN duration[u] + t ELSE duration[u]
        BY <1>4, <2>0, <4>2 DEF OnAfter
      <4>3. timestamp[Current] \in Nat /\ (Counts(Current) => Open(timestamp, Current, clock) = t)
            /\ 0 <= Open(timestamp, Current, clock)
        BY <2>0, <3>1 DEF Counts, Open
      <4> HIDE DEF t
      <4>4. PICK d \in Nat : d <= Open(timestamp, Current, clock) /\ Counted(p, q)' = Counted(p, q) + d
        <5>1. CASE Counted(p, q)' = Counted(p, q)
          BY <1>0, <4>3, <5>1
        <5>2. CASE Counted(p, q)' = Counted(p, q) + t /\ Counts(Current)
          BY <4>1, <4>3, <5>2
        <5>3. duration[p] \in Int /\ duration[q] \in Int
          BY <2>0
        <5> QED BY <4>1, <4>2, <5>1, <5>2, <5>3 DEF Counted
      <4>5. Bounded(stack, timestamp, clock, Counted(p, q), busy)
        BY <2>4 DEF CpuInv
      <4>6. Counted(p, q) \in Int /\ Counted(p, q) + d \in Int /\ clock \in Int /\ stack \in Seq(Resources)
        BY <1>0, <2>0
      <4>7. d <= Open(timestamp, stack[Len(stack)], clock)
        BY <2>0, <4>4
      <4>8. Bounded(stack', timestamp, clock, Counted(p, q) + d, busy)
        BY <2>0, <2>2, <4>5, <4>6, <4>7, BoundedPop
      <4>9. Bounded(stack', timestamp', clock, Counted(p, q) + d, busy)
        BY <2>0, <2>2, <3>3, <3>4, <4>6, <4>8, BoundedLess
      <4> QED BY <4>4, <4>9
    <3>6. \A u \in Resources : timestamp'[u] > 0 => \E i \in 1..Len(stack') : stack'[i] = u
      <4>1. SUFFICES ASSUME NEW u \in Resources, timestamp'[u] > 0 PROVE \E i \in 1..Len(stack') : stack'[i] = u
        OBVIOUS
      <4>2. PICK i \in 1..Len(stack) : stack[i] = u
        BY <3>1, <3>2, <4>1
      <4>3. i # Len(stack)
        BY <2>0, <3>2, <4>1, <4>2
      <4> QED BY <1>0, <2>2, <4>2, <4>3
    <3>7. \A u \in Resources : timestamp'[u] <= clock /\ (timestamp[u] = 0 => timestamp'[u] = 0)
      BY <2>0, <3>1, <3>2
    <3>8. \A p, q \in Profilers : Bounded(stack, timestamp, clock, Counted(p, q), busy)'
      BY <2>0, <3>5
    <3> QED BY <2>0, <2>1, <2>4, <3>1, <3>6, <3>7, <3>8 DEF CpuInv
  <2> QED BY <2>3, <2>4
<1>5. CASE Tick
  <2>1. UNCHANGED <<stack, duration, timestamp, profiling, gaps>> /\ clock' = clock + 1 /\ busy' = busy + Len(stack)
    BY <1>5 DEF Tick, profilerVars
  <2>2. CpuType'
    BY <1>0, <2>1 DEF CpuType
  <2>3. ASSUME NEW p \in Profilers, NEW q \in Profilers, ~gaps
        PROVE  Bounded(stack, timestamp, clock + 1, Counted(p, q), busy + Len(stack))
    BY <1>0, <2>3, BoundedTick DEF CpuInv, CpuType
  <2>4. ~gaps => \A r \in Resources : timestamp[r] <= clock + 1
    BY <1>0 DEF CpuInv, CpuType
  <2> QED BY <2>1, <2>2, <2>3, <2>4 DEF CpuInv, Counted
<1>6. ASSUME NEW contents, Assign(contents) PROVE CpuInv'
  BY <1>0, <1>6, CpuSame DEF Assign, CpuInv, CpuType, profilerVars
<1>7. CASE Unassign
  BY <1>0, <1>7, CpuSame DEF Unassign, CpuInv, CpuType, profilerVars
<1>8. ASSUME NEW p \in Profilers, Start(p) PROVE CpuInv'
  <2>1. Current \in Resources
    BY <1>8, CurrentIsLive DEF Start, ApartInv
  <2>2. CpuType' /\ \A u \in Resources : timestamp'[u] \in {timestamp[u], 0}
    BY <1>0, <1>8, <2>1 DEF Start, CpuType
  <2>3. /\ profiling' # "none" /\ gaps' = gaps
        /\ profiling # "disabled" => profiling' # "disabled"
        /\ UNCHANGED <<stack, duration, clock, busy>>
    BY <1>8 DEF Start
  <2> QED BY <2>2, <2>3, CpuSame DEF CpuInv
<1>9. ASSUME NEW p \in Profilers, StopProfiler(p) PROVE CpuInv'
  BY <1>0, <1>9, CpuSame DEF StopProfiler, CpuInv, CpuType
<1>10. CASE Switches
  <2>1. CpuType' /\ (~gaps' => profiling' # "disabled") /\ profiling' # "none" /\ (gaps => gaps')
    BY <1>0, <1>10 DEF Switches, CpuType
  <2> QED BY <1>10, <2>1, CpuSame DEF Switches
<1>11. CASE NextProcess
  <2>1. /\ timestamp' = [r \in Resources |-> 0] /\ duration' = [p \in Profilers |-> 0]
        /\ profiling' = "none" /\ gaps' = FALSE /\ clock' = 1 /\ busy' = 0 /\ stack' = stack
    BY <1>11 DEF NextProcess
  <2>2. CpuType'
    <3>1. timestamp' \in [Resources -> Nat] /\ duration' \in [Profilers -> Int]
      BY <2>1
    <3>2. gaps' \in BOOLEAN /\ profiling' \in {"none", "enabled", "disabled"}
      BY <2>1
    <3> QED BY <2>1, <3>1, <3>2 DEF CpuType
  <2>a. timestamp' \in [Resources -> Nat] /\ \A r \in Resources : timestamp'[r] = 0
    BY <2>1
  <2>3. Bounded(stack, timestamp', 1, 0, 0)
    BY <1>0, <2>1, <2>a, BoundedNew
  <2>4. \A p, q \in Profilers : Counted(p, q)' = 0
    BY <2>1 DEF Counted
  <2> QED BY <2>1, <2>2, <2>3, <2>4 DEF CpuInv
<1>12. CASE UNCHANGED asyncVars
  BY <1>12 DEF asyncVars, CpuInv, CpuType, Counted
<1> QED
  BY <1>1, <1>2, <1>3, <1>4, <1>5, <1>6, <1>7, <1>8, <1>9, <1>10, <1>11, <1>12 DEF AsyncNext

\* Unless the profilers were switched off on the way, what two of them count together never
\* exceeds the time in which the resources ran, for any number of resources and profilers,
\* however deep resources run within one another.
THEOREM NoTimeCountedTwice == AsyncSpec => []CpuTime
<1>1. AsyncInit => ApartInv /\ CpuInv
  <2> SUFFICES ASSUME AsyncInit PROVE ApartInv /\ CpuInv
    OBVIOUS
  <2>1. ApartInv
    BY ApartInit
  <2>a. timestamp \in [Resources -> Nat] /\ duration \in [Profilers -> Int]
    BY DEF AsyncInit
  <2>c. gaps \in BOOLEAN /\ profiling \in {"none", "enabled", "disabled"}
    BY DEF AsyncInit
  <2>2. CpuType /\ \A r \in Resources : timestamp[r] = 0
    BY <2>a, <2>c DEF AsyncInit, CpuType
  <2>b. stack \in Seq(Resources) /\ clock \in Int
    BY <2>1, <2>2 DEF ApartInv, TrackerType, StackType, CpuType
  <2>3. Bounded(stack, timestamp, clock, 0, 0)
    BY <2>a, <2>2, <2>b, BoundedNew
  <2>4. /\ \A p, q \in Profilers : Counted(p, q) = 0
        /\ busy = 0 /\ clock = 1 /\ profiling = "none"
    BY DEF AsyncInit, Counted
  <2> QED BY <2>1, <2>2, <2>3, <2>4 DEF CpuInv
<1>2. ApartInv /\ CpuInv => CpuTime
  <2> SUFFICES ASSUME ApartInv, CpuInv, ~gaps, NEW p \in Profilers, NEW q \in Profilers
               PROVE  Counted(p, q) <= busy
    BY DEF CpuTime, Counted
  <2>1. PICK b \in [0..Len(stack) -> Int] :
          /\ b[Len(stack)] <= busy
          /\ \A i \in 0..Len(stack) : Counted(p, q) <= b[i]
    BY DEF CpuInv, Bounded
  <2>2. Len(stack) \in 0..Len(stack)
    BY DEF ApartInv, TrackerType, StackType
  <2>3. b[Len(stack)] \in Int /\ Counted(p, q) <= b[Len(stack)]
    BY <2>1, <2>2
  <2>4. Counted(p, q) \in Int /\ busy \in Int
    BY DEF CpuInv, CpuType, Counted
  <2> QED BY <2>1, <2>3, <2>4
<1> QED
  BY <1>1, <1>2, ApartStep, CpuStep, PTL DEF AsyncSpec

------------------------------------------------------------------------------
(* ArrayExtensions *)

\* One round of remove() leaves an array.
LEMMA RemoveFirstType ==
  ASSUME NEW X, NEW s \in Seq(X), NEW x
  PROVE  RemoveFirst(s, x) \in Seq(X)
<1> DEFINE I == {i \in 1..Len(s) : s[i] = x}
<1>1. CASE \E i \in 1..Len(s) : s[i] = x
  <2>1. RemoveFirst(s, x) = RemoveAt(s, Min(I))
    BY <1>1 DEF RemoveFirst, SelectInSeq
  <2>2. Min(I) \in I
    <3>1. I \subseteq Nat /\ I # {}
      BY <1>1
    <3> HIDE DEF I
    <3>2. PICK n \in I : \A k \in I : ~(<<k, n>> \in OpToRel(<, Nat))
      BY <3>1, WFMin, NatLessThanWellFounded, Zenon
    <3>3. ASSUME NEW k \in I PROVE n <= k
      <4>1. ~(k < n)
        BY <3>1, <3>2 DEF OpToRel
      <4> QED BY <3>1, <4>1
    <3> QED BY <3>3 DEF Min
  <2> HIDE DEF I
  <2>3. Min(I) \in 1..Len(s)
    BY <2>2 DEF I
  <2>4. \A k \in 1..Len(s) : RemoveAt(s, k) \in Seq(X)
    BY SubSeqProperties, ConcatProperties DEF RemoveAt
  <2> QED BY <2>1, <2>3, <2>4
<1>2. CASE ~\E i \in 1..Len(s) : s[i] = x
  BY <1>2 DEF RemoveFirst
<1> QED BY <1>1, <1>2

\* remove() leaves an array: its loop runs as often as the array is long, and takes one element or none
\* in each round.
LEMMA RemovedType ==
  ASSUME NEW X, NEW s \in Seq(X), NEW x
  PROVE  Removed(s, x) \in Seq(X)
<1> DEFINE step(f, m) == IF m = 0 THEN s ELSE RemoveFirst(f[m - 1], x)
           Fits(f, n) == \A m \in 0..n : f[m] \in Seq(X) /\ f[m] = step(f, m)
           N == {n \in Nat : \E f : Fits(f, n) /\ f = [m \in 0..n |-> f[m]]}
<1>0. Len(s) \in Nat
  OBVIOUS
<1>1. 0 \in N
  <2>1. 0..0 = {0}
    OBVIOUS
  <2> DEFINE f == [m \in 0..0 |-> s]
  <2>2. f[0] = s /\ f = [m \in 0..0 |-> f[m]]
    BY <2>1
  <2> HIDE DEF f
  <2> QED BY <2>1, <2>2
<1>2. ASSUME NEW n \in N PROVE n + 1 \in N
  <2>1. n \in Nat /\ 0..n + 1 = 0..n \cup {n + 1} /\ n + 1 \notin 0..n /\ n \in 0..n
    OBVIOUS
  <2>2. PICK f : Fits(f, n) /\ f = [m \in 0..n |-> f[m]]
    OBVIOUS
  <2> DEFINE g == [m \in 0..n + 1 |-> IF m = n + 1 THEN RemoveFirst(f[n], x) ELSE f[m]]
  <2>3. g[n + 1] = RemoveFirst(f[n], x) /\ (\A m \in 0..n : g[m] = f[m]) /\ g = [m \in 0..n + 1 |-> g[m]]
    BY <2>1
  <2> HIDE DEF g
  <2>4. g[n + 1] \in Seq(X) /\ g[n + 1] = step(g, n + 1)
    <3>1. f[n] \in Seq(X)
      BY <2>1, <2>2
    <3>2. PICK k : k = n + 1
      OBVIOUS
    <3>3. k # 0 /\ k - 1 = n
      BY <2>1, <3>2
    <3>4. g[k] = step(g, k)
      BY <2>1, <2>3, <3>2, <3>3
    <3>5. RemoveFirst(f[n], x) \in Seq(X)
      BY <3>1, RemoveFirstType
    <3> HIDE DEF step
    <3> QED BY <2>3, <3>2, <3>4, <3>5
  <2>5. ASSUME NEW m \in 0..n PROVE g[m] \in Seq(X) /\ g[m] = step(g, m)
    <3>1. f[m] \in Seq(X) /\ f[m] = step(f, m)
      BY <2>2
    <3>2. m = 0 \/ (m # 0 /\ m - 1 \in 0..n)
      BY <2>1
    <3> QED BY <2>3, <3>1, <3>2
  <2>6. Fits(g, n + 1)
    BY <2>1, <2>4, <2>5
  <2> HIDE DEF Fits
  <2> QED BY <2>1, <2>3, <2>6
<1>3. PICK f : Fits(f, Len(s)) /\ f = [m \in 0..Len(s) |-> f[m]]
  <2>1. N \subseteq Nat
    OBVIOUS
  <2>2. N = Nat
    <3> HIDE DEF N
    <3> QED BY <1>1, <1>2, <2>1, AllNumbers
  <2> HIDE DEF Fits
  <2> QED BY <1>0, <2>2
<1> DEFINE Solves(h) == h = [m \in 0..Len(s) |-> step(h, m)]
           rest == CHOOSE h : Solves(h)
<1>4. Removed(s, x) = rest[Len(s)]
  BY DEF Removed
<1>5. Solves(f)
  <2>1. \A m \in 0..Len(s) : f[m] = step(f, m)
    BY <1>3
  <2> HIDE DEF step
  <2> QED BY <1>3, <2>1
<1>6. Solves(rest)
  <2> HIDE DEF Solves
  <2> QED BY <1>5
<1> HIDE DEF rest
<1>7. rest[0] = s /\ \A m \in 1..Len(s) : rest[m] = RemoveFirst(rest[m - 1], x)
  <2>1. \A m \in 0..Len(s) : rest[m] = step(rest, m)
    <3> HIDE DEF step
    <3> QED BY <1>6
  <2>2. 0 \in 0..Len(s) /\ \A m \in 1..Len(s) : m \in 0..Len(s) /\ m # 0
    BY <1>0
  <2> QED BY <2>1, <2>2
<1> DEFINE M == {m \in Nat : m <= Len(s) => rest[m] \in Seq(X)}
<1>8. M = Nat
  <2>1. M \subseteq Nat /\ 0 \in M
    BY <1>7
  <2>2. ASSUME NEW m \in M PROVE m + 1 \in M
    <3> SUFFICES ASSUME m + 1 <= Len(s) PROVE rest[m + 1] \in Seq(X)
      BY <2>1
    <3>1. m <= Len(s) /\ m + 1 \in 1..Len(s) /\ m + 1 - 1 = m
      BY <1>0
    <3>2. rest[m] \in Seq(X) /\ rest[m + 1] = RemoveFirst(rest[m], x)
      BY <1>7, <3>1
    <3> QED BY <3>2, RemoveFirstType
  <2> HIDE DEF M
  <2> QED BY <2>1, <2>2, AllNumbers
<1> QED BY <1>0, <1>4, <1>8

\* The array and its copy are arrays, and what is left to swap is in the copy.
ShuffleInv ==
  /\ array \in Seq(Items) /\ shuffled \in Seq(Items) /\ remaining \in Nat
  /\ remaining <= Len(shuffled)
  /\ ShuffleRearranges

\* A copy is a rearrangement: every element stays where it is.
LEMMA CopyRearranges == ASSUME NEW s PROVE Rearranged(s, s)
<1> DEFINE D == DOMAIN s
           p == [i \in D |-> i]
<1>1. p \in Bijection(D, D)
  BY DEF Bijection, Injection, Surjection, IsInjective
<1>2. \A i \in D : p[i] = i
  OBVIOUS
<1> HIDE DEF p
<1> QED BY <1>1, <1>2 DEF Rearranged

\* So is what a rearrangement t of s becomes when two of its places are swapped.
LEMMA SwapRearranges ==
  ASSUME NEW s, NEW t, Rearranged(s, t), NEW i \in DOMAIN t, NEW j \in DOMAIN t,
         NEW u, DOMAIN u = DOMAIN t, u[i] = t[j], u[j] = t[i],
         \A m \in DOMAIN t \ {i, j} : u[m] = t[m]
  PROVE  Rearranged(s, u)
<1> DEFINE D == DOMAIN s
           E == DOMAIN t
<1>0. PICK p \in Bijection(D, E) : \A k \in D : t[p[k]] = s[k]
  BY DEF Rearranged
<1> DEFINE q == [k \in D |-> IF p[k] = i THEN j ELSE IF p[k] = j THEN i ELSE p[k]]
<1>1. /\ p \in [D -> E]
      /\ \A a, b \in D : p[a] = p[b] => a = b
      /\ \A d \in E : \E a \in D : p[a] = d
  BY DEF Bijection, Injection, Surjection, IsInjective
<1>2. q \in [D -> E]
  BY <1>1
<1>3. \A a, b \in D : q[a] = q[b] => a = b
  BY <1>1
<1>4. ASSUME NEW d \in E PROVE \E a \in D : q[a] = d
  <2>1. PICK a \in D : p[a] = IF d = i THEN j ELSE IF d = j THEN i ELSE d
    BY <1>1
  <2>2. q[a] = d
    BY <2>1
  <2> HIDE DEF q
  <2> QED BY <2>2
<1>5. \A k \in D : u[q[k]] = s[k]
  BY <1>0, <1>1
<1> HIDE DEF q
<1>6. q \in Bijection(D, E)
  BY <1>2, <1>3, <1>4 DEF Bijection, Injection, Surjection, IsInjective
<1> QED BY <1>5, <1>6 DEF Rearranged

LEMMA ShuffleInit == ArrayInit => ShuffleInv
BY EmptySeq DEF ArrayInit, ShuffleInv, ShuffleRearranges

LEMMA ShuffleStep == ShuffleInv /\ [ArrayNext]_arrayVars => ShuffleInv'
<1> SUFFICES ASSUME ShuffleInv, [ArrayNext]_arrayVars PROVE ShuffleInv'
  OBVIOUS
<1>1. array \in Seq(Items) /\ shuffled \in Seq(Items) /\ remaining \in Nat /\ remaining <= Len(shuffled)
  BY DEF ShuffleInv
<1>2. ASSUME NEW x \in Items, Grow(x) \/ RemoveElement(x) PROVE ShuffleInv'
  <2>1. array' \in Seq(Items)
    BY <1>1, <1>2, RemovedType DEF Grow, RemoveElement
  <2>2. shuffled' = <<>> /\ remaining' = 0
    BY <1>2 DEF Grow, RemoveElement
  <2> QED BY <2>1, <2>2, EmptySeq DEF ShuffleInv, ShuffleRearranges
<1>3. CASE Shuffle
  <2>1. array' = array /\ shuffled' = array /\ remaining' = Len(array)
    BY <1>3 DEF Shuffle
  <2>2. Rearranged(array, array)
    BY CopyRearranges
  <2>3. Len(array) \in Nat
    BY <1>1
  <2> QED BY <1>1, <2>1, <2>2, <2>3 DEF ShuffleInv, ShuffleRearranges
<1>4. CASE ShuffleNext
  <2>1. PICK j \in 1..remaining : /\ remaining' = remaining - 1
                                  /\ shuffled' = Swapped(shuffled, remaining, j)
                                  /\ array' = array
    BY <1>4 DEF ShuffleNext
  <2>2. shuffled # <<>> /\ Len(shuffled) \in Nat
    BY <1>1, <2>1
  <2>3. Rearranged(array, shuffled)
    BY <2>2 DEF ShuffleInv, ShuffleRearranges
  <2>4. remaining \in DOMAIN shuffled /\ j \in DOMAIN shuffled
    BY <1>1, <2>1, <2>2
  <2>5. /\ shuffled' \in Seq(Items) /\ DOMAIN shuffled' = DOMAIN shuffled /\ Len(shuffled') = Len(shuffled)
        /\ shuffled'[remaining] = shuffled[j] /\ shuffled'[j] = shuffled[remaining]
        /\ \A m \in DOMAIN shuffled \ {remaining, j} : shuffled'[m] = shuffled[m]
    <3>1. shuffled' = [shuffled EXCEPT ![remaining] = shuffled[j], ![j] = shuffled[remaining]]
      BY <2>1 DEF Swapped
    <3>2. shuffled[j] \in Items /\ shuffled[remaining] \in Items
      BY <1>1, <2>4, ElementOfSeq
    <3> QED BY <1>1, <2>4, <3>1, <3>2
  <2>6. Rearranged(array, shuffled')
    BY <2>3, <2>4, <2>5, SwapRearranges
  <2>7. ShuffleRearranges'
    BY <2>1, <2>5, <2>6 DEF ShuffleRearranges
  <2>8. remaining' \in Nat /\ remaining' <= Len(shuffled')
    BY <1>1, <2>1, <2>2, <2>5
  <2> QED BY <1>1, <2>1, <2>5, <2>7, <2>8 DEF ShuffleInv
<1>5. CASE UNCHANGED arrayVars
  BY <1>5 DEF arrayVars, ShuffleInv, ShuffleRearranges
<1> QED BY <1>2, <1>3, <1>4, <1>5 DEF ArrayNext

\* shuffle() loses no element and doubles none, for arrays of any length and elements, and whatever
\* Math.random() returns: the part of ArraysAgree that is about several steps.
THEOREM ShufflesKeepEverything == ArraySpec => []ShuffleRearranges
<1>1. ShuffleInv => ShuffleRearranges
  BY DEF ShuffleInv
<1> QED BY <1>1, ShuffleInit, ShuffleStep, PTL DEF ArraySpec

==============================================================================
