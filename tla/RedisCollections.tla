---------------------------- MODULE RedisCollections ----------------------------
(***************************************************************************)
(* RedisCacheService (src/packages/cache/src/redis-cache/                  *)
(* redis-cache.service.ts) over collections: one list that several         *)
(* contexts fill with rpush() and empty with lpop(), a hash, sets and a    *)
(* sorted set, whose methods send one command each and differ in what      *)
(* they answer when it fails.                                              *)
(*                                                                         *)
(* An answer is known by whether there is something in it.                 *)
(***************************************************************************)
EXTENDS Integers, Sequences, FiniteSets, Functions

CONSTANTS
  Clients,       \* the asynchronous contexts that call the service
  Families,      \* kinds of collection; a behaviour uses one of them
  MaxItems,      \* bound on the items pushed
  Elements,      \* the fields of the hash, the members of the sets
  Scores,        \* the scores of the sorted set
  MaxMishaps     \* bound on failed commands and stopped processes

ASSUME CollectionsAssumption ==
  /\ Families \subseteq {"none", "list", "hash", "set", "zset"}
  /\ MaxItems \in Nat /\ MaxMishaps \in Nat
  /\ Scores \subseteq Int

\* The item that is the empty string.
Blank == 0

VARIABLES
  family,     \* the kind of collection this behaviour is about
  list,       \* the list; its items are numbered in the order of their arrival
  arrived,    \* history: the number of items Redis has put into it, blanks aside
  delivered,  \* history: the items that lpop() returned
  lost,       \* history: those that a fault took out of the list for nobody
  fields,     \* the fields of the hash
  blanks,     \* those that hold the empty string
  members,    \* members[1], members[2]: two sets
  scores,     \* the sorted set: the scores of its members
  doing,      \* doing[c]: the last call of c: its method, what it holds and what it answered
  mishaps

listVars == <<list, arrived, delivered, lost>>
hashVars == <<fields, blanks>>
collVars == <<family, listVars, hashVars, members, scores, doing, mishaps>>

\* answer: whether the method returned something, or threw.
Doing(op, step, items, answer) == [op |-> op, step |-> step, items |-> items, answer |-> answer]

Nothing == Doing("none", "done", <<>>, "nothing")

CollectionsInit ==
  /\ family \in Families
  /\ list = <<>> /\ arrived = 0 /\ delivered = {} /\ lost = {}
  /\ fields = {} /\ blanks = {}
  /\ members = [s \in 1..2 |-> {}]
  /\ scores = [m \in {} |-> 0]
  /\ doing = [c \in Clients |-> Nothing]
  /\ mishaps = 0

Mishap == mishaps < MaxMishaps /\ mishaps' = mishaps + 1

Ready(c, kind) == family = kind /\ doing[c].step = "done"

------------------------------------------------------------------------------
(* The list *)

Pushed(items) == list \o items

\* rpush() sends no command for no items, and logs a failure whether or not the items arrived.
RPush(c) == \E n \in 0..2, blank \in BOOLEAN :
  LET items == [i \in 1..n |-> arrived + i]
  IN /\ Ready(c, "list")
     /\ n > 0 \/ blank
     /\ arrived + n <= MaxItems
     /\ Len(list) < MaxItems
     /\ list' = Pushed(IF blank THEN items \o <<Blank>> ELSE items)
     /\ arrived' = arrived + n
     /\ UNCHANGED mishaps \/ Mishap
     /\ UNCHANGED <<family, delivered, lost, hashVars, members, scores, doing>>

\* lpop() takes the items one by one until LPOP answers a falsy one ...
LPop(c) ==
  /\ Ready(c, "list")
  /\ doing' = [doing EXCEPT ![c] = Doing("lpop", "popping", <<>>, "nothing")]
  /\ UNCHANGED <<family, listVars, hashVars, members, scores, mishaps>>

PopNext(c) ==
  /\ doing[c].step = "popping"
  /\ list # <<>> /\ Head(list) # Blank
  /\ list' = Tail(list)
  /\ doing' = [doing EXCEPT ![c].items = Append(@, Head(list))]
  /\ UNCHANGED <<family, arrived, delivered, lost, hashVars, members, scores, mishaps>>

\* Mutant of Kept: an error costs what had been taken before it.
KeptNothing(items) == <<>>

Kept(items) == items

\* lpop() returns items: [] whether the list was empty or its first LPOP failed.
Returned(items) == Doing("lpop", "done", <<>>, IF items = <<>> THEN "nothing" ELSE "something")

\* c's lpop() returns items.
Deliver(c, items) ==
  /\ delivered' = delivered \cup Range(items)
  /\ doing' = [doing EXCEPT ![c] = Returned(items)]

\* ... which is null for the empty list, or the empty string, which is taken out like an item ...
PopEnds(c) ==
  /\ doing[c].step = "popping"
  /\ list # <<>> => Head(list) = Blank
  /\ list' = IF list = <<>> THEN list ELSE Tail(list)
  /\ Deliver(c, doing[c].items)
  /\ UNCHANGED <<family, arrived, lost, hashVars, members, scores, mishaps>>

\* ... or until an error, which is logged: what was taken before it is returned, but an item
\* whose answer was lost is gone.
PopFails(c) ==
  /\ doing[c].step = "popping"
  /\ Mishap
  /\ \/ UNCHANGED <<list, lost>>
     \/ /\ list # <<>>
        /\ list' = Tail(list)
        /\ lost' = lost \cup ({Head(list)} \ {Blank})
  /\ Deliver(c, Kept(doing[c].items))
  /\ UNCHANGED <<family, arrived, hashVars, members, scores>>

\* The process of c stops: what it held is gone.
PopStops(c) ==
  /\ doing[c].step = "popping"
  /\ Mishap
  /\ lost' = lost \cup Range(doing[c].items)
  /\ doing' = [doing EXCEPT ![c] = Nothing]
  /\ UNCHANGED <<family, list, arrived, delivered, hashVars, members, scores>>

------------------------------------------------------------------------------
(* Methods that read *)

\* The methods that answer nothing when their command fails: hget() and hgetall() with null.
Swallowing == {"hget", "hgetall"}

\* What the caller gets when the command fails: a thrown error but from those two.
OnFailure(op) == IF op \in Swallowing THEN "nothing" ELSE "error"

\* c calls op, a command for which Redis finds the elements S, of which op returns the elements T.
Read(c, op, S, T) ==
  /\ \/ /\ doing' = [doing EXCEPT ![c] = Doing(op, "done", <<>>,
                                               IF T = {} THEN "nothing" ELSE "something")]
        /\ UNCHANGED mishaps
     \/ /\ Mishap
        /\ doing' = [doing EXCEPT ![c] = Doing(op, "done", <<>>, OnFailure(op))]
  /\ UNCHANGED <<family, listVars, hashVars, members, scores>>

LRange(c) == Ready(c, "list") /\ Read(c, "lrange", Range(list), Range(list))

\* hget() takes the empty string for no value; hgetall() parses every value, and the empty
\* string, which is not JSON, makes it answer null for the whole hash.
ReadHash(c) == \E f \in Elements :
  /\ Ready(c, "hash")
  /\ \/ Read(c, "hget", {f} \cap fields, {f} \cap (fields \ blanks))
     \/ Read(c, "hgetall", fields, IF blanks = {} THEN fields ELSE {})
     \/ Read(c, "hkeys", fields, fields)

ReadSet(c) == \E op \in {"scard", "smembers"}, s \in 1..2 :
  /\ Ready(c, "set")
  /\ Read(c, op, members[s], members[s])

\* The ranks from start to stop, -1 being the last, in the order of the scores or the reverse.
Ranked(start, stop) ==
  LET n == Cardinality(DOMAIN scores)
  IN {rank \in 0..n - 1 : start <= rank /\ rank <= IF stop < 0 THEN n + stop ELSE stop}

Between(low, high) == {m \in DOMAIN scores : low <= scores[m] /\ scores[m] <= high}

ReadScores(c) ==
  /\ Ready(c, "zset")
  /\ \/ \E op \in {"zrank", "zrevrank", "zmscore"}, m \in Elements :
          Read(c, op, {m} \cap DOMAIN scores, {m} \cap DOMAIN scores)
     \/ \E op \in {"zrangebyscore", "zcount"}, low, high \in Scores :
          Read(c, op, Between(low, high), Between(low, high))
     \/ \E op \in {"zrange", "zrevrange"}, start \in 0..1, stop \in {-1, 0} :
          Read(c, op, Ranked(start, stop), Ranked(start, stop))

------------------------------------------------------------------------------
(* Methods that write; all of them throw a failure, executed or not *)

\* hset() and hsetMany() drop null and undefined unless cacheNullable, and else store undefined
\* as the empty string; hsetMany() sends one command, and none for no fields.
HSet(c, fs) == \E undefined \in SUBSET fs, nullable \in BOOLEAN :
  LET stored == IF nullable THEN fs ELSE fs \ undefined
  IN /\ Ready(c, "hash")
     /\ stored # {}
     /\ fields' = fields \cup stored
     /\ blanks' = (blanks \ stored) \cup (undefined \cap stored)
     /\ UNCHANGED mishaps \/ Mishap
     /\ UNCHANGED <<family, listVars, members, scores, doing>>

\* HINCRBY fails for the empty string.
HIncrBy(c, f) ==
  /\ Ready(c, "hash")
  /\ f \notin blanks
  /\ fields' = fields \cup {f}
  /\ UNCHANGED mishaps \/ Mishap
  /\ UNCHANGED <<family, listVars, blanks, members, scores, doing>>

SAdd(c, ms) == \E s \in 1..2 :
  /\ Ready(c, "set")
  /\ members' = [members EXCEPT ![s] = @ \cup ms]
  /\ UNCHANGED mishaps \/ Mishap
  /\ UNCHANGED <<family, listVars, hashVars, scores, doing>>

\* The destination is overwritten with the union of the given sets.
SUnionStore(c) == \E destination \in 1..2, keys \in SUBSET (1..2) :
  /\ Ready(c, "set")
  /\ keys # {}
  /\ members' = [members EXCEPT ![destination] = UNION {members[k] : k \in keys}]
  /\ UNCHANGED mishaps \/ Mishap
  /\ UNCHANGED <<family, listVars, hashVars, scores, doing>>

Scored(m, score) == [x \in DOMAIN scores \cup {m} |-> IF x = m THEN score ELSE scores[x]]

\* zadd(), without options, or with NX for new members only, or XX for old ones only.
ZAdd(c, m) == \E score \in Scores, option \in {"", "NX", "XX"} :
  /\ Ready(c, "zset")
  /\ option = "NX" => m \notin DOMAIN scores
  /\ option = "XX" => m \in DOMAIN scores
  /\ scores' = Scored(m, score)
  /\ UNCHANGED mishaps \/ Mishap
  /\ UNCHANGED <<family, listVars, hashVars, members, doing>>

ZIncrBy(c, m) == \E increment \in Scores :
  /\ Ready(c, "zset")
  /\ LET score == increment + (IF m \in DOMAIN scores THEN scores[m] ELSE 0)
     IN score \in Scores /\ scores' = Scored(m, score)
  /\ UNCHANGED mishaps \/ Mishap
  /\ UNCHANGED <<family, listVars, hashVars, members, doing>>

CollectionsNext == \E c \in Clients :
  \/ RPush(c) \/ LPop(c) \/ PopNext(c) \/ PopEnds(c) \/ PopFails(c) \/ PopStops(c)
  \/ LRange(c) \/ ReadHash(c) \/ ReadSet(c) \/ ReadScores(c)
  \/ \E ms \in SUBSET Elements : HSet(c, ms) \/ SAdd(c, ms)
  \/ \E m \in Elements : HIncrBy(c, m) \/ ZAdd(c, m) \/ ZIncrBy(c, m)
  \/ SUnionStore(c)

CollectionsSpec == CollectionsInit /\ [][CollectionsNext]_collVars

------------------------------------------------------------------------------
(* Properties *)

\* The items some lpop() has taken and not returned yet.
Held == UNION {Range(doing[c].items) : c \in Clients}

\* The places an item may be in, which have none in common.
ItemsConserved ==
  /\ 1..arrived = (Range(list) \ {Blank}) \cup Held \cup delivered \cup lost
  /\ (Range(list) \cup Held) \cap (delivered \cup lost) = {}
  /\ Range(list) \cap Held = {}
  /\ delivered \cap lost = {}
  /\ \A c, d \in Clients : c # d => Range(doing[c].items) \cap Range(doing[d].items) = {}

\* However many contexts push and drain the list at once, and whatever fails, it is a queue: every
\* item that arrived is in exactly one place, the list, one lpop() that holds or returned it, or
\* lost to a fault; each lpop() holds its items in the order of their arrival; and whatever was
\* taken, by whomever, arrived before what is left.
ListIsAQueue ==
  /\ ItemsConserved
  /\ \A c \in Clients : \A i, j \in DOMAIN doing[c].items :
       i < j => doing[c].items[i] < doing[c].items[j]
  /\ \A i \in Held \cup delivered \cup lost, j \in Range(list) \ {Blank} : i < j

=============================================================================
