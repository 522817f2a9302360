------------------------------ MODULE SharedCalls ------------------------------
(***************************************************************************)
(* What the callers of PendingExecuter.execute()                           *)
(* (src/packages/common/src/utils/pending.executer.ts) rely on: whoever    *)
(* comes while somebody's function runs under the same key waits for that  *)
(* one; it settles for all of them in one step, and with one outcome; and  *)
(* whoever comes later starts anew.                                        *)
(* There are no dictionary, no promises and no values that get cached here.*)
(***************************************************************************)

CONSTANTS
  Callers,    \* the concurrent callers of execute()
  KeyOf,      \* KeyOf[c]: the key c calls with, in the dictionary of its process
  Outcomes,   \* what a function may settle with
  None        \* no outcome

VARIABLES
  phase,      \* phase[c]: where c stands
  outcome     \* outcome[c]: what execute() has given c and c has not used yet

callVars == <<phase, outcome>>

Init ==
  /\ phase = [c \in Callers |-> "out"]
  /\ outcome = [c \in Callers |-> None]

\* The callers whose function runs under the key of c, and those who wait for it.
Running(c) == {d \in Callers : KeyOf[d] = KeyOf[c] /\ phase[d] = "running"}
Joined(c)  == {d \in Callers : KeyOf[d] = KeyOf[c] /\ phase[d] = "joined"}

\* No function runs under the key of c: its own does now.
Start(c) ==
  /\ phase[c] = "out"
  /\ Running(c) = {}
  /\ phase' = [phase EXCEPT ![c] = "running"]
  /\ UNCHANGED outcome

\* One does: c waits for it.
Join(c) ==
  /\ phase[c] = "out"
  /\ Running(c) # {}
  /\ phase' = [phase EXCEPT ![c] = "joined"]
  /\ UNCHANGED outcome

\* c's function settles with v, for c and for all who wait for it.
Settle(c, v) ==
  /\ phase[c] = "running"
  /\ phase' = [d \in Callers |-> IF d \in Running(c) \cup Joined(c) THEN "settled" ELSE phase[d]]
  /\ outcome' = [d \in Callers |-> IF d \in Running(c) \cup Joined(c) THEN v ELSE outcome[d]]

\* It rejects, and none of them catches the error.
Reject(c) ==
  /\ phase[c] = "running"
  /\ phase' = [d \in Callers |-> IF d \in Running(c) \cup Joined(c) THEN "out" ELSE phase[d]]
  /\ UNCHANGED outcome

\* c goes on with its outcome.
Use(c) ==
  /\ phase[c] = "settled"
  /\ phase' = [phase EXCEPT ![c] = "out"]
  /\ outcome' = [outcome EXCEPT ![c] = None]

Next == \E c \in Callers :
  \/ Start(c)
  \/ Join(c)
  \/ \E v \in Outcomes : Settle(c, v)
  \/ Reject(c)
  \/ Use(c)

Spec == Init /\ [][Next]_callVars

==============================================================================
