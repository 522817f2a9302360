-------------------------------- MODULE Mutex --------------------------------
(***************************************************************************)
(* What a caller of RedlockService.using() relies on: the callers of one   *)
(* lock key take turns.  A caller asks for the lock, and is then either    *)
(* granted it, which only happens while nobody else holds it, or refused   *)
(* with a LockTimeoutError; a holder gives the lock back once.             *)
(* There are no keys, no timers and no Redis here.                         *)
(***************************************************************************)

CONSTANT Clients     \* the concurrent callers of using() on one lock key

VARIABLE phase       \* phase[c]: where caller c stands

Init == phase = [c \in Clients |-> "idle"]

Request(c) ==
  /\ phase[c] = "idle"
  /\ phase' = [phase EXCEPT ![c] = "waiting"]

Grant(c) ==
  /\ phase[c] = "waiting"
  /\ \A d \in Clients : phase[d] # "holding"
  /\ phase' = [phase EXCEPT ![c] = "holding"]

Refuse(c) ==
  /\ phase[c] = "waiting"
  /\ phase' = [phase EXCEPT ![c] = "idle"]

Release(c) ==
  /\ phase[c] = "holding"
  /\ phase' = [phase EXCEPT ![c] = "idle"]

Next == \E c \in Clients : Request(c) \/ Grant(c) \/ Refuse(c) \/ Release(c)

Spec == Init /\ [][Next]_phase

==============================================================================
