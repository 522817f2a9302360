------------------------------ MODULE MCRedlock ------------------------------
(* Redlock on small instances.  Clients and instances are interchangeable: no     *)
(* definition tells one from another.                                             *)
EXTENDS Redlock, TLC

Symmetry == Permutations(Clients) \cup Permutations(Instances)

==============================================================================
