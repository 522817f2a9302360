------------------------------- MODULE MCRemote -------------------------------
(***************************************************************************)
(* RedisKeys, RedisCollections and BatchCache for TLC: every behaviour is  *)
(* one of one of them, with the methods of one menu, on one kind of        *)
(* collection, or of batches.                                              *)
(***************************************************************************)
EXTENDS RedisKeys, RedisCollections, BatchCache

CONSTANTS c1, c2, k1, k2

VARIABLE focus   \* the module whose behaviour this is

TheMenus == {{},
             {"increment", "decrement", "delete", "set"},
             {"deleteByPattern", "set", "delete"},
             {"setMany", "deleteMany", "flushDb", "getOrSet", "increment"},
             {"setnx", "setOrUpdate", "incrby", "expire", "scan"}}
TheFamilies == {"none", "list", "hash", "set", "zset"}
TheMatching == {k1, k2}
ThePayloads == {<<3, 1, 2, 4>>}

MCInit ==
  /\ KeysInit /\ CollectionsInit /\ BatchInit
  /\ \/ focus = "keys" /\ menu # {} /\ family = "none"
     \/ focus = "collections" /\ menu = {} /\ family # "none"
     \/ focus = "batches" /\ menu = {} /\ family = "none"

MCNext ==
  /\ \/ focus = "keys" /\ KeysNext /\ UNCHANGED <<collVars, batchVars>>
     \/ focus = "collections" /\ CollectionsNext /\ UNCHANGED <<keysVars, batchVars>>
     \/ focus = "batches" /\ BatchNext /\ UNCHANGED <<keysVars, collVars>>
  /\ UNCHANGED focus

MCSpec == MCInit /\ [][MCNext]_<<keysVars, collVars, batchVars, focus>>
=============================================================================
