--------------------------- MODULE MCProxyEngine ---------------------------
(***************************************************************************)
(* The two sides of update_sub.py in one run: the cache shared by two      *)
(* replicas, and the build of one configuration as in MCNodesConfig.       *)
(* NodesCache takes a build for one step and numbers its result, so each   *)
(* side is explored while the other has not begun.  The replicas are not   *)
(* declared symmetric, since the run checks liveness too.                  *)
(***************************************************************************)
EXTENDS MCNodesConfig, NodesCache

CacheAtRest == fetches = 0 /\ errors = 0 /\ deaths = 0 /\ urls
                 /\ \A p \in Pods : pc[p] = "build"
ListAtRest == subs = <<"a", "b">>

EngineInit == (Init /\ BuildInit) /\ (CacheAtRest \/ ListAtRest)

EngineNext ==
  \/ Next /\ BuildInit /\ ListAtRest /\ UNCHANGED buildVars
  \/ BuildNext /\ Init /\ CacheAtRest /\ UNCHANGED vars

(* The fairness of NodesCache: a behaviour in which the cache never begins *)
(* is none of FairSpec.                                                    *)
EngineSpec ==
  /\ EngineInit
  /\ [][EngineNext]_<<vars, buildVars>>
  /\ WF_vars(LeaseExpires)
  /\ \A p \in Pods : WF_vars(Step(p)) /\ WF_vars(Restart(p))
=============================================================================
