----------------------------- MODULE NodesCache -----------------------------
(***************************************************************************)
(* The node cache of the proxy-engine StatefulSet.                         *)
(*                                                                         *)
(* Every Pod runs the init container fetch-nodes (update_sub.py) before    *)
(* its sing-box container.  All of them share one ReadWriteMany volume     *)
(* with two files, nodes-last-good.json and nodes.json, guarded by an      *)
(* advisory lock; each Pod has its own emptyDir, from which its sing-box   *)
(* reads main.json and nodes.json.  A run of the script builds a           *)
(* configuration from the subscriptions and publishes it, or falls back to *)
(* the last good one, and then writes the Pod's two runtime files.         *)
(*                                                                         *)
(* A configuration is abstracted to the number of the fetch it was built   *)
(* from, a runtime main.json to the Pod address its guard rules were       *)
(* written for.                                                            *)
(***************************************************************************)
EXTENDS Integers

CONSTANTS
  Pods,        \* the replicas
  MaxFetches,  \* bound: builds that succeed; later ones fail
  MaxErrors,   \* bound: I/O errors the script meets
  MaxDeaths,   \* bound: processes killed, Pods replaced
  Nobody, Dead \* lock owners that are not Pods: none; a client that is gone

ASSUME FetchesAssumption == MaxFetches \in Nat
ASSUME BoundsAssumption == MaxErrors \in Nat /\ MaxDeaths \in Nat
ASSUME OwnerAssumption == Nobody \notin Pods /\ Dead \notin Pods /\ Nobody # Dead

VARIABLES
  fetches,   \* how many builds have succeeded
  urls,      \* sub-converter-suburls-secret has a SUB_URLS that is not empty
  lock,      \* who holds .nodes-cache.lock
  lastGood,  \* /shared-nodes/nodes-last-good.json
  output,    \* /shared-nodes/nodes.json
  litter,    \* .nodes-* files on the shared volume that no process owns
  pc,        \* pc[p]: what p's init container is about to do
  payload,   \* payload[p]: final_config or last_good_config of p's process
  tmp,       \* tmp[p]: p's temporary file is open and partly written
  rtMain,    \* rtMain[p]: /runtime-nodes/main.json, by its guard address
  rtNodes,   \* rtNodes[p]: /runtime-nodes/nodes.json
  addr,      \* addr[p]: the address of p's current sandbox (POD_IPS)
  errors, deaths,  \* how many there have been
  past,      \* history: the values lastGood has had
  base,      \* history: lastGood when p's current run began
  window     \* history: the values lastGood had during p's current run, {}
             \* once it has ended with exit 0

shared == <<lock, lastGood, output, litter>>
local  == <<pc, payload, tmp>>
pod    == <<rtMain, rtNodes, addr>>
bounds == <<errors, deaths>>
history == <<past, base, window>>
vars == <<fetches, urls, shared, local, pod, bounds, history>>

Absent == 0     \* the file does not exist
Torn   == -1    \* the file exists, and only a part of it has been written

(* Where a run stands.  build: about to fetch.  pub*: publish_config.      *)
(* fb*: the except branch of main.  failed, noFallback, noUrls: exit 1,    *)
(* the second with fallback_available=false, the third before anything     *)
(* else, with reason=empty_sub_urls.  running: exit 0, sing-box has        *)
(* started.                                                                *)
Locking    == {"pubLock", "fbLock"}
Critical   == {"lastGood", "output", "unlock", "load"}
Sharing    == {"lastGood", "output"}
Runtime    == {"pubMain", "pubNodes", "fbMain", "fbNodes"}
Writing    == Sharing \cup Runtime
Stopped    == {"failed", "noFallback", "noUrls"}
Labels     == {"build", "running"} \cup Locking \cup Critical \cup Runtime
                \cup Stopped

Goto(p, label) == pc' = [pc EXCEPT ![p] = label]

(* Mutant: the lock file is removed instead of unlocked.                   *)
ReleasedByRemoval(p) == Absent

(* What an unlock, or closing the lock file, leaves of the lock.           *)
Released(p) == IF lock = p THEN Nobody ELSE lock

-----------------------------------------------------------------------------
(* A run of the script begins, and ends there without subscriptions.       *)
First == IF urls THEN "build" ELSE "noUrls"

Init ==
  /\ fetches = 0
  /\ urls \in BOOLEAN
  /\ lock = Nobody
  /\ lastGood = Absent
  /\ output = Absent
  /\ litter = 0
  /\ pc = [p \in Pods |-> First]
  /\ payload = [p \in Pods |-> Absent]
  /\ tmp = [p \in Pods |-> FALSE]
  /\ rtMain = [p \in Pods |-> Absent]
  /\ rtNodes = [p \in Pods |-> Absent]
  /\ addr = [p \in Pods |-> 1]
  /\ errors = 0
  /\ deaths = 0
  /\ past = {}
  /\ base = [p \in Pods |-> Absent]
  /\ window = [p \in Pods |-> {Absent}]

(* build_nodes_config returns: enough subscriptions answered.              *)
Build(p) ==
  /\ pc[p] = "build"
  /\ fetches < MaxFetches
  /\ fetches' = fetches + 1
  /\ payload' = [payload EXCEPT ![p] = fetches + 1]
  /\ Goto(p, "pubLock")
  /\ UNCHANGED <<urls, shared, tmp, pod, bounds, history>>

(* Mutant: a failed build ends the run, without a fallback.                *)
BuildFailsHard(p) ==
  /\ pc[p] = "build"
  /\ Goto(p, "failed")
  /\ UNCHANGED <<fetches, urls, shared, payload, tmp, pod, bounds, history>>

(* build_nodes_config raises: no node retrieved, or no node of a strict    *)
(* group.                                                                  *)
BuildFails(p) ==
  /\ pc[p] = "build"
  /\ Goto(p, "fbLock")
  /\ UNCHANGED <<fetches, urls, shared, payload, tmp, pod, bounds, history>>

(* Mutant: a shared lock (LOCK_SH).                                        *)
LockShared(p) ==
  /\ pc[p] \in Locking
  /\ lock' = p
  /\ Goto(p, IF pc[p] = "pubLock" THEN "lastGood" ELSE "load")
  /\ UNCHANGED <<fetches, urls, lastGood, output, litter, payload, tmp, pod, bounds, history>>

(* cache_lock: lockf succeeds.                                             *)
Lock(p) ==
  /\ pc[p] \in Locking
  /\ lock = Nobody
  /\ lock' = p
  /\ Goto(p, IF pc[p] = "pubLock" THEN "lastGood" ELSE "load")
  /\ UNCHANGED <<fetches, urls, lastGood, output, litter, payload, tmp, pod, bounds, history>>

(* cache_lock: lockf has failed until the deadline.                        *)
LockTimeout(p) ==
  /\ pc[p] \in Locking
  /\ lock # Nobody
  /\ Goto(p, IF pc[p] = "pubLock" THEN "fbLock" ELSE "failed")
  /\ UNCHANGED <<fetches, urls, shared, payload, tmp, pod, bounds, history>>

(* Mutant: write_json truncates its target and writes in place.            *)
WriteInPlace(p) ==
  /\ pc[p] \in Writing
  /\ ~tmp[p]
  /\ tmp' = [tmp EXCEPT ![p] = TRUE]
  /\ lastGood' = IF pc[p] = "lastGood" THEN Torn ELSE lastGood
  /\ UNCHANGED <<fetches, urls, lock, output, litter, pc, payload, pod, bounds, history>>

(* Mutant: write_json removes its target first.                            *)
UnlinkThenWrite(p) ==
  /\ pc[p] \in Writing
  /\ ~tmp[p]
  /\ tmp' = [tmp EXCEPT ![p] = TRUE]
  /\ lastGood' = IF pc[p] = "lastGood" THEN Absent ELSE lastGood
  /\ UNCHANGED <<fetches, urls, lock, output, litter, pc, payload, pod, bounds, history>>

(* write_json up to the last byte but before os.replace: the temporary     *)
(* file of this process is open, and its target as it was.                 *)
WriteTemporary(p) ==
  /\ pc[p] \in Writing
  /\ ~tmp[p]
  /\ tmp' = [tmp EXCEPT ![p] = TRUE]
  /\ UNCHANGED <<fetches, urls, shared, pc, payload, pod, bounds, history>>

(* The rest of write_json: the complete temporary file takes the name of   *)
(* the target.                                                             *)
Renames(p) == tmp[p] /\ tmp' = [tmp EXCEPT ![p] = FALSE]

(* Mutant: the lock covers only the first write.                           *)
PublishLastGoodThenUnlock(p) ==
  /\ pc[p] = "lastGood"
  /\ Renames(p)
  /\ lastGood' = payload[p]
  /\ lock' = Released(p)
  /\ past' = past \cup {payload[p]}
  /\ window' = [q \in Pods |-> window[q] \cup
                   IF pc[q] # "running" THEN {payload[p]} ELSE {}]
  /\ Goto(p, "output")
  /\ UNCHANGED <<fetches, urls, output, litter, payload, pod, bounds, base>>

(* publish_config, its first write: the new last-good snapshot.            *)
PublishLastGood(p) ==
  /\ pc[p] = "lastGood"
  /\ Renames(p)
  /\ lastGood' = payload[p]
  /\ past' = past \cup {payload[p]}
  /\ window' = [q \in Pods |-> window[q] \cup
                   IF pc[q] # "running" THEN {payload[p]} ELSE {}]
  /\ Goto(p, "output")
  /\ UNCHANGED <<fetches, urls, lock, output, litter, payload, pod, bounds, base>>

(* publish_config, its second write.                                       *)
PublishOutput(p) ==
  /\ pc[p] = "output"
  /\ Renames(p)
  /\ output' = payload[p]
  /\ Goto(p, "unlock")
  /\ UNCHANGED <<fetches, urls, lock, lastGood, litter, payload, pod, bounds, history>>

(* publish_config leaves cache_lock.                                       *)
Unlock(p) ==
  /\ pc[p] = "unlock"
  /\ lock' = Released(p)
  /\ Goto(p, "pubMain")
  /\ UNCHANGED <<fetches, urls, lastGood, output, litter, payload, tmp, pod, bounds, history>>

(* Mutant: the fallback publishes what it has loaded.                      *)
LoadAndPublish(p) ==
  /\ pc[p] = "load"
  /\ lock' = Released(p)
  /\ \/ /\ lastGood \in {Absent, Torn}
        /\ Goto(p, "failed")
        /\ UNCHANGED payload
     \/ /\ lastGood \notin {Absent, Torn}
        /\ payload' = [payload EXCEPT ![p] = lastGood]
        /\ Goto(p, "pubLock")
  /\ UNCHANGED <<fetches, urls, lastGood, output, litter, tmp, pod, bounds, history>>

(* load_last_good_if_exists, under the lock that it then leaves: no file,  *)
(* and the run ends without a fallback; a file that is not JSON, and it    *)
(* ends with cache_unavailable; or the snapshot.                           *)
Load(p) ==
  /\ pc[p] = "load"
  /\ lock' = Released(p)
  /\ \/ /\ lastGood = Absent
        /\ Goto(p, "noFallback")
        /\ UNCHANGED payload
     \/ /\ lastGood = Torn
        /\ Goto(p, "failed")
        /\ UNCHANGED payload
     \/ /\ lastGood \notin {Absent, Torn}
        /\ payload' = [payload EXCEPT ![p] = lastGood]
        /\ Goto(p, "fbMain")
  /\ UNCHANGED <<fetches, urls, lastGood, output, litter, tmp, pod, bounds, history>>

(* Mutant: main.json is written only if it is not there.                   *)
WriteRuntimeMainOnce(p) ==
  /\ pc[p] \in {"pubMain", "fbMain"}
  /\ Renames(p)
  /\ rtMain' = [rtMain EXCEPT ![p] = IF @ = Absent THEN addr[p] ELSE @]
  /\ Goto(p, IF pc[p] = "pubMain" THEN "pubNodes" ELSE "fbNodes")
  /\ UNCHANGED <<fetches, urls, shared, payload, rtNodes, addr, bounds, history>>

(* write_runtime_config, its first write: main.json with the guard rules   *)
(* for the addresses of this Pod.                                          *)
WriteRuntimeMain(p) ==
  /\ pc[p] \in {"pubMain", "fbMain"}
  /\ Renames(p)
  /\ rtMain' = [rtMain EXCEPT ![p] = addr[p]]
  /\ Goto(p, IF pc[p] = "pubMain" THEN "pubNodes" ELSE "fbNodes")
  /\ UNCHANGED <<fetches, urls, shared, payload, rtNodes, addr, bounds, history>>

(* Its second write, after which the script exits 0 and sing-box starts    *)
(* from the two files.                                                     *)
WriteRuntimeNodes(p) ==
  /\ pc[p] \in {"pubNodes", "fbNodes"}
  /\ Renames(p)
  /\ rtNodes' = [rtNodes EXCEPT ![p] = payload[p]]
  /\ Goto(p, "running")
  /\ payload' = [payload EXCEPT ![p] = Absent]
  /\ base' = [base EXCEPT ![p] = Absent]
  /\ window' = [window EXCEPT ![p] = {}]
  /\ UNCHANGED <<fetches, urls, shared, rtMain, addr, bounds, past>>

(* An I/O error.  write_json removes its temporary file and cache_lock     *)
(* lets go on the way out.  In the try block main falls back; an error of  *)
(* the fallback itself ends the run with a nonzero status.                 *)
Error(p) ==
  /\ errors < MaxErrors
  /\ pc[p] \notin {"build", "running"} \cup Stopped
  /\ errors' = errors + 1
  /\ tmp' = [tmp EXCEPT ![p] = FALSE]
  /\ lock' = Released(p)
  /\ Goto(p, IF pc[p] \in {"fbLock", "load", "fbMain", "fbNodes"}
             THEN "failed" ELSE "fbLock")
  /\ UNCHANGED <<fetches, urls, lastGood, output, litter, payload, pod, deaths, history>>

(* What the death of p's process leaves behind: the kernel closes the lock *)
(* file, or the whole client is gone and its lease has yet to run out; a   *)
(* temporary file on the shared volume stays there for good.               *)
Dies(p) ==
  /\ deaths < MaxDeaths
  /\ deaths' = deaths + 1
  /\ lock' \in {Released(p)} \cup IF lock = p THEN {Dead} ELSE {}
  /\ litter' = litter + IF tmp[p] /\ pc[p] \in Sharing THEN 1 ELSE 0
  /\ tmp' = [tmp EXCEPT ![p] = FALSE]

(* A run of the script begins, or a start that ends at once.               *)
Begins(p) ==
  /\ payload' = [payload EXCEPT ![p] = Absent]
  /\ Goto(p, First)
  /\ base' = [base EXCEPT ![p] = lastGood]
  /\ window' = [window EXCEPT ![p] = {lastGood}]

(* The init container is killed in the middle of a run.                    *)
Kill(p) ==
  /\ pc[p] \notin {"running"} \cup Stopped
  /\ Dies(p)
  /\ Goto(p, "failed")
  /\ UNCHANGED <<fetches, urls, lastGood, output, payload, pod, errors, history>>

(* The kubelet runs the init container again in the same sandbox.          *)
Restart(p) ==
  /\ pc[p] \in Stopped
  /\ Begins(p)
  /\ UNCHANGED <<fetches, urls, shared, tmp, pod, bounds, past>>

(* The Pod gets a new sandbox with a new address, at any moment: replaced  *)
(* by a rollout or an eviction, which empties its emptyDir, or restarted   *)
(* with its node, which does not.                                          *)
Recreate(p) ==
  /\ Dies(p)
  /\ Begins(p)
  /\ addr' = [addr EXCEPT ![p] = deaths + 2]
  /\ \/ UNCHANGED <<rtMain, rtNodes>>
     \/ /\ rtMain' = [rtMain EXCEPT ![p] = Absent]
        /\ rtNodes' = [rtNodes EXCEPT ![p] = Absent]
  /\ UNCHANGED <<fetches, urls, lastGood, output, errors, past>>

(* Somebody changes the Secret; a container reads it when it starts.       *)
EditUrls ==
  /\ urls' = ~urls
  /\ UNCHANGED <<fetches, shared, local, pod, bounds, history>>

(* The NFS server drops the lock of a client it has lost.                  *)
LeaseExpires ==
  /\ lock = Dead
  /\ lock' = Nobody
  /\ UNCHANGED <<fetches, urls, lastGood, output, litter, local, pod, bounds, history>>

(* What p's script does as long as it runs and nothing goes wrong but the  *)
(* fetch.                                                                  *)
Step(p) ==
  \/ Build(p) \/ BuildFails(p)
  \/ Lock(p) \/ LockTimeout(p)
  \/ WriteTemporary(p)
  \/ PublishLastGood(p) \/ PublishOutput(p) \/ Unlock(p)
  \/ Load(p)
  \/ WriteRuntimeMain(p) \/ WriteRuntimeNodes(p)

Next ==
  \/ EditUrls
  \/ LeaseExpires
  \/ \E p \in Pods : Step(p) \/ Error(p) \/ Kill(p) \/ Restart(p) \/ Recreate(p)

Spec == Init /\ [][Next]_vars

(* A running script goes on, the kubelet restarts a failed init container, *)
(* and the NFS server does drop lost clients.  Nothing is assumed of the   *)
(* subscriptions: BuildFails may be taken every time.                      *)
FairSpec ==
  /\ Spec
  /\ WF_vars(LeaseExpires)
  /\ \A p \in Pods : WF_vars(Step(p)) /\ WF_vars(Restart(p))
-----------------------------------------------------------------------------
(* Type correctness.                                                       *)
Content == Nat \cup {Torn}

TypeOK ==
  /\ fetches \in Nat
  /\ urls \in BOOLEAN
  /\ lock \in Pods \cup {Nobody, Dead}
  /\ lastGood \in Content /\ output \in Content
  /\ litter \in Nat
  /\ pc \in [Pods -> Labels]
  /\ payload \in [Pods -> Content]
  /\ tmp \in [Pods -> BOOLEAN]
  /\ rtMain \in [Pods -> Content]
  /\ rtNodes \in [Pods -> Content]
  /\ addr \in [Pods -> Nat]
  /\ errors \in Nat /\ deaths \in Nat
  /\ past \subseteq Content
  /\ base \in [Pods -> Content]
  /\ window \in [Pods -> SUBSET Content]

(* Whoever opens one of the two shared files finds a complete document,    *)
(* whatever writer is at work or has been killed: write_json publishes     *)
(* complete files atomically.                                              *)
WholeFiles == lastGood # Torn /\ output # Torn

(* The two shared files say the same whenever nobody holds the lock,       *)
(* unless a publication was cut short: two publishers never leave          *)
(* nodes.json of one beside the last-good snapshot of the other.           *)
FilesAgree == lock = Nobody /\ errors = 0 /\ deaths = 0 => output = lastGood

(* A run ends without a fallback only if nothing had been published when   *)
(* it began: once there is a snapshot it is never lost to a later start,   *)
(* whatever peers publish, fail at or die of.                              *)
NoFallbackOnlyAtFirst == \A p \in Pods : pc[p] = "noFallback" => base[p] = Absent

(* The guard rules of a running sing-box are for its own Pod's addresses,  *)
(* also when its emptyDir still holds the files of an earlier sandbox.     *)
GuardsOwnAddress == \A p \in Pods : pc[p] = "running" => rtMain[p] = addr[p]

(* Only a killed process leaves a temporary file on the shared volume; a   *)
(* failed write leaves none.                                               *)
LitterNeedsDeath == litter <= deaths

(* The shared volume holds whole files, and nothing piles up beside them   *)
(* but what a killed process left.                                         *)
VolumeIsClean == WholeFiles /\ LitterNeedsDeath

(* nodes.json only ever takes the value of the last-good snapshot of that  *)
(* moment, so no writer can put an older list over a newer one there.      *)
OutputFollowsLastGood == [][output' # output => output' = lastGood]_vars

(* The files, the lock and the script implement the abstract register: a   *)
(* Pod serves only a snapshot that was recorded during its own start, a    *)
(* fallback never puts an old snapshot back over a newer one of a peer,    *)
(* and a start records nothing older than what it could read when it       *)
(* began.                                                                  *)
Store == INSTANCE SnapshotStore
           WITH snap <- lastGood,
                view <- [p \in Pods |-> IF pc[p] = "running" THEN rtNodes[p]
                                                            ELSE Absent]
ImplementsStore == Store!Spec

(* Once a snapshot has been published every start succeeds in the end,     *)
(* even if no subscription ever answers again, provided the Secret does    *)
(* not stay or become again and again without subscriptions: the script    *)
(* then exits before it looks at the snapshot, and a Pod that starts at    *)
(* such a moment waits for the Secret whatever its peers have published.   *)
CacheKeepsPodsStarting ==
  <>[]urls => \A p \in Pods : lastGood # Absent ~> pc[p] = "running"
=============================================================================
