-------------------------- MODULE NodesCacheProofs --------------------------
(***************************************************************************)
(* Proofs about NodesCache, for any set of Pods and any bounds.            *)
(***************************************************************************)
EXTENDS NodesCache, TLAPS

-----------------------------------------------------------------------------
(* The inductive invariant.  LockInv ties the lock to the sections that it *)
(* guards; a process that has died is in none of them, even while the      *)
(* server still keeps its lease.                                           *)
LockInv == \A p \in Pods : pc[p] \in Critical <=> lock = p

(* The recorded snapshots are fetches, and the shared files hold recorded  *)
(* snapshots; the last-good file never disappears again.                   *)
RecordInv ==
  /\ past \subseteq 1 .. fetches
  /\ lastGood \in {Absent} \cup past
  /\ output \in {Absent} \cup past
  /\ lastGood = Absent => past = {}
  /\ \A p \in Pods : base[p] \in {Absent} \cup past

(* A configuration that waits to be published is new, newer than what its  *)
(* run could have read, and no other Pod's.                                *)
FreshInv ==
  /\ \A p \in Pods : pc[p] \in {"pubLock", "lastGood"} =>
       /\ payload[p] \in 1 .. fetches
       /\ payload[p] \notin past
       /\ payload[p] > base[p]
  /\ \A p, q \in Pods :
       /\ p # q
       /\ pc[p] \in {"pubLock", "lastGood"} /\ pc[q] \in {"pubLock", "lastGood"}
       => payload[p] # payload[q]

(* One that has been published or loaded was recorded during the run.      *)
AdoptedInv ==
  \A p \in Pods :
    /\ pc[p] # "running" => lastGood \in window[p]
    /\ pc[p] \in {"output", "unlock"} \cup Runtime =>
         payload[p] \in window[p] /\ payload[p] \in past

(* The two files differ only between the two writes of one publication,    *)
(* or after one that was cut short there.                                  *)
PairInv ==
  /\ \A p \in Pods : pc[p] = "output" => payload[p] = lastGood
  /\ errors = 0 /\ deaths = 0 =>
       output = lastGood \/ \E p \in Pods : pc[p] = "output"

(* The runtime files of a Pod.                                             *)
RuntimeInv ==
  \A p \in Pods :
    /\ pc[p] \in {"pubNodes", "fbNodes", "running"} => rtMain[p] = addr[p]
    /\ pc[p] = "running" => rtNodes[p] \in past

IInv ==
  /\ TypeOK
  /\ LockInv
  /\ RecordInv
  /\ FreshInv
  /\ AdoptedInv
  /\ PairInv
  /\ RuntimeInv
  /\ NoFallbackOnlyAtFirst
  /\ LitterNeedsDeath

(* Elementary definitions, transparent in every proof below.               *)
USE DEF Absent, Torn, Content, Locking, Critical, Sharing, Runtime, Writing,
        Stopped, Labels, Goto, Released, Renames, First,
        shared, local, pod, bounds, history

-----------------------------------------------------------------------------
(* Every action preserves the invariant: a step of its own for each        *)
(* conjunct that the action can disturb, and one for the others.           *)

(* A build takes a fetch number that no file and no other Pod has.         *)
LEMMA BuildStep ==
  ASSUME IInv, NEW p \in Pods, Build(p)
  PROVE  IInv'
<1>1. TypeOK'
  BY DEF IInv, TypeOK, Build
<1>2. RecordInv'
  BY DEF IInv, TypeOK, RecordInv, FreshInv, PairInv, Build
<1>3. FreshInv'
  BY DEF IInv, TypeOK, FreshInv, RecordInv, LockInv, Build
<1>4. /\ LockInv'
      /\ AdoptedInv'
      /\ PairInv'
      /\ RuntimeInv'
      /\ NoFallbackOnlyAtFirst'
      /\ LitterNeedsDeath'
  BY DEF IInv, LockInv, RecordInv, AdoptedInv, PairInv, RuntimeInv,
     NoFallbackOnlyAtFirst, LitterNeedsDeath, TypeOK, Build
<1> QED
  BY <1>1, <1>2, <1>3, <1>4 DEF IInv

(* A failed build only sends the run to the fallback.                      *)
LEMMA BuildFailsStep ==
  ASSUME IInv, NEW p \in Pods, BuildFails(p)
  PROVE  IInv'
<1>1. /\ TypeOK'
      /\ LockInv'
      /\ RecordInv'
      /\ FreshInv'
      /\ AdoptedInv'
      /\ PairInv'
      /\ RuntimeInv'
      /\ NoFallbackOnlyAtFirst'
      /\ LitterNeedsDeath'
  BY DEF IInv, TypeOK, LockInv, RecordInv, FreshInv, AdoptedInv, PairInv,
     RuntimeInv, NoFallbackOnlyAtFirst, LitterNeedsDeath, BuildFails
<1> QED
  BY <1>1 DEF IInv

(* Taking the lock enters the section it guards.                           *)
LEMMA LockStep ==
  ASSUME IInv, NEW p \in Pods, Lock(p)
  PROVE  IInv'
<1>1. LockInv'
  BY OwnerAssumption DEF IInv, TypeOK, LockInv, Lock
<1>2. /\ TypeOK'
      /\ RecordInv'
      /\ FreshInv'
      /\ AdoptedInv'
      /\ PairInv'
      /\ RuntimeInv'
      /\ NoFallbackOnlyAtFirst'
      /\ LitterNeedsDeath'
  BY DEF IInv, TypeOK, LockInv, RecordInv, FreshInv, AdoptedInv, PairInv,
     RuntimeInv, NoFallbackOnlyAtFirst, LitterNeedsDeath, Lock
<1> QED
  BY <1>1, <1>2 DEF IInv

(* A run that gives up on the lock was never inside.                       *)
LEMMA LockTimeoutStep ==
  ASSUME IInv, NEW p \in Pods, LockTimeout(p)
  PROVE  IInv'
<1>1. /\ TypeOK'
      /\ LockInv'
      /\ RecordInv'
      /\ FreshInv'
      /\ AdoptedInv'
      /\ PairInv'
      /\ RuntimeInv'
      /\ NoFallbackOnlyAtFirst'
      /\ LitterNeedsDeath'
  BY DEF IInv, TypeOK, LockInv, RecordInv, FreshInv, AdoptedInv, PairInv,
     RuntimeInv, NoFallbackOnlyAtFirst, LitterNeedsDeath, LockTimeout
<1> QED
  BY <1>1 DEF IInv

(* A temporary file touches nothing that others can see.                   *)
LEMMA WriteTemporaryStep ==
  ASSUME IInv, NEW p \in Pods, WriteTemporary(p)
  PROVE  IInv'
<1>1. /\ TypeOK'
      /\ LockInv'
      /\ RecordInv'
      /\ FreshInv'
      /\ AdoptedInv'
      /\ PairInv'
      /\ RuntimeInv'
      /\ NoFallbackOnlyAtFirst'
      /\ LitterNeedsDeath'
  BY DEF IInv, TypeOK, LockInv, RecordInv, FreshInv, AdoptedInv, PairInv,
     RuntimeInv, NoFallbackOnlyAtFirst, LitterNeedsDeath, WriteTemporary
<1> QED
  BY <1>1 DEF IInv

(* The first write of a publication records a new snapshot.                *)
LEMMA PublishLastGoodStep ==
  ASSUME IInv, NEW p \in Pods, PublishLastGood(p)
  PROVE  IInv'
<1>1. TypeOK'
  BY DEF IInv, TypeOK, PublishLastGood
<1>2. RecordInv'
  <2>1. payload[p] \in 1 .. fetches
    BY DEF IInv, FreshInv, PublishLastGood
  <2>2. /\ lastGood' = payload[p]
        /\ past' = past \cup {payload[p]}
        /\ UNCHANGED <<fetches, output, base>>
    BY DEF PublishLastGood
  <2>3. past' \subseteq 1 .. fetches' /\ lastGood' \in past'
    BY <2>1, <2>2 DEF IInv, RecordInv
  <2>4. lastGood' # Absent
    BY <2>1, <2>2 DEF IInv, TypeOK
  <2>5. /\ output' \in {Absent} \cup past'
        /\ \A q \in Pods : base'[q] \in {Absent} \cup past'
    BY <2>2 DEF IInv, RecordInv
  <2> QED
    BY <2>3, <2>4, <2>5 DEF RecordInv
<1>3. FreshInv'
  BY DEF IInv, TypeOK, FreshInv, RecordInv, LockInv, PublishLastGood
<1>4. AdoptedInv'
  BY DEF IInv, TypeOK, AdoptedInv, RecordInv, PublishLastGood
<1>5. PairInv'
  BY DEF IInv, TypeOK, PairInv, LockInv, PublishLastGood
<1>6. LockInv' /\ RuntimeInv' /\ NoFallbackOnlyAtFirst' /\ LitterNeedsDeath'
  BY DEF IInv, LockInv, RecordInv, AdoptedInv, RuntimeInv,
     NoFallbackOnlyAtFirst, LitterNeedsDeath, TypeOK, PublishLastGood
<1> QED
  BY <1>1, <1>2, <1>3, <1>4, <1>5, <1>6 DEF IInv

(* The second write restores the agreement of the two files.               *)
LEMMA PublishOutputStep ==
  ASSUME IInv, NEW p \in Pods, PublishOutput(p)
  PROVE  IInv'
<1>1. RecordInv'
  BY DEF IInv, TypeOK, RecordInv, FreshInv, PairInv, PublishOutput
<1>2. PairInv'
  BY DEF IInv, TypeOK, PairInv, LockInv, PublishOutput
<1>3. /\ TypeOK'
      /\ LockInv'
      /\ FreshInv'
      /\ AdoptedInv'
      /\ RuntimeInv'
      /\ NoFallbackOnlyAtFirst'
      /\ LitterNeedsDeath'
  BY DEF IInv, TypeOK, LockInv, RecordInv, FreshInv, AdoptedInv, RuntimeInv,
     NoFallbackOnlyAtFirst, LitterNeedsDeath, PublishOutput
<1> QED
  BY <1>1, <1>2, <1>3 DEF IInv

(* The end of a publication frees the lock.                                *)
LEMMA UnlockStep ==
  ASSUME IInv, NEW p \in Pods, Unlock(p)
  PROVE  IInv'
<1>1. LockInv'
  BY OwnerAssumption DEF IInv, TypeOK, LockInv, Unlock
<1>2. /\ TypeOK'
      /\ RecordInv'
      /\ FreshInv'
      /\ AdoptedInv'
      /\ PairInv'
      /\ RuntimeInv'
      /\ NoFallbackOnlyAtFirst'
      /\ LitterNeedsDeath'
  BY DEF IInv, TypeOK, LockInv, RecordInv, FreshInv, AdoptedInv, PairInv,
     RuntimeInv, NoFallbackOnlyAtFirst, LitterNeedsDeath, Unlock
<1> QED
  BY <1>1, <1>2 DEF IInv

(* A fallback adopts the recorded snapshot, or finds that there is none.   *)
LEMMA LoadStep ==
  ASSUME IInv, NEW p \in Pods, Load(p)
  PROVE  IInv'
<1>1. LockInv'
  BY OwnerAssumption DEF IInv, TypeOK, LockInv, Load
<1>2. AdoptedInv'
  BY DEF IInv, TypeOK, AdoptedInv, RecordInv, Load
<1>3. NoFallbackOnlyAtFirst'
  BY DEF IInv, TypeOK, NoFallbackOnlyAtFirst, RecordInv, Load
<1>4. /\ TypeOK'
      /\ RecordInv'
      /\ FreshInv'
      /\ PairInv'
      /\ RuntimeInv'
      /\ LitterNeedsDeath'
  BY DEF IInv, TypeOK, LockInv, RecordInv, FreshInv, AdoptedInv, PairInv,
     RuntimeInv, LitterNeedsDeath, Load
<1> QED
  BY <1>1, <1>2, <1>3, <1>4 DEF IInv

(* The guard rules are written for the current address.                    *)
LEMMA WriteRuntimeMainStep ==
  ASSUME IInv, NEW p \in Pods, WriteRuntimeMain(p)
  PROVE  IInv'
<1>1. RuntimeInv'
  BY DEF IInv, TypeOK, RuntimeInv, AdoptedInv, WriteRuntimeMain
<1>2. /\ TypeOK'
      /\ LockInv'
      /\ RecordInv'
      /\ FreshInv'
      /\ AdoptedInv'
      /\ PairInv'
      /\ NoFallbackOnlyAtFirst'
      /\ LitterNeedsDeath'
  BY DEF IInv, TypeOK, LockInv, RecordInv, FreshInv, AdoptedInv, PairInv,
     NoFallbackOnlyAtFirst, LitterNeedsDeath, WriteRuntimeMain
<1> QED
  BY <1>1, <1>2 DEF IInv

(* A Pod goes into service with a recorded snapshot.                       *)
LEMMA WriteRuntimeNodesStep ==
  ASSUME IInv, NEW p \in Pods, WriteRuntimeNodes(p)
  PROVE  IInv'
<1>1. AdoptedInv'
  BY DEF IInv, TypeOK, AdoptedInv, RecordInv, WriteRuntimeNodes
<1>2. RuntimeInv'
  BY DEF IInv, TypeOK, RuntimeInv, AdoptedInv, WriteRuntimeNodes
<1>3. /\ TypeOK'
      /\ LockInv'
      /\ RecordInv'
      /\ FreshInv'
      /\ PairInv'
      /\ NoFallbackOnlyAtFirst'
      /\ LitterNeedsDeath'
  BY DEF IInv, TypeOK, LockInv, RecordInv, FreshInv, PairInv,
     NoFallbackOnlyAtFirst, LitterNeedsDeath, WriteRuntimeNodes
<1> QED
  BY <1>1, <1>2, <1>3 DEF IInv

(* An error frees the lock and moves no file.                              *)
LEMMA ErrorStep ==
  ASSUME IInv, NEW p \in Pods, Error(p)
  PROVE  IInv'
<1>1. LockInv'
  BY OwnerAssumption DEF IInv, TypeOK, LockInv, Error
<1>2. PairInv'
  BY DEF IInv, TypeOK, PairInv, LockInv, Error
<1>3. /\ TypeOK'
      /\ RecordInv'
      /\ FreshInv'
      /\ AdoptedInv'
      /\ RuntimeInv'
      /\ NoFallbackOnlyAtFirst'
      /\ LitterNeedsDeath'
  BY DEF IInv, TypeOK, LockInv, RecordInv, FreshInv, AdoptedInv, PairInv,
     RuntimeInv, NoFallbackOnlyAtFirst, LitterNeedsDeath, Error
<1> QED
  BY <1>1, <1>2, <1>3 DEF IInv

(* A kill leaves the lock free or with a dead client.                      *)
LEMMA KillStep ==
  ASSUME IInv, NEW p \in Pods, Kill(p)
  PROVE  IInv'
<1>1. TypeOK'
  BY DEF IInv, TypeOK, Kill, Dies
<1>2. LockInv'
  BY OwnerAssumption DEF IInv, TypeOK, LockInv, Kill, Dies
<1>3. PairInv'
  BY DEF IInv, TypeOK, PairInv, LockInv, Kill, Dies
<1>4. LitterNeedsDeath'
  BY DEF IInv, TypeOK, LitterNeedsDeath, Kill, Dies
<1>5. /\ RecordInv'
      /\ FreshInv'
      /\ AdoptedInv'
      /\ RuntimeInv'
      /\ NoFallbackOnlyAtFirst'
  BY DEF IInv, LockInv, RecordInv, FreshInv, AdoptedInv, PairInv,
     RuntimeInv, NoFallbackOnlyAtFirst, TypeOK, Kill, Dies
<1> QED
  BY <1>1, <1>2, <1>3, <1>4, <1>5 DEF IInv

(* A new run can read what the old one left.                               *)
LEMMA RestartStep ==
  ASSUME IInv, NEW p \in Pods, Restart(p)
  PROVE  IInv'
<1>1. RecordInv'
  BY DEF IInv, TypeOK, RecordInv, FreshInv, PairInv, Restart, Begins
<1>2. /\ TypeOK'
      /\ LockInv'
      /\ FreshInv'
      /\ AdoptedInv'
      /\ PairInv'
      /\ RuntimeInv'
      /\ NoFallbackOnlyAtFirst'
      /\ LitterNeedsDeath'
  BY DEF IInv, TypeOK, LockInv, RecordInv, FreshInv, AdoptedInv, PairInv,
     RuntimeInv, NoFallbackOnlyAtFirst, LitterNeedsDeath, Restart, Begins
<1> QED
  BY <1>1, <1>2 DEF IInv

(* A new sandbox has a new address and begins a new run.                   *)
LEMMA RecreateStep ==
  ASSUME IInv, NEW p \in Pods, Recreate(p)
  PROVE  IInv'
<1>1. TypeOK'
  BY DEF IInv, TypeOK, Recreate, Dies, Begins
<1>2. LockInv'
  BY OwnerAssumption DEF IInv, TypeOK, LockInv, Recreate, Dies, Begins
<1>3. RecordInv'
  BY DEF IInv, TypeOK, RecordInv, FreshInv, PairInv, Recreate, Dies, Begins
<1>4. PairInv'
  BY DEF IInv, TypeOK, PairInv, LockInv, Recreate, Dies, Begins
<1>5. RuntimeInv'
  BY DEF IInv, TypeOK, RuntimeInv, AdoptedInv, Recreate, Dies, Begins
<1>6. LitterNeedsDeath'
  BY DEF IInv, TypeOK, LitterNeedsDeath, Recreate, Dies, Begins
<1>7. FreshInv' /\ AdoptedInv' /\ NoFallbackOnlyAtFirst'
  BY DEF IInv, LockInv, RecordInv, FreshInv, AdoptedInv,
     NoFallbackOnlyAtFirst, TypeOK, Recreate, Dies, Begins
<1> QED
  BY <1>1, <1>2, <1>3, <1>4, <1>5, <1>6, <1>7 DEF IInv

(* A change of the Secret reaches no run that has begun.                   *)
LEMMA EditUrlsStep ==
  ASSUME IInv, EditUrls
  PROVE  IInv'
<1>1. /\ TypeOK'
      /\ LockInv'
      /\ RecordInv'
      /\ FreshInv'
      /\ AdoptedInv'
      /\ PairInv'
      /\ RuntimeInv'
      /\ NoFallbackOnlyAtFirst'
      /\ LitterNeedsDeath'
  BY DEF IInv, TypeOK, LockInv, RecordInv, FreshInv, AdoptedInv, PairInv,
     RuntimeInv, NoFallbackOnlyAtFirst, LitterNeedsDeath, EditUrls
<1> QED
  BY <1>1 DEF IInv

(* A lease that runs out belonged to nobody alive.                         *)
LEMMA LeaseExpiresStep ==
  ASSUME IInv, LeaseExpires
  PROVE  IInv'
<1>1. LockInv'
  BY OwnerAssumption DEF IInv, TypeOK, LockInv, LeaseExpires
<1>2. /\ TypeOK'
      /\ RecordInv'
      /\ FreshInv'
      /\ AdoptedInv'
      /\ PairInv'
      /\ RuntimeInv'
      /\ NoFallbackOnlyAtFirst'
      /\ LitterNeedsDeath'
  BY DEF IInv, TypeOK, LockInv, RecordInv, FreshInv, AdoptedInv, PairInv,
     RuntimeInv, NoFallbackOnlyAtFirst, LitterNeedsDeath, LeaseExpires
<1> QED
  BY <1>1, <1>2 DEF IInv


-----------------------------------------------------------------------------
(* So does every step.                                                     *)
LEMMA NextPreserves == IInv /\ [Next]_vars => IInv'
<1> SUFFICES ASSUME IInv, [Next]_vars
             PROVE  IInv'
  OBVIOUS
<1>1. CASE EditUrls \/ LeaseExpires
  BY <1>1, EditUrlsStep, LeaseExpiresStep
<1>2. ASSUME NEW p \in Pods, Step(p)
      PROVE  IInv'
  BY <1>2, BuildStep, BuildFailsStep, LockStep, LockTimeoutStep,
     WriteTemporaryStep, PublishLastGoodStep, PublishOutputStep, UnlockStep,
     LoadStep, WriteRuntimeMainStep, WriteRuntimeNodesStep DEF Step
<1>3. ASSUME NEW p \in Pods, Error(p) \/ Kill(p) \/ Restart(p) \/ Recreate(p)
      PROVE  IInv'
  BY <1>3, ErrorStep, KillStep, RestartStep, RecreateStep
<1>4. CASE UNCHANGED vars
  BY <1>4 DEF IInv, TypeOK, LockInv, RecordInv, FreshInv, AdoptedInv, PairInv,
     RuntimeInv, NoFallbackOnlyAtFirst, LitterNeedsDeath, vars
<1> QED
  BY <1>1, <1>2, <1>3, <1>4 DEF Next

(* The invariant holds in every reachable state of any number of Pods.     *)
THEOREM Invariance == Spec => []IInv
<1>1. Init => IInv
  BY OwnerAssumption DEF Init, IInv, TypeOK, LockInv, RecordInv, FreshInv,
     AdoptedInv, PairInv, RuntimeInv, NoFallbackOnlyAtFirst, LitterNeedsDeath
<1> QED
  BY <1>1, NextPreserves, PTL DEF Spec

(* The variables keep their types.                                         *)
THEOREM TypeCorrect == Spec => []TypeOK
<1>1. IInv => TypeOK
  BY DEF IInv
<1> QED
  BY <1>1, Invariance, PTL

(* A reader of the shared volume never finds a half-written file (both     *)
(* files are absent or one of the recorded fetches), nor more temporary    *)
(* files than processes have died.                                         *)
THEOREM FilesAreWhole == Spec => []VolumeIsClean
<1>1. IInv => VolumeIsClean
  BY DEF IInv, RecordInv, VolumeIsClean, WholeFiles
<1> QED
  BY <1>1, Invariance, PTL

(* Without an interruption the two shared files are the same whenever the  *)
(* lock is free.                                                           *)
THEOREM FilesAlwaysAgree == Spec => []FilesAgree
<1>1. IInv => FilesAgree
  BY OwnerAssumption DEF IInv, LockInv, PairInv, FilesAgree
<1> QED
  BY <1>1, Invariance, PTL

(* A start that ends without a fallback began before anything had been     *)
(* published.                                                              *)
THEOREM FallbackIsThere == Spec => []NoFallbackOnlyAtFirst
<1>1. IInv => NoFallbackOnlyAtFirst
  BY DEF IInv
<1> QED
  BY <1>1, Invariance, PTL

(* A running sing-box guards the addresses of its own sandbox.             *)
THEOREM GuardsAreOwn == Spec => []GuardsOwnAddress
<1>1. IInv => GuardsOwnAddress
  BY DEF IInv, RuntimeInv, GuardsOwnAddress
<1> QED
  BY <1>1, Invariance, PTL

(* nodes.json is only ever replaced by the last-good snapshot: between its *)
(* two writes a publisher holds the lock, so no peer moves last-good.      *)
THEOREM OutputFollows == Spec => OutputFollowsLastGood
<1>1. IInv /\ [Next]_vars => [output' # output => output' = lastGood]_vars
  <2> SUFFICES ASSUME IInv, [Next]_vars, output' # output
               PROVE  output' = lastGood
    OBVIOUS
  <2>1. PICK p \in Pods : PublishOutput(p)
    BY DEF Next, Step, vars, Build, BuildFails, Lock, LockTimeout,
       WriteTemporary, PublishLastGood, Unlock, Load, WriteRuntimeMain,
       WriteRuntimeNodes, Error, Kill, Restart, Recreate, EditUrls,
       LeaseExpires
  <2> QED
    BY <2>1 DEF PublishOutput, IInv, PairInv
<1> QED
  BY <1>1, Invariance, PTL DEF Spec, OutputFollowsLastGood

-----------------------------------------------------------------------------
(* The refinement.                                                         *)
View == [p \in Pods |-> IF pc[p] = "running" THEN rtNodes[p] ELSE Absent]

(* The initial states are initial states of the register.                  *)
LEMMA InitRefines == Init => Store!Init
  BY DEF Init, Store!Init, Store!Absent

(* What a Pod serves does not change unless a run ends or begins.          *)
LEMMA ViewStable ==
  ASSUME NEW p \in Pods, pc \in [Pods -> Labels],
         UNCHANGED rtNodes,
         NEW label, Goto(p, label), label # "running", pc[p] # "running"
  PROVE  UNCHANGED View
  BY DEF View

(* The rename of nodes-last-good.json is where a snapshot is recorded.     *)
LEMMA PublishRefines ==
  ASSUME IInv, NEW p \in Pods, PublishLastGood(p)
  PROVE  Store!Publish(p)
<1>1. payload[p] \in 1 .. fetches /\ payload[p] \notin past /\ payload[p] > base[p]
  BY DEF IInv, FreshInv, PublishLastGood
<1>2. \A q \in Pods : View[q] = Absent <=> pc[q] # "running"
  BY DEF View, IInv, RecordInv, RuntimeInv
<1>3. UNCHANGED View
  BY ViewStable DEF PublishLastGood, IInv, TypeOK
<1>4. fetches \in Nat
  BY DEF IInv, TypeOK
<1> QED
  BY <1>1, <1>2, <1>3, <1>4 DEF PublishLastGood, Store!Publish, Store!Absent, View

(* The end of a run is where a Pod goes into service.                      *)
LEMMA ServeRefines ==
  ASSUME IInv, NEW p \in Pods, WriteRuntimeNodes(p)
  PROVE  Store!Serve(p)
<1>1. payload[p] \in window[p] \ {Absent}
  BY DEF IInv, AdoptedInv, RecordInv, WriteRuntimeNodes
<1>2. View[p] = Absent
  BY DEF View, WriteRuntimeNodes
<1>3. View' = [View EXCEPT ![p] = payload[p]]
  BY DEF View, WriteRuntimeNodes, IInv, TypeOK
<1> QED
  BY <1>1, <1>2, <1>3 DEF WriteRuntimeNodes, Store!Serve, Store!Absent, View

(* A new run is a new start.                                               *)
LEMMA BeginRefines ==
  ASSUME IInv, NEW p \in Pods, Restart(p) \/ Recreate(p)
  PROVE  Store!Begin(p)
<1>1. Begins(p) /\ UNCHANGED <<lastGood, past>>
  BY DEF Restart, Recreate
<1>2. \A q \in Pods \ {p} : rtNodes'[q] = rtNodes[q]
  BY DEF Restart, Recreate, IInv, TypeOK
<1>3. View' = [View EXCEPT ![p] = Absent]
  BY <1>1, <1>2 DEF View, Begins, IInv, TypeOK
<1> QED
  BY <1>1, <1>3 DEF Begins, Store!Begin, Store!Absent, View

(* Every other step of the detailed system is a stutter of the register.   *)
LEMMA NextRefines == IInv /\ [Next]_vars => [Store!Next]_(Store!vars)
<1> SUFFICES ASSUME IInv, [Next]_vars
             PROVE  Store!Next \/ UNCHANGED <<lastGood, past, base, window, View>>
  BY DEF Store!vars, View, Store!Absent
<1>1. ASSUME NEW p \in Pods, PublishLastGood(p)
      PROVE  Store!Next
  BY <1>1, PublishRefines DEF Store!Next
<1>2. ASSUME NEW p \in Pods, WriteRuntimeNodes(p)
      PROVE  Store!Next
  BY <1>2, ServeRefines DEF Store!Next
<1>3. ASSUME NEW p \in Pods, Restart(p) \/ Recreate(p)
      PROVE  Store!Next
  BY <1>3, BeginRefines DEF Store!Next
<1>4. ASSUME NEW p \in Pods,
             \/ Build(p) \/ BuildFails(p) \/ Lock(p) \/ LockTimeout(p)
             \/ PublishOutput(p) \/ Unlock(p) \/ Load(p) \/ WriteRuntimeMain(p)
             \/ Error(p) \/ Kill(p)
      PROVE  UNCHANGED <<lastGood, past, base, window, View>>
  <2>1. UNCHANGED <<lastGood, past, base, window, rtNodes>>
    BY <1>4 DEF Build, BuildFails, Lock, LockTimeout, PublishOutput, Unlock,
       Load, WriteRuntimeMain, Error, Kill
  <2>2. pc[p] # "running" /\ \E label \in Labels \ {"running"} : Goto(p, label)
    BY <1>4 DEF Build, BuildFails, Lock, LockTimeout, PublishOutput, Unlock,
       Load, WriteRuntimeMain, Error, Kill
  <2> QED
    BY <2>1, <2>2, ViewStable DEF IInv, TypeOK
<1>5. ASSUME NEW p \in Pods, WriteTemporary(p)
      PROVE  UNCHANGED <<lastGood, past, base, window, View>>
  BY <1>5 DEF WriteTemporary, View
<1>6. CASE EditUrls \/ LeaseExpires \/ UNCHANGED vars
  BY <1>6 DEF EditUrls, LeaseExpires, vars, View
<1> QED
  BY <1>1, <1>2, <1>3, <1>4, <1>5, <1>6 DEF Next, Step

(* The detailed design implements the abstract register: the lock, the     *)
(* temporary files, the fallbacks and the restarts do not show.            *)
THEOREM Refinement == Spec => ImplementsStore
  BY InitRefines, NextRefines, Invariance, PTL
  DEF Spec, ImplementsStore, Store!Spec
=============================================================================
