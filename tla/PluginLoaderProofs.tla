------------------------- MODULE PluginLoaderProofs -------------------------
(***************************************************************************)
(* What PluginLoader promises of the files and the filter, proved for any  *)
(* set of nodes, proxies, releases and kills.                              *)
(*                                                                         *)
(* The invariant: between the check and the move the temporary file is the *)
(* module of the release, so that mv can only install a whole one; and a   *)
(* running proxy has its module, which no install ever takes away again.   *)
(***************************************************************************)
EXTENDS PluginLoader, TLAPS

CheckedIsWhole ==
  \A n \in Nodes : pod[n].pc \in {"chmod", "mv"} => next[n][pod[n].rel] = "whole"

RunningHasModule ==
  \A p \in Proxies : proxy[p].phase = "running" =>
    module[proxy[p].node][proxy[p].rel] # "absent"

IInv == TypeOK /\ ModulesAreWhole /\ CheckedIsWhole /\ RunningHasModule

LEMMA InitHolds == Init => IInv
  BY BoundsAssumption DEF Init, IInv, TypeOK, ModulesAreWhole, CheckedIsWhole,
     RunningHasModule, Releases

-----------------------------------------------------------------------------
(* What Flux applies is not read by the invariant.                         *)
LEMMA ApplyKeeps ==
  ASSUME IInv, Commit \/ ApplyLoader \/ UpgradeIstiod \/ ApplyFilter
  PROVE  IInv'
<1>1. TypeOK'
  BY BoundsAssumption DEF IInv, TypeOK, Commit, ApplyLoader, UpgradeIstiod,
     ApplyFilter, Releases, disk
<1>2. UNCHANGED <<module, next, pod, proxy>>
  BY DEF Commit, ApplyLoader, UpgradeIstiod, ApplyFilter, disk
<1> QED
  BY <1>1, <1>2 DEF IInv, ModulesAreWhole, CheckedIsWhole, RunningHasModule

(* A new loader pod begins its script from the start.                      *)
LEMMA ScheduleKeeps ==
  ASSUME IInv, NEW n \in Nodes, Schedule(n)
  PROVE  IInv'
<1> USE DEF Schedule, applied, disk
<1>1. TypeOK'
  BY DEF IInv, TypeOK
<1>2. CheckedIsWhole'
  BY DEF IInv, TypeOK, CheckedIsWhole
<1> QED
  BY <1>1, <1>2 DEF IInv, ModulesAreWhole, RunningHasModule

(* The commands that write no module only move the script along; chmod is  *)
(* reached through the check.                                              *)
LEMMA CommandKeeps ==
  ASSUME IInv, NEW n \in Nodes, Test(n) \/ Check(n) \/ Chmod(n) \/ Final(n)
  PROVE  IInv'
<1> DEFINE pcs == {"none", "test", "copy", "check", "chmod", "mv", "final", "ready"}
<1>1. PICK pc \in pcs : To(n, pc)
  BY DEF Test, Check, Chmod, Final
<1>2. UNCHANGED <<applied, module, next, proxy, kills>>
  BY DEF Test, Check, Chmod, Final, disk
<1>3. locked' \in [Nodes -> [Releases -> BOOLEAN]]
  <2>1. CASE Chmod(n)
    BY <2>1 DEF IInv, TypeOK, Chmod
  <2>2. CASE Test(n) \/ Check(n) \/ Final(n)
    BY <2>2 DEF IInv, TypeOK, Test, Check, Final, disk
  <2> QED  BY <2>1, <2>2
<1>4. TypeOK'
  BY <1>1, <1>2, <1>3, ZenonT(40) DEF IInv, TypeOK, To, applied
<1>5. To(n, "chmod") \/ To(n, "mv") => next[n][pod[n].rel] = "whole"
  BY DEF IInv, TypeOK, CheckedIsWhole, Test, Check, Chmod, Final, At, To
<1>6. CheckedIsWhole'
  BY <1>1, <1>2, <1>5, ZenonT(40) DEF IInv, TypeOK, CheckedIsWhole, To
<1> QED
  BY <1>2, <1>4, <1>6 DEF IInv, ModulesAreWhole, RunningHasModule

(* cp writes the temporary file of a release, which only the pod of this   *)
(* node can have checked, and that pod is at the copy.                     *)
LEMMA CopyKeeps ==
  ASSUME IInv, NEW n \in Nodes, Copy(n)
  PROVE  IInv'
<1> USE DEF Copy, At, To, applied
<1>1. TypeOK'
  BY ZenonT(40) DEF IInv, TypeOK, Binary
<1>2. CheckedIsWhole'
  BY DEF IInv, TypeOK, CheckedIsWhole
<1> QED
  BY <1>1, <1>2 DEF IInv, ModulesAreWhole, RunningHasModule

(* mv installs what was checked.                                           *)
LEMMA MoveKeeps ==
  ASSUME IInv, NEW n \in Nodes, Move(n)
  PROVE  IInv'
<1> USE DEF Move, At, To, applied
<1>1. next[n][pod[n].rel] = "whole"
  BY DEF IInv, CheckedIsWhole
<1>2. TypeOK'
  BY <1>1 DEF IInv, TypeOK
<1>3. ModulesAreWhole' /\ RunningHasModule'
  BY <1>1 DEF IInv, TypeOK, ModulesAreWhole, RunningHasModule
<1>4. CheckedIsWhole'
  BY DEF IInv, TypeOK, CheckedIsWhole
<1> QED
  BY <1>2, <1>3, <1>4 DEF IInv

(* A kill tears at most the temporary file, and the script starts again.   *)
LEMMA KillKeeps ==
  ASSUME IInv, NEW n \in Nodes, Kill(n)
  PROVE  IInv'
<1>1. kills' \in 0 .. MaxKills
  BY BoundsAssumption DEF IInv, TypeOK, Kill
<1>2. next' \in [Nodes -> [Releases -> {"absent", "torn", "other", "whole"}]]
  <2>1. CASE UNCHANGED next
    BY <2>1 DEF IInv, TypeOK
  <2>2. CASE next' = [next EXCEPT ![n][pod[n].rel] = "torn"]
    BY <2>2 DEF IInv, TypeOK
  <2> QED  BY <2>1, <2>2 DEF Kill
<1>3. /\ UNCHANGED <<git, loader, values, filter, module, locked, proxy>>
      /\ pod' = [pod EXCEPT ![n].pc = "test"]
  BY DEF Kill, To, applied
<1>4. TypeOK'
  <2>1. pod' \in [Nodes -> [rel : Releases,
          pc : {"none", "test", "copy", "check", "chmod", "mv", "final", "ready"}]]
    BY <1>3, ZenonT(40) DEF IInv, TypeOK
  <2> QED  BY <1>1, <1>2, <1>3, <2>1 DEF IInv, TypeOK
<1>5. \A m \in Nodes \ {n} : next'[m] = next[m]
  BY DEF IInv, TypeOK, Kill
<1>6. CheckedIsWhole'
  BY <1>3, <1>5 DEF IInv, TypeOK, CheckedIsWhole
<1> QED
  BY <1>3, <1>4, <1>6 DEF IInv, ModulesAreWhole, RunningHasModule

(* A proxy is running only once its module could be mounted.               *)
LEMMA ProxyKeeps ==
  ASSUME IInv, NEW p \in Proxies, Mount(p) \/ \E n \in Nodes : Inject(p, n)
  PROVE  IInv'
<1>1. UNCHANGED <<applied, disk, pod, kills>>
  BY DEF Mount, Inject
<1>2. \E new \in [node : Nodes, rel : Releases, phase : {"none", "pending", "running"}] :
        /\ proxy' = [proxy EXCEPT ![p] = new]
        /\ new.phase = "running" => module[new.node][new.rel] # "absent"
  <2>1. CASE Mount(p)
    <3> DEFINE new == [proxy[p] EXCEPT !.phase = "running"]
    <3>1. new \in [node : Nodes, rel : Releases, phase : {"none", "pending", "running"}]
      BY DEF IInv, TypeOK
    <3>2. /\ proxy' = [proxy EXCEPT ![p] = new]
          /\ module[new.node][new.rel] # "absent"
      BY <2>1 DEF IInv, TypeOK, Mount
    <3> QED  BY <3>1, <3>2
  <2>2. ASSUME NEW n \in Nodes, Inject(p, n)
        PROVE  \E new \in [node : Nodes, rel : Releases, phase : {"none", "pending", "running"}] :
                 /\ proxy' = [proxy EXCEPT ![p] = new]
                 /\ new.phase = "running" => module[new.node][new.rel] # "absent"
    <3> DEFINE fresh == [node |-> n, rel |-> values, phase |-> "pending"]
    <3>1. fresh \in [node : Nodes, rel : Releases, phase : {"none", "pending", "running"}]
      BY DEF IInv, TypeOK
    <3>2. proxy' = [proxy EXCEPT ![p] = fresh] /\ fresh.phase # "running"
      BY <2>2 DEF Inject
    <3> QED  BY <3>1, <3>2
  <2> QED  BY <2>1, <2>2
<1>3. PICK new \in [node : Nodes, rel : Releases, phase : {"none", "pending", "running"}] :
        /\ proxy' = [proxy EXCEPT ![p] = new]
        /\ new.phase = "running" => module[new.node][new.rel] # "absent"
  BY <1>2
<1>4. TypeOK'
  BY <1>1, <1>3 DEF IInv, TypeOK, applied, disk
<1>5. RunningHasModule'
  BY <1>1, <1>3 DEF IInv, TypeOK, RunningHasModule, applied, disk
<1> QED
  BY <1>1, <1>4, <1>5 DEF IInv, ModulesAreWhole, CheckedIsWhole, applied, disk

-----------------------------------------------------------------------------
(* Every step of the loader, the proxies and Flux keeps the invariant.     *)
LEMMA StepKeeps == IInv /\ [Next]_vars => IInv'
<1> SUFFICES ASSUME IInv, [Next]_vars PROVE IInv'
  OBVIOUS
<1>1. CASE Next
  BY <1>1, ApplyKeeps, ScheduleKeeps, CommandKeeps, CopyKeeps, MoveKeeps,
     KillKeeps, ProxyKeeps DEF Next, Script
<1>2. CASE UNCHANGED vars
  BY <1>2 DEF IInv, TypeOK, ModulesAreWhole, CheckedIsWhole, RunningHasModule,
     vars, applied, disk
<1> QED
  BY <1>1, <1>2

(* The invariant holds in every reachable state.                           *)
THEOREM Invariant == Spec => []IInv
  BY InitHolds, StepKeeps, PTL DEF Spec

(* However many nodes there are, whatever is killed, replaced without its  *)
(* digests or out of step: a file that a proxy can mount is the module of  *)
(* its release, and a proxy that has the filter has that file.             *)
THEOREM OnlyModulesAreMounted == Spec => []ModulesAreMountable
<1>1. IInv => FilterFindsItsModule
  BY DEF IInv, TypeOK, ModulesAreWhole, RunningHasModule, FilterFindsItsModule,
     FilterOn
<1>2. IInv => ModulesAreMountable
  BY <1>1 DEF IInv, ModulesAreMountable
<1> QED
  BY <1>2, Invariant, PTL
=============================================================================
