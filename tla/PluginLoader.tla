---------------------------- MODULE PluginLoader ----------------------------
(***************************************************************************)
(* The Envoy plugin on its way to the proxies, as the manifests generated  *)
(* by scripts/network/native/envoy/prepare_runtime.py arrange it: a        *)
(* DaemonSet whose init container installs the module of a release in a    *)
(* directory of the node named after it, injection templates that mount    *)
(* that file and mark the proxy with the release, and a filter that        *)
(* matches the mark.  Flux applies the three at different times.           *)
(*                                                                         *)
(* Releases are numbered.  A proxy is on one node from its creation; its   *)
(* rollout is a new creation.  A rename is durable once mv has ended.      *)
(* prepare_runtime.py makes releases that match; another has modules that  *)
(* were replaced without it.                                               *)
(***************************************************************************)
EXTENDS Integers

CONSTANTS
  Nodes, Proxies,
  Matching,   \* the releases whose binaries have the digests of the script
  MaxRelease, \* bound on the releases
  MaxKills    \* bound on the installs that are killed

ASSUME BoundsAssumption == MaxRelease \in Nat \ {0} /\ MaxKills \in Nat

Releases == 1 .. MaxRelease

VARIABLES
  git,     \* the release that is committed
  loader,  \* that of the DaemonSet and its ConfigMap
  values,  \* that of istiod's injection templates
  filter,  \* that the EnvoyFilter matches
  module,  \* server-timing.so of a release on a node: absent, torn, other, whole
  next,    \* server-timing.next: the same
  locked,  \* server-timing.next is read-only
  pod,     \* the loader on a node: its release and where its script is
  proxy,   \* a proxy: its node, its release and its phase
  kills

vars == <<git, loader, values, filter, module, next, locked, pod, proxy, kills>>
applied == <<git, loader, values, filter>>
disk == <<module, next, locked>>

TypeOK ==
  /\ git \in Releases /\ loader \in Releases /\ values \in Releases /\ filter \in Releases
  /\ module \in [Nodes -> [Releases -> {"absent", "torn", "other", "whole"}]]
  /\ next \in [Nodes -> [Releases -> {"absent", "torn", "other", "whole"}]]
  /\ locked \in [Nodes -> [Releases -> BOOLEAN]]
  /\ pod \in [Nodes -> [rel : Releases,
       pc : {"none", "test", "copy", "check", "chmod", "mv", "final", "ready"}]]
  /\ proxy \in [Proxies -> [node : Nodes, rel : Releases,
       phase : {"none", "pending", "running"}]]
  /\ kills \in 0 .. MaxKills

Init ==
  /\ git = 1 /\ loader = 1 /\ values = 1 /\ filter = 1
  /\ module = [n \in Nodes |-> [r \in Releases |-> "absent"]]
  /\ next = module
  /\ locked = [n \in Nodes |-> [r \in Releases |-> FALSE]]
  /\ pod = [n \in Nodes |-> [rel |-> 1, pc |-> "none"]]
  /\ proxy \in [Proxies -> [node : Nodes, rel : {1}, phase : {"none"}]]
  /\ kills = 0

-----------------------------------------------------------------------------
(* Flux and helm-controller.  The loader and the values are in one         *)
(* Kustomization, the istiod release is upgraded after it was applied; the *)
(* filter is in another.                                                   *)
Commit ==
  /\ git < MaxRelease
  /\ git' = git + 1
  /\ UNCHANGED <<loader, values, filter, disk, pod, proxy, kills>>

ApplyLoader ==
  /\ loader # git
  /\ loader' = git
  /\ UNCHANGED <<git, values, filter, disk, pod, proxy, kills>>

UpgradeIstiod ==
  /\ values # loader
  /\ values' = loader
  /\ UNCHANGED <<git, loader, filter, disk, pod, proxy, kills>>

ApplyFilter ==
  /\ filter # git
  /\ filter' = git
  /\ UNCHANGED <<git, loader, values, disk, pod, proxy, kills>>

(* The DaemonSet controller creates the pod of a node, or replaces the pod *)
(* of an earlier template.                                                 *)
Schedule(n) ==
  /\ pod[n].pc = "none" \/ pod[n].rel # loader
  /\ pod' = [pod EXCEPT ![n] = [rel |-> loader, pc |-> "test"]]
  /\ UNCHANGED <<applied, disk, proxy, kills>>

-----------------------------------------------------------------------------
(* The script of the init container, a command a step.                     *)
At(n, pc) == pod[n].pc = pc
To(n, pc) == pod' = [pod EXCEPT ![n].pc = pc]

Test(n) ==
  /\ At(n, "test")
  /\ To(n, IF module[n][pod[n].rel] = "absent" THEN "copy" ELSE "final")
  /\ UNCHANGED <<applied, disk, proxy, kills>>

Binary(r) == IF r \in Matching THEN "whole" ELSE "other"

(* Mutant: cp cannot open a file that is read-only.                        *)
CopyOverWritable(n) ==
  LET r == pod[n].rel IN
  /\ At(n, "copy")
  /\ ~locked[n][r]
  /\ next' = [next EXCEPT ![n][r] = Binary(r)]
  /\ locked' = [locked EXCEPT ![n][r] = FALSE]
  /\ To(n, "check")
  /\ UNCHANGED <<applied, module, proxy, kills>>

(* cp unlinks a read-only file of a killed install.                        *)
Copy(n) ==
  LET r == pod[n].rel IN
  /\ At(n, "copy")
  /\ next' = [next EXCEPT ![n][r] = Binary(r)]
  /\ locked' = [locked EXCEPT ![n][r] = FALSE]
  /\ To(n, "check")
  /\ UNCHANGED <<applied, module, proxy, kills>>

(* Mutant: the digest is checked only after the move.                      *)
CheckLater(n) ==
  /\ At(n, "check")
  /\ To(n, "chmod")
  /\ UNCHANGED <<applied, disk, proxy, kills>>

(* sha256sum -c; under sh -e a mismatch ends the container.                *)
Check(n) ==
  /\ At(n, "check")
  /\ To(n, IF next[n][pod[n].rel] = "whole" THEN "chmod" ELSE "test")
  /\ UNCHANGED <<applied, disk, proxy, kills>>

Chmod(n) ==
  /\ At(n, "chmod")
  /\ locked' = [locked EXCEPT ![n][pod[n].rel] = TRUE]
  /\ To(n, "mv")
  /\ UNCHANGED <<applied, module, next, proxy, kills>>

Move(n) ==
  LET r == pod[n].rel IN
  /\ At(n, "mv")
  /\ module' = [module EXCEPT ![n][r] = next[n][r]]
  /\ next' = [next EXCEPT ![n][r] = "absent"]
  /\ locked' = [locked EXCEPT ![n][r] = FALSE]
  /\ To(n, "final")
  /\ UNCHANGED <<applied, proxy, kills>>

Final(n) ==
  /\ At(n, "final")
  /\ To(n, IF module[n][pod[n].rel] = "whole" THEN "ready" ELSE "test")
  /\ UNCHANGED <<applied, disk, proxy, kills>>

(* The container or the node goes down; kubelet starts the script again.   *)
(* cp leaves a part of the file when it is the one that is cut short.      *)
Kill(n) ==
  /\ kills < MaxKills
  /\ pod[n].pc # "none"
  /\ kills' = kills + 1
  /\ To(n, "test")
  /\ \/ UNCHANGED next
     \/ At(n, "copy") /\ next' = [next EXCEPT ![n][pod[n].rel] = "torn"]
  /\ UNCHANGED <<applied, module, locked, proxy>>

Script(n) == Test(n) \/ Copy(n) \/ Check(n) \/ Chmod(n) \/ Move(n) \/ Final(n)

-----------------------------------------------------------------------------
(* A proxy is created, or its workload rolled out: the template of istiod  *)
(* at that moment names the file and sets the mark.                        *)
Inject(p, n) ==
  /\ proxy' = [proxy EXCEPT ![p] = [node |-> n, rel |-> values, phase |-> "pending"]]
  /\ UNCHANGED <<applied, disk, pod, kills>>

(* hostPath type File: kubelet waits for the file to exist.                *)
Mount(p) ==
  /\ proxy[p].phase = "pending"
  /\ module[proxy[p].node][proxy[p].rel] # "absent"
  /\ proxy' = [proxy EXCEPT ![p].phase = "running"]
  /\ UNCHANGED <<applied, disk, pod, kills>>

(* The EnvoyFilter is in the configuration istiod gives to the proxy.      *)
FilterOn(p) == proxy[p].phase = "running" /\ proxy[p].rel = filter

Next ==
  \/ Commit \/ ApplyLoader \/ UpgradeIstiod \/ ApplyFilter
  \/ \E n \in Nodes : Schedule(n) \/ Script(n) \/ Kill(n)
  \/ \E p \in Proxies : Mount(p) \/ \E n \in Nodes : Inject(p, n)

Spec == Init /\ [][Next]_vars

(* Flux and the controllers retry for ever, and kubelet runs the script    *)
(* and mounts; nobody has to roll a workload out.                          *)
Fairness ==
  /\ WF_vars(ApplyLoader) /\ WF_vars(UpgradeIstiod) /\ WF_vars(ApplyFilter)
  /\ \A n \in Nodes : WF_vars(Schedule(n)) /\ WF_vars(Script(n))
  /\ \A p \in Proxies : WF_vars(Mount(p))

FairSpec == Spec /\ Fairness

-----------------------------------------------------------------------------
(* README: "installs an immutable versioned module once".  Whatever is     *)
(* killed, and also for binaries that are not those of the release, a file *)
(* that can be mounted is the module.                                      *)
ModulesAreWhole ==
  \A n \in Nodes, r \in Releases : module[n][r] \in {"absent", "whole"}

(* A proxy with the filter runs on a node that has the module of the       *)
(* filter's release, however the loader, the templates and the filter are  *)
(* out of step.                                                            *)
FilterFindsItsModule ==
  \A p \in Proxies : FilterOn(p) => module[proxy[p].node][filter] = "whole"

(* What a proxy can mount, and what its filter loads, is a whole module.   *)
ModulesAreMountable == TypeOK /\ ModulesAreWhole /\ FilterFindsItsModule

(* Every node ends with a ready loader of the newest release, also after   *)
(* kills between any two commands and after a release that did not match.  *)
LoadersBecomeReady ==
  <>[](git \in Matching => \A n \in Nodes : pod[n] = [rel |-> git, pc |-> "ready"])

(* A proxy that was injected with the loader's release starts, unless the  *)
(* loader goes on to another release first.                                *)
ProxiesStart ==
  \A p \in Proxies :
    proxy[p].phase = "pending" /\ proxy[p].rel = loader /\ loader \in Matching
      ~> proxy[p].phase = "running" \/ proxy[p].rel # loader

(* The distribution gets through in the end, to loaders and to proxies.    *)
GetsThrough == LoadersBecomeReady /\ ProxiesStart
=============================================================================
