--------------------------- MODULE FluxGraphProofs ---------------------------
(***************************************************************************)
(* Proofs about FluxGraph, for any number of Kustomizations that fail and  *)
(* recover, and whatever the cluster serves when Flux starts.              *)
(***************************************************************************)
EXTENDS FluxGraph, TLAPS

(* A Kustomization that once was ready: what it needed and what its        *)
(* readiness covers is served, also when it has failed since.              *)
WasReady(k) == k \in applied /\ Needs[k] \subseteq served /\ Checks[k] \subseteq served

ReadyIsServed == \A k \in Kustomizations : Ready(k) => WasReady(k)

(* What was applied found what it needed, and its dependencies ready.      *)
AppliedInOrder ==
  \A k \in applied : /\ Needs[k] \subseteq served
                     /\ \A d \in DependsOn[k] : WasReady(d)

IInv == TypeOK /\ ReadyIsServed /\ AppliedInOrder

-----------------------------------------------------------------------------
(* The graph of clusters/kubevirt-cluster-319.                             *)
LEMMA AllKustomizations ==
  Kustomizations =
    {"namespaces", "pre_controllers", "foundation", "core", "networking", "monitoring",
     "general", "controllers", "configs", "snapshots", "identity_providers", "logto",
     "apps", "vms", "runtimes", "logs", "traces", "collectors", "obs_configs"}
BY DEF Kustomizations, DependsOn

(* Every edge of dependsOn leads to a Kustomization of the cluster.        *)
LEMMA EdgesLead ==
  ASSUME NEW k \in Kustomizations
  PROVE  DependsOn[k] \subseteq Kustomizations
<1>1. CASE k \in {"namespaces", "pre_controllers", "foundation"}
  BY <1>1, AllKustomizations DEF DependsOn, base
<1>2. CASE k \in {"core", "networking", "monitoring", "general"}
  BY <1>2, AllKustomizations DEF DependsOn, base
<1>3. CASE k \in {"controllers", "configs", "snapshots", "identity_providers"}
  BY <1>3, AllKustomizations DEF DependsOn, base
<1>4. CASE k \in {"logto", "apps", "vms", "runtimes"}
  BY <1>4, AllKustomizations DEF DependsOn, base
<1>5. CASE k \in {"logs", "traces", "collectors", "obs_configs"}
  BY <1>5, AllKustomizations DEF DependsOn, base
<1> QED BY <1>1, <1>2, <1>3, <1>4, <1>5, AllKustomizations

(* What the readiness of the providers covers.                             *)
LEMMA ChecksOfProviders ==
  /\ "crossplane" \in Checks["pre_controllers"]
  /\ "certmanager" \in Checks["foundation"]
  /\ "istio" \in Checks["core"]
  /\ {"prometheus", "grafana"} \subseteq Checks["monitoring"]
  /\ {"cnpg", "dragonfly"} \subseteq Checks["general"]
  /\ "providers" \in Checks["identity_providers"]
  /\ {"release", "management", "oidc"} \subseteq Checks["logto"]
<1>1. "crossplane" \in Checks["pre_controllers"]
  BY AllKustomizations DEF Checks, Things
<1>2. "certmanager" \in Checks["foundation"]
  BY AllKustomizations DEF Checks, Things
<1>3. "istio" \in Checks["core"]
  BY AllKustomizations DEF Checks, Things
<1>4. {"prometheus", "grafana"} \subseteq Checks["monitoring"]
  BY AllKustomizations DEF Checks
<1>5. {"cnpg", "dragonfly"} \subseteq Checks["general"]
  BY AllKustomizations DEF Checks, Things
<1>6. "providers" \in Checks["identity_providers"]
  BY AllKustomizations DEF Checks, Things
<1>7. {"release", "management", "oidc"} \subseteq Checks["logto"]
  BY AllKustomizations DEF Checks
<1> QED BY <1>1, <1>2, <1>3, <1>4, <1>5, <1>6, <1>7

(* The way from each consumer to the providers of what it needs: at its    *)
(* dependencies, at those of infra-configs, or because infra-configs, or   *)
(* the logs, needed the same.                                              *)
LEMMA ProvidersAreReached ==
  ASSUME AppliedInOrder, NEW k \in Kustomizations \ {"configs", "vms", "foundation"},
         \A d \in DependsOn[k] : WasReady(d)
  PROVE  Needs[k] \subseteq served
<1>1. CASE k \in {"namespaces", "pre_controllers", "monitoring", "snapshots", "controllers"}
  BY <1>1, AllKustomizations DEF Needs
<1>2. CASE k = "identity_providers"
  <2>1. WasReady("pre_controllers") /\ Needs[k] = {"crossplane"}
    BY <1>2, AllKustomizations DEF DependsOn, Needs
  <2> QED BY <2>1, ChecksOfProviders DEF WasReady
<1>3. CASE k = "core"
  <2>1. WasReady("foundation") /\ Needs[k] = {"certmanager"}
    BY <1>3, AllKustomizations DEF DependsOn, Needs, base
  <2> QED BY <2>1, ChecksOfProviders DEF WasReady
<1>4. CASE k = "general"
  <2>1. WasReady("core") /\ Needs[k] = {"istio"}
    BY <1>4, AllKustomizations DEF DependsOn, Needs, base
  <2> QED BY <2>1, ChecksOfProviders DEF WasReady
<1>5. CASE k = "networking"
  <2>1. WasReady("logto") /\ Needs[k] = {"oidc"}
    BY <1>5, AllKustomizations DEF DependsOn, Needs
  <2> QED BY <2>1, ChecksOfProviders DEF WasReady
<1>6. CASE k = "logto"
  <2>1. WasReady("configs") /\ Needs[k] = {"providers", "cnpg", "dragonfly", "istio"}
    BY <1>6, AllKustomizations DEF DependsOn, Needs
  <2>2. {"providers", "cnpg", "dragonfly", "istio"} \subseteq Needs["configs"]
    BY AllKustomizations DEF Needs
  <2> QED BY <2>1, <2>2 DEF WasReady
<1>7. CASE k = "apps"
  <2>1. WasReady("configs") /\ WasReady("logto")
    BY <1>7, AllKustomizations DEF DependsOn
  <2>2. Needs[k] \subseteq Needs["configs"] \cup {"oidc"}
    BY <1>7, AllKustomizations DEF Needs
  <2> QED BY <2>1, <2>2, ChecksOfProviders DEF WasReady
<1>8. CASE k \in {"runtimes", "logs", "traces"}
  <2>1. WasReady("monitoring") /\ Needs[k] = {"grafana", "prometheus"}
    BY <1>8, AllKustomizations DEF DependsOn, Needs
  <2> QED BY <2>1, ChecksOfProviders DEF WasReady
<1>9. CASE k = "collectors"
  <2>1. WasReady("logs") /\ Needs[k] = Needs["logs"]
    BY <1>9, AllKustomizations DEF DependsOn, Needs
  <2> QED BY <2>1 DEF WasReady
<1>10. CASE k = "obs_configs"
  <2>1. WasReady("configs") /\ Needs[k] \subseteq Needs["configs"]
    BY <1>10, AllKustomizations DEF DependsOn, Needs
  <2> QED BY <2>1 DEF WasReady
<1> QED BY <1>1, <1>2, <1>3, <1>4, <1>5, <1>6, <1>7, <1>8, <1>9, <1>10, AllKustomizations

(* Whatever is applied behind the identity gate leads to logto.            *)
LEMMA GateIsLogto ==
  ASSUME AppliedInOrder
  PROVE  IdentityGate
<1> SUFFICES ASSUME applied \cap {"networking", "controllers", "apps", "vms"} # {}
             PROVE  WasReady("logto")
  BY ChecksOfProviders DEF IdentityGate, WasReady
<1>1. /\ "logto" \in DependsOn["networking"] \cap DependsOn["apps"]
      /\ "networking" \in DependsOn["controllers"]
      /\ "controllers" \in DependsOn["vms"]
  BY DEF DependsOn
<1>2. CASE "networking" \in applied \/ "apps" \in applied
  BY <1>1, <1>2 DEF AppliedInOrder
<1>3. CASE "controllers" \in applied
  BY <1>1, <1>2, <1>3 DEF AppliedInOrder, WasReady
<1>4. CASE "vms" \in applied
  BY <1>1, <1>3, <1>4 DEF AppliedInOrder, WasReady
<1> QED BY <1>2, <1>3, <1>4

-----------------------------------------------------------------------------
(* A Kustomization is applied when its dependencies are ready and what it  *)
(* needs is served; nothing that was served or applied goes away.          *)
LEMMA StepInvariant == IInv /\ [Next]_vars => IInv'
<1> SUFFICES ASSUME IInv, [Next]_vars  PROVE IInv'
  OBVIOUS
<1>1. ASSUME NEW k \in Kustomizations, Reconcile(k)
      PROVE  IInv'
  <2>1. /\ status' = [status EXCEPT ![k] = "applied"]
        /\ applied' = applied \cup {k} /\ UNCHANGED <<served, faults>>
        /\ Needs[k] \subseteq served /\ \A d \in DependsOn[k] : Ready(d)
    BY <1>1 DEF Reconcile, Released
  <2>2. TypeOK'
    BY <2>1 DEF IInv, TypeOK
  <2>3. ReadyIsServed'
    BY <2>1 DEF IInv, TypeOK, ReadyIsServed, Ready, WasReady
  <2>4. \A d \in DependsOn[k] : WasReady(d)
    BY <2>1, EdgesLead DEF IInv, ReadyIsServed
  <2>5. AppliedInOrder'
    BY <2>1, <2>4 DEF IInv, AppliedInOrder, WasReady
  <2> QED BY <2>2, <2>3, <2>5 DEF IInv
<1>2. ASSUME NEW k \in Kustomizations, BecomeReady(k)
      PROVE  IInv'
  <2>1. /\ status[k] = "applied" /\ Checks[k] \subseteq served
        /\ status' = [status EXCEPT ![k] = "ready"]
        /\ UNCHANGED <<applied, served, faults>>
    BY <1>2 DEF BecomeReady
  <2>2. TypeOK'
    BY <2>1 DEF IInv, TypeOK
  <2>3. k \in applied /\ Needs[k] \subseteq served
    BY <2>1 DEF IInv, TypeOK, AppliedInOrder
  <2>4. ReadyIsServed'
    BY <2>1, <2>3 DEF IInv, TypeOK, ReadyIsServed, Ready, WasReady
  <2>5. AppliedInOrder'
    BY <2>1 DEF IInv, AppliedInOrder, WasReady
  <2> QED BY <2>2, <2>4, <2>5 DEF IInv
<1>3. ASSUME NEW k \in Kustomizations, Fail(k)
      PROVE  IInv'
  <2>1. /\ status' = [status EXCEPT ![k] = "pending"]
        /\ faults < MaxFaults /\ faults' = faults + 1 /\ UNCHANGED <<applied, served>>
    BY <1>3 DEF Fail
  <2>2. TypeOK'
    BY <2>1, FaultsAssumption DEF IInv, TypeOK
  <2>3. ReadyIsServed' /\ AppliedInOrder'
    BY <2>1 DEF IInv, TypeOK, ReadyIsServed, AppliedInOrder, Ready, WasReady
  <2> QED BY <2>2, <2>3 DEF IInv
<1>4. ASSUME NEW t \in DOMAIN Things, Serve(t)
      PROVE  IInv'
  <2>1. served' = served \cup {t} /\ UNCHANGED <<status, applied, faults>>
    BY <1>4 DEF Serve
  <2>2. TypeOK'
    BY <2>1 DEF IInv, TypeOK
  <2>3. ReadyIsServed' /\ AppliedInOrder'
    BY <2>1 DEF IInv, ReadyIsServed, AppliedInOrder, Ready, WasReady
  <2> QED BY <2>2, <2>3 DEF IInv
<1>5. CASE UNCHANGED vars
  BY <1>5 DEF vars, IInv, TypeOK, ReadyIsServed, AppliedInOrder, Ready, WasReady
<1> QED BY <1>1, <1>2, <1>3, <1>4, <1>5 DEF Next

(* Providers are served before consumers are released, and the identity    *)
(* gate holds, whatever fails and recovers.                                *)
THEOREM AlwaysReleasedInOrder == Spec => []ReleasedInOrder
<1>1. Init => IInv
  BY FaultsAssumption, InstalledAssumption
     DEF Init, IInv, TypeOK, ReadyIsServed, AppliedInOrder, Ready
<1>2. IInv => ReleasedInOrder
  <2> SUFFICES ASSUME IInv  PROVE TypeOK /\ ProvidersFirst /\ IdentityGate
    BY DEF ReleasedInOrder
  <2>1. ProvidersFirst
    <3> SUFFICES ASSUME NEW k \in Kustomizations \ {"configs", "vms", "foundation"}, Released(k)
                 PROVE  Needs[k] \subseteq served
      BY DEF ProvidersFirst
    <3>1. \A d \in DependsOn[k] : WasReady(d)
      BY EdgesLead DEF IInv, ReadyIsServed, Released
    <3> QED BY <3>1, ProvidersAreReached DEF IInv
  <2> QED BY <2>1, GateIsLogto DEF IInv
<1> QED BY <1>1, <1>2, StepInvariant, PTL DEF Spec
=============================================================================
