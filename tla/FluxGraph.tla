----------------------------- MODULE FluxGraph -----------------------------
(***************************************************************************)
(* The Flux Kustomizations of clusters/kubevirt-cluster-319: what each     *)
(* waits for (dependsOn), which APIs its manifests and which Secrets its   *)
(* substitutions need, what makes it ready (wait, healthChecks), and how   *)
(* kustomize-controller reconciles them.                                   *)
(*                                                                         *)
(* A thing is an API or a Secret that a controller serves some time after  *)
(* the Kustomization with its chart, operator or resource was applied, and *)
(* from then on.  APIs whose CRDs are plain manifests of a dependency, and *)
(* those of Flux and of Cilium, which Terraform installs, are left out.    *)
(***************************************************************************)
EXTENDS Integers, FiniteSets

CONSTANTS
  Installed, \* the things the cluster serves when Flux starts
  MaxFaults  \* bound on the Kustomizations that fail after they were ready

ASSUME FaultsAssumption == MaxFaults \in Nat

base == {"namespaces", "pre_controllers", "foundation"}

(* dependsOn, without the common prefixes of the names.                    *)
DependsOn ==
  [namespaces      |-> {},
   pre_controllers |-> {"namespaces"},
   foundation      |-> {"namespaces", "pre_controllers"},
   core            |-> base,
   networking      |-> {"core", "logto"},
   monitoring      |-> base,
   general         |-> base \cup {"core", "monitoring"},
   controllers     |-> base \cup {"networking", "monitoring", "general"},
   configs         |-> {"general", "core", "identity_providers"},
   snapshots       |-> {"foundation"},
   identity_providers |-> {"pre_controllers"},
   logto           |-> {"configs", "identity_providers"},
   apps            |-> {"namespaces", "controllers", "configs", "logto"},
   vms             |-> {"namespaces", "controllers", "configs"},
   runtimes        |-> {"monitoring"},
   logs            |-> {"monitoring"},
   traces          |-> {"monitoring"},
   collectors      |-> {"logs", "traces"},
   obs_configs     |-> {"runtimes", "configs"}]

Kustomizations == DOMAIN DependsOn

(* Which Kustomization brings a thing, and which other things its          *)
(* controller needs to serve it.  "management" is the connection of        *)
(* Crossplane to Logto, which somebody makes by hand once Logto runs.      *)
Things ==
  [crossplane   |-> [by |-> "pre_controllers", needs |-> {}],
   longhorn     |-> [by |-> "foundation", needs |-> {}],
   certmanager  |-> [by |-> "foundation", needs |-> {}],
   istio        |-> [by |-> "core", needs |-> {}],
   prometheus   |-> [by |-> "monitoring", needs |-> {}],
   grafana      |-> [by |-> "monitoring", needs |-> {}],
   victoria     |-> [by |-> "monitoring", needs |-> {"prometheus"}],
   cnpg         |-> [by |-> "general", needs |-> {"certmanager"}],
   dragonfly    |-> [by |-> "general", needs |-> {}],
   providers    |-> [by |-> "identity_providers", needs |-> {"crossplane"}],
   instancetype |-> [by |-> "configs", needs |-> {}],
   nad          |-> [by |-> "configs", needs |-> {}],
   release      |-> [by |-> "logto", needs |-> {"cnpg", "dragonfly", "longhorn"}],
   management   |-> [by |-> "logto", needs |-> {"release"}],
   oidc         |-> [by |-> "configs", needs |-> {"management", "providers"}]]

ASSUME InstalledAssumption == Installed \subseteq DOMAIN Things

(* The things without which the server-side dry run of its manifests, or   *)
(* its substitution, fails.                                                *)
Needs ==
  [k \in Kustomizations |->
    CASE k = "foundation"         -> {"longhorn"}
      [] k = "identity_providers" -> {"crossplane"}
      [] k = "core"               -> {"certmanager"}
      [] k = "general"            -> {"istio"}
      [] k = "configs"  -> {"istio", "certmanager", "cnpg", "dragonfly", "grafana",
                            "prometheus", "victoria", "providers"}
      [] k = "logto"    -> {"providers", "cnpg", "dragonfly", "istio"}
      [] k = "networking" -> {"oidc"}
      [] k = "apps"     -> {"oidc", "providers", "cnpg", "dragonfly", "grafana",
                            "prometheus", "victoria", "istio"}
      [] k = "vms"      -> {"instancetype", "nad"}
      [] k \in {"runtimes", "logs", "traces", "collectors"} -> {"grafana", "prometheus"}
      [] k = "obs_configs" -> {"grafana", "prometheus", "istio"}
      [] OTHER -> {}]

(* Mutant: infra-configs with wait, which then waits for the clients that  *)
(* are made only when Logto, which depends on it, runs.                    *)
ChecksWithWait ==
  [k \in Kustomizations |->
    CASE k = "monitoring" -> {"prometheus", "grafana"}
      [] k = "logto"      -> {"release", "management", "oidc"}
      [] OTHER            -> {t \in DOMAIN Things : Things[t].by = k}]

(* What its readiness covers: everything of its own with wait, the named   *)
(* ones with healthChecks, nothing for configs, which has neither.         *)
Checks ==
  [k \in Kustomizations |->
    CASE k = "configs"    -> {}
      [] k = "monitoring" -> {"prometheus", "grafana"}
      [] k = "logto"      -> {"release", "management", "oidc"}
      [] OTHER            -> {t \in DOMAIN Things : Things[t].by = k}]

VARIABLES
  status,  \* pending, applied (its health is awaited), ready
  applied, \* the Kustomizations whose objects are in the cluster
  served,  \* the things that are served
  faults

vars == <<status, applied, served, faults>>

TypeOK ==
  /\ status \in [Kustomizations -> {"pending", "applied", "ready"}]
  /\ applied \subseteq Kustomizations
  /\ \A k \in Kustomizations : status[k] # "pending" => k \in applied
  /\ served \subseteq DOMAIN Things
  /\ faults \in 0 .. MaxFaults

Init ==
  /\ status = [k \in Kustomizations |-> "pending"]
  /\ applied = {}
  /\ served = Installed
  /\ faults = 0

-----------------------------------------------------------------------------
Ready(k) == status[k] = "ready"
(* Mutant: infra-controllers loses its edge to the networking stage.       *)
ReleasedWithoutNetworking(k) == \A d \in DependsOn[k] \ {"networking"} : Ready(d)

Released(k) == \A d \in DependsOn[k] : Ready(d)

(* A reconciliation that gets through: the dependencies are ready and the  *)
(* dry run of all objects succeeds.  One that does not changes nothing and *)
(* is repeated after retryInterval.                                        *)
Reconcile(k) ==
  /\ status[k] = "pending"
  /\ Released(k)
  /\ Needs[k] \subseteq served
  /\ status' = [status EXCEPT ![k] = "applied"]
  /\ applied' = applied \cup {k}
  /\ UNCHANGED <<served, faults>>

BecomeReady(k) ==
  /\ status[k] = "applied"
  /\ Checks[k] \subseteq served
  /\ status' = [status EXCEPT ![k] = "ready"]
  /\ UNCHANGED <<applied, served, faults>>

(* A controller of the cluster serves a thing.                             *)
Serve(t) ==
  /\ t \notin served
  /\ Things[t].by \in applied
  /\ Things[t].needs \subseteq served
  /\ served' = served \cup {t}
  /\ UNCHANGED <<status, applied, faults>>

(* A later reconciliation fails or its timeout passes.                     *)
Fail(k) ==
  /\ faults < MaxFaults
  /\ status[k] # "pending"
  /\ status' = [status EXCEPT ![k] = "pending"]
  /\ faults' = faults + 1
  /\ UNCHANGED <<applied, served>>

Next ==
  \/ \E k \in Kustomizations : Reconcile(k) \/ BecomeReady(k) \/ Fail(k)
  \/ \E t \in DOMAIN Things : Serve(t)

(* kustomize-controller retries for ever, the other controllers do their   *)
(* part, and somebody connects Crossplane to Logto.                        *)
Fairness ==
  /\ \A k \in Kustomizations : WF_vars(Reconcile(k)) /\ WF_vars(BecomeReady(k))
  /\ \A t \in DOMAIN Things : WF_vars(Serve(t))

Spec == Init /\ [][Next]_vars
FairSpec == Spec /\ Fairness

-----------------------------------------------------------------------------
(* dependsOn orders providers before consumers: when the dependencies of a *)
(* Kustomization are ready, what it needs is served.  The exceptions rely  *)
(* on retries: configs on the VictoriaMetrics operator, which no health    *)
(* check covers, vms on operators that configs brings without waiting, and *)
(* foundation on the CRDs of its own chart.                                *)
ProvidersFirst ==
  \A k \in Kustomizations \ {"configs", "vms", "foundation"} :
    Released(k) => Needs[k] \subseteq served

(* bootstrap/README.md: logto "waits for the Kubernetes Application and    *)
(* its connection Secret before releasing Kiali and the remaining          *)
(* application phases".  That holds along every chain of dependencies, and *)
(* when Kustomizations fail and recover meanwhile.                         *)
IdentityGate ==
  applied \cap {"networking", "controllers", "apps", "vms"} # {} =>
    {"release", "management", "oidc"} \subseteq served

(* What is released finds what it needs, in every order of events.         *)
ReleasedInOrder == TypeOK /\ ProvidersFirst /\ IdentityGate

(* Claimed by bootstrap/README.md: "Flux follows the declared dependencies *)
(* automatically".  What is ready to be released is applied in time.       *)
FollowsDependencies == \A k \in Kustomizations : Released(k) ~> k \in applied

(* A cluster that serves what foundation itself brings, one that has had   *)
(* Longhorn before, gets there: every Kustomization becomes ready in the   *)
(* end and stays so, whichever of them fails on the way.  On a fresh       *)
(* cluster foundation is never applied: see FollowsDependencies.           *)
Converges == <>[](\A k \in Kustomizations : Ready(k))
=============================================================================
