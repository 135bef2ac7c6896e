------------------------------ MODULE ImageMap ------------------------------
(***************************************************************************)
(* scripts/gen-image-lock.py, from what flux-local lists and renders to    *)
(* the map of images: who brings each image (sources), through which       *)
(* Kustomizations (sourceChains), and which workloads run it (targets).    *)
(*                                                                         *)
(* An image absent from the map has nothing in any section.  The lists of  *)
(* a section are sets, since sort_and_deduplicate makes the same list of   *)
(* the same items, but a chain is a sequence.  A path is the sequence of   *)
(* its directories, empty when it is missing; labels that name an owner    *)
(* are <<namespace, name>> or None.                                        *)
(***************************************************************************)
EXTENDS Integers, FiniteSets, Sequences, SequencesExt

CONSTANTS
  Images,
  Inputs, \* what flux-local lists and renders, with the arguments
  Labels, \* names, namespaces and kinds
  Directories,
  None    \* a label or a namespace that is missing

VARIABLES
  input,    \* ks, objects, allowed (--namespaces), extra (--extra-images)
  listed,   \* the Kustomizations in flux-local's order
  imageMap,
  phase     \* the pass that comes next

vars == <<input, listed, imageMap, phase>>

Unknown == "unknown ns"
Namespace(x) == IF x.ns = None THEN Unknown ELSE x.ns
Item(kind, x) == [kind |-> kind, ns |-> Namespace(x), name |-> x.name]

(* What flux-local lists and renders.                                      *)
Releases == [ns : Labels \cup {None}, name : Labels, images : SUBSET Images]
Kustomizations == [ns : Labels \cup {None}, name : Labels, path : Seq(Directories),
                   images : SUBSET Images, releases : SUBSET Releases]
Objects == [kind : Labels, ns : Labels \cup {None}, name : Labels, images : SUBSET Images,
            annotated : SUBSET Images,
            release : (Labels \X Labels) \cup {None}, owner : (Labels \X Labels) \cup {None}]

Nothing == [sources |-> {}, chains |-> {}, targets |-> {}]
Orders(S) == {s \in [1 .. Cardinality(S) -> S] : ToSet(s) = S}

-----------------------------------------------------------------------------
(* The Kustomizations of S whose path is above that of k.                  *)
Above(S, k) == {p \in S : p.path # k.path /\ p.path # <<>> /\ IsPrefix(p.path, k.path)}

(* The parents of k are those above it, innermost first; of two with one   *)
(* path the first listed comes first.                                      *)
Listed(ks, k) == CHOOSE n \in DOMAIN ks : ks[n] = k
Before(ks, p, q) ==
  \/ Len(p.path) > Len(q.path)
  \/ Len(p.path) = Len(q.path) /\ Listed(ks, p) < Listed(ks, q)

(* Mutant: in the order of the listing.                                    *)
ParentsAsListed(ks, k) ==
  SelectSeq(ks, LAMBDA p : p.path # k.path /\ p.path # <<>> /\ IsPrefix(p.path, k.path))

Parents(ks, k) ==
  LET above == Above(ToSet(ks), k)
      upto(q) == {p \in above : p = q \/ Before(ks, p, q)}
  IN [n \in 1 .. Cardinality(above) |-> CHOOSE q \in above : Cardinality(upto(q)) = n]

KItem(k) == Item("Kustomization", k)
KChain(ks, k) ==
  LET ps == Parents(ks, k) IN <<KItem(k)>> \o [n \in DOMAIN ps |-> KItem(ps[n])]

(* A release without a namespace is in that of its Kustomization.          *)
HItem(h, k) == Item("HelmRelease", IF h.ns = None THEN [h EXCEPT !.ns = k.ns] ELSE h)

HChain(ks, h, k) == <<HItem(h, k)>> \o KChain(ks, k)

(* process_cluster_sources, as what each image gets of it.                 *)
ClusterSources(ks) ==
  LET K(i) == {k \in ToSet(ks) : i \in k.images}
      H(i) == UNION {{<<h, k>> : h \in {g \in k.releases : i \in g.images}} : k \in ToSet(ks)}
  IN [i \in Images |->
       [Nothing EXCEPT
          !.sources = {KItem(k) : k \in K(i)} \cup {HItem(x[1], x[2]) : x \in H(i)},
          !.chains = {KChain(ks, k) : k \in K(i)} \cup {HChain(ks, x[1], x[2]) : x \in H(i)}]]

(* kustomization_chain_map and helmrelease_chain_map: the last listed of a *)
(* name counts.  The set is empty when there is none.                      *)
Newest(S) == {n \in S : \A m \in S : m <= n}
ReleasesNamed(k, id) == {h \in k.releases : <<HItem(h, k).ns, h.name>> = id}
KChainsOf(ks, id) ==
  {KChain(ks, ks[n]) : n \in Newest({m \in DOMAIN ks : <<Namespace(ks[m]), ks[m].name>> = id})}
HChainsOf(ks, id) ==
  UNION {{HChain(ks, h, ks[n]) : h \in ReleasesNamed(ks[n], id)} :
           n \in Newest({m \in DOMAIN ks : ReleasesNamed(ks[m], id) # {}})}

(* process_manifest_targets: workloads, with the images of all their       *)
(* containers wherever the kind has its Pod.                               *)
Workloads == {"Deployment", "StatefulSet", "DaemonSet", "Job", "CronJob", "Pod",
              "ReplicaSet", "ReplicationController"}
Targets(map, objects) ==
  [i \in Images |->
    [map[i] EXCEPT !.targets = @ \cup
       {Item(o.kind, o) : o \in {w \in objects : w.kind \in Workloads /\ i \in w.images}}]]

(* The chain of the release, else of the Kustomization, that the labels of *)
(* an annotated object name, else the object itself.                       *)
OwnerChain(ks, o) ==
  CASE HChainsOf(ks, o.release) # {} -> HChainsOf(ks, o.release)
    [] HChainsOf(ks, o.release) = {} /\ KChainsOf(ks, o.owner) # {} -> KChainsOf(ks, o.owner)
    [] OTHER -> {<<Item(o.kind, o)>>}

(* process_annotation_images.                                              *)
Annotations(map, ks, objects) ==
  LET A(i) == {o \in objects : i \in o.annotated}
  IN [i \in Images |->
       [map[i] EXCEPT !.sources = @ \cup {Item(o.kind, o) : o \in A(i)},
                      !.chains = @ \cup UNION {OwnerChain(ks, o) : o \in A(i)}]]

Manual == [kind |-> "ExtraImage", ns |-> "manual", name |-> "extra-images"]

(* filter_by_namespace: an image stays whole or goes.                      *)
Filtered(map, allowed) ==
  [i \in Images |->
    IF allowed = {} \/ \E x \in map[i].sources \cup map[i].targets : x.ns \in allowed
    THEN map[i] ELSE Nothing]

(* process_extra_images.                                                   *)
Extra(map, images) ==
  [i \in Images |->
    IF i \notin images THEN map[i]
    ELSE [map[i] EXCEPT !.sources = @ \cup {Manual}, !.chains = @ \cup {<<Manual>>}]]

-----------------------------------------------------------------------------
Item_ == [kind : Labels, ns : Labels, name : Labels]

TypeOK ==
  /\ input \in Inputs /\ listed \in Orders(input.ks)
  /\ phase \in {"sources", "targets", "annotations", "filter", "extra", "done"}
  /\ DOMAIN imageMap = Images
  /\ \A i \in Images :
       /\ imageMap[i].sources \subseteq Item_ /\ imageMap[i].targets \subseteq Item_
       /\ \A c \in imageMap[i].chains : Len(c) > 0 /\ ToSet(c) \subseteq Item_
       /\ (imageMap[i].sources = {}) = (imageMap[i].chains = {})

Init ==
  /\ input \in Inputs
  /\ listed \in Orders(input.ks)
  /\ imageMap = [i \in Images |-> Nothing]
  /\ phase = "sources"

Pass(from, to, map) ==
  /\ phase = from /\ phase' = to
  /\ imageMap' = map
  /\ UNCHANGED <<input, listed>>

ProcessClusterSources == Pass("sources", "targets", ClusterSources(listed))
ProcessManifestTargets == Pass("targets", "annotations", Targets(imageMap, input.objects))
ProcessAnnotationImages ==
  Pass("annotations", "filter", Annotations(imageMap, listed, input.objects))
(* Mutant: the filter comes last.                                          *)
FilterWithExtra ==
  Pass("filter", "done", Filtered(Extra(imageMap, input.extra), input.allowed))

FilterByNamespace == Pass("filter", "extra", Filtered(imageMap, input.allowed))
ProcessExtraImages == Pass("extra", "done", Extra(imageMap, input.extra))

Next ==
  \/ ProcessClusterSources \/ ProcessManifestTargets \/ ProcessAnnotationImages
  \/ FilterByNamespace \/ ProcessExtraImages

Spec == Init /\ [][Next]_vars

-----------------------------------------------------------------------------
Chains == UNION {imageMap[i].chains : i \in Images}
PathsOf(item) == {k.path : k \in {j \in input.ks : KItem(j) = item}}

(* A chain leads outwards: after its head it has Kustomizations only, each *)
(* in a directory above the one before.                                    *)
ChainsLeadOutwards ==
  \A c \in Chains : \A n \in 2 .. Len(c) :
    /\ c[n].kind = "Kustomization"
    /\ c[n - 1].kind = "Kustomization" =>
         \E p \in PathsOf(c[n - 1]), q \in PathsOf(c[n]) : IsPrefix(q, p)

(* A chain begins with a source of its image, except where an annotation   *)
(* asks for the image: then with the release or Kustomization that owns    *)
(* the annotated object, which may be none of its sources.                 *)
ChainsBeginAtSources ==
  \A i \in Images : \A c \in imageMap[i].chains :
    \/ c[1] \in imageMap[i].sources
    \/ \E o \in input.objects : /\ i \in o.annotated
                                /\ <<c[1].ns, c[1].name>> \in {o.release, o.owner}

(* The namespaces filter what the manifests say and never the images given *)
(* by hand; an image that stays keeps what other namespaces say of it.     *)
OnlyAllowedOrByHand ==
  phase = "done" =>
    \A i \in Images :
      LET all == Extra(Annotations(Targets(ClusterSources(listed), input.objects),
                                   listed, input.objects), input.extra)[i]
          byHand == i \in input.extra
          wanted == \E x \in (all.sources \cup all.targets) \ {Manual} : x.ns \in input.allowed
      IN imageMap[i] = CASE input.allowed = {} \/ wanted -> all
                         [] byHand /\ ~(input.allowed = {} \/ wanted) ->
                              Extra([j \in Images |-> Nothing], input.extra)[i]
                         [] OTHER -> Nothing

(* The image map is true to the manifests: its chains, their beginnings    *)
(* and the images it holds.                                                *)
MapIsTrue == TypeOK /\ ChainsLeadOutwards /\ ChainsBeginAtSources /\ OnlyAllowedOrByHand

(* Only these make the order of flux-local's listing show in the lock: two *)
(* Kustomizations on one path above a third, and two with one release.     *)
Ambiguous ==
  \E j, k \in input.ks : j # k /\
    \/ j.path = k.path /\ \E l \in input.ks : k \in Above(input.ks, l)
    \/ \E g \in j.releases, h \in k.releases : HItem(g, j) = HItem(h, k)

(* Otherwise the lock of one repository is one: a run that finds the same  *)
(* manifests in another order has nothing to report or to merge.           *)
OrderIsIrrelevant ==
  phase = "done" /\ ~Ambiguous =>
    \A ks \in Orders(input.ks) :
      imageMap = Extra(Filtered(Annotations(Targets(ClusterSources(ks), input.objects),
                                            ks, input.objects), input.allowed), input.extra)
=============================================================================
