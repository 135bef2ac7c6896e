------------------------------ MODULE Generator ------------------------------
(***************************************************************************)
(* scripts/gen-image-lock.py as a whole: the passes that make the map of   *)
(* images (ImageMap), what is made of each name (ImageNames), the lock     *)
(* (ImageLock), and the Nix build that the generator runs to learn the     *)
(* hash of an archive (ImageArchive).                                      *)
(***************************************************************************)
EXTENDS ImageLock

CONSTANTS
  None,                  \* a label, a namespace, a tag or a digest missing
  MapImages, MapInputs, Labels, Directories, \* see ImageMap
  Words, Written, MirrorMaps, Dotted, Ports, CraneDigest(_), PortNumber(_), \* see ImageNames
  NSources,              \* how many sourceImages an archive has
  MirrorRetries          \* mirrorRetries

ASSUME ArchiveAssumption == NSources \in Nat \ {0} /\ MirrorRetries \in Nat \ {0}

VARIABLES
  input, listed, imageMap, mapPhase,                             \* ImageMap
  refs, mirrors, entry,                                          \* ImageNames
  native, src, detected, fmt, attempt, archive, repack, out,     \* ImageArchive
  status, tries

lockPart == vars
mapPart == <<input, listed, imageMap, mapPhase>>
namePart == <<refs, mirrors, entry>>
archivePart == <<native, src, detected, fmt, attempt, archive, repack, out, status, tries>>

Maps == INSTANCE ImageMap WITH Images <- MapImages, Inputs <- MapInputs, phase <- mapPhase
Names == INSTANCE ImageNames
           WITH References <- Written, Mirrors <- MirrorMaps,
                Digest <- CraneDigest, Number <- PortNumber
Archive == INSTANCE ImageArchive

(* What flux-local lists is finite, and Flux tells its Kustomizations      *)
(* apart by namespace and name.  Nothing in the cluster is an ExtraImage.  *)
ASSUME MapAssumption ==
  /\ Maps!Workloads \cup {"Kustomization", "HelmRelease", "ExtraImage", "unknown ns", "manual",
                         "extra-images"} \subseteq Labels
  /\ \A x \in MapInputs :
       /\ IsFiniteSet(x.ks) /\ x.ks \subseteq Maps!Kustomizations
       /\ \A j, k \in x.ks : Maps!KItem(j) = Maps!KItem(k) => j = k
       /\ x.objects \subseteq Maps!Objects /\ \A o \in x.objects : o.kind # "ExtraImage"

(* The names that occur are sequences of parts: behind a registry there is *)
(* a repository, behind docker.io no other registry.  "docker.io" has a    *)
(* dot, "library" neither dot nor colon.                                   *)
Named(n) ==
  /\ n \in Seq(Seq(Words)) /\ n # <<>>
  /\ \A k \in DOMAIN n : n[k] # <<>>
  /\ Names!Explicit(n[1]) => Len(n) > 1
  /\ n[1] = Names!docker => ~Names!Explicit(n[2])

ASSUME NamesAssumption ==
  /\ \A r \in Written : Named(r.name)
  /\ {"docker.io", "library"} \subseteq Words
  /\ "docker.io" \in Dotted /\ "library" \notin Dotted \cup Ports

(* A mirror is no registry that has mirrors of its own, except itself.     *)
ASSUME MirrorsAssumption ==
  \A m \in MirrorMaps : \A g \in DOMAIN m :
    /\ m[g] \in Seq(Seq(Seq(Words)))
    /\ \A k \in DOMAIN m[g] : m[g][k] # <<>> /\ m[g][k][1] \notin DOMAIN m \ {g}

-----------------------------------------------------------------------------
(* The image map is true to the manifests; see ImageMap.                   *)
MapIsTrue == Maps!MapIsTrue

(* The order of flux-local's listing does not show in it; see ImageMap.    *)
OrderIsIrrelevant == Maps!OrderIsIrrelevant

(* One cache file holds the hash of one archive; see ImageNames.           *)
OneFileOneArchive == Names!OneFileOneArchive

(* The names are what Docker takes them for; see ImageNames.               *)
NamesAreDockers == Names!NamesAreDockers

(* The loops of the builder keep their bounds; see ImageArchive.           *)
LoopsInBounds == Archive!TypeOK

(* The hash in the lock is that of the image alone; see ImageArchive.      *)
OutputIsTheImage == Archive!OutputIsTheImage

(* The builder gives up when all is tried; see ImageArchive.               *)
FailsOnlyExhausted == Archive!FailsOnlyExhausted
=============================================================================
