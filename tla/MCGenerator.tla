----------------------------- MODULE MCGenerator -----------------------------
(* Generator in one run, with the lock as in MCImageLock.  The map comes   *)
(* from its own inputs, the workers' names and the builder's image from    *)
(* theirs, so each part is explored while the others have not begun.       *)
EXTENDS MCImageLock, Generator

-----------------------------------------------------------------------------
(* Three Kustomizations on every choice of paths, a release of two of them *)
(* in one namespace or two, a workload, and an annotated object whose      *)
(* labels name the release, a Kustomization, both, or nothing known.       *)
Deepest == <<"infra", "core", "net">>
Paths == {<<>>, <<"infra">>, <<"infra", "core">>, Deepest}
Release(ns) == [ns |-> ns, name |-> "longhorn", images |-> {"engine"}]
K(name, ns, path, used, releases) ==
  [name |-> name, ns |-> ns, path |-> path, images |-> used, releases |-> releases]

MapKs == {{K("a", "flux", p, {"tool"}, {}),
          K("b", "flux", q, {}, {Release(None)}),
          K("c", n, r, {"engine"}, s)} :
           p \in Paths \ {Deepest}, q \in Paths \ {Deepest}, r \in Paths, n \in {"flux", None},
           s \in {{}, {Release("storage")}, {Release("flux")}}}

Object(kind, ns, used, annotated, release, owner) ==
  [kind |-> kind, ns |-> ns, name |-> "o", images |-> used, annotated |-> annotated,
   release |-> release, owner |-> owner]

MapObjects == {{Object("Deployment", None, {"tool"}, {}, None, None),
               Object("HelmRelease", "storage", {}, {"ui"}, h, k)} :
                h \in {None, <<"flux", "longhorn">>},
                k \in {None, <<"flux", "b">>}}

MCMapImages == {"tool", "engine", "ui"}
MCLabels == {"a", "b", "c", "o", "flux", "storage", "longhorn", "unknown ns", "manual",
             "extra-images", "Kustomization", "HelmRelease", "ExtraImage",
             "Deployment", "StatefulSet", "DaemonSet", "Job", "CronJob", "Pod",
             "ReplicaSet", "ReplicationController"}
MCDirectories == {"infra", "core", "net"}
NoInput == [ks |-> {}, objects |-> {}, allowed |-> {}, extra |-> {}]
MCMapInputs ==
  {NoInput} \cup [ks : MapKs, objects : MapObjects, allowed : {{}, {"storage"}},
                  extra : {{}, {"tool"}}]

-----------------------------------------------------------------------------
(* Names of one to four parts with and without a registry, a port and      *)
(* words that collide once "/" and ":" are "_".                            *)
Bases == {<< <<"nginx">> >>, << <<"library">>, <<"nginx">> >>, << <<"a">>, <<"b", "c">> >>,
          << <<"a", "b">>, <<"c">> >>, << <<"library">>, <<"a">>, <<"b", "c">> >>}
Registries == {<<"docker.io">>, <<"quay.io">>, <<"localhost">>, <<"host", ":5000">>,
               <<"quay.io", ":5000">>, <<"host", "5000">>}
WrittenNames == Bases \cup {<<g>> \o b : g \in Registries, b \in Bases}

Nginx == [name |-> << <<"nginx">> >>, tag |-> None, digest |-> None]
MCWords == {"nginx", "library", "a", "b", "c", "docker.io", "quay.io", "localhost", "host",
            ":5000", "5000", "mirror", "hub"}

MCWritten == [name : WrittenNames, tag : {None}, digest : {None}]
             \cup [name : WrittenNames, tag : {<<"v1">>}, digest : {None, "d1"}]
MCDigest(r) == IF r.digest = None THEN "d2" ELSE r.digest
MCNumber(w) == "5000"
MCMirrorMaps == {<<>>,
               (<<"docker.io">> :> << << <<"mirror">> >> >>),
               (<<"docker.io">> :> << << <<"docker.io">> >>, << <<"quay.io">>, <<"hub">> >> >>)}
MCDotted == {"docker.io", "quay.io"}
MCPorts == {":5000"}

-----------------------------------------------------------------------------
LockAtRest == runs = 0 /\ retags = 0 /\ upstream = [r \in Repos |-> d1]
MapAtRest == mapPhase = "sources" /\ input = NoInput
NamesAtRest == mirrors = <<>> /\ refs = [i \in {1, 2} |-> Nginx]
               /\ entry = [i \in {1, 2} |-> Names!Unresolved]
ArchiveAtRest == native = "oci" /\ src = 1 /\ status = "inspect"

(* Nothing tells the digests of alpine apart, so its tag begins at d1.      *)
GeneratorInit ==
  \/ /\ MapAtRest /\ NamesAtRest /\ ArchiveAtRest
     /\ Maps!Init /\ Names!Init /\ Archive!Init /\ Init /\ upstream["alpine"] = d1
  \/ /\ LockAtRest /\ NamesAtRest /\ ArchiveAtRest
     /\ Init /\ Names!Init /\ Archive!Init /\ Maps!Init
  \/ /\ LockAtRest /\ MapAtRest /\ ArchiveAtRest
     /\ Init /\ Maps!Init /\ Archive!Init /\ Names!Init
  \/ /\ LockAtRest /\ MapAtRest /\ NamesAtRest
     /\ Init /\ Maps!Init /\ Names!Init /\ Archive!Init

(* Only whether two runs have the same metadata matters, and a first run   *)
(* has no cache to ignore.                                                 *)
FirstRun == runs = 0 => meta' = 0 /\ ~ignore'

GeneratorNext ==
  \/ /\ MapAtRest /\ NamesAtRest /\ ArchiveAtRest
     /\ Next /\ FirstRun /\ UNCHANGED <<mapPart, namePart, archivePart>>
  \/ /\ LockAtRest /\ NamesAtRest /\ ArchiveAtRest
     /\ Maps!Next /\ UNCHANGED <<lockPart, namePart, archivePart>>
  \/ /\ LockAtRest /\ MapAtRest /\ ArchiveAtRest
     /\ Names!Next /\ UNCHANGED <<lockPart, mapPart, archivePart>>
  \/ /\ LockAtRest /\ MapAtRest /\ NamesAtRest
     /\ Archive!Next /\ UNCHANGED <<lockPart, mapPart, namePart>>

GeneratorSpec == GeneratorInit /\ [][GeneratorNext]_<<lockPart, mapPart, namePart, archivePart>>
=============================================================================
