------------------------------ MODULE MCImageLock ------------------------------
(* "nginx:1", "nginx:1@sha256:d1", "docker.io/library/nginx:1" and, between  *)
(* the first two in the order of the lock, "nginx:1-alpine".                *)
EXTENDS ImageLock

CONSTANTS d1, d2

MCRefs == {"short", "pinned", "full", "other"}
MCRepoOf == [r \in MCRefs |-> IF r = "other" THEN "alpine" ELSE "nginx"]
MCUidOf == [short |-> "nginx:1", pinned |-> "nginx:1",
            full |-> "docker.io/library/nginx:1", other |-> "nginx:1-alpine"]
MCPin == [r \in MCRefs |-> IF r = "pinned" THEN d1 ELSE Floating]
MCRank == [full |-> 1, short |-> 2, other |-> 3, pinned |-> 4]
MCRepos == {"nginx", "alpine"}
MCUids == {"nginx:1", "docker.io/library/nginx:1", "nginx:1-alpine"}
MCDigests == {d1, d2}
MCImageSets ==
  {{}, {"short", "other"}, {"other", "pinned"}, {"short", "pinned"}, {"short", "full"}}
================================================================================
