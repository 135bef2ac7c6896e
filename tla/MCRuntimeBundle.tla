-------------------------- MODULE MCRuntimeBundle --------------------------
(* The base of this commit is version 0: its nginx is not IMAGE, and its   *)
(* kustomization names observability-http.conf.  Version 1 is the one the  *)
(* script was written for.                                                 *)
EXTENDS RuntimeBundle

MCPinnedImage == {1}
MCSelfContained == {1}
=============================================================================
