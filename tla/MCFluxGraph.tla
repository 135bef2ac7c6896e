---------------------------- MODULE MCFluxGraph ----------------------------
(* Two clusters: one that has had Longhorn before and keeps its CRDs, and  *)
(* the fresh one of the bootstrap.                                         *)
EXTENDS FluxGraph

MCHadLonghorn == {"longhorn"}
MCFresh == {}
=============================================================================
