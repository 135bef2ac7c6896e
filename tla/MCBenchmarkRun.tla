--------------------------- MODULE MCBenchmarkRun ---------------------------
(***************************************************************************)
(* BenchmarkRun with the backend and one proxy and two rounds, both of     *)
(* them needed for confidence.                                             *)
(***************************************************************************)
EXTENDS BenchmarkRun

const_Roles == <<"backend", "nginx">>
=============================================================================
