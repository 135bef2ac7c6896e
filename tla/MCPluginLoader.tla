--------------------------- MODULE MCPluginLoader ---------------------------
(* One node, two proxies, and three releases of which the second does not  *)
(* match.  Nodes do not meet anywhere in the model; what holds of any      *)
(* number of them is proved in PluginLoaderProofs.                         *)
EXTENDS PluginLoader
=============================================================================
