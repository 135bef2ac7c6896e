--------------------------- MODULE MCLockPipeline ---------------------------
(* The schedule and one run started by hand; two images, one of which      *)
(* changes once.  The images are not declared symmetric, since the run     *)
(* checks liveness too.                                                    *)
EXTENDS LockPipeline
=============================================================================
