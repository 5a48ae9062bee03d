----------------------- MODULE MCBootstrapRetirement -----------------------
(* BootstrapRetirement for TLC: inodes and bounds are given in the .cfg.   *)
EXTENDS BootstrapRetirement, TLC
=============================================================================
