------------------------------- MODULE KernelMC -------------------------------
(* Instances of Kernel for TLC.                                              *)
EXTENDS Kernel

\* Without a timeout, for one tick and for two.
SomeTimeouts == {0, 1, 2}
=============================================================================
