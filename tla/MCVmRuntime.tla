----------------------------- MODULE MCVmRuntime -----------------------------
(* Instances of VmRuntime for TLC.  The names of virtual machines are       *)
(* interchangeable, and so are the threads that call N-API functions.       *)
EXTENDS VmRuntime, TLC

Symmetry == Permutations(VMs) \cup Permutations(Callers)
=============================================================================
