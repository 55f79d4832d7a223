-------------------------------- MODULE MCSmp --------------------------------
(* Instances of Smp for TLC; the .cfg files choose the CPUs, slots, traps  *)
(* and system calls.                                                       *)
EXTENDS Smp, TLC

(* The CPUs differ only in which of them is the boot CPU, and only Init    *)
(* looks at that: the next-state relation and the invariants are symmetric.*)
CpuSymmetry == Permutations(Cpus)
=============================================================================
