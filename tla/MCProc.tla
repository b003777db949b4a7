------------------------------- MODULE MCProc -------------------------------
(***************************************************************************)
(* Instances of Proc for TLC.  The CPUs are interchangeable; the slots are *)
(* not, because every scan of the table goes by index.                     *)
(***************************************************************************)
EXTENDS Proc

CpuSymmetry == Permutations(CPUs)
=============================================================================
