---------------------------- MODULE MCBootLoader ----------------------------
(***************************************************************************)
(* BootLoader with 8 sectors of 3 bytes in a segment, and floppies with    *)
(* boot files of up to two sectors and kernels of every size up to one     *)
(* that is longer than the segment, each in one piece or split, listed or  *)
(* not.  The kernel's first cluster leaves a boot file that is split its   *)
(* room.                                                                   *)
(***************************************************************************)
EXTENDS BootLoader

CONSTANTS BootSizes, KernelSizes

MCDisks ==
  {[listed |-> l, split |-> s,
    size |-> [f \in Files |-> IF f = "boot" THEN b ELSE k],
    cluster |-> [f \in Files |-> IF f = "boot" THEN 2 ELSE 5]] :
      l \in SUBSET Files, s \in SUBSET Files, b \in BootSizes, k \in KernelSizes}
=============================================================================
