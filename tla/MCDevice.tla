----------------------------- MODULE MCDevice ------------------------------
(***************************************************************************)
(* Instances of Device for TLC.  The counts of periodic messages and of    *)
(* flow-control filters are capped at 1 (10 and 64 in the code), with one  *)
(* firmware handle more, so that each limit is met.                        *)
(***************************************************************************)
EXTENDS Device, TLC

\* Threads, devices and firmware handles are interchangeable.
Symmetry ==
    Permutations(Threads) \cup Permutations(Objects) \cup Permutations(FwHandles)
============================================================================
