----------------------------- MODULE MCSession -----------------------------
(***************************************************************************)
(* Finite instances of Session for TLC.                                    *)
(***************************************************************************)
EXTENDS Session, TLC

\* Threads and receivers are interchangeable: no action names one of them.
SafetySymmetry == Permutations(Threads) \cup Permutations(Receivers)
============================================================================
