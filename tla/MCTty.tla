------------------------------- MODULE MCTty -------------------------------
(***************************************************************************)
(* Finite instances of Tty for TLC.                                        *)
(***************************************************************************)
EXTENDS Tty, TLC

\* No action names one application thread.
UserSymmetry == Permutations(Users)
============================================================================
