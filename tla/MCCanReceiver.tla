--------------------------- MODULE MCCanReceiver ---------------------------
(***************************************************************************)
(* Finite instances of CanReceiver for TLC.                                *)
(***************************************************************************)
EXTENDS CanReceiver, TLC

\* Readers are interchangeable: no action names one of them.
ReaderSymmetry == Permutations(Readers)
============================================================================
