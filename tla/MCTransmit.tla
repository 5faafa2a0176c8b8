----------------------------- MODULE MCTransmit ----------------------------
(***************************************************************************)
(* Finite instances of Transmit for TLC.                                   *)
(***************************************************************************)
EXTENDS Transmit, TLC

\* Writers are interchangeable: no action names one of them.
WriterSymmetry == Permutations(Writers)
============================================================================
