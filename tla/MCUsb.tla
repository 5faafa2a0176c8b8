------------------------------- MODULE MCUsb -------------------------------
(***************************************************************************)
(* Finite instances of Usb for TLC.                                        *)
(***************************************************************************)
EXTENDS Usb, TLC

\* No action names one application thread or one interface.
UsbSymmetry == Permutations(Users) \cup Permutations(Ifaces)
============================================================================
