---------------------------- MODULE MCUsbProcess ----------------------------
(* Instances of UsbProcess for TLC. *)
EXTENDS UsbProcess

Symmetry == Permutations(Pair) \cup Permutations(Caller)
=============================================================================
