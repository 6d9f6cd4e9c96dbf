---------------------------- MODULE MCWorkqueue ----------------------------
(* Instances of Workqueue for TLC. *)
EXTENDS Workqueue

Symmetry == Permutations(Plain) \cup Permutations(Delayed) \cup Permutations(User)
=============================================================================
