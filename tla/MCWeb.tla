------------------------------- MODULE MCWeb --------------------------------
(* The web server on small instances: symmetric passwords and event tasks. *)
EXTENDS Web, TLC

Symmetry == Permutations(Passwords) \cup Permutations(EventTask)
=============================================================================
