------------------------------ MODULE MCConnPool ------------------------------
(* Instances of ConnPool for TLC. *)
EXTENDS ConnPool, TLC

CONSTANTS w1, w2, w3, s1, s2, s3, s4, s5

Symmetry2 == Permutations({w1, w2}) \cup Permutations(Socks)
=============================================================================
