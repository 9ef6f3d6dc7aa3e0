----------------------------- MODULE MCSessions -----------------------------
(* Instances of Sessions for TLC. *)
EXTENDS Sessions, TLC

Symmetry ==
    Permutations(Users) \union Permutations(Browsers) \union Permutations(Requests)
=============================================================================
