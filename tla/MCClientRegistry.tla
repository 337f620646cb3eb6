-------------------------- MODULE MCClientRegistry --------------------------
(* Clients are interchangeable: symmetry for the runs that check safety. *)
EXTENDS ClientRegistry, TLC

ClientSymmetry == Permutations(Client)
=============================================================================
