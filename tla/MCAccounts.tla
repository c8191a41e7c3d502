------------------------------ MODULE MCAccounts ------------------------------
(* A small instance of Accounts, in which neither browsers nor the passwords *)
(* that registration accepts can be told apart.                              *)
EXTENDS Accounts, TLC

Symmetry == Permutations(Browsers) \cup Permutations(Passwords \ Short)
=============================================================================
