------------------------------ MODULE MCAccounts ------------------------------
(***************************************************************************)
(* Two programs, two addresses and two passwords, interchangeable.         *)
(***************************************************************************)
EXTENDS Accounts, TLC

Symmetry ==
    Permutations(Clients) \union Permutations(Emails) \union Permutations(Passwords)
=============================================================================
