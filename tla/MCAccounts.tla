------------------------------ MODULE MCAccounts ------------------------------
(* Small instances of Accounts: requests are interchangeable.              *)
EXTENDS Accounts, TLC

CONSTANTS r1, r2
Symmetry == Permutations(Requests)
===============================================================================
