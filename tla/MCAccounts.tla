----------------------------- MODULE MCAccounts -----------------------------
(* An instance of Accounts for TLC. *)
EXTENDS Accounts, TLC

CONSTANTS e1, e2, e3, p1, p2, w1, w2

MCFounders == <<e1, e2>>
MCSymmetry == Permutations({w1, w2})

=============================================================================
