----------------------------- MODULE MCAccounts -----------------------------
(***************************************************************************)
(* A small instance of Accounts for TLC.                                   *)
(***************************************************************************)
EXTENDS Accounts, TLC

CONSTANTS u1, u2, h1, h2

\* Handlers run the same code and nothing names one of them.
MCSymmetry == Permutations(Handlers)
=============================================================================
