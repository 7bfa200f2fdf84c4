------------------------------ MODULE MCLedger ------------------------------
(***************************************************************************)
(* A small instance of Ledger for TLC.                                     *)
(***************************************************************************)
EXTENDS Ledger, TLC

CONSTANTS o1, o2, s1, s2, a1, h1, h2

MCEntry(row, alias) == [row |-> row, alias |-> alias, unlimited |-> FALSE]

\* One licence in use, and one that was never seen or is gone again.
MCCatalogs == {s1 :> MCEntry("active", a1) @@ s2 :> MCEntry(row, NoAlias) :
                 row \in {"absent", "inactive"}}

\* Seats are kept of the first.
MCCells == Opcos \X {s1}

\* Handlers run the same code and nothing names one of them.
MCSymmetry == Permutations(Handlers)
=============================================================================
