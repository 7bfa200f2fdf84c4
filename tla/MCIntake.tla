------------------------------ MODULE MCIntake ------------------------------
(***************************************************************************)
(* Small instances of Intake for TLC.                                      *)
(***************************************************************************)
EXTENDS Intake, TLC

CONSTANTS f1, f2, i1, h1, h2

\* A form orders two lines, so through the cart; an onboarding has one.
MCLines == [n \in Forms \cup Onboardings |-> IF n \in Forms THEN 2 ELSE 1]

\* Handlers run the same code, forms ask for the same, and nothing names either.
MCSymmetry == Permutations(Handlers) \cup Permutations(Forms)
=============================================================================
