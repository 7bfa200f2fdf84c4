----------------------------- MODULE MCSyncGate -----------------------------
(***************************************************************************)
(* Small instances of SyncGate for TLC.                                    *)
(***************************************************************************)
EXTENDS SyncGate, TLC

CONSTANTS r1, r2, r3, p1, p2

MCOrder == IF r3 \in Requests THEN <<r1, r2, r3>> ELSE <<r1, r2>>
MCFirstTarget == [r \in Requests |-> IF r = r1 THEN p1 ELSE p2]
MCCorrections == {<<r1, p2>>}

\* Checks run the same code and nothing names one of them.
MCSymmetry == Permutations(Checks)
=============================================================================
