---------------------------- MODULE MCFulfilment ----------------------------
(***************************************************************************)
(* Small instances of Fulfilment for TLC.                                  *)
(***************************************************************************)
EXTENDS Fulfilment, TLC

CONSTANTS r1, r2, u1, u2, s1, o1, l1, l2, l3, h1, h2

\* l2 is the only line of r2; l1 and l3 belong to r1.
MCRequestOf == [l \in Lines |-> IF l = l2 /\ r2 \in Requests THEN r2 ELSE r1]
MCTargetOf == [r \in Requests |-> IF r = r1 THEN u1 ELSE u2]
\* The person of r1 may be corrected.
MCCorrections == {<<r1, u2>>}
MCSkuOf == [l \in Lines |-> s1]
MCOpcoOf == [r \in Requests |-> o1]

\* Seats for two people, a budget for one of them.
MCSeats == [s \in Skus |-> 2]
MCAllocated == [c \in Cells |-> 1]
MCOpening == [c \in Cells |-> 0]

SerialStart == [l \in Lines |-> CASE l = l1 -> "READY"
                                  [] l = l2 -> "AWAITING_VENDOR"
                                  [] OTHER  -> "ABSENT"]
ConcurrentStart == [l \in Lines |-> IF l = l1 THEN "READY" ELSE "AWAITING_VENDOR"]

\* Handlers run the same code.
HandlerSymmetry == Permutations(Handlers)
=============================================================================
