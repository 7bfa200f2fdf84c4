--------------------------- MODULE LineLifecycle ---------------------------
(***************************************************************************)
(* What an operator is promised about a licence line, without handlers,    *)
(* ledgers or tickets: it moves along the legal matrix one stage at a      *)
(* time, it becomes ASSIGNED only from READY and only when it is eligible  *)
(* (both sync gates are open and the person has the licence), and it is    *)
(* assigned once.                                                          *)
(***************************************************************************)
EXTENDS LineStages, Naturals

CONSTANTS Lines, Start

VARIABLES
    stage,     \* the row of each line
    assigns,   \* ASSIGN events on the line's timeline
    eligible   \* lines that could be assigned now

vars == <<stage, assigns, eligible>>

Init ==
    /\ stage = Start
    /\ assigns = [l \in Lines |-> 0]
    /\ eligible = {}

Move(l, to) == stage' = [stage EXCEPT ![l] = to]

Add(l) ==
    /\ stage[l] = "ABSENT"
    /\ Move(l, "REQUESTED")
    /\ UNCHANGED <<assigns, eligible>>

Remove(l) ==
    /\ stage[l] = "REQUESTED"
    /\ Move(l, "REMOVED")
    /\ UNCHANGED <<assigns, eligible>>

Advance(l) ==
    /\ stage[l] \in Stages
    /\ \E to \in LegalTransitions[stage[l]] : Move(l, to)
    /\ UNCHANGED <<assigns, eligible>>

Assign(l) ==
    /\ stage[l] = "READY"
    /\ l \in eligible
    /\ Move(l, "ASSIGNED")
    /\ assigns' = [assigns EXCEPT ![l] = @ + 1]
    /\ UNCHANGED eligible

\* A gate opens or a licence arrives, and neither is taken back; but a request
\* may be given another person, as long as none of its lines is assigned.
Qualify ==
    /\ eligible' \in SUBSET Lines
    /\ \A l \in eligible : stage[l] = "ASSIGNED" => l \in eligible'
    /\ UNCHANGED <<stage, assigns>>

Next ==
    \/ \E l \in Lines : Add(l) \/ Remove(l) \/ Advance(l) \/ Assign(l)
    \/ Qualify

Spec == Init /\ [][Next]_vars
=============================================================================
