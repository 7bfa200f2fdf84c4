------------------------------ MODULE MCAgent ------------------------------
(***************************************************************************)
(* Small instances of AgentApproval for TLC.                               *)
(***************************************************************************)
EXTENDS AgentApproval, TLC

CONSTANTS q1, c1, h1, h2

\* The conversation was opened on the request.
MCRequestOf == [t \in Requests \cup Chats |-> q1]

\* Handlers run the same code and nothing names one of them.
MCSymmetry == Permutations(Handlers)
=============================================================================
