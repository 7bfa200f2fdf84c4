----------------------------- MODULE LineStages -----------------------------
(***************************************************************************)
(* The life of one licence line and what a request says about its lines:   *)
(* the pure part of fulfilment/stage.service.ts.                           *)
(*                                                                         *)
(* The database enum LineItemStage has seven values.  Two more stand for   *)
(* the row itself: ABSENT is a line that was not added yet, REMOVED a line *)
(* that was deleted (a deleted id is never used again).                    *)
(***************************************************************************)

\* The LineItemStage enum.
Stages == {"REQUESTED", "QUOTING", "OPCO_APPROVED", "AWAITING_VENDOR",
           "READY", "ASSIGNED", "CANCELLED"}

\* A line item row, or the lack of one.
RowStates == Stages \union {"ABSENT", "REMOVED"}

Statuses == {"OPEN", "IN_PROGRESS", "COMPLETED", "CANCELLED"}

\* LEGAL_TRANSITIONS.  READY -> ASSIGNED is not in it: the assign flow owns it.
LegalTransitions ==
    [REQUESTED       |-> {"QUOTING", "READY", "CANCELLED"},
     QUOTING         |-> {"OPCO_APPROVED", "CANCELLED"},
     OPCO_APPROVED   |-> {"AWAITING_VENDOR", "CANCELLED"},
     AWAITING_VENDOR |-> {"READY", "CANCELLED"},
     READY           |-> {"CANCELLED"},
     ASSIGNED        |-> {},
     CANCELLED       |-> {}]

\* aggregateRequestStatus.  It asks only "is there one" and "are they all", so
\* the set of the lines' stages is enough.
AggregateStatus(stages) ==
    LET active == stages \ {"CANCELLED"} IN
    CASE stages = {}              -> "OPEN"
      [] stages = {"CANCELLED"}   -> "CANCELLED"
      [] active = {"REQUESTED"}   -> "OPEN"
      [] active = {"ASSIGNED"}    -> "COMPLETED"
      [] OTHER                    -> "IN_PROGRESS"

=============================================================================
