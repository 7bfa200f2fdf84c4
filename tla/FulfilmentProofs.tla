-------------------------- MODULE FulfilmentProofs --------------------------
(***************************************************************************)
(* Proofs about Fulfilment for every set of lines, people, SKUs, OpCos and *)
(* for any finite number of handlers, with every fault.                    *)
(***************************************************************************)
EXTENDS Fulfilment, FiniteSetTheorems, TLAPS

-----------------------------------------------------------------------------
(* What the pure operators return. *)

\* A status computed from stages is one of the four statuses.
LEMMA AggregateStatusType ==
    \A stages : AggregateStatus(stages) \in Statuses
BY DEF AggregateStatus, Statuses

\* The legal matrix never leads to ASSIGNED: that move belongs to the assign flow.
LEMMA LegalMoves ==
    ASSUME NEW s \in Stages, NEW to \in LegalTransitions[s]
    PROVE  to \in Stages /\ to # "ASSIGNED"
<1>1. CASE s = "REQUESTED" BY <1>1 DEF LegalTransitions, Stages
<1>2. CASE s = "QUOTING" BY <1>2 DEF LegalTransitions, Stages
<1>3. CASE s = "OPCO_APPROVED" BY <1>3 DEF LegalTransitions, Stages
<1>4. CASE s = "AWAITING_VENDOR" BY <1>4 DEF LegalTransitions, Stages
<1>5. CASE s = "READY" BY <1>5 DEF LegalTransitions, Stages
<1>6. CASE s \in {"ASSIGNED", "CANCELLED"} BY <1>6 DEF LegalTransitions, Stages
<1> QED BY <1>1, <1>2, <1>3, <1>4, <1>5, <1>6 DEF Stages

\* A line has a cell of the ledger and a licence somebody may hold.
LEMMA LineShape ==
    ASSUME NEW l \in Lines
    PROVE  /\ RequestOf[l] \in Requests
           /\ Cell(l) \in Cells
           /\ SkuOf[l] \in Skus
BY ShapeAssumption DEF Cell, Cells

LEMMA LicenceShape == ASSUME NEW j \in Jobs PROVE Licence(j) \in Users \X Skus
BY LineShape DEF Licence, Jobs

LEMMA FreshType == /\ \A l \in Lines : Fresh(l) \in Jobs
                   /\ Blank \in Jobs
BY ShapeAssumption DEF Fresh, Blank, Jobs, Stages, Statuses, Deliveries

-----------------------------------------------------------------------------
(* Type correctness. *)

\* An assign handler's step keeps every variable in its type.
LEMMA AssignTypes ==
    ASSUME TypeOK, NEW h \in Handlers, AssignStep(h)
    PROVE  TypeOK'
<1>0. job[h].line \in Lines /\ Blank \in Jobs /\ job[h] \in Jobs
  BY FreshType DEF TypeOK, Jobs
<1>1. CASE FindUser(h)
  BY <1>1, <1>0 DEF TypeOK, FindUser, Goto, PCs, domainVars, headerVars, gateVars, personVars, bookVars, worldVars, ticketVars
<1>2. CASE PassBudget(h)
  <2> DEFINE over == OverBudget(Cell(job[h].line))
             j == [Fresh(job[h].line) EXCEPT !.who = job[h].who, !.over = over]
  <2>1. /\ pc' = [pc EXCEPT ![h] = "holding"]
        /\ job' = [job EXCEPT ![h] = j]
        /\ UNCHANGED <<domainVars, headerVars, bookVars, worldVars, ticketVars>>
    BY <1>2 DEF PassBudget
  <2>2. over \in BOOLEAN BY DEF OverBudget
  <2>3. j \in Jobs
    <3>1. Fresh(job[h].line) \in Jobs BY <1>0, FreshType
    <3>2. job[h].who \in Users BY <1>0 DEF Jobs
    <3> HIDE DEF over
    <3> QED BY <3>1, <3>2, <2>2 DEF Jobs
  <2> HIDE DEF j
  <2> QED BY <2>1, <2>3 DEF TypeOK, PCs, domainVars, headerVars, gateVars, personVars, bookVars, worldVars, ticketVars
<1>3. CASE FailBudget(h)
  BY <1>3, <1>0 DEF TypeOK, FailBudget, Goto, Finish, PCs, domainVars, headerVars, gateVars, personVars, bookVars, worldVars, ticketVars
<1>4. CASE HoldTicket(h)
  BY <1>4, <1>0 DEF TypeOK, HoldTicket, Goto, PCs, domainVars, headerVars, gateVars, personVars, bookVars, worldVars, ticketVars
<1>5. CASE HoldRefused(h)
  BY <1>5, <1>0 DEF TypeOK, HoldRefused, Record, Deliveries, Finish, PCs, domainVars, headerVars, gateVars, personVars, bookVars, worldVars, ticketVars
<1>6. CASE MarkHeld(h)
  BY <1>6, <1>0 DEF TypeOK, MarkHeld, Finish, PCs, domainVars, headerVars, gateVars, personVars, bookVars, worldVars, ticketVars
<1>7. CASE AlreadyHeld(h)
  BY <1>7, <1>0 DEF TypeOK, AlreadyHeld, PCs, Jobs, domainVars, headerVars, gateVars, personVars, bookVars, worldVars, ticketVars
<1>8. CASE NotHeld(h)
  BY <1>8, <1>0 DEF TypeOK, NotHeld, Goto, AfterHolding, PCs, domainVars, headerVars, gateVars, personVars, bookVars, worldVars, ticketVars
<1>9. CASE CheckSeats(h)
  BY <1>9, <1>0 DEF TypeOK, CheckSeats, Goto, PCs, domainVars, headerVars, gateVars, personVars, bookVars, worldVars, ticketVars
<1>10. CASE GrantLicence(h)
  BY <1>10, <1>0, LineShape, LicenceShape DEF TypeOK, GrantLicence, PutLicence, Goto, PCs, domainVars, headerVars, gateVars, personVars, bookVars, worldVars, ticketVars
<1>11. CASE LoseGrantAnswer(h)
  BY <1>11, <1>0, LineShape, LicenceShape DEF TypeOK, LoseGrantAnswer, PutLicence, Finish, PCs, domainVars, headerVars, gateVars, personVars, bookVars, worldVars, ticketVars
<1>12. CASE GiveUp(h)
  BY <1>12, <1>0 DEF TypeOK, GiveUp, Finish, PCs, domainVars, headerVars, gateVars, personVars, bookVars, worldVars, ticketVars
<1>13. CASE BeginTx(h)
  BY <1>13, <1>0, AggregateStatusType DEF TypeOK, BeginTx, PCs, Jobs, domainVars, headerVars, gateVars, personVars, bookVars, worldVars, ticketVars
<1>14. CASE Commit(h)
  <2> DEFINE l == job[h].line
  <2>1. l \in Lines /\ Cell(l) \in Cells /\ Fresh(l) \in Jobs /\ job[h].found \in Statuses
    BY <1>0, LineShape, FreshType DEF Jobs
  <2>2. /\ stage' \in [Lines -> RowStates]
        /\ status' \in [Requests -> Statuses]
    BY <1>14, <2>1 DEF Commit, TypeOK, RowStates, Stages
  <2>3. /\ ledger' \in [Cells -> Nat]
        /\ counted' \in [Lines -> Nat] /\ skipped' \in [Lines -> Nat]
        /\ served' \in [Lines -> Users]
    BY <1>0, <1>14, <2>1 DEF Commit, CountSeat, TypeOK, Jobs
  <2>4. overrides' \in [Cells -> Nat]
    BY <1>14, <2>1 DEF Commit, TypeOK
  <2>5. pc' \in [Handlers -> PCs] /\ job' \in [Handlers -> Jobs]
    BY <1>14, <2>1 DEF Commit, TypeOK, PCs
  <2> QED BY <1>14, <2>2, <2>3, <2>4, <2>5
          DEF Commit, TypeOK, headerVars, gateVars, personVars, worldVars, ticketVars
<1>15. CASE RollBack(h)
  BY <1>15, <1>0 DEF TypeOK, RollBack, Finish, PCs, domainVars, headerVars, gateVars, personVars, bookVars, worldVars, ticketVars
<1>16. CASE CloseTicket(h)
  BY <1>16, <1>0 DEF TypeOK, CloseTicket, Finish, PCs, domainVars, headerVars, gateVars, personVars, bookVars, worldVars, ticketVars
<1>17. CASE CloseRefused(h)
  BY <1>17, <1>0 DEF TypeOK, CloseRefused, Record, Deliveries, Finish, PCs, domainVars, headerVars, gateVars, personVars, bookVars, worldVars, ticketVars
<1>18. CASE NoteParent(h)
  BY <1>18, <1>0 DEF TypeOK, NoteParent, Record, Deliveries, Finish, PCs, domainVars, headerVars, gateVars, personVars, bookVars, worldVars, ticketVars
<1> QED BY <1>1, <1>2, <1>3, <1>4, <1>5, <1>6, <1>7, <1>8, <1>9, <1>10, <1>11, <1>12,
           <1>13, <1>14, <1>15, <1>16, <1>17, <1>18 DEF AssignStep

\* So does a step of a handler that authors lines or moves their stages.
LEMMA AuthorTypes ==
    ASSUME TypeOK, NEW h \in Handlers, AuthorStep(h)
    PROVE  TypeOK'
<1>0. job[h].line \in Lines /\ Blank \in Jobs /\ job[h] \in Jobs /\ Fresh(job[h].line) \in Jobs
  BY FreshType DEF TypeOK, Jobs
<1>1. CASE WriteStage(h)
  <2> DEFINE l == job[h].line
  <2>1. job[h].to \in RowStates
    BY <1>0 DEF Jobs, RowStates
  <2>2. stage' \in [Lines -> RowStates]
    BY <1>1, <1>0, <2>1 DEF TypeOK, WriteStage
  <2>3. pc' \in [Handlers -> PCs] /\ job' \in [Handlers -> Jobs]
    <3>1. CASE Exists(l)
      BY <1>1, <1>0, <3>1 DEF TypeOK, WriteStage, PCs
    <3>2. CASE ~Exists(l)
      BY <1>1, <1>0, <3>2 DEF TypeOK, WriteStage, Finish, PCs
    <3> QED BY <3>1, <3>2
  <2> QED BY <1>1, <2>2, <2>3
          DEF TypeOK, WriteStage, headerVars, gateVars, personVars, bookVars, worldVars, ticketVars
<1>2. CASE CreateLine(h)
  BY <1>2, <1>0 DEF TypeOK, CreateLine, Goto, PCs, RowStates, Stages, domainVars, headerVars, gateVars, personVars, bookVars, worldVars, ticketVars
<1>3. CASE DeleteLine(h)
  BY <1>3, <1>0 DEF TypeOK, DeleteLine, Goto, Finish, PCs, RowStates, domainVars, headerVars, gateVars, personVars, bookVars, worldVars, ticketVars
<1>4. CASE Recount(h)
  <2>1. AggregateStatus(StagesOf(RequestOf[job[h].line])) \in Statuses
    BY AggregateStatusType
  <2> QED BY <1>4, <1>0, <2>1
          DEF TypeOK, Recount, PCs, Jobs, domainVars, headerVars, gateVars, personVars, bookVars, worldVars, ticketVars
<1>5. CASE SaveStatus(h)
  BY <1>5, <1>0 DEF TypeOK, SaveStatus, Finish, PCs, Jobs, domainVars, headerVars, gateVars, personVars, bookVars, worldVars, ticketVars
<1> QED BY <1>1, <1>2, <1>3, <1>4, <1>5 DEF AuthorStep

\* A call that starts puts well typed data in its job.
LEMMA StartTypes ==
    ASSUME TypeOK, NEW h \in Handlers, StartStep(h)
    PROVE  TypeOK'
<1>1. PICK l \in Lines :
        \/ \E reason \in BOOLEAN : StartAssign(h, l, reason)
        \/ \E to \in Stages : StartAdvance(h, l, to)
        \/ StartAdd(h, l)
        \/ StartRemove(h, l)
  BY DEF StartStep
<1>2. Fresh(l) \in Jobs BY FreshType
<1>3. \A reason \in BOOLEAN :
        [Fresh(l) EXCEPT !.who = target[RequestOf[l]], !.reason = reason,
                         !.marked = heldAt[l]] \in Jobs
  BY <1>2, LineShape DEF TypeOK, Jobs
<1>4. \A to \in Stages : [Fresh(l) EXCEPT !.to = to] \in Jobs
  BY <1>2 DEF Jobs
<1>5. ASSUME NEW where \in PCs, NEW j \in Jobs, Begin(h, where, j),
             UNCHANGED <<domainVars, headerVars, bookVars, worldVars, ticketVars>>
      PROVE  TypeOK'
  BY <1>5 DEF TypeOK, Begin, domainVars, headerVars, gateVars, personVars, bookVars, worldVars, ticketVars
<1>6. ASSUME NEW reason \in BOOLEAN, StartAssign(h, l, reason) PROVE TypeOK'
  BY <1>6, <1>3, <1>5 DEF StartAssign, PCs
<1>7. ASSUME NEW to \in Stages, StartAdvance(h, l, to) PROVE TypeOK'
  BY <1>7, <1>4, <1>5 DEF StartAdvance, PCs
<1>8. CASE StartAdd(h, l)
  BY <1>8, <1>2, <1>5 DEF StartAdd, PCs
<1>9. CASE StartRemove(h, l)
  BY <1>9, <1>2, <1>5 DEF StartRemove, PCs
<1> QED BY <1>1, <1>6, <1>7, <1>8, <1>9

\* A correction of the person and a replay of a delivery keep the types too.
LEMMA EditTypes ==
    ASSUME TypeOK, NEW h \in Handlers, StartEditStep(h) \/ EditStep(h)
    PROVE  TypeOK'
<1>0. /\ Blank \in Jobs /\ job[h] \in Jobs
      /\ job[h].line \in Lines /\ job[h].req \in Requests /\ job[h].who \in Users
  BY FreshType DEF TypeOK, Jobs
<1>1. ASSUME NEW r \in Requests, NEW u \in Users, StartEdit(h, r, u) PROVE TypeOK'
  <2>1. [Blank EXCEPT !.req = r, !.who = u, !.marked = azureSynced[r]] \in Jobs
    BY <1>0 DEF TypeOK, Jobs
  <2> QED BY <1>1, <2>1 DEF TypeOK, StartEdit, Begin, PCs, domainVars, headerVars, gateVars,
              personVars, bookVars, worldVars, ticketVars
<1>2. ASSUME NEW l \in Lines, NEW what \in Deliveries, StartReplay(h, l, what) PROVE TypeOK'
  <2>1. [Fresh(l) EXCEPT !.what = what] \in Jobs
    BY FreshType DEF Jobs
  <2> QED BY <1>2, <2>1 DEF TypeOK, StartReplay, Begin, PCs, domainVars, headerVars, gateVars,
              personVars, bookVars, worldVars, ticketVars
<1>3. CASE WriteHeader(h)
  BY <1>0, <1>3 DEF TypeOK, WriteHeader, Finish, LinesOf, PCs, domainVars, gateVars, bookVars,
                    worldVars, ticketVars
<1>4. CASE Replay(h)
  BY <1>0, <1>4 DEF TypeOK, Replay, Goto, PCs, domainVars, headerVars, gateVars, personVars,
                    bookVars, worldVars
<1>5. CASE ReplayRefused(h)
  BY <1>0, <1>5 DEF TypeOK, ReplayRefused, Finish, PCs, domainVars, headerVars, gateVars,
                    personVars, bookVars, worldVars, ticketVars
<1>6. CASE Resolve(h)
  BY <1>0, <1>6 DEF TypeOK, Resolve, Finish, PCs, domainVars, headerVars, gateVars, personVars,
                    bookVars, worldVars
<1> QED BY <1>1, <1>2, <1>3, <1>4, <1>5, <1>6 DEF StartEditStep, EditStep

\* Gates, crashes and the world keep the types.
LEMMA OutsideTypes ==
    ASSUME TypeOK, GateStep \/ Crash \/ WorldStep
    PROVE  TypeOK'
<1>1. CASE GateStep
  BY <1>1 DEF TypeOK, GateStep, MarkSynced, OpenSyncGate, OpenServiceNowUserGate, domainVars, headerVars, gateVars, personVars, bookVars, worldVars, ticketVars
<1>2. CASE Crash
  BY <1>2, FreshType DEF TypeOK, Crash, PCs, domainVars, headerVars, gateVars, personVars, bookVars, worldVars, ticketVars
<1>3. ASSUME NEW u \in Users, Provision(u) PROVE TypeOK'
  BY <1>3 DEF TypeOK, Provision, domainVars, headerVars, gateVars, personVars, bookVars, worldVars, ticketVars
<1>4. ASSUME NEW u \in Users, NEW s \in Skus, GrantOutside(u, s) PROVE TypeOK'
  BY <1>4 DEF TypeOK, GrantOutside, domainVars, headerVars, gateVars, personVars, bookVars, worldVars, ticketVars
<1> QED BY <1>1, <1>2, <1>3, <1>4 DEF WorldStep

LEMMA InitTypes == Init => TypeOK
BY ShapeAssumption, QuantityAssumption, StartAssumption, FreshType, AggregateStatusType
   DEF Init, TypeOK, RowStates, PCs

LEMMA StepTypes == TypeOK /\ [Next]_vars => TypeOK'
<1> SUFFICES ASSUME TypeOK, [Next]_vars PROVE TypeOK'
  OBVIOUS
<1>1. ASSUME NEW h \in Handlers, StartStep(h) \/ AssignStep(h) \/ AuthorStep(h)
      PROVE  TypeOK'
  BY <1>1, StartTypes, AssignTypes, AuthorTypes
<1>4. ASSUME NEW h \in Handlers, StartEditStep(h) \/ EditStep(h) PROVE TypeOK'
  BY <1>4, EditTypes
<1>2. CASE GateStep \/ Crash \/ WorldStep
  BY <1>2, OutsideTypes
<1>3. CASE UNCHANGED vars
  BY <1>3 DEF TypeOK, vars, domainVars, headerVars, gateVars, personVars, bookVars, worldVars, ticketVars
<1> QED BY <1>1, <1>2, <1>3, <1>4 DEF Next

\* Every reachable state is well typed; a corrupted status, a negative ledger or
\* a handler without a line never occurs.
THEOREM TypeCorrect == Spec => []TypeOK
BY InitTypes, StepTypes, PTL DEF Spec

-----------------------------------------------------------------------------
(* What a handler knows at each of its awaits.  The three delivery          *)
(* invariants are not inductive alone: the commit and the close rely on     *)
(* gates and answers of earlier steps, so these facts carry them along.     *)

Gated == {"directory", "budget", "hold", "mark", "holding", "seats", "grant",
          "tx", "commit", "close"}

Knows(h) ==
    LET l == job[h].line IN
    /\ pc[h] \in Gated => azureSynced[RequestOf[l]] /\ snSynced[RequestOf[l]]
    /\ pc[h] \in Assigning => job[h].who = target[RequestOf[l]] \/ l \in renamed
    /\ pc[h] \in {"tx", "commit"} => Licence(job[h]) \in licences
    /\ pc[h] = "close" => counted[l] + skipped[l] > 0
    /\ pc[h] = "mark" => ticket[l] \in {"inProgress", "closed"}
    /\ pc[h] = "stage" => job[h].to # "ASSIGNED"
    /\ pc[h] = "header" => ~job[h].marked
    /\ pc[h] = "replay" /\ job[h].what = "close" => counted[l] + skipped[l] > 0
    /\ pc[h] = "resolve" /\ job[h].what = "close" => ticket[l] = "closed"

\* What the timeline says was delivered was, and a queued close was earned.
Booked ==
    \A l \in Lines :
        /\ counted[l] + skipped[l] > 0 => Delivered(l) \in licences
        /\ <<l, "close">> \in queue => counted[l] + skipped[l] > 0

DeliveryInv ==
    /\ TypeOK
    /\ \A h \in Handlers : Knows(h)
    /\ Booked
    /\ AssignedIsEarned
    /\ ClosedTicketIsDelivered
    /\ HoldFlagHonest

\* Nothing a handler relied on is taken back.
Kept ==
    /\ licences \subseteq licences'
    /\ \A r \in Requests : /\ azureSynced[r] => azureSynced'[r]
                           /\ snSynced[r] => snSynced'[r]
    /\ \A l \in Lines :
          /\ counted[l] + skipped[l] > 0 => counted'[l] + skipped'[l] > 0
          /\ ticket[l] \in {"inProgress", "closed"} =>
                ticket'[l] \in {"inProgress", "closed"}
          /\ ticket[l] = "closed" => ticket'[l] = "closed"
    /\ \A r \in Requests : target'[r] = target[r]
    /\ renamed' = renamed

\* A step of one handler leaves the other handlers where they are.
Alone(h) == \A k \in Handlers \ {h} : pc'[k] = pc[k] /\ job'[k] = job[k]

LEMMA HandlersKeep ==
    ASSUME TypeOK, NEW h \in Handlers, StartStep(h) \/ AssignStep(h) \/ AuthorStep(h)
    PROVE  Kept /\ Alone(h)
<1>0. job[h].line \in Lines /\ Cell(job[h].line) \in Cells
  BY LineShape DEF TypeOK, Jobs
<1>1. CASE FindUser(h)
  BY <1>1, <1>0 DEF TypeOK, Kept, Alone, FindUser, Goto, domainVars, headerVars, gateVars, personVars, bookVars, worldVars, ticketVars
<1>2. CASE PassBudget(h)
  BY <1>2, <1>0 DEF TypeOK, Kept, Alone, PassBudget, domainVars, headerVars, gateVars, personVars, bookVars, worldVars, ticketVars
<1>3. CASE FailBudget(h)
  BY <1>3, <1>0 DEF TypeOK, Kept, Alone, FailBudget, Goto, Finish, domainVars, headerVars, gateVars, personVars, bookVars, worldVars, ticketVars
<1>4. CASE HoldTicket(h)
  BY <1>4, <1>0 DEF TypeOK, Kept, Alone, HoldTicket, Goto, domainVars, headerVars, gateVars, personVars, bookVars, worldVars, ticketVars
<1>5. CASE HoldRefused(h)
  BY <1>5, <1>0 DEF TypeOK, Kept, Alone, HoldRefused, Finish, domainVars, headerVars, gateVars, personVars, bookVars, worldVars, ticketVars
<1>6. CASE MarkHeld(h)
  BY <1>6, <1>0 DEF TypeOK, Kept, Alone, MarkHeld, Finish, domainVars, headerVars, gateVars, personVars, bookVars, worldVars, ticketVars
<1>7. CASE AlreadyHeld(h)
  BY <1>7, <1>0 DEF TypeOK, Kept, Alone, AlreadyHeld, domainVars, headerVars, gateVars, personVars, bookVars, worldVars, ticketVars
<1>8. CASE NotHeld(h)
  BY <1>8, <1>0 DEF TypeOK, Kept, Alone, NotHeld, Goto, domainVars, headerVars, gateVars, personVars, bookVars, worldVars, ticketVars
<1>9. CASE CheckSeats(h)
  BY <1>9, <1>0 DEF TypeOK, Kept, Alone, CheckSeats, Goto, domainVars, headerVars, gateVars, personVars, bookVars, worldVars, ticketVars
<1>10. CASE GrantLicence(h)
  BY <1>10, <1>0 DEF TypeOK, Kept, Alone, GrantLicence, PutLicence, Goto, domainVars, headerVars, gateVars, personVars, bookVars, worldVars, ticketVars
<1>11. CASE LoseGrantAnswer(h)
  BY <1>11, <1>0 DEF TypeOK, Kept, Alone, LoseGrantAnswer, PutLicence, Finish, domainVars, headerVars, gateVars, personVars, bookVars, worldVars, ticketVars
<1>12. CASE GiveUp(h)
  BY <1>12, <1>0 DEF TypeOK, Kept, Alone, GiveUp, Finish, domainVars, headerVars, gateVars, personVars, bookVars, worldVars, ticketVars
<1>13. CASE BeginTx(h)
  BY <1>13, <1>0 DEF TypeOK, Kept, Alone, BeginTx, domainVars, headerVars, gateVars, personVars, bookVars, worldVars, ticketVars
<1>14. CASE Commit(h)
  BY <1>14, <1>0 DEF TypeOK, Kept, Alone, Commit, CountSeat, domainVars, headerVars, gateVars, personVars, bookVars, worldVars, ticketVars
<1>15. CASE RollBack(h)
  BY <1>15, <1>0 DEF TypeOK, Kept, Alone, RollBack, Finish, domainVars, headerVars, gateVars, personVars, bookVars, worldVars, ticketVars
<1>16. CASE CloseTicket(h)
  BY <1>16, <1>0 DEF TypeOK, Kept, Alone, CloseTicket, Finish, domainVars, headerVars, gateVars, personVars, bookVars, worldVars, ticketVars
<1>17. CASE CloseRefused(h)
  BY <1>17, <1>0 DEF TypeOK, Kept, Alone, CloseRefused, Finish, domainVars, headerVars, gateVars, personVars, bookVars, worldVars, ticketVars
<1>18. CASE NoteParent(h)
  BY <1>18, <1>0 DEF TypeOK, Kept, Alone, NoteParent, Finish, domainVars, headerVars, gateVars, personVars, bookVars, worldVars, ticketVars
<1>19. CASE WriteStage(h)
  BY <1>19, <1>0 DEF TypeOK, Kept, Alone, WriteStage, Finish, domainVars, headerVars, gateVars, personVars, bookVars, worldVars, ticketVars
<1>20. CASE CreateLine(h)
  BY <1>20, <1>0 DEF TypeOK, Kept, Alone, CreateLine, Goto, domainVars, headerVars, gateVars, personVars, bookVars, worldVars, ticketVars
<1>21. CASE DeleteLine(h)
  BY <1>21, <1>0 DEF TypeOK, Kept, Alone, DeleteLine, Goto, Finish, domainVars, headerVars, gateVars, personVars, bookVars, worldVars, ticketVars
<1>22. CASE Recount(h)
  BY <1>22, <1>0 DEF TypeOK, Kept, Alone, Recount, domainVars, headerVars, gateVars, personVars, bookVars, worldVars, ticketVars
<1>23. CASE SaveStatus(h)
  BY <1>23, <1>0 DEF TypeOK, Kept, Alone, SaveStatus, Finish, domainVars, headerVars, gateVars, personVars, bookVars, worldVars, ticketVars
<1>24. CASE StartStep(h)
  <2>1. PICK l \in Lines :
          \/ \E reason \in BOOLEAN : StartAssign(h, l, reason)
          \/ \E to \in Stages : StartAdvance(h, l, to)
          \/ StartAdd(h, l)
          \/ StartRemove(h, l)
    BY <1>24 DEF StartStep
  <2>2. \E where, j : Begin(h, where, j)
    BY <2>1 DEF StartAssign, StartAdvance, StartAdd, StartRemove
  <2>3. UNCHANGED <<domainVars, headerVars, bookVars, worldVars, ticketVars>>
    BY <2>1 DEF StartAssign, StartAdvance, StartAdd, StartRemove
  <2> QED
    BY <2>2, <2>3 DEF TypeOK, Kept, Alone, Begin, domainVars, headerVars, gateVars, personVars, bookVars, worldVars, ticketVars
<1> QED BY <1>1, <1>2, <1>3, <1>4, <1>5, <1>6, <1>7, <1>8, <1>9, <1>10, <1>11, <1>12,
           <1>13, <1>14, <1>15, <1>16, <1>17, <1>18, <1>19, <1>20, <1>21, <1>22, <1>23,
           <1>24 DEF AssignStep, AuthorStep

LEMMA OutsideKeeps ==
    ASSUME TypeOK, GateStep \/ Crash \/ WorldStep
    PROVE  Kept
<1>1. CASE GateStep
  BY <1>1 DEF TypeOK, Kept, GateStep, MarkSynced, OpenSyncGate, OpenServiceNowUserGate,
              domainVars, headerVars, personVars, bookVars, worldVars, ticketVars
<1>2. CASE Crash
  BY <1>2 DEF Kept, Crash, headerVars, gateVars, personVars, bookVars, worldVars, ticketVars
<1>3. CASE WorldStep
  BY <1>3 DEF Kept, WorldStep, Provision, GrantOutside, headerVars, gateVars, personVars, bookVars, ticketVars
<1> QED BY <1>1, <1>2, <1>3

\* What a handler knows survives every step that leaves it where it is.
LEMMA KnowsKept ==
    ASSUME TypeOK, Kept, NEW k \in Handlers, Knows(k), pc'[k] = pc[k], job'[k] = job[k]
    PROVE  Knows(k)'
<1>1. job[k].line \in Lines /\ RequestOf[job[k].line] \in Requests
  BY ShapeAssumption DEF TypeOK, Jobs
<1> QED BY <1>1 DEF Knows, Gated, Assigning, Kept, Licence

\* The handler that moves learns what its next await relies on.
LEMMA KnowsLearnt ==
    ASSUME DeliveryInv, NEW h \in Handlers, StartStep(h) \/ AssignStep(h) \/ AuthorStep(h)
    PROVE  Knows(h)'
<1>0. /\ TypeOK
      /\ Knows(h)
      /\ job[h].line \in Lines
      /\ RequestOf[job[h].line] \in Requests
  BY ShapeAssumption DEF DeliveryInv, TypeOK, Jobs
<1>1. CASE FindUser(h)
  BY <1>1, <1>0 DEF TypeOK, Knows, Gated, Assigning, Licence, FindUser, Goto, domainVars, headerVars, gateVars, personVars, bookVars, worldVars, ticketVars
<1>2. CASE PassBudget(h)
  BY <1>2, <1>0 DEF Jobs, TypeOK, Knows, Gated, Assigning, Licence, PassBudget, Fresh, domainVars, headerVars, gateVars, personVars, bookVars, worldVars, ticketVars
<1>3. CASE FailBudget(h)
  BY <1>3, <1>0 DEF TypeOK, Knows, Gated, Assigning, Licence, FailBudget, Goto, Finish, domainVars, headerVars, gateVars, personVars, bookVars, worldVars, ticketVars
<1>4. CASE HoldTicket(h)
  BY <1>4, <1>0 DEF TypeOK, Knows, Gated, Assigning, Licence, HoldTicket, Goto, domainVars, headerVars, gateVars, personVars, bookVars, worldVars, ticketVars
<1>5. CASE HoldRefused(h)
  BY <1>5, <1>0 DEF TypeOK, Knows, Gated, Assigning, Licence, HoldRefused, Finish, domainVars, headerVars, gateVars, personVars, bookVars, worldVars, ticketVars
<1>6. CASE MarkHeld(h)
  BY <1>6, <1>0 DEF TypeOK, Knows, Gated, Assigning, Licence, MarkHeld, Finish, domainVars, headerVars, gateVars, personVars, bookVars, worldVars, ticketVars
<1>7. CASE AlreadyHeld(h)
  BY <1>7, <1>0 DEF TypeOK, Knows, Gated, Assigning, Licence, AlreadyHeld, domainVars, headerVars, gateVars, personVars, bookVars, worldVars, ticketVars
<1>8. CASE NotHeld(h)
  BY <1>8, <1>0 DEF TypeOK, Knows, Gated, Assigning, Licence, NotHeld, Goto, AfterHolding, domainVars, headerVars, gateVars, personVars, bookVars, worldVars, ticketVars
<1>9. CASE CheckSeats(h)
  BY <1>9, <1>0 DEF TypeOK, Knows, Gated, Assigning, Licence, CheckSeats, Goto, domainVars, headerVars, gateVars, personVars, bookVars, worldVars, ticketVars
<1>10. CASE GrantLicence(h)
  BY <1>10, <1>0 DEF TypeOK, Knows, Gated, Assigning, Licence, GrantLicence, PutLicence, Goto, domainVars, headerVars, gateVars, personVars, bookVars, worldVars, ticketVars
<1>11. CASE LoseGrantAnswer(h)
  BY <1>11, <1>0 DEF TypeOK, Knows, Gated, Assigning, Licence, LoseGrantAnswer, PutLicence, Finish, domainVars, headerVars, gateVars, personVars, bookVars, worldVars, ticketVars
<1>12. CASE GiveUp(h)
  BY <1>12, <1>0 DEF TypeOK, Knows, Gated, Assigning, Licence, GiveUp, Finish, domainVars, headerVars, gateVars, personVars, bookVars, worldVars, ticketVars
<1>13. CASE BeginTx(h)
  BY <1>13, <1>0 DEF TypeOK, Knows, Gated, Assigning, Licence, BeginTx, domainVars, headerVars, gateVars, personVars, bookVars, worldVars, ticketVars
<1>14. CASE Commit(h)
  BY <1>14, <1>0 DEF TypeOK, Knows, Gated, Assigning, Licence, Commit, CountSeat, Fresh, domainVars, headerVars, gateVars, personVars, bookVars, worldVars, ticketVars
<1>15. CASE RollBack(h)
  BY <1>15, <1>0 DEF TypeOK, Knows, Gated, Assigning, Licence, RollBack, Finish, domainVars, headerVars, gateVars, personVars, bookVars, worldVars, ticketVars
<1>16. CASE CloseTicket(h)
  BY <1>16, <1>0 DEF TypeOK, Knows, Gated, Assigning, Licence, CloseTicket, Finish, domainVars, headerVars, gateVars, personVars, bookVars, worldVars, ticketVars
<1>17. CASE CloseRefused(h)
  BY <1>17, <1>0 DEF TypeOK, Knows, Gated, Assigning, Licence, CloseRefused, Finish, domainVars, headerVars, gateVars, personVars, bookVars, worldVars, ticketVars
<1>18. CASE NoteParent(h)
  BY <1>18, <1>0 DEF TypeOK, Knows, Gated, Assigning, Licence, NoteParent, Finish, domainVars, headerVars, gateVars, personVars, bookVars, worldVars, ticketVars
<1>19. CASE WriteStage(h)
  BY <1>19, <1>0 DEF TypeOK, Knows, Gated, Assigning, Licence, WriteStage, Finish, Fresh, domainVars, headerVars, gateVars, personVars, bookVars, worldVars, ticketVars
<1>20. CASE CreateLine(h)
  BY <1>20, <1>0 DEF TypeOK, Knows, Gated, Assigning, Licence, CreateLine, Goto, domainVars, headerVars, gateVars, personVars, bookVars, worldVars, ticketVars
<1>21. CASE DeleteLine(h)
  BY <1>21, <1>0 DEF TypeOK, Knows, Gated, Assigning, Licence, DeleteLine, Goto, Finish, domainVars, headerVars, gateVars, personVars, bookVars, worldVars, ticketVars
<1>22. CASE Recount(h)
  BY <1>22, <1>0 DEF TypeOK, Knows, Gated, Assigning, Licence, Recount, domainVars, headerVars, gateVars, personVars, bookVars, worldVars, ticketVars
<1>23. CASE SaveStatus(h)
  BY <1>23, <1>0 DEF TypeOK, Knows, Gated, Assigning, Licence, SaveStatus, Finish, domainVars, headerVars, gateVars, personVars, bookVars, worldVars, ticketVars
<1>24. CASE StartStep(h)
  <2>1. PICK l \in Lines :
        \/ \E reason \in BOOLEAN : StartAssign(h, l, reason)
        \/ \E to \in Stages : StartAdvance(h, l, to)
        \/ StartAdd(h, l)
        \/ StartRemove(h, l)
    BY <1>24 DEF StartStep
  <2>2. ASSUME NEW reason \in BOOLEAN, StartAssign(h, l, reason) PROVE Knows(h)'
    BY <2>2, <1>0 DEF StartAssign, Begin, Fresh, TypeOK, Knows, Gated, Assigning, domainVars, headerVars, gateVars, personVars, bookVars, worldVars, ticketVars
  <2>3. ASSUME NEW to \in Stages, StartAdvance(h, l, to) PROVE Knows(h)'
    BY <2>3, <1>0, LegalMoves DEF StartAdvance, Begin, Exists, Fresh, TypeOK, Knows, Gated, Assigning
  <2>4. CASE StartAdd(h, l) \/ StartRemove(h, l)
    BY <2>4, <1>0 DEF StartAdd, StartRemove, Begin, TypeOK, Knows, Gated, Assigning
  <2> QED BY <2>1, <2>2, <2>3, <2>4
<1> QED BY <1>1, <1>2, <1>3, <1>4, <1>5, <1>6, <1>7, <1>8, <1>9, <1>10, <1>11, <1>12,
           <1>13, <1>14, <1>15, <1>16, <1>17, <1>18, <1>19, <1>20, <1>21, <1>22, <1>23,
           <1>24 DEF AssignStep, AuthorStep

\* Only three steps write a stage after the row is read, and one of them ASSIGNED.
LEMMA StageWrites ==
    ASSUME TypeOK, NEW h \in Handlers, StartStep(h) \/ AssignStep(h) \/ AuthorStep(h),
           stage' # stage
    PROVE  Commit(h) \/ WriteStage(h) \/ CreateLine(h) \/ DeleteLine(h)
BY DEF StartStep, StartAssign, StartAdvance, StartAdd, StartRemove,
       AssignStep, AuthorStep, FindUser, PassBudget, FailBudget, HoldTicket, HoldRefused, MarkHeld, AlreadyHeld, NotHeld, CheckSeats, GrantLicence, LoseGrantAnswer, GiveUp, BeginTx, RollBack, CloseTicket, CloseRefused, NoteParent, Recount, SaveStatus, domainVars

\* Only the commit records an event.
LEMMA EventWrites ==
    ASSUME NEW h \in Handlers, StartStep(h) \/ AssignStep(h) \/ AuthorStep(h), ~Commit(h)
    PROVE  UNCHANGED <<counted, skipped, served>>
BY DEF StartStep, StartAssign, StartAdvance, StartAdd, StartRemove, AssignStep, AuthorStep,
       FindUser, PassBudget, FailBudget, HoldTicket, HoldRefused, MarkHeld, AlreadyHeld,
       NotHeld, CheckSeats, GrantLicence, LoseGrantAnswer, GiveUp, BeginTx, RollBack,
       CloseTicket, CloseRefused, NoteParent, WriteStage, CreateLine, DeleteLine, Recount,
       SaveStatus, bookVars

\* Only a close that was refused is queued, by the handler that was to close.
LEMMA QueueWrites ==
    ASSUME NEW h \in Handlers, StartStep(h) \/ AssignStep(h) \/ AuthorStep(h),
           NEW l \in Lines, <<l, "close">> \in queue', <<l, "close">> \notin queue
    PROVE  pc[h] = "close" /\ job[h].line = l /\ ~Commit(h)
<1>1. CASE HoldRefused(h)
  BY <1>1 DEF HoldRefused, Record
<1>2. CASE NoteParent(h)
  BY <1>2 DEF NoteParent, Record
<1>3. CASE CloseRefused(h)
  BY <1>3 DEF CloseRefused, Record, Commit
<1>4. CASE queue' = queue
  BY <1>4
<1>5. HoldRefused(h) \/ NoteParent(h) \/ CloseRefused(h) \/ queue' = queue
  BY DEF StartStep, StartAssign, StartAdvance, StartAdd, StartRemove, AssignStep, AuthorStep,
       FindUser, PassBudget, FailBudget, HoldTicket, MarkHeld, AlreadyHeld,
       NotHeld, CheckSeats, GrantLicence, LoseGrantAnswer, GiveUp, BeginTx, Commit, RollBack,
       CloseTicket, WriteStage, CreateLine, DeleteLine, Recount,
       SaveStatus, ticketVars
<1> QED BY <1>1, <1>2, <1>3, <1>4, <1>5

LEMMA BookedKept ==
    ASSUME DeliveryInv, NEW h \in Handlers, StartStep(h) \/ AssignStep(h) \/ AuthorStep(h)
    PROVE  Booked'
<1>0. /\ TypeOK /\ Kept /\ Knows(h) /\ Booked /\ job[h].line \in Lines
  BY HandlersKeep DEF DeliveryInv, TypeOK, Jobs
<1> SUFFICES ASSUME NEW l \in Lines
             PROVE  /\ counted'[l] + skipped'[l] > 0 => Delivered(l)' \in licences'
                    /\ <<l, "close">> \in queue' => counted'[l] + skipped'[l] > 0
  BY DEF Booked
<1>1. counted'[l] + skipped'[l] > 0 => Delivered(l)' \in licences'
  <2>1. CASE Commit(h) /\ l = job[h].line
    <3>1. served'[l] = job[h].who BY <1>0, <2>1 DEF Commit, TypeOK
    <3>2. Licence(job[h]) \in licences' BY <1>0, <2>1 DEF Commit, Knows, Kept
    <3> QED BY <2>1, <3>1, <3>2 DEF Licence, Delivered
  <2>2. CASE Commit(h) /\ l # job[h].line
    <3>1. served'[l] = served[l] /\ counted'[l] = counted[l] /\ skipped'[l] = skipped[l]
      BY <1>0, <2>2 DEF Commit, CountSeat, TypeOK
    <3> QED BY <1>0, <3>1 DEF Booked, Delivered, Kept
  <2>3. CASE ~Commit(h)
    <3>1. UNCHANGED <<counted, skipped, served>> BY <2>3, EventWrites
    <3> QED BY <1>0, <3>1 DEF Booked, Delivered, Kept
  <2> QED BY <2>1, <2>2, <2>3
<1>2. <<l, "close">> \in queue' => counted'[l] + skipped'[l] > 0
  <2>1. CASE <<l, "close">> \in queue BY <1>0, <2>1 DEF Booked, Kept
  <2>2. CASE <<l, "close">> \in queue' /\ <<l, "close">> \notin queue
    BY <1>0, <2>2, QueueWrites DEF Knows, Kept
  <2> QED BY <2>1, <2>2
<1> QED BY <1>1, <1>2

LEMMA EarnedKept ==
    ASSUME DeliveryInv, NEW h \in Handlers, StartStep(h) \/ AssignStep(h) \/ AuthorStep(h)
    PROVE  AssignedIsEarned'
<1>0. /\ TypeOK /\ Kept /\ Knows(h) /\ AssignedIsEarned
      /\ job[h].line \in Lines
      /\ \A l \in Lines : RequestOf[l] \in Requests
  BY HandlersKeep, ShapeAssumption DEF DeliveryInv, TypeOK, Jobs
<1>1. CASE Commit(h)
  <2> SUFFICES ASSUME NEW l \in Lines, stage'[l] = "ASSIGNED"
               PROVE  /\ Delivered(l)' \in licences'
                      /\ served'[l] = target'[RequestOf[l]] \/ l \in renamed'
                      /\ azureSynced'[RequestOf[l]] /\ snSynced'[RequestOf[l]]
    BY DEF AssignedIsEarned
  <2>1. CASE l = job[h].line
    <3>1. served'[l] = job[h].who BY <1>0, <1>1, <2>1 DEF Commit, TypeOK
    <3>2. Licence(job[h]) \in licences' BY <1>0, <1>1 DEF Commit, Knows, Kept
    <3>3. Delivered(l)' \in licences' BY <2>1, <3>1, <3>2 DEF Licence, Delivered
    <3> QED BY <1>0, <1>1, <2>1, <3>1, <3>3 DEF Commit, Knows, Gated, Assigning, Kept
  <2>2. CASE l # job[h].line
    <3>1. served'[l] = served[l] /\ stage'[l] = stage[l]
      BY <1>0, <1>1, <2>2 DEF Commit, TypeOK
    <3> QED BY <1>0, <3>1 DEF AssignedIsEarned, Delivered, Kept
  <2> QED BY <2>1, <2>2
<1>2. CASE ~Commit(h)
  <2>1. served' = served BY <1>2, EventWrites
  <2>2. \A l \in Lines : stage'[l] = "ASSIGNED" => stage[l] = "ASSIGNED"
    <3>1. CASE stage' = stage BY <3>1
    <3>2. CASE WriteStage(h)
      BY <1>0, <3>2 DEF WriteStage, Knows, TypeOK
    <3>3. CASE CreateLine(h)
      BY <1>0, <3>3 DEF CreateLine, TypeOK
    <3>4. CASE DeleteLine(h)
      BY <1>0, <3>4 DEF DeleteLine, TypeOK
    <3> QED BY <1>0, <1>2, <3>1, <3>2, <3>3, <3>4, StageWrites
  <2> QED BY <1>0, <2>1, <2>2 DEF AssignedIsEarned, Delivered, Kept
<1> QED BY <1>1, <1>2

\* Only two steps write a ticket.
LEMMA TicketWrites ==
    ASSUME TypeOK, NEW h \in Handlers, StartStep(h) \/ AssignStep(h) \/ AuthorStep(h),
           ticket' # ticket
    PROVE  HoldTicket(h) \/ CloseTicket(h)
BY DEF StartStep, StartAssign, StartAdvance, StartAdd, StartRemove,
       AssignStep, AuthorStep, FindUser, PassBudget, FailBudget, HoldRefused, MarkHeld, AlreadyHeld, NotHeld, CheckSeats, GrantLicence, LoseGrantAnswer, GiveUp, BeginTx, Commit, RollBack, CloseRefused, NoteParent, WriteStage, CreateLine, DeleteLine, Recount, SaveStatus, ticketVars

LEMMA ClosedKept ==
    ASSUME DeliveryInv, NEW h \in Handlers, StartStep(h) \/ AssignStep(h) \/ AuthorStep(h)
    PROVE  ClosedTicketIsDelivered'
<1>0. /\ TypeOK /\ Kept /\ Knows(h) /\ ClosedTicketIsDelivered /\ job[h].line \in Lines
      /\ Booked'
  BY HandlersKeep, BookedKept DEF DeliveryInv, TypeOK, Jobs
<1>1. CASE ~CloseTicket(h)
  <2>1. \A l \in Lines : ticket'[l] = "closed" => ticket[l] = "closed"
    <3>1. CASE ticket' = ticket BY <3>1
    <3>2. CASE HoldTicket(h) BY <1>0, <3>2 DEF HoldTicket, TypeOK
    <3> QED BY <1>0, <1>1, <3>1, <3>2, TicketWrites
  <2> QED BY <1>0, <2>1 DEF ClosedTicketIsDelivered, Booked, Kept
<1>2. CASE CloseTicket(h)
  BY <1>2, <1>0 DEF ClosedTicketIsDelivered, Booked, Kept, CloseTicket, Knows, TypeOK
<1> QED BY <1>1, <1>2

LEMMA HoldKept ==
    ASSUME DeliveryInv, NEW h \in Handlers, StartStep(h) \/ AssignStep(h) \/ AuthorStep(h)
    PROVE  HoldFlagHonest'
<1>0. /\ TypeOK /\ Kept /\ Knows(h) /\ HoldFlagHonest /\ job[h].line \in Lines
  BY HandlersKeep DEF DeliveryInv, TypeOK, Jobs
<1>1. CASE heldAt' = heldAt
  BY <1>1, <1>0 DEF HoldFlagHonest, Kept
<1>2. CASE MarkHeld(h)
  BY <1>2, <1>0 DEF HoldFlagHonest, Kept, MarkHeld, Knows, TypeOK
<1>3. heldAt' = heldAt \/ MarkHeld(h)
  BY DEF StartStep, StartAssign, StartAdvance, StartAdd, StartRemove,
         AssignStep, AuthorStep, FindUser, PassBudget, FailBudget, HoldTicket, HoldRefused, AlreadyHeld, NotHeld, CheckSeats, GrantLicence, LoseGrantAnswer, GiveUp, BeginTx, Commit, RollBack, CloseTicket, CloseRefused, NoteParent, WriteStage, CreateLine, DeleteLine, Recount, SaveStatus, domainVars
<1> QED BY <1>1, <1>2, <1>3

LEMMA DeliveryInit == Init => DeliveryInv
BY InitTypes, StartAssumption
   DEF Init, DeliveryInv, Knows, Gated, Assigning, Booked, AssignedIsEarned,
       ClosedTicketIsDelivered, HoldFlagHonest

-----------------------------------------------------------------------------
(* Corrections and replays.                                                  *)

\* Where a handler is that corrects a person or replays a delivery.
Editing == {"idle", "header", "replay", "resolve"}

\* They move no line, book nothing and leave the other handlers where they are.
LEMMA EditShape ==
    ASSUME TypeOK, NEW h \in Handlers, StartEditStep(h) \/ EditStep(h)
    PROVE  /\ UNCHANGED <<domainVars, gateVars, bookVars, worldVars>>
           /\ pc[h] \in Editing /\ pc'[h] \in Editing
           /\ Alone(h)
<1>1. ASSUME NEW r \in Requests, NEW u \in Users, StartEdit(h, r, u)
      PROVE  /\ UNCHANGED <<domainVars, gateVars, bookVars, worldVars>>
             /\ pc[h] \in Editing /\ pc'[h] \in Editing /\ Alone(h)
  BY <1>1 DEF TypeOK, StartEdit, Begin, Editing, Alone, headerVars
<1>2. ASSUME NEW l \in Lines, NEW what \in Deliveries, StartReplay(h, l, what)
      PROVE  /\ UNCHANGED <<domainVars, gateVars, bookVars, worldVars>>
             /\ pc[h] \in Editing /\ pc'[h] \in Editing /\ Alone(h)
  BY <1>2 DEF TypeOK, StartReplay, Begin, Editing, Alone, headerVars
<1>3. CASE EditStep(h)
  BY <1>3 DEF TypeOK, EditStep, WriteHeader, Replay, ReplayRefused, Resolve, Goto, Finish,
              Editing, Alone, headerVars
<1> QED BY <1>1, <1>2, <1>3 DEF StartEditStep

\* A person changes only by the write of a correction.
LEMMA PersonWrites ==
    ASSUME NEW h \in Handlers, StartEditStep(h) \/ EditStep(h), ~WriteHeader(h)
    PROVE  UNCHANGED <<target, renamed>>
BY DEF StartEditStep, EditStep, StartEdit, StartReplay, Replay, ReplayRefused, Resolve,
       headerVars, personVars

\* A ticket moves only by a replay that lands, a row goes only when it is resolved.
LEMMA EditTickets ==
    ASSUME NEW h \in Handlers, StartEditStep(h) \/ EditStep(h)
    PROVE  /\ ~Replay(h) => ticket' = ticket
           /\ ~Resolve(h) => queue' = queue
           /\ queue' \subseteq queue
BY DEF StartEditStep, EditStep, StartEdit, StartReplay, WriteHeader, Replay, ReplayRefused,
       Resolve, ticketVars

\* A closed ticket is not moved again, and a moved one stays moved.
LEMMA EditKeepsTickets ==
    ASSUME TypeOK, NEW h \in Handlers, StartEditStep(h) \/ EditStep(h), NEW l \in Lines
    PROVE  /\ ticket[l] = "closed" => ticket'[l] = "closed"
           /\ ticket[l] \in {"inProgress", "closed"} => ticket'[l] \in {"inProgress", "closed"}
<1>1. CASE Replay(h)
  BY <1>1 DEF TypeOK, Replay
<1> QED BY <1>1, EditTickets

\* What handler k knows, the corrected person aside, survives the step of handler h.
LEMMA EditKnows ==
    ASSUME DeliveryInv, NEW h \in Handlers, StartEditStep(h) \/ EditStep(h), NEW k \in Handlers
    PROVE  Knows(k)'
<1>0. /\ TypeOK /\ Knows(k) /\ Knows(h) /\ Booked
      /\ job[k].line \in Lines /\ RequestOf[job[k].line] \in Requests
      /\ job[h].line \in Lines
  BY ShapeAssumption DEF DeliveryInv, TypeOK, Jobs
<1>1. /\ UNCHANGED <<domainVars, gateVars, bookVars, worldVars>>
      /\ pc[h] \in Editing /\ pc'[h] \in Editing
      /\ Alone(h)
  BY <1>0, EditShape
<1>2. CASE k # h
  <2>1. pc'[k] = pc[k] /\ job'[k] = job[k] BY <1>1, <1>2 DEF Alone
  <2>2. pc[k] \in Assigning =>
           job[k].who = target'[RequestOf[job[k].line]] \/ job[k].line \in renamed'
    <3>1. CASE WriteHeader(h)
      <4>1. pc[k] \in Assigning => job[k].line \in LinesOf(RequestOf[job[k].line])
                                   /\ Taken(job[k].line)
        BY <1>0 DEF LinesOf, Taken
      <4>2. ~job[h].marked BY <1>0, <3>1 DEF WriteHeader, Knows
      <4> QED BY <1>0, <3>1, <4>1, <4>2 DEF TypeOK, WriteHeader, Knows
    <3>2. CASE ~WriteHeader(h)
      BY <1>0, <3>2, PersonWrites DEF Knows
    <3> QED BY <3>1, <3>2
  <2>3. /\ ticket[job[k].line] = "closed" => ticket'[job[k].line] = "closed"
        /\ ticket[job[k].line] \in {"inProgress", "closed"} =>
              ticket'[job[k].line] \in {"inProgress", "closed"}
    BY <1>0, EditKeepsTickets
  <2> QED BY <1>0, <1>1, <2>1, <2>2, <2>3
          DEF Knows, Licence, domainVars, gateVars, bookVars, worldVars
<1>3. CASE k = h
  <2>1. ASSUME NEW r \in Requests, NEW u \in Users, StartEdit(h, r, u) PROVE Knows(h)'
    BY <1>0, <2>1 DEF TypeOK, StartEdit, Begin, Blank, Fresh, Knows, Gated, Assigning
  <2>2. ASSUME NEW l \in Lines, NEW what \in Deliveries, StartReplay(h, l, what)
        PROVE  Knows(h)'
    BY <1>0, <2>2 DEF TypeOK, StartReplay, Begin, Fresh, Knows, Gated, Assigning, Booked,
                      bookVars
  <2>3. CASE WriteHeader(h) \/ ReplayRefused(h) \/ Resolve(h)
    <3>1. pc'[h] = "idle"
      BY <1>0, <2>3 DEF TypeOK, WriteHeader, ReplayRefused, Resolve, Finish
    <3> QED BY <1>3, <3>1 DEF Knows, Gated, Assigning
  <2>4. CASE Replay(h)
    <3>1. pc'[h] = "resolve" /\ job'[h] = job[h]
      BY <1>0, <2>4 DEF TypeOK, Replay, Goto
    <3>2. job[h].what = "close" => ticket'[job[h].line] = "closed"
      BY <1>0, <2>4 DEF TypeOK, Replay
    <3> QED BY <1>3, <3>1, <3>2 DEF Knows, Gated, Assigning
  <2> QED BY <1>3, <2>1, <2>2, <2>3, <2>4 DEF StartEditStep, EditStep
<1> QED BY <1>2, <1>3

\* A correction never makes an assigned line name a person it was not assigned for,
\* unless it is remembered; a replay closes only what was delivered.
LEMMA EditDelivers ==
    ASSUME DeliveryInv, NEW h \in Handlers, StartEditStep(h) \/ EditStep(h)
    PROVE  DeliveryInv'
<1>0. /\ TypeOK /\ TypeOK' /\ Knows(h) /\ job[h].line \in Lines
      /\ \A l \in Lines : RequestOf[l] \in Requests
  BY EditTypes, ShapeAssumption DEF DeliveryInv, TypeOK, Jobs
<1>1. UNCHANGED <<stage, heldAt, azureSynced, snSynced, counted, skipped, served, licences>>
  BY <1>0, EditShape DEF domainVars, gateVars, bookVars, worldVars
<1>2. \A k \in Handlers : Knows(k)' BY EditKnows
<1>3. Booked'
  BY <1>1, EditTickets DEF DeliveryInv, Booked, Delivered
<1>4. AssignedIsEarned'
  <2> SUFFICES ASSUME NEW l \in Lines, stage[l] = "ASSIGNED"
               PROVE  served[l] = target'[RequestOf[l]] \/ l \in renamed'
    BY <1>1 DEF DeliveryInv, AssignedIsEarned, Delivered
  <2>1. served[l] = target[RequestOf[l]] \/ l \in renamed
    BY DEF DeliveryInv, AssignedIsEarned
  <2>2. CASE WriteHeader(h)
    <3>1. ~job[h].marked BY <1>0, <2>2 DEF WriteHeader, Knows
    <3>2. l \in LinesOf(RequestOf[l]) /\ Taken(l) BY DEF LinesOf, Taken
    <3> QED BY <1>0, <2>1, <2>2, <3>1, <3>2 DEF TypeOK, WriteHeader
  <2>3. CASE ~WriteHeader(h) BY <2>1, <2>3, PersonWrites
  <2> QED BY <2>2, <2>3
<1>5. ClosedTicketIsDelivered'
  <2>1. \A l \in Lines : ticket'[l] = "closed" =>
           ticket[l] = "closed" \/ counted[l] + skipped[l] > 0
    <3>1. CASE Replay(h)
      BY <1>0, <3>1 DEF TypeOK, Replay, Knows
    <3> QED BY <3>1, EditTickets
  <2> QED BY <1>1, <2>1 DEF DeliveryInv, Booked, Delivered, ClosedTicketIsDelivered
<1>6. HoldFlagHonest'
  BY <1>0, <1>1, EditKeepsTickets DEF DeliveryInv, HoldFlagHonest
<1> QED BY <1>0, <1>2, <1>3, <1>4, <1>5, <1>6 DEF DeliveryInv

LEMMA DeliveryStep == DeliveryInv /\ [Next]_vars => DeliveryInv'
<1> SUFFICES ASSUME DeliveryInv, [Next]_vars PROVE DeliveryInv'
  OBVIOUS
<1>0. TypeOK /\ TypeOK'
  BY StepTypes DEF DeliveryInv
<1>1. ASSUME NEW h \in Handlers, StartStep(h) \/ AssignStep(h) \/ AuthorStep(h)
      PROVE  DeliveryInv'
  <2>1. \A k \in Handlers : Knows(k)'
    <3> TAKE k \in Handlers
    <3>1. Kept /\ Alone(h) BY <1>0, <1>1, HandlersKeep
    <3>2. CASE k = h BY <3>2, <1>1, KnowsLearnt
    <3>3. CASE k # h BY <3>3, <3>1, <1>0, KnowsKept DEF Alone, DeliveryInv
    <3> QED BY <3>2, <3>3
  <2> QED BY <1>0, <1>1, <2>1, BookedKept, EarnedKept, ClosedKept, HoldKept DEF DeliveryInv
<1>4. ASSUME NEW h \in Handlers, StartEditStep(h) \/ EditStep(h) PROVE DeliveryInv'
  BY <1>4, EditDelivers
<1>2. ASSUME GateStep \/ WorldStep \/ Crash PROVE DeliveryInv'
  <2>1. Kept BY <1>0, <1>2, OutsideKeeps
  <2>2. UNCHANGED <<stage, heldAt, counted, skipped, served, target, renamed, ticket, queue>>
    BY <1>2 DEF GateStep, MarkSynced, OpenSyncGate, OpenServiceNowUserGate, WorldStep,
                Provision, GrantOutside, Crash, domainVars, headerVars, personVars,
                bookVars, ticketVars
  <2>3. \A k \in Handlers : Knows(k)'
    <3> TAKE k \in Handlers
    <3>1. CASE Crash BY <3>1 DEF Crash, Knows, Gated, Assigning
    <3>2. CASE GateStep \/ WorldStep
      <4>1. pc' = pc /\ job' = job
        BY <3>2 DEF GateStep, MarkSynced, OpenSyncGate, OpenServiceNowUserGate, WorldStep,
                    Provision, GrantOutside
      <4> QED BY <4>1, <2>1, <1>0, KnowsKept DEF DeliveryInv
    <3> QED BY <3>1, <3>2, <1>2
  <2>4. \A l \in Lines : RequestOf[l] \in Requests
    BY ShapeAssumption
  <2> QED BY <1>0, <2>1, <2>2, <2>3, <2>4
          DEF DeliveryInv, Kept, Booked, Delivered, AssignedIsEarned, ClosedTicketIsDelivered,
              HoldFlagHonest
<1>3. CASE UNCHANGED vars
  BY <1>3, <1>0 DEF DeliveryInv, Knows, Licence, Booked, Delivered, AssignedIsEarned,
        ClosedTicketIsDelivered, HoldFlagHonest, vars, domainVars, headerVars, gateVars, personVars, bookVars, worldVars, ticketVars
<1> QED BY <1>1, <1>2, <1>3, <1>4 DEF Next

\* A line is ASSIGNED only when both gates are open and the person its event is for has
\* the licence; and that person is the one the request names, unless an edit that read
\* gate 1 shut was written after the assign had read the request.  For any number of
\* handlers, with every fault, and whatever interleaves.
THEOREM EarnedAlways == Spec => []AssignedIsEarned
<1>1. DeliveryInv => AssignedIsEarned BY DEF DeliveryInv
<1> QED BY <1>1, DeliveryInit, DeliveryStep, PTL DEF Spec

\* A closed ticket means a delivered licence and an ASSIGN event on the timeline.
THEOREM ClosedAlwaysDelivered == Spec => []ClosedTicketIsDelivered
<1>1. DeliveryInv => ClosedTicketIsDelivered BY DEF DeliveryInv
<1> QED BY <1>1, DeliveryInit, DeliveryStep, PTL DEF Spec

\* ticketHeldAt is never set for a hold ServiceNow did not take.
THEOREM HoldFlagAlwaysHonest == Spec => []HoldFlagHonest
<1>1. DeliveryInv => HoldFlagHonest BY DEF DeliveryInv
<1> QED BY <1>1, DeliveryInit, DeliveryStep, PTL DEF Spec

-----------------------------------------------------------------------------
(* The budget.  BudgetOvershoot counts the assigns in flight next to the       *)
(* ledger, and that makes it inductive: passing the gate moves an assign into  *)
(* Unbooked, the commit moves it out of Unbooked and into the ledger, an       *)
(* override pays for itself, and every other step leaves Unbooked no larger.   *)

\* The books stay and no assign joins those that passed the gate.
Quiet ==
    /\ UNCHANGED <<ledger, overrides>>
    /\ \A c \in Cells : Unbooked(c)' \subseteq Unbooked(c)

LEMMA MostStepsAreQuiet ==
    ASSUME TypeOK, NEW h \in Handlers, StartStep(h) \/ AssignStep(h) \/ AuthorStep(h),
           ~PassBudget(h), ~Commit(h)
    PROVE  Quiet
<1>0. job[h] \in Jobs /\ \A k \in Handlers : k \in DOMAIN pc /\ k \in DOMAIN job
  BY DEF TypeOK
<1>1. CASE FindUser(h)
  BY <1>1, <1>0 DEF TypeOK, Quiet, Unbooked, Cell, FindUser, Goto, bookVars
<1>2. CASE FailBudget(h)
  BY <1>2, <1>0 DEF TypeOK, Quiet, Unbooked, Cell, FailBudget, Goto, Finish, bookVars
<1>3. CASE HoldTicket(h)
  BY <1>3, <1>0 DEF TypeOK, Quiet, Unbooked, Cell, HoldTicket, Goto, bookVars
<1>4. CASE HoldRefused(h)
  BY <1>4, <1>0 DEF TypeOK, Quiet, Unbooked, Cell, HoldRefused, Finish, bookVars
<1>5. CASE MarkHeld(h)
  BY <1>5, <1>0 DEF TypeOK, Quiet, Unbooked, Cell, MarkHeld, Finish, bookVars
<1>6. CASE AlreadyHeld(h)
  BY <1>6, <1>0 DEF TypeOK, Quiet, Unbooked, Cell, AlreadyHeld, bookVars
<1>7. CASE NotHeld(h)
  BY <1>7, <1>0 DEF TypeOK, Quiet, Unbooked, Cell, NotHeld, Goto, AfterHolding, bookVars
<1>8. CASE CheckSeats(h)
  BY <1>8, <1>0 DEF TypeOK, Quiet, Unbooked, Cell, CheckSeats, Goto, bookVars
<1>9. CASE GrantLicence(h)
  BY <1>9, <1>0 DEF TypeOK, Quiet, Unbooked, Cell, GrantLicence, Goto, bookVars
<1>10. CASE LoseGrantAnswer(h)
  BY <1>10, <1>0 DEF TypeOK, Quiet, Unbooked, Cell, LoseGrantAnswer, Finish, bookVars
<1>11. CASE GiveUp(h)
  BY <1>11, <1>0 DEF TypeOK, Quiet, Unbooked, Cell, GiveUp, Finish, bookVars
<1>12. CASE BeginTx(h)
  BY <1>12, <1>0 DEF TypeOK, Quiet, Unbooked, Cell, BeginTx, bookVars
<1>13. CASE RollBack(h)
  BY <1>13, <1>0 DEF TypeOK, Quiet, Unbooked, Cell, RollBack, Finish, bookVars
<1>14. CASE CloseTicket(h)
  BY <1>14, <1>0 DEF TypeOK, Quiet, Unbooked, Cell, CloseTicket, Finish, bookVars
<1>15. CASE CloseRefused(h)
  BY <1>15, <1>0 DEF TypeOK, Quiet, Unbooked, Cell, CloseRefused, Finish, bookVars
<1>16. CASE NoteParent(h)
  BY <1>16, <1>0 DEF TypeOK, Quiet, Unbooked, Cell, NoteParent, Finish, bookVars
<1>17. CASE WriteStage(h)
  BY <1>17, <1>0 DEF TypeOK, Quiet, Unbooked, Cell, WriteStage, Finish, bookVars
<1>18. CASE CreateLine(h)
  BY <1>18, <1>0 DEF TypeOK, Quiet, Unbooked, Cell, CreateLine, Goto, bookVars
<1>19. CASE DeleteLine(h)
  BY <1>19, <1>0 DEF TypeOK, Quiet, Unbooked, Cell, DeleteLine, Goto, Finish, bookVars
<1>20. CASE Recount(h)
  BY <1>20, <1>0 DEF TypeOK, Quiet, Unbooked, Cell, Recount, bookVars
<1>21. CASE SaveStatus(h)
  BY <1>21, <1>0 DEF TypeOK, Quiet, Unbooked, Cell, SaveStatus, Finish, bookVars
<1>22. CASE StartStep(h)
  <2>1. Alone(h) BY <1>22, HandlersKeep
  <2>2. /\ pc'[h] \in {"directory", "stage", "create", "delete"}
        /\ UNCHANGED <<ledger, overrides>>
    BY <1>22 DEF TypeOK, StartStep, StartAssign, StartAdvance, StartAdd, StartRemove,
                 Begin, bookVars
  <2> QED BY <2>1, <2>2 DEF Quiet, Unbooked, Cell, Alone
<1> QED BY <1>1, <1>2, <1>3, <1>4, <1>5, <1>6, <1>7, <1>8, <1>9, <1>10, <1>11, <1>12,
           <1>13, <1>14, <1>15, <1>16, <1>17, <1>18, <1>19, <1>20, <1>21, <1>22 DEF
           AssignStep, AuthorStep

LEMMA EditIsQuiet ==
    ASSUME TypeOK, NEW h \in Handlers, StartEditStep(h) \/ EditStep(h)
    PROVE  Quiet
<1>1. /\ UNCHANGED bookVars /\ Alone(h)
      /\ pc'[h] \notin {"holding", "seats", "grant", "tx", "commit"}
  BY EditShape DEF Editing
<1> QED BY <1>1 DEF Quiet, Unbooked, Cell, Alone, bookVars

LEMMA OutsideIsQuiet ==
    ASSUME GateStep \/ Crash \/ WorldStep
    PROVE  Quiet
BY DEF Quiet, Unbooked, Cell, GateStep, MarkSynced, OpenSyncGate, OpenServiceNowUserGate,
       Crash, WorldStep, Provision, GrantOutside, bookVars

\* The handlers in flight are no more than there are handlers.
LEMMA Counting ==
    /\ Cardinality(Handlers) \in Nat /\ Cardinality(Handlers) >= 1
    /\ \A S \in SUBSET Handlers :
          /\ IsFiniteSet(S)
          /\ Cardinality(S) \in Nat
          /\ Cardinality(S) <= Cardinality(Handlers)
          /\ \A T \in SUBSET S : Cardinality(T) <= Cardinality(S)
          /\ \A h \in S : Cardinality(S \ {h}) = Cardinality(S) - 1
<1>1. Cardinality(Handlers) \in Nat /\ Cardinality(Handlers) # 0
  BY HandlersAssumption, FS_CardinalityType, FS_EmptySet
<1>2. ASSUME NEW S \in SUBSET Handlers
      PROVE  /\ IsFiniteSet(S)
             /\ Cardinality(S) \in Nat
             /\ Cardinality(S) <= Cardinality(Handlers)
  BY HandlersAssumption, FS_Subset, FS_CardinalityType
<1>3. ASSUME NEW S \in SUBSET Handlers, NEW T \in SUBSET S
      PROVE  Cardinality(T) <= Cardinality(S)
  BY <1>2, FS_Subset
<1>4. ASSUME NEW S \in SUBSET Handlers, NEW h \in S
      PROVE  Cardinality(S \ {h}) = Cardinality(S) - 1
  BY <1>2, FS_RemoveElement
<1> QED BY <1>1, <1>2, <1>3, <1>4

LEMMA CellNumbers ==
    ASSUME TypeOK, NEW c \in Cells
    PROVE  /\ ledger[c] \in Nat /\ overrides[c] \in Nat
           /\ Ceiling(c) \in Nat
           /\ Allocated[c] \in Nat /\ Opening[c] \in Nat
           /\ Allocated[c] <= Ceiling(c) /\ Opening[c] <= Ceiling(c)
BY QuantityAssumption DEF TypeOK, Ceiling

LEMMA QuietKeepsBudget ==
    ASSUME TypeOK, BudgetOvershoot, Quiet
    PROVE  BudgetOvershoot'
<1> SUFFICES ASSUME NEW c \in Cells
             PROVE  ledger'[c] + Cardinality(Unbooked(c)')
                      <= Ceiling(c) + overrides'[c] + Cardinality(Handlers) - 1
  BY DEF BudgetOvershoot, Ceiling
<1>1. Unbooked(c)' \subseteq Unbooked(c) /\ Unbooked(c) \in SUBSET Handlers
  BY DEF Quiet, Unbooked
<1>2. Cardinality(Unbooked(c)') <= Cardinality(Unbooked(c))
      /\ Cardinality(Unbooked(c)') \in Nat /\ Cardinality(Unbooked(c)) \in Nat
  BY <1>1, Counting
<1> QED BY <1>2, CellNumbers, Counting DEF BudgetOvershoot, Quiet

\* Passing within budget: the number that was read leaves room for one more, so
\* even if every handler is in flight the bound holds.
LEMMA PassKeepsBudget ==
    ASSUME TypeOK, BudgetOvershoot, NEW h \in Handlers, PassBudget(h)
    PROVE  BudgetOvershoot'
<1> SUFFICES ASSUME NEW c \in Cells
             PROVE  ledger'[c] + Cardinality(Unbooked(c)')
                      <= Ceiling(c) + overrides'[c] + Cardinality(Handlers) - 1
  BY DEF BudgetOvershoot, Ceiling
<1>0. /\ ledger' = ledger /\ overrides' = overrides
      /\ Unbooked(c) \in SUBSET Handlers /\ Unbooked(c)' \in SUBSET Handlers
  BY DEF PassBudget, bookVars, Unbooked
<1>1. CASE Cell(job[h].line) = c /\ ~OverBudget(c)
  BY <1>0, <1>1, CellNumbers, Counting DEF OverBudget
<1>2. CASE Cell(job[h].line) # c \/ OverBudget(c)
  <2>1. Unbooked(c)' \subseteq Unbooked(c)
    BY <1>2 DEF PassBudget, Unbooked, Fresh, TypeOK, Cell
  <2>2. Cardinality(Unbooked(c)') <= Cardinality(Unbooked(c))
        /\ Cardinality(Unbooked(c)') \in Nat /\ Cardinality(Unbooked(c)) \in Nat
    BY <2>1, <1>0, Counting
  <2> QED BY <1>0, <2>2, CellNumbers, Counting DEF BudgetOvershoot
<1> QED BY <1>1, <1>2

\* A commit books what was in flight, or is paid for by its override.
LEMMA CommitKeepsBudget ==
    ASSUME TypeOK, BudgetOvershoot, NEW h \in Handlers, Commit(h)
    PROVE  BudgetOvershoot'
<1> SUFFICES ASSUME NEW c \in Cells
             PROVE  ledger'[c] + Cardinality(Unbooked(c)')
                      <= Ceiling(c) + overrides'[c] + Cardinality(Handlers) - 1
  BY DEF BudgetOvershoot, Ceiling
<1> DEFINE d == Cell(job[h].line)
<1>0. /\ job[h].line \in Lines /\ d \in Cells
      /\ Unbooked(c) \in SUBSET Handlers /\ Unbooked(c)' \in SUBSET Handlers
      /\ Unbooked(c)' \subseteq Unbooked(c) \ {h}
  BY LineShape DEF TypeOK, Jobs, Unbooked, Commit, Fresh, Cell
<1>1. /\ Cardinality(Unbooked(c)') \in Nat /\ Cardinality(Unbooked(c)) \in Nat
      /\ Cardinality(Unbooked(c)') <= Cardinality(Unbooked(c))
      /\ h \in Unbooked(c) => Cardinality(Unbooked(c)') <= Cardinality(Unbooked(c)) - 1
  <2>1. Unbooked(c) \ {h} \in SUBSET Handlers BY <1>0
  <2> QED BY <1>0, <2>1, Counting
<1>2. /\ ledger'[c] = ledger[c] \/ (c = d /\ ledger'[c] = ledger[c] + 1)
      /\ overrides'[c] = IF c = d /\ job[h].over THEN overrides[c] + 1 ELSE overrides[c]
  BY <1>0 DEF Commit, CountSeat, TypeOK
<1>3. CASE c = d /\ ~job[h].over
  <2>1. h \in Unbooked(c) BY <1>3 DEF Unbooked, Commit
  <2> QED BY <2>1, <1>1, <1>2, <1>3, CellNumbers, Counting DEF BudgetOvershoot
<1>4. CASE c # d \/ job[h].over
  BY <1>1, <1>2, <1>4, CellNumbers, Counting DEF BudgetOvershoot
<1> QED BY <1>3, <1>4

\* However many operators assign at once, the ledger of an OpCo exceeds its allocation
\* by at most one seat per override and one per other assign in flight.
THEOREM BudgetHolds == Spec => []BudgetOvershoot
<1> DEFINE Inv == TypeOK /\ BudgetOvershoot
<1>1. Init => Inv
  <2> SUFFICES ASSUME Init PROVE BudgetOvershoot
    BY InitTypes
  <2> SUFFICES ASSUME NEW c \in Cells
               PROVE  ledger[c] + Cardinality(Unbooked(c))
                        <= Ceiling(c) + overrides[c] + Cardinality(Handlers) - 1
    BY DEF BudgetOvershoot
  <2>1. Unbooked(c) = {} BY DEF Init, Unbooked
  <2>2. Cardinality(Unbooked(c)) = 0 BY <2>1, FS_EmptySet
  <2>3. ledger[c] = Opening[c] /\ overrides[c] = 0 BY DEF Init
  <2> QED BY <2>2, <2>3, InitTypes, CellNumbers, Counting
<1>2. Inv /\ [Next]_vars => Inv'
  <2> SUFFICES ASSUME Inv, [Next]_vars PROVE BudgetOvershoot'
    BY StepTypes
  <2>1. ASSUME NEW h \in Handlers, StartStep(h) \/ AssignStep(h) \/ AuthorStep(h)
        PROVE  BudgetOvershoot'
    BY <2>1, MostStepsAreQuiet, QuietKeepsBudget, PassKeepsBudget, CommitKeepsBudget
  <2>4. ASSUME NEW h \in Handlers, StartEditStep(h) \/ EditStep(h) PROVE BudgetOvershoot'
    <3>1. Quiet BY <2>4, EditIsQuiet
    <3> QED BY <3>1, QuietKeepsBudget
  <2>2. CASE GateStep \/ Crash \/ WorldStep
    BY <2>2, OutsideIsQuiet, QuietKeepsBudget
  <2>3. CASE UNCHANGED vars
    <3>1. Quiet BY <2>3 DEF Quiet, Unbooked, Cell, vars, bookVars
    <3> QED BY <3>1, QuietKeepsBudget
  <2> QED BY <2>1, <2>2, <2>3, <2>4 DEF Next
<1>3. Inv => BudgetOvershoot OBVIOUS
<1> QED BY <1>1, <1>2, <1>3, PTL DEF Spec

-----------------------------------------------------------------------------
(* The close.  A line becomes ASSIGNED in the commit, and the handler that     *)
(* committed still has the ticket to close: until it has, it answers for it.   *)
(* The argument needs the handler to live on and its failure row to be         *)
(* written, so two faults are excluded; any number of handlers may run.        *)

\* An assigned line's ticket is closed, or its close is queued, or a handler is
\* about to see to it.
ClosingInv ==
    \A l \in HasRitm :
        stage[l] = "ASSIGNED" =>
            \/ ticket[l] = "closed" \/ <<l, "close">> \in queue
            \/ \E h \in Handlers : pc[h] = "close" /\ job[h].line = l

\* What is closed stays closed and what is queued stays queued.
DeliveriesKept ==
    /\ queue \subseteq queue'
    /\ \A l \in Lines : ticket[l] = "closed" => ticket'[l] = "closed"

LEMMA HandlersKeepDeliveries ==
    ASSUME TypeOK, NEW h \in Handlers, StartStep(h) \/ AssignStep(h) \/ AuthorStep(h)
    PROVE  DeliveriesKept
<1>1. CASE HoldTicket(h)
  BY <1>1 DEF TypeOK, DeliveriesKept, HoldTicket
<1>2. CASE HoldRefused(h)
  BY <1>2 DEF DeliveriesKept, HoldRefused, Record
<1>3. CASE CloseTicket(h)
  BY <1>3 DEF TypeOK, DeliveriesKept, CloseTicket
<1>4. CASE CloseRefused(h)
  BY <1>4 DEF DeliveriesKept, CloseRefused, Record
<1>5. CASE NoteParent(h)
  BY <1>5 DEF DeliveriesKept, NoteParent, Record
<1>6. CASE UNCHANGED ticketVars
  BY <1>6 DEF DeliveriesKept, ticketVars
<1>7. \/ HoldTicket(h) \/ HoldRefused(h) \/ CloseTicket(h) \/ CloseRefused(h)
      \/ NoteParent(h) \/ UNCHANGED ticketVars
  BY DEF StartStep, StartAssign, StartAdvance, StartAdd, StartRemove, AssignStep, AuthorStep,
         FindUser, PassBudget, FailBudget, MarkHeld, AlreadyHeld, NotHeld, CheckSeats,
         GrantLicence, LoseGrantAnswer, GiveUp, BeginTx, Commit, RollBack, WriteStage,
         CreateLine, DeleteLine, Recount, SaveStatus
<1> QED BY <1>1, <1>2, <1>3, <1>4, <1>5, <1>6, <1>7

\* The handler that is to close does so or queues the close.
LEMMA CloseLands ==
    ASSUME TypeOK, "db" \notin Faults, NEW h \in Handlers,
           StartStep(h) \/ AssignStep(h) \/ AuthorStep(h),
           pc[h] = "close", job[h].line \in HasRitm
    PROVE  \/ ticket'[job[h].line] = "closed"
           \/ <<job[h].line, "close">> \in queue'
<1>0. job[h].line \in Lines BY DEF TypeOK, Jobs
<1>1. CloseTicket(h) \/ CloseRefused(h)
  BY DEF StartStep, StartAssign, StartAdvance, StartAdd, StartRemove, Begin, AssignStep,
         AuthorStep, FindUser, PassBudget, FailBudget, HoldTicket, HoldRefused, MarkHeld,
         AlreadyHeld, NotHeld, CheckSeats, GrantLicence, LoseGrantAnswer, GiveUp, BeginTx,
         Commit, RollBack, NoteParent, WriteStage, CreateLine, DeleteLine, Recount, SaveStatus
<1>2. CASE CloseTicket(h)
  BY <1>0, <1>2 DEF TypeOK, CloseTicket
<1>3. CASE CloseRefused(h)
  BY <1>3 DEF CloseRefused, Record
<1> QED BY <1>1, <1>2, <1>3

\* Whoever assigns a line is the one to close its ticket.
LEMMA AssignerCloses ==
    ASSUME DeliveryInv, NEW h \in Handlers, StartStep(h) \/ AssignStep(h) \/ AuthorStep(h),
           NEW l \in Lines, stage'[l] = "ASSIGNED", stage[l] # "ASSIGNED"
    PROVE  pc'[h] = "close" /\ job'[h].line = l
<1>0. TypeOK /\ Knows(h) /\ job[h].line \in Lines
  BY DEF DeliveryInv, TypeOK, Jobs
<1>1. Commit(h) \/ WriteStage(h) \/ CreateLine(h) \/ DeleteLine(h)
  BY <1>0, StageWrites
<1>2. CASE Commit(h)
  BY <1>0, <1>2 DEF TypeOK, Commit, Fresh
<1>3. CASE WriteStage(h)
  BY <1>0, <1>3 DEF TypeOK, WriteStage, Knows
<1>4. CASE CreateLine(h)
  BY <1>0, <1>4 DEF TypeOK, CreateLine
<1>5. CASE DeleteLine(h)
  BY <1>0, <1>5 DEF TypeOK, DeleteLine
<1> QED BY <1>1, <1>2, <1>3, <1>4, <1>5

LEMMA ClosingStep ==
    ASSUME "crash" \notin Faults, "db" \notin Faults, DeliveryInv, ClosingInv, [Next]_vars
    PROVE  ClosingInv'
<1> SUFFICES ASSUME NEW l \in HasRitm, stage'[l] = "ASSIGNED"
             PROVE  \/ ticket'[l] = "closed" \/ <<l, "close">> \in queue'
                    \/ \E h \in Handlers : pc'[h] = "close" /\ job'[h].line = l
  BY DEF ClosingInv
<1>0. TypeOK /\ l \in Lines
  BY ShapeAssumption DEF DeliveryInv
<1>1. ASSUME NEW h \in Handlers, StartStep(h) \/ AssignStep(h) \/ AuthorStep(h)
      PROVE  \/ ticket'[l] = "closed" \/ <<l, "close">> \in queue'
             \/ \E k \in Handlers : pc'[k] = "close" /\ job'[k].line = l
  <2>1. Alone(h) /\ DeliveriesKept
    BY <1>0, <1>1, HandlersKeep, HandlersKeepDeliveries
  <2>2. CASE stage[l] # "ASSIGNED"
    BY <1>0, <1>1, <2>2, AssignerCloses
  <2>3. CASE stage[l] = "ASSIGNED" /\ (ticket[l] = "closed" \/ <<l, "close">> \in queue)
    BY <1>0, <2>1, <2>3 DEF DeliveriesKept
  <2>4. ASSUME NEW k \in Handlers, pc[k] = "close", job[k].line = l
        PROVE  \/ ticket'[l] = "closed" \/ <<l, "close">> \in queue'
               \/ pc'[k] = "close" /\ job'[k].line = l
    <3>1. CASE k = h
      BY <1>0, <1>1, <2>4, <3>1, CloseLands
    <3>2. CASE k # h
      BY <2>1, <2>4, <3>2 DEF Alone
    <3> QED BY <3>1, <3>2
  <2> QED BY <2>2, <2>3, <2>4 DEF ClosingInv
<1>4. ASSUME NEW h \in Handlers, StartEditStep(h) \/ EditStep(h)
      PROVE  \/ ticket'[l] = "closed" \/ <<l, "close">> \in queue'
             \/ \E k \in Handlers : pc'[k] = "close" /\ job'[k].line = l
  <2>1. /\ stage' = stage /\ Alone(h) /\ pc[h] # "close"
        /\ ticket[l] = "closed" => ticket'[l] = "closed"
    BY <1>0, <1>4, EditShape, EditKeepsTickets DEF Editing, domainVars
  <2>2. <<l, "close">> \in queue => <<l, "close">> \in queue' \/ ticket[l] = "closed"
    <3>1. CASE Resolve(h)
      BY <3>1 DEF DeliveryInv, Knows, Resolve
    <3> QED BY <1>4, <3>1, EditTickets
  <2> QED BY <2>1, <2>2 DEF ClosingInv, Alone
<1>2. CASE GateStep \/ WorldStep \/ UNCHANGED vars
  <2>1. UNCHANGED <<stage, ticket, queue, pc, job>>
    BY <1>2 DEF GateStep, MarkSynced, OpenSyncGate, OpenServiceNowUserGate, WorldStep,
                Provision, GrantOutside, domainVars, ticketVars, vars
  <2> QED BY <2>1 DEF ClosingInv
<1>3. ~Crash BY DEF Crash
<1> QED BY <1>1, <1>2, <1>3, <1>4 DEF Next

\* However many operators are at work: as long as the process lives and failure rows are
\* written, a line is never left ASSIGNED with its ticket open and nothing queued.
THEOREM CloseHolds ==
    ASSUME "crash" \notin Faults, "db" \notin Faults
    PROVE  Spec => []CloseAccounted
<1>1. Init => ClosingInv
  BY StartAssumption, ShapeAssumption DEF Init, ClosingInv
<1>2. ClosingInv => CloseAccounted
  BY DEF ClosingInv, CloseAccounted, AllIdle
<1>3. DeliveryInv /\ ClosingInv /\ [Next]_vars => ClosingInv'
  BY ClosingStep
<1> QED BY <1>1, <1>2, <1>3, DeliveryInit, DeliveryStep, PTL DEF Spec

=============================================================================
