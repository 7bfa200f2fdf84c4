---------------------------- MODULE SerialProofs ----------------------------
(***************************************************************************)
(* What holds when operators work one after the other: with one handler,   *)
(* Fulfilment implements LineLifecycle.  With two it does not (the run     *)
(* assign_twice shows it), because the stage is checked on a row that was  *)
(* read earlier and written by id.                                         *)
(***************************************************************************)
EXTENDS FulfilmentProofs

\* One HTTP request at a time.
OneHandler == \E h : Handlers = {h}

\* The stage of the handler's line is still the one its call was checked on.
StillTrue(h) ==
    LET l == job[h].line IN
    /\ pc[h] \in {"directory", "budget", "hold", "mark", "holding", "seats",
                  "grant", "tx", "commit"} => stage[l] = "READY"
    /\ pc[h] = "stage" => Exists(l) /\ job[h].to \in LegalTransitions[stage[l]]
    /\ pc[h] = "create" => stage[l] = "ABSENT"
    /\ pc[h] = "delete" => stage[l] = "REQUESTED"
    /\ pc[h] = "header" =>
          \A k \in LinesOf(job[h].req) : stage[k] # "ASSIGNED"

\* The timeline holds one ASSIGN event for an assigned line and none for another.
AssignsMatch ==
    \A l \in Lines : counted[l] + skipped[l] = IF stage[l] = "ASSIGNED" THEN 1 ELSE 0

\* No correction ever overtakes an assign: an edit starts only when no line of the
\* request is assigned, and with one handler it is written before any can be.
SerialInv ==
    /\ DeliveryInv
    /\ \A h \in Handlers : StillTrue(h)
    /\ AssignsMatch
    /\ renamed = {}

-----------------------------------------------------------------------------
\* What each kind of step does to the stage, the events and what is eligible.
LEMMA EligibleGrows ==
    ASSUME TypeOK, Kept PROVE Eligible \subseteq Eligible' /\ Eligible' \in SUBSET Lines
<1>1. \A l \in Lines : RequestOf[l] \in Requests BY ShapeAssumption
<1> QED BY <1>1 DEF Eligible, Kept

\* No stage is written and no event recorded by any other step of a handler.
LEMMA StageKept ==
    ASSUME TypeOK, NEW h \in Handlers, StartStep(h) \/ AssignStep(h) \/ AuthorStep(h),
           ~Commit(h), ~WriteStage(h), ~CreateLine(h), ~DeleteLine(h)
    PROVE  UNCHANGED <<stage, counted, skipped>>
BY DEF StartStep, StartAssign, StartAdvance, StartAdd, StartRemove, AssignStep, AuthorStep,
       FindUser, PassBudget, FailBudget, HoldTicket, HoldRefused, MarkHeld, AlreadyHeld,
       NotHeld, CheckSeats, GrantLicence, LoseGrantAnswer, GiveUp, BeginTx, RollBack,
       CloseTicket, CloseRefused, NoteParent, Recount, SaveStatus, domainVars, bookVars

\* Outside the handlers nothing touches a line.
LEMMA StageKeptOutside ==
    ASSUME GateStep \/ Crash \/ WorldStep
    PROVE  UNCHANGED <<stage, counted, skipped>>
BY DEF GateStep, MarkSynced, OpenSyncGate, OpenServiceNowUserGate, Crash, WorldStep,
       Provision, GrantOutside, domainVars, bookVars

\* The step of the one handler that writes a line is a step of the lifecycle.
LEMMA WritesRefine ==
    ASSUME SerialInv, NEW h \in Handlers,
           Commit(h) \/ WriteStage(h) \/ CreateLine(h) \/ DeleteLine(h)
    PROVE  Lifecycle!Next
<1> DEFINE l == job[h].line
<1>0. /\ TypeOK /\ Knows(h) /\ StillTrue(h) /\ l \in Lines
  BY DEF SerialInv, DeliveryInv, TypeOK, Jobs
<1>1. CASE Commit(h)
  <2>1. l \in Eligible
    <3>1. /\ azureSynced[RequestOf[l]] /\ snSynced[RequestOf[l]]
          /\ Licence(job[h]) \in licences /\ job[h].who = target[RequestOf[l]]
      BY <1>0, <1>1 DEF Commit, Knows, Gated, Assigning, SerialInv
    <3> QED BY <1>0, <3>1 DEF Eligible, Licence
  <2>2. stage[l] = "READY" BY <1>0, <1>1 DEF Commit, StillTrue
  <2>3. stage' = [stage EXCEPT ![l] = "ASSIGNED"] BY <1>1 DEF Commit
  <2>4. Eligible' = Eligible
    BY <1>1 DEF Commit, Eligible, headerVars, gateVars, personVars, worldVars
  <2>5. \A k \in Lines : counted'[k] + skipped'[k] =
                           IF k = l THEN counted[k] + skipped[k] + 1
                           ELSE counted[k] + skipped[k]
    BY <1>0, <1>1 DEF Commit, CountSeat, TypeOK
  <2>6. [k \in Lines |-> counted'[k] + skipped'[k]] =
           [[k \in Lines |-> counted[k] + skipped[k]] EXCEPT ![l] = @ + 1]
    BY <2>5, <1>0
  <2>7. l \in Lines BY <1>0
  <2> HIDE DEF l
  <2>8. \E k \in Lines : Lifecycle!Assign(k)
    BY <2>1, <2>2, <2>3, <2>4, <2>6, <2>7 DEF Lifecycle!Assign, Lifecycle!Move
  <2> QED BY <2>8 DEF Lifecycle!Next
<1>2. CASE WriteStage(h) \/ CreateLine(h) \/ DeleteLine(h)
  <2>1. Eligible' = Eligible /\ counted' = counted /\ skipped' = skipped
    BY <1>2 DEF WriteStage, CreateLine, DeleteLine, Eligible, headerVars, gateVars, personVars,
                worldVars,
                bookVars
  <2>2. CASE WriteStage(h)
    <3>1. /\ stage[l] \in Stages
          /\ job[h].to \in LegalTransitions[stage[l]]
          /\ stage' = [stage EXCEPT ![l] = job[h].to]
      BY <1>0, <2>2 DEF WriteStage, StillTrue, Exists
    <3>2. /\ stage[l] \in Lifecycle!Stages
          /\ job[h].to \in Lifecycle!LegalTransitions[stage[l]]
      BY <3>1 DEF Stages, LegalTransitions, Lifecycle!Stages, Lifecycle!LegalTransitions
    <3>3. Lifecycle!Move(l, job[h].to) BY <3>1 DEF Lifecycle!Move
    <3>4. Lifecycle!Advance(l)
      BY <2>1, <3>2, <3>3 DEF Lifecycle!Advance
    <3> QED BY <3>4, <1>0 DEF Lifecycle!Next
  <2>3. CASE CreateLine(h)
    <3>1. Lifecycle!Add(l)
      BY <1>0, <2>1, <2>3 DEF CreateLine, StillTrue, Lifecycle!Add, Lifecycle!Move
    <3> QED BY <3>1, <1>0 DEF Lifecycle!Next
  <2>4. CASE DeleteLine(h)
    <3>1. Lifecycle!Remove(l)
      BY <1>0, <2>1, <2>4 DEF DeleteLine, StillTrue, Exists, Stages, Lifecycle!Remove,
                              Lifecycle!Move
    <3> QED BY <3>1, <1>0 DEF Lifecycle!Next
  <2> QED BY <1>2, <2>2, <2>3, <2>4
<1> QED BY <1>1, <1>2

\* A correction of the person may take eligibility from lines that are not assigned,
\* and a replay changes nothing the lifecycle sees.
LEMMA EditRefines ==
    ASSUME SerialInv, NEW h \in Handlers, StartEditStep(h) \/ EditStep(h)
    PROVE  Lifecycle!Next
<1>0. /\ TypeOK /\ StillTrue(h)
      /\ UNCHANGED <<stage, counted, skipped, licences, azureSynced, snSynced>>
  BY EditShape DEF SerialInv, DeliveryInv, domainVars, gateVars, bookVars, worldVars
<1>1. ASSUME NEW l \in Lines, stage[l] = "ASSIGNED"
      PROVE  target'[RequestOf[l]] = target[RequestOf[l]]
  <2>1. CASE WriteHeader(h)
    <3>1. pc[h] = "header" /\ target' = [target EXCEPT ![job[h].req] = job[h].who]
      BY <2>1 DEF WriteHeader
    <3>2. RequestOf[l] # job[h].req BY <1>0, <1>1, <3>1 DEF StillTrue, LinesOf
    <3> QED BY <1>0, <3>1, <3>2 DEF TypeOK
  <2>2. CASE ~WriteHeader(h) BY <2>2, PersonWrites
  <2> QED BY <2>1, <2>2
<1>2. /\ Eligible' \in SUBSET Lines
      /\ \A l \in Eligible : stage[l] = "ASSIGNED" => l \in Eligible'
  BY <1>0, <1>1 DEF Eligible
<1>3. Lifecycle!Qualify BY <1>0, <1>2 DEF Lifecycle!Qualify
<1> QED BY <1>3 DEF Lifecycle!Next

\* So is every other step, or it changes nothing the lifecycle sees.
LEMMA StepRefines ==
    ASSUME SerialInv, [Next]_vars
    PROVE  [Lifecycle!Next]_(Lifecycle!vars)
<1>0. TypeOK BY DEF SerialInv, DeliveryInv
<1>1. ASSUME Kept, UNCHANGED <<stage, counted, skipped>> PROVE Lifecycle!Next
  <2>1. Lifecycle!Qualify BY <1>0, <1>1, EligibleGrows DEF Lifecycle!Qualify
  <2> QED BY <2>1 DEF Lifecycle!Next
<1>2. ASSUME NEW h \in Handlers, StartStep(h) \/ AssignStep(h) \/ AuthorStep(h)
      PROVE  Lifecycle!Next
  <2>1. Kept BY <1>0, <1>2, HandlersKeep
  <2> QED BY <1>0, <1>1, <1>2, <2>1, WritesRefine, StageKept
<1>3. CASE GateStep \/ Crash \/ WorldStep
  BY <1>0, <1>1, <1>3, OutsideKeeps, StageKeptOutside
<1>5. ASSUME NEW h \in Handlers, StartEditStep(h) \/ EditStep(h) PROVE Lifecycle!Next
  BY <1>5, EditRefines
<1>4. CASE UNCHANGED vars
  BY <1>4 DEF Lifecycle!vars, Eligible, vars, domainVars, headerVars, gateVars, personVars,
              bookVars, worldVars
<1> QED BY <1>2, <1>3, <1>4, <1>5 DEF Next

-----------------------------------------------------------------------------
(* With one handler nobody moves a line between the check and the write.      *)

\* The handler that moves keeps what its call was checked on.
LEMMA StillTrueStep ==
    ASSUME SerialInv, NEW h \in Handlers, StartStep(h) \/ AssignStep(h) \/ AuthorStep(h)
    PROVE  StillTrue(h)'
<1>0. /\ TypeOK /\ StillTrue(h) /\ job[h].line \in Lines
  BY DEF SerialInv, DeliveryInv, TypeOK, Jobs
<1>1. CASE FindUser(h)
  BY <1>1, <1>0 DEF TypeOK, StillTrue, Exists, FindUser, Goto, domainVars
<1>2. CASE PassBudget(h)
  BY <1>2, <1>0 DEF TypeOK, StillTrue, Exists, PassBudget, Fresh, domainVars
<1>3. CASE FailBudget(h)
  BY <1>3, <1>0 DEF TypeOK, StillTrue, Exists, FailBudget, Goto, Finish, domainVars
<1>4. CASE HoldTicket(h)
  BY <1>4, <1>0 DEF TypeOK, StillTrue, Exists, HoldTicket, Goto, domainVars
<1>5. CASE HoldRefused(h)
  BY <1>5, <1>0 DEF TypeOK, StillTrue, Exists, HoldRefused, Finish, domainVars
<1>6. CASE MarkHeld(h)
  BY <1>6, <1>0 DEF TypeOK, StillTrue, Exists, MarkHeld, Finish, domainVars
<1>7. CASE AlreadyHeld(h)
  BY <1>7, <1>0 DEF TypeOK, StillTrue, Exists, AlreadyHeld, domainVars
<1>8. CASE NotHeld(h)
  BY <1>8, <1>0 DEF TypeOK, StillTrue, Exists, NotHeld, Goto, AfterHolding, domainVars
<1>9. CASE CheckSeats(h)
  BY <1>9, <1>0 DEF TypeOK, StillTrue, Exists, CheckSeats, Goto, domainVars
<1>10. CASE GrantLicence(h)
  BY <1>10, <1>0 DEF TypeOK, StillTrue, Exists, GrantLicence, Goto, domainVars
<1>11. CASE LoseGrantAnswer(h)
  BY <1>11, <1>0 DEF TypeOK, StillTrue, Exists, LoseGrantAnswer, Finish, domainVars
<1>12. CASE GiveUp(h)
  BY <1>12, <1>0 DEF TypeOK, StillTrue, Exists, GiveUp, Finish, domainVars
<1>13. CASE BeginTx(h)
  BY <1>13, <1>0 DEF TypeOK, StillTrue, Exists, BeginTx, domainVars
<1>14. CASE Commit(h)
  BY <1>14, <1>0 DEF TypeOK, StillTrue, Exists, Commit, domainVars
<1>15. CASE RollBack(h)
  BY <1>15, <1>0 DEF TypeOK, StillTrue, Exists, RollBack, Finish, domainVars
<1>16. CASE CloseTicket(h)
  BY <1>16, <1>0 DEF TypeOK, StillTrue, Exists, CloseTicket, Finish, domainVars
<1>17. CASE CloseRefused(h)
  BY <1>17, <1>0 DEF TypeOK, StillTrue, Exists, CloseRefused, Finish, domainVars
<1>18. CASE NoteParent(h)
  BY <1>18, <1>0 DEF TypeOK, StillTrue, Exists, NoteParent, Finish, domainVars
<1>19. CASE WriteStage(h)
  BY <1>19, <1>0 DEF TypeOK, StillTrue, Exists, WriteStage, Finish, domainVars
<1>20. CASE CreateLine(h)
  BY <1>20, <1>0 DEF TypeOK, StillTrue, Exists, CreateLine, Goto, domainVars
<1>21. CASE DeleteLine(h)
  BY <1>21, <1>0 DEF TypeOK, StillTrue, Exists, DeleteLine, Goto, Finish, domainVars
<1>22. CASE Recount(h)
  BY <1>22, <1>0 DEF TypeOK, StillTrue, Exists, Recount, domainVars
<1>23. CASE SaveStatus(h)
  BY <1>23, <1>0 DEF TypeOK, StillTrue, Exists, SaveStatus, Finish, domainVars
<1>24. CASE StartStep(h)
  <2>1. PICK l \in Lines :
        \/ \E reason \in BOOLEAN : StartAssign(h, l, reason)
        \/ \E to \in Stages : StartAdvance(h, l, to)
        \/ StartAdd(h, l)
        \/ StartRemove(h, l)
    BY <1>24 DEF StartStep
  <2>2. ASSUME NEW reason \in BOOLEAN, StartAssign(h, l, reason) PROVE StillTrue(h)'
    BY <2>2, <1>0 DEF StartAssign, Begin, Fresh, TypeOK, StillTrue, domainVars
  <2>3. ASSUME NEW to \in Stages, StartAdvance(h, l, to) PROVE StillTrue(h)'
    BY <2>3, <1>0 DEF StartAdvance, Begin, Exists, Fresh, TypeOK, StillTrue, domainVars
  <2>4. CASE StartAdd(h, l) \/ StartRemove(h, l)
    BY <2>4, <1>0 DEF StartAdd, StartRemove, Begin, Fresh, TypeOK, StillTrue, domainVars
  <2> QED BY <2>1, <2>2, <2>3, <2>4
<1> QED
    BY <1>1, <1>2, <1>3, <1>4, <1>5, <1>6, <1>7, <1>8, <1>9, <1>10, <1>11, <1>12, <1>13,
     <1>14, <1>15, <1>16, <1>17, <1>18, <1>19, <1>20, <1>21, <1>22, <1>23, <1>24
  DEF AssignStep, AuthorStep

\* The commit records the one event of the line it assigns; no other step records one.
LEMMA AssignsMatchStep ==
    ASSUME SerialInv, NEW h \in Handlers, StartStep(h) \/ AssignStep(h) \/ AuthorStep(h)
    PROVE  AssignsMatch'
<1>0. /\ TypeOK /\ Knows(h) /\ StillTrue(h) /\ AssignsMatch /\ job[h].line \in Lines
  BY DEF SerialInv, DeliveryInv, TypeOK, Jobs
<1>1. CASE UNCHANGED <<stage, counted, skipped>>
  BY <1>0, <1>1 DEF AssignsMatch
<1>2. CASE Commit(h)
  BY <1>0, <1>2 DEF AssignsMatch, Commit, CountSeat, StillTrue, TypeOK
<1>3. CASE WriteStage(h)
  <2>1. Exists(job[h].line) => stage[job[h].line] # "ASSIGNED"
    BY <1>0, <1>3 DEF WriteStage, StillTrue, LegalTransitions
  <2> QED BY <2>1, <1>0, <1>3 DEF AssignsMatch, WriteStage, Knows, TypeOK, bookVars
<1>4. CASE CreateLine(h)
  BY <1>0, <1>4 DEF AssignsMatch, CreateLine, StillTrue, TypeOK, bookVars
<1>5. CASE DeleteLine(h)
  BY <1>0, <1>5 DEF AssignsMatch, DeleteLine, StillTrue, TypeOK, bookVars
<1> QED BY <1>0, <1>1, <1>2, <1>3, <1>4, <1>5, StageKept

\* The one handler starts a correction while gate 1 is shut, so with no line assigned,
\* and writes it before any can be.
LEMMA EditStepSerial ==
    ASSUME OneHandler, SerialInv, NEW h \in Handlers, StartEditStep(h) \/ EditStep(h)
    PROVE  SerialInv'
<1>0. /\ TypeOK /\ StillTrue(h) /\ AssignedIsEarned /\ renamed = {}
      /\ \A k \in Handlers : k = h
      /\ UNCHANGED <<stage, counted, skipped>>
      /\ pc'[h] \in Editing
  BY EditShape DEF OneHandler, SerialInv, DeliveryInv, domainVars, bookVars
<1>1. renamed' = {}
  <2>1. CASE WriteHeader(h)
    <3>1. pc[h] = "header" BY <2>1 DEF WriteHeader
    <3>2. \A l \in LinesOf(job[h].req) : ~Taken(l)
      BY <1>0, <3>1 DEF StillTrue, Taken, Assigning
    <3> QED BY <1>0, <2>1, <3>2 DEF WriteHeader
  <2>2. CASE ~WriteHeader(h) BY <1>0, <2>2, PersonWrites
  <2> QED BY <2>1, <2>2
<1>2. StillTrue(h)'
  <2>1. CASE pc'[h] = "header"
    <3>1. PICK r \in Requests, u \in Users : StartEdit(h, r, u)
      BY <1>0, <2>1 DEF TypeOK, StartEditStep, EditStep, StartReplay, WriteHeader, Replay,
                        ReplayRefused, Resolve, Begin, Goto, Finish
    <3>2. job'[h].req = r /\ ~azureSynced[r]
      BY <1>0, <3>1 DEF TypeOK, StartEdit, Begin, Blank, Fresh
    <3>3. \A k \in LinesOf(r) : stage'[k] # "ASSIGNED"
      BY <1>0, <3>2 DEF LinesOf, AssignedIsEarned
    <3> QED BY <2>1, <3>2, <3>3 DEF StillTrue, LinesOf
  <2>2. CASE pc'[h] # "header" BY <1>0, <2>2 DEF StillTrue, Editing
  <2> QED BY <2>1, <2>2
<1>3. AssignsMatch' BY <1>0 DEF SerialInv, AssignsMatch
<1>4. DeliveryInv' BY EditDelivers DEF SerialInv
<1> QED BY <1>0, <1>1, <1>2, <1>3, <1>4 DEF SerialInv

LEMMA SerialStep == OneHandler /\ SerialInv /\ [Next]_vars => SerialInv'
<1> SUFFICES ASSUME OneHandler, SerialInv, [Next]_vars PROVE SerialInv'
  OBVIOUS
<1>0. DeliveryInv' BY DeliveryStep DEF SerialInv
<1>1. ASSUME NEW h \in Handlers, StartStep(h) \/ AssignStep(h) \/ AuthorStep(h)
      PROVE  SerialInv'
  <2>1. \A k \in Handlers : k = h BY DEF OneHandler
  <2>2. renamed' = renamed BY <1>1, HandlersKeep DEF SerialInv, DeliveryInv, Kept
  <2> QED BY <1>0, <1>1, <2>1, <2>2, StillTrueStep, AssignsMatchStep DEF SerialInv
<1>5. ASSUME NEW h \in Handlers, StartEditStep(h) \/ EditStep(h) PROVE SerialInv'
  BY <1>5, EditStepSerial
<1>6. GateStep \/ Crash \/ WorldStep => renamed' = renamed
  BY OutsideKeeps DEF SerialInv, DeliveryInv, Kept
<1>2. CASE GateStep \/ WorldStep
  <2>1. pc' = pc /\ job' = job
    BY <1>2 DEF GateStep, MarkSynced, OpenSyncGate, OpenServiceNowUserGate, WorldStep,
                Provision, GrantOutside
  <2> QED BY <1>0, <1>2, <1>6, <2>1, StageKeptOutside
          DEF SerialInv, StillTrue, Exists, LinesOf, AssignsMatch
<1>3. CASE Crash
  <2>1. \A k \in Handlers : StillTrue(k)' BY <1>3 DEF Crash, StillTrue
  <2> QED BY <1>0, <1>3, <1>6, <2>1, StageKeptOutside DEF SerialInv, AssignsMatch
<1>4. CASE UNCHANGED vars
  BY <1>0, <1>4 DEF SerialInv, StillTrue, Exists, LinesOf, AssignsMatch, vars, domainVars,
              headerVars, personVars, bookVars
<1> QED BY <1>1, <1>2, <1>3, <1>4, <1>5 DEF Next

LEMMA SerialInit == Init => SerialInv
BY DeliveryInit, StartAssumption DEF Init, SerialInv, StillTrue, AssignsMatch

\* One operator at a time: a line goes through the assign flow at most once, whatever
\* fails and wherever the process stops.
THEOREM SerialOneAssign == ASSUME OneHandler PROVE Spec => []OneAssign
<1>1. SerialInv => OneAssign BY DEF SerialInv, AssignsMatch, OneAssign
<1>2. SerialInv /\ [Next]_vars => SerialInv' BY SerialStep
<1> QED BY <1>1, <1>2, SerialInit, PTL DEF Spec

\* One operator at a time: the assign flow and the stage moves implement the lifecycle.
THEOREM SerialLifecycle == ASSUME OneHandler PROVE Spec => LifecycleSpec
<1>1. Init => Lifecycle!Init
  BY DEF Init, Lifecycle!Init, Eligible
<1>2. SerialInv /\ [Next]_vars => [Lifecycle!Next]_(Lifecycle!vars)
  BY StepRefines
<1>3. SerialInv /\ [Next]_vars => SerialInv' BY SerialStep
<1> QED BY <1>1, <1>2, <1>3, SerialInit, PTL DEF Spec, LifecycleSpec, Lifecycle!Spec

-----------------------------------------------------------------------------
(* What a request says about its lines.  A handler computes the status from    *)
(* the lines in one step and stores it in a later one; with one handler no     *)
(* line moves in between.                                                      *)

OthersOf(l) == {k \in LinesOf(RequestOf[l]) : Exists(k) /\ k # l}

\* What the handler worked out about the request of its line is still true.
Computed(h) ==
    LET l == job[h].line IN
    /\ pc[h] = "save" => job[h].found = AggregateStatus(StagesOf(RequestOf[l]))
    /\ pc[h] = "commit" =>
          job[h].found = AggregateStatus({stage[k] : k \in OthersOf(l)} \union {"ASSIGNED"})
    /\ pc[h] = "create" => AggregateStatus(StagesOf(RequestOf[l])) # "COMPLETED"

\* A stored COMPLETED is true, also when a crash left other statuses behind.
FinalInv ==
    /\ \A r \in Requests :
          status[r] = "COMPLETED" => AggregateStatus(StagesOf(r)) = "COMPLETED"
    /\ \A h \in Handlers : Computed(h)

\* A line that may still move keeps its request from being completed.
LEMMA UnfinishedLine ==
    ASSUME NEW stages, NEW s \in stages, s \notin {"ASSIGNED", "CANCELLED"}
    PROVE  AggregateStatus(stages) # "COMPLETED"
<1>1. /\ s \in stages \ {"CANCELLED"}
      /\ stages \ {"CANCELLED"} # {"ASSIGNED"}
  OBVIOUS
<1> QED BY <1>1 DEF AggregateStatus

\* The stages of a request change only with a stage of one of its lines.
LEMMA StagesSame ==
    ASSUME NEW r \in Requests, \A k \in LinesOf(r) : stage'[k] = stage[k]
    PROVE  StagesOf(r)' = StagesOf(r)
BY DEF StagesOf, LinesOf, Exists

\* A handler moves no line but its own ...
LEMMA StagesElsewhere ==
    ASSUME TypeOK, NEW h \in Handlers, StartStep(h) \/ AssignStep(h) \/ AuthorStep(h),
           NEW r \in Requests, r # RequestOf[job[h].line]
    PROVE  StagesOf(r)' = StagesOf(r)
<1>1. \A k \in Lines : k # job[h].line => stage'[k] = stage[k]
  <2>1. CASE stage' = stage BY <2>1
  <2>2. CASE Commit(h) BY <2>2 DEF TypeOK, Commit
  <2>3. CASE WriteStage(h) BY <2>3 DEF TypeOK, WriteStage
  <2>4. CASE CreateLine(h) BY <2>4 DEF TypeOK, CreateLine
  <2>5. CASE DeleteLine(h) BY <2>5 DEF TypeOK, DeleteLine
  <2> QED BY <2>1, <2>2, <2>3, <2>4, <2>5, StageWrites
<1>2. \A k \in LinesOf(r) : k \in Lines /\ k # job[h].line
  BY DEF LinesOf
<1> QED BY <1>1, <1>2, StagesSame

\* ... and that one only while its request is not completed.
LEMMA MovesUnfinished ==
    ASSUME SerialInv, NEW h \in Handlers, Computed(h),
           StartStep(h) \/ AssignStep(h) \/ AuthorStep(h),
           NEW r \in Requests, StagesOf(r)' # StagesOf(r)
    PROVE  AggregateStatus(StagesOf(r)) # "COMPLETED"
<1> DEFINE l == job[h].line
<1>0. /\ TypeOK /\ StillTrue(h) /\ l \in Lines
  BY DEF SerialInv, DeliveryInv, TypeOK, Jobs
<1>1. r = RequestOf[l] /\ l \in LinesOf(r)
  BY <1>0, StagesElsewhere DEF LinesOf
<1>2. ASSUME Exists(l), stage[l] \notin {"ASSIGNED", "CANCELLED"}
      PROVE  AggregateStatus(StagesOf(r)) # "COMPLETED"
  <2>1. stage[l] \in StagesOf(r) BY <1>1, <1>2 DEF StagesOf
  <2> QED BY <2>1, <1>2, UnfinishedLine
<1>3. stage' # stage
  BY StagesSame
<1>4. CASE Commit(h)
  BY <1>0, <1>2, <1>4 DEF Commit, StillTrue, Exists, Stages
<1>5. CASE WriteStage(h)
  <2>1. stage[l] \notin {"ASSIGNED", "CANCELLED"} /\ Exists(l)
    BY <1>0, <1>5 DEF WriteStage, StillTrue, LegalTransitions
  <2> QED BY <2>1, <1>2
<1>6. CASE CreateLine(h)
  BY <1>1, <1>6 DEF CreateLine, Computed
<1>7. CASE DeleteLine(h)
  BY <1>0, <1>2, <1>7 DEF DeleteLine, StillTrue, Exists, Stages
<1> QED BY <1>0, <1>3, <1>4, <1>5, <1>6, <1>7, StageWrites

\* Whatever is stored is what the lines say after the step.
LEMMA StatusWrites ==
    ASSUME TypeOK, NEW h \in Handlers, Computed(h),
           StartStep(h) \/ AssignStep(h) \/ AuthorStep(h), NEW r \in Requests
    PROVE  \/ /\ status'[r] = status[r]
              /\ r = RequestOf[job[h].line] => ~Commit(h) /\ ~SaveStatus(h)
           \/ status'[r] = AggregateStatus(StagesOf(r)')
<1> DEFINE l == job[h].line
<1>0. l \in Lines /\ RequestOf[l] \in Requests
  BY LineShape DEF TypeOK, Jobs
<1>1. CASE Commit(h)
  <2>1. CASE r = RequestOf[l]
    <3>1. /\ stage' = [stage EXCEPT ![l] = "ASSIGNED"] /\ pc[h] = "commit"
          /\ status'[r] = job[h].found
      BY <1>0, <1>1, <2>1 DEF Commit, TypeOK
    <3>2. \A k \in Lines : stage'[k] = IF k = l THEN "ASSIGNED" ELSE stage[k]
      BY <3>1, <1>0 DEF TypeOK
    <3>3. StagesOf(r)' = {stage[k] : k \in OthersOf(l)} \union {"ASSIGNED"}
      BY <1>0, <2>1, <3>2 DEF StagesOf, LinesOf, OthersOf, Exists, Stages
    <3> QED BY <3>1, <3>3, <2>1 DEF Computed
  <2>2. CASE r # RequestOf[l]
    BY <1>0, <1>1, <2>2 DEF Commit, TypeOK
  <2> QED BY <2>1, <2>2
<1>2. CASE SaveStatus(h)
  <2>1. StagesOf(r)' = StagesOf(r)
    BY <1>2, StagesSame DEF SaveStatus
  <2> QED BY <1>0, <1>2, <2>1 DEF SaveStatus, Computed, TypeOK
<1>3. CASE ~Commit(h) /\ ~SaveStatus(h)
  <2>1. status' = status
    BY <1>3 DEF StartStep, StartAssign, StartAdvance, StartAdd, StartRemove, AssignStep,
       AuthorStep, FindUser, PassBudget, FailBudget, HoldTicket, HoldRefused, MarkHeld,
       AlreadyHeld, NotHeld, CheckSeats, GrantLicence, LoseGrantAnswer, GiveUp, BeginTx,
       RollBack, CloseTicket, CloseRefused, NoteParent, WriteStage, CreateLine, DeleteLine,
       Recount, domainVars
  <2> QED BY <1>3, <2>1
<1> QED BY <1>1, <1>2, <1>3

\* The handler that moves computes from the lines as they are.
LEMMA ComputedStep ==
    ASSUME TypeOK, NEW h \in Handlers, StartStep(h) \/ AssignStep(h) \/ AuthorStep(h)
    PROVE  Computed(h)'
<1>0. job[h].line \in Lines /\ \A r : stage' = stage => StagesOf(r)' = StagesOf(r)
  BY DEF TypeOK, Jobs, StagesOf, LinesOf, Exists
<1>1. CASE Recount(h)
  BY <1>0, <1>1 DEF TypeOK, Recount, Computed, domainVars
<1>2. CASE BeginTx(h)
  <2>1. stage' = stage /\ job'[h].line = job[h].line /\ pc'[h] = "commit"
    BY <1>0, <1>2 DEF TypeOK, BeginTx, domainVars
  <2>2. OthersOf(job[h].line)' = OthersOf(job[h].line)
    BY <2>1 DEF OthersOf, LinesOf, Exists
  <2>3. job'[h].found =
          AggregateStatus({stage[k] : k \in OthersOf(job[h].line)} \union {"ASSIGNED"})
    BY <1>0, <1>2 DEF TypeOK, BeginTx, OthersOf
  <2> QED BY <2>1, <2>2, <2>3 DEF Computed, OthersOf, LinesOf, Exists
<1>3. ASSUME NEW l \in Lines, StartAdd(h, l) PROVE Computed(h)'
  BY <1>0, <1>3 DEF TypeOK, StartAdd, Begin, Fresh, Computed, domainVars
<1>4. CASE /\ ~Recount(h) /\ ~BeginTx(h)
           /\ \A l \in Lines : ~StartAdd(h, l)
  <2>1. pc'[h] \notin {"save", "commit", "create"}
    BY <1>4 DEF TypeOK, Begin, Goto, Finish, StartStep, StartAssign, StartAdvance,
       StartRemove, AssignStep, AuthorStep, FindUser, PassBudget, FailBudget, HoldTicket,
       HoldRefused, MarkHeld, AlreadyHeld, NotHeld, AfterHolding, CheckSeats, GrantLicence,
       LoseGrantAnswer, GiveUp, Commit, RollBack, CloseTicket, CloseRefused, NoteParent,
       WriteStage, CreateLine, DeleteLine, SaveStatus
  <2> QED BY <2>1 DEF Computed
<1> QED BY <1>1, <1>2, <1>3, <1>4

\* Outside the handlers no status, line or job changes, except that a crash takes
\* every job.
LEMMA OutsideLeaves ==
    ASSUME GateStep \/ Crash \/ WorldStep
    PROVE  /\ UNCHANGED <<stage, status, ledger>>
           /\ Crash \/ UNCHANGED <<pc, job>>
BY DEF GateStep, MarkSynced, OpenSyncGate, OpenServiceNowUserGate, Crash, WorldStep,
       Provision, GrantOutside, domainVars, bookVars

LEMMA FinalStep ==
    OneHandler /\ SerialInv /\ FinalInv /\ [Next]_vars =>
        /\ FinalInv'
        /\ \A r \in Requests : status[r] = "COMPLETED" => status'[r] = "COMPLETED"
<1> SUFFICES ASSUME OneHandler, SerialInv, FinalInv, [Next]_vars
             PROVE  /\ FinalInv'
                    /\ \A r \in Requests :
                          status[r] = "COMPLETED" => status'[r] = "COMPLETED"
  OBVIOUS
<1>0. TypeOK BY DEF SerialInv, DeliveryInv
<1>1. ASSUME NEW h \in Handlers, StartStep(h) \/ AssignStep(h) \/ AuthorStep(h)
      PROVE  /\ FinalInv'
             /\ \A r \in Requests : status[r] = "COMPLETED" => status'[r] = "COMPLETED"
  <2>0. Computed(h) /\ \A k \in Handlers : k = h
    BY DEF OneHandler, FinalInv
  <2>1. ASSUME NEW r \in Requests
        PROVE  /\ status'[r] = "COMPLETED" => AggregateStatus(StagesOf(r)') = "COMPLETED"
               /\ status[r] = "COMPLETED" => status'[r] = "COMPLETED"
    <3>1. status[r] = "COMPLETED" =>
             /\ AggregateStatus(StagesOf(r)) = "COMPLETED"
             /\ StagesOf(r)' = StagesOf(r)
      BY <1>1, <2>0, MovesUnfinished DEF FinalInv
    <3>2. status'[r] = status[r] \/ status'[r] = AggregateStatus(StagesOf(r)')
      BY <1>0, <1>1, <2>0, StatusWrites
    <3> QED BY <3>1, <3>2
  <2>2. Computed(h)' BY <1>0, <1>1, ComputedStep
  <2>3. \A k \in Handlers : Computed(k)' BY <2>0, <2>2
  <2> QED BY <2>1, <2>3 DEF FinalInv
<1>2. CASE GateStep \/ Crash \/ WorldStep \/ UNCHANGED vars
  <2>1. UNCHANGED <<stage, status>> /\ (Crash \/ UNCHANGED <<pc, job>>)
    BY <1>2, OutsideLeaves DEF vars, domainVars
  <2>2. \A r : StagesOf(r)' = StagesOf(r)
    BY <2>1 DEF StagesOf, LinesOf, Exists
  <2>3. ASSUME NEW h \in Handlers PROVE Computed(h)'
    <3>1. CASE Crash BY <3>1 DEF Crash, Computed
    <3>2. CASE UNCHANGED <<pc, job>>
      <4>1. Computed(h) BY DEF FinalInv
      <4> QED BY <3>2, <4>1, <2>1, <2>2 DEF Computed, OthersOf, LinesOf, Exists
    <3> QED BY <2>1, <3>1, <3>2
  <2> QED BY <2>1, <2>2, <2>3 DEF FinalInv
<1>3. ASSUME NEW h \in Handlers, StartEditStep(h) \/ EditStep(h)
      PROVE  FinalInv' /\ status' = status
  <2>1. /\ UNCHANGED <<stage, status>> /\ pc'[h] \in Editing
        /\ \A k \in Handlers : k = h
    BY <1>0, <1>3, EditShape DEF OneHandler, domainVars
  <2>2. \A r : StagesOf(r)' = StagesOf(r)
    BY <2>1 DEF StagesOf, LinesOf, Exists
  <2> QED BY <2>1, <2>2 DEF FinalInv, Computed, Editing
<1> QED BY <1>1, <1>2, <1>3 DEF Next

LEMMA FinalInit == Init => FinalInv
BY DEF Init, FinalInv, Computed, StagesOf, LinesOf, Exists

\* One operator at a time: a finished request stays finished, whatever fails and wherever
\* the process stops.  The status column alone would not carry this; what does is that a
\* stored COMPLETED is always true of the lines, and completed lines do not move.
THEOREM CompletedHolds == ASSUME OneHandler PROVE Spec => CompletedIsFinal
<1>1. SerialInv /\ FinalInv /\ [Next]_vars => FinalInv'
  BY FinalStep
<1>2. SerialInv /\ FinalInv /\ [Next]_vars =>
        [\A r \in Requests : status[r] = "COMPLETED" => status'[r] = "COMPLETED"]_status
  BY FinalStep
<1>3. SerialInv /\ [Next]_vars => SerialInv' BY SerialStep
<1> QED BY <1>1, <1>2, <1>3, SerialInit, FinalInit, PTL DEF Spec, CompletedIsFinal

-----------------------------------------------------------------------------
(* The status of a request is what its lines say, except while the handler     *)
(* that moved one of them is between the move and the refresh.                 *)

Refreshing(h, r) == pc[h] \in {"recount", "save"} /\ RequestOf[job[h].line] = r

SettledInv ==
    \A r \in Requests :
        (\A h \in Handlers : ~Refreshing(h, r)) =>
            status[r] = AggregateStatus(StagesOf(r))

\* Who moves a line without storing the status at once goes on to refresh it.
LEMMA MoverRefreshes ==
    ASSUME TypeOK, NEW h \in Handlers, StartStep(h) \/ AssignStep(h) \/ AuthorStep(h),
           ~Commit(h), NEW r \in Requests, StagesOf(r)' # StagesOf(r)
    PROVE  Refreshing(h, r)'
<1>0. /\ r = RequestOf[job[h].line] /\ stage' # stage
      /\ job[h].line \in Lines
  BY StagesElsewhere, StagesSame DEF TypeOK, Jobs
<1>1. CASE WriteStage(h)
  BY <1>0, <1>1 DEF TypeOK, WriteStage, Fresh, Refreshing
<1>2. CASE CreateLine(h)
  BY <1>0, <1>2 DEF TypeOK, CreateLine, Goto, Refreshing
<1>3. CASE DeleteLine(h)
  BY <1>0, <1>3 DEF TypeOK, DeleteLine, Goto, Refreshing
<1> QED BY <1>0, <1>1, <1>2, <1>3, StageWrites

\* A refresh ends with the status stored.
LEMMA RefreshStores ==
    ASSUME TypeOK, NEW h \in Handlers, StartStep(h) \/ AssignStep(h) \/ AuthorStep(h),
           NEW r \in Requests, Refreshing(h, r), ~Refreshing(h, r)'
    PROVE  SaveStatus(h)
<1>1. Recount(h) \/ SaveStatus(h)
  BY DEF Refreshing, StartStep, StartAssign, StartAdvance, StartAdd, StartRemove, Begin,
     AssignStep, AuthorStep, FindUser, PassBudget, FailBudget, HoldTicket, HoldRefused,
     MarkHeld, AlreadyHeld, NotHeld, CheckSeats, GrantLicence, LoseGrantAnswer, GiveUp,
     BeginTx, Commit, RollBack, CloseTicket, CloseRefused, NoteParent, WriteStage,
     CreateLine, DeleteLine
<1>2. ~Recount(h)
  <2>1. Recount(h) => pc'[h] = "save" /\ job'[h].line = job[h].line
    BY DEF TypeOK, Jobs, Recount
  <2> QED BY <2>1 DEF Refreshing
<1> QED BY <1>1, <1>2

LEMMA SettledStep ==
    ASSUME OneHandler, "crash" \notin Faults, SerialInv, FinalInv, SettledInv, [Next]_vars
    PROVE  SettledInv'
<1>0. TypeOK BY DEF SerialInv, DeliveryInv
<1>1. ASSUME NEW h \in Handlers, StartStep(h) \/ AssignStep(h) \/ AuthorStep(h)
      PROVE  SettledInv'
  <2>0. Computed(h) /\ \A k \in Handlers : k = h
    BY DEF OneHandler, FinalInv
  <2> SUFFICES ASSUME NEW r \in Requests, ~Refreshing(h, r)'
               PROVE  status'[r] = AggregateStatus(StagesOf(r)')
    BY DEF SettledInv
  <2>1. CASE ~(status'[r] = AggregateStatus(StagesOf(r)'))
    <3>1. /\ status'[r] = status[r]
          /\ r = RequestOf[job[h].line] => ~Commit(h) /\ ~SaveStatus(h)
      BY <1>0, <1>1, <2>0, <2>1, StatusWrites
    <3>2. StagesOf(r)' = StagesOf(r)
      BY <1>0, <1>1, <3>1, MoverRefreshes, StagesElsewhere
    <3>3. ~Refreshing(h, r)
      BY <1>0, <1>1, <3>1, RefreshStores DEF Refreshing
    <3>4. status[r] = AggregateStatus(StagesOf(r))
      BY <2>0, <3>3 DEF SettledInv
    <3> QED BY <3>1, <3>2, <3>4
  <2> QED BY <2>1
<1>2. CASE GateStep \/ WorldStep \/ UNCHANGED vars
  <2>1. UNCHANGED <<stage, status, pc, job>>
    BY <1>2, OutsideLeaves DEF vars, domainVars, GateStep, MarkSynced, OpenSyncGate,
       OpenServiceNowUserGate, WorldStep, Provision, GrantOutside
  <2> QED BY <2>1 DEF SettledInv, Refreshing, StagesOf, LinesOf, Exists
<1>3. ~Crash BY DEF Crash
<1>4. ASSUME NEW h \in Handlers, StartEditStep(h) \/ EditStep(h)
      PROVE  SettledInv'
  <2>1. /\ UNCHANGED <<stage, status>> /\ pc[h] \in Editing
        /\ \A k \in Handlers : k = h
    BY <1>0, <1>4, EditShape DEF OneHandler, domainVars
  <2>2. \A r : StagesOf(r)' = StagesOf(r)
    BY <2>1 DEF StagesOf, LinesOf, Exists
  <2> QED BY <2>1, <2>2 DEF SettledInv, Refreshing, Editing
<1> QED BY <1>1, <1>2, <1>3, <1>4 DEF Next

\* One operator at a time and no crash: whenever nobody is at work, the status of every
\* request is what its lines say, whatever the vendors and the database do.
THEOREM StatusHolds ==
    ASSUME OneHandler, "crash" \notin Faults PROVE Spec => []StatusSettled
<1>1. Init => SettledInv
  BY DEF Init, SettledInv, StagesOf, LinesOf, Exists
<1>2. SettledInv => StatusSettled
  BY DEF SettledInv, StatusSettled, AllIdle, Refreshing
<1>3. SerialInv /\ FinalInv /\ SettledInv /\ [Next]_vars => SettledInv'
  BY SettledStep
<1>4. SerialInv /\ FinalInv /\ [Next]_vars => FinalInv' BY FinalStep
<1>5. SerialInv /\ [Next]_vars => SerialInv' BY SerialStep
<1> QED BY <1>1, <1>2, <1>3, <1>4, <1>5, SerialInit, FinalInit, PTL DEF Spec

-----------------------------------------------------------------------------
(* The seats.  The licence is granted before the transaction that counts it:   *)
(* in between the handler owes the ledger one seat, and with one handler no     *)
(* more than one seat is ever owed.                                            *)

Owing(h, c) == pc[h] \in {"tx", "commit"} /\ ~job[h].held /\ Cell(job[h].line) = c

GrantInv ==
    /\ \A h \in Handlers : pc[h] \in {"holding", "seats", "grant"} => ~job[h].held
    /\ \A c \in Cells :
          Opening[c] + granted[c] <=
              IF \E h \in Handlers : Owing(h, c) THEN ledger[c] + 1 ELSE ledger[c]

\* Only the provider call grants, only the commit counts, and nobody else comes to
\* owe a seat or stops owing one.
LEMMA OthersOwe ==
    ASSUME SerialInv, GrantInv, "db" \notin Faults, NEW h \in Handlers,
           StartStep(h) \/ AssignStep(h) \/ AuthorStep(h),
           ~GrantLicence(h), ~LoseGrantAnswer(h), ~Commit(h)
    PROVE  /\ UNCHANGED <<ledger, granted>>
           /\ \A c \in Cells : Owing(h, c)' = Owing(h, c)
           /\ pc'[h] \in {"holding", "seats", "grant"} => ~job'[h].held
<1> DEFINE Goal == /\ UNCHANGED <<ledger, granted>>
                   /\ \A c \in Cells : Owing(h, c)' = Owing(h, c)
                   /\ pc'[h] \in {"holding", "seats", "grant"} => ~job'[h].held
<1>0. /\ TypeOK /\ StillTrue(h) /\ job[h] \in Jobs
      /\ pc[h] \in {"holding", "seats", "grant"} => ~job[h].held
  BY DEF SerialInv, DeliveryInv, TypeOK, GrantInv
<1>1. CASE FindUser(h)
  BY <1>0, <1>1 DEF TypeOK, FindUser, Goto, Owing, Cell, bookVars, worldVars
<1>2. CASE PassBudget(h)
  BY <1>0, <1>2 DEF TypeOK, PassBudget, Fresh, Owing, Cell, bookVars, worldVars
<1>3. CASE FailBudget(h)
  BY <1>0, <1>3 DEF TypeOK, FailBudget, Goto, Finish, Owing, Cell, bookVars, worldVars
<1>4. CASE HoldTicket(h)
  BY <1>0, <1>4 DEF TypeOK, HoldTicket, Goto, Owing, Cell, bookVars, worldVars
<1>5. CASE HoldRefused(h)
  BY <1>0, <1>5 DEF TypeOK, HoldRefused, Finish, Owing, Cell, bookVars, worldVars
<1>6. CASE MarkHeld(h)
  BY <1>0, <1>6 DEF TypeOK, MarkHeld, Finish, Owing, Cell, bookVars, worldVars
<1>7. CASE AlreadyHeld(h)
  BY <1>0, <1>7 DEF TypeOK, Jobs, AlreadyHeld, Owing, Cell, bookVars, worldVars
<1>8. CASE NotHeld(h)
  BY <1>0, <1>8 DEF TypeOK, NotHeld, AfterHolding, Goto, Owing, Cell, bookVars, worldVars
<1>9. CASE CheckSeats(h)
  BY <1>0, <1>9 DEF TypeOK, CheckSeats, Goto, Owing, Cell, bookVars, worldVars
<1>10. CASE GiveUp(h)
  BY <1>0, <1>10 DEF TypeOK, GiveUp, Finish, Owing, Cell, bookVars, worldVars
<1>11. CASE BeginTx(h)
  BY <1>0, <1>11 DEF TypeOK, Jobs, BeginTx, Owing, Cell, bookVars, worldVars
<1>12. CASE RollBack(h)
  BY <1>0, <1>12 DEF RollBack, StillTrue, Exists, Stages
<1>13. CASE CloseTicket(h)
  BY <1>0, <1>13 DEF TypeOK, CloseTicket, Finish, Owing, Cell, bookVars, worldVars
<1>14. CASE CloseRefused(h)
  BY <1>0, <1>14 DEF TypeOK, CloseRefused, Finish, Owing, Cell, bookVars, worldVars
<1>15. CASE NoteParent(h)
  BY <1>0, <1>15 DEF TypeOK, NoteParent, Finish, Owing, Cell, bookVars, worldVars
<1>16. CASE WriteStage(h)
  BY <1>0, <1>16 DEF TypeOK, WriteStage, Finish, Owing, Cell, bookVars, worldVars
<1>17. CASE CreateLine(h)
  BY <1>0, <1>17 DEF TypeOK, CreateLine, Goto, Owing, Cell, bookVars, worldVars
<1>18. CASE DeleteLine(h)
  BY <1>0, <1>18 DEF TypeOK, DeleteLine, Goto, Finish, Owing, Cell, bookVars, worldVars
<1>19. CASE Recount(h)
  BY <1>0, <1>19 DEF TypeOK, Recount, Owing, Cell, bookVars, worldVars
<1>20. CASE SaveStatus(h)
  BY <1>0, <1>20 DEF TypeOK, SaveStatus, Finish, Owing, Cell, bookVars, worldVars
<1>21. CASE StartStep(h)
  <2>1. /\ pc[h] = "idle" /\ pc'[h] \in {"directory", "stage", "create", "delete"}
        /\ UNCHANGED <<ledger, granted>>
    BY <1>0, <1>21 DEF TypeOK, StartStep, StartAssign, StartAdvance, StartAdd, StartRemove,
                       Begin, bookVars, worldVars
  <2> QED BY <2>1 DEF Owing
<1> QED BY <1>1, <1>2, <1>3, <1>4, <1>5, <1>6, <1>7, <1>8, <1>9, <1>10, <1>11, <1>12,
           <1>13, <1>14, <1>15, <1>16, <1>17, <1>18, <1>19, <1>20, <1>21
        DEF AssignStep, AuthorStep

LEMMA GrantStep ==
    ASSUME OneHandler, Faults \intersect {"crash", "db", "lost"} = {},
           SerialInv, GrantInv, [Next]_vars
    PROVE  GrantInv'
<1>0. TypeOK /\ \A c \in Cells : /\ Opening[c] \in Nat /\ granted[c] \in Nat
                                 /\ ledger[c] \in Nat
  BY QuantityAssumption DEF SerialInv, DeliveryInv, TypeOK
<1>1. ASSUME NEW h \in Handlers, StartStep(h) \/ AssignStep(h) \/ AuthorStep(h)
      PROVE  GrantInv'
  <2>0. /\ \A k \in Handlers : k = h
        /\ job[h] \in Jobs /\ job[h].line \in Lines /\ Cell(job[h].line) \in Cells
    BY <1>0, LineShape DEF OneHandler, TypeOK, Jobs
  <2>1. \A c \in Cells : Opening[c] + granted[c] <=
                            IF Owing(h, c) THEN ledger[c] + 1 ELSE ledger[c]
    BY <2>0 DEF GrantInv
  <2> SUFFICES /\ pc'[h] \in {"holding", "seats", "grant"} => ~job'[h].held
               /\ \A c \in Cells : Opening[c] + granted'[c] <=
                     IF Owing(h, c)' THEN ledger'[c] + 1 ELSE ledger'[c]
    BY <2>0 DEF GrantInv
  <2>2. CASE GrantLicence(h)
    <3>1. /\ pc[h] = "grant" /\ pc'[h] = "tx" /\ job' = job /\ ledger' = ledger
          /\ ~job[h].held
      BY <1>0, <2>2 DEF TypeOK, GrantLicence, Goto, bookVars, GrantInv
    <3>2. \A c \in Cells : /\ ~Owing(h, c)
                           /\ Owing(h, c)' <=> Cell(job[h].line) = c
      BY <3>1 DEF Owing, Cell
    <3>3. \A c \in Cells :
             \/ granted'[c] = granted[c]
             \/ granted'[c] = granted[c] + 1 /\ c = Cell(job[h].line)
      BY <1>0, <2>2 DEF TypeOK, GrantLicence, PutLicence
    <3>4. ASSUME NEW c \in Cells
          PROVE  Opening[c] + granted'[c] <=
                     IF Owing(h, c)' THEN ledger'[c] + 1 ELSE ledger'[c]
      <4>1. Opening[c] + granted[c] <= ledger[c] BY <2>1, <3>2
      <4> QED BY <1>0, <3>1, <3>2, <3>3, <4>1
    <3> QED BY <3>1, <3>4
  <2>3. CASE Commit(h)
    <3>1. /\ pc[h] = "commit" /\ pc'[h] = "close" /\ granted' = granted
      BY <1>0, <2>3 DEF TypeOK, Commit, worldVars
    <3>2. \A c \in Cells :
             /\ Owing(h, c) => ledger'[c] = ledger[c] + 1
             /\ ledger'[c] \in {ledger[c], ledger[c] + 1}
      BY <1>0, <2>0, <2>3 DEF TypeOK, Commit, CountSeat, Owing
    <3>3. ASSUME NEW c \in Cells PROVE Opening[c] + granted'[c] <= ledger'[c]
      BY <1>0, <2>1, <3>1, <3>2
    <3> QED BY <3>1, <3>3 DEF Owing
  <2>4. ~LoseGrantAnswer(h) BY DEF LoseGrantAnswer
  <2>5. CASE ~GrantLicence(h) /\ ~Commit(h)
    BY <1>1, <2>1, <2>4, <2>5, OthersOwe
  <2> QED BY <2>2, <2>3, <2>5
<1>2. CASE GateStep \/ WorldStep \/ UNCHANGED vars
  <2>1. UNCHANGED <<ledger, granted, pc, job>>
    BY <1>2 DEF vars, bookVars, worldVars, GateStep, MarkSynced, OpenSyncGate,
       OpenServiceNowUserGate, WorldStep, Provision, GrantOutside
  <2> QED BY <2>1 DEF GrantInv, Owing, Cell
<1>3. ~Crash BY DEF Crash
<1>4. ASSUME NEW h \in Handlers, StartEditStep(h) \/ EditStep(h)
      PROVE  GrantInv'
  <2>1. /\ UNCHANGED <<ledger, granted>> /\ pc[h] \in Editing /\ pc'[h] \in Editing
        /\ \A k \in Handlers : k = h
    BY <1>0, <1>4, EditShape DEF OneHandler, bookVars, worldVars
  <2> QED BY <2>1 DEF GrantInv, Owing, Editing
<1> QED BY <1>1, <1>2, <1>3, <1>4 DEF Next

\* One operator at a time, and neither a crash, nor a failing database, nor a lost answer
\* of the provider: whenever nobody is at work, every licence the platform granted is a
\* seat in the ledger, although it is granted before the transaction that counts it.
THEOREM GrantsHold ==
    ASSUME OneHandler, Faults \intersect {"crash", "db", "lost"} = {}
    PROVE  Spec => []GrantsAreCounted
<1>1. Init => GrantInv
  BY QuantityAssumption DEF Init, GrantInv, Owing
<1>2. GrantInv => GrantsAreCounted
  BY DEF GrantInv, GrantsAreCounted, AllIdle, Owing
<1>3. SerialInv /\ GrantInv /\ [Next]_vars => GrantInv' BY GrantStep
<1>4. SerialInv /\ [Next]_vars => SerialInv' BY SerialStep
<1> QED BY <1>1, <1>2, <1>3, <1>4, SerialInit, PTL DEF Spec

-----------------------------------------------------------------------------
\* One operator at a time the budget is exact: the ledger of an OpCo passes its allocation
\* only by the seats an admin's reason carried, whatever fails.
THEOREM SerialBudget ==
    ASSUME OneHandler
    PROVE  Spec => [](\A c \in Cells : ledger[c] <= Ceiling(c) + overrides[c])
<1>1. Cardinality(Handlers) = 1
  BY FS_Singleton DEF OneHandler
<1>2. ASSUME TypeOK, BudgetOvershoot, NEW c \in Cells
      PROVE  ledger[c] <= Ceiling(c) + overrides[c]
  <2>1. Unbooked(c) \in SUBSET Handlers BY DEF Unbooked
  <2>2. Cardinality(Unbooked(c)) \in Nat BY <2>1, Counting
  <2> QED BY <1>1, <1>2, <2>2, CellNumbers DEF BudgetOvershoot
<1>3. TypeOK /\ BudgetOvershoot => \A c \in Cells : ledger[c] <= Ceiling(c) + overrides[c]
  BY <1>2
<1> QED BY <1>3, TypeCorrect, BudgetHolds, PTL

=============================================================================
