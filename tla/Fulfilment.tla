----------------------------- MODULE Fulfilment -----------------------------
(***************************************************************************)
(* The fulfilment core: operators moving licence lines through their       *)
(* stages and assigning them (assign.service.ts, stage.service.ts, the     *)
(* line authoring and header edit of request.service.ts,                   *)
(* holding-check.service.ts, the writes of open-sync-gate.ts, and the      *)
(* replays of ticket updates and work notes of outbound-retry.service.ts). *)
(*                                                                         *)
(* A handler is one HTTP request in flight.  The service is one Node       *)
(* process, so the code between two awaits is one step, and other          *)
(* handlers run at every await.  What a handler keeps across its awaits    *)
(* (the row it read, what it decided) is its job; what it no longer needs  *)
(* is reset.  A refused call that changed nothing takes no step.           *)
(*                                                                         *)
(* Around the platform: the Entra directory, the licences people hold in   *)
(* M365, and the ServiceNow ticket (RITM) a line may have.                 *)
(***************************************************************************)
EXTENDS LineStages, Integers, FiniteSets

CONSTANTS
    Requests, Lines, Users, Skus, Opcos,
    Handlers,        \* requests that may be in flight at the same time
    RequestOf,       \* the request a line belongs to
    SkuOf,           \* the SKU a line asks for
    TargetOf,        \* the person a request is created for
    Corrections,     \* the people an operator may correct a request's person to
    OpcoOf,          \* the OpCo a request is billed to
    HasRitm,         \* lines with a ServiceNow RITM of their own
    PlatformCreated, \* requests with origin = 'platform-created'
    Unlimited,       \* SKUs with seatModel = unlimited
    Seats,           \* assignable seats of a SKU in the tenant
    Allocated,       \* allocatedQuantity of a ledger cell
    Opening,         \* assignedQuantity of a ledger cell at the start
    Start,           \* the row each line has at the start
    Faults           \* what may go wrong, see FaultKinds

\* "graph": a directory or licence read fails.  "lost": the licence provider
\* did the work and its answer did not arrive.  "ticket": ServiceNow refuses or
\* is down.  "db": a transaction is rolled back, a failure row is not written.
\* "crash": the process stops.
FaultKinds == {"graph", "lost", "ticket", "db", "crash"}

\* One OpcoSkuLedger row per OpCo and SKU.
Cells == Opcos \X Skus

ASSUME ShapeAssumption ==
    /\ Lines # {}
    /\ RequestOf \in [Lines -> Requests]
    /\ SkuOf \in [Lines -> Skus]
    /\ TargetOf \in [Requests -> Users]
    /\ Corrections \subseteq Requests \X Users
    /\ OpcoOf \in [Requests -> Opcos]
    /\ HasRitm \subseteq Lines
    /\ PlatformCreated \subseteq Requests
    /\ Unlimited \subseteq Skus
    /\ Faults \subseteq FaultKinds

ASSUME QuantityAssumption ==
    /\ Seats \in [Skus -> Nat]
    /\ Allocated \in [Cells -> Nat]
    /\ Opening \in [Cells -> Nat]

\* A line with an RITM is created together with its request, and no line has
\* been assigned yet.
ASSUME StartAssumption ==
    /\ Start \in [Lines -> RowStates \ {"ASSIGNED", "REMOVED"}]
    /\ \A l \in HasRitm : Start[l] # "ABSENT"

ASSUME HandlersAssumption == IsFiniteSet(Handlers) /\ Handlers # {}

VARIABLES
    stage,        \* the row of each line: RequestLineItem.stage
    heldAt,       \* RequestLineItem.ticketHeldAt is set
    status,       \* Request.status
    target,       \* Request.targetUpn
    renamed,      \* history: lines whose request was given another person, by an
                  \* edit that read gate 1 shut, while or after they were assigned
    azureSynced,  \* Request.azureSyncedAt is set (gate 1)
    snSynced,     \* Request.serviceNowUserSyncedAt is set (gate 2)
    ledger,       \* OpcoSkuLedger.assignedQuantity
    overrides,    \* AuditLog rows of action assign.budget_override
    counted,      \* ASSIGN events of a line that moved the ledger
    skipped,      \* ASSIGN events of a line that was already held
    served,       \* history: the person the last ASSIGN event of a line was for
    queue,        \* OutboundFailure rows that are not resolved
    directory,    \* people Entra knows
    licences,     \* who holds which SKU in M365
    granted,      \* licences the platform's own calls put on somebody
    ticket,       \* the catalog task under a line's RITM
    pc, job       \* where each handler is, and what it carries

domainVars == <<stage, heldAt, status>>
gateVars   == <<azureSynced, snSynced>>
personVars == <<target, renamed>>
headerVars == <<gateVars, personVars>>
bookVars   == <<ledger, overrides, counted, skipped, served>>
worldVars  == <<directory, licences, granted>>
ticketVars == <<ticket, queue>>
vars == <<domainVars, headerVars, bookVars, worldVars, ticketVars,
                   pc, job>>

-----------------------------------------------------------------------------
Cell(l)    == <<OpcoOf[RequestOf[l]], SkuOf[l]>>
Exists(l)  == stage[l] \in Stages

LinesOf(r)  == {l \in Lines : RequestOf[l] = r}
StagesOf(r) == {stage[l] : l \in {k \in LinesOf(r) : Exists(k)}}

\* Seats of a SKU in use, as the tenant counts them.
Consumed(s) == Cardinality({u \in Users : <<u, s>> \in licences})

SeatFree(s) == s \in Unlimited \/ Consumed(s) < Seats[s]

PCs == {"idle", "directory", "budget", "hold", "mark", "holding", "seats",
        "grant", "tx", "commit", "close", "stage", "create", "delete",
        "recount", "save", "header", "replay", "resolve"}

\* What may wait in the failure queue: a ticket update or a work note.
Deliveries == {"hold", "close", "note"}

\* line: the line worked on.  req: the request edited.  who: the person read
\* with the line, or to be written.  what: the delivery replayed.  to: the stage
\* to write.  reason: an admin gave a budgetOverrideReason.  over: the gate
\* refused and the reason carried it.  marked: ticketHeldAt (an assign) or
\* azureSyncedAt (an edit) was set in the row read.  held: the holding check
\* said HELD.  found: the status computed from the lines.
Jobs == [line : Lines, req : Requests, who : Users, what : Deliveries,
         to : Stages, reason : BOOLEAN, over : BOOLEAN, marked : BOOLEAN,
         held : BOOLEAN, found : Statuses]

Fresh(l) == [line |-> l, req |-> RequestOf[l], who |-> TargetOf[RequestOf[l]],
             what |-> "note", to |-> "REQUESTED", reason |-> FALSE, over |-> FALSE,
             marked |-> FALSE, held |-> FALSE, found |-> "OPEN"]
Blank == Fresh(CHOOSE l \in Lines : TRUE)

\* The licence an assign is about: the SKU of its line for the person it read.
Licence(j) == <<j.who, SkuOf[j.line]>>

\* The licence the last ASSIGN event of a line was about.
Delivered(l) == <<served[l], SkuOf[l]>>

Begin(h, where, j) == /\ pc[h] = "idle"
                      /\ pc' = [pc EXCEPT ![h] = where]
                      /\ job' = [job EXCEPT ![h] = j]

Goto(h, where) == /\ pc' = [pc EXCEPT ![h] = where]
                  /\ job' = job

Finish(h) == /\ pc' = [pc EXCEPT ![h] = "idle"]
             /\ job' = [job EXCEPT ![h] = Blank]

\* A transaction holds the row locks of the line and, when it counts, of the
\* ledger cell until it commits (READ COMMITTED: it blocks writers, not readers).
LineLocked(l) == \E h \in Handlers : pc[h] = "commit" /\ job[h].line = l
CellLocked(c) == \E h \in Handlers :
                    pc[h] = "commit" /\ ~job[h].held /\ Cell(job[h].line) = c

-----------------------------------------------------------------------------
Init ==
    /\ stage = Start
    /\ heldAt = [l \in Lines |-> FALSE]
    /\ status = [r \in Requests |-> AggregateStatus(StagesOf(r))]
    /\ azureSynced \in [Requests -> BOOLEAN]   \* n8n may already claim gate 1
    /\ snSynced = [r \in Requests |-> FALSE]
    /\ target = TargetOf
    /\ renamed = {}
    /\ ledger = Opening
    /\ overrides = [c \in Cells |-> 0]
    /\ counted = [l \in Lines |-> 0]
    /\ skipped = [l \in Lines |-> 0]
    /\ served = [l \in Lines |-> TargetOf[RequestOf[l]]]
    /\ queue = {}
    /\ directory = {}
    /\ licences = {}
    /\ granted = [c \in Cells |-> 0]
    /\ ticket = [l \in Lines |-> IF l \in HasRitm THEN "open" ELSE "none"]
    /\ pc = [h \in Handlers |-> "idle"]
    /\ job = [h \in Handlers |-> Blank]

-----------------------------------------------------------------------------
(* assignLineItem: gates, the licence, the books, the ticket. *)

\* Mutant: the stage guard is forgotten.
StartAssignAnyStage(h, l, reason) ==
    /\ Exists(l)
    /\ azureSynced[RequestOf[l]]
    /\ snSynced[RequestOf[l]]
    /\ Begin(h, "directory",
             [Fresh(l) EXCEPT !.who = target[RequestOf[l]], !.reason = reason,
                              !.marked = heldAt[l]])
    /\ UNCHANGED <<domainVars, headerVars, bookVars, worldVars, ticketVars>>

\* Read the line with its request; the synchronous gates pass on what was read.
StartAssign(h, l, reason) ==
    /\ stage[l] = "READY"
    /\ azureSynced[RequestOf[l]]
    /\ snSynced[RequestOf[l]]
    /\ Begin(h, "directory",
             [Fresh(l) EXCEPT !.who = target[RequestOf[l]], !.reason = reason,
                              !.marked = heldAt[l]])
    /\ UNCHANGED <<domainVars, headerVars, bookVars, worldVars, ticketVars>>

\* licenseOps.findUser answers with the person (and a usageLocation is known).
FindUser(h) ==
    /\ pc[h] = "directory"
    /\ job[h].who \in directory
    /\ Goto(h, "budget")
    /\ UNCHANGED <<domainVars, headerVars, bookVars, worldVars, ticketVars>>

\* Mutant: compares what is assigned, not what will be.
OverBudgetTooLate(c) == ledger[c] > Allocated[c]

\* One more seat than the OpCo was allocated?  Never + quantity.
OverBudget(c) == ledger[c] + 1 > Allocated[c]

\* Read the ledger row: within budget, or an admin's reason carries it.
PassBudget(h) ==
    LET over == OverBudget(Cell(job[h].line)) IN
    /\ pc[h] = "budget"
    /\ over => job[h].reason
    /\ pc' = [pc EXCEPT ![h] = "holding"]
    /\ job' = [job EXCEPT ![h] = [Fresh(@.line) EXCEPT !.who = job[h].who, !.over = over]]
    /\ UNCHANGED <<domainVars, headerVars, bookVars, worldVars, ticketVars>>

\* Refused for budget.  The ticket is put on hold, at most once as far as the
\* row read shows.
FailBudget(h) ==
    /\ pc[h] = "budget"
    /\ OverBudget(Cell(job[h].line))
    /\ ~job[h].reason
    /\ IF job[h].line \in HasRitm /\ ~job[h].marked
       THEN Goto(h, "hold")
       ELSE Finish(h)
    /\ UNCHANGED <<domainVars, headerVars, bookVars, worldVars, ticketVars>>

\* failures.record: what did not reach ServiceNow becomes an open row.  If that
\* insert fails too, it is only logged.
Record(l, what) ==
    \/ queue' = queue \union {<<l, what>>}
    \/ "db" \in Faults /\ UNCHANGED queue

\* tickets.markInProgress moved the one active task under the RITM.
HoldTicket(h) ==
    /\ pc[h] = "hold"
    /\ ticket[job[h].line] # "closed"
    /\ ticket' = [ticket EXCEPT ![job[h].line] = "inProgress"]
    /\ Goto(h, "mark")
    /\ UNCHANGED <<domainVars, headerVars, bookVars, worldVars, queue>>

\* Mutant: the flag is set although the hold did not land.
HoldRefusedButMarked(h) ==
    /\ pc[h] = "hold"
    /\ ticket[job[h].line] = "closed" \/ "ticket" \in Faults
    /\ Record(job[h].line, "hold")
    /\ Goto(h, "mark")
    /\ UNCHANGED <<domainVars, headerVars, bookVars, worldVars, ticket>>

\* No active task, a refusal or an outage: queue the hold, leave the flag.
HoldRefused(h) ==
    /\ pc[h] = "hold"
    /\ ticket[job[h].line] = "closed" \/ "ticket" \in Faults
    /\ Record(job[h].line, "hold")
    /\ Finish(h)
    /\ UNCHANGED <<domainVars, headerVars, bookVars, worldVars, ticket>>

\* ticketHeldAt is written only once the ticket has moved.
MarkHeld(h) ==
    /\ pc[h] = "mark"
    /\ ~LineLocked(job[h].line)
    /\ heldAt' = [heldAt EXCEPT ![job[h].line] = @ \/ Exists(job[h].line)]
    /\ Finish(h)
    /\ UNCHANGED <<stage, status, headerVars, bookVars, worldVars, ticketVars>>

\* The seat gate is skipped for an unlimited SKU.
AfterHolding(l) == IF SkuOf[l] \in Unlimited THEN "grant" ELSE "seats"

\* HELD: no seat is checked, no licence is assigned, no seat is counted.
AlreadyHeld(h) ==
    /\ pc[h] = "holding"
    /\ Licence(job[h]) \in licences
    /\ pc' = [pc EXCEPT ![h] = "tx"]
    /\ job' = [job EXCEPT ![h].held = TRUE]
    /\ UNCHANGED <<domainVars, headerVars, bookVars, worldVars, ticketVars>>

\* NOT_HELD, or the lookup failed (UNKNOWN) and the gate fails open.
NotHeld(h) ==
    /\ pc[h] = "holding"
    /\ Licence(job[h]) \notin licences \/ "graph" \in Faults
    /\ Goto(h, AfterHolding(job[h].line))
    /\ UNCHANGED <<domainVars, headerVars, bookVars, worldVars, ticketVars>>

CheckSeats(h) ==
    /\ pc[h] = "seats"
    /\ Consumed(SkuOf[job[h].line]) < Seats[SkuOf[job[h].line]]
    /\ Goto(h, "grant")
    /\ UNCHANGED <<domainVars, headerVars, bookVars, worldVars, ticketVars>>

\* What a successful assignLicense does in the tenant.  It is idempotent.
PutLicence(j) ==
    /\ Licence(j) \in licences \/ SeatFree(SkuOf[j.line])
    /\ licences' = licences \union {Licence(j)}
    /\ granted' = [granted EXCEPT ![Cell(j.line)] =
                     IF Licence(j) \in licences THEN @ ELSE @ + 1]

\* Mutant: the holding check is asked after the provider instead of before.
GrantThenAskHolding(h) ==
    /\ pc[h] = "grant"
    /\ PutLicence(job[h])
    /\ pc' = [pc EXCEPT ![h] = "tx"]
    /\ job' = [job EXCEPT ![h].held = TRUE]
    /\ UNCHANGED <<domainVars, headerVars, bookVars, directory, ticketVars>>

\* The licence is assigned BEFORE the transaction: an external effect first.
GrantLicence(h) ==
    /\ pc[h] = "grant"
    /\ PutLicence(job[h])
    /\ Goto(h, "tx")
    /\ UNCHANGED <<domainVars, headerVars, bookVars, directory, ticketVars>>

\* The call did its work but the answer is lost: a 503 to the operator.
LoseGrantAnswer(h) ==
    /\ "lost" \in Faults
    /\ pc[h] = "grant"
    /\ PutLicence(job[h])
    /\ Finish(h)
    /\ UNCHANGED <<domainVars, headerVars, bookVars, directory, ticketVars>>

\* A gate before the transaction refuses (unknown person, no usageLocation, no
\* seat) or a vendor call throws: the handler ends, nothing is written.
GiveUp(h) ==
    /\ pc[h] \in {"directory", "seats", "grant"}
    /\ Finish(h)
    /\ UNCHANGED <<domainVars, headerVars, bookVars, worldVars, ticketVars>>

\* Mutant: the siblings are read outside the transaction, without its write.
BeginTxStaleSiblings(h) ==
    /\ pc[h] = "tx"
    /\ Exists(job[h].line)
    /\ pc' = [pc EXCEPT ![h] = "commit"]
    /\ job' = [job EXCEPT ![h].found =
                 AggregateStatus(StagesOf(RequestOf[job[h].line]))]
    /\ UNCHANGED <<domainVars, headerVars, bookVars, worldVars, ticketVars>>

\* The transaction writes the line and the ledger row (and so locks them) and
\* reads the sibling stages, its own write included.
BeginTx(h) ==
    LET l == job[h].line
        r == RequestOf[l]
        others == {k \in LinesOf(r) : Exists(k) /\ k # l} IN
    /\ pc[h] = "tx"
    /\ Exists(l)
    /\ ~LineLocked(l)
    /\ job[h].held \/ ~CellLocked(Cell(l))
    /\ pc' = [pc EXCEPT ![h] = "commit"]
    /\ job' = [job EXCEPT ![h].found =
                 AggregateStatus({stage[k] : k \in others} \union {"ASSIGNED"})]
    /\ UNCHANGED <<domainVars, headerVars, bookVars, worldVars, ticketVars>>

\* Mutant: the increment has the wrong sign.
CountSeatDown(l, held) ==
    /\ ledger' = [ledger EXCEPT ![Cell(l)] = IF held THEN @ ELSE @ - 1]
    /\ counted' = [counted EXCEPT ![l] = IF held THEN @ ELSE @ + 1]
    /\ skipped' = [skipped EXCEPT ![l] = IF held THEN @ + 1 ELSE @]

\* A licence that was already held consumes no seat in the ledger either.
CountSeat(l, held) ==
    IF held
    THEN /\ skipped' = [skipped EXCEPT ![l] = @ + 1]
         /\ UNCHANGED <<ledger, counted>>
    ELSE /\ ledger' = [ledger EXCEPT ![Cell(l)] = @ + 1]
         /\ counted' = [counted EXCEPT ![l] = @ + 1]
         /\ UNCHANGED skipped

\* Commit: line, ledger, ASSIGN event, override audit row and request status
\* become visible together.  The line is written by id, whatever its stage is.
Commit(h) ==
    LET l == job[h].line IN
    /\ pc[h] = "commit"
    /\ stage' = [stage EXCEPT ![l] = "ASSIGNED"]
    /\ CountSeat(l, job[h].held)
    /\ served' = [served EXCEPT ![l] = job[h].who]
    /\ overrides' = [overrides EXCEPT ![Cell(l)] =
                       IF job[h].over THEN @ + 1 ELSE @]
    /\ status' = [status EXCEPT ![RequestOf[l]] = job[h].found]
    /\ pc' = [pc EXCEPT ![h] = "close"]
    /\ job' = [job EXCEPT ![h] = Fresh(l)]
    /\ UNCHANGED <<heldAt, headerVars, worldVars, ticketVars>>

\* Mutant: a failed transaction does not stop the handler.
RollBackIgnored(h) ==
    /\ \/ pc[h] = "tx" /\ ~Exists(job[h].line)
       \/ pc[h] \in {"tx", "commit"} /\ "db" \in Faults
    /\ Goto(h, "close")
    /\ UNCHANGED <<domainVars, headerVars, bookVars, worldVars, ticketVars>>

\* The transaction is rolled back: its row is gone, or the database failed.
\* The licence stays where the provider put it.
RollBack(h) ==
    /\ \/ pc[h] = "tx" /\ ~Exists(job[h].line)
       \/ pc[h] \in {"tx", "commit"} /\ "db" \in Faults
    /\ Finish(h)
    /\ UNCHANGED <<domainVars, headerVars, bookVars, worldVars, ticketVars>>

\* tickets.closeComplete closed the one active task under the RITM.
CloseTicket(h) ==
    /\ pc[h] = "close"
    /\ job[h].line \in HasRitm
    /\ ticket[job[h].line] # "closed"
    /\ ticket' = [ticket EXCEPT ![job[h].line] = "closed"]
    /\ Finish(h)
    /\ UNCHANGED <<domainVars, headerVars, bookVars, worldVars, queue>>

\* A close that did not land is queued, never an error of the assign.
CloseRefused(h) ==
    /\ pc[h] = "close"
    /\ job[h].line \in HasRitm
    /\ ticket[job[h].line] = "closed" \/ "ticket" \in Faults
    /\ Record(job[h].line, "close")
    /\ Finish(h)
    /\ UNCHANGED <<domainVars, headerVars, bookVars, worldVars, ticket>>

\* A line without an RITM gets a work note on the parent REQ, or nothing.
NoteParent(h) ==
    /\ pc[h] = "close"
    /\ job[h].line \notin HasRitm
    /\ \/ UNCHANGED queue
       \/ "ticket" \in Faults /\ Record(job[h].line, "note")
    /\ Finish(h)
    /\ UNCHANGED <<domainVars, headerVars, bookVars, worldVars, ticket>>

-----------------------------------------------------------------------------
(* advanceStage, addLineItem, removeLineItem and the shared recompute. *)

\* Mutant: the legal matrix is not consulted.
StartAdvanceAnywhere(h, l, to) ==
    /\ Exists(l)
    /\ to # "ASSIGNED"
    /\ Begin(h, "stage", [Fresh(l) EXCEPT !.to = to])
    /\ UNCHANGED <<domainVars, headerVars, bookVars, worldVars, ticketVars>>

\* Read the line and check the move against the legal matrix.
StartAdvance(h, l, to) ==
    /\ Exists(l)
    /\ to \in LegalTransitions[stage[l]]
    /\ Begin(h, "stage", [Fresh(l) EXCEPT !.to = to])
    /\ UNCHANGED <<domainVars, headerVars, bookVars, worldVars, ticketVars>>

\* Write the stage by id, whatever the row holds by now.
WriteStage(h) ==
    LET l == job[h].line IN
    /\ pc[h] = "stage"
    /\ ~LineLocked(l)
    /\ IF Exists(l)
       THEN /\ stage' = [stage EXCEPT ![l] = job[h].to]
            /\ pc' = [pc EXCEPT ![h] = "recount"]
            /\ job' = [job EXCEPT ![h] = Fresh(l)]
       ELSE /\ UNCHANGED stage
            /\ Finish(h)
    /\ UNCHANGED <<heldAt, status, headerVars, bookVars, worldVars, ticketVars>>

\* Mutant: a finished request still takes lines.
StartAddToFinished(h, l) ==
    /\ stage[l] = "ABSENT"
    /\ \A g \in Handlers : ~(pc[g] = "create" /\ job[g].line = l)
    /\ RequestOf[l] \notin PlatformCreated
    /\ Begin(h, "create", Fresh(l))
    /\ UNCHANGED <<domainVars, headerVars, bookVars, worldVars, ticketVars>>

\* No line joins a platform-created request, nor a finished one: recomputed
\* from the lines, not read off the status column.
StartAdd(h, l) ==
    LET r == RequestOf[l] IN
    /\ stage[l] = "ABSENT"
    /\ \A g \in Handlers : ~(pc[g] = "create" /\ job[g].line = l)
    /\ r \notin PlatformCreated
    /\ AggregateStatus(StagesOf(r)) # "COMPLETED"
    /\ Begin(h, "create", Fresh(l))
    /\ UNCHANGED <<domainVars, headerVars, bookVars, worldVars, ticketVars>>

CreateLine(h) ==
    /\ pc[h] = "create"
    /\ stage' = [stage EXCEPT ![job[h].line] = "REQUESTED"]
    /\ Goto(h, "recount")
    /\ UNCHANGED <<heldAt, status, headerVars, bookVars, worldVars, ticketVars>>

\* Only a line that is not in ServiceNow and has not started may go.
StartRemove(h, l) ==
    /\ l \notin HasRitm
    /\ stage[l] = "REQUESTED"
    /\ Begin(h, "delete", Fresh(l))
    /\ UNCHANGED <<domainVars, headerVars, bookVars, worldVars, ticketVars>>

DeleteLine(h) ==
    LET l == job[h].line IN
    /\ pc[h] = "delete"
    /\ ~LineLocked(l)
    /\ IF Exists(l)
       THEN /\ stage' = [stage EXCEPT ![l] = "REMOVED"]
            /\ Goto(h, "recount")
       ELSE /\ UNCHANGED stage
            /\ Finish(h)
    /\ UNCHANGED <<heldAt, status, headerVars, bookVars, worldVars, ticketVars>>

\* recomputeRequestStatus: read the lines ...
Recount(h) ==
    /\ pc[h] = "recount"
    /\ pc' = [pc EXCEPT ![h] = "save"]
    /\ job' = [job EXCEPT ![h].found =
                 AggregateStatus(StagesOf(RequestOf[job[h].line]))]
    /\ UNCHANGED <<domainVars, headerVars, bookVars, worldVars, ticketVars>>

\* ... and, in a second statement, store what they say.
SaveStatus(h) ==
    /\ pc[h] = "save"
    /\ status' = [status EXCEPT ![RequestOf[job[h].line]] = job[h].found]
    /\ Finish(h)
    /\ UNCHANGED <<stage, heldAt, headerVars, bookVars, worldVars, ticketVars>>

-----------------------------------------------------------------------------
(* updateHeader: the person of a request is corrected. *)

\* Mutant: the person may be corrected at any time.
StartEditSynced(h, r, u) ==
    /\ <<r, u>> \in Corrections
    /\ Begin(h, "header",
             [Blank EXCEPT !.req = r, !.who = u, !.marked = azureSynced[r]])
    /\ UNCHANGED <<domainVars, headerVars, bookVars, worldVars, ticketVars>>

\* Read the request: its person may be corrected only while gate 1 is shut.
StartEdit(h, r, u) ==
    /\ <<r, u>> \in Corrections
    /\ ~azureSynced[r]
    /\ Begin(h, "header",
             [Blank EXCEPT !.req = r, !.who = u, !.marked = azureSynced[r]])
    /\ UNCHANGED <<domainVars, headerVars, bookVars, worldVars, ticketVars>>

\* A line is taken once an assign of it has read its request.
Assigning == {"directory", "budget", "hold", "mark", "holding", "seats", "grant",
              "tx", "commit"}
Taken(l) == \/ stage[l] = "ASSIGNED"
            \/ \E k \in Handlers : pc[k] \in Assigning /\ job[k].line = l

\* Write it by id, whatever the gate and the lines are by now.
WriteHeader(h) ==
    LET r == job[h].req
        u == job[h].who IN
    /\ pc[h] = "header"
    /\ target' = [target EXCEPT ![r] = u]
    /\ renamed' = IF u = target[r] \/ job[h].marked THEN renamed
                  ELSE renamed \union {l \in LinesOf(r) : Taken(l)}
    /\ Finish(h)
    /\ UNCHANGED <<domainVars, gateVars, bookVars, worldVars, ticketVars>>

-----------------------------------------------------------------------------
(* OutboundRetryService.retry for ticket updates and work notes. *)

\* Read the failure row: anything but a resolved row may be replayed, also one
\* that an operator has set aside (abandon and reopen only change that mark).
StartReplay(h, l, what) ==
    /\ <<l, what>> \in queue
    /\ Begin(h, "replay", [Fresh(l) EXCEPT !.what = what])
    /\ UNCHANGED <<domainVars, headerVars, bookVars, worldVars, ticketVars>>

\* The replay lands: the one active task moves, or the note is written.
Replay(h) ==
    LET l == job[h].line IN
    /\ pc[h] = "replay"
    /\ \/ job[h].what = "note" /\ UNCHANGED ticket
       \/ /\ job[h].what # "note"
          /\ ticket[l] # "closed"
          /\ ticket' = [ticket EXCEPT ![l] =
                          IF job[h].what = "close" THEN "closed" ELSE "inProgress"]
    /\ Goto(h, "resolve")
    /\ UNCHANGED <<domainVars, headerVars, bookVars, worldVars, queue>>

\* Mutant: a replay that was refused resolves its row all the same.
ReplayRefusedResolves(h) ==
    /\ pc[h] = "replay"
    /\ \/ job[h].what # "note" /\ ticket[job[h].line] = "closed"
       \/ "ticket" \in Faults
    /\ Goto(h, "resolve")
    /\ UNCHANGED <<domainVars, headerVars, bookVars, worldVars, ticketVars>>

\* No active task, a refusal or an outage: the row stays, its attempts climb.
ReplayRefused(h) ==
    /\ pc[h] = "replay"
    /\ \/ job[h].what # "note" /\ ticket[job[h].line] = "closed"
       \/ "ticket" \in Faults
    /\ Finish(h)
    /\ UNCHANGED <<domainVars, headerVars, bookVars, worldVars, ticketVars>>

\* failures.markResolved.  Another row for the same delivery may remain, and so
\* does this one when the update fails.
Resolve(h) ==
    /\ pc[h] = "resolve"
    /\ queue' \in {queue, queue \ {<<job[h].line, job[h].what>>}}
    /\ Finish(h)
    /\ UNCHANGED <<domainVars, headerVars, bookVars, worldVars, ticket>>

-----------------------------------------------------------------------------
(* The two sync gates, the process and the world around it. *)

\* markSynced: a person asserts that the account exists.
MarkSynced(r) ==
    /\ azureSynced' = [azureSynced EXCEPT ![r] = TRUE]
    /\ UNCHANGED <<domainVars, snSynced, personVars, bookVars, worldVars, ticketVars,
                   pc, job>>

\* openSyncGate, by the sweep or the on-demand check: Graph was seen to know the
\* person, so it still does.  What else the caller looked at is stale by now (the
\* request may be finished), and opening an open gate changes nothing.
OpenSyncGate(r) ==
    /\ ~azureSynced[r]
    /\ target[r] \in directory
    /\ azureSynced' = [azureSynced EXCEPT ![r] = TRUE]
    /\ UNCHANGED <<domainVars, snSynced, personVars, bookVars, worldVars, ticketVars,
                   pc, job>>

\* openServiceNowUserGate, by the sweep: ServiceNow was seen to know the person.
OpenServiceNowUserGate(r) ==
    /\ ~snSynced[r]
    /\ snSynced' = [snSynced EXCEPT ![r] = TRUE]
    /\ UNCHANGED <<domainVars, azureSynced, personVars, bookVars, worldVars, ticketVars,
                   pc, job>>

\* The process stops: every handler is gone, open transactions are rolled back.
Crash ==
    /\ "crash" \in Faults
    /\ \E h \in Handlers : pc[h] # "idle"
    /\ pc' = [h \in Handlers |-> "idle"]
    /\ job' = [h \in Handlers |-> Blank]
    /\ UNCHANGED <<domainVars, headerVars, bookVars, worldVars, ticketVars>>

\* Entra Connect brings a new account into the directory.
Provision(u) ==
    /\ directory' = directory \union {u}
    /\ UNCHANGED <<domainVars, headerVars, bookVars, licences, granted, ticketVars,
                   pc, job>>

\* Somebody assigns a licence without the platform.
GrantOutside(u, s) ==
    /\ u \in directory
    /\ <<u, s>> \notin licences
    /\ SeatFree(s)
    /\ licences' = licences \union {<<u, s>>}
    /\ UNCHANGED <<domainVars, headerVars, bookVars, directory, granted, ticketVars,
                   pc, job>>

-----------------------------------------------------------------------------
AssignStep(h) ==
    \/ FindUser(h) \/ PassBudget(h) \/ FailBudget(h)
    \/ HoldTicket(h) \/ HoldRefused(h) \/ MarkHeld(h)
    \/ AlreadyHeld(h) \/ NotHeld(h) \/ CheckSeats(h)
    \/ GrantLicence(h) \/ LoseGrantAnswer(h) \/ GiveUp(h)
    \/ BeginTx(h) \/ Commit(h) \/ RollBack(h)
    \/ CloseTicket(h) \/ CloseRefused(h) \/ NoteParent(h)

AuthorStep(h) ==
    \/ WriteStage(h) \/ CreateLine(h) \/ DeleteLine(h)
    \/ Recount(h) \/ SaveStatus(h)

EditStep(h) == WriteHeader(h) \/ Replay(h) \/ ReplayRefused(h) \/ Resolve(h)

StartStep(h) == \E l \in Lines :
    \/ \E reason \in BOOLEAN : StartAssign(h, l, reason)
    \/ \E to \in Stages : StartAdvance(h, l, to)
    \/ StartAdd(h, l)
    \/ StartRemove(h, l)

StartEditStep(h) ==
    \/ \E r \in Requests, u \in Users : StartEdit(h, r, u)
    \/ \E l \in Lines, what \in Deliveries : StartReplay(h, l, what)

GateStep == \E r \in Requests :
    MarkSynced(r) \/ OpenSyncGate(r) \/ OpenServiceNowUserGate(r)

WorldStep ==
    \/ \E u \in Users : Provision(u)
    \/ \E u \in Users, s \in Skus : GrantOutside(u, s)

Next ==
    \/ \E h \in Handlers : StartStep(h) \/ AssignStep(h) \/ AuthorStep(h)
    \/ \E h \in Handlers : StartEditStep(h) \/ EditStep(h)
    \/ GateStep
    \/ Crash
    \/ WorldStep

Spec == Init /\ [][Next]_vars

-----------------------------------------------------------------------------
(* Properties that hold however many handlers run, whatever fails. *)

TypeOK ==
    /\ stage \in [Lines -> RowStates]
    /\ heldAt \in [Lines -> BOOLEAN]
    /\ status \in [Requests -> Statuses]
    /\ target \in [Requests -> Users]
    /\ renamed \subseteq Lines
    /\ azureSynced \in [Requests -> BOOLEAN]
    /\ snSynced \in [Requests -> BOOLEAN]
    /\ ledger \in [Cells -> Nat]
    /\ overrides \in [Cells -> Nat]
    /\ counted \in [Lines -> Nat]
    /\ skipped \in [Lines -> Nat]
    /\ served \in [Lines -> Users]
    /\ queue \subseteq Lines \X Deliveries
    /\ directory \subseteq Users
    /\ licences \subseteq Users \X Skus
    /\ granted \in [Cells -> Nat]
    /\ ticket \in [Lines -> {"none", "open", "inProgress", "closed"}]
    /\ pc \in [Handlers -> PCs]
    /\ job \in [Handlers -> Jobs]

\* The assigns of a cell that the budget gate let through within the budget it
\* read and that have still to be counted.
Unbooked(c) == {h \in Handlers :
                   /\ pc[h] \in {"holding", "seats", "grant", "tx", "commit"}
                   /\ ~job[h].over
                   /\ Cell(job[h].line) = c}

\* A cell may have been over its allocation before the gate was there.
Ceiling(c) == IF Opening[c] > Allocated[c] THEN Opening[c] ELSE Allocated[c]

\* The gate reads the ledger long before the transaction increments it, so
\* concurrent assigns pass on the same number.  Even so the ledger exceeds the
\* allocation by no more than one seat per override and one per OTHER assign in
\* flight; with one operator at a time the budget is exact.
BudgetOvershoot ==
    \A c \in Cells :
        ledger[c] + Cardinality(Unbooked(c))
            <= Ceiling(c) + overrides[c] + Cardinality(Handlers) - 1

\* A line is ASSIGNED only if both sync gates are open and the person its ASSIGN
\* event was for really has the licence in M365, although the gates, the holding
\* check and the grant all happened in earlier steps than the write.  That person
\* is the one the request names, with one exception the code allows: updateHeader
\* checks gate 1, awaits and writes by id, so the gate may open and an assign read
\* the old person in between.  Only a line that this happened to may name another.
AssignedIsEarned ==
    \A l \in Lines :
        stage[l] = "ASSIGNED" =>
            /\ Delivered(l) \in licences
            /\ served[l] = target[RequestOf[l]] \/ l \in renamed
            /\ azureSynced[RequestOf[l]]
            /\ snSynced[RequestOf[l]]

\* The platform closes a ticket, at once or by a replay, only when the timeline
\* says the line was assigned and the person that says so has the licence, also
\* when the assign it served raced another one or a correction of the person.
ClosedTicketIsDelivered ==
    \A l \in Lines :
        ticket[l] = "closed" =>
            /\ Delivered(l) \in licences
            /\ counted[l] + skipped[l] > 0

\* ticketHeldAt stops later holds, so it may be set only when ServiceNow really
\* moved the ticket: a hold that did not land must stay open.
HoldFlagHonest ==
    \A l \in Lines : heldAt[l] => ticket[l] \in {"inProgress", "closed"}

-----------------------------------------------------------------------------
(* Properties of operators who work one after the other (one handler).       *)

AllIdle == \A h \in Handlers : pc[h] = "idle"

\* Once nobody is at work, the stored status is what the lines say: every path
\* that moves a line also refreshes its request.
StatusSettled ==
    AllIdle => \A r \in Requests : status[r] = AggregateStatus(StagesOf(r))

\* "A finished onboarding stays finished": neither a new line nor a move of an
\* old one reopens it.
CompletedIsFinal ==
    [][\A r \in Requests :
          status[r] = "COMPLETED" => status'[r] = "COMPLETED"]_status

\* A line goes through the assign flow at most once.
OneAssign == \A l \in Lines : counted[l] + skipped[l] <= 1

\* An assigned line never leaves its ticket open unnoticed: the ticket is
\* closed or its close waits in the failure queue, also after replays.
CloseAccounted ==
    AllIdle => \A l \in HasRitm :
        stage[l] = "ASSIGNED" => ticket[l] = "closed" \/ <<l, "close">> \in queue

\* Every licence the platform put on somebody is a seat in the OpCo's ledger.
GrantsAreCounted ==
    AllIdle => \A c \in Cells : Opening[c] + granted[c] <= ledger[c]

\* A weaker promise: at the latest when every line is assigned, a licence the
\* platform put on somebody is a seat in the ledger.  A retry after an assign
\* that died half way should make up for the seat it did not count.
RetryCountsTheSeat ==
    AllIdle /\ (\A l \in Lines : Exists(l) => stage[l] = "ASSIGNED") =>
        \A c \in Cells : Opening[c] + granted[c] <= ledger[c]

\* What the assign flow and the stage moves promise together: each line lives
\* by LineLifecycle.
Eligible == {l \in Lines : /\ <<target[RequestOf[l]], SkuOf[l]>> \in licences
                           /\ azureSynced[RequestOf[l]]
                           /\ snSynced[RequestOf[l]]}
Lifecycle == INSTANCE LineLifecycle
                WITH assigns <- [l \in Lines |-> counted[l] + skipped[l]],
                     eligible <- Eligible
LifecycleSpec == Lifecycle!Spec
=============================================================================
