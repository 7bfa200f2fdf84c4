# A TLA+ verification of the Unified Operation Platform

The platform (a NestJS service with PostgreSQL, `apps/api`) fulfils Microsoft 365
licences: ServiceNow and n8n bring onboarding requests in, operators and an AI
agent move licence lines through their stages, and the service assigns licences
in Microsoft 365, keeps an OpCo seat ledger and closes the ServiceNow tickets.

The modules here model the parts that keep state of record, TLC checks them on
small instances, and TLAPS proves their invariants and action properties for every
value of the constants. `PROJECT.json` maps every definition to the source lines it models.

    tlc -workers 2 -config FulfilmentSerial.cfg MCFulfilment
    tlc -workers 2 -config Intake.cfg MCIntake
    tlapm FulfilmentProofs.tla

## 1. The system

The service is one Node process. Code between two awaits runs alone, and every
await lets other requests in. PostgreSQL runs at its default isolation, READ
COMMITTED: a transaction is atomic and holds its row locks to the end, but what
it read may be old. No table has a version column, and conditional updates are
rare (logout, the proposals of a run that ended, the catalog's deactivation), so
"check, await, write by id" is the pattern to look at everywhere.

| Component | State | Operations | What is hard | What makes it correct |
|---|---|---|---|---|
| Line stages (`fulfilment/stage.service.ts`) | stage of a line, status of a request | advance, recompute status | check then write; status is derived and stored | legal moves only; status says what the lines say |
| Assign flow (`assign.service.ts`, `holding-check.service.ts`, `open-sync-gate.ts`) | line, ledger, events, ticket flag | assign, mark synced | three vendor calls before the transaction, one after it | assigned means earned; the budget; the seat is counted once; the ticket follows |
| Request authoring (`request.service.ts`) | request header, lines | create, add, edit, remove | COMPLETED check long before the insert; target person edited while gates open | a finished request stays finished |
| Sync gates (`sync-sweep.service.ts`, `sync-check.service.ts`) | two gate timestamps, cooldowns | timed sweep, on-demand check | batch starvation, one vendor down, stale candidates | an account that exists opens its gate eventually; an open gate means the person was seen |
| Outbound (`outbound-request`, `outbound-retry`, `outbound-failure`, `direct-servicenow.provider`, `n8n-workflow.provider`) | failure rows, mirrored tickets | submit, retry, abandon, reopen | lost answers, two retries at once, a shared cart | one ticket per request; nothing is lost silently |
| Intake (`intake`, `intake-adapter`, `servicenow-import`) | requests, default lines, RITMs | n8n intake, import | duplicate and concurrent deliveries | one request per ServiceNow record, one RITM per line |
| Ledger (`license/ledger-*`, `allocation-*`) | allocated and assigned per OpCo and SKU | edit, import, reset, baseline | absolute writes against increments | no increment is lost; history explains the number |
| Reconciliation (`license/reconcile.service.ts`) | drift alerts | nightly run, manual run | two runs at once, counts read at different times | at most one open alert per SKU |
| Catalog, OpCos (`license/catalog*`, `opco`) | SKU and OpCo tables | edit, CSV import | collisions of aliases, licences that come back | an alias names one active SKU |
| Sessions (`auth/*`) | users, refresh and reset tokens | login, rotate, reset, change password, administer | single use tokens, lockout counters, last admin | a token is used once; an admin is left |
| Agent (`agent/*`, `agent-approval/*`) | runs, proposals, transcript, kill switch | start, resume, abort, expire, propose, approve, reject | worker against HTTP, late answers, two approvers, crash half way | a final run stays final; a proposal executes once; nothing acts when switched off |
| Conversations (`agent-conversation.service.ts`) | turns | say, hide | turn and run written separately | every turn is answered or says why not |
| Connectors and vendor clients (`integration/*`) | provider choice, configuration rows | configure, probe | configured and running provider differ until restart | status reports what runs |
| Audit (`audit/*`) | audit rows | log | must be in the transaction it describes | no effect without its row |
| Web portal, seeds, deployment | none of record | | | |

Interactions: the sweep and the check open the gates the assign flow requires;
the assign flow increments the ledger that edits, resets and reconciliation also
touch, and queues failures that the outbound retry repairs; agent approval adds
lines the same way `addLineItem` does; the kill switch gates agent runs and
approvals; intake creates requests and starts outbound submission; imports and
baselines of the ledger find their licence by the alias the catalog gives it, and
reconciliation goes by the catalog's active licences.

`PROJECT.json` lists all components with their status, and the hazards of the code,
40 of them, with the line where each one bites.

## 2. Modules

| Module | What it is |
|---|---|
| `LineStages` | The stage enum, the legal matrix and `aggregateRequestStatus` as operators. |
| `LineLifecycle` | Abstract specification: what an operator is promised about one line. |
| `Fulfilment` | The fulfilment core with handlers interleaving at every await. |
| `SyncGate` | The two sync gates: timed sweep, on-demand check, header edit, outages, restarts. |
| `Submission` | Raising tickets in ServiceNow through either provider, the mirror, the failure queue and its operator. |
| `Intake` | Extends `Submission`: deliveries by n8n on three routes, the import, their audits and mails. |
| `AgentRun` | Agent runs: start, queue, worker, a stretch of execution, stop, expiry, kill switch, conversations. |
| `AgentApproval` | Extends `AgentRun`: approving and rejecting proposals, the work done for them, the resume. |
| `Accounts` | Accounts, passwords, lockout, refresh tokens, reset links, administration. |
| `Catalog` | The licence catalog: sync with the tenant, edits and file imports of aliases. |
| `Ledger` | Extends `Catalog`: edits, imports, baselines and resets of the seat ledger, assigns as it sees them, reconciliation. |
| `MCFulfilment`, `MCSyncGate`, `MCIntake`, `MCAgent`, `MCAccounts`, `MCLedger` | Constants for TLC. |
| `FulfilmentProofs` | Theorems for any number of handlers. |
| `SerialProofs` | Theorems for one handler at a time, among them the refinement of `LineLifecycle`. |
| `SyncGateProofs` | Theorems about the sweep and the check for any number of them. |
| `AccountsProofs`, `AgentProofs`, `LedgerProofs`, `IntakeProofs` | Theorems about `Accounts`, `AgentApproval`, `Ledger` (with `Catalog`) and `Intake` (with `Submission`). |

### Fulfilment

A *handler* is an HTTP request in flight. `pc[h]` says at which await it stands,
`job[h]` what it carries: the line, the stage to write, what it decided on the
row it read. A job is reset to `Blank` (or to the line alone) when the code no
longer uses what it held. Actions and code:

| Actions | Code |
|---|---|
| `StartAssign` | `assignLineItem` 110-227: read the line, stage and gate checks on the row read |
| `FindUser`, `GiveUp` | 228-258: directory lookup and usageLocation |
| `PassBudget`, `FailBudget` | 259-325: budget gate and override |
| `HoldTicket`, `HoldRefused`, `MarkHeld` | `holdTicket`, `writeTicket` 863-958 |
| `AlreadyHeld`, `NotHeld` | 343-378: the holding check, failing open |
| `CheckSeats` | 380-490 |
| `GrantLicence`, `LoseGrantAnswer` | 492-546 |
| `BeginTx`, `Commit`, `RollBack` | 571-644: the transaction takes its locks, then commits or not |
| `CloseTicket`, `CloseRefused`, `NoteParent` | 658-760 |
| `StartAdvance`, `WriteStage` | `advanceStage` |
| `StartAdd`, `CreateLine` | `addLineItem` |
| `StartRemove`, `DeleteLine` | `removeLineItem` |
| `StartEdit`, `WriteHeader` | `updateHeader`, as far as it changes the person: gate 1 is checked on the row read, the write is by id |
| `StartReplay`, `Replay`, `ReplayRefused`, `Resolve` | `OutboundRetryService.retry` for ticket updates and work notes: `repairTicketUpdate`, `repairWorkNote`, `markResolved` |
| `Recount`, `SaveStatus` | `recomputeRequestStatus`, two statements |
| `MarkSynced`, `OpenSyncGate`, `OpenServiceNowUserGate` | `markSynced`, `open-sync-gate.ts` |
| `Crash` | the process stops; open transactions are rolled back |
| `Provision`, `GrantOutside` | the world: a new account, a licence assigned elsewhere |

What is abstracted:

- A request that is refused before it changed anything takes no step.
- Role and OpCo scope checks are left out; they refuse before anything else.
- `usageLocation`, quantities, notes, timestamps and step lists are left out. The
  ledger moves by one seat per assign, whatever the quantity (assign.service.ts
  281-283).
- A row is its stage; ABSENT and REMOVED stand for a row that is not there. Ids are
  never used again.
- `target` is the person a request names. An assign carries the one it read (`job[h].who`)
  to the directory, the holding check and the grant, and `served` keeps whom the ASSIGN
  event of a line was for. Which corrections a run offers is a constant (`Corrections`).
- `queue` holds which delivery (hold, close, note) of which line has an unresolved row,
  not how many rows: `Resolve` may leave the pair there. A row set aside by `abandon` can
  be retried like an open one, so setting it aside and reopening it take no step. A
  replay of a ticket that is closed already finds no active task and is refused.
- Licences and directory entries are not taken back, and only the platform moves
  tickets. Those are limits of the environment modelled, not claims about it.
- `counted`, `skipped` and `granted` count what the timeline and the tenant record;
  `overrides` counts audit rows. They are read by properties only, and so is `renamed`,
  the lines whose request was given another person while an assign of them was under
  way, or after it, by an edit that had read gate 1 shut.
- `BeginTx` takes the row locks of the line and the ledger cell in one step. The
  code takes them in that order and every transaction uses the same order.
- The database faults are a transaction that is rolled back and a failure row that
  is not written. A failure between two separate statements (say, between the
  stage and the status) is covered by `Crash`, which leaves the same state.

Faults are a constant, so that a run says which it admits: `graph` (a directory
or licence lookup fails), `lost` (the provider did the work and the answer is
lost), `ticket` (ServiceNow refuses or is down), `db`, `crash`.

### SyncGate

`Fulfilment` lets a gate open whenever the person exists; `SyncGate` models how it
comes to open. A round of the sweep (`sweep[w]`) carries the candidates as
`findCandidates` read them and the outage flag of each vendor; `check[c]` and
`edit[e]` are HTTP requests in flight. Actions and code:

| Actions | Code |
|---|---|
| `StartRound`, `Candidates` | `handleCron`, `findCandidates`: open, a line waiting, oldest first, one batch |
| `SkipGraph`, `AskGraph`, `GraphRefuses`, `OpenGate` | the gate 1 half of the loop, 129-151; the write by id is `openSyncGate` |
| `SkipServiceNow`, `AskServiceNow`, `ServiceNowRefuses`, `OpenServiceNowGate`, `NoteTickets` | the gate 2 half, 153-184 and 273-302 |
| `Advance` | the next candidate, the end of the list, or both vendors down |
| `StartCheck`, `Throttled`, `Stamp`, `CheckGraph`, `CheckOpens`, `CoolDown` | `SyncCheckService.check` and its cooldown map |
| `StartEdit`, `WriteEdit` | `updateHeader` |
| `MarkSynced` | `markSynced` |
| `Crash`, `Boot`, `Toggle`, `JoinGraph`, `JoinServiceNow`, `Settle` | the world: restarts, outages, new accounts, lines that stop or start waiting |

What is abstracted: `waiting` stands for three conditions of the query (the status,
a line that is not finished, the age cutoff). Passing over a vendor is a step here
although the code does not await there, which only adds interleavings. A database
error inside the `try` counts as the vendor's outage, as the code's `catch` does.
The batch is a function from ranks to the
n-th candidate in age (`Among`), which is what `orderBy` and `take` return. Work notes
may fail without effect. `snUser` keeps the person whose sys_id was
stored; `graphRefused`, `snowRefused` and `asked` count calls and are read by
properties only. `markSynced` may be called again on an open gate; that changes no
gate and takes no step. The sweep's feature flag is on.

### Submission and Intake

A handler carries one operation (`job[h].op`): an operator's `create`, `retry`,
`abandon` or `reopen`, or a delivery on a route. `tickets` is what exists in
ServiceNow, whatever the platform knows of it; `requests` is the platform's table,
`rows` its failure queue, `told` the answer an operator last saw.

| Actions | Code |
|---|---|
| `OrderRefused`, `OrderAtOnce` | `submit` of either provider: one call, its answer may be lost |
| `CheckCart`, `AddToCart`, `SubmitCart`, `DescribeOrder` | `orderViaCart` and `describeOrder` of the direct provider, for more than one line |
| `Create`, `CreateMirror` | `OutboundRequestService`: submit first, mirror afterwards |
| `QueueSubmit`, `QueueMirror` | `OutboundFailureService.record`, which may itself fail |
| `Retry`, `FindMirror`, `RepairMirror`, `FailRow`, `Resolve` | `OutboundRetryService`: `repairSubmit`, `repairMirror`, `writeMirror`, the status by id |
| `StartAbandon`, `WriteAbandon`, `StartReopen`, `WriteReopen` | `abandon`, `reopen`: read and write apart |
| `Deliver`, `RefuseDelivery`, `CheckExisting`, `FindRequest`, `InsertRequest` | the intake controller and adapter, `IntakeService.intake` with its P2002 branch |
| `AuditInjection`, `AuditImport`, `Notify` | the audits of injected and imported requests, the mail |
| `ReadLines`, `WriteRitm` | `raiseLicenceRequest` on the flat route |
| `Import`, `RefuseImport` | the import of one REQ by an administrator |
| `Crash` | the process stops; the cart keeps what is in it |

What is abstracted: how a department, a licence code or a person resolves is an
outcome; the lines of a request share one RITM; the attempt count, which nothing
decides on, is left out; rows of ticket updates and work notes, and
their replay, are in `Fulfilment`, and the replay of a mail is not modelled. The requester's sys_id is not among the fields a failure row keeps, so
a repair looks the person up by e-mail; the model has no persons here and is
indifferent to it.

### AgentRun and AgentApproval

`runs`, `proposals` and `said` are tables, `jobs` the BullMQ queue. `job[h]` is a
handler, or a worker slot executing a run; both draw on one set `Handlers`. A
*stretch* is what happens between taking a job, or a decision, and the last write of
`persistTurn` or `failRun`.

| Actions | Code |
|---|---|
| `StartRun`, `AssertNoOpenRun` | `startRun` |
| `AddTurn`, `StartConversationRun` | `addTurn` of a conversation and the run it starts |
| `ReadPrincipal`, `CreateRun`, `Enqueue` | `queueRun` |
| `TakeJob`, `LoadRun`, `CheckSwitch` | `AgentRunWorker`, `executeRun` |
| `ModelTurn` | either runtime adapter: an error, an answer, or one or two calls that need approval |
| `PersistCompleted`, `PersistProposal`, `PersistAwaiting`, `FailRun` | `persistTurn`, statement by statement, and `failRun` |
| `RecordAssistantTurn` | what the worker tells the conversation |
| `AbortRun`, `SweepRun`, `StopRun`, `TidyProposals` | `abortRun`, the expiry sweep |
| `HideRun`, `SetHidden` | `hideRun` |
| `Approve`, `LoadDecidable`, `CreateLineItem`, `AssignLine`, `MarkBroken`, `MarkDone` | `approve` of `AgentApprovalService`: the work first, the mark afterwards |
| `Reject`, `MarkRejected` | `reject`, which asks no switch |
| `AskToResume`, `ReloadRun` | `resumeRun`, and the rule of both runtimes that every pause of the saved state has its decision; a run of another SDK is expired like one the sweep finds |
| `Catch` | a statement inside the try of `executeRun` or `resumeRun` throws: `failRun` |
| `Throw` | a statement outside every try throws (the load and the setup of `executeRun`, the step before the enqueue, a write of `failRun` itself): the handler ends with its rows as they are, and its job, which has one attempt, is gone |
| `SetSwitch`, `Restart` | the kill switch; the process stops and active jobs come back as stalled, each of them once (BullMQ's `maxStalledCount` is left at 1) |

What is abstracted: what the model answers is a choice; what a tool reads, steps,
tokens and wording are left out; an assign is an outcome (`Fulfilment` has its
steps), and so is a profile that refuses a run. An enqueue that reached Redis but whose
answer was lost, and a job that stalls while its process lives on, are left out. Things the model shows and no property
states, because the code says nothing else about them: `recordAssistantTurn` is called
by the worker only, so a chat hears nothing of a run that an approval resumed; a
turn may be stored without a run; a turn that paused twice fails at its first decision,
since the runtimes want all decisions and the approval passes one; rejecting while the
agent is switched off leaves the run parked until it expires; an assign that was
done and not marked, when approved again, reads `failed`. `inputFor` explains itself
with a transaction around turn and run that `agent-conversation.service.ts:253` says
there is not; the worker takes a job after the turn is stored either way.

### Accounts

| Actions | Code |
|---|---|
| `Login`, `Miss`, `Pass` | `login`, `registerFailedLogin`, which counts from the row that login read |
| `SsoLogin`, `Issue` | `upsertEntraUser`; `RefreshTokenService.issue` |
| `Refresh`, `Revoke`, `Logout` | `rotate`, in its three statements; `revoke`, one conditional statement |
| `RequestLink`, `CheckCooldown`, `MintLink`, `UseLink`, `Consume` | `PasswordResetService.issue` and `consume` |
| `Update`, `ReadTarget`, `CountAdmins`, `WriteUser` | `update` of an account, with the rule that an admin remains |
| `AdminReset`, `FindAccount`, `ForceChange`, `CreateUser`, `InsertUser` | `resetPassword`, `create` |
| `ChangePassword`, `WritePassword` | `changePassword` |
| `LockEnds`, `TokenExpires`, `LinkAges`, `Restart` | the world |

What is abstracted: signatures, cookies and the exchange with Entra; the password
itself (right or wrong is a choice), the policy, mails and audit rows; OpCo scopes. The
guard's read of the account and the handler's first read are one step. A field that
an update leaves out is one that asks for what is read. Time is a choice: a lock may
end, a token expire and a link age whenever they like. `Init` is any installation
with an active admin. By the code, and so by the model: only a reset by link revokes
sessions (a changed password, an admin's reset and a deactivation do not), a renewal by
an inactive account spends its token before it is refused, and Entra logins are issued a
token before anybody asks whether the account is active, and the bearer token of an
Entra account is good for administration even when the account is inactive (`MayAdminister`).

### Catalog and Ledger

A handler works on the catalog (`task[h]`) or on the ledger (`job[h]`).

| Actions | Code |
|---|---|
| `StartSync`, `Upsert`, `Retire` | `syncFromTenant`: one upsert per licence, then the deactivation |
| `UpdateEntry`, `Guard`, `ImportCatalog`, `Save` | `updateEntry` with its alias guard; the file import |
| `EditRow`, `Import`, `Baseline`, `Write` | `updateLedgerRow`, the allocation import, the assigned baseline: absolute numbers worked out on a read, written by key |
| `AllocationReset`, `ZeroAllocations`, `FullReset`, `Clear` | the two resets |
| `Assign`, `GrantSeat`, `CountSeat` | what an assign does to the ledger, between its budget gate and its increment |
| `Reconcile`, `ReadCatalog`, `Look`, `Sum`, `Raise`, `Resolve` | a reconciliation, licence by licence |
| `SetSeatModel`, `Offer`, `TenantMoves`, `Restart` | the seat model of an entry; the tenant's subscriptions and seats; the process stops |

What is abstracted: the CSV matrix is what it lists for each cell, in the order of the file,
and reaches a cell through the alias of its licence, or does not. Neither
`parseAllocationMatrix` nor its callers merge or refuse a header or a label that is
repeated, so a cell may be listed twice: an import writes the last number; a baseline
(`Changes`) has one change for each listing, all with the `before` that was read, writes
the last one that is a change and books an adjustment for each of them (`Again` is what is
booked too much). A missing ledger row is one of zeros; a
row of the catalog that a sync creates and one it reactivates are one action, and a
unique violation is a failed statement; categories, base flags, snapshots and previews
are left out. The budget gate is no guard here: an override passes it. The full
reset reads inside its transaction, but at READ COMMITTED others commit between its
read and its update, so its `beforeValue` may be old, which the comment at
`ledger-full-reset.service.ts:105` does not expect; the model has the two
statements as two steps. By the code: the open alert of a licence that is deactivated
stays open, because a reconciliation looks at active licences only; and the alias of an
inactive licence may be given to another one and collide when a sync brings the
licence back, even with nobody else at work.

## 3. What is checked

| Run | Instance | Shows |
|---|---|---|
| `fulfilment_serial` | 1 handler, 2 requests, 3 lines (one READY with a RITM, one in procurement on a platform-created request, one not added yet), 2 people, 1 SKU with 2 seats, budget 1, the person of one request may be corrected, outages of Graph and ServiceNow | everything an operator may rely on when nobody else is at work (455 000 states) |
| `fulfilment_concurrent` | 2 handlers, 1 request whose person may be corrected, 2 lines (one READY, one in procurement), an unlimited SKU, lost answers, rollbacks, lookups that fail, crashes | what survives every interleaving (1 902 000 states) |
| `assign_twice` | as above | violated: `OneAssign` with two handlers |
| `retry_uncounted` | 1 handler, 1 line, crashes | violated: `RetryCountsTheSeat` |
| `sync_gate_safety` | 2 requests in a batch of 2, 1 round, 2 checks, 1 edit, outages of Graph and the database, restarts | `AskedOnce`, and that a round never runs past its list |
| `sync_gate_liveness` | 3 requests, a batch of 2, 1 round, an ambiguous person ahead of a joining one, outages of both vendors, restarts | `GateOneOpens`, `GateTwoOpens`, `OneRefusalPerRound` |
| `gate_for_somebody_else` | 2 requests, 1 round, 1 edit | violated: `GateTwoMeansTarget` |
| `intake_and_queue` | 2 handlers, 3 started in all; 2 forms of two lines each, 1 onboarding, all routes, either provider; 3 tickets, 3 failure rows | tickets, requests, failure rows, audits and mails answer for each other (582 000 states) |
| `once_per_request` | 1 onboarding, otherwise as above | violated: `OncePerRequest` |
| `agent_runs` | 2 handlers, 4 started in all; a request and a conversation about it; 2 runs, 2 proposals of two items or one assign, 1 setting of the switch; statements may throw anywhere, jobs stall | runs, jobs, proposals and what was made of them agree (1 056 000 states) |
| `accounts` | 2 handlers, 4 started in all; one person with a password, one of Entra; threshold 2, 3 tokens, 2 links | what is single-use, and what must remain (644 000 states) |
| `ledger` | 2 handlers, 3 started in all; 2 OpCos, 1 licence with seats and 1 absent or inactive, 1 alias, quantities 0 and 1, files that repeat a header or a label, 1 move of the tenant | aliases, the trail of the ledger and the drift shown (982 000 states) |

Safety under any interleaving:

- `BudgetOvershoot`: the ledger is over the allocation by at most one seat per
  audited override and one per other assign in flight. With one handler this is the
  exact budget; with more it measures the race between the gate and the increment.
- `AssignedIsEarned`: ASSIGNED means that both gates are open and that whom the ASSIGN
  event was for holds the licence. That is whom the request names, except for the lines
  in `renamed`: `updateHeader` checks gate 1, awaits and writes by id, so the gate may
  open and an assign read the old person in between. The old person then has the licence
  and the request names another; without the exception TLC shows it in a dozen steps.
- `ClosedTicketIsDelivered`: a closed ticket means a delivered and recorded licence, also
  when a replay from the queue closed it.

With one operator at a time:

- `HoldFlagHonest` and `CloseAccounted` (both proved for any number of handlers),
  `StatusSettled`, `CompletedIsFinal`, `OneAssign`, `GrantsAreCounted`, and
  `LifecycleSpec`, the refinement of `LineLifecycle`.

The sync gates:

- `GateOneOpens`, `GateTwoOpens`: once a vendor knows the person, the gate of a request
  that stays in the batch opens, whatever the other vendor does and whoever is ahead
  in the batch. Nothing is promised to a request behind a full batch: that is the
  starvation the age cutoff limits and does not prevent.
- `OneRefusalPerRound`: a vendor that failed is left alone for the rest of the round.
- `AskedOnce`: one on-demand lookup per request and cooldown, with two operators
  asking, failing lookups and a restart in between. A restart forgets the cooldown,
  which the code accepts; the count restarts with it.

Submission and intake:

- `RaisedOnce`: an onboarding costs one ticket, however often it is delivered.
- `AnsweredTicketIsTraceable`: a ticket ServiceNow answered for is mirrored, in a
  handler's hands or on a row of the queue.
- `HandledMeansAskedFor`: what n8n has seen succeed is one request whose licence was
  asked for, or a row that says what is missing.
- `ResolvedMeansMirrored`: a resolved row has its mirror, with the ticket it carries.
- `OrderedItemsAreOwn`: no order carries what somebody else left in the cart. Two
  submissions that fill the cart together are the exception, and they can even pass
  the count that `describeOrder` makes.
- `RowRaisesOnce`, `ToldOnce`: repairs of one row keep one ticket; one mail and one audit row
  per onboarding.

Agent:

- `OneOpenRun`, `EndedStaysEnded`: one open run from a request's screen, and nothing
  overwrites how a run ended.
- `VerdictMatchesWork`: the verdict of a proposal tells what was done on its account.
- `SwitchedOffIsInert`: a switch that is off stops everything the agent causes, except by
  handlers already past their check.
- `NothingLeftPending`, `RunningIsCarried`: nobody is asked to decide on a run that was
  completed, stopped or expired; a run that reads running has a job or somebody at work.
  Excepted are the runs in `stranded`: the code leaves a run running for good when its
  creator stops before the queue has the job, when the load or the setup of `executeRun`
  throws, when the write of `failRun` fails and when its job stalls twice, which `run-expiry.service.ts:101` calls a known gap. The property says
  that these are all the ways there are.

Accounts:

- `SpentOnce`: a refresh token has one successor, a link sets one password.
- `ResetEndsSessions`: no session survives a reset by link, however often it was renewed.
- `AdminRemains`, `LockoutCounts`.

Catalog and ledger:

- `AliasNamesOneSku`: so a row of the matrix has one place to go.
- `TrailExplains`: a cell's assigned number is the seats counted plus the adjustments on
  record. Excepted are the cells in `overtaken` and in `repeated`. The second is a defect
  with nobody overtaking: a baseline whose file lists a cell twice books both differences
  and keeps one number. Without that exception TLC shows it in three states: a file that
  says 1 of a cell in two columns, one seat in the row, two on the trail.
- `DriftIsShown`: after a reconciliation during which nothing moved, the one open alert
  of a licence shows the difference of the books, or there is none.

Many of these properties name an exception: `met`, `crowded`, `rowMet`, `contested`,
`disturbed`, `startsMet`, `overtaken`, `clashed`, `doubled`, `late`, `renamed`, `stranded`,
`untidied`, `repeated`. Those are
history variables. They record that two handlers met at the await where the code
checks and writes apart, that a handler broke off there, or that a file listed a cell
twice, and no action reads them. Each exception was checked to be needed: without it TLC finds the trace. So a property
says two things: that the code keeps the promise as long as that does not happen, and
that what is named is all there is. It does not cover the race it excepts, and the list of
hazards says so where one bites.

Fairness (`SyncGate`): weak fairness of starting a round and of the next step of a
round. The cron decorator fires every ten minutes, `handleCron` catches everything, and
every vendor call returns or throws, so a round that began goes on. No fairness is
given to vendors, accounts, restarts or operators: what the liveness properties need of
them (from some point on the process, the database and the vendor asked stay up; the
account joins; the request stays in the batch and for the same person) is their
antecedent. The runs have one round at a time, the usual case with a batch that
takes less than ten minutes.

Bounds: two handlers are enough to put any write of one between any two awaits of
the other, which is the shape of every race found; the theorems cover more. The
budget of one seat and the two seats of the tenant put the gates at their limits:
within budget, over it, over it with a reason, seats used up. The third line and
the second request are there so that status, completion and the platform-created
rule have something to disagree about. No counter needs a bound: lines are
assigned a finite number of times because every handler needs a READY line.
Symmetry is used in the safety run only, over handlers, which run the same code
and are named nowhere in `Init`.

The four newer modules bound how many handlers start in a behaviour (`MaxJobs`), with
how many tickets, rows, runs, proposals, tokens and links there may be; two at
a time. Three or four are enough for the longest story a property tells: a delivery
that fails, its repair and the next delivery; a run, two decisions on it and a stop; a
login, a renewal of it and a reset; an edit, an assign and a reconciliation. Larger instances
were run once, without an error: `intake_and_queue` with four handlers and one form
and `agent_runs` and `accounts` with five handlers, six million states each. Bounds
never hide a step of a handler that has begun: an insert at the bound is refused as
the database could refuse it. `Users`, `Requests` and cells are named by `Init` or by
the roles they play, so symmetry is used over handlers and, in `intake_and_queue`, over
the two forms, which ask for the same.

Deadlock checking is on for `Fulfilment` and `SyncGate`: the gates can always be asserted
again (`MarkSynced`). It is off for the modules with `MaxJobs`: their behaviours end when
the handlers are used up. They state no fairness: their operations are started by people,
and the jobs that are not (the expiry sweep, the nightly reconciliation) promise
nothing that a person cannot undo meanwhile.

### What the violated runs show

`assign_twice`: a comment says that a line can reach the close only once because
the stage gate rejects what is not READY. The gate looks at the row read before
the vendor calls and the transaction writes by id, so two assigns of one line
both finish. The same pattern lets an assign overwrite CANCELLED and an advance
overwrite ASSIGNED; that is why the lifecycle refinement is stated for one handler.

`retry_uncounted`: an assign that dies after the licence call leaves the line
READY and the licence on the person. The retry finds it "already held", closes
the line and leaves the ledger alone. The comment that the ledger counts every
assign that changed something does not hold for it. Reconciliation would show
the difference per SKU, not per OpCo.

`gate_for_somebody_else`: `updateHeader` refuses a new `targetUpn` once gate 1 is open
and does not look at gate 2. The sweep asks ServiceNow about the person it read and
writes by request id, so a correction in between leaves the former person's sys_id on
the request; a correction after gate 2 opened does the same. The request is then no
candidate for gate 2 any more and the new person is not looked up.

`once_per_request`: `raiseLicenceRequest` says of itself that it raises once per
request. A delivery whose submit fails leaves a row; the operator's repair raises the
ticket and mirrors it as a request of its own (`writeMirror`), not on the
lines of the onboarding. The next delivery of the same REQ finds lines without an
RITM and raises a second ticket.

## 4. What is proved

Every invariant and every action property that a passing run checks is a theorem of its
specification, for every value of the constants: any number of handlers, rows, tokens,
runs, tickets. The proofs use the named assumptions of each module and nothing else.
Those give the constants their shapes, plus a few facts: no line is assigned at
the start; `Handlers` (in `Fulfilment`), accounts, OpCos and licences are finite
sets; the catalogs a behaviour may begin with have no two active licences
under one alias; there is at least one cell, topic and need to talk about; the
identifiers of tickets, onboardings and forms are not confused with each other. TLC
evaluates all of them.

A theorem with hypotheses of its own says so in its statement. There are two kinds:
`OneHandler` (section 3 says which properties need it, and the violated runs show why)
and faults that are excluded because the code does lose the property under them.

### The fulfilment core, any number of handlers (`FulfilmentProofs`)

- `TypeCorrect`: `TypeOK` is inductive.
- `EarnedAlways`, `ClosedAlwaysDelivered`: neither is inductive, because the writes
  rely on gates passed several steps earlier. `DeliveryInv` adds what a handler
  *knows* at each program counter: from `directory` on the gates of its request are
  open, from `tx` on the person it read has the licence, at `close` the timeline has its
  event, and a close that waits in the queue is one of a delivered line. Nothing takes
  these facts back, which is the lemma every step uses. That the person read is still the
  one the request names is not among them: an edit that read gate 1 shut may land, and
  then every line taken by then is in `renamed`; an edit that begins later reads the gate
  open and is refused.
- `HoldFlagAlwaysHonest`: the strengthening is that a handler at `mark` has moved the
  ticket, and that a ticket only moves forward.
- `BudgetHolds`: the invariant counts the handlers that passed the budget gate and
  have still to be counted (`Unbooked`). Entering the gate adds one handler and needs
  a free seat in the ledger it read; committing moves one from `Unbooked` to the
  ledger; the cardinality facts come from `FiniteSetTheorems`.
- `CloseHolds`: an assigned line's ticket is closed, or its close is queued, or some
  handler is at `close` with that line. Excluded: `crash`, which takes that handler
  away, and `db`, under which the row of the queue is not written.

### The fulfilment core, one handler (`SerialProofs`)

`StillTrue` is what the others build on: what a handler read is still true when it writes.

- `SerialOneAssign`, `SerialLifecycle`: from `StillTrue`, every step of
  `Fulfilment` is a step or a stutter of `LineLifecycle`.
- `CompletedHolds`: a crash can leave a status behind the lines, so "status equals
  aggregate" is not available. `FinalInv` keeps the half that survives: a stored
  COMPLETED is true of the lines, and so is the status a handler is about to store.
- `StatusHolds`: the status of a request is the aggregate unless a handler has yet to
  refresh it (`Refreshing`). Excluded: `crash`, between the stage and the status.
- `GrantsHold`: a handler between the grant and the commit owes its cell one seat
  (`Owing`); otherwise the ledger covers what was granted. Excluded: `crash` and `db`
  (granted and not counted) and `lost` (granted, and the platform does not know);
  `retry_uncounted` shows one of these.
- `SerialBudget`: with one handler `BudgetHolds` gives the exact budget, with every fault.

### The sync gates (`SyncGateProofs`)

- `AskedOnceAlways`: what makes it inductive is that a request that was asked about is
  cooling; it needs nothing about where the checks are.
- `OneRefusalAlways`: a vendor that refused is marked down and a mark stays until the
  round ends, for any number of rounds at once.
- `SweepTakesTheOldest`: the batch holds candidates only and, when it leaves one out, is
  full of older ones. `Candidates` goes by rank (`Among(i)` counts the candidates up to
  place `i`), so that the place of the n-th candidate exists by the least-number
  principle (`WellFoundedInduction`) and no induction over a sequence is needed.
- `GateTyped` rests on it: a round has a candidate to work on at every step.
- `GateTwoIsCertain`: a round about to open gate 2 carries somebody whom ServiceNow knows
  exactly once (`CertainInv`). That it may be a former person of the request is what
  `gate_for_somebody_else` shows; that it is never a guess is proved.

### Accounts (`AccountsProofs`)

- `AccountsTyped`: with the types, where each operation may stand and what it holds there.
- `LockoutHolds`: of an account whose count nobody overtook, the failures in a row are at
  most the count of the row, and whoever verifies a password holds that count.
- `ResetHolds`: a live session, and one being issued or renewed, is of the account's
  last reset or was under way at it.
- `AdminHolds`: a handler at its write leaves an admin behind, or the admins have
  changed since it counted.
- `SpentHolds`: a token nobody overtook is live in the hands of whoever revokes
  it, has no successor before that and one, made or in the making, after it; links alike.

### Agent (`AgentProofs`)

- `AgentTyped`: with the types, references (a run of a proposal, a proposal of a job) and
  the control flow of every operation.
- `SwitchHolds`: whoever stands past its check while the switch is off is in `late`.
- `EndedHolds`: two writers of one run, or a writer of a run that has ended, exist only
  where the run is `disturbed` (`WriterInv`). An action property, proved from it.
- `OneOpenHolds`: where no two starts met, whoever looked the open runs up found none,
  and is alone with that.
- `CarriedHolds`: a handler that ends leaves no running run, unless it breaks off at one of
  the points `stranded` records; a job that was queued is there until a worker takes it.
- `NothingLeftHolds`: for each run, who may still write a proposal and in which
  status the run then is; it needs `WriterInv` for the handlers that end a run.
- `VerdictHolds`: for each proposal, what is made agrees with the verdict and with how far
  the one handler that holds it has come.

### Catalog and ledger (`LedgerProofs`)

- `LedgerTyped`.
- `TrailHolds`: a handler about to write an absolute number has the number the cell has,
  or was overtaken there; what it books is the difference it makes, unless its file lists
  the cell with two new numbers, which `repeated` records.
- `AliasHolds`: what a handler at `save` would leave has no collision, unless the catalog
  changed since it checked (`Fair`).
- `DriftHolds`: a reconciliation that nothing disturbed holds the numbers the books have
  at each of its awaits. The sum over OpCos (`AssignedSum`) is the cardinality of a set
  of pairs: the additions the proofs need then follow from `FiniteSetTheorems`.

### Submission and intake (`IntakeProofs`)

- `IntakeFits`, `IntakeTyped`: rows, requests, tickets and the work in hand refer to
  each other as their columns say; all others rest on it.
- `ItemsHold`: while one handler fills the cart at a time, it holds that handler's items.
- `ResolvedHolds`: a handler at its last write has its mirror, and mirrors stay.
- `TraceableHolds`: a handler that is done with its ticket has left a trace of it.
- `ToldHolds`, `AskedHolds`, `RaisedHolds`, `RowsHold`: per onboarding or per row, a case
  list of what its tickets, lines, rows and the handlers working on it may be at a time;
  `MetInv` (two deliveries at once have met) makes the handler of each case the only one.

### What stays with TLC

`GateOneOpens` and `GateTwoOpens`: the backends do not reach fairness and ENABLED. No
liveness property is stated of the other modules: nothing obliges an operator to act, and
a crash is not recovered from by the code itself. The violated properties are refuted by
TLC's counterexamples. The bounds `MaxJobs`, `MaxTickets` and the like are natural numbers of
any size in the theorems; they are part of the model nevertheless.

## 5. Plan

The components that keep state of record are modelled, and their invariants proved. What
is left to say more with the same modules:

1. Faults one at a time: `StatusSettled` and `CloseAccounted` restated per request, so
   that a crash excuses only the lines of the handler it took.
2. Abstract specifications of `Submission` (a need is raised, then mirrored) and of a
   proposal in `AgentApproval`, with the refinement proved from the invariants above.
3. What two handlers still keep of `LineLifecycle`: the moves that remain legal when the
   row that was read is old.

## 6. Not modelled

- OpCo administration: create, rename and deactivate of one table, each one statement
  on what the form says; no other component reads more of it than that it exists.
- Connector configuration: one row per connector, read once at start-up. The probes
  are input and output.
- The replay of a mail from the failure queue: refused for templates that have parameters.
- The activity feed, run statistics, read models and previews: queries.
- Opening, renaming, archiving and listing conversations, editing profiles: columns of one row
  that only a refusal reads.
- Static tables: permissions and role scopes, audited fields, tool descriptions. Role and
  scope checks refuse before anything the properties are about.
- Parsing, formatting, HTTP, tokens and OAuth of the vendor clients; CSV; the
  text and the transport of e-mail; server-sent events; what a language model answers
  (a choice).
- The web portal, a client that keeps no state of record; seeds, scripts, deployment.
