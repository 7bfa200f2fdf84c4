----------------------------- MODULE Submission -----------------------------
(***************************************************************************)
(* Raising tickets in ServiceNow and repairing what failed                 *)
(* (outbound-request.service.ts, direct-servicenow.provider.ts,            *)
(* n8n-workflow.provider.ts, outbound-failure.service.ts,                  *)
(* outbound-retry.service.ts).                                             *)
(*                                                                         *)
(* A handler submits an order first and writes the platform's mirror of it *)
(* afterwards.  What fails is kept as a row of the failure queue, which an *)
(* operator retries, abandons or reopens.  ServiceNow may raise the ticket *)
(* and lose the answer; the database may refuse a write; the process may   *)
(* stop.  At every await the other handlers run.                           *)
(*                                                                         *)
(* The order machine is shared with Intake, which EXTENDS this module.     *)
(***************************************************************************)
EXTENDS Naturals, Sequences, FiniteSets

CONSTANTS
    Forms,         \* requests an operator fills in on the portal
    Onboardings,   \* requests of ServiceNow that n8n delivers (their REQ)
    LinesOf,       \* licence lines of each
    Handlers,      \* HTTP handlers that may be in flight at the same time
    MaxTickets,    \* bound: tickets in a behaviour
    MaxRows,       \* bound: failure rows; a record beyond it is refused
    MaxJobs,       \* bound: handlers that start in a behaviour
    NoTicket,      \* null
    Given          \* an RITM that ServiceNow sent with the request

Needs   == Forms \cup Onboardings
Tickets == 1 .. MaxTickets

ASSUME SubmissionAssumption ==
    /\ Forms \cap Onboardings = {} /\ Needs # {} /\ Onboardings \cap Tickets = {}
    /\ LinesOf \in [Needs -> Nat \ {0}]
    /\ MaxTickets \in Nat /\ MaxRows \in Nat /\ MaxJobs \in Nat
    /\ NoTicket \notin Tickets /\ Given \notin Tickets /\ NoTicket # Given

VARIABLES
    provider,   \* the submission seam, fixed at boot: "direct" or "n8n"
    cart,       \* ServiceNow: the cart of the integration account
    tickets,    \* ServiceNow: the requests raised for the platform
    requests,   \* table Request, each with the RITM of its lines
    rows,       \* table OutboundFailure, of the kinds about requests
    told,       \* the last answer the operator of a form has seen
    job,        \* what each handler does
    begun       \* handlers started so far

worldVars == <<provider, cart, tickets>>
dbVars    == <<requests, rows>>
submissionVars == <<worldVars, dbVars, told, job, begun>>

\* A ticket: whom it was raised for, its items in cart order, the failure row
\* whose repair raised it (0: none).  lost is history: how the platform came to
\* have no record of it.
Ticket == [for : Needs, items : Seq(Needs), row : 0 .. MaxRows,
           lost : {"no", "answer", "write", "queue", "repair", "crash"}]

\* A request: its REQ, which is unique, and the RITMs of its lines.
Request == [sys : Tickets \cup Onboardings, need : Needs, lines : Nat,
            ritm : Tickets \cup {NoTicket, Given}]

Row == [kind : {"submit", "mirror"}, need : Needs,
        ref : Tickets \cup {NoTicket}, status : {"open", "resolved", "abandoned"}]

Ops == {"create", "retry", "abandon", "reopen",            \* an operator
        "flat", "native", "canonical", "import"}           \* routes of Intake

Points == {"idle",
           "submit", "fill", "describe", "answered", "failed",   \* an order
           "queue", "find", "mirror", "resolve", "failRow",      \* its mirror
           "abandon", "reopen",                                  \* a judgement
           "check", "intake", "insert", "audit", "lines",        \* Intake
           "notify"}

Job == [op : Ops, at : Points, need : Needs, row : 0 .. MaxRows,
        ticket : Tickets \cup {NoTicket}, left : Nat, known : BOOLEAN]

Idle == [op |-> "create", at |-> "idle", need |-> CHOOSE n \in Needs : TRUE,
         row |-> 0, ticket |-> NoTicket, left |-> 0, known |-> FALSE]

SubmissionTypeOK ==
    /\ provider \in {"direct", "n8n"}
    /\ cart \in Seq(Needs)
    /\ tickets \in Seq(Ticket) /\ Len(tickets) <= MaxTickets
    /\ requests \subseteq Request
    /\ rows \in Seq(Row) /\ Len(rows) <= MaxRows
    /\ told \in [Forms -> {"nothing", "done", "retry", "stop"}]
    /\ job \in [Handlers -> Job]
    /\ begun \in 0 .. MaxJobs

SubmissionInit ==
    /\ provider \in {"direct", "n8n"}
    /\ cart = <<>>
    /\ tickets = <<>>
    /\ requests = {}
    /\ rows = <<>>
    /\ told = [f \in Forms |-> "nothing"]
    /\ job = [h \in Handlers |-> Idle]
    /\ begun = 0

At(h, where) == job[h].at = where
Set(h, work) == job' = [job EXCEPT ![h] = work] /\ UNCHANGED begun
Go(h, where) == Set(h, [job[h] EXCEPT !.at = where])
Done(h)      == Set(h, Idle)

\* A request reaches the API: a free handler takes it.
Start(h, work) ==
    /\ At(h, "idle")
    /\ begun < MaxJobs
    /\ begun' = begun + 1
    /\ job' = [job EXCEPT ![h] = work]

-----------------------------------------------------------------------------
(* An order: what RequestSubmissionProvider.submit does. *)

\* The direct provider orders several lines through the cart of the account.
UsesCart(h) == provider = "direct" /\ LinesOf[job[h].need] > 1

\* Handlers that are between the check of the cart and the order.
InCart == {h \in Handlers : At(h, "fill")}

Raise(h, items, lost) ==
    /\ Len(tickets) < MaxTickets
    /\ tickets' = Append(tickets, [for |-> job[h].need, items |-> items,
                                   row |-> job[h].row, lost |-> lost])

\* Nothing was raised: ServiceNow or n8n refused, or could not be reached.
OrderRefused(h) ==
    /\ At(h, "submit")
    /\ Go(h, "failed")
    /\ UNCHANGED <<worldVars, dbVars, told>>

\* orderNow, or the webhook of n8n: one call raises the ticket.  It may answer,
\* or the answer, or the reading back of the items, fails: to the caller that
\* is a failed submit.
OrderAtOnce(h) ==
    /\ At(h, "submit") /\ ~UsesCart(h)
    /\ LET n == job[h].need
           items == [k \in 1 .. LinesOf[n] |-> n] IN
       \/ /\ Raise(h, items, "no")
          /\ Set(h, [job[h] EXCEPT !.at = "answered", !.ticket = Len(tickets) + 1])
       \/ Raise(h, items, "answer") /\ Go(h, "failed")
    /\ UNCHANGED <<provider, cart, dbVars, told>>

\* Mutant: whatever is in the cart is left there and ordered along.
CheckNothing(h) ==
    /\ At(h, "submit") /\ UsesCart(h)
    /\ Set(h, [job[h] EXCEPT !.at = "fill", !.left = LinesOf[job[h].need]])
    /\ UNCHANGED <<worldVars, dbVars, told>>

\* orderViaCart refuses a cart that already holds something.
CheckCart(h) ==
    /\ At(h, "submit") /\ UsesCart(h)
    /\ cart = <<>>
    /\ Set(h, [job[h] EXCEPT !.at = "fill", !.left = LinesOf[job[h].need]])
    /\ UNCHANGED <<worldVars, dbVars, told>>

\* Mutant: the loop over the lines starts one too early.
AddToCartFromMinusOne(h) ==
    /\ At(h, "fill")
    /\ \/ /\ cart' = Append(cart, job[h].need)
          /\ Set(h, [job[h] EXCEPT !.left = @ - 1])
       \/ cart' \in {cart, Append(cart, job[h].need)} /\ Go(h, "failed")
    /\ UNCHANGED <<provider, tickets, dbVars, told>>

\* One line into the cart.  A call that fails leaves the earlier lines there,
\* and perhaps its own.
AddToCart(h) ==
    /\ At(h, "fill") /\ job[h].left > 0
    /\ \/ /\ cart' = Append(cart, job[h].need)
          /\ Set(h, [job[h] EXCEPT !.left = @ - 1])
       \/ cart' \in {cart, Append(cart, job[h].need)} /\ Go(h, "failed")
    /\ UNCHANGED <<provider, tickets, dbVars, told>>

\* submit_order takes all that is in the cart of the account, whoever put it
\* there; of an empty cart there is nothing to order.
SubmitCart(h) ==
    /\ At(h, "fill") /\ job[h].left = 0
    /\ \/ /\ cart # <<>>
          /\ cart' = <<>>
          /\ \/ /\ Raise(h, cart, "no")
                /\ Set(h, [job[h] EXCEPT !.at = "describe",
                                         !.ticket = Len(tickets) + 1])
             \/ Raise(h, cart, "answer") /\ Go(h, "failed")
       \/ Go(h, "failed") /\ UNCHANGED <<cart, tickets>>
    /\ UNCHANGED <<provider, dbVars, told>>

\* describeOrder reads the items back: their number must be that of the lines.
DescribeOrder(h) ==
    /\ At(h, "describe")
    /\ LET t == job[h].ticket IN
       \/ /\ Len(tickets[t].items) = LinesOf[job[h].need]
          /\ Go(h, "answered")
          /\ UNCHANGED tickets
       \/ /\ tickets' = [tickets EXCEPT ![t].lost = "answer"]
          /\ Set(h, [job[h] EXCEPT !.at = "failed", !.ticket = NoTicket])
    /\ UNCHANGED <<provider, cart, dbVars, told>>

Order(h) == OrderRefused(h) \/ OrderAtOnce(h) \/ CheckCart(h) \/ AddToCart(h)
            \/ SubmitCart(h) \/ DescribeOrder(h)

-----------------------------------------------------------------------------
(* The mirror, and the failure queue. *)

\* Both columns of requests that name a REQ or an RITM of ServiceNow.
Mirrored(t) == \E r \in requests : r.sys = t \/ r.ritm = t

\* A request the platform raised itself: the REQ and its RITMs are new.
NewMirror(n, t) == [sys |-> t, need |-> n, lines |-> LinesOf[n], ritm |-> t]

\* The operator is not told about work that has no operator.
Tell(h, answer) ==
    told' = IF job[h].op = "create"
            THEN [told EXCEPT ![job[h].need] = answer] ELSE told

\* OutboundFailureService.record: it never throws, so the row may be missing.
Record(kind, n, ref) ==
    /\ Len(rows) < MaxRows
    /\ rows' = Append(rows, [kind |-> kind, need |-> n, ref |-> ref,
                             status |-> "open"])

\* An operator submits a form, for the first time or as the 503 told them to.
Create(h, f) ==
    /\ told[f] \in {"nothing", "retry"}
    /\ ~\E g \in Handlers : job[g].op = "create" /\ ~At(g, "idle") /\ job[g].need = f
    /\ Start(h, [Idle EXCEPT !.op = "create", !.at = "submit", !.need = f])
    /\ UNCHANGED <<worldVars, dbVars, told>>

\* The ticket exists: the mirror is written, or its failure is to be queued.
CreateMirror(h) ==
    /\ At(h, "answered") /\ job[h].op = "create"
    /\ LET t == job[h].ticket IN
       \/ /\ requests' = requests \cup {NewMirror(job[h].need, t)}
          /\ Tell(h, "done")
          /\ Done(h)
          /\ UNCHANGED tickets
       \/ /\ tickets' = [tickets EXCEPT ![t].lost = "write"]
          /\ Go(h, "queue")
          /\ UNCHANGED <<requests, told>>
    /\ UNCHANGED <<provider, cart, rows>>

\* Where a handler goes on after its failure was queued.
Queued(h) == IF job[h].op = "create" THEN Done(h) ELSE Go(h, "notify")

\* A submit that failed: nothing is said of a ticket ServiceNow may have raised.
QueueSubmit(h) ==
    /\ At(h, "failed") /\ job[h].op # "retry"
    /\ Record("submit", job[h].need, NoTicket) \/ UNCHANGED rows
    /\ Tell(h, "retry")
    /\ Queued(h)
    /\ UNCHANGED <<worldVars, requests>>

\* Mutant: the whitelist of externalRef drops the REQ.
QueueMirrorBare(h) ==
    /\ At(h, "queue")
    /\ \/ Record("mirror", job[h].need, NoTicket) /\ UNCHANGED tickets
       \/ /\ tickets' = [tickets EXCEPT ![job[h].ticket].lost = "queue"]
          /\ UNCHANGED rows
    /\ Tell(h, "stop")
    /\ Queued(h)
    /\ UNCHANGED <<provider, cart, requests>>

\* A ticket that could not be recorded: the row carries it.
QueueMirror(h) ==
    /\ At(h, "queue")
    /\ \/ Record("mirror", job[h].need, job[h].ticket) /\ UNCHANGED tickets
       \/ /\ tickets' = [tickets EXCEPT ![job[h].ticket].lost = "queue"]
          /\ UNCHANGED rows
    /\ Tell(h, "stop")
    /\ Queued(h)
    /\ UNCHANGED <<provider, cart, requests>>

-----------------------------------------------------------------------------
(* The operator and the queue. *)

\* Mutant: a resolved row can be retried as well.
RetryAny(h, k) ==
    /\ Start(h, [Idle EXCEPT !.op = "retry", !.need = rows[k].need, !.row = k,
                    !.ticket = rows[k].ref,
                    !.at = IF rows[k].kind = "submit" THEN "submit" ELSE "find"])
    /\ UNCHANGED <<worldVars, dbVars, told>>

\* requireOpen lets an abandoned row through; the kind says what a repair is.
Retry(h, k) ==
    /\ rows[k].status # "resolved"
    /\ Start(h, [Idle EXCEPT !.op = "retry", !.need = rows[k].need, !.row = k,
                    !.ticket = rows[k].ref,
                    !.at = IF rows[k].kind = "submit" THEN "submit" ELSE "find"])
    /\ UNCHANGED <<worldVars, dbVars, told>>

\* Mutant: the repair of a submit counts as done when the ticket is there.
SkipMirror(h) ==
    /\ At(h, "answered") \/ At(h, "find")
    /\ job[h].op = "retry"
    /\ Go(h, "resolve")
    /\ UNCHANGED <<worldVars, dbVars, told>>

\* writeMirror looks its REQ up first: a mirror that exists is a repair done.  A
\* row that carries no REQ is not repaired at all.
FindMirror(h) ==
    /\ At(h, "answered") \/ At(h, "find")
    /\ job[h].op = "retry"
    /\ Go(h, IF job[h].ticket = NoTicket THEN "failRow"
             ELSE IF \E r \in requests : r.sys = job[h].ticket THEN "resolve"
             ELSE "mirror")
    /\ UNCHANGED <<worldVars, dbVars, told>>

\* ... and creates it.  The unique REQ, or the database, may refuse: then the
\* repair has failed, and of a new ticket nothing is kept.
RepairMirror(h) ==
    /\ At(h, "mirror")
    /\ LET t == job[h].ticket IN
       \/ /\ ~\E r \in requests : r.sys = t
          /\ requests' = requests \cup {NewMirror(job[h].need, t)}
          /\ Go(h, "resolve")
          /\ UNCHANGED tickets
       \/ /\ tickets' = IF rows[job[h].row].kind = "submit"
                        THEN [tickets EXCEPT ![t].lost = "repair"] ELSE tickets
          /\ Go(h, "failRow")
          /\ UNCHANGED requests
    /\ UNCHANGED <<provider, cart, rows, told>>

\* markAttemptFailed: the attempts are counted, the status stays.
FailRow(h) ==
    /\ At(h, "failRow") \/ (At(h, "failed") /\ job[h].op = "retry")
    /\ Done(h)
    /\ UNCHANGED <<worldVars, dbVars, told>>

\* The update by id, whatever the status has become meanwhile; or a 500.
Mark(h, status) ==
    /\ \/ rows' = [rows EXCEPT ![job[h].row].status = status]
       \/ UNCHANGED rows
    /\ Done(h)
    /\ UNCHANGED <<worldVars, requests, told>>

\* markResolved comes after the repair.
Resolve(h) == At(h, "resolve") /\ Mark(h, "resolved")

\* An operator judges that no repair is needed; the write comes after the read.
Judge(h, k, op) ==
    /\ At(h, "idle")
    /\ Start(h, [Idle EXCEPT !.op = op, !.at = op, !.row = k,
                             !.need = rows[k].need])
    /\ UNCHANGED <<worldVars, dbVars, told>>

StartAbandon(h, k) == rows[k].status # "resolved" /\ Judge(h, k, "abandon")
WriteAbandon(h)    == At(h, "abandon") /\ Mark(h, "abandoned")

StartReopen(h, k) == rows[k].status = "abandoned" /\ Judge(h, k, "reopen")
WriteReopen(h)    == At(h, "reopen") /\ Mark(h, "open")

Operate(h) ==
    \/ \E f \in Forms : Create(h, f)
    \/ \E k \in DOMAIN rows : Retry(h, k) \/ StartAbandon(h, k) \/ StartReopen(h, k)
    \/ CreateMirror(h) \/ QueueSubmit(h) \/ QueueMirror(h)
    \/ FindMirror(h) \/ RepairMirror(h) \/ FailRow(h) \/ Resolve(h)
    \/ WriteAbandon(h) \/ WriteReopen(h)

\* A ticket some handler holds and has not written down yet.
InHand(t) == \E h \in Handlers : ~At(h, "idle") /\ job[h].ticket = t

\* The process stops: what the handlers knew is gone, the cart is not.
Crash ==
    /\ \E h \in Handlers : ~At(h, "idle")
    /\ job' = [h \in Handlers |-> Idle]
    /\ tickets' = [t \in DOMAIN tickets |->
         IF InHand(t) /\ ~Mirrored(t) /\ ~\E k \in DOMAIN rows : rows[k].ref = t
         THEN [tickets[t] EXCEPT !.lost = "crash"] ELSE tickets[t]]
    \* the browser of the operator sees an error it cannot tell from a 503
    /\ told' = [f \in Forms |->
         IF \E h \in Handlers : job[h].op = "create" /\ ~At(h, "idle")
                                /\ job[h].need = f
         THEN "retry" ELSE told[f]]
    /\ UNCHANGED <<provider, cart, dbVars, begun>>
=============================================================================
