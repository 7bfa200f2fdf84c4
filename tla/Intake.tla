------------------------------- MODULE Intake -------------------------------
(***************************************************************************)
(* Onboardings that arrive (intake.controller.ts, intake-adapter.service.  *)
(* ts, intake.service.ts, servicenow-import.service.ts,                    *)
(* intake-notification.service.ts), composed with the failure queue of     *)
(* Submission.                                                             *)
(*                                                                         *)
(* n8n delivers a REQ of ServiceNow on one of three routes, again when it  *)
(* heard nothing, and perhaps twice at once; an administrator may import   *)
(* the same REQ.  Each delivery looks the REQ up, creates it or finds it,  *)
(* audits, and notifies.  On the flat route the platform also raises the   *)
(* licence request in ServiceNow and writes its RITM on the lines.         *)
(***************************************************************************)
EXTENDS Submission

CONSTANT
    Routes         \* the routes n8n uses: a subset of IntakeRoutes

IntakeRoutes == {"flat", "native", "canonical", "import"}

ASSUME IntakeAssumption == Routes \subseteq IntakeRoutes

VARIABLES
    handled,     \* onboardings whose flat delivery was answered with success
    audits,      \* audit rows that say the platform or an admin authored it
    mails,       \* notifications of each onboarding, sent or queued
    met,         \* history: onboardings two deliveries worked on at once
    rowLost,     \* history: needs whose failure row could not be written
    repaired,    \* history: needs whose submit row an operator retried
    crowded,     \* history: two handlers filled the cart at the same time
    rowMet       \* history: rows two handlers worked on at once, and rows whose
                 \* repair was done and never marked

historyVars == <<met, rowLost, repaired, crowded, rowMet>>
intakeVars  == <<handled, audits, mails>>
vars == <<submissionVars, intakeVars, historyVars>>

TypeOK ==
    /\ SubmissionTypeOK
    /\ handled \subseteq Onboardings
    /\ audits \in [Onboardings -> Nat] /\ mails \in [Onboardings -> Nat]
    /\ met \subseteq Onboardings
    /\ rowLost \subseteq Needs /\ repaired \subseteq Needs
    /\ crowded \in BOOLEAN
    /\ rowMet \subseteq DOMAIN rows

Init ==
    /\ SubmissionInit
    /\ handled = {}
    /\ audits = [i \in Onboardings |-> 0]
    /\ mails = [i \in Onboardings |-> 0]
    /\ met = {} /\ rowLost = {} /\ repaired = {} /\ crowded = FALSE /\ rowMet = {}

Busy(g) == ~At(g, "idle")
Delivering(g, i) == Busy(g) /\ job[g].op \in IntakeRoutes /\ job[g].need = i

-----------------------------------------------------------------------------
(* A delivery.  known: the REQ was there when the side effects were decided. *)

\* n8n pushes a REQ, with the shared key.
Deliver(h, i, route) ==
    /\ route # "import"
    /\ Start(h, [Idle EXCEPT !.op = route, !.at = "check", !.need = i])
    /\ UNCHANGED <<worldVars, dbVars, told, intakeVars>>

\* An administrator imports it; ServiceNow is read again, not the browser's copy.
Import(h, i) ==
    /\ Start(h, [Idle EXCEPT !.op = "import", !.at = "check", !.need = i])
    /\ UNCHANGED <<worldVars, dbVars, told, intakeVars>>

\* A department, a licence code or a REQ that does not resolve to one record, or
\* a ServiceNow that cannot be asked: refused before anything is written.
RefuseDelivery(h) ==
    /\ At(h, "check") /\ job[h].op # "import"
    /\ Done(h)
    /\ UNCHANGED <<worldVars, dbVars, told, intakeVars>>

\* An item of which the platform could not find the one task to close.
RefuseImport(h) ==
    /\ At(h, "check") /\ job[h].op = "import"
    /\ Done(h)
    /\ UNCHANGED <<worldVars, dbVars, told, intakeVars>>

Exists(i) == \E r \in requests : r.sys = i
RequestOf(i) == CHOOSE r \in requests : r.sys = i

\* The request the platform already has, or not: decides audit and mail.
CheckExisting(h) ==
    /\ At(h, "check")
    /\ Set(h, [job[h] EXCEPT !.at = "intake", !.known = Exists(job[h].need)])
    /\ UNCHANGED <<worldVars, dbVars, told, intakeVars>>

\* After the audit: the licence request on the flat route, and the mail.
AfterAudit(h) == IF job[h].op = "flat" THEN "lines" ELSE "notify"

\* Only injected lines and imports are audited.
Audited(h, r) ==
    \/ job[h].op = "import"
    \/ job[h].op \in {"flat", "native"} /\ r.lines > 0 /\ r.ritm # Given

AfterIntake(h, r) ==
    IF Audited(h, r) /\ ~job[h].known THEN "audit" ELSE AfterAudit(h)

\* IntakeService.intake: a REQ that is there is returned ...
FindRequest(h) ==
    /\ At(h, "intake")
    /\ Go(h, IF Exists(job[h].need) THEN AfterIntake(h, RequestOf(job[h].need))
             ELSE "insert")
    /\ UNCHANGED <<worldVars, dbVars, told, intakeVars>>

\* What a delivery brings.  The flat route has no licence line: the default SKU
\* is injected when one is configured and active.  The native route injects it
\* when the list is empty.  Lines that were stated carry their RITM, which the
\* canonical contract leaves optional.
Arrivals(i, route) ==
    LET request(lines, ritm) ==
            [sys |-> i, need |-> i, lines |-> lines, ritm |-> ritm]
        injected == {request(LinesOf[i], NoTicket), request(0, NoTicket)}
        stated   == {request(LinesOf[i], Given)} IN
    CASE route = "flat"      -> injected
      [] route = "native"    -> injected \cup stated
      [] route = "canonical" -> stated \cup {request(LinesOf[i], NoTicket)}
      [] route = "import"    -> stated

\* Mutant: the REQ of a request is not unique.
InsertTwice(h) ==
    /\ At(h, "insert")
    /\ \/ \E r \in Arrivals(job[h].need, job[h].op) :
             /\ requests' = requests \cup {r}
             /\ Go(h, AfterIntake(h, r))
       \/ Done(h) /\ UNCHANGED requests
    /\ UNCHANGED <<worldVars, rows, told, intakeVars>>

\* ... and one that is not is created.  When another delivery was faster, the
\* unique REQ refuses and the winner's request is returned (P2002).
InsertRequest(h) ==
    /\ At(h, "insert")
    /\ LET i == job[h].need IN
       \/ /\ ~Exists(i)
          /\ \E r \in Arrivals(i, job[h].op) :
                /\ requests' = requests \cup {r}
                /\ Go(h, AfterIntake(h, r))
       \/ /\ Exists(i)
          /\ Go(h, AfterIntake(h, RequestOf(i)))
          /\ UNCHANGED requests
       \/ Done(h) /\ UNCHANGED requests          \* the database refused: 500
    /\ UNCHANGED <<worldVars, rows, told, intakeVars>>

WriteAudit(h) ==
    /\ \/ /\ audits' = [audits EXCEPT ![job[h].need] = @ + 1]
          /\ Go(h, AfterAudit(h))
       \/ Done(h) /\ UNCHANGED audits
    /\ UNCHANGED <<worldVars, dbVars, told, handled, mails>>

\* auditInjection has a transaction of its own: when it fails the delivery is
\* answered with a 500, and nothing after it is done.
AuditInjection(h) == At(h, "audit") /\ job[h].op # "import" /\ WriteAudit(h)

\* So has the audit of the import.
AuditImport(h) == At(h, "audit") /\ job[h].op = "import" /\ WriteAudit(h)

\* Mutant: every push raises the licence request.
ReadLinesBlind(h) ==
    /\ At(h, "lines")
    /\ Go(h, IF RequestOf(job[h].need).lines = 0 THEN "notify" ELSE "submit")
    /\ UNCHANGED <<worldVars, dbVars, told, intakeVars>>

\* raiseLicenceRequest: nothing to ask for, or an RITM is there already.
ReadLines(h) ==
    /\ At(h, "lines")
    /\ LET r == RequestOf(job[h].need) IN
       Go(h, IF r.lines = 0 \/ r.ritm # NoTicket THEN "notify" ELSE "submit")
    /\ UNCHANGED <<worldVars, dbVars, told, intakeVars>>

\* The RITMs and the REQ of the ticket, on the request, in one transaction.
WriteRitm(h) ==
    /\ At(h, "answered") /\ job[h].op = "flat"
    /\ LET r == RequestOf(job[h].need)
           t == job[h].ticket IN
       \/ /\ requests' = (requests \ {r}) \cup {[r EXCEPT !.ritm = t]}
          /\ Go(h, "notify")
          /\ UNCHANGED tickets
       \/ /\ tickets' = [tickets EXCEPT ![t].lost = "write"]
          /\ Go(h, "queue")
          /\ UNCHANGED requests
    /\ UNCHANGED <<provider, cart, rows, told, intakeVars>>

\* notifyNewIntake writes to the OpCo's people and the operations mailbox; what
\* cannot be sent is queued, and nothing of it fails the delivery.
Mail(i) == mails' = [mails EXCEPT ![i] = @ + 1]

Answer(h) ==
    /\ handled' = IF job[h].op = "flat" THEN handled \cup {job[h].need} ELSE handled
    /\ Done(h)

\* Mutant: every delivery sends the mail.
NotifyAlways(h) ==
    /\ At(h, "notify")
    /\ Mail(job[h].need)
    /\ Answer(h)
    /\ UNCHANGED <<worldVars, dbVars, told, audits>>

\* Only an onboarding nobody had before is announced; an import never is.
Notify(h) ==
    /\ At(h, "notify")
    /\ IF job[h].known \/ job[h].op = "import" THEN UNCHANGED mails
       ELSE Mail(job[h].need)
    /\ Answer(h)
    /\ UNCHANGED <<worldVars, dbVars, told, audits>>

Receive(h) ==
    \/ \E i \in Onboardings :
          (\E route \in Routes : Deliver(h, i, route)) \/ Import(h, i)
    \/ RefuseDelivery(h) \/ RefuseImport(h)
    \/ CheckExisting(h) \/ FindRequest(h) \/ InsertRequest(h)
    \/ AuditInjection(h) \/ AuditImport(h)
    \/ ReadLines(h) \/ WriteRitm(h) \/ Notify(h)

-----------------------------------------------------------------------------
\* What the history records of a step, from the handlers before and after it.
Remember ==
    /\ met' = met \cup {i \in Onboardings :
         \E g, h \in Handlers : g # h /\ Delivering(g, i)' /\ Delivering(h, i)'}
    /\ rowLost' = rowLost \cup {job[h].need : h \in {g \in Handlers :
         /\ job[g].at \in {"failed", "queue"} /\ job[g].op # "retry"
         /\ job'[g] # job[g] /\ rows' = rows}}
    /\ repaired' = repaired \cup {job'[h].need : h \in {g \in Handlers :
         job'[g].op = "retry" /\ job'[g].at = "submit"}}
    /\ crowded' = (crowded \/ \E g, h \in Handlers : g # h /\ g \in InCart' /\ h \in InCart')
    /\ rowMet' = rowMet \cup {k \in DOMAIN rows :
         \E g, h \in Handlers : g # h /\ Busy(g)' /\ Busy(h)'
                                /\ job'[g].row = k /\ job'[h].row = k}
         \cup {job[h].row : h \in {g \in Handlers :
                 At(g, "resolve") /\ ~At(g, "resolve")' /\ rows' = rows}}

Next ==
    /\ \/ \E h \in Handlers :
             \/ (Order(h) \/ Operate(h)) /\ UNCHANGED intakeVars
             \/ Receive(h)
       \/ Crash /\ UNCHANGED intakeVars
    /\ Remember

Spec == Init /\ [][Next]_vars

-----------------------------------------------------------------------------
(* Properties. *)

TicketsFor(n) == {t \in DOMAIN tickets : tickets[t].for = n}

\* Somebody lost track of a ticket of n: its answer, its write or its handler.
Untracked(n) == \E t \in TicketsFor(n) : tickets[t].lost # "no"

\* An onboarding costs one ticket however often n8n delivers it, on whatever
\* route (raiseLicenceRequest) - unless two deliveries met, the platform lost
\* track of a ticket, or an operator repaired the failed submit from the queue.
RaisedOnce ==
    \A i \in Onboardings :
        Cardinality(TicketsFor(i)) > 1 =>
            i \in met \/ Untracked(i) \/ i \in repaired

\* A ticket whose answer arrived stays within reach: it is mirrored, a handler
\* holds it, or a mirror row carries it.  Lost are only tickets whose row the
\* database refused too, that a crash caught, that a repair raised and could not
\* write (OutboundFailureService.record, repairSubmit), or whose RITM a second
\* delivery at the same time replaced by its own.
AnsweredTicketIsTraceable ==
    \A t \in DOMAIN tickets :
        \/ tickets[t].lost \in {"answer", "queue", "repair", "crash"}
        \/ Mirrored(t)
        \/ InHand(t)
        \/ \E k \in DOMAIN rows : rows[k].kind = "mirror" /\ rows[k].ref = t
        \/ tickets[t].for \in met

\* A flat delivery that n8n has seen succeed left exactly one request, and the
\* licence was asked for: its lines have an RITM, there is none to ask for, or
\* a row of the queue says what is missing - unless even that was refused.
HandledMeansAskedFor ==
    \A i \in handled :
        /\ Cardinality({r \in requests : r.sys = i}) = 1
        /\ \/ RequestOf(i).lines = 0 \/ RequestOf(i).ritm # NoTicket
           \/ \E k \in DOMAIN rows : rows[k].need = i
           \/ i \in rowLost

\* A row that is resolved has its mirror: a request made from a ticket that was
\* raised for it, the very ticket the row carries if it carries one.
ResolvedMeansMirrored ==
    \A k \in DOMAIN rows : rows[k].status = "resolved" =>
        \E r \in requests :
            /\ r.need = rows[k].need
            /\ r.sys \in DOMAIN tickets
            /\ rows[k].ref # NoTicket => r.sys = rows[k].ref

\* submit_order takes the whole cart: an order never carries items somebody else
\* left there (orderViaCart), unless two submissions filled the cart at once.
OrderedItemsAreOwn ==
    \A t \in DOMAIN tickets :
        \/ \A k \in DOMAIN tickets[t].items : tickets[t].items[k] = tickets[t].for
        \/ crowded

\* However a row is abandoned, reopened and retried, its repairs raise one ticket
\* that is kept, unless two handlers worked on the row at once or a repair that
\* was done was never marked, because the update failed or the process stopped.
RowRaisesOnce ==
    \A k \in DOMAIN rows :
        Cardinality({t \in DOMAIN tickets :
                        tickets[t].row = k /\ tickets[t].lost = "no"}) > 1
            => k \in rowMet

\* One mail and one audit row per onboarding, unless two deliveries met.
ToldOnce ==
    \A i \in Onboardings : i \in met \/ (mails[i] <= 1 /\ audits[i] <= 1)

\* What intake-adapter.service.ts:250 says of raiseLicenceRequest: ONCE per
\* request.  The repair of the queue must not make the next delivery raise again.
OncePerRequest ==
    \A i \in Onboardings :
        Cardinality(TicketsFor(i)) > 1 => i \in met \/ Untracked(i)
=============================================================================
