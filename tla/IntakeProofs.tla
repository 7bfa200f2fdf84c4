---------------------------- MODULE IntakeProofs ----------------------------
(***************************************************************************)
(* Proofs about Intake, and with it Submission, for any sets of forms,     *)
(* onboardings, routes and handlers, and any bounds.                       *)
(***************************************************************************)
EXTENDS Intake, FiniteSetTheorems, SequenceTheorems, TLAPS

-----------------------------------------------------------------------------
(* What a handler's step does, in kinds: which table it changes, where the *)
(* handler comes from and where it goes.                                   *)

Still   == UNCHANGED <<tickets, requests, rows, cart>>
Same(h) == /\ job'[h].op = job[h].op /\ job'[h].need = job[h].need
           /\ job'[h].row = job[h].row /\ job'[h].known = job[h].known

\* h goes on to a point, with what it has in hand.
Onto(h, where) == Same(h) /\ job'[h].ticket = job[h].ticket /\ job'[h].at = where

Alone(h) == \A g \in Handlers \ {h} : job'[g] = job[g]

BeginsOn(h, k) ==
    /\ job'[h].row = k /\ job'[h].need = rows[k].need /\ rows[k].status # "resolved"
    /\ \/ /\ job'[h].op = "retry" /\ job'[h].ticket = rows[k].ref
          /\ job'[h].at = IF rows[k].kind = "submit" THEN "submit" ELSE "find"
       \/ /\ job'[h].op \in {"abandon", "reopen"} /\ job'[h].at = job'[h].op
          /\ job'[h].ticket = NoTicket

Begins(h) ==
    /\ At(h, "idle") /\ Still
    /\ \/ /\ job'[h].op \in IntakeRoutes /\ job'[h].need \in Onboardings
          /\ job'[h].at = "check" /\ job'[h].row = 0 /\ job'[h].ticket = NoTicket
       \/ /\ job'[h].op = "create" /\ job'[h].need \in Forms
          /\ job'[h].at = "submit" /\ job'[h].row = 0 /\ job'[h].ticket = NoTicket
       \/ \E k \in DOMAIN rows : BeginsOn(h, k)

Ends(h) ==
    /\ job[h].at \in {"check", "insert", "audit", "failRow", "failed"}
    /\ At(h, "failed") => job[h].op = "retry"
    /\ job'[h] = Idle /\ Still

\* Within an order, before or without a ticket.
Fills(h) ==
    /\ UNCHANGED <<tickets, requests, rows>> /\ Same(h) /\ job'[h].ticket = job[h].ticket
    /\ \/ At(h, "submit") /\ job'[h].at = "failed" /\ cart' = cart
       \/ At(h, "submit") /\ job'[h].at = "fill" /\ cart = <<>> /\ cart' = cart
       \/ /\ At(h, "fill") /\ job'[h].at \in {"fill", "failed"}
          /\ cart' \in {cart, Append(cart, job[h].need)}

Describes(h) == At(h, "describe") /\ Still /\ Onto(h, "answered")

\* A ticket is raised, and the answer arrives or is lost.
Raises(h) ==
    \E items, lost :
       /\ Len(tickets) < MaxTickets
       /\ tickets' = Append(tickets, [for |-> job[h].need, items |-> items,
                                      row |-> job[h].row, lost |-> lost])
       /\ UNCHANGED <<requests, rows>> /\ Same(h)
       /\ \/ /\ At(h, "submit") /\ cart' = cart
             /\ items = [k \in 1 .. LinesOf[job[h].need] |-> job[h].need]
          \/ At(h, "fill") /\ cart' = <<>> /\ items = cart
       /\ \/ /\ lost = "no" /\ job'[h].ticket = Len(tickets) + 1
             /\ job'[h].at \in {"answered", "describe"}
          \/ lost = "answer" /\ job'[h].ticket = job[h].ticket /\ job'[h].at = "failed"

\* h has no record of its ticket.
Loses(h) ==
    \E x :
       /\ tickets' = [tickets EXCEPT ![job[h].ticket].lost = x]
       /\ UNCHANGED <<requests, rows, cart>>
       /\ \/ /\ At(h, "describe") /\ x = "answer" /\ Same(h)
             /\ job'[h].at = "failed" /\ job'[h].ticket = NoTicket
          \/ /\ At(h, "answered") /\ x = "write" /\ job[h].op \in {"create", "flat"}
             /\ Onto(h, "queue")
          \/ /\ At(h, "queue") /\ x = "queue"
             /\ IF job[h].op = "create" THEN job'[h] = Idle ELSE Onto(h, "notify")
          \/ /\ At(h, "mirror") /\ x = "repair" /\ rows[job[h].row].kind = "submit"
             /\ Onto(h, "failRow")

\* A repair looks for its mirror, or does not get it.
Checks(h) ==
    /\ Still
    /\ \/ /\ job[h].at \in {"answered", "find"} /\ job[h].op = "retry"
          /\ Onto(h, IF job[h].ticket = NoTicket THEN "failRow"
                     ELSE IF \E r \in requests : r.sys = job[h].ticket THEN "resolve"
                     ELSE "mirror")
       \/ At(h, "mirror") /\ rows[job[h].row].kind # "submit" /\ Onto(h, "failRow")

Mirrors(h) ==
    /\ requests' = requests \cup {NewMirror(job[h].need, job[h].ticket)}
    /\ UNCHANGED <<tickets, rows, cart>>
    /\ \/ At(h, "answered") /\ job[h].op = "create" /\ job'[h] = Idle
       \/ /\ At(h, "mirror") /\ ~\E r \in requests : r.sys = job[h].ticket
          /\ Onto(h, "resolve")

\* A failure is queued, or its row is refused.
Records(h) ==
    /\ UNCHANGED <<tickets, requests, cart>>
    /\ \E kind, ref :
          /\ \/ kind = "submit" /\ ref = NoTicket /\ At(h, "failed") /\ job[h].op # "retry"
             \/ kind = "mirror" /\ ref = job[h].ticket /\ At(h, "queue")
          /\ \/ /\ Len(rows) < MaxRows
                /\ rows' = Append(rows, [kind |-> kind, need |-> job[h].need, ref |-> ref,
                                         status |-> "open"])
             \/ kind = "submit" /\ rows' = rows
    /\ IF job[h].op = "create" THEN job'[h] = Idle ELSE Onto(h, "notify")

Marks(h) ==
    /\ job'[h] = Idle /\ UNCHANGED <<tickets, requests, cart>>
    /\ \E status :
          /\ \/ At(h, "resolve") /\ status = "resolved"
             \/ At(h, "abandon") /\ status = "abandoned"
             \/ At(h, "reopen") /\ status = "open"
          /\ rows' = [rows EXCEPT ![job[h].row].status = status] \/ rows' = rows

\* A delivery on its way.
Looks(h) ==
    /\ Still
    /\ \/ /\ At(h, "check") /\ job'[h].at = "intake" /\ job'[h].known = Exists(job[h].need)
          /\ job'[h].op = job[h].op /\ job'[h].need = job[h].need
          /\ job'[h].row = job[h].row /\ job'[h].ticket = job[h].ticket
       \/ /\ job[h].at \in {"intake", "insert"} /\ Exists(job[h].need)
          /\ Onto(h, AfterIntake(h, RequestOf(job[h].need)))
       \/ At(h, "intake") /\ ~Exists(job[h].need) /\ Onto(h, "insert")
       \/ At(h, "audit") /\ Onto(h, AfterAudit(h))
       \/ /\ At(h, "lines")
          /\ LET r == RequestOf(job[h].need) IN
             Onto(h, IF r.lines = 0 \/ r.ritm # NoTicket THEN "notify" ELSE "submit")

Inserts(h) ==
    \E r \in Arrivals(job[h].need, job[h].op) :
       /\ At(h, "insert") /\ ~Exists(job[h].need)
       /\ requests' = requests \cup {r} /\ UNCHANGED <<tickets, rows, cart>>
       /\ Onto(h, AfterIntake(h, r))

WritesRitm(h) ==
    \E r : /\ r = RequestOf(job[h].need) /\ At(h, "answered") /\ job[h].op = "flat"
           /\ requests' = (requests \ {r}) \cup {[r EXCEPT !.ritm = job[h].ticket]}
           /\ UNCHANGED <<tickets, rows, cart>>
           /\ Onto(h, "notify")

Answers(h) == At(h, "notify") /\ job'[h] = Idle /\ Still

Step(h) == \/ Order(h) \/ Operate(h) \/ Receive(h)

\* What the handlers do.
LEMMA JobNext ==
    ASSUME job \in [Handlers -> Job], NEW h \in Handlers
    PROVE  /\ \A w : Go(h, w) => Alone(h) /\ Onto(h, w)
           /\ Done(h) => Alone(h) /\ job'[h] = Idle
           /\ \A work : Set(h, work) => Alone(h) /\ job'[h] = work
           /\ \A work : Start(h, work) => Alone(h) /\ job'[h] = work /\ At(h, "idle")
<1> HIDE DEF Idle
<1>1. \A work : job' = [job EXCEPT ![h] = work] => Alone(h) /\ job'[h] = work
  BY DEF Alone
<1>2. \A work : Set(h, work) => Alone(h) /\ job'[h] = work
  BY <1>1 DEF Set
<1>3. ASSUME NEW w, Go(h, w) PROVE Alone(h) /\ Onto(h, w)
  <2>1. Alone(h) /\ job'[h] = [job[h] EXCEPT !.at = w]
    BY <1>2, <1>3 DEF Go
  <2> QED BY <2>1 DEF Onto, Same, Job
<1>4. Done(h) => Alone(h) /\ job'[h] = Idle
  BY <1>2 DEF Done
<1>5. \A work : Start(h, work) => Alone(h) /\ job'[h] = work /\ At(h, "idle")
  BY <1>1 DEF Start
<1> QED BY <1>2, <1>3, <1>4, <1>5

\* The kinds of an order's steps.
LEMMA OrderKinds ==
    ASSUME job \in [Handlers -> Job], NEW h \in Handlers, Order(h)
    PROVE  Alone(h) /\ (Fills(h) \/ Raises(h) \/ Describes(h) \/ Loses(h))
<1>0. job[h] \in Job
  OBVIOUS
<1>1. CASE OrderRefused(h)
  BY <1>1, JobNext DEF OrderRefused, worldVars, dbVars, Fills, Onto
<1>2. CASE OrderAtOnce(h)
  <2> DEFINE items == [k \in 1 .. LinesOf[job[h].need] |-> job[h].need]
  <2>1. /\ At(h, "submit") /\ UNCHANGED <<requests, rows>> /\ cart' = cart
        /\ \/ /\ Raise(h, items, "no")
              /\ Set(h, [job[h] EXCEPT !.at = "answered", !.ticket = Len(tickets) + 1])
           \/ Raise(h, items, "answer") /\ Go(h, "failed")
    BY <1>2 DEF OrderAtOnce, dbVars
  <2> HIDE DEF items
  <2>2. CASE /\ Raise(h, items, "no")
             /\ Set(h, [job[h] EXCEPT !.at = "answered", !.ticket = Len(tickets) + 1])
    <3>1. Alone(h) /\ job'[h] = [job[h] EXCEPT !.at = "answered", !.ticket = Len(tickets) + 1]
      BY <2>2, JobNext
    <3>2. Same(h) /\ job'[h].at = "answered" /\ job'[h].ticket = Len(tickets) + 1
      BY <1>0, <3>1 DEF Same, Job
    <3> QED BY <2>1, <2>2, <3>1, <3>2 DEF Raise, Raises, items
  <2>3. CASE Raise(h, items, "answer") /\ Go(h, "failed")
    <3>1. Alone(h) /\ Onto(h, "failed")
      BY <2>3, JobNext
    <3> QED BY <2>1, <2>3, <3>1 DEF Raise, Raises, Onto, items
  <2> QED BY <2>1, <2>2, <2>3
<1>3. CASE CheckCart(h)
  <2>1. /\ At(h, "submit") /\ cart = <<>> /\ cart' = cart /\ UNCHANGED <<tickets, requests, rows>>
        /\ Set(h, [job[h] EXCEPT !.at = "fill", !.left = LinesOf[job[h].need]])
    BY <1>3 DEF CheckCart, worldVars, dbVars
  <2>2. Alone(h) /\ job'[h] = [job[h] EXCEPT !.at = "fill", !.left = LinesOf[job[h].need]]
    BY <2>1, JobNext
  <2>3. Same(h) /\ job'[h].ticket = job[h].ticket /\ job'[h].at = "fill"
    BY <1>0, <2>2 DEF Same, Job
  <2> QED BY <2>1, <2>2, <2>3 DEF Fills
<1>4. CASE AddToCart(h)
  <2>1. /\ At(h, "fill") /\ UNCHANGED <<tickets, requests, rows>>
        /\ cart' \in {cart, Append(cart, job[h].need)}
        /\ Set(h, [job[h] EXCEPT !.left = job[h].left - 1]) \/ Go(h, "failed")
    BY <1>4 DEF AddToCart, dbVars
  <2>2. CASE Set(h, [job[h] EXCEPT !.left = job[h].left - 1])
    <3>1. Alone(h) /\ job'[h] = [job[h] EXCEPT !.left = job[h].left - 1]
      BY <2>2, JobNext
    <3>2. Same(h) /\ job'[h].ticket = job[h].ticket /\ job'[h].at = job[h].at
      BY <1>0, <3>1 DEF Same, Job
    <3> QED BY <2>1, <3>1, <3>2 DEF Fills, At
  <2>3. CASE Go(h, "failed")
    <3>1. Alone(h) /\ Onto(h, "failed")
      BY <2>3, JobNext
    <3> QED BY <2>1, <3>1 DEF Fills, Onto
  <2> QED BY <2>1, <2>2, <2>3
<1>5. CASE SubmitCart(h)
  <2>1. /\ At(h, "fill") /\ UNCHANGED <<requests, rows>>
        /\ \/ /\ cart' = <<>>
              /\ Raise(h, cart, "no")
              /\ Set(h, [job[h] EXCEPT !.at = "describe", !.ticket = Len(tickets) + 1])
           \/ cart' = <<>> /\ Raise(h, cart, "answer") /\ Go(h, "failed")
           \/ Go(h, "failed") /\ UNCHANGED <<cart, tickets>>
    BY <1>5 DEF SubmitCart, dbVars
  <2>2. CASE /\ cart' = <<>> /\ Raise(h, cart, "no")
             /\ Set(h, [job[h] EXCEPT !.at = "describe", !.ticket = Len(tickets) + 1])
    <3>1. Alone(h) /\ job'[h] = [job[h] EXCEPT !.at = "describe", !.ticket = Len(tickets) + 1]
      BY <2>2, JobNext
    <3>2. Same(h) /\ job'[h].at = "describe" /\ job'[h].ticket = Len(tickets) + 1
      BY <1>0, <3>1 DEF Same, Job
    <3> QED BY <2>1, <2>2, <3>1, <3>2 DEF Raise, Raises
  <2>3. CASE cart' = <<>> /\ Raise(h, cart, "answer") /\ Go(h, "failed")
    <3>1. Alone(h) /\ Onto(h, "failed")
      BY <2>3, JobNext
    <3> QED BY <2>1, <2>3, <3>1 DEF Raise, Raises, Onto
  <2>4. CASE Go(h, "failed") /\ UNCHANGED <<cart, tickets>>
    BY <2>1, <2>4, JobNext DEF Fills, Onto
  <2> QED BY <2>1, <2>2, <2>3, <2>4
<1>6. CASE DescribeOrder(h)
  <2>1. /\ At(h, "describe") /\ UNCHANGED <<requests, rows, cart>>
        /\ \/ Go(h, "answered") /\ UNCHANGED tickets
           \/ /\ tickets' = [tickets EXCEPT ![job[h].ticket].lost = "answer"]
              /\ Set(h, [job[h] EXCEPT !.at = "failed", !.ticket = NoTicket])
    BY <1>6 DEF DescribeOrder, dbVars
  <2>2. CASE Go(h, "answered") /\ UNCHANGED tickets
    BY <2>1, <2>2, JobNext DEF Describes, Still
  <2>3. CASE /\ tickets' = [tickets EXCEPT ![job[h].ticket].lost = "answer"]
             /\ Set(h, [job[h] EXCEPT !.at = "failed", !.ticket = NoTicket])
    <3>1. Alone(h) /\ job'[h] = [job[h] EXCEPT !.at = "failed", !.ticket = NoTicket]
      BY <2>3, JobNext
    <3>2. Same(h) /\ job'[h].at = "failed" /\ job'[h].ticket = NoTicket
      BY <1>0, <3>1 DEF Same, Job
    <3> QED BY <2>1, <2>3, <3>1, <3>2 DEF Loses
  <2> QED BY <2>1, <2>2, <2>3
<1> QED BY <1>1, <1>2, <1>3, <1>4, <1>5, <1>6 DEF Order

LEMMA IdleFields ==
    /\ Idle \in Job /\ Idle.at = "idle" /\ Idle.op = "create" /\ Idle.row = 0
    /\ Idle.ticket = NoTicket
<1>1. (CHOOSE n \in Needs : TRUE) \in Needs
  BY SubmissionAssumption
<1> QED BY <1>1, SubmissionAssumption DEF Idle, Job, Ops, Points

\* The kinds of an operator's steps.
LEMMA OperateKinds ==
    ASSUME job \in [Handlers -> Job], NEW h \in Handlers, Operate(h)
    PROVE  /\ Alone(h)
           /\ \/ Begins(h) \/ Mirrors(h) \/ Loses(h) \/ Records(h) \/ Checks(h)
              \/ Ends(h) \/ Marks(h)
<1> HIDE DEF Idle
<1>0. job[h] \in Job
  OBVIOUS
<1>1. ASSUME NEW f \in Forms, Create(h, f) PROVE Alone(h) /\ Begins(h)
  <2>1. /\ Alone(h) /\ At(h, "idle") /\ Still
        /\ job'[h] = [Idle EXCEPT !.op = "create", !.at = "submit", !.need = f]
    BY <1>1, JobNext DEF Create, worldVars, dbVars, Still
  <2>2. /\ job'[h].op = "create" /\ job'[h].at = "submit" /\ job'[h].need = f
        /\ job'[h].row = 0 /\ job'[h].ticket = NoTicket
    BY <2>1, IdleFields DEF Job
  <2> QED BY <2>1, <2>2 DEF Begins
<1>2. ASSUME NEW k \in DOMAIN rows, Retry(h, k) PROVE Alone(h) /\ Begins(h)
  <2> DEFINE at == IF rows[k].kind = "submit" THEN "submit" ELSE "find"
  <2> HIDE DEF at
  <2>1. /\ Alone(h) /\ At(h, "idle") /\ Still /\ rows[k].status # "resolved"
        /\ job'[h] = [Idle EXCEPT !.op = "retry", !.need = rows[k].need, !.row = k,
                                  !.ticket = rows[k].ref, !.at = at]
    BY <1>2, JobNext DEF Retry, worldVars, dbVars, Still, at
  <2>2. /\ job'[h].op = "retry" /\ job'[h].at = at /\ job'[h].need = rows[k].need
        /\ job'[h].row = k /\ job'[h].ticket = rows[k].ref
    BY <2>1, IdleFields DEF Job
  <2>3. BeginsOn(h, k)
    BY <2>1, <2>2 DEF BeginsOn, at
  <2> QED BY <2>1, <2>3 DEF Begins
<1>3. ASSUME NEW k \in DOMAIN rows, NEW op \in {"abandon", "reopen"}, Judge(h, k, op),
             rows[k].status # "resolved"
      PROVE  Alone(h) /\ Begins(h)
  <2>1. /\ Alone(h) /\ At(h, "idle") /\ Still
        /\ job'[h] = [Idle EXCEPT !.op = op, !.at = op, !.row = k, !.need = rows[k].need]
    BY <1>3, JobNext DEF Judge, worldVars, dbVars, Still
  <2>2. /\ job'[h].op = op /\ job'[h].at = op /\ job'[h].need = rows[k].need
        /\ job'[h].row = k /\ job'[h].ticket = NoTicket
    BY <2>1, IdleFields DEF Job
  <2>3. BeginsOn(h, k)
    BY <1>3, <2>2 DEF BeginsOn
  <2> QED BY <2>1, <2>3 DEF Begins
<1>4. ASSUME NEW k \in DOMAIN rows, StartAbandon(h, k) \/ StartReopen(h, k)
      PROVE  Alone(h) /\ Begins(h)
  BY <1>3, <1>4 DEF StartAbandon, StartReopen
<1>5. CASE CreateMirror(h)
  <2>1. /\ At(h, "answered") /\ job[h].op = "create" /\ UNCHANGED <<cart, rows>>
        /\ \/ /\ requests' = requests \cup {NewMirror(job[h].need, job[h].ticket)}
              /\ Done(h) /\ UNCHANGED tickets
           \/ /\ tickets' = [tickets EXCEPT ![job[h].ticket].lost = "write"]
              /\ Go(h, "queue") /\ UNCHANGED requests
    BY <1>5 DEF CreateMirror
  <2>2. CASE /\ requests' = requests \cup {NewMirror(job[h].need, job[h].ticket)}
             /\ Done(h) /\ UNCHANGED tickets
    BY <2>1, <2>2, JobNext DEF Mirrors
  <2>3. CASE /\ tickets' = [tickets EXCEPT ![job[h].ticket].lost = "write"]
             /\ Go(h, "queue") /\ UNCHANGED requests
    BY <2>1, <2>3, JobNext DEF Loses
  <2> QED BY <2>1, <2>2, <2>3
<1>6. Queued(h) => /\ Alone(h)
                   /\ IF job[h].op = "create" THEN job'[h] = Idle ELSE Onto(h, "notify")
  BY JobNext DEF Queued
<1>7. CASE QueueSubmit(h)
  <2>1. /\ At(h, "failed") /\ job[h].op # "retry" /\ UNCHANGED <<tickets, requests, cart>>
        /\ Queued(h)
        /\ Record("submit", job[h].need, NoTicket) \/ UNCHANGED rows
    BY <1>7 DEF QueueSubmit, worldVars
  <2> QED BY <1>6, <2>1 DEF Record, Records
<1>8. CASE QueueMirror(h)
  <2>1. /\ At(h, "queue") /\ UNCHANGED <<requests, cart>> /\ Queued(h)
        /\ \/ Record("mirror", job[h].need, job[h].ticket) /\ UNCHANGED tickets
           \/ /\ tickets' = [tickets EXCEPT ![job[h].ticket].lost = "queue"]
              /\ UNCHANGED rows
    BY <1>8 DEF QueueMirror
  <2>2. CASE Record("mirror", job[h].need, job[h].ticket) /\ UNCHANGED tickets
    BY <1>6, <2>1, <2>2 DEF Record, Records
  <2>3. CASE tickets' = [tickets EXCEPT ![job[h].ticket].lost = "queue"] /\ UNCHANGED rows
    BY <1>6, <2>1, <2>3 DEF Loses
  <2> QED BY <2>1, <2>2, <2>3
<1>9. CASE FindMirror(h)
  BY <1>9, JobNext DEF FindMirror, worldVars, dbVars, Still, Checks, At
<1>10. CASE RepairMirror(h)
  <2>1. /\ At(h, "mirror") /\ UNCHANGED <<cart, rows>>
        /\ \/ /\ ~\E r \in requests : r.sys = job[h].ticket
              /\ requests' = requests \cup {NewMirror(job[h].need, job[h].ticket)}
              /\ Go(h, "resolve") /\ UNCHANGED tickets
           \/ /\ tickets' = IF rows[job[h].row].kind = "submit"
                            THEN [tickets EXCEPT ![job[h].ticket].lost = "repair"] ELSE tickets
              /\ Go(h, "failRow") /\ UNCHANGED requests
    BY <1>10 DEF RepairMirror
  <2>2. CASE /\ ~\E r \in requests : r.sys = job[h].ticket
             /\ requests' = requests \cup {NewMirror(job[h].need, job[h].ticket)}
             /\ Go(h, "resolve") /\ UNCHANGED tickets
    BY <2>1, <2>2, JobNext DEF Mirrors
  <2>3. CASE /\ tickets' = IF rows[job[h].row].kind = "submit"
                           THEN [tickets EXCEPT ![job[h].ticket].lost = "repair"] ELSE tickets
             /\ Go(h, "failRow") /\ UNCHANGED requests
    <3>1. Alone(h) /\ Onto(h, "failRow")
      BY <2>3, JobNext
    <3>2. CASE rows[job[h].row].kind = "submit"
      BY <2>1, <2>3, <3>1, <3>2 DEF Loses
    <3>3. CASE rows[job[h].row].kind # "submit"
      BY <2>1, <2>3, <3>1, <3>3 DEF Checks, Still
    <3> QED BY <3>1, <3>2, <3>3
  <2> QED BY <2>1, <2>2, <2>3
<1>11. CASE FailRow(h)
  BY <1>11, JobNext DEF FailRow, worldVars, dbVars, Still, Ends, At
<1>12. ASSUME NEW status, Mark(h, status),
              \/ At(h, "resolve") /\ status = "resolved"
              \/ At(h, "abandon") /\ status = "abandoned"
              \/ At(h, "reopen") /\ status = "open"
       PROVE  Alone(h) /\ Marks(h)
  <2>1. /\ Done(h) /\ UNCHANGED <<tickets, requests, cart>>
        /\ rows' = [rows EXCEPT ![job[h].row].status = status] \/ rows' = rows
    BY <1>12 DEF Mark, worldVars
  <2> QED BY <1>12, <2>1, JobNext DEF Marks
<1>13. CASE Resolve(h) \/ WriteAbandon(h) \/ WriteReopen(h)
  BY <1>12, <1>13 DEF Resolve, WriteAbandon, WriteReopen
<1>14. CASE (\E f \in Forms : Create(h, f))
            \/ \E k \in DOMAIN rows : Retry(h, k) \/ StartAbandon(h, k) \/ StartReopen(h, k)
  BY <1>1, <1>2, <1>4, <1>14
<1> QED BY <1>5, <1>7, <1>8, <1>9, <1>10, <1>11, <1>13, <1>14 DEF Operate

\* The kinds of a delivery's steps.
LEMMA ReceiveKinds ==
    ASSUME job \in [Handlers -> Job], NEW h \in Handlers, Receive(h)
    PROVE  /\ Alone(h)
           /\ \/ Begins(h) \/ Ends(h) \/ Looks(h) \/ Inserts(h) \/ WritesRitm(h)
              \/ Loses(h) \/ Answers(h)
<1> HIDE DEF Idle
<1>0. job[h] \in Job /\ Routes \subseteq IntakeRoutes /\ "import" \in IntakeRoutes
  BY IntakeAssumption DEF IntakeRoutes
<1>1. ASSUME NEW i \in Onboardings, NEW op \in IntakeRoutes,
             Start(h, [Idle EXCEPT !.op = op, !.at = "check", !.need = i]),
             UNCHANGED <<worldVars, dbVars>>
      PROVE  Alone(h) /\ Begins(h)
  <2>1. /\ Alone(h) /\ At(h, "idle") /\ Still
        /\ job'[h] = [Idle EXCEPT !.op = op, !.at = "check", !.need = i]
    BY <1>1, JobNext DEF worldVars, dbVars, Still
  <2>2. /\ job'[h].op = op /\ job'[h].at = "check" /\ job'[h].need = i
        /\ job'[h].row = 0 /\ job'[h].ticket = NoTicket
    BY <2>1, IdleFields DEF Job
  <2> QED BY <2>1, <2>2 DEF Begins
<1>2. CASE \E i \in Onboardings : (\E route \in Routes : Deliver(h, i, route)) \/ Import(h, i)
  BY <1>0, <1>1, <1>2 DEF Deliver, Import
<1>3. CASE RefuseDelivery(h) \/ RefuseImport(h)
  BY <1>3, JobNext DEF RefuseDelivery, RefuseImport, worldVars, dbVars, Still, Ends, At
<1>4. CASE CheckExisting(h)
  <2>1. /\ Alone(h) /\ At(h, "check") /\ Still
        /\ job'[h] = [job[h] EXCEPT !.at = "intake", !.known = Exists(job[h].need)]
    BY <1>4, JobNext DEF CheckExisting, worldVars, dbVars, Still
  <2>2. /\ job'[h].at = "intake" /\ job'[h].known = Exists(job[h].need)
        /\ job'[h].op = job[h].op /\ job'[h].need = job[h].need
        /\ job'[h].row = job[h].row /\ job'[h].ticket = job[h].ticket
    BY <1>0, <2>1 DEF Job
  <2> QED BY <2>1, <2>2 DEF Looks
<1>5. CASE FindRequest(h)
  BY <1>5, JobNext DEF FindRequest, worldVars, dbVars, Still, Looks, At
<1>6. CASE InsertRequest(h)
  <2>1. /\ At(h, "insert") /\ UNCHANGED <<tickets, rows, cart>>
        /\ \/ /\ ~Exists(job[h].need)
              /\ \E r \in Arrivals(job[h].need, job[h].op) :
                    requests' = requests \cup {r} /\ Go(h, AfterIntake(h, r))
           \/ /\ Exists(job[h].need)
              /\ Go(h, AfterIntake(h, RequestOf(job[h].need)))
              /\ UNCHANGED requests
           \/ Done(h) /\ UNCHANGED requests
    BY <1>6 DEF InsertRequest, worldVars
  <2>2. CASE /\ ~Exists(job[h].need)
             /\ \E r \in Arrivals(job[h].need, job[h].op) :
                    requests' = requests \cup {r} /\ Go(h, AfterIntake(h, r))
    BY <2>1, <2>2, JobNext DEF Inserts
  <2>3. CASE /\ Exists(job[h].need)
             /\ Go(h, AfterIntake(h, RequestOf(job[h].need)))
             /\ UNCHANGED requests
    BY <2>1, <2>3, JobNext DEF Looks, Still, At
  <2>4. CASE Done(h) /\ UNCHANGED requests
    BY <2>1, <2>4, JobNext DEF Ends, Still, At
  <2> QED BY <2>1, <2>2, <2>3, <2>4
<1>7. CASE AuditInjection(h) \/ AuditImport(h)
  <2>1. At(h, "audit") /\ Still /\ (Go(h, AfterAudit(h)) \/ Done(h))
    BY <1>7 DEF AuditInjection, AuditImport, WriteAudit, worldVars, dbVars, Still
  <2> QED BY <2>1, JobNext DEF Looks, Ends, At
<1>8. CASE ReadLines(h)
  BY <1>8, JobNext DEF ReadLines, worldVars, dbVars, Still, Looks
<1>9. CASE WriteRitm(h)
  <2>1. /\ At(h, "answered") /\ job[h].op = "flat" /\ UNCHANGED <<cart, rows>>
        /\ \/ /\ requests' = (requests \ {RequestOf(job[h].need)}) \cup
                             {[RequestOf(job[h].need) EXCEPT !.ritm = job[h].ticket]}
              /\ Go(h, "notify") /\ UNCHANGED tickets
           \/ /\ tickets' = [tickets EXCEPT ![job[h].ticket].lost = "write"]
              /\ Go(h, "queue") /\ UNCHANGED requests
    BY <1>9 DEF WriteRitm
  <2>2. CASE /\ requests' = (requests \ {RequestOf(job[h].need)}) \cup
                             {[RequestOf(job[h].need) EXCEPT !.ritm = job[h].ticket]}
             /\ Go(h, "notify") /\ UNCHANGED tickets
    BY <2>1, <2>2, JobNext DEF WritesRitm
  <2>3. CASE /\ tickets' = [tickets EXCEPT ![job[h].ticket].lost = "write"]
             /\ Go(h, "queue") /\ UNCHANGED requests
    BY <2>1, <2>3, JobNext DEF Loses
  <2> QED BY <2>1, <2>2, <2>3
<1>10. CASE Notify(h)
  BY <1>10, JobNext DEF Notify, Answer, worldVars, dbVars, Still, Answers
<1> QED BY <1>2, <1>3, <1>4, <1>5, <1>6, <1>7, <1>8, <1>9, <1>10 DEF Receive

Kinds(h) ==
    \/ Begins(h) \/ Ends(h) \/ Fills(h) \/ Describes(h) \/ Raises(h) \/ Loses(h)
    \/ Checks(h) \/ Mirrors(h) \/ Records(h) \/ Marks(h)
    \/ Looks(h) \/ Inserts(h) \/ WritesRitm(h) \/ Answers(h)

LEMMA StepKinds ==
    ASSUME job \in [Handlers -> Job], NEW h \in Handlers, Step(h)
    PROVE  Alone(h) /\ Kinds(h)
BY OrderKinds, OperateKinds, ReceiveKinds DEF Step, Kinds

-----------------------------------------------------------------------------
(* Type correctness, and with it what the fields of a handler, a row and a  *)
(* request have to do with each other.  The types alone are not inductive:  *)
(* that a mirror gets a ticket and an RITM a request needs all of it.       *)

Ordering == {"submit", "fill", "describe", "answered"}

\* Which operation is at which point, and for whom.
PointFits(j) ==
    /\ j.at = "idle" => j = Idle
    /\ j.at \in Ordering \cup {"failed", "queue"} => j.op \in {"create", "retry", "flat"}
    /\ j.at = "queue" => j.op # "retry"
    /\ j.at \in {"find", "mirror", "resolve", "failRow"} => j.op = "retry"
    /\ j.at \in {"abandon", "reopen"} => j.op = j.at
    /\ j.at \in {"check", "intake", "insert", "audit", "lines", "notify"} => j.op \in IntakeRoutes
    /\ j.at = "lines" => j.op = "flat"
    /\ j.op \in {"create"} \cup IntakeRoutes => j.row = 0
    /\ j.at # "idle" => /\ j.op = "create" => j.need \in Forms
                        /\ j.op \in IntakeRoutes => j.need \in Onboardings

\* A delivery that goes beyond its request has one.
NeedFits(j) ==
    /\ j.at \in {"audit", "lines", "notify"} => Exists(j.need)
    /\ j.op = "flat" /\ j.at \in Ordering \cup {"failed", "queue"} => Exists(j.need)

\* What a handler has in hand.
HandFits(j) ==
    /\ j.ticket \in DOMAIN tickets \cup {NoTicket}
    /\ j.at # "idle" /\ j.ticket # NoTicket => tickets[j.ticket].for = j.need
    /\ j.at \in {"describe", "answered", "queue", "mirror", "resolve"} => j.ticket # NoTicket
    /\ j.at \in {"submit", "fill", "failed", "check", "intake", "insert", "audit", "lines",
                 "abandon", "reopen"} => j.ticket = NoTicket
    /\ j.op \in {"create", "flat"} /\ j.ticket # NoTicket => tickets[j.ticket].row = 0

\* What it has to do with the row it works on.
WorkFits(j) ==
    /\ j.at # "idle" /\ j.op \in {"retry", "abandon", "reopen"} =>
          j.row \in DOMAIN rows /\ rows[j.row].need = j.need
    /\ j.at # "idle" /\ j.op = "retry" =>
          IF rows[j.row].kind = "mirror"
          THEN /\ j.ticket = rows[j.row].ref
               /\ j.at \in {"find", "mirror", "resolve", "failRow"}
          ELSE /\ j.ticket # NoTicket => tickets[j.ticket].row = j.row
               /\ j.need \in repaired /\ j.at # "find"

Fits(j) == PointFits(j) /\ NeedFits(j) /\ HandFits(j) /\ WorkFits(j)
FitInv == \A h \in Handlers : Fits(job[h])

\* A row about a mirror carries a ticket of its onboarding that an order outside
\* the queue raised and could not write.
RowFits(k) ==
    IF rows[k].kind = "submit" THEN rows[k].ref = NoTicket
    ELSE /\ rows[k].ref \in DOMAIN tickets /\ tickets[rows[k].ref].for = rows[k].need
         /\ tickets[rows[k].ref].row = 0 /\ tickets[rows[k].ref].lost # "no"
RowInv == \A k \in DOMAIN rows : RowFits(k)

\* A request is an onboarding that arrived, or the mirror of a ticket.
RequestFits(r) ==
    IF r.sys \in Onboardings
    THEN /\ r.need = r.sys
         /\ r.ritm \in Tickets => r.ritm \in DOMAIN tickets /\ tickets[r.ritm].for = r.need
    ELSE /\ r.sys \in DOMAIN tickets /\ tickets[r.sys].for = r.need /\ r.ritm = r.sys
         /\ \/ tickets[r.sys].for \in Forms \/ tickets[r.sys].lost # "no"
            \/ r.need \in repaired
RequestInv == /\ \A r \in requests : RequestFits(r)
              /\ \A r, q \in requests : r.sys = q.sys => r = q

\* A ticket of a repair names the row of a submit.
TicketFits(t) ==
    tickets[t].row # 0 =>
        tickets[t].row \in DOMAIN rows /\ rows[tickets[t].row].kind = "submit"
TicketInv == \A t \in DOMAIN tickets : TicketFits(t)

\* A ticket that was just raised belongs to one handler, and nothing names it.
Unused(t) == ~Mirrored(t) /\ ~\E k \in DOMAIN rows : rows[k].ref = t
HoldsNew(h) ==
    job[h].at \in {"describe", "answered", "queue"} =>
        /\ Unused(job[h].ticket)
        /\ \A g \in Handlers \ {h} : job[g].ticket # job[h].ticket
        /\ job[h].at = "queue" => tickets[job[h].ticket].lost # "no"
FreshInv == \A h \in Handlers : HoldsNew(h)

BaseInv == TypeOK /\ FitInv /\ RowInv /\ RequestInv /\ TicketInv /\ FreshInv

-----------------------------------------------------------------------------
(* Types. *)

\* A record taken from a set of them.
LEMMA Chosen ==
    ASSUME NEW R, NEW i, \E r \in R : r.sys = i
    PROVE  /\ (CHOOSE r \in R : r.sys = i) \in R
           /\ (CHOOSE r \in R : r.sys = i).sys = i
OBVIOUS

\* The request of an onboarding.
LEMMA OfRequest ==
    ASSUME NEW i, Exists(i)
    PROVE  RequestOf(i) \in requests /\ RequestOf(i).sys = i
BY Chosen DEF Exists, RequestOf

LEMMA Appended ==
    ASSUME NEW S, NEW s \in Seq(S), NEW e
    PROVE  /\ DOMAIN Append(s, e) = DOMAIN s \cup {Len(s) + 1}
           /\ \A k \in DOMAIN s : Append(s, e)[k] = s[k]
           /\ Append(s, e)[Len(s) + 1] = e
           /\ Len(s) + 1 \notin DOMAIN s /\ Len(s) \in Nat
OBVIOUS

LEMMA LostOnly ==
    ASSUME NEW s \in Seq(Ticket), NEW t, NEW x, NEW n, n = [s EXCEPT ![t].lost = x]
    PROVE  /\ DOMAIN n = DOMAIN s
           /\ \A u \in DOMAIN s : /\ n[u].for = s[u].for /\ n[u].row = s[u].row
                                  /\ n[u].items = s[u].items
                                  /\ n[u].lost = IF u = t THEN x ELSE s[u].lost
<1>1. \A u \in DOMAIN s : s[u] \in Ticket
  OBVIOUS
<1>2. \A u \in DOMAIN s : n[u] = IF u = t THEN [s[u] EXCEPT !.lost = x] ELSE s[u]
  OBVIOUS
<1> QED BY <1>1, <1>2 DEF Ticket

LostWays == {"no", "answer", "write", "queue", "repair", "crash"}

LEMMA LostTyped ==
    ASSUME NEW s \in Seq(Ticket), NEW t,
           NEW x \in LostWays,
           NEW n, n = [s EXCEPT ![t].lost = x]
    PROVE  n \in Seq(Ticket) /\ Len(n) = Len(s)
<1>1. s \in [1 .. Len(s) -> Ticket] /\ Len(s) \in Nat
  OBVIOUS
<1>2. \A r \in Ticket : [r EXCEPT !.lost = x] \in Ticket
  BY DEF Ticket, LostWays
<1>3. \A u \in 1 .. Len(s) : n[u] = IF u = t THEN [s[u] EXCEPT !.lost = x] ELSE s[u]
  BY <1>1
<1>4. n \in [1 .. Len(s) -> Ticket]
  BY <1>1, <1>2, <1>3
<1> QED BY <1>1, <1>4

LEMMA StatusOnly ==
    ASSUME NEW s \in Seq(Row), NEW k, NEW x, NEW n, n = [s EXCEPT ![k].status = x]
    PROVE  /\ DOMAIN n = DOMAIN s
           /\ \A u \in DOMAIN s : /\ n[u].kind = s[u].kind /\ n[u].need = s[u].need
                                  /\ n[u].ref = s[u].ref
                                  /\ n[u].status = IF u = k THEN x ELSE s[u].status
<1>1. \A u \in DOMAIN s : s[u] \in Row
  OBVIOUS
<1>2. \A u \in DOMAIN s : n[u] = IF u = k THEN [s[u] EXCEPT !.status = x] ELSE s[u]
  OBVIOUS
<1> QED BY <1>1, <1>2 DEF Row

LEMMA StatusTyped ==
    ASSUME NEW s \in Seq(Row), NEW k, NEW x \in {"open", "resolved", "abandoned"},
           NEW n, n = [s EXCEPT ![k].status = x]
    PROVE  n \in Seq(Row) /\ Len(n) = Len(s)
<1>1. s \in [1 .. Len(s) -> Row] /\ Len(s) \in Nat
  OBVIOUS
<1>2. \A r \in Row : [r EXCEPT !.status = x] \in Row
  BY DEF Row
<1>3. \A u \in 1 .. Len(s) : n[u] = IF u = k THEN [s[u] EXCEPT !.status = x] ELSE s[u]
  BY <1>1
<1>4. n \in [1 .. Len(s) -> Row]
  BY <1>1, <1>2, <1>3
<1> QED BY <1>1, <1>4

\* The tables after a step.
LEMMA TablesTyped ==
    ASSUME BaseInv, NEW h \in Handlers, Kinds(h)
    PROVE  /\ cart' \in Seq(Needs)
           /\ tickets' \in Seq(Ticket) /\ Len(tickets') <= MaxTickets
           /\ requests' \subseteq Request
           /\ rows' \in Seq(Row) /\ Len(rows') <= MaxRows
<1> HIDE DEF Idle
<1>1. /\ cart \in Seq(Needs) /\ tickets \in Seq(Ticket) /\ Len(tickets) <= MaxTickets
      /\ requests \subseteq Request /\ rows \in Seq(Row) /\ Len(rows) <= MaxRows
      /\ job[h] \in Job /\ MaxTickets \in Nat /\ MaxRows \in Nat
  BY SubmissionAssumption DEF BaseInv, TypeOK, SubmissionTypeOK
<1>2. PointFits(job[h]) /\ NeedFits(job[h]) /\ HandFits(job[h]) /\ WorkFits(job[h])
  BY DEF BaseInv, FitInv, Fits
<1>3. /\ job[h].need \in Needs /\ job[h].row \in 0 .. MaxRows /\ LinesOf[job[h].need] \in Nat
      /\ job[h].ticket \in Tickets \cup {NoTicket} /\ job[h].op \in Ops
  BY <1>1, SubmissionAssumption DEF Job
<1>4. CASE Still
  BY <1>1, <1>4 DEF Still
<1>5. CASE Fills(h)
  <2>1. Append(cart, job[h].need) \in Seq(Needs)
    BY <1>1, <1>3
  <2> QED BY <1>1, <1>5, <2>1 DEF Fills
<1>6. CASE Raises(h)
  <2>1. PICK items, lost :
           /\ Len(tickets) < MaxTickets
           /\ tickets' = Append(tickets, [for |-> job[h].need, items |-> items,
                                          row |-> job[h].row, lost |-> lost])
           /\ UNCHANGED <<requests, rows>>
           /\ \/ cart' = cart /\ items = [k \in 1 .. LinesOf[job[h].need] |-> job[h].need]
              \/ cart' = <<>> /\ items = cart
           /\ lost = "no" \/ lost = "answer"
    BY <1>6 DEF Raises
  <2>0. [k \in 1 .. LinesOf[job[h].need] |-> job[h].need] \in Seq(Needs) /\ <<>> \in Seq(Needs)
    BY <1>3
  <2>2. items \in Seq(Needs) /\ cart' \in Seq(Needs)
    BY <1>1, <2>0, <2>1
  <2>3. [for |-> job[h].need, items |-> items, row |-> job[h].row, lost |-> lost] \in Ticket
    BY <1>3, <2>1, <2>2 DEF Ticket
  <2>4. tickets' \in Seq(Ticket) /\ Len(tickets') = Len(tickets) + 1
    BY <1>1, <2>1, <2>3
  <2>5. Len(tickets') <= MaxTickets
    BY <1>1, <2>1, <2>4
  <2> QED BY <1>1, <2>1, <2>2, <2>4, <2>5
<1>7. CASE Loses(h)
  <2>1. PICK x \in LostWays :
           tickets' = [tickets EXCEPT ![job[h].ticket].lost = x]
    BY <1>7 DEF Loses, LostWays
  <2>2. UNCHANGED <<requests, rows, cart>>
    BY <1>7 DEF Loses
  <2>3. tickets' \in Seq(Ticket) /\ Len(tickets') = Len(tickets)
    <3>1. tickets \in Seq(Ticket)
      BY <1>1
    <3>2. tickets' \in Seq(Ticket)
      BY <2>1, <3>1, LostTyped
    <3>3. Len(tickets') = Len(tickets)
      BY <2>1, <3>1, LostTyped
    <3> QED BY <3>2, <3>3
  <2> QED BY <1>1, <2>2, <2>3
<1>8. CASE Mirrors(h)
  <2>1. /\ requests' = requests \cup {NewMirror(job[h].need, job[h].ticket)}
        /\ UNCHANGED <<tickets, rows, cart>> /\ job[h].at \in {"answered", "mirror"}
    BY <1>8 DEF Mirrors, At
  <2>2. job[h].ticket \in Tickets
    BY <1>2, <1>3, <2>1 DEF HandFits
  <2>3. NewMirror(job[h].need, job[h].ticket) \in Request
    BY <1>3, <2>2 DEF NewMirror, Request
  <2> QED BY <1>1, <2>1, <2>3
<1>9. CASE Records(h)
  <2>1. PICK kind, ref :
           /\ \/ kind = "submit" /\ ref = NoTicket
              \/ kind = "mirror" /\ ref = job[h].ticket
           /\ \/ /\ Len(rows) < MaxRows
                 /\ rows' = Append(rows, [kind |-> kind, need |-> job[h].need, ref |-> ref,
                                          status |-> "open"])
              \/ rows' = rows
    BY <1>9 DEF Records
  <2>2. [kind |-> kind, need |-> job[h].need, ref |-> ref, status |-> "open"] \in Row
    BY <1>3, <2>1 DEF Row
  <2>3. UNCHANGED <<tickets, requests, cart>>
    BY <1>9 DEF Records
  <2>4. CASE rows' = rows
    BY <1>1, <2>3, <2>4
  <2>5. CASE /\ Len(rows) < MaxRows
             /\ rows' = Append(rows, [kind |-> kind, need |-> job[h].need, ref |-> ref,
                                      status |-> "open"])
    <3>1. rows' \in Seq(Row) /\ Len(rows') = Len(rows) + 1
      BY <1>1, <2>2, <2>5
    <3>2. Len(rows') <= MaxRows
      BY <1>1, <2>5, <3>1
    <3> QED BY <1>1, <2>3, <3>1, <3>2
  <2> QED BY <2>1, <2>4, <2>5
<1>10. CASE Marks(h)
  <2>1. PICK x \in {"open", "resolved", "abandoned"} :
           rows' = [rows EXCEPT ![job[h].row].status = x] \/ rows' = rows
    BY <1>10 DEF Marks
  <2>2. UNCHANGED <<tickets, requests, cart>>
    BY <1>10 DEF Marks
  <2>3. rows' \in Seq(Row) /\ Len(rows') = Len(rows)
    BY <1>1, <2>1, StatusTyped
  <2> QED BY <1>1, <2>2, <2>3
<1>11. CASE Inserts(h)
  <2>1. PICK r \in Arrivals(job[h].need, job[h].op) :
           requests' = requests \cup {r} /\ UNCHANGED <<tickets, rows, cart>> /\ At(h, "insert")
    BY <1>11 DEF Inserts
  <2>2. job[h].op \in IntakeRoutes /\ job[h].need \in Onboardings
    BY <1>2, <2>1 DEF PointFits, At
  <2>3. r \in Request
    BY <1>3, <2>2 DEF Arrivals, IntakeRoutes, Request
  <2> QED BY <1>1, <2>1, <2>3
<1>12. CASE WritesRitm(h)
  <2>1. /\ requests' = (requests \ {RequestOf(job[h].need)}) \cup
                       {[RequestOf(job[h].need) EXCEPT !.ritm = job[h].ticket]}
        /\ UNCHANGED <<tickets, rows, cart>> /\ At(h, "answered") /\ job[h].op = "flat"
    BY <1>12 DEF WritesRitm
  <2>2. Exists(job[h].need)
    BY <1>2, <2>1 DEF NeedFits, At, Ordering
  <2>3. RequestOf(job[h].need) \in Request
    BY <1>1, <2>2, OfRequest
  <2>4. [RequestOf(job[h].need) EXCEPT !.ritm = job[h].ticket] \in Request
    BY <1>3, <2>3 DEF Request
  <2> QED BY <1>1, <2>1, <2>4
<1>13. Kinds(h) => \/ Still \/ Fills(h) \/ Raises(h) \/ Loses(h) \/ Mirrors(h) \/ Records(h)
                   \/ Marks(h) \/ Inserts(h) \/ WritesRitm(h)
  BY DEF Kinds, Begins, Ends, Describes, Checks, Looks, Answers
<1> QED BY <1>4, <1>5, <1>6, <1>7, <1>8, <1>9, <1>10, <1>11, <1>12, <1>13

\* What the handlers have in hand stays typed, and so does what operators saw.
JobsTyped == job' \in [Handlers -> Job] /\ begun' \in 0 .. MaxJobs
ToldTyped == told' \in [Forms -> {"nothing", "done", "retry", "stop"}]

LEMMA WorkTyped ==
    ASSUME job \in [Handlers -> Job], begun \in 0 .. MaxJobs, NEW h \in Handlers
    PROVE  /\ \A w \in Points : Go(h, w) => JobsTyped
           /\ Done(h) => JobsTyped
           /\ \A work \in Job : Set(h, work) => JobsTyped
           /\ \A work \in Job : Start(h, work) => JobsTyped
<1> HIDE DEF Idle
<1>1. \A work \in Job : job' = [job EXCEPT ![h] = work] => job' \in [Handlers -> Job]
  OBVIOUS
<1>2. \A work \in Job : Set(h, work) => JobsTyped
  BY <1>1 DEF Set, JobsTyped
<1>3. \A work \in Job : Start(h, work) => JobsTyped
  <2>1. begun < MaxJobs => begun + 1 \in 0 .. MaxJobs
    BY SubmissionAssumption
  <2> QED BY <1>1, <2>1 DEF Start, JobsTyped
<1>4. \A w \in Points : [job[h] EXCEPT !.at = w] \in Job
  <2>1. job[h] \in Job
    OBVIOUS
  <2> QED BY <2>1 DEF Job
<1>5. \A w \in Points : Go(h, w) => JobsTyped
  BY <1>2, <1>4 DEF Go
<1>6. Done(h) => JobsTyped
  BY <1>2, IdleFields DEF Done
<1> QED BY <1>2, <1>3, <1>5, <1>6

LEMMA OrderTyped ==
    ASSUME SubmissionTypeOK, NEW h \in Handlers, Order(h)
    PROVE  JobsTyped /\ told' = told /\ provider' = provider
<1> HIDE DEF Idle
<1>1. /\ job \in [Handlers -> Job] /\ begun \in 0 .. MaxJobs /\ job[h] \in Job
      /\ tickets \in Seq(Ticket) /\ MaxTickets \in Nat
  BY SubmissionAssumption DEF SubmissionTypeOK
<1>2. told' = told /\ provider' = provider
  BY DEF Order, OrderRefused, OrderAtOnce, CheckCart, AddToCart, SubmitCart, DescribeOrder,
         worldVars
<1>3. {"submit", "fill", "describe", "answered", "failed"} \subseteq Points
  BY DEF Points
<1>4. Len(tickets) < MaxTickets => Len(tickets) + 1 \in Tickets
  BY <1>1 DEF Tickets
<1>5. job[h].need \in Needs
  BY <1>1 DEF Job
<1>6. LinesOf[job[h].need] \in Nat
  BY <1>5, SubmissionAssumption
<1>7. ASSUME NEW w \in Points, Len(tickets) < MaxTickets,
             Set(h, [job[h] EXCEPT !.at = w, !.ticket = Len(tickets) + 1])
      PROVE  JobsTyped
  <2>1. [job[h] EXCEPT !.at = w, !.ticket = Len(tickets) + 1] \in Job
    BY <1>1, <1>4, <1>7 DEF Job
  <2> QED BY <1>1, <1>7, <2>1, WorkTyped
<1>8. CASE OrderRefused(h)
  BY <1>2, <1>1, <1>3, <1>8, WorkTyped DEF OrderRefused
<1>9. CASE OrderAtOnce(h)
  <2>1. \/ /\ Len(tickets) < MaxTickets
           /\ Set(h, [job[h] EXCEPT !.at = "answered", !.ticket = Len(tickets) + 1])
        \/ Go(h, "failed")
    BY <1>9 DEF OrderAtOnce, Raise
  <2> QED BY <1>2, <1>1, <1>3, <1>7, <2>1, WorkTyped
<1>10. CASE CheckCart(h)
  <2>1. [job[h] EXCEPT !.at = "fill", !.left = LinesOf[job[h].need]] \in Job
    BY <1>1, <1>3, <1>6 DEF Job
  <2> QED BY <1>2, <1>1, <1>10, <2>1, WorkTyped DEF CheckCart
<1>11. CASE AddToCart(h)
  <2>1. /\ job[h].left > 0
        /\ Set(h, [job[h] EXCEPT !.left = job[h].left - 1]) \/ Go(h, "failed")
    BY <1>11 DEF AddToCart
  <2>2. job[h].left - 1 \in Nat
    BY <1>1, <2>1 DEF Job
  <2>3. [job[h] EXCEPT !.left = job[h].left - 1] \in Job
    BY <1>1, <2>2 DEF Job
  <2> QED BY <1>2, <1>1, <1>3, <2>1, <2>3, WorkTyped
<1>12. CASE SubmitCart(h)
  <2>1. \/ /\ Len(tickets) < MaxTickets
           /\ Set(h, [job[h] EXCEPT !.at = "describe", !.ticket = Len(tickets) + 1])
        \/ Go(h, "failed")
    BY <1>12 DEF SubmitCart, Raise
  <2> QED BY <1>2, <1>1, <1>3, <1>7, <2>1, WorkTyped
<1>13. CASE DescribeOrder(h)
  <2>1. [job[h] EXCEPT !.at = "failed", !.ticket = NoTicket] \in Job
    BY <1>1, <1>3 DEF Job
  <2> QED BY <1>1, <1>3, <1>13, <2>1, WorkTyped DEF DescribeOrder
<1> QED BY <1>2, <1>8, <1>9, <1>10, <1>11, <1>12, <1>13 DEF Order

LEMMA OperateTyped ==
    ASSUME SubmissionTypeOK, NEW h \in Handlers, Operate(h)
    PROVE  JobsTyped /\ ToldTyped /\ provider' = provider
<1> HIDE DEF Idle
<1>1. /\ job \in [Handlers -> Job] /\ begun \in 0 .. MaxJobs /\ job[h] \in Job
      /\ rows \in Seq(Row) /\ Len(rows) <= MaxRows /\ MaxRows \in Nat
      /\ told \in [Forms -> {"nothing", "done", "retry", "stop"}]
  BY SubmissionAssumption DEF SubmissionTypeOK
<1>2. provider' = provider
  BY DEF Operate, Create, Retry, StartAbandon, StartReopen, Judge, CreateMirror, QueueSubmit,
         QueueMirror, FindMirror, RepairMirror, FailRow, Resolve, WriteAbandon, WriteReopen,
         Mark, worldVars
<1>3. Points = {"idle", "submit", "fill", "describe", "answered", "failed", "queue", "find",
                "mirror", "resolve", "failRow", "abandon", "reopen", "check", "intake",
                "insert", "audit", "lines", "notify"}
  BY DEF Points
<1>4. \A a \in {"nothing", "done", "retry", "stop"} : Tell(h, a) \/ told' = told => ToldTyped
  BY <1>1 DEF Tell, ToldTyped
<1>5. \A k \in DOMAIN rows : /\ rows[k].need \in Needs /\ k \in 0 .. MaxRows
                             /\ rows[k].ref \in Tickets \cup {NoTicket}
  <2>1. \A k \in DOMAIN rows : rows[k] \in Row /\ k \in 1 .. Len(rows)
    BY <1>1
  <2>2. Len(rows) \in Nat
    BY <1>1
  <2> QED BY <1>1, <2>1, <2>2 DEF Row
<1>6. ASSUME NEW f \in Forms, Create(h, f) PROVE JobsTyped /\ ToldTyped
  <2>1. f \in Needs
    BY DEF Needs
  <2>2. [Idle EXCEPT !.op = "create", !.at = "submit", !.need = f] \in Job
    BY <1>3, <2>1, IdleFields DEF Job, Ops
  <2> QED BY <1>1, <1>4, <1>6, <2>2, WorkTyped DEF Create
<1>7. ASSUME NEW k \in DOMAIN rows, Retry(h, k) PROVE JobsTyped /\ ToldTyped
  <2> DEFINE at == IF rows[k].kind = "submit" THEN "submit" ELSE "find"
  <2>1. at \in Points
    BY <1>3
  <2> HIDE DEF at
  <2>2. [Idle EXCEPT !.op = "retry", !.need = rows[k].need, !.row = k,
                     !.ticket = rows[k].ref, !.at = at] \in Job
    BY <1>5, <2>1, IdleFields DEF Job, Ops
  <2>3. /\ Start(h, [Idle EXCEPT !.op = "retry", !.need = rows[k].need, !.row = k,
                                 !.ticket = rows[k].ref, !.at = at])
        /\ told' = told
    BY <1>7 DEF Retry, at
  <2> QED BY <1>1, <1>4, <2>2, <2>3, WorkTyped
<1>8. ASSUME NEW k \in DOMAIN rows, NEW op \in {"abandon", "reopen"}, Judge(h, k, op)
      PROVE  JobsTyped /\ ToldTyped
  <2>1. [Idle EXCEPT !.op = op, !.at = op, !.row = k, !.need = rows[k].need] \in Job
    BY <1>3, <1>5, IdleFields DEF Job, Ops
  <2> QED BY <1>1, <1>4, <1>8, <2>1, WorkTyped DEF Judge
<1>9. CASE (\E f \in Forms : Create(h, f))
           \/ \E k \in DOMAIN rows : Retry(h, k) \/ StartAbandon(h, k) \/ StartReopen(h, k)
  BY <1>2, <1>6, <1>7, <1>8, <1>9 DEF StartAbandon, StartReopen
<1>10. (\E w \in Points : Go(h, w)) \/ Done(h) \/ Queued(h) => JobsTyped
  BY <1>1, <1>3, WorkTyped DEF Queued
<1>11. CASE CreateMirror(h)
  <2>1. (Tell(h, "done") \/ told' = told) /\ (Done(h) \/ Go(h, "queue"))
    BY <1>11 DEF CreateMirror
  <2> QED BY <1>2, <1>3, <1>4, <1>10, <2>1
<1>12. CASE QueueSubmit(h) \/ QueueMirror(h)
  <2>1. (Tell(h, "retry") \/ Tell(h, "stop")) /\ Queued(h)
    BY <1>12 DEF QueueSubmit, QueueMirror
  <2> QED BY <1>2, <1>4, <1>10, <2>1
<1>13. CASE FindMirror(h) \/ RepairMirror(h) \/ FailRow(h) \/ Resolve(h) \/ WriteAbandon(h)
            \/ WriteReopen(h)
  <2>1. /\ told' = told
        /\ \/ \E w \in {"failRow", "resolve", "mirror"} : Go(h, w)
           \/ Done(h)
    BY <1>13 DEF FindMirror, RepairMirror, FailRow, Resolve, WriteAbandon, WriteReopen, Mark
  <2> QED BY <1>2, <1>3, <1>4, <1>10, <2>1
<1> QED BY <1>2, <1>9, <1>11, <1>12, <1>13 DEF Operate

LEMMA ReceiveTyped ==
    ASSUME SubmissionTypeOK, NEW h \in Handlers, Receive(h)
    PROVE  JobsTyped /\ told' = told /\ provider' = provider
<1> HIDE DEF Idle
<1>1. job \in [Handlers -> Job] /\ begun \in 0 .. MaxJobs /\ job[h] \in Job
  BY DEF SubmissionTypeOK
<1>2. told' = told /\ provider' = provider
  BY DEF Receive, Deliver, Import, RefuseDelivery, RefuseImport, CheckExisting, FindRequest,
         InsertRequest, AuditInjection, AuditImport, WriteAudit, ReadLines, WriteRitm, Notify,
         worldVars
<1>3. {"check", "intake", "insert", "audit", "lines", "notify", "submit", "queue"} \subseteq Points
  BY DEF Points
<1>4. \A r : AfterIntake(h, r) \in Points /\ AfterAudit(h) \in Points
  BY <1>3 DEF AfterIntake, AfterAudit
<1>5. ASSUME NEW i \in Onboardings, NEW op \in IntakeRoutes,
             Start(h, [Idle EXCEPT !.op = op, !.at = "check", !.need = i])
      PROVE  JobsTyped
  <2>1. i \in Needs /\ op \in Ops
    BY DEF Needs, IntakeRoutes, Ops
  <2>2. [Idle EXCEPT !.op = op, !.at = "check", !.need = i] \in Job
    BY <1>3, <2>1, IdleFields DEF Job
  <2> QED BY <1>1, <1>5, <2>2, WorkTyped
<1>6. CASE \E i \in Onboardings : (\E route \in Routes : Deliver(h, i, route)) \/ Import(h, i)
  <2>1. Routes \subseteq IntakeRoutes /\ "import" \in IntakeRoutes
    BY IntakeAssumption DEF IntakeRoutes
  <2> QED BY <1>2, <1>5, <1>6, <2>1 DEF Deliver, Import
<1>7. CASE CheckExisting(h)
  <2>1. [job[h] EXCEPT !.at = "intake", !.known = Exists(job[h].need)] \in Job
    BY <1>1, <1>3 DEF Job, Exists
  <2> QED BY <1>1, <1>2, <1>7, <2>1, WorkTyped DEF CheckExisting
<1>8. CASE RefuseDelivery(h) \/ RefuseImport(h) \/ FindRequest(h) \/ InsertRequest(h)
           \/ AuditInjection(h) \/ AuditImport(h) \/ ReadLines(h) \/ WriteRitm(h) \/ Notify(h)
  <2>1. Done(h) \/ \E w \in Points : Go(h, w)
    BY <1>3, <1>4, <1>8 DEF RefuseDelivery, RefuseImport, FindRequest, InsertRequest,
         AuditInjection, AuditImport, WriteAudit, ReadLines, WriteRitm, Notify, Answer
  <2> QED BY <1>1, <1>2, <2>1, WorkTyped
<1> QED BY <1>6, <1>7, <1>8 DEF Receive

LEMMA StepTyped ==
    ASSUME SubmissionTypeOK, NEW h \in Handlers, Step(h)
    PROVE  JobsTyped /\ ToldTyped /\ provider' = provider
<1>1. told \in [Forms -> {"nothing", "done", "retry", "stop"}]
  BY DEF SubmissionTypeOK
<1> QED BY <1>1, OrderTyped, OperateTyped, ReceiveTyped DEF Step, ToldTyped

-----------------------------------------------------------------------------
(* What a step does to the tables. *)

TicketRaised(h) ==
    LET n == Len(tickets) + 1 IN
    /\ Raises(h) /\ n \notin DOMAIN tickets /\ n \in Tickets
    /\ DOMAIN tickets' = DOMAIN tickets \cup {n}
    /\ \A t \in DOMAIN tickets : tickets'[t] = tickets[t]
    /\ tickets'[n].for = job[h].need /\ tickets'[n].row = job[h].row
    /\ \/ /\ tickets'[n].lost = "no" /\ job'[h].ticket = n
          /\ job'[h].at \in {"answered", "describe"}
       \/ tickets'[n].lost = "answer" /\ job'[h].ticket = job[h].ticket /\ At(h, "failed")'

\* What a ticket is of which nothing is left here.
Gone == {"answer", "queue", "repair", "crash"}

TicketLost(h) ==
    /\ Loses(h) /\ DOMAIN tickets' = DOMAIN tickets
    /\ \A t \in DOMAIN tickets :
          /\ tickets'[t].for = tickets[t].for /\ tickets'[t].row = tickets[t].row
          /\ tickets'[t].items = tickets[t].items
          /\ IF t = job[h].ticket
             THEN \/ tickets'[t].lost = "write" /\ At(h, "answered") /\ At(h, "queue")'
                  \/ tickets'[t].lost \in Gone
             ELSE tickets'[t].lost = tickets[t].lost

\* A ticket is not an onboarding, nor null, nor an RITM that was sent along.
LEMMA TicketsApart ==
    ASSUME TypeOK, NEW t \in DOMAIN tickets
    PROVE  t \in Tickets /\ t \notin Onboardings /\ t # NoTicket /\ t # Given
<1>1. t \in Tickets
  BY SubmissionAssumption DEF TypeOK, SubmissionTypeOK, Tickets
<1> QED BY <1>1, SubmissionAssumption

LEMMA LosesOne ==
    ASSUME TypeOK, NEW h \in Handlers, Loses(h)
    PROVE  TicketLost(h)
<1>1. tickets \in Seq(Ticket)
  BY DEF TypeOK, SubmissionTypeOK
<1>2. PICK x : /\ \/ x = "write" /\ At(h, "answered") /\ At(h, "queue")'
                  \/ x \in Gone
               /\ tickets' = [tickets EXCEPT ![job[h].ticket].lost = x]
  BY DEF Loses, Onto, At, Gone
<1>3. /\ DOMAIN tickets' = DOMAIN tickets
      /\ \A u \in DOMAIN tickets :
            /\ tickets'[u].for = tickets[u].for /\ tickets'[u].row = tickets[u].row
            /\ tickets'[u].items = tickets[u].items
            /\ tickets'[u].lost = IF u = job[h].ticket THEN x ELSE tickets[u].lost
  BY <1>1, <1>2, LostOnly
<1> QED BY <1>2, <1>3 DEF TicketLost

LEMMA TicketsAfter ==
    ASSUME TypeOK, NEW h \in Handlers, Kinds(h)
    PROVE  tickets' = tickets \/ TicketRaised(h) \/ TicketLost(h)
<1> HIDE DEF Idle
<1>1. tickets \in Seq(Ticket) /\ MaxTickets \in Nat
  BY SubmissionAssumption DEF TypeOK, SubmissionTypeOK
<1>2. CASE Raises(h)
  <2>1. PICK items, lost :
           /\ Len(tickets) < MaxTickets
           /\ tickets' = Append(tickets, [for |-> job[h].need, items |-> items,
                                          row |-> job[h].row, lost |-> lost])
           /\ \/ /\ lost = "no" /\ job'[h].ticket = Len(tickets) + 1
                 /\ job'[h].at \in {"answered", "describe"}
              \/ lost = "answer" /\ job'[h].ticket = job[h].ticket /\ job'[h].at = "failed"
    BY <1>2 DEF Raises
  <2> DEFINE new == [for |-> job[h].need, items |-> items, row |-> job[h].row, lost |-> lost]
             n   == Len(tickets) + 1
  <2>2. new.for = job[h].need /\ new.row = job[h].row /\ new.lost = lost
    OBVIOUS
  <2> HIDE DEF new
  <2>3. /\ DOMAIN tickets' = DOMAIN tickets \cup {n}
        /\ \A t \in DOMAIN tickets : tickets'[t] = tickets[t]
        /\ tickets'[n] = new /\ n \notin DOMAIN tickets /\ Len(tickets) \in Nat
    BY <1>1, <2>1, Appended DEF new
  <2>4. n \in Tickets
    BY <1>1, <2>1, <2>3 DEF Tickets
  <2> QED BY <1>2, <2>1, <2>2, <2>3, <2>4 DEF TicketRaised, At
<1>3. CASE Loses(h)
  BY <1>3, LosesOne
<1>4. Raises(h) \/ Loses(h) \/ tickets' = tickets
  BY DEF Kinds, Still, Begins, Ends, Fills, Describes, Checks, Mirrors, Records, Marks,
         Looks, Inserts, WritesRitm, Answers
<1> QED BY <1>2, <1>3, <1>4

RowAdded(h) ==
    LET n == Len(rows) + 1 IN
    /\ Records(h) /\ n \notin DOMAIN rows /\ DOMAIN rows' = DOMAIN rows \cup {n}
    /\ \A k \in DOMAIN rows : rows'[k] = rows[k]
    /\ rows'[n].need = job[h].need /\ rows'[n].status = "open"
    /\ \/ /\ rows'[n].kind = "submit" /\ rows'[n].ref = NoTicket
          /\ At(h, "failed") /\ job[h].op # "retry"
       \/ rows'[n].kind = "mirror" /\ rows'[n].ref = job[h].ticket /\ At(h, "queue")

RowMarked(h) ==
    /\ Marks(h) /\ DOMAIN rows' = DOMAIN rows
    /\ \A k \in DOMAIN rows :
          /\ rows'[k].kind = rows[k].kind /\ rows'[k].need = rows[k].need
          /\ rows'[k].ref = rows[k].ref
          /\ k # job[h].row => rows'[k].status = rows[k].status
    /\ job[h].row \in DOMAIN rows =>
          \/ At(h, "resolve") /\ rows'[job[h].row].status = "resolved"
          \/ At(h, "abandon") /\ rows'[job[h].row].status = "abandoned"
          \/ At(h, "reopen") /\ rows'[job[h].row].status = "open"

LEMMA RowsAfter ==
    ASSUME TypeOK, NEW h \in Handlers, Kinds(h)
    PROVE  rows' = rows \/ RowAdded(h) \/ RowMarked(h)
<1> HIDE DEF Idle
<1>1. rows \in Seq(Row)
  BY DEF TypeOK, SubmissionTypeOK
<1>2. CASE Records(h)
  <2>1. PICK kind, ref :
           /\ \/ kind = "submit" /\ ref = NoTicket /\ At(h, "failed") /\ job[h].op # "retry"
              \/ kind = "mirror" /\ ref = job[h].ticket /\ At(h, "queue")
           /\ \/ rows' = Append(rows, [kind |-> kind, need |-> job[h].need, ref |-> ref,
                                       status |-> "open"])
              \/ rows' = rows
    BY <1>2 DEF Records
  <2>2. CASE rows' = rows
    BY <2>2
  <2>3. CASE rows' = Append(rows, [kind |-> kind, need |-> job[h].need, ref |-> ref,
                                   status |-> "open"])
    <3> DEFINE new == [kind |-> kind, need |-> job[h].need, ref |-> ref, status |-> "open"]
               n   == Len(rows) + 1
    <3>1. new.kind = kind /\ new.need = job[h].need /\ new.ref = ref /\ new.status = "open"
      OBVIOUS
    <3> HIDE DEF new
    <3>2. /\ DOMAIN rows' = DOMAIN rows \cup {n}
          /\ \A k \in DOMAIN rows : rows'[k] = rows[k]
          /\ rows'[n] = new /\ n \notin DOMAIN rows
      BY <1>1, <2>3, Appended DEF new
    <3> QED BY <1>2, <2>1, <3>1, <3>2 DEF RowAdded
  <2> QED BY <2>1, <2>2, <2>3
<1>3. CASE Marks(h)
  <2>1. PICK x :
           /\ \/ At(h, "resolve") /\ x = "resolved"
              \/ At(h, "abandon") /\ x = "abandoned"
              \/ At(h, "reopen") /\ x = "open"
           /\ rows' = [rows EXCEPT ![job[h].row].status = x] \/ rows' = rows
    BY <1>3 DEF Marks
  <2>2. CASE rows' = [rows EXCEPT ![job[h].row].status = x]
    <3>1. /\ DOMAIN rows' = DOMAIN rows
          /\ \A u \in DOMAIN rows :
                /\ rows'[u].kind = rows[u].kind /\ rows'[u].need = rows[u].need
                /\ rows'[u].ref = rows[u].ref
                /\ rows'[u].status = IF u = job[h].row THEN x ELSE rows[u].status
      BY <1>1, <2>2, StatusOnly
    <3> QED BY <1>3, <2>1, <3>1 DEF RowMarked
  <2> QED BY <2>1, <2>2
<1>4. Records(h) \/ Marks(h) \/ rows' = rows
  BY DEF Kinds, Still, Begins, Ends, Fills, Describes, Raises, Loses, Checks, Mirrors,
         Looks, Inserts, WritesRitm, Answers
<1> QED BY <1>2, <1>3, <1>4

MirrorAdded(h) ==
    /\ Mirrors(h) /\ ~\E r \in requests : r.sys = job[h].ticket
    /\ requests' = requests \cup {NewMirror(job[h].need, job[h].ticket)}

ArrivalAdded(h) ==
    \E r \in Arrivals(job[h].need, job[h].op) :
       /\ Inserts(h) /\ At(h, "insert") /\ ~Exists(job[h].need)
       /\ requests' = requests \cup {r} /\ Onto(h, AfterIntake(h, r))
       /\ r.sys = job[h].need /\ r.need = job[h].need
       /\ r.ritm \in {NoTicket, Given}

RitmWritten(h) ==
    \E r, q : /\ WritesRitm(h) /\ r \in requests /\ r.sys = job[h].need /\ q.sys = r.sys
              /\ q.need = r.need /\ q.lines = r.lines /\ q.ritm = job[h].ticket
              /\ requests' = (requests \ {r}) \cup {q}

LEMMA RequestsAfter ==
    ASSUME BaseInv, NEW h \in Handlers, Kinds(h)
    PROVE  requests' = requests \/ MirrorAdded(h) \/ ArrivalAdded(h) \/ RitmWritten(h)
<1> HIDE DEF Idle
<1>1. PointFits(job[h]) /\ NeedFits(job[h]) /\ HandFits(job[h]) /\ WorkFits(job[h])
  BY DEF BaseInv, FitInv, Fits
<1>2. CASE Mirrors(h)
  <2>1. At(h, "answered") => ~\E r \in requests : r.sys = job[h].ticket
    BY DEF BaseInv, FreshInv, HoldsNew, Unused, Mirrored, At
  <2> QED BY <1>2, <2>1 DEF MirrorAdded, Mirrors
<1>3. CASE Inserts(h)
  <2>1. PICK r \in Arrivals(job[h].need, job[h].op) :
           /\ At(h, "insert") /\ ~Exists(job[h].need) /\ requests' = requests \cup {r}
           /\ Onto(h, AfterIntake(h, r))
    BY <1>3 DEF Inserts
  <2>2. job[h].op \in IntakeRoutes
    BY <1>1, <2>1 DEF PointFits, At
  <2>3. r.sys = job[h].need /\ r.need = job[h].need /\ r.ritm \in {NoTicket, Given}
    BY <2>2 DEF Arrivals, IntakeRoutes
  <2> QED BY <1>3, <2>1, <2>3 DEF ArrivalAdded
<1>4. CASE WritesRitm(h)
  <2>1. PICK r : /\ r = RequestOf(job[h].need) /\ At(h, "answered") /\ job[h].op = "flat"
                 /\ requests' = (requests \ {r}) \cup {[r EXCEPT !.ritm = job[h].ticket]}
    BY <1>4 DEF WritesRitm
  <2>2. Exists(job[h].need)
    BY <1>1, <2>1 DEF NeedFits, At, Ordering
  <2>3. r \in requests /\ r.sys = job[h].need
    BY <2>1, <2>2, OfRequest
  <2>4. r \in Request
    BY <2>3 DEF BaseInv, TypeOK, SubmissionTypeOK
  <2> DEFINE q == [r EXCEPT !.ritm = job[h].ticket]
  <2>5. q.sys = r.sys /\ q.need = r.need /\ q.lines = r.lines /\ q.ritm = job[h].ticket
    BY <2>4 DEF Request
  <2> HIDE DEF q
  <2>6. requests' = (requests \ {r}) \cup {q}
    BY <2>1 DEF q
  <2> QED BY <1>4, <2>3, <2>5, <2>6 DEF RitmWritten
<1>5. Mirrors(h) \/ Inserts(h) \/ WritesRitm(h) \/ requests' = requests
  BY DEF Kinds, Still, Begins, Ends, Fills, Describes, Raises, Loses, Checks, Records, Marks,
         Looks, Answers
<1> QED BY <1>2, <1>3, <1>4, <1>5

\* What the tables and the history keep.
TicketsKept == /\ DOMAIN tickets \subseteq DOMAIN tickets'
               /\ \A t \in DOMAIN tickets :
                     /\ tickets'[t].for = tickets[t].for /\ tickets'[t].row = tickets[t].row
                     /\ tickets'[t].items = tickets[t].items
                     /\ tickets[t].lost # "no" => tickets'[t].lost # "no"
RowsKept == /\ DOMAIN rows \subseteq DOMAIN rows'
            /\ \A k \in DOMAIN rows :
                  /\ rows'[k].kind = rows[k].kind /\ rows'[k].need = rows[k].need
                  /\ rows'[k].ref = rows[k].ref
RequestsKept == \A r \in requests : \E q \in requests' :
                   /\ q.sys = r.sys /\ q.need = r.need /\ q.lines = r.lines
                   /\ q.ritm = r.ritm \/ (r.sys \in Onboardings /\ q.ritm # NoTicket)
HistoryKept == /\ met \subseteq met' /\ rowLost \subseteq rowLost'
               /\ repaired \subseteq repaired' /\ rowMet \subseteq rowMet'
               /\ crowded => crowded'
Persists == TicketsKept /\ RowsKept /\ RequestsKept /\ HistoryKept

LEMMA StepPersists ==
    ASSUME BaseInv, NEW h \in Handlers, Kinds(h), Remember
    PROVE  Persists
<1>1. TicketsKept
  <2>1. TypeOK
    BY DEF BaseInv
  <2> QED BY <2>1, TicketsAfter DEF TicketsKept, TicketRaised, TicketLost, Gone
<1>2. RowsKept
  <2>1. TypeOK
    BY DEF BaseInv
  <2> QED BY <2>1, RowsAfter DEF RowsKept, RowAdded, RowMarked
<1>3. RequestsKept
  <2>1. CASE RitmWritten(h)
    <3>1. PICK r, q : /\ WritesRitm(h) /\ r \in requests /\ r.sys = job[h].need
                      /\ q.sys = r.sys /\ q.need = r.need /\ q.lines = r.lines
                      /\ q.ritm = job[h].ticket /\ requests' = (requests \ {r}) \cup {q}
      BY <2>1 DEF RitmWritten
    <3>2. PointFits(job[h]) /\ HandFits(job[h]) /\ At(h, "answered") /\ job[h].op = "flat"
      BY <3>1 DEF BaseInv, FitInv, Fits, WritesRitm
    <3>3. job[h].need \in Onboardings /\ job[h].ticket # NoTicket
      BY <3>2 DEF PointFits, HandFits, At, IntakeRoutes
    <3>4. q \in requests' /\ \A x \in requests \ {r} : x \in requests'
      BY <3>1
    <3> QED BY <3>1, <3>3, <3>4 DEF RequestsKept
  <2>2. CASE requests \subseteq requests'
    BY <2>2 DEF RequestsKept
  <2>3. RitmWritten(h) \/ requests \subseteq requests'
    BY RequestsAfter DEF MirrorAdded, ArrivalAdded
  <2> QED BY <2>1, <2>2, <2>3
<1>4. HistoryKept
  BY DEF HistoryKept, Remember
<1> QED BY <1>1, <1>2, <1>3, <1>4 DEF Persists

-----------------------------------------------------------------------------
(* The inductive step of the base. *)

LEMMA PointNext ==
    ASSUME BaseInv, NEW h \in Handlers, Kinds(h)
    PROVE  PointFits(job'[h])
<1> HIDE DEF Idle
<1>1. PointFits(job[h])
  BY DEF BaseInv, FitInv, Fits
<1>2. Idle.at = "idle" /\ Idle.op = "create" /\ Idle.row = 0
  BY IdleFields
<1>3. CASE Begins(h)
  BY <1>1, <1>2, <1>3 DEF PointFits, At, Ordering, Begins, BeginsOn, IntakeRoutes
<1>4. CASE Ends(h)
  BY <1>1, <1>2, <1>4 DEF PointFits, At, Ordering, Ends
<1>5. CASE Fills(h)
  BY <1>1, <1>2, <1>5 DEF PointFits, At, Ordering, Fills, Same
<1>6. CASE Describes(h)
  BY <1>1, <1>2, <1>6 DEF PointFits, At, Ordering, Describes, Onto, Same
<1>7. CASE Raises(h)
  BY <1>1, <1>2, <1>7 DEF PointFits, At, Ordering, Raises, Same
<1>8. CASE Loses(h)
  BY <1>1, <1>2, <1>8 DEF PointFits, At, Ordering, Loses, Onto, Same, IntakeRoutes
<1>9. CASE Checks(h)
  BY <1>1, <1>2, <1>9 DEF PointFits, At, Ordering, Checks, Onto, Same
<1>10. CASE Mirrors(h)
  BY <1>1, <1>2, <1>10 DEF PointFits, At, Ordering, Mirrors, Onto, Same
<1>11. CASE Records(h)
  BY <1>1, <1>2, <1>11 DEF PointFits, At, Ordering, Records, Onto, Same, IntakeRoutes
<1>12. CASE Marks(h)
  BY <1>1, <1>2, <1>12 DEF PointFits, At, Ordering, Marks
<1>13. CASE Looks(h)
  BY <1>1, <1>2, <1>13 DEF PointFits, At, Ordering, Looks, Onto, Same, AfterIntake, AfterAudit
<1>14. CASE Inserts(h)
  BY <1>1, <1>2, <1>14 DEF PointFits, At, Ordering, Inserts, Onto, Same, AfterIntake, AfterAudit
<1>15. CASE WritesRitm(h)
  BY <1>1, <1>2, <1>15 DEF PointFits, At, Ordering, WritesRitm, Onto, Same, IntakeRoutes
<1>16. CASE Answers(h)
  BY <1>1, <1>2, <1>16 DEF PointFits, At, Ordering, Answers
<1> QED BY <1>3, <1>4, <1>5, <1>6, <1>7, <1>8, <1>9, <1>10, <1>11, <1>12, <1>13, <1>14, <1>15,
     <1>16 DEF Kinds

\* Requests stay.
LEMMA ExistsKept ==
    ASSUME Persists, NEW i, Exists(i)
    PROVE  Exists(i)'
BY DEF Persists, RequestsKept, Exists

LEMMA NeedNext ==
    ASSUME BaseInv, NEW h \in Handlers, Alone(h), Kinds(h), Persists
    PROVE  \A g \in Handlers : NeedFits(job[g])'
<1> HIDE DEF Idle
<1>1. PointFits(job[h]) /\ NeedFits(job[h])
  BY DEF BaseInv, FitInv, Fits
<1>2. Idle.at = "idle" /\ Idle.op = "create" /\ Idle.row = 0
  BY IdleFields
<1>3. \A i : Exists(i) => Exists(i)'
  BY ExistsKept
<1>4. ASSUME NEW g \in Handlers \ {h} PROVE NeedFits(job[g])'
  <2>1. NeedFits(job[g]) /\ job'[g] = job[g]
    BY DEF BaseInv, FitInv, Fits, Alone
  <2> QED BY <1>3, <2>1 DEF NeedFits
<1>5. CASE Inserts(h)
  <2>2. PICK r \in Arrivals(job[h].need, job[h].op) :
           requests' = requests \cup {r} /\ Same(h) /\ At(h, "insert")
    BY <1>5 DEF Inserts, Onto
  <2>3. job[h].op \in IntakeRoutes
    BY <1>1, <2>2 DEF PointFits, At
  <2>4. r.sys = job[h].need
    BY <2>3 DEF Arrivals, IntakeRoutes
  <2>5. \E q \in requests' : q.sys = job'[h].need
    BY <2>2, <2>4 DEF Same
  <2> QED BY <1>4, <2>5 DEF NeedFits, Exists
<1>6. CASE Begins(h)
  BY <1>1, <1>2, <1>3, <1>4, <1>6 DEF NeedFits, PointFits, At, Ordering, IntakeRoutes, Begins,
       BeginsOn, IntakeRoutes
<1>7. CASE Ends(h)
  BY <1>1, <1>2, <1>3, <1>4, <1>7 DEF NeedFits, PointFits, At, Ordering, IntakeRoutes, Ends
<1>8. CASE Fills(h)
  BY <1>1, <1>2, <1>3, <1>4, <1>8 DEF NeedFits, PointFits, At, Ordering, IntakeRoutes, Fills,
       Same
<1>9. CASE Describes(h)
  BY <1>1, <1>2, <1>3, <1>4, <1>9 DEF NeedFits, PointFits, At, Ordering, IntakeRoutes,
       Describes, Onto, Same
<1>10. CASE Raises(h)
  BY <1>1, <1>2, <1>3, <1>4, <1>10 DEF NeedFits, PointFits, At, Ordering, IntakeRoutes, Raises,
       Same
<1>11. CASE Loses(h)
  BY <1>1, <1>2, <1>3, <1>4, <1>11 DEF NeedFits, PointFits, At, Ordering, IntakeRoutes, Loses,
       Onto, Same, IntakeRoutes
<1>12. CASE Checks(h)
  BY <1>1, <1>2, <1>3, <1>4, <1>12 DEF NeedFits, PointFits, At, Ordering, IntakeRoutes, Checks,
       Onto, Same
<1>13. CASE Mirrors(h)
  BY <1>1, <1>2, <1>3, <1>4, <1>13 DEF NeedFits, PointFits, At, Ordering, IntakeRoutes,
       Mirrors, Onto, Same
<1>14. CASE Records(h)
  BY <1>1, <1>2, <1>3, <1>4, <1>14 DEF NeedFits, PointFits, At, Ordering, IntakeRoutes,
       Records, Onto, Same, IntakeRoutes
<1>15. CASE Marks(h)
  BY <1>1, <1>2, <1>3, <1>4, <1>15 DEF NeedFits, PointFits, At, Ordering, IntakeRoutes, Marks
<1>16. CASE Looks(h)
  BY <1>1, <1>2, <1>3, <1>4, <1>16 DEF NeedFits, PointFits, At, Ordering, IntakeRoutes, Looks,
       Onto, Same, AfterIntake, AfterAudit
<1>17. CASE WritesRitm(h)
  BY <1>1, <1>2, <1>3, <1>4, <1>17 DEF NeedFits, PointFits, At, Ordering, IntakeRoutes,
       WritesRitm, Onto, Same, IntakeRoutes
<1>18. CASE Answers(h)
  BY <1>1, <1>2, <1>3, <1>4, <1>18 DEF NeedFits, PointFits, At, Ordering, IntakeRoutes, Answers
<1>20. NeedFits(job[h])'
  BY <1>5, <1>6, <1>7, <1>8, <1>9, <1>10, <1>11, <1>12, <1>13, <1>14, <1>15, <1>16, <1>17,
       <1>18 DEF Kinds
<1> QED BY <1>4, <1>20

LEMMA RaisesNew ==
    ASSUME TypeOK, NEW h \in Handlers, Raises(h)
    PROVE  TicketRaised(h)
<1>1. TicketLost(h) => DOMAIN tickets' = DOMAIN tickets
  BY DEF TicketLost
<1>2. Len(tickets) + 1 \in DOMAIN tickets' /\ Len(tickets) + 1 \notin DOMAIN tickets
  <2>1. tickets \in Seq(Ticket)
    BY DEF TypeOK, SubmissionTypeOK
  <2> QED BY <2>1, Appended DEF Raises
<1> QED BY <1>1, <1>2, TicketsAfter DEF Kinds

LEMMA HandNext ==
    ASSUME BaseInv, NEW h \in Handlers, Alone(h), Kinds(h), Persists
    PROVE  \A g \in Handlers : HandFits(job[g])'
<1> HIDE DEF Idle
<1>1. PointFits(job[h]) /\ HandFits(job[h])
  BY DEF BaseInv, FitInv, Fits
<1>2. Idle.at = "idle" /\ Idle.op = "create" /\ Idle.ticket = NoTicket
  BY IdleFields
<1>3. DOMAIN tickets \subseteq DOMAIN tickets' /\ NoTicket \notin DOMAIN tickets
  <2>1. \A t \in DOMAIN tickets : t \in Tickets
    BY SubmissionAssumption DEF BaseInv, TypeOK, SubmissionTypeOK, Tickets
  <2> QED BY <2>1, SubmissionAssumption DEF Persists, TicketsKept
<1>4. \A t \in DOMAIN tickets :
         tickets'[t].for = tickets[t].for /\ tickets'[t].row = tickets[t].row
  BY DEF Persists, TicketsKept
<1>5. ASSUME NEW g \in Handlers \ {h} PROVE HandFits(job[g])'
  <2>1. HandFits(job[g]) /\ job'[g] = job[g]
    BY DEF BaseInv, FitInv, Fits, Alone
  <2> QED BY <1>3, <1>4, <2>1 DEF HandFits
<1>6. CASE Raises(h)
  <2>1. /\ Same(h) /\ job[h].at \in {"submit", "fill"}
        /\ \/ job'[h].ticket = Len(tickets) + 1 /\ job'[h].at \in {"answered", "describe"}
           \/ job'[h].ticket = job[h].ticket /\ job'[h].at = "failed"
    BY <1>6 DEF Raises, At
  <2>2. TicketRaised(h)
    BY <1>6, RaisesNew DEF BaseInv
  <2> DEFINE n == Len(tickets) + 1
  <2>3. /\ n \in DOMAIN tickets' /\ tickets'[n].for = job[h].need /\ tickets'[n].row = job[h].row
    BY <2>2 DEF TicketRaised
  <2> HIDE DEF n
  <2>4. job[h].op \in {"create", "flat"} => job[h].row = 0
    BY <1>1 DEF PointFits, IntakeRoutes
  <2>5. job[h].ticket = NoTicket
    BY <1>1, <2>1 DEF HandFits
  <2>6. CASE job'[h].ticket = n /\ job'[h].at \in {"answered", "describe"}
    <3>1. /\ job'[h].need = job[h].need /\ job'[h].op = job[h].op
          /\ job'[h].at # "submit" /\ job'[h].at \in {"answered", "describe"}
      BY <2>1, <2>6 DEF Same
    <3>2. job'[h].ticket = n
      BY <2>6
    <3>3. NoTicket \notin DOMAIN tickets'
      <4>1. n \in Tickets
        BY <2>2 DEF TicketRaised, n
      <4> QED BY <1>3, <2>2, <4>1, SubmissionAssumption DEF TicketRaised, n
    <3>4. HandFits(job[h])'
      BY <2>3, <2>4, <3>1, <3>2, <3>3 DEF HandFits
    <3> QED BY <1>5, <3>4
  <2>7. CASE job'[h].ticket = job[h].ticket /\ job'[h].at = "failed"
    BY <1>5, <2>1, <2>5, <2>7 DEF HandFits, Same
  <2> QED BY <2>1, <2>6, <2>7 DEF n
<1>20. CASE Begins(h)
  <2>1. CASE job'[h].ticket = NoTicket /\ job'[h].at \notin {"describe", "answered", "queue",
       "mirror", "resolve"}
    BY <1>5, <2>1 DEF HandFits
  <2>2. CASE \E k \in DOMAIN rows : BeginsOn(h, k) /\ job'[h].op = "retry"
    <3>1. PICK k \in DOMAIN rows : BeginsOn(h, k) /\ job'[h].op = "retry"
      BY <2>2
    <3>2. RowFits(k)
      BY DEF BaseInv, RowInv
    <3>3. /\ job'[h].need = rows[k].need /\ job'[h].ticket = rows[k].ref
          /\ job'[h].at = IF rows[k].kind = "submit" THEN "submit" ELSE "find"
      BY <3>1 DEF BeginsOn
    <3> QED BY <1>3, <1>4, <1>5, <3>1, <3>2, <3>3 DEF RowFits, HandFits
  <2> QED BY <1>20, <2>1, <2>2 DEF Begins, BeginsOn
<1>7. CASE Ends(h)
  BY <1>1, <1>2, <1>3, <1>4, <1>5, <1>7 DEF HandFits, PointFits, At, IntakeRoutes, Ends
<1>8. CASE Fills(h)
  BY <1>1, <1>2, <1>3, <1>4, <1>5, <1>8 DEF HandFits, PointFits, At, IntakeRoutes, Fills, Same
<1>9. CASE Describes(h)
  BY <1>1, <1>2, <1>3, <1>4, <1>5, <1>9 DEF HandFits, PointFits, At, IntakeRoutes, Describes,
       Onto, Same
<1>10. CASE Loses(h)
  BY <1>1, <1>2, <1>3, <1>4, <1>5, <1>10 DEF HandFits, PointFits, At, IntakeRoutes, Loses,
       Onto, Same, IntakeRoutes
<1>11. CASE Checks(h)
  BY <1>1, <1>2, <1>3, <1>4, <1>5, <1>11 DEF HandFits, PointFits, At, IntakeRoutes, Checks,
       Onto, Same
<1>12. CASE Mirrors(h)
  BY <1>1, <1>2, <1>3, <1>4, <1>5, <1>12 DEF HandFits, PointFits, At, IntakeRoutes, Mirrors,
       Onto, Same
<1>13. CASE Records(h)
  BY <1>1, <1>2, <1>3, <1>4, <1>5, <1>13 DEF HandFits, PointFits, At, IntakeRoutes, Records,
       Onto, Same, IntakeRoutes
<1>14. CASE Marks(h)
  BY <1>1, <1>2, <1>3, <1>4, <1>5, <1>14 DEF HandFits, PointFits, At, IntakeRoutes, Marks
<1>15. CASE Looks(h)
  BY <1>1, <1>2, <1>3, <1>4, <1>5, <1>15 DEF HandFits, PointFits, At, IntakeRoutes, Looks,
       Onto, Same, AfterIntake, AfterAudit
<1>16. CASE Inserts(h)
  BY <1>1, <1>2, <1>3, <1>4, <1>5, <1>16 DEF HandFits, PointFits, At, IntakeRoutes, Inserts,
       Onto, Same, AfterIntake, AfterAudit
<1>17. CASE WritesRitm(h)
  BY <1>1, <1>2, <1>3, <1>4, <1>5, <1>17 DEF HandFits, PointFits, At, IntakeRoutes, WritesRitm,
       Onto, Same, IntakeRoutes
<1>18. CASE Answers(h)
  BY <1>1, <1>2, <1>3, <1>4, <1>5, <1>18 DEF HandFits, PointFits, At, IntakeRoutes, Answers
<1>21. HandFits(job[h])'
  BY <1>6, <1>20, <1>7, <1>8, <1>9, <1>10, <1>11, <1>12, <1>13, <1>14, <1>15, <1>16, <1>17,
       <1>18 DEF Kinds
<1> QED BY <1>5, <1>21

LEMMA WorkNext ==
    ASSUME BaseInv, NEW h \in Handlers, Alone(h), Kinds(h), Persists, Remember
    PROVE  \A g \in Handlers : WorkFits(job[g])'
<1> HIDE DEF Idle
<1>1. PointFits(job[h]) /\ WorkFits(job[h]) /\ HandFits(job[h])
  BY DEF BaseInv, FitInv, Fits
<1>2. Idle.at = "idle" /\ Idle.op = "create" /\ Idle.ticket = NoTicket
  BY IdleFields
<1>3. DOMAIN rows \subseteq DOMAIN rows' /\ repaired \subseteq repaired'
  BY DEF Persists, RowsKept, HistoryKept
<1>4. /\ \A k \in DOMAIN rows : /\ rows'[k].kind = rows[k].kind /\ rows'[k].ref = rows[k].ref
                                /\ rows'[k].need = rows[k].need
      /\ \A t \in DOMAIN tickets : tickets'[t].row = tickets[t].row
      /\ job[h].ticket \in DOMAIN tickets \cup {NoTicket}
  BY <1>1 DEF Persists, RowsKept, TicketsKept, HandFits
<1>5. ASSUME NEW g \in Handlers \ {h} PROVE WorkFits(job[g])'
  <2>1. WorkFits(job[g]) /\ job'[g] = job[g] /\ job[g].ticket \in DOMAIN tickets \cup {NoTicket}
    BY DEF BaseInv, FitInv, Fits, Alone, HandFits
  <2> QED BY <1>3, <1>4, <2>1 DEF WorkFits
<1>6. CASE Raises(h)
  <2>1. /\ Same(h) /\ job[h].at \in {"submit", "fill"}
        /\ \/ job'[h].ticket = Len(tickets) + 1
           \/ job'[h].ticket = job[h].ticket
        /\ job'[h].at \in {"answered", "describe", "failed"}
    BY <1>6 DEF Raises, At
  <2>2. TicketRaised(h)
    BY <1>6, RaisesNew DEF BaseInv
  <2> DEFINE n == Len(tickets) + 1
  <2>3. tickets'[n].row = job[h].row
    BY <2>2 DEF TicketRaised
  <2> HIDE DEF n
  <2>4. job'[h].ticket = NoTicket \/ job'[h].ticket = n
    BY <1>1, <2>1 DEF HandFits, n
  <2>5. /\ job'[h].need = job[h].need /\ job'[h].op = job[h].op /\ job'[h].row = job[h].row
        /\ job[h].at # "idle"
        /\ job'[h].at \notin {"idle", "find"}
    BY <2>1 DEF Same
  <2>6. job[h].op = "retry" => rows[job[h].row].kind # "mirror"
    BY <1>1, <2>1 DEF WorkFits
  <2>7. WorkFits(job[h])'
    BY <1>1, <1>3, <1>4, <2>3, <2>4, <2>5, <2>6 DEF WorkFits
  <2> QED BY <1>5, <2>7
<1>20. CASE Begins(h)
  <2>1. CASE job'[h].op \notin {"retry", "abandon", "reopen"}
    BY <1>5, <2>1 DEF WorkFits
  <2>2. CASE \E k \in DOMAIN rows : BeginsOn(h, k)
    <3>1. PICK k \in DOMAIN rows : BeginsOn(h, k)
      BY <2>2
    <3>2. RowFits(k)
      BY DEF BaseInv, RowInv
    <3>3. rows[k].kind \in {"submit", "mirror"}
      <4>1. rows \in Seq(Row)
        BY DEF BaseInv, TypeOK, SubmissionTypeOK
      <4>2. rows[k] \in Row
        BY <4>1
      <4> QED BY <4>2 DEF Row
    <3>4. job'[h].need = rows[k].need /\ job'[h].row = k
      BY <3>1 DEF BeginsOn
    <3>5. CASE job'[h].op # "retry"
      BY <1>3, <1>4, <1>5, <3>4, <3>5 DEF WorkFits
    <3>6. CASE job'[h].op = "retry"
      <4>1. /\ job'[h].ticket = rows[k].ref
            /\ job'[h].at = IF rows[k].kind = "submit" THEN "submit" ELSE "find"
        BY <3>1, <3>6 DEF BeginsOn
      <4>2. job'[h].at = "submit" => job'[h].need \in repaired'
        BY <3>6 DEF Remember
      <4> QED BY <1>3, <1>4, <1>5, <3>2, <3>3, <3>4, <3>6, <4>1, <4>2 DEF RowFits, WorkFits
    <3> QED BY <3>5, <3>6
  <2> QED BY <1>20, <2>1, <2>2 DEF Begins, IntakeRoutes
<1>7. CASE Ends(h)
  BY <1>1, <1>2, <1>3, <1>4, <1>5, <1>7 DEF WorkFits, PointFits, At, IntakeRoutes, Ends
<1>8. CASE Fills(h)
  BY <1>1, <1>2, <1>3, <1>4, <1>5, <1>8 DEF WorkFits, PointFits, At, IntakeRoutes, Fills, Same
<1>9. CASE Describes(h)
  BY <1>1, <1>2, <1>3, <1>4, <1>5, <1>9 DEF WorkFits, PointFits, At, IntakeRoutes, Describes,
       Onto, Same
<1>10. CASE Loses(h)
  BY <1>1, <1>2, <1>3, <1>4, <1>5, <1>10 DEF WorkFits, PointFits, At, IntakeRoutes, Loses,
       Onto, Same, IntakeRoutes
<1>11. CASE Checks(h)
  BY <1>1, <1>2, <1>3, <1>4, <1>5, <1>11 DEF WorkFits, PointFits, At, IntakeRoutes, Checks,
       Onto, Same
<1>12. CASE Mirrors(h)
  BY <1>1, <1>2, <1>3, <1>4, <1>5, <1>12 DEF WorkFits, PointFits, At, IntakeRoutes, Mirrors,
       Onto, Same
<1>13. CASE Records(h)
  BY <1>1, <1>2, <1>3, <1>4, <1>5, <1>13 DEF WorkFits, PointFits, At, IntakeRoutes, Records,
       Onto, Same, IntakeRoutes
<1>14. CASE Marks(h)
  BY <1>1, <1>2, <1>3, <1>4, <1>5, <1>14 DEF WorkFits, PointFits, At, IntakeRoutes, Marks
<1>15. CASE Looks(h)
  BY <1>1, <1>2, <1>3, <1>4, <1>5, <1>15 DEF WorkFits, PointFits, At, IntakeRoutes, Looks,
       Onto, Same, AfterIntake, AfterAudit
<1>16. CASE Inserts(h)
  BY <1>1, <1>2, <1>3, <1>4, <1>5, <1>16 DEF WorkFits, PointFits, At, IntakeRoutes, Inserts,
       Onto, Same, AfterIntake, AfterAudit
<1>17. CASE WritesRitm(h)
  BY <1>1, <1>2, <1>3, <1>4, <1>5, <1>17 DEF WorkFits, PointFits, At, IntakeRoutes, WritesRitm,
       Onto, Same, IntakeRoutes
<1>18. CASE Answers(h)
  BY <1>1, <1>2, <1>3, <1>4, <1>5, <1>18 DEF WorkFits, PointFits, At, IntakeRoutes, Answers
<1>21. WorkFits(job[h])'
  BY <1>6, <1>20, <1>7, <1>8, <1>9, <1>10, <1>11, <1>12, <1>13, <1>14, <1>15, <1>16, <1>17,
       <1>18 DEF Kinds
<1> QED BY <1>5, <1>21

LEMMA RowNext ==
    ASSUME BaseInv, NEW h \in Handlers, Kinds(h), Persists
    PROVE  RowInv'
<1> HIDE DEF Idle
<1>1. PointFits(job[h]) /\ HandFits(job[h]) /\ HoldsNew(h)
  BY DEF BaseInv, FitInv, Fits, FreshInv
<1>2. TicketsKept /\ RowsKept
  BY DEF Persists
<1>3. ASSUME NEW k \in DOMAIN rows PROVE RowFits(k)'
  <2>1. RowFits(k)
    BY DEF BaseInv, RowInv
  <2> QED BY <1>2, <2>1 DEF RowFits, TicketsKept, RowsKept
<1>4. ASSUME RowAdded(h), NEW k, k = Len(rows) + 1 PROVE RowFits(k)'
  <2>1. /\ rows'[k].need = job[h].need
        /\ \/ rows'[k].kind = "submit" /\ rows'[k].ref = NoTicket
           \/ rows'[k].kind = "mirror" /\ rows'[k].ref = job[h].ticket /\ At(h, "queue")
    BY <1>4 DEF RowAdded
  <2>2. CASE rows'[k].kind = "submit" /\ rows'[k].ref = NoTicket
    BY <2>2 DEF RowFits
  <2>3. CASE rows'[k].kind = "mirror" /\ rows'[k].ref = job[h].ticket /\ At(h, "queue")
    <3> DEFINE t == job[h].ticket
    <3>1. job[h].op \in {"create", "flat"} /\ t # NoTicket /\ tickets[t].lost # "no"
      BY <1>1, <2>3 DEF PointFits, HandFits, HoldsNew, At
    <3>2. t \in DOMAIN tickets /\ tickets[t].for = job[h].need /\ tickets[t].row = 0
      BY <1>1, <2>3, <3>1 DEF HandFits, At
    <3> QED BY <1>2, <2>1, <2>3, <3>1, <3>2 DEF RowFits, TicketsKept
  <2> QED BY <2>1, <2>2, <2>3
<1>5. rows' = rows \/ RowAdded(h) \/ RowMarked(h)
  BY RowsAfter DEF BaseInv
<1> QED BY <1>3, <1>4, <1>5 DEF RowInv, RowAdded, RowMarked

LEMMA TicketNext ==
    ASSUME BaseInv, NEW h \in Handlers, Kinds(h), Persists
    PROVE  TicketInv'
<1> HIDE DEF Idle
<1>1. PointFits(job[h]) /\ WorkFits(job[h])
  BY DEF BaseInv, FitInv, Fits
<1>2. TicketsKept /\ RowsKept
  BY DEF Persists
<1>3. ASSUME NEW t \in DOMAIN tickets PROVE TicketFits(t)'
  <2>1. TicketFits(t)
    BY DEF BaseInv, TicketInv
  <2> QED BY <1>2, <2>1 DEF TicketFits, TicketsKept, RowsKept
<1>4. ASSUME TicketRaised(h), NEW t, t = Len(tickets) + 1 PROVE TicketFits(t)'
  <2>1. tickets'[t].row = job[h].row /\ job[h].at \in {"submit", "fill"}
    BY <1>4 DEF TicketRaised, Raises, At
  <2>2. job[h].row # 0 => job[h].op = "retry"
    BY <1>1, <2>1 DEF PointFits, Ordering, IntakeRoutes
  <2>3. job[h].op = "retry" => job[h].row \in DOMAIN rows /\ rows[job[h].row].kind # "mirror"
    BY <1>1, <2>1 DEF WorkFits
  <2>4. \A k \in DOMAIN rows : rows[k].kind \in {"submit", "mirror"}
    <3>1. \A k \in DOMAIN rows : rows[k] \in Row
      BY DEF BaseInv, TypeOK, SubmissionTypeOK
    <3> QED BY <3>1 DEF Row
  <2> QED BY <1>2, <2>1, <2>2, <2>3, <2>4 DEF TicketFits, RowsKept
<1>5. tickets' = tickets \/ TicketRaised(h) \/ TicketLost(h)
  BY TicketsAfter DEF BaseInv
<1> QED BY <1>3, <1>4, <1>5 DEF TicketInv, TicketRaised, TicketLost

LEMMA RequestNext ==
    ASSUME BaseInv, NEW h \in Handlers, Kinds(h), Persists
    PROVE  RequestInv'
<1> HIDE DEF Idle
<1>1. PointFits(job[h]) /\ HandFits(job[h]) /\ WorkFits(job[h])
  BY DEF BaseInv, FitInv, Fits
<1>2. TicketsKept /\ HistoryKept
  BY DEF Persists
<1>3. /\ \A r \in requests : RequestFits(r)
      /\ \A r, q \in requests : r.sys = q.sys => r = q
  BY DEF BaseInv, RequestInv
<1>4. ASSUME NEW r \in requests PROVE RequestFits(r)'
  <2>1. RequestFits(r)
    BY <1>3
  <2> QED BY <1>2, <2>1 DEF RequestFits, TicketsKept, HistoryKept
<1>5. \A t \in DOMAIN tickets : t \in Tickets /\ t \notin Onboardings
  BY TicketsApart DEF BaseInv
<1>6. CASE MirrorAdded(h)
  <2>0. PICK t, r : t = job[h].ticket /\ r = NewMirror(job[h].need, t)
    OBVIOUS
  <2>1. /\ job[h].at \in {"answered", "mirror"} /\ requests' = requests \cup {r}
        /\ ~\E q \in requests : q.sys = t
        /\ At(h, "answered") => job[h].op = "create"
    BY <1>6, <2>0 DEF MirrorAdded, Mirrors, At
  <2>2. t \in DOMAIN tickets /\ tickets[t].for = job[h].need
    BY <1>1, <2>0, <2>1 DEF HandFits
  <2>3. r.sys = t /\ r.ritm = t /\ r.need = job[h].need
    BY <2>0 DEF NewMirror
  <2>4. ASSUME \/ job[h].need \in Forms
               \/ job[h].need \in repaired'
               \/ tickets'[t].lost # "no"
        PROVE  RequestInv'
    <3>1. t \in DOMAIN tickets' /\ tickets'[t].for = job[h].need
      BY <1>2, <2>2 DEF TicketsKept
    <3>2. t \notin Onboardings
      BY <1>5, <2>2
    <3>3. RequestFits(r)'
      BY <2>3, <2>4, <3>1, <3>2 DEF RequestFits
    <3> QED BY <1>3, <1>4, <2>1, <2>3, <3>3 DEF RequestInv
  <2>5. CASE At(h, "answered")
    <3>1. job[h].need \in Forms
      BY <1>1, <2>1, <2>5 DEF PointFits, At
    <3> QED BY <2>4, <3>1
  <2>6. CASE At(h, "mirror")
    <3>1. job[h].op = "retry" /\ job[h].row \in DOMAIN rows
      BY <1>1, <2>6 DEF PointFits, WorkFits, At
    <3>2. \/ job[h].need \in repaired
          \/ rows[job[h].row].kind = "mirror" /\ t = rows[job[h].row].ref
      BY <1>1, <2>0, <2>6, <3>1 DEF WorkFits, At
    <3>3. CASE job[h].need \in repaired
      BY <1>2, <2>4, <3>3 DEF HistoryKept
    <3>4. CASE rows[job[h].row].kind = "mirror" /\ t = rows[job[h].row].ref
      <4>1. RowFits(job[h].row)
        BY <3>1 DEF BaseInv, RowInv
      <4>2. tickets[t].lost # "no"
        BY <3>4, <4>1 DEF RowFits
      <4> QED BY <1>2, <2>2, <2>4, <4>2 DEF TicketsKept
    <3> QED BY <3>2, <3>3, <3>4
  <2> QED BY <2>1, <2>5, <2>6 DEF At
<1>7. CASE ArrivalAdded(h)
  <2>1. PICK r : /\ At(h, "insert") /\ ~Exists(job[h].need) /\ requests' = requests \cup {r}
                 /\ r.sys = job[h].need /\ r.need = job[h].need /\ r.ritm \in {NoTicket, Given}
    BY <1>7 DEF ArrivalAdded
  <2>2. job[h].need \in Onboardings
    BY <1>1, <2>1 DEF PointFits, At
  <2>3. r.ritm \notin Tickets
    BY <2>1, SubmissionAssumption
  <2>4. RequestFits(r)'
    BY <2>1, <2>2, <2>3 DEF RequestFits
  <2> QED BY <1>3, <1>4, <2>1, <2>4 DEF RequestInv, Exists
<1>8. CASE RitmWritten(h)
  <2>1. PICK r, q : /\ WritesRitm(h) /\ r \in requests /\ r.sys = job[h].need /\ q.sys = r.sys
                    /\ q.need = r.need /\ q.ritm = job[h].ticket
                    /\ requests' = (requests \ {r}) \cup {q}
    BY <1>8 DEF RitmWritten
  <2>2. At(h, "answered") /\ job[h].op = "flat"
    BY <2>1 DEF WritesRitm
  <2>3. job[h].need \in Onboardings /\ job[h].ticket # NoTicket
    BY <1>1, <2>2 DEF PointFits, HandFits, At, IntakeRoutes
  <2>4. job[h].ticket \in DOMAIN tickets /\ tickets[job[h].ticket].for = job[h].need
    BY <1>1, <2>2, <2>3 DEF HandFits, At
  <2>5. r.need = r.sys
    BY <1>3, <2>1, <2>3 DEF RequestFits
  <2>6. RequestFits(q)'
    BY <1>2, <2>1, <2>3, <2>4, <2>5 DEF RequestFits, TicketsKept
  <2> QED BY <1>3, <1>4, <2>1, <2>6 DEF RequestInv
<1>9. CASE requests' = requests
  BY <1>3, <1>4, <1>9 DEF RequestInv
<1> QED BY <1>6, <1>7, <1>8, <1>9, RequestsAfter

LEMMA FreshNext ==
    ASSUME BaseInv, NEW h \in Handlers, Alone(h), Kinds(h), Persists
    PROVE  FreshInv'
<1> HIDE DEF Idle
<1>1. \A g \in Handlers : PointFits(job[g]) /\ HandFits(job[g]) /\ HoldsNew(g)
  BY DEF BaseInv, FitInv, Fits, FreshInv
<1>2. TicketsKept /\ (\A r \in requests : RequestFits(r)) /\ \A k \in DOMAIN rows : RowFits(k)
  BY DEF Persists, BaseInv, RequestInv, RowInv
<1>3. \A t \in DOMAIN tickets : t \in Tickets /\ t \notin Onboardings /\ t # NoTicket /\ t # Given
  BY TicketsApart DEF BaseInv
<1>4. \A g \in Handlers \ {h} : job'[g] = job[g]
  BY DEF Alone
<1>5. Idle.at = "idle" /\ Idle.ticket = NoTicket
  BY IdleFields
<1>6. \/ job'[h].ticket \in {job[h].ticket, NoTicket}
      \/ TicketRaised(h) /\ job'[h].ticket = Len(tickets) + 1
      \/ \E k \in DOMAIN rows : job'[h].ticket = rows[k].ref
  <2>1. CASE Raises(h)
    BY <2>1, RaisesNew DEF Raises, BaseInv
  <2> QED BY <1>5, <2>1 DEF Kinds, Begins, BeginsOn, Ends, Fills, Describes, Loses, Checks,
       Mirrors, Records, Marks, Looks, Inserts, WritesRitm, Answers, Onto
<1>7. ASSUME NEW g \in Handlers \ {h}, job[g].at \in {"describe", "answered", "queue"}
      PROVE  HoldsNew(g)'
  <2> DEFINE u == job[g].ticket
  <2>1. /\ u \in DOMAIN tickets /\ Unused(u) /\ job[h].ticket # u
        /\ \A f \in Handlers \ {g} : job[f].ticket # u
        /\ job[g].at = "queue" => tickets[u].lost # "no"
    BY <1>1, <1>7 DEF HoldsNew, HandFits
  <2>2. u \in Tickets /\ u \notin Onboardings /\ u # NoTicket /\ u # Given
    BY <1>3, <2>1
  <2> HIDE DEF u
  <2>3. ASSUME NEW q \in requests' PROVE q.sys # u /\ q.ritm # u
    <3>1. CASE q \in requests
      BY <2>1, <3>1 DEF Unused, Mirrored
    <3>2. CASE MirrorAdded(h) /\ q = NewMirror(job[h].need, job[h].ticket)
      BY <2>1, <3>2 DEF NewMirror
    <3>3. CASE ArrivalAdded(h) /\ q \notin requests
      <4>1. q.sys = job[h].need /\ q.ritm \in {NoTicket, Given} /\ At(h, "insert")
        BY <2>3, <3>3 DEF ArrivalAdded
      <4>2. q.sys \in Onboardings
        BY <1>1, <4>1 DEF PointFits, At
      <4> QED BY <2>2, <4>1, <4>2
    <3>4. CASE RitmWritten(h) /\ q \notin requests
      <4>1. PICK r \in requests : q.sys = r.sys /\ q.ritm = job[h].ticket
        BY <2>3, <3>4 DEF RitmWritten
      <4> QED BY <2>1, <4>1 DEF Unused, Mirrored
    <3> QED BY <2>3, <3>1, <3>2, <3>3, <3>4, RequestsAfter DEF MirrorAdded
  <2>4. ASSUME NEW k \in DOMAIN rows' PROVE rows'[k].ref # u
    <3>1. rows' = rows \/ RowAdded(h) \/ RowMarked(h)
      BY RowsAfter DEF BaseInv
    <3>2. \A l \in DOMAIN rows : rows[l].ref # u
      BY <2>1 DEF Unused
    <3> QED BY <2>1, <2>2, <2>4, <3>1, <3>2 DEF RowAdded, RowMarked
  <2>5. job'[h].ticket # u
    <3>1. \A l \in DOMAIN rows : rows[l].ref # u
      BY <2>1 DEF Unused
    <3> QED BY <1>6, <2>1, <2>2, <3>1 DEF TicketRaised
  <2>6. \A f \in Handlers \ {g} : job'[f].ticket # u
    BY <1>4, <2>1, <2>5
  <2>7. job'[g].ticket = u /\ job'[g].at = job[g].at
    BY <1>4 DEF u
  <2>8. job[g].at = "queue" => tickets'[u].lost # "no"
    BY <1>2, <2>1 DEF TicketsKept
  <2> QED BY <2>3, <2>4, <2>6, <2>7, <2>8 DEF HoldsNew, Unused, Mirrored
<1>8. ASSUME job'[h].at \in {"describe", "answered", "queue"} PROVE HoldsNew(h)'
  <2>1. CASE Raises(h)
    <3> DEFINE n == Len(tickets) + 1
    <3>1. TicketRaised(h) /\ UNCHANGED <<requests, rows>>
      BY <2>1, RaisesNew DEF BaseInv, Raises
    <3>2. job'[h].ticket = n /\ job'[h].at # "queue"
      BY <1>8, <2>1 DEF Raises
    <3>3. n \in Tickets /\ n \notin DOMAIN tickets
      BY <3>1 DEF TicketRaised
    <3> HIDE DEF n
    <3>4. n \notin Onboardings /\ n # NoTicket /\ n # Given
      BY <3>3, SubmissionAssumption
    <3>5. \A r \in requests : r.sys # n /\ r.ritm # n
      BY <1>2, <3>3, <3>4 DEF RequestFits
    <3>6. \A k \in DOMAIN rows : rows[k].ref # n
      BY <1>2, <3>3, <3>4 DEF RowFits
    <3>7. \A f \in Handlers \ {h} : job'[f].ticket # n
      BY <1>1, <1>4, <3>3, <3>4 DEF HandFits
    <3> QED BY <3>1, <3>2, <3>5, <3>6, <3>7 DEF HoldsNew, Unused, Mirrored
  <2>2. CASE /\ UNCHANGED <<requests, rows>> /\ job'[h].ticket = job[h].ticket
             /\ job[h].at \in {"describe", "answered", "queue"}
             /\ job'[h].at = "queue" => tickets'[job[h].ticket].lost # "no"
    BY <1>1, <1>4, <2>2 DEF HoldsNew, Unused, Mirrored
  <2>3. CASE Loses(h)
    <3>1. /\ UNCHANGED <<requests, rows>> /\ job'[h].ticket = job[h].ticket
          /\ At(h, "answered")
      BY <1>5, <1>8, <2>3 DEF Loses, Onto
    <3>2. job[h].ticket \in DOMAIN tickets
      BY <1>1, <3>1 DEF HandFits, At
    <3>3. tickets'[job[h].ticket].lost # "no"
      <4>1. TicketLost(h)
        BY <2>3, LosesOne DEF BaseInv
      <4> QED BY <3>2, <4>1 DEF TicketLost, Gone
    <3> QED BY <2>2, <3>1, <3>3 DEF At
  <2>4. CASE Describes(h)
    BY <1>1, <1>4, <2>4 DEF Describes, Still, Onto, At, HoldsNew, Unused, Mirrored
  <2> QED BY <1>5, <1>8, <2>1, <2>3, <2>4 DEF Kinds, Begins, BeginsOn, Ends, Fills, Checks,
       Mirrors, Records, Marks, Looks, Inserts, WritesRitm, Answers, Onto, AfterIntake, AfterAudit
<1>9. ASSUME NEW g \in Handlers PROVE HoldsNew(g)'
  <2>1. CASE job'[g].at \notin {"describe", "answered", "queue"}
    BY <2>1 DEF HoldsNew
  <2> QED BY <1>4, <1>7, <1>8, <1>9, <2>1
<1> QED BY <1>9 DEF FreshInv

\* The counts of mails and audits, and the answers.
LEMMA AnswersTyped ==
    ASSUME BaseInv, Next
    PROVE  /\ handled' \subseteq Onboardings
           /\ audits' \in [Onboardings -> Nat] /\ mails' \in [Onboardings -> Nat]
<1> HIDE DEF Idle
<1>1. /\ handled \subseteq Onboardings
      /\ audits \in [Onboardings -> Nat] /\ mails \in [Onboardings -> Nat]
  BY DEF BaseInv, TypeOK
<1>2. CASE UNCHANGED intakeVars
  BY <1>1, <1>2 DEF intakeVars
<1>3. ASSUME NEW h \in Handlers, Receive(h), ~UNCHANGED intakeVars
      PROVE  /\ handled' \subseteq Onboardings
             /\ audits' \in [Onboardings -> Nat] /\ mails' \in [Onboardings -> Nat]
  <2>1. Notify(h) \/ (WriteAudit(h) /\ At(h, "audit"))
    BY <1>3 DEF Receive, Deliver, Import, RefuseDelivery, RefuseImport, CheckExisting,
         FindRequest, InsertRequest, AuditInjection, AuditImport, ReadLines, WriteRitm
  <2>2. CASE Notify(h)
    <3>1. job[h].need \in Onboardings
      BY <2>2 DEF Notify, At, BaseInv, FitInv, Fits, PointFits
    <3>2. mails' = mails \/ mails' = [mails EXCEPT ![job[h].need] = @ + 1]
      BY <2>2 DEF Notify, Mail
    <3> QED BY <1>1, <2>2, <3>1, <3>2 DEF Notify, Answer
  <2>3. CASE WriteAudit(h)
    BY <1>1, <2>3 DEF WriteAudit
  <2> QED BY <2>1, <2>2, <2>3
<1>4. UNCHANGED intakeVars \/ \E h \in Handlers : Receive(h)
  BY DEF Next
<1> QED BY <1>2, <1>3, <1>4

LEMMA HistoryTyped ==
    ASSUME BaseInv, Remember, RowsKept, job' \in [Handlers -> Job]
    PROVE  /\ met' \subseteq Onboardings /\ rowLost' \subseteq Needs /\ repaired' \subseteq Needs
           /\ crowded' \in BOOLEAN /\ rowMet' \subseteq DOMAIN rows'
<1> HIDE DEF Idle
<1>1. /\ met \subseteq Onboardings /\ rowLost \subseteq Needs /\ repaired \subseteq Needs
      /\ crowded \in BOOLEAN /\ rowMet \subseteq DOMAIN rows
      /\ job \in [Handlers -> Job]
  BY DEF BaseInv, TypeOK, SubmissionTypeOK
<1>2. \A h \in Handlers : job[h].need \in Needs /\ job'[h].need \in Needs
  BY <1>1 DEF Job
<1>3. \A h \in Handlers : At(h, "resolve") => job[h].row \in DOMAIN rows
  <2>1. \A h \in Handlers : PointFits(job[h]) /\ WorkFits(job[h])
    BY DEF BaseInv, FitInv, Fits
  <2> QED BY <2>1 DEF At, PointFits, WorkFits
<1>4. met' \subseteq Onboardings
  BY <1>1 DEF Remember
<1>5. rowLost' \subseteq Needs
  BY <1>1, <1>2 DEF Remember
<1>6. repaired' \subseteq Needs
  BY <1>1, <1>2 DEF Remember
<1>7. crowded' \in BOOLEAN
  BY <1>1 DEF Remember
<1>8. rowMet' \subseteq DOMAIN rows
  BY <1>1, <1>3 DEF Remember
<1> QED BY <1>4, <1>5, <1>6, <1>7, <1>8 DEF RowsKept

\* A crash takes the handlers, and tickets lose nobody but their handler.
LEMMA CrashAfter ==
    ASSUME TypeOK, Crash
    PROVE  /\ \A h \in Handlers : job'[h] = Idle
           /\ job' \in [Handlers -> Job] /\ tickets' \in Seq(Ticket)
           /\ Len(tickets') = Len(tickets) /\ DOMAIN tickets' = DOMAIN tickets
           /\ TicketsKept /\ UNCHANGED <<provider, cart, requests, rows, begun>> /\ ToldTyped
           /\ \A t \in DOMAIN tickets :
                 IF InHand(t) /\ Unused(t) THEN tickets'[t].lost = "crash"
                 ELSE tickets'[t] = tickets[t]
<1> HIDE DEF Idle
<1> DEFINE gone(t) == InHand(t) /\ ~Mirrored(t) /\ ~\E k \in DOMAIN rows : rows[k].ref = t
           after(t) == IF gone(t) THEN [tickets[t] EXCEPT !.lost = "crash"] ELSE tickets[t]
<1>1. /\ job' = [h \in Handlers |-> Idle]
      /\ tickets' = [t \in DOMAIN tickets |-> after(t)]
      /\ UNCHANGED <<provider, cart, requests, rows, begun>>
  BY DEF Crash, dbVars
<1>2. tickets \in Seq(Ticket) /\ told \in [Forms -> {"nothing", "done", "retry", "stop"}]
  BY DEF TypeOK, SubmissionTypeOK
<1>3. ToldTyped
  BY <1>2 DEF Crash, ToldTyped
<1>4. \A t \in DOMAIN tickets :
         /\ after(t) \in Ticket /\ after(t).for = tickets[t].for /\ after(t).row = tickets[t].row
         /\ after(t).items = tickets[t].items
         /\ gone(t) => after(t).lost = "crash"
         /\ ~gone(t) => after(t) = tickets[t]
  <2>1. \A t \in DOMAIN tickets : tickets[t] \in Ticket
    BY <1>2
  <2>2. ASSUME NEW r \in Ticket
        PROVE  LET c == [r EXCEPT !.lost = "crash"] IN
               /\ c \in Ticket /\ c.for = r.for /\ c.row = r.row /\ c.items = r.items
               /\ c.lost = "crash"
    BY DEF Ticket
  <2> HIDE DEF gone
  <2> QED BY <2>1, <2>2
<1>5. job' \in [Handlers -> Job] /\ \A h \in Handlers : job'[h] = Idle
  BY <1>1, IdleFields
<1>6. DOMAIN tickets' = DOMAIN tickets /\ \A t \in DOMAIN tickets : tickets'[t] = after(t)
  <2> HIDE DEF after
  <2> QED BY <1>1
<1>7. tickets' \in Seq(Ticket) /\ Len(tickets') = Len(tickets)
  <2> HIDE DEF after
  <2>1. DOMAIN tickets = 1 .. Len(tickets) /\ Len(tickets) \in Nat
    BY <1>2
  <2>2. tickets' \in [1 .. Len(tickets) -> Ticket]
    BY <1>1, <1>4, <2>1
  <2> QED BY <2>1, <2>2
<1> HIDE DEF after
<1>8. \A t \in DOMAIN tickets : IF InHand(t) /\ Unused(t) THEN tickets'[t].lost = "crash"
                                ELSE tickets'[t] = tickets[t]
  BY <1>4, <1>6 DEF Unused
<1>9. TicketsKept
  <2>1. \A t \in DOMAIN tickets : tickets'[t].lost # "no" \/ tickets'[t] = tickets[t]
    BY <1>8
  <2> QED BY <1>4, <1>6, <2>1 DEF TicketsKept
<1> QED BY <1>1, <1>3, <1>5, <1>6, <1>7, <1>8, <1>9

LEMMA CrashPersists ==
    ASSUME BaseInv, Crash, Remember
    PROVE  Persists
<1>1. TicketsKept /\ UNCHANGED <<requests, rows>>
  BY CrashAfter DEF BaseInv
<1>2. RowsKept /\ RequestsKept
  BY <1>1 DEF RowsKept, RequestsKept
<1>3. HistoryKept
  BY DEF Remember, HistoryKept
<1> QED BY <1>1, <1>2, <1>3 DEF Persists

LEMMA BaseNext ==
    ASSUME BaseInv, Next
    PROVE  BaseInv' /\ Persists
<1> HIDE DEF Idle
<1>1. Remember /\ (Crash \/ \E h \in Handlers : Step(h))
  BY DEF Next, Step
<1>2. SubmissionTypeOK /\ job \in [Handlers -> Job]
  BY DEF BaseInv, TypeOK, SubmissionTypeOK
<1>3. ASSUME NEW h \in Handlers, Step(h) PROVE BaseInv' /\ Persists
  <2>1. Alone(h) /\ Kinds(h)
    BY <1>2, <1>3, StepKinds
  <2>2. Persists
    BY <1>1, <2>1, StepPersists
  <2>3. JobsTyped /\ ToldTyped /\ provider' = provider
    BY <1>2, <1>3, StepTyped
  <2>4. SubmissionTypeOK'
    <3>1. provider' \in {"direct", "n8n"}
      BY <1>2, <2>3 DEF SubmissionTypeOK
    <3> QED BY <2>1, <2>3, <3>1, TablesTyped DEF SubmissionTypeOK, JobsTyped, ToldTyped
  <2>5. TypeOK'
    <3>1. RowsKept /\ job' \in [Handlers -> Job]
      BY <2>2, <2>3 DEF Persists, JobsTyped
    <3> QED BY <1>1, <2>4, <3>1, AnswersTyped, HistoryTyped DEF TypeOK
  <2>6. FitInv'
    <3>1. \A g \in Handlers : PointFits(job[g])'
      <4>1. PointFits(job'[h])
        BY <2>1, PointNext
      <4>2. \A g \in Handlers \ {h} : PointFits(job[g]) /\ job'[g] = job[g]
        BY <2>1 DEF BaseInv, FitInv, Fits, Alone
      <4>3. \A g \in Handlers : PointFits(job'[g])
        BY <4>1, <4>2
      <4> QED BY <4>3 DEF PointFits
    <3> QED BY <1>1, <2>1, <2>2, <3>1, NeedNext, HandNext, WorkNext DEF FitInv, Fits
  <2> QED BY <2>1, <2>2, <2>5, <2>6, RowNext, RequestNext, TicketNext, FreshNext DEF BaseInv
<1>4. CASE Crash
  <2>1. Persists
    BY <1>1, <1>4, CrashPersists
  <2>2. /\ \A h \in Handlers : job'[h] = Idle
        /\ job' \in [Handlers -> Job] /\ tickets' \in Seq(Ticket)
        /\ Len(tickets') = Len(tickets) /\ DOMAIN tickets' = DOMAIN tickets
        /\ TicketsKept /\ UNCHANGED <<provider, cart, requests, rows, begun>> /\ ToldTyped
    BY <1>4, CrashAfter DEF BaseInv
  <2>3. SubmissionTypeOK'
    BY <1>2, <2>2 DEF SubmissionTypeOK, ToldTyped
  <2>4. TypeOK'
    <3>1. RowsKept
      BY <2>1 DEF Persists
    <3> QED BY <1>1, <2>2, <2>3, <3>1, AnswersTyped, HistoryTyped DEF TypeOK
  <2>5. FitInv'
    BY <2>2, IdleFields DEF FitInv, Fits, PointFits, NeedFits, HandFits, WorkFits, Ordering
  <2>6. RowInv'
    BY <2>2 DEF BaseInv, RowInv, RowFits, TicketsKept
  <2>7. RequestInv'
    <3>1. HistoryKept
      BY <2>1 DEF Persists
    <3> QED BY <2>2, <3>1 DEF BaseInv, RequestInv, RequestFits, TicketsKept, HistoryKept
  <2>8. TicketInv'
    BY <2>2 DEF BaseInv, TicketInv, TicketFits, TicketsKept
  <2>9. FreshInv'
    BY <2>2, IdleFields DEF FreshInv, HoldsNew
  <2> QED BY <2>1, <2>4, <2>5, <2>6, <2>7, <2>8, <2>9 DEF BaseInv
<1> QED BY <1>1, <1>3, <1>4

\* Types hold, and the tables and the handlers fit each other.
THEOREM IntakeFits == Spec => []BaseInv
<1>1. Init => BaseInv
  <2> SUFFICES ASSUME Init PROVE BaseInv
    OBVIOUS
  <2> HIDE DEF Idle
  <2>1. job = [h \in Handlers |-> Idle] /\ tickets = <<>> /\ rows = <<>> /\ requests = {}
    BY DEF Init, SubmissionInit
  <2>2. TypeOK
    <3>1. /\ <<>> \in Seq(Needs) /\ <<>> \in Seq(Ticket) /\ <<>> \in Seq(Row)
          /\ Len(<<>>) = 0
      OBVIOUS
    <3>2. 0 <= MaxTickets /\ 0 <= MaxRows /\ 0 \in 0 .. MaxJobs
      BY SubmissionAssumption
    <3>3. job \in [Handlers -> Job]
      BY <2>1, IdleFields
    <3>4. SubmissionTypeOK
      <4>1. told \in [Forms -> {"nothing", "done", "retry", "stop"}]
        BY DEF Init, SubmissionInit
      <4>2. /\ provider \in {"direct", "n8n"} /\ cart = <<>> /\ begun = 0
        BY DEF Init, SubmissionInit
      <4> QED BY <2>1, <3>1, <3>2, <3>3, <4>1, <4>2 DEF SubmissionTypeOK
    <3>5. /\ handled = {} /\ audits \in [Onboardings -> Nat] /\ mails \in [Onboardings -> Nat]
          /\ met = {} /\ rowLost = {} /\ repaired = {} /\ crowded = FALSE /\ rowMet = {}
      BY DEF Init
    <3> QED BY <3>4, <3>5 DEF TypeOK
  <2>3. FitInv
    BY <2>1, IdleFields DEF FitInv, Fits, PointFits, NeedFits, HandFits, WorkFits, Ordering
  <2>4. RowInv /\ RequestInv /\ TicketInv
    BY <2>1 DEF RowInv, RequestInv, TicketInv
  <2>5. FreshInv
    BY <2>1, IdleFields DEF FreshInv, HoldsNew
  <2> QED BY <2>2, <2>3, <2>4, <2>5 DEF BaseInv
<1>2. BaseInv /\ [Next]_vars => BaseInv'
  <2>1. BaseInv /\ UNCHANGED vars => BaseInv'
    BY DEF vars, submissionVars, worldVars, dbVars, intakeVars, historyVars, BaseInv, TypeOK,
         SubmissionTypeOK, FitInv, Fits, PointFits, NeedFits, HandFits, WorkFits, Exists, RowInv,
         RowFits, RequestInv, RequestFits, TicketInv, TicketFits, FreshInv, HoldsNew, Unused,
         Mirrored
  <2> QED BY <2>1, BaseNext
<1> QED BY <1>1, <1>2, PTL DEF Spec

\* TypeOK: whatever the handlers, n8n and the failures do, the tables, the cart and
\* the work in hand stay what their columns say.
THEOREM IntakeTyped == Spec => []TypeOK
<1>1. BaseInv => TypeOK
  BY DEF BaseInv
<1> QED BY <1>1, IntakeFits, PTL

-----------------------------------------------------------------------------
(* Orders carry their own items. *)

\* As long as one handler fills the cart at a time, it holds that handler's items.
CartInv ==
    \/ crowded
    \/ \A h \in InCart : /\ \A g \in InCart : g = h
                         /\ \A k \in DOMAIN cart : cart[k] = job[h].need

LEMMA CartNext ==
    ASSUME BaseInv, Next, BaseInv', Persists, CartInv, OrderedItemsAreOwn
    PROVE  CartInv' /\ OrderedItemsAreOwn'
<1> HIDE DEF Idle
<1>1. Remember /\ (Crash \/ \E h \in Handlers : Step(h))
  BY DEF Next, Step
<1>2. crowded => crowded'
  BY DEF Persists, HistoryKept
<1>3. ~crowded' => \A g, h \in Handlers : At(g, "fill")' /\ At(h, "fill")' => g = h
  BY <1>1 DEF Remember, InCart
<1>4. job \in [Handlers -> Job] /\ tickets \in Seq(Ticket) /\ cart \in Seq(Needs)
  BY DEF BaseInv, TypeOK, SubmissionTypeOK
<1>5. CASE crowded'
  BY <1>5 DEF CartInv, OrderedItemsAreOwn
<1>6. CASE Crash
  <2>1. \A h \in Handlers : job'[h].at # "fill"
    BY <1>6, CrashAfter, IdleFields DEF BaseInv
  <2>2. CartInv'
    BY <2>1 DEF CartInv, InCart, At
  <2>3. DOMAIN tickets' = DOMAIN tickets /\ TicketsKept
    BY <1>6, CrashAfter DEF BaseInv
  <2> QED BY <1>2, <2>2, <2>3 DEF OrderedItemsAreOwn, TicketsKept
<1>7. ASSUME NEW h \in Handlers, Step(h), ~crowded' PROVE CartInv' /\ OrderedItemsAreOwn'
  <2>1. Alone(h) /\ Kinds(h)
    BY <1>4, <1>7, StepKinds
  <2>2. /\ \A f \in Handlers : At(f, "fill") =>
              /\ \A g \in Handlers : At(g, "fill") => g = f
              /\ \A k \in DOMAIN cart : cart[k] = job[f].need
        /\ \A t \in DOMAIN tickets :
              \A k \in DOMAIN tickets[t].items : tickets[t].items[k] = tickets[t].for
    BY <1>2, <1>7 DEF CartInv, InCart, OrderedItemsAreOwn
  <2>3. \A g \in Handlers \ {h} : job'[g] = job[g]
    BY <2>1 DEF Alone
  <2>4. job'[h].at = "fill" => /\ Fills(h) /\ job'[h].need = job[h].need
                               /\ (At(h, "submit") /\ cart = <<>> /\ cart' = cart) \/ At(h, "fill")
    <3>1. Idle.at = "idle"
      BY IdleFields
    <3> QED BY <2>1, <3>1 DEF Kinds, Begins, BeginsOn, Ends, Fills, Describes, Raises, Loses,
         Checks, Mirrors, Records, Marks, Looks, Inserts, WritesRitm, Answers, Onto, Same,
         AfterIntake, AfterAudit, At
  <2>5. CartInv'
    <3>1. ASSUME NEW f \in Handlers, At(f, "fill")'
          PROVE  \A k \in DOMAIN cart' : cart'[k] = job'[f].need
      <4>1. CASE f # h
        <5>1. At(f, "fill") /\ job'[f] = job[f]
          BY <2>3, <3>1, <4>1 DEF At
        <5>2. ~At(h, "fill") /\ ~At(h, "fill")'
          BY <1>3, <1>7, <2>2, <3>1, <4>1, <5>1
        <5>3. cart' = cart
          <6>1. Raises(h) => cart' = cart
            BY <5>2 DEF Raises
          <6>2. Fills(h) => cart' = cart
            BY <5>2 DEF Fills
          <6> QED BY <2>1, <6>1, <6>2 DEF Kinds, Still, Begins, Ends, Describes, Loses, Checks,
               Mirrors, Records, Marks, Looks, Inserts, WritesRitm, Answers
        <5> QED BY <2>2, <5>1, <5>3
      <4>2. CASE f = h
        <5>1. /\ Fills(h) /\ job'[h].need = job[h].need
              /\ (At(h, "submit") /\ cart = <<>> /\ cart' = cart) \/ At(h, "fill")
          BY <2>4, <3>1, <4>2 DEF At
        <5>2. CASE cart = <<>> /\ cart' = cart
          BY <5>2
        <5>3. CASE At(h, "fill")
          <6>1. cart' = cart \/ cart' = Append(cart, job[h].need)
            BY <5>1, <5>3 DEF Fills, At
          <6>2. \A k \in DOMAIN cart : cart[k] = job[h].need
            BY <2>2, <5>3
          <6>3. \A k \in DOMAIN cart' : cart'[k] = job[h].need
            BY <1>4, <6>1, <6>2, Appended
          <6> QED BY <4>2, <5>1, <6>3
        <5> QED BY <5>1, <5>2, <5>3
      <4> QED BY <4>1, <4>2
    <3> QED BY <1>3, <1>7, <3>1 DEF CartInv, InCart
  <2>6. OrderedItemsAreOwn'
    <3>1. CASE Raises(h)
      <4>1. PICK items, lost :
               /\ tickets' = Append(tickets, [for |-> job[h].need, items |-> items,
                                              row |-> job[h].row, lost |-> lost])
               /\ \/ items = [k \in 1 .. LinesOf[job[h].need] |-> job[h].need]
                  \/ At(h, "fill") /\ items = cart
        BY <3>1 DEF Raises
      <4>2. \A k \in DOMAIN items : items[k] = job[h].need
        BY <2>2, <4>1
      <4> DEFINE new == [for |-> job[h].need, items |-> items, row |-> job[h].row, lost |-> lost]
      <4>3. new.for = job[h].need /\ new.items = items
        OBVIOUS
      <4> HIDE DEF new
      <4>4. /\ DOMAIN tickets' = DOMAIN tickets \cup {Len(tickets) + 1}
            /\ \A t \in DOMAIN tickets : tickets'[t] = tickets[t]
            /\ tickets'[Len(tickets) + 1] = new
        BY <1>4, <4>1, Appended DEF new
      <4>5. \A t \in DOMAIN tickets' :
               \A k \in DOMAIN tickets'[t].items : tickets'[t].items[k] = tickets'[t].for
        BY <2>2, <4>2, <4>3, <4>4
      <4> QED BY <4>5 DEF OrderedItemsAreOwn
    <3>2. CASE ~Raises(h)
      <4>1. DOMAIN tickets' = DOMAIN tickets
        BY <2>1, <3>2, TicketsAfter DEF BaseInv, TicketRaised, TicketLost
      <4>2. TicketsKept
        BY DEF Persists
      <4> QED BY <2>2, <4>1, <4>2 DEF OrderedItemsAreOwn, TicketsKept
    <3> QED BY <3>1, <3>2
  <2> QED BY <2>5, <2>6
<1> QED BY <1>1, <1>5, <1>6, <1>7

\* OrderedItemsAreOwn: submit_order takes the whole cart, and still an order holds
\* nothing of somebody else's unless two handlers filled the cart at once.
THEOREM ItemsHold == Spec => []OrderedItemsAreOwn
<1> DEFINE Inv == CartInv /\ OrderedItemsAreOwn
<1>1. Init => Inv
  BY IdleFields DEF Init, SubmissionInit, CartInv, OrderedItemsAreOwn, InCart, At
<1>2. Inv /\ BaseInv /\ [Next]_vars => Inv'
  <2>1. Inv /\ UNCHANGED vars => Inv'
    BY DEF vars, submissionVars, worldVars, dbVars, intakeVars, historyVars, CartInv,
         OrderedItemsAreOwn, InCart, At
  <2> QED BY <2>1, BaseNext, CartNext
<1>3. Inv => OrderedItemsAreOwn
  OBVIOUS
<1> QED BY <1>1, <1>2, <1>3, IntakeFits, PTL DEF Spec

-----------------------------------------------------------------------------
(* A row that is resolved has its mirror. *)

MirrorInv == \A h \in Handlers : At(h, "resolve") => \E r \in requests : r.sys = job[h].ticket

LEMMA MirrorNext ==
    ASSUME BaseInv, Next, Persists, MirrorInv
    PROVE  MirrorInv'
<1> HIDE DEF Idle
<1>1. Remember /\ (Crash \/ \E h \in Handlers : Step(h))
  BY DEF Next, Step
<1>2. RequestsKept
  BY DEF Persists
<1>3. CASE Crash
  BY <1>3, CrashAfter, IdleFields DEF BaseInv, MirrorInv, At
<1>4. ASSUME NEW h \in Handlers, Step(h) PROVE MirrorInv'
  <2>1. Alone(h) /\ Kinds(h)
    BY <1>4, StepKinds DEF BaseInv, TypeOK, SubmissionTypeOK
  <2>2. ASSUME NEW g \in Handlers \ {h}, At(g, "resolve")'
        PROVE  \E r \in requests' : r.sys = job'[g].ticket
    <3>1. job'[g] = job[g] /\ At(g, "resolve")
      BY <2>1, <2>2 DEF Alone, At
    <3> QED BY <1>2, <3>1 DEF MirrorInv, RequestsKept
  <2>3. ASSUME At(h, "resolve")' PROVE \E r \in requests' : r.sys = job'[h].ticket
    <3>1. /\ job'[h].ticket = job[h].ticket
          /\ (\E r \in requests : r.sys = job[h].ticket) \/ Mirrors(h)
      <4>1. Idle.at = "idle"
        BY IdleFields
      <4> QED BY <2>1, <2>3, <4>1 DEF Kinds, Begins, BeginsOn, Ends, Fills, Describes, Raises,
           Loses, Checks, Mirrors, Records, Marks, Looks, Inserts, WritesRitm, Answers, Onto,
           AfterIntake, AfterAudit, At
    <3>2. CASE \E r \in requests : r.sys = job[h].ticket
      BY <1>2, <3>1, <3>2 DEF RequestsKept
    <3>3. CASE Mirrors(h)
      <4>1. NewMirror(job[h].need, job[h].ticket) \in requests'
        BY <3>3 DEF Mirrors
      <4>2. NewMirror(job[h].need, job[h].ticket).sys = job[h].ticket
        BY DEF NewMirror
      <4> QED BY <3>1, <4>1, <4>2
    <3> QED BY <3>1, <3>2, <3>3
  <2> QED BY <2>2, <2>3 DEF MirrorInv
<1> QED BY <1>1, <1>3, <1>4

LEMMA ResolvedNext ==
    ASSUME BaseInv, Next, Persists, MirrorInv, ResolvedMeansMirrored
    PROVE  ResolvedMeansMirrored'
<1> HIDE DEF Idle
<1> DEFINE Named(n, ref) == \E r \in requests : /\ r.need = n /\ r.sys \in DOMAIN tickets
                                                /\ ref # NoTicket => r.sys = ref
<1>1. Remember /\ (Crash \/ \E h \in Handlers : Step(h))
  BY DEF Next, Step
<1>2. RequestsKept /\ TicketsKept /\ RowsKept
  BY DEF Persists
<1>3. \A n, ref : Named(n, ref) => Named(n, ref)'
  BY <1>2 DEF RequestsKept, TicketsKept
<1>4. \A k \in DOMAIN rows : rows[k].status = "resolved" => Named(rows[k].need, rows[k].ref)
  BY DEF ResolvedMeansMirrored
<1>5. ASSUME NEW k \in DOMAIN rows', rows'[k].status = "resolved"
      PROVE  Named(rows[k].need, rows[k].ref)'
  <2>1. CASE k \in DOMAIN rows /\ rows[k].status = "resolved"
    <3>1. Named(rows[k].need, rows[k].ref)
      BY <1>4, <2>1
    <3>2. rows'[k].need = rows[k].need /\ rows'[k].ref = rows[k].ref
      BY <1>2, <2>1 DEF RowsKept
    <3>3. \A n, ref : n = rows[k].need /\ ref = rows[k].ref => Named(n, ref)'
      BY <1>3, <3>1
    <3> QED BY <3>2, <3>3
  <2>2. CASE ~(k \in DOMAIN rows /\ rows[k].status = "resolved")
    <3>1. CASE Crash
      BY <1>5, <2>2, <3>1, CrashAfter DEF BaseInv
    <3>2. ASSUME NEW h \in Handlers, Step(h) PROVE Named(rows[k].need, rows[k].ref)'
      <4>1. Kinds(h)
        BY <3>2, StepKinds DEF BaseInv, TypeOK, SubmissionTypeOK
      <4>2. RowMarked(h) /\ At(h, "resolve") /\ k = job[h].row /\ k \in DOMAIN rows
        <5>1. rows' = rows \/ RowAdded(h) \/ RowMarked(h)
          BY <4>1, RowsAfter DEF BaseInv
        <5>2. ~RowAdded(h)
          BY <1>5, <2>2 DEF RowAdded
        <5>3. RowMarked(h)
          BY <1>5, <2>2, <5>1, <5>2
        <5> QED BY <1>5, <2>2, <5>3 DEF RowMarked
      <4>3. /\ PointFits(job[h]) /\ HandFits(job[h]) /\ WorkFits(job[h]) /\ RowFits(k)
            /\ \A r \in requests : RequestFits(r)
        BY <4>2 DEF BaseInv, FitInv, Fits, RowInv, RequestInv
      <4>4. PICK r \in requests : r.sys = job[h].ticket
        BY <4>2 DEF MirrorInv
      <4>5. /\ job[h].op = "retry" /\ job[h].ticket \in DOMAIN tickets
            /\ tickets[job[h].ticket].for = job[h].need /\ rows[k].need = job[h].need
            /\ rows[k].kind = "mirror" => job[h].ticket = rows[k].ref
        BY <4>2, <4>3 DEF PointFits, HandFits, WorkFits, At
      <4>6. r.sys \notin Onboardings
        BY <4>4, <4>5, TicketsApart DEF BaseInv
      <4>7. r.need = rows[k].need /\ r.sys \in DOMAIN tickets
        BY <4>3, <4>4, <4>5, <4>6 DEF RequestFits
      <4>8. rows[k].ref # NoTicket => r.sys = rows[k].ref
        <5>1. rows[k].kind \in {"submit", "mirror"}
          <6>1. rows[k] \in Row
            BY <4>2 DEF BaseInv, TypeOK, SubmissionTypeOK
          <6> QED BY <6>1 DEF Row
        <5> QED BY <4>3, <4>4, <4>5, <5>1 DEF RowFits
      <4>9. Named(rows[k].need, rows[k].ref)
        BY <4>7, <4>8
      <4>10. \A n, ref : n = rows[k].need /\ ref = rows[k].ref => Named(n, ref)'
        BY <1>3, <4>9
      <4> QED BY <1>2, <4>2, <4>10 DEF RowsKept
    <3> QED BY <1>1, <3>1, <3>2
  <2> QED BY <2>1, <2>2
<1> QED BY <1>5 DEF ResolvedMeansMirrored

\* MirrorInv, for the proofs that need it too.
LEMMA MirrorsHold == Spec => []MirrorInv
<1>1. Init => MirrorInv
  BY IdleFields DEF Init, SubmissionInit, MirrorInv, At
<1>2. MirrorInv /\ BaseInv /\ [Next]_vars => MirrorInv'
  <2>1. MirrorInv /\ UNCHANGED vars => MirrorInv'
    BY DEF vars, submissionVars, worldVars, dbVars, MirrorInv, At
  <2> QED BY <2>1, BaseNext, MirrorNext
<1> QED BY <1>1, <1>2, IntakeFits, PTL DEF Spec

\* ResolvedMeansMirrored: no order of retries, judgements, failures and crashes
\* resolves a row whose request is not there.
THEOREM ResolvedHolds == Spec => []ResolvedMeansMirrored
<1>1. Init => ResolvedMeansMirrored
  BY DEF Init, SubmissionInit, ResolvedMeansMirrored
<1>2. ResolvedMeansMirrored /\ MirrorInv /\ BaseInv /\ [Next]_vars => ResolvedMeansMirrored'
  <2>1. ResolvedMeansMirrored /\ UNCHANGED vars => ResolvedMeansMirrored'
    BY DEF vars, submissionVars, worldVars, dbVars, ResolvedMeansMirrored
  <2> QED BY <2>1, BaseNext, ResolvedNext
<1> QED BY <1>1, <1>2, IntakeFits, MirrorsHold, PTL DEF Spec

-----------------------------------------------------------------------------
(* Deliveries of one onboarding that meet are remembered. *)

MetInv == \A g, h \in Handlers : \A i \in Onboardings :
             g # h /\ Delivering(g, i) /\ Delivering(h, i) => i \in met

LEMMA MetHolds == Spec => []MetInv
<1>1. Init => MetInv
  BY IdleFields DEF Init, SubmissionInit, MetInv, Delivering, Busy, At
<1>2. MetInv /\ [Next]_vars => MetInv'
  <2>1. MetInv /\ UNCHANGED vars => MetInv'
    BY DEF vars, submissionVars, historyVars, MetInv, Delivering, Busy, At
  <2>2. Remember => MetInv'
    BY DEF Remember, MetInv, Delivering, Busy, At
  <2> QED BY <2>1, <2>2 DEF Next
<1> QED BY <1>1, <1>2, PTL DEF Spec

\* A flat delivery that is alone orders for a request that has no RITM.
FlatFits(h) == job[h].op = "flat" /\ job[h].at \in Ordering /\ job[h].need \notin met
               => \A r \in requests : r.sys = job[h].need => r.ritm = NoTicket
FlatInv == \A h \in Handlers : FlatFits(h)

LEMMA FlatNext ==
    ASSUME BaseInv, Next, MetInv, Persists, FlatInv
    PROVE  FlatInv'
<1> HIDE DEF Idle
<1>1. Remember /\ (Crash \/ \E h \in Handlers : Step(h))
  BY DEF Next, Step
<1>2. met \subseteq met'
  BY DEF Persists, HistoryKept
<1>3. CASE Crash
  BY <1>3, CrashAfter, IdleFields DEF BaseInv, FlatInv, FlatFits, Ordering
<1>4. ASSUME NEW h \in Handlers, Step(h) PROVE FlatInv'
  <2>1. Alone(h) /\ Kinds(h)
    BY <1>4, StepKinds DEF BaseInv, TypeOK, SubmissionTypeOK
  <2>2. PointFits(job[h]) /\ NeedFits(job[h]) /\ HandFits(job[h])
    BY DEF BaseInv, FitInv, Fits
  <2>3. ASSUME NEW g \in Handlers, NEW i \in Onboardings, i \notin met', Delivering(g, i),
               Exists(i), \A r \in requests : r.sys = i => r.ritm = NoTicket,
               g = h => ~At(h, "answered")
        PROVE  \A r \in requests' : r.sys = i => r.ritm = NoTicket
    <3> SUFFICES ASSUME NEW q \in requests', q.sys = i PROVE q.ritm = NoTicket
      OBVIOUS
    <3>1. CASE q \in requests
      BY <2>3, <3>1
    <3>2. CASE MirrorAdded(h) /\ q \notin requests
      <4>1. q.sys = job[h].ticket /\ job[h].at \in {"answered", "mirror"}
        BY <3>2 DEF MirrorAdded, NewMirror, Mirrors, At
      <4>2. q.sys \notin Onboardings
        BY <2>2, <4>1, TicketsApart DEF HandFits, BaseInv
      <4> QED BY <4>2
    <3>3. CASE ArrivalAdded(h) /\ q \notin requests
      BY <2>3, <3>3 DEF ArrivalAdded
    <3>4. CASE RitmWritten(h) /\ q \notin requests
      <4>1. /\ At(h, "answered") /\ job[h].op = "flat" /\ job[h].need = i
        BY <3>4 DEF RitmWritten, WritesRitm
      <4>2. Delivering(h, i) /\ h # g
        BY <2>3, <4>1 DEF Delivering, Busy, At, IntakeRoutes
      <4> QED BY <1>2, <2>3, <4>2 DEF MetInv
    <3> QED BY <2>1, <3>1, <3>2, <3>3, <3>4, RequestsAfter
  <2>4. ASSUME NEW g \in Handlers \ {h} PROVE FlatFits(g)'
    <3>1. job'[g] = job[g] /\ FlatFits(g) /\ PointFits(job[g]) /\ NeedFits(job[g])
      BY <2>1 DEF Alone, FlatInv, BaseInv, FitInv, Fits
    <3>2. SUFFICES ASSUME job[g].op = "flat", job[g].at \in Ordering, job[g].need \notin met'
                   PROVE  \A r \in requests' : r.sys = job[g].need => r.ritm = NoTicket
      BY <3>1 DEF FlatFits
    <3>3. Delivering(g, job[g].need) /\ job[g].need \in Onboardings /\ Exists(job[g].need)
      BY <3>1, <3>2 DEF Delivering, Busy, At, IntakeRoutes, Ordering, PointFits, NeedFits
    <3> QED BY <1>2, <2>3, <3>1, <3>2, <3>3 DEF FlatFits
  <2>5. FlatFits(h)'
    <3>1. SUFFICES ASSUME job'[h].op = "flat", job'[h].at \in Ordering, job'[h].need \notin met'
                   PROVE  \A r \in requests' : r.sys = job'[h].need => r.ritm = NoTicket
      BY DEF FlatFits
    <3>2. /\ job'[h].need = job[h].need /\ job[h].op = "flat"
          /\ \/ job[h].at \in Ordering /\ ~At(h, "answered")
             \/ /\ At(h, "lines") /\ RequestOf(job[h].need).ritm = NoTicket /\ requests' = requests
      <4>1. Idle.at = "idle"
        BY IdleFields
      <4> QED BY <2>1, <3>1, <4>1 DEF Kinds, Begins, BeginsOn, Ends, Fills, Describes, Raises,
           Loses, Checks, Mirrors, Records, Marks, Looks, Inserts, WritesRitm, Answers, Onto,
           Same, AfterIntake, AfterAudit, At, Ordering, Still, IntakeRoutes
    <3>3. /\ Delivering(h, job[h].need) /\ job[h].need \in Onboardings /\ Exists(job[h].need)
      BY <2>2, <3>2 DEF Delivering, Busy, At, IntakeRoutes, Ordering, PointFits, NeedFits
    <3>4. CASE job[h].at \in Ordering /\ ~At(h, "answered")
      BY <1>2, <2>3, <3>1, <3>2, <3>3, <3>4 DEF FlatInv, FlatFits
    <3>5. CASE At(h, "lines") /\ RequestOf(job[h].need).ritm = NoTicket /\ requests' = requests
      BY <3>2, <3>3, <3>5, OfRequest DEF BaseInv, RequestInv
    <3> QED BY <3>2, <3>4, <3>5
  <2> QED BY <2>4, <2>5 DEF FlatInv
<1> QED BY <1>1, <1>3, <1>4

LEMMA FlatHolds == Spec => []FlatInv
<1>1. Init => FlatInv
  BY IdleFields DEF Init, SubmissionInit, FlatInv, FlatFits, Ordering
<1>2. FlatInv /\ MetInv /\ BaseInv /\ [Next]_vars => FlatInv'
  <2>1. FlatInv /\ UNCHANGED vars => FlatInv'
    BY DEF vars, submissionVars, worldVars, dbVars, historyVars, FlatInv, FlatFits
  <2> QED BY <2>1, BaseNext, FlatNext
<1> QED BY <1>1, <1>2, IntakeFits, MetHolds, PTL DEF Spec

-----------------------------------------------------------------------------
(* What a ticket leaves behind. *)

Traced(t) == \/ tickets[t].lost \in Gone \/ Mirrored(t)
             \/ \E k \in DOMAIN rows : rows[k].kind = "mirror" /\ rows[k].ref = t
             \/ tickets[t].for \in met

\* A handler that is done with its ticket has left a trace of it.
TraceInv == \A h \in Handlers :
               job[h].at \in {"notify", "failRow"} /\ job[h].ticket # NoTicket
               => Traced(job[h].ticket)

LEMMA TracedNext ==
    ASSUME BaseInv, FlatInv, Persists, NEW h \in Handlers, Kinds(h),
           NEW t \in DOMAIN tickets, Traced(t),
           ~(Loses(h) /\ At(h, "answered") /\ job[h].ticket = t)
    PROVE  Traced(t)'
<1> HIDE DEF Idle
<1>1. TicketsKept /\ RowsKept /\ HistoryKept
  BY DEF Persists
<1>2. CASE tickets[t].lost \in Gone
  <2>1. tickets' = tickets \/ TicketRaised(h) \/ TicketLost(h)
    BY TicketsAfter DEF BaseInv
  <2>2. tickets'[t].lost \in Gone
    BY <1>2, <2>1 DEF TicketRaised, TicketLost
  <2> QED BY <2>2 DEF Traced
<1>3. CASE \E k \in DOMAIN rows : rows[k].kind = "mirror" /\ rows[k].ref = t
  BY <1>1, <1>3 DEF RowsKept, Traced
<1>4. CASE tickets[t].for \in met
  BY <1>1, <1>4 DEF TicketsKept, HistoryKept, Traced
<1>5. CASE Mirrored(t)
  <2>1. CASE RitmWritten(h)
    <3>1. PICK r, q : /\ WritesRitm(h) /\ r \in requests /\ r.sys = job[h].need /\ q.sys = r.sys
                      /\ requests' = (requests \ {r}) \cup {q}
      BY <2>1 DEF RitmWritten
    <3>2. PICK p \in requests : p.sys = t \/ p.ritm = t
      BY <1>5 DEF Mirrored
    <3>3. CASE p # r
      BY <3>1, <3>2, <3>3 DEF Mirrored, Traced
    <3>4. CASE p = r /\ p.sys = t
      BY <3>1, <3>2, <3>4 DEF Mirrored, Traced
    <3>5. CASE p = r /\ p.ritm = t
      <4>1. At(h, "answered") /\ job[h].op = "flat"
        BY <3>1 DEF WritesRitm
      <4>2. job[h].need \in Onboardings
        BY <4>1 DEF BaseInv, FitInv, Fits, PointFits, At, IntakeRoutes
      <4>3. t # NoTicket /\ t \in Tickets
        BY TicketsApart DEF BaseInv
      <4>4. job[h].need \in met
        BY <3>1, <3>5, <4>1, <4>3 DEF FlatInv, FlatFits, At, Ordering
      <4>5. tickets[t].for = job[h].need
        <5>1. RequestFits(r)
          BY <3>1 DEF BaseInv, RequestInv
        <5> QED BY <3>1, <3>5, <4>2, <4>3, <5>1 DEF RequestFits
      <4> QED BY <1>4, <4>4, <4>5
    <3> QED BY <3>2, <3>3, <3>4, <3>5
  <2>2. CASE requests \subseteq requests'
    BY <1>5, <2>2 DEF Mirrored, Traced
  <2> QED BY <2>1, <2>2, RequestsAfter DEF MirrorAdded, ArrivalAdded
<1> QED BY <1>2, <1>3, <1>4, <1>5 DEF Traced

\* What becomes of the ticket a handler has in hand.
LEMMA HandTraced ==
    ASSUME BaseInv, MirrorInv, FlatInv, TraceInv, Persists, NEW h \in Handlers, Kinds(h),
           NEW t, job[h].ticket = t, t # NoTicket, ~At(h, "idle")
    PROVE  \/ Traced(t)'
           \/ /\ job'[h].ticket = t /\ ~At(h, "idle")' /\ ~At(h, "notify")' /\ ~At(h, "failRow")'
<1> HIDE DEF Idle
<1>1. PointFits(job[h]) /\ HandFits(job[h])
  BY DEF BaseInv, FitInv, Fits
<1>2. t \in DOMAIN tickets
  BY <1>1 DEF HandFits
<1>3. CASE Traced(t) /\ ~(Loses(h) /\ At(h, "answered"))
  BY <1>2, <1>3, TracedNext
<1>4. job[h].at \in {"notify", "failRow"} => Traced(t)
  BY DEF TraceInv
<1>5. At(h, "resolve") => Traced(t)
  BY DEF MirrorInv, Traced, Mirrored
<1>6. job[h].at \notin {"submit", "fill", "failed", "check", "intake", "insert", "audit", "lines",
                        "abandon", "reopen"}
  BY <1>1 DEF HandFits
<1>7. CASE Loses(h)
  <2>1. TicketLost(h)
    BY <1>7, LosesOne DEF BaseInv
  <2>2. \/ tickets'[t].lost \in Gone
        \/ At(h, "answered")
    BY <1>2, <2>1 DEF TicketLost
  <2>3. At(h, "answered") => /\ job'[h].ticket = t /\ job'[h].at = "queue"
    BY <1>7 DEF Loses, At, Onto
  <2> QED BY <2>2, <2>3 DEF Traced, At
<1>8. CASE Mirrors(h)
  <2>1. NewMirror(job[h].need, t) \in requests' /\ NewMirror(job[h].need, t).sys = t
    BY <1>8 DEF Mirrors, NewMirror
  <2> QED BY <2>1 DEF Traced, Mirrored
<1>9. CASE Records(h)
  <2>1. At(h, "queue")
    BY <1>6, <1>9 DEF Records, At
  <2>2. RowAdded(h)
    <3>1. rows \in Seq(Row)
      BY DEF BaseInv, TypeOK, SubmissionTypeOK
    <3>2. \E kind, ref : rows' = Append(rows, [kind |-> kind, need |-> job[h].need, ref |-> ref,
                                               status |-> "open"])
      BY <1>9, <2>1 DEF Records, At
    <3>3. rows' # rows /\ DOMAIN rows' # DOMAIN rows
      BY <3>1, <3>2
    <3> QED BY <3>3, RowsAfter DEF BaseInv, RowMarked
  <2> QED BY <2>1, <2>2 DEF RowAdded, Traced, At
<1>10. CASE WritesRitm(h)
  <2>1. PICK r : /\ r = RequestOf(job[h].need) /\ At(h, "answered") /\ job[h].op = "flat"
                 /\ requests' = (requests \ {r}) \cup {[r EXCEPT !.ritm = t]}
    BY <1>10 DEF WritesRitm
  <2>2. Exists(job[h].need)
    BY <2>1 DEF BaseInv, FitInv, Fits, NeedFits, At, Ordering
  <2>3. r \in Request
    BY <2>1, <2>2, OfRequest DEF BaseInv, TypeOK, SubmissionTypeOK
  <2>4. [r EXCEPT !.ritm = t].ritm = t
    BY <2>3 DEF Request
  <2> QED BY <2>1, <2>4 DEF Traced, Mirrored
<1>11. CASE Describes(h)
  BY <1>11 DEF Describes, Onto, At
<1>13. CASE Checks(h)
  <2>1. CASE job'[h].at \in {"resolve", "mirror"}
    BY <1>13, <2>1 DEF Checks, Onto, At
  <2>2. CASE At(h, "mirror") /\ rows[job[h].row].kind # "submit" /\ Still
    <3>1. job[h].op = "retry" /\ job[h].row \in DOMAIN rows
      BY <1>1, <2>2 DEF PointFits, BaseInv, FitInv, Fits, WorkFits, At
    <3>2. rows[job[h].row].kind \in {"submit", "mirror"}
      <4>1. rows[job[h].row] \in Row
        BY <3>1 DEF BaseInv, TypeOK, SubmissionTypeOK
      <4> QED BY <4>1 DEF Row
    <3>3. rows[job[h].row].kind = "mirror" /\ rows[job[h].row].ref = t
      BY <2>2, <3>1, <3>2 DEF BaseInv, FitInv, Fits, WorkFits, At
    <3> QED BY <2>2, <3>1, <3>3 DEF Traced, Still
  <2> QED BY <1>13, <2>1, <2>2 DEF Checks, Onto
<1>12. CASE Marks(h) \/ Answers(h) \/ Ends(h)
  BY <1>3, <1>4, <1>5, <1>6, <1>12 DEF Marks, Answers, Ends, Loses, At
<1> QED BY <1>6, <1>7, <1>8, <1>9, <1>10, <1>11, <1>12, <1>13
     DEF Kinds, Begins, Fills, Raises, Looks, Inserts, At

LEMMA TraceNext ==
    ASSUME BaseInv, Next, MirrorInv, FlatInv, TraceInv, Persists
    PROVE  TraceInv'
<1> HIDE DEF Idle
<1>1. Remember /\ (Crash \/ \E h \in Handlers : Step(h))
  BY DEF Next, Step
<1>2. CASE Crash
  BY <1>2, CrashAfter, IdleFields DEF BaseInv, TraceInv
<1>3. ASSUME NEW h \in Handlers, Step(h) PROVE TraceInv'
  <2>1. Alone(h) /\ Kinds(h)
    BY <1>3, StepKinds DEF BaseInv, TypeOK, SubmissionTypeOK
  <2>2. ASSUME NEW g \in Handlers \ {h}, NEW t, t = job[g].ticket, t # NoTicket,
               job[g].at \in {"notify", "failRow"}
        PROVE  Traced(t)'
    <3>1. Traced(t) /\ t \in DOMAIN tickets
      BY <2>2 DEF TraceInv, BaseInv, FitInv, Fits, HandFits
    <3>2. ~(At(h, "answered") /\ job[h].ticket = t)
      BY <2>2 DEF BaseInv, FreshInv, HoldsNew, At
    <3> QED BY <2>1, <3>1, <3>2, TracedNext
  <2>3. ASSUME NEW t, t = job'[h].ticket, t # NoTicket, job'[h].at \in {"notify", "failRow"}
        PROVE  Traced(t)'
    <3>1. job[h].ticket = t /\ ~At(h, "idle")
      <4>1. Idle.at = "idle"
        BY IdleFields
      <4> QED BY <2>1, <2>3, <4>1 DEF Kinds, Begins, BeginsOn, Ends, Fills, Describes, Raises,
           Loses, Checks, Mirrors, Records, Marks, Looks, Inserts, WritesRitm, Answers, Onto, At
    <3> QED BY <2>1, <2>3, <3>1, HandTraced DEF At
  <2>4. ASSUME NEW g \in Handlers, NEW t, t = job'[g].ticket, t # NoTicket,
               job'[g].at \in {"notify", "failRow"}
        PROVE  Traced(t)'
    BY <2>1, <2>2, <2>3, <2>4 DEF Alone
  <2> QED BY <2>4 DEF TraceInv, Traced, Mirrored
<1> QED BY <1>1, <1>2, <1>3

LEMMA AnsweredNext ==
    ASSUME BaseInv, Next, MirrorInv, FlatInv, TraceInv, Persists,
           \A t \in DOMAIN tickets : Traced(t) \/ InHand(t), NEW t \in DOMAIN tickets'
    PROVE  Traced(t)' \/ InHand(t)'
<1> HIDE DEF Idle
<1>1. Remember /\ (Crash \/ \E h \in Handlers : Step(h))
  BY DEF Next, Step
<1>2. CASE Crash
  <2>1. /\ DOMAIN tickets' = DOMAIN tickets /\ TicketsKept /\ UNCHANGED <<requests, rows>>
        /\ IF InHand(t) /\ Unused(t) THEN tickets'[t].lost = "crash" ELSE tickets'[t] = tickets[t]
    BY <1>2, CrashAfter DEF BaseInv
  <2>2. CASE InHand(t) /\ Unused(t)
    BY <2>1, <2>2 DEF Traced, Gone
  <2>3. CASE Traced(t)
    <3>1. tickets'[t].lost \in Gone \/ tickets'[t] = tickets[t]
      BY <2>1 DEF Gone
    <3>2. met \subseteq met'
      BY DEF Persists, HistoryKept
    <3> QED BY <2>1, <2>3, <3>1, <3>2 DEF Traced, Mirrored
  <2>4. CASE ~Unused(t)
    <3>1. Mirrored(t) \/ \E k \in DOMAIN rows : rows[k].kind = "mirror" /\ rows[k].ref = t
      <4>1. \A k \in DOMAIN rows : RowFits(k) /\ rows[k] \in Row
        BY DEF BaseInv, RowInv, TypeOK, SubmissionTypeOK
      <4>2. t # NoTicket
        BY <2>1, TicketsApart DEF BaseInv
      <4> QED BY <2>4, <4>1, <4>2 DEF Unused, RowFits, Row
    <3> QED BY <2>1, <3>1 DEF Traced, Mirrored
  <2> QED BY <2>1, <2>2, <2>3, <2>4
<1>3. ASSUME NEW h \in Handlers, Step(h) PROVE Traced(t)' \/ InHand(t)'
  <2>1. Alone(h) /\ Kinds(h)
    BY <1>3, StepKinds DEF BaseInv, TypeOK, SubmissionTypeOK
  <2>2. CASE t \notin DOMAIN tickets
    <3>1. TicketRaised(h) /\ t = Len(tickets) + 1
      <4>1. TicketRaised(h)
        BY <2>1, <2>2, TicketsAfter DEF BaseInv, TicketLost
      <4>2. DOMAIN tickets' = DOMAIN tickets \cup {Len(tickets) + 1}
        BY <4>1 DEF TicketRaised
      <4> QED BY <2>2, <4>1, <4>2
    <3> QED BY <3>1 DEF TicketRaised, Traced, Gone, InHand, At
  <2>3. CASE t \in DOMAIN tickets /\ Traced(t)
    <3>1. CASE Loses(h) /\ At(h, "answered") /\ job[h].ticket = t
      <4>1. job'[h].ticket = t /\ job'[h].at = "queue"
        BY <3>1 DEF Loses, Onto, At
      <4> QED BY <4>1 DEF InHand, At
    <3> QED BY <2>1, <2>3, <3>1, TracedNext
  <2>4. ASSUME t \in DOMAIN tickets, NEW g \in Handlers, ~At(g, "idle"), job[g].ticket = t
        PROVE  Traced(t)' \/ InHand(t)'
    <3>1. CASE g # h
      BY <2>1, <2>4, <3>1 DEF Alone, InHand, At
    <3>2. CASE g = h
      <4>1. t # NoTicket
        BY <2>4, TicketsApart DEF BaseInv
      <4> QED BY <2>1, <2>4, <3>2, <4>1, HandTraced DEF InHand, At
    <3> QED BY <3>1, <3>2
  <2> QED BY <2>2, <2>3, <2>4 DEF InHand
<1> QED BY <1>1, <1>2, <1>3

\* AnsweredTicketIsTraceable: of a ticket whose answer arrived there is always a
\* request, a row or a handler, but for the losses the property names.
THEOREM TraceableHolds == Spec => []AnsweredTicketIsTraceable
<1> DEFINE Inv == TraceInv /\ \A t \in DOMAIN tickets : Traced(t) \/ InHand(t)
<1>1. Init => Inv
  BY IdleFields DEF Init, SubmissionInit, TraceInv
<1>2. Inv /\ BaseInv /\ MirrorInv /\ FlatInv /\ [Next]_vars => Inv'
  <2>1. Inv /\ UNCHANGED vars => Inv'
    BY DEF vars, submissionVars, worldVars, dbVars, historyVars, TraceInv, Traced, Mirrored,
         InHand, At
  <2>2. Inv /\ BaseInv /\ MirrorInv /\ FlatInv /\ Next => Inv'
    BY BaseNext, TraceNext, AnsweredNext
  <2> QED BY <2>1, <2>2
<1>3. Inv => AnsweredTicketIsTraceable
  BY DEF AnsweredTicketIsTraceable, Traced, Gone
<1> QED BY <1>1, <1>2, <1>3, IntakeFits, MirrorsHold, FlatHolds, PTL DEF Spec

-----------------------------------------------------------------------------
(* What a delivery answers, audits and mails. *)

\* What a step does to the audits, the mails and the answers.
Counts(h) ==
    \/ UNCHANGED intakeVars
    \/ /\ At(h, "audit") /\ Onto(h, AfterAudit(h))
       /\ audits' = [audits EXCEPT ![job[h].need] = @ + 1]
       /\ UNCHANGED <<mails, handled>>
    \/ /\ At(h, "notify") /\ job'[h] = Idle /\ UNCHANGED <<audits, requests, rows>>
       /\ \/ mails' = mails
          \/ ~job[h].known /\ mails' = [mails EXCEPT ![job[h].need] = @ + 1]
       /\ \/ handled' = handled
          \/ job[h].op = "flat" /\ handled' = handled \cup {job[h].need}

LEMMA NextSteps ==
    ASSUME TypeOK, Next
    PROVE  /\ Remember
           /\ \/ Crash /\ UNCHANGED intakeVars
              \/ \E h \in Handlers : Step(h) /\ Alone(h) /\ Kinds(h) /\ Counts(h)
<1> HIDE DEF Idle
<1>1. job \in [Handlers -> Job]
  BY DEF TypeOK, SubmissionTypeOK
<1>2. ASSUME NEW h \in Handlers, Receive(h) PROVE Counts(h)
  <2>1. \/ UNCHANGED intakeVars
        \/ WriteAudit(h) /\ At(h, "audit")
        \/ Notify(h)
    BY <1>2 DEF Receive, Deliver, Import, RefuseDelivery, RefuseImport, CheckExisting,
       FindRequest, InsertRequest, AuditInjection, AuditImport, ReadLines, WriteRitm
  <2>2. CASE WriteAudit(h) /\ At(h, "audit")
    BY <1>1, <2>2, JobNext DEF WriteAudit, Counts, intakeVars
  <2>3. CASE Notify(h)
    BY <1>1, <2>3, JobNext DEF Notify, Mail, Answer, dbVars, Counts
  <2> QED BY <2>1, <2>2, <2>3 DEF Counts
<1>3. ASSUME NEW h \in Handlers, \/ (Order(h) \/ Operate(h)) /\ UNCHANGED intakeVars
                                 \/ Receive(h)
      PROVE  Step(h) /\ Alone(h) /\ Kinds(h) /\ Counts(h)
  BY <1>1, <1>2, <1>3, StepKinds DEF Step, Counts
<1> QED BY <1>3 DEF Next

\* An onboarding that one delivery at a time works on is announced and audited by
\* the delivery that does not know it yet.
Told(i) ==
    /\ mails[i] \in {0, 1} /\ audits[i] \in {0, 1}
    /\ mails[i] = 1 \/ audits[i] = 1 => Exists(i)
    /\ \A h \in Handlers : Delivering(h, i) =>
          /\ job[h].at # "check" /\ ~job[h].known => mails[i] = 0
          /\ job[h].at \in {"intake", "insert", "audit"} /\ ~job[h].known => audits[i] = 0
          /\ job[h].at = "audit" => ~job[h].known
ToldInv == \A i \in Onboardings \ met : Told(i)

\* The steps of a delivery, as far as it is told about.
LEMMA DeliverySteps ==
    ASSUME BaseInv, NEW h \in Handlers, Kinds(h), NEW i \in Onboardings, Delivering(h, i)'
    PROVE  \/ At(h, "check")'
           \/ /\ Delivering(h, i) /\ At(h, "check") /\ At(h, "intake")'
              /\ job'[h].known = Exists(i)
           \/ /\ Delivering(h, i) /\ Same(h) /\ ~At(h, "check")
              /\ job'[h].at \in {"insert", "audit"} => job[h].at \in {"intake", "insert"}
              /\ job'[h].at = "audit" => ~job[h].known
              /\ job'[h].at \notin {"intake", "check"}
<1> HIDE DEF Idle
<1>1. PointFits(job[h])
  BY DEF BaseInv, FitInv, Fits
<1>2. Idle.at = "idle"
  BY IdleFields
<1>3. job'[h].op \in IntakeRoutes /\ job'[h].need = i /\ job'[h].at # "idle"
  BY DEF Delivering, Busy, At
<1>4. CASE Begins(h)
  BY <1>3, <1>4 DEF Begins, BeginsOn, IntakeRoutes, At
<1>5. CASE Looks(h)
  BY <1>3, <1>5 DEF Looks, Onto, Same, AfterIntake, AfterAudit, At, Delivering, Busy
<1>6. CASE Inserts(h)
  BY <1>3, <1>6 DEF Inserts, Onto, Same, AfterIntake, AfterAudit, At, Delivering, Busy
<1>7. CASE Fills(h) \/ Describes(h) \/ Raises(h) \/ Loses(h) \/ Checks(h) \/ Mirrors(h)
           \/ Records(h) \/ WritesRitm(h)
  BY <1>2, <1>3, <1>7 DEF Fills, Describes, Raises, Loses, Checks, Mirrors, Records, WritesRitm,
     Onto, Same, At, Delivering, Busy
<1>8. CASE Ends(h) \/ Marks(h) \/ Answers(h)
  BY <1>2, <1>3, <1>8 DEF Ends, Marks, Answers
<1> QED BY <1>4, <1>5, <1>6, <1>7, <1>8 DEF Kinds

LEMMA ToldNext ==
    ASSUME BaseInv, Next, MetInv, Persists, NEW i \in Onboardings, i \notin met', Told(i)
    PROVE  Told(i)'
<1> HIDE DEF Idle
<1>1. /\ mails \in [Onboardings -> Nat] /\ audits \in [Onboardings -> Nat] /\ TypeOK
  BY DEF BaseInv, TypeOK
<1>2. i \notin met /\ (Exists(i) => Exists(i)')
  BY ExistsKept DEF Persists, HistoryKept
<1>3. CASE Crash /\ UNCHANGED intakeVars
  <2>1. \A h \in Handlers : ~Delivering(h, i)'
    BY <1>1, <1>3, CrashAfter, IdleFields DEF Delivering, Busy, At
  <2> QED BY <1>2, <1>3, <2>1 DEF Told, intakeVars
<1>4. ASSUME NEW h \in Handlers, Alone(h), Kinds(h), Counts(h) PROVE Told(i)'
  <2>1. PointFits(job[h]) /\ NeedFits(job[h])
    BY DEF BaseInv, FitInv, Fits
  <2>2. \A g \in Handlers \ {h} : /\ job'[g] = job[g]
                                  /\ Delivering(g, i)' => Delivering(g, i)
    BY <1>4 DEF Alone, Delivering, Busy, At
  <2>3. Delivering(h, i) => \A g \in Handlers \ {h} : ~Delivering(g, i)
    BY <1>2 DEF MetInv
  <2>4. CASE mails'[i] = mails[i] /\ audits'[i] = audits[i]
    <3>1. ASSUME NEW g \in Handlers \ {h}, Delivering(g, i)'
          PROVE  /\ job'[g].at # "check" /\ ~job'[g].known => mails'[i] = 0
                 /\ job'[g].at \in {"intake", "insert", "audit"} /\ ~job'[g].known => audits'[i] = 0
                 /\ job'[g].at = "audit" => ~job'[g].known
      BY <2>2, <2>4, <3>1 DEF Told
    <3>2. ASSUME Delivering(h, i)'
          PROVE  /\ job'[h].at # "check" /\ ~job'[h].known => mails'[i] = 0
                 /\ job'[h].at \in {"intake", "insert", "audit"} /\ ~job'[h].known => audits'[i] = 0
                 /\ job'[h].at = "audit" => ~job'[h].known
      BY <1>4, <2>4, <3>2, DeliverySteps DEF Told, Same, At
    <3> QED BY <1>2, <2>4, <3>1, <3>2 DEF Told
  <2>5. CASE /\ At(h, "audit") /\ Onto(h, AfterAudit(h)) /\ mails' = mails
             /\ audits' = [audits EXCEPT ![job[h].need] = @ + 1] /\ job[h].need = i
    <3>1. Delivering(h, i)
      BY <2>1, <2>5 DEF Delivering, Busy, At, PointFits
    <3>2. audits[i] = 0 /\ ~job[h].known /\ mails[i] = 0 /\ Exists(i)
      BY <2>1, <2>5, <3>1 DEF Told, At, NeedFits
    <3>3. audits'[i] = 1 /\ mails'[i] = 0
      BY <1>1, <2>5, <3>2
    <3>4. \A g \in Handlers \ {h} : ~Delivering(g, i)'
      BY <2>2, <2>3, <3>1
    <3>5. job'[h].at \notin {"check", "intake", "insert", "audit"}
      BY <2>5 DEF Onto, AfterAudit
    <3> QED BY <1>2, <3>2, <3>3, <3>4, <3>5 DEF Told
  <2>6. CASE /\ At(h, "notify") /\ job'[h] = Idle /\ audits' = audits /\ ~job[h].known
             /\ mails' = [mails EXCEPT ![job[h].need] = @ + 1] /\ job[h].need = i
    <3>1. Delivering(h, i)
      BY <2>1, <2>6 DEF Delivering, Busy, At, PointFits
    <3>2. mails[i] = 0 /\ Exists(i)
      BY <2>1, <2>6, <3>1 DEF Told, At, NeedFits
    <3>3. mails'[i] = 1 /\ audits'[i] = audits[i]
      BY <1>1, <2>6, <3>2
    <3>4. \A g \in Handlers : ~Delivering(g, i)'
      BY <2>2, <2>3, <2>6, <3>1, IdleFields DEF Delivering, Busy, At
    <3> QED BY <1>2, <3>2, <3>3, <3>4 DEF Told
  <2> QED BY <1>1, <1>4, <2>4, <2>5, <2>6 DEF Counts, intakeVars
<1> QED BY <1>1, <1>3, <1>4, NextSteps

\* ToldOnce: however deliveries repeat, fail between two steps or crash, one mail and
\* one audit row each, unless two deliveries met.
THEOREM ToldHolds == Spec => []ToldOnce
<1>1. Init => ToldInv
  BY IdleFields DEF Init, SubmissionInit, ToldInv, Told, Delivering, Busy, At
<1>2. ToldInv /\ BaseInv /\ MetInv /\ [Next]_vars => ToldInv'
  <2>1. ToldInv /\ UNCHANGED vars => ToldInv'
    BY DEF vars, submissionVars, worldVars, dbVars, intakeVars, historyVars, ToldInv, Told,
       Delivering, Busy, At, Exists
  <2>2. ASSUME ToldInv, BaseInv, MetInv, Next PROVE ToldInv'
    <3>1. Persists
      BY <2>2, BaseNext
    <3>2. \A i \in Onboardings \ met' : Told(i)
      BY <2>2, <3>1 DEF ToldInv, Persists, HistoryKept
    <3>3. \A i \in Onboardings \ met' : Told(i)'
      BY <2>2, <3>1, <3>2, ToldNext
    <3> QED BY <3>3 DEF ToldInv
  <2> QED BY <2>1, <2>2
<1>3. ToldInv => ToldOnce
  BY DEF ToldInv, Told, ToldOnce
<1> QED BY <1>1, <1>2, <1>3, IntakeFits, MetHolds, PTL DEF Spec

-----------------------------------------------------------------------------
(* What a flat delivery that succeeded has asked for. *)

Asked(i) == \/ \E r \in requests : r.sys = i /\ (r.lines = 0 \/ r.ritm # NoTicket)
            \/ \E k \in DOMAIN rows : rows[k].need = i
            \/ i \in rowLost

\* It is asked for before the mails go out, and stays asked for.
AskedInv ==
    /\ \A h \in Handlers : At(h, "notify") /\ job[h].op = "flat" => Asked(job[h].need)
    /\ \A i \in handled : Exists(i) /\ Asked(i)

LEMMA AskedKept ==
    ASSUME Persists, NEW i, Asked(i)
    PROVE  Asked(i)'
<1>1. RequestsKept /\ RowsKept /\ rowLost \subseteq rowLost'
  BY DEF Persists, HistoryKept
<1>2. CASE \E r \in requests : r.sys = i /\ (r.lines = 0 \/ r.ritm # NoTicket)
  BY <1>1, <1>2 DEF RequestsKept, Asked
<1>3. CASE \E k \in DOMAIN rows : rows[k].need = i
  BY <1>1, <1>3 DEF RowsKept, Asked
<1>4. CASE i \in rowLost
  BY <1>1, <1>4 DEF Asked
<1> QED BY <1>2, <1>3, <1>4 DEF Asked

\* The ways of a flat delivery to its mails.
LEMMA AskedFirst ==
    ASSUME BaseInv, Remember, Persists, NEW h \in Handlers, Kinds(h),
           At(h, "notify")', job'[h].op = "flat", NEW i, i = job'[h].need
    PROVE  Asked(i)'
<1> HIDE DEF Idle
<1>1. Idle.at = "idle"
  BY IdleFields
<1>2. PointFits(job[h]) /\ NeedFits(job[h]) /\ HandFits(job[h])
  BY DEF BaseInv, FitInv, Fits
<1>3. ASSUME Same(h), job[h].at \in {"failed", "queue"}, rows' = rows
      PROVE  Asked(i)'
  <2>1. job[h].op # "retry" /\ job'[h] # job[h] /\ job[h].need = i
    BY <1>3 DEF Same, At
  <2> QED BY <1>3, <2>1 DEF Remember, Asked
<1>4. CASE Looks(h)
  <2>1. At(h, "lines") /\ Still /\ job[h].need = i
    BY <1>4 DEF Looks, Onto, Same, AfterIntake, AfterAudit, At
  <2>2. RequestOf(i).lines = 0 \/ RequestOf(i).ritm # NoTicket
    BY <1>4, <2>1 DEF Looks, Onto, At
  <2>3. Exists(i)
    BY <1>2, <2>1 DEF NeedFits, At
  <2>4. Asked(i)
    BY <2>2, <2>3, OfRequest DEF Asked
  <2> QED BY <2>4, AskedKept
<1>5. CASE Loses(h)
  <2>1. At(h, "queue") /\ Same(h) /\ rows' = rows
    BY <1>1, <1>5 DEF Loses, Onto, At
  <2> QED BY <1>3, <2>1 DEF At
<1>6. CASE Records(h)
  <2>1. Same(h) /\ job[h].at \in {"failed", "queue"}
    BY <1>1, <1>6 DEF Records, Onto, At
  <2>2. CASE rows' = rows
    BY <1>3, <2>1, <2>2
  <2>3. CASE RowAdded(h)
    <3>1. Len(rows) + 1 \in DOMAIN rows' /\ rows'[Len(rows) + 1].need = i
      BY <2>1, <2>3 DEF RowAdded, Same
    <3> QED BY <3>1 DEF Asked
  <2>4. ~RowMarked(h)
    BY <1>1 DEF RowMarked, Marks, At
  <2> QED BY <2>2, <2>3, <2>4, RowsAfter DEF BaseInv
<1>7. CASE WritesRitm(h)
  <2>1. RitmWritten(h)
    <3>1. PICK r : /\ r = RequestOf(job[h].need) /\ At(h, "answered") /\ job[h].op = "flat"
                   /\ requests' = (requests \ {r}) \cup {[r EXCEPT !.ritm = job[h].ticket]}
      BY <1>7 DEF WritesRitm
    <3>2. Exists(job[h].need)
      BY <1>2, <3>1 DEF NeedFits, At, Ordering
    <3>3. r \in requests /\ r.sys = job[h].need /\ r \in Request
      BY <3>1, <3>2, OfRequest DEF BaseInv, TypeOK, SubmissionTypeOK
    <3>4. LET q == [r EXCEPT !.ritm = job[h].ticket] IN
          q.sys = r.sys /\ q.need = r.need /\ q.lines = r.lines /\ q.ritm = job[h].ticket
      BY <3>3 DEF Request
    <3> QED BY <1>7, <3>1, <3>3, <3>4 DEF RitmWritten
  <2>2. PICK q \in requests' : q.sys = job[h].need /\ q.ritm = job[h].ticket
    BY <2>1 DEF RitmWritten
  <2>3. job[h].ticket # NoTicket /\ job[h].need = i
    BY <1>2, <1>7 DEF WritesRitm, Onto, Same, HandFits, At
  <2> QED BY <2>2, <2>3 DEF Asked
<1> QED BY <1>1, <1>4, <1>5, <1>6, <1>7 DEF Kinds, Begins, BeginsOn, Ends, Fills, Describes,
     Raises, Checks, Mirrors, Marks, Inserts, Answers, Onto, Same, AfterIntake, AfterAudit, At

LEMMA AskedNext ==
    ASSUME BaseInv, Next, Persists, AskedInv
    PROVE  AskedInv'
<1> HIDE DEF Idle
<1>1. \A i : (Exists(i) => Exists(i)') /\ (Asked(i) => Asked(i)')
  BY ExistsKept, AskedKept
<1>2. CASE Crash /\ UNCHANGED intakeVars
  <2>1. \A h \in Handlers : ~At(h, "notify")'
    BY <1>2, CrashAfter, IdleFields DEF BaseInv, At
  <2> QED BY <1>1, <1>2, <2>1 DEF AskedInv, intakeVars
<1>3. ASSUME Remember, NEW h \in Handlers, Alone(h), Kinds(h), Counts(h) PROVE AskedInv'
  <2>1. ASSUME NEW g \in Handlers, At(g, "notify")', job'[g].op = "flat", NEW i, i = job'[g].need
        PROVE  Asked(i)'
    <3>1. CASE g # h
      BY <1>1, <1>3, <2>1, <3>1 DEF Alone, AskedInv, At
    <3>2. CASE g = h
      BY <1>3, <2>1, <3>2, AskedFirst
    <3> QED BY <3>1, <3>2
  <2>2. \A i \in handled' : Exists(i) /\ Asked(i)
    <3>1. At(h, "notify") => Exists(job[h].need)
      BY DEF BaseInv, FitInv, Fits, NeedFits, At
    <3> QED BY <1>3, <3>1 DEF Counts, intakeVars, AskedInv
  <2> QED BY <1>1, <2>1, <2>2 DEF AskedInv, Asked
<1> QED BY <1>2, <1>3, NextSteps DEF BaseInv

\* HandledMeansAskedFor: a success that n8n has seen left exactly one request, and
\* the licence is asked for, missing on record, or of nothing to ask.
THEOREM AskedHolds == Spec => []HandledMeansAskedFor
<1>1. Init => AskedInv
  BY IdleFields DEF Init, SubmissionInit, AskedInv, At
<1>2. AskedInv /\ BaseInv /\ [Next]_vars => AskedInv'
  <2>1. AskedInv /\ UNCHANGED vars => AskedInv'
    BY DEF vars, submissionVars, worldVars, dbVars, intakeVars, historyVars, AskedInv, Asked,
       Exists, At
  <2> QED BY <2>1, BaseNext, AskedNext
<1>3. AskedInv /\ BaseInv => HandledMeansAskedFor
  <2> SUFFICES ASSUME AskedInv, BaseInv, NEW i \in handled
               PROVE  /\ Cardinality({r \in requests : r.sys = i}) = 1
                      /\ \/ RequestOf(i).lines = 0 \/ RequestOf(i).ritm # NoTicket
                         \/ \E k \in DOMAIN rows : rows[k].need = i
                         \/ i \in rowLost
    BY DEF HandledMeansAskedFor
  <2>1. Exists(i) /\ Asked(i)
    BY DEF AskedInv
  <2>2. RequestOf(i) \in requests /\ RequestOf(i).sys = i
    BY <2>1, OfRequest
  <2>3. \A r \in requests : r.sys = i => r = RequestOf(i)
    BY <2>2 DEF BaseInv, RequestInv
  <2>4. {r \in requests : r.sys = i} = {RequestOf(i)}
    BY <2>2, <2>3
  <2> QED BY <2>1, <2>3, <2>4, FS_Singleton DEF Asked
<1> QED BY <1>1, <1>2, <1>3, IntakeFits, PTL DEF Spec

-----------------------------------------------------------------------------
(* How often a delivery raises. *)

\* The one ticket of an onboarding is on its request, or the delivery that raised
\* it holds it; while a delivery orders there is none.
Once(i) ==
    /\ \A t, u \in TicketsFor(i) : t = u
    /\ \A h \in Handlers : job[h].op = "flat" /\ job[h].need = i /\ job[h].at \in {"submit", "fill"}
                           => TicketsFor(i) = {}
    /\ \A t \in TicketsFor(i) :
          \/ \E r \in requests : r.sys = i /\ r.ritm # NoTicket
          \/ \E h \in Handlers : /\ Delivering(h, i) /\ job[h].at \in {"describe", "answered"}
                                 /\ job[h].ticket = t
Excused(i) == i \in met \/ Untracked(i) \/ i \in repaired
OnceInv == \A i \in Onboardings : Excused(i) \/ Once(i)

\* Who fills a cart or calls for an onboarding is its flat delivery.
LEMMA FlatOrders ==
    ASSUME BaseInv, NEW h \in Handlers, job[h].need \in Onboardings,
           job[h].need \notin repaired, job[h].at \in {"submit", "fill"}
    PROVE  job[h].op = "flat" /\ Delivering(h, job[h].need)
<1>1. PointFits(job[h]) /\ WorkFits(job[h])
  BY DEF BaseInv, FitInv, Fits
<1>2. job[h].op # "create"
  BY <1>1, SubmissionAssumption DEF PointFits
<1>3. job[h].op # "retry"
  BY <1>1 DEF WorkFits
<1> QED BY <1>1, <1>2, <1>3 DEF PointFits, Ordering, Delivering, Busy, At, IntakeRoutes

LEMMA OnceStep ==
    ASSUME BaseInv, MetInv, Remember, Persists, NEW h \in Handlers, Alone(h), Kinds(h),
           NEW i \in Onboardings, ~Excused(i)', Once(i)
    PROVE  Once(i)'
<1> HIDE DEF Idle
<1>1. TicketsKept /\ RequestsKept /\ i \notin met' /\ i \notin met /\ i \notin repaired
  BY DEF Persists, HistoryKept, Excused
<1>2. \A t \in DOMAIN tickets' : tickets'[t].for = i => tickets'[t].lost = "no"
  BY DEF Excused, Untracked, TicketsFor
<1>3. PointFits(job[h]) /\ NeedFits(job[h]) /\ HandFits(job[h])
  BY DEF BaseInv, FitInv, Fits
<1>4. Idle.at = "idle" /\ Idle.op = "create"
  BY IdleFields
<1>5. \A g \in Handlers \ {h} : /\ job'[g] = job[g]
                                /\ \A u \in Onboardings : Delivering(g, u)' <=> Delivering(g, u)
  BY DEF Alone, Delivering, Busy, At
<1>6. \A g \in Handlers \ {h} : ~(Delivering(h, i) /\ Delivering(g, i))
  BY <1>1 DEF MetInv
<1>7. CASE TicketRaised(h) /\ job[h].need = i
  <2> DEFINE n == Len(tickets) + 1
  <2> HIDE DEF n
  <2>1. /\ n \notin DOMAIN tickets /\ DOMAIN tickets' = DOMAIN tickets \cup {n}
        /\ tickets'[n].for = i /\ Raises(h)
        /\ \A t \in DOMAIN tickets : tickets'[t] = tickets[t]
        /\ job'[h].ticket = n /\ job'[h].at \in {"answered", "describe"}
    <3>1. tickets'[n].for = i /\ n \in DOMAIN tickets'
      BY <1>7 DEF TicketRaised, n
    <3>2. tickets'[n].lost # "answer"
      BY <1>2, <3>1
    <3> QED BY <1>7, <3>2 DEF TicketRaised, n
  <2>2. job[h].at \in {"submit", "fill"} /\ Same(h)
    BY <2>1 DEF Raises, At
  <2>3. job[h].op = "flat" /\ Delivering(h, i)
    BY <1>1, <1>7, <2>2, FlatOrders
  <2>4. TicketsFor(i) = {}
    BY <1>7, <2>2, <2>3 DEF Once
  <2>5. TicketsFor(i)' = {n}
    BY <2>1, <2>4 DEF TicketsFor
  <2>6. Delivering(h, i)'
    BY <1>7, <2>1, <2>2, <2>3 DEF Delivering, Busy, At, Same
  <2>7. ASSUME NEW g \in Handlers, job'[g].op = "flat", job'[g].need = i,
               job'[g].at \in {"submit", "fill"}
        PROVE  FALSE
    <3>1. g # h
      BY <2>1, <2>7
    <3>2. Delivering(g, i)'
      BY <2>7 DEF Delivering, Busy, At, IntakeRoutes
    <3> QED BY <1>5, <1>6, <2>3, <3>1, <3>2
  <2> QED BY <2>1, <2>5, <2>6, <2>7 DEF Once
<1>8. CASE TicketsFor(i)' = TicketsFor(i) /\ (Delivering(h, i) => ~Loses(h) \/ job[h].ticket = NoTicket)
  <2>1. ASSUME NEW g \in Handlers, job'[g].op = "flat", job'[g].need = i,
               job'[g].at \in {"submit", "fill"}
        PROVE  TicketsFor(i) = {}
    <3>1. CASE g # h
      BY <1>5, <2>1, <3>1 DEF Once
    <3>2. CASE g = h /\ job[h].op = "flat" /\ job[h].need = i /\ job[h].at \in {"submit", "fill"}
      BY <3>2 DEF Once
    <3>3. CASE g = h /\ Looks(h) /\ At(h, "lines") /\ job[h].op = "flat" /\ job[h].need = i
      <4>1. RequestOf(i).ritm = NoTicket /\ Exists(i)
        BY <1>3, <2>1, <3>3 DEF Looks, Onto, At, NeedFits
      <4>2. \A r \in requests : r.sys = i => r.ritm = NoTicket
        BY <4>1, OfRequest DEF BaseInv, RequestInv
      <4>3. Delivering(h, i)
        BY <3>3 DEF Delivering, Busy, At, IntakeRoutes
      <4>4. \A x \in Handlers : Delivering(x, i) => job[x].at = "lines"
        BY <1>6, <3>3, <4>3 DEF At
      <4> QED BY <4>2, <4>4 DEF Once
    <3>4. \/ job[h].op = "flat" /\ job[h].need = i /\ job[h].at \in {"submit", "fill"}
          \/ Looks(h) /\ At(h, "lines") /\ job[h].op = "flat" /\ job[h].need = i
          \/ g # h
      BY <1>4, <2>1 DEF Kinds, Begins, BeginsOn, Ends, Fills, Describes, Raises, Loses, Checks,
         Mirrors, Records, Marks, Looks, Inserts, WritesRitm, Answers, Onto, Same, AfterIntake,
         AfterAudit, At
    <3> QED BY <3>1, <3>2, <3>3, <3>4
  <2>2. ASSUME NEW t \in TicketsFor(i)
        PROVE  \/ \E r \in requests' : r.sys = i /\ r.ritm # NoTicket
               \/ \E g \in Handlers : /\ Delivering(g, i)' /\ job'[g].at \in {"describe", "answered"}
                                      /\ job'[g].ticket = t
    <3>1. CASE \E r \in requests : r.sys = i /\ r.ritm # NoTicket
      BY <1>1, <3>1 DEF RequestsKept
    <3>2. ASSUME NEW g \in Handlers \ {h}, Delivering(g, i), job[g].at \in {"describe", "answered"},
                 job[g].ticket = t
          PROVE  /\ Delivering(g, i)' /\ job'[g].at \in {"describe", "answered"}
                 /\ job'[g].ticket = t
      BY <1>5, <3>2
    <3>3. CASE Delivering(h, i) /\ job[h].at \in {"describe", "answered"} /\ job[h].ticket = t
      <4>1. job[h].op = "flat" /\ t # NoTicket
        BY <1>3, <3>3 DEF PointFits, HandFits, Ordering, Delivering, IntakeRoutes
      <4>2. Describes(h) \/ WritesRitm(h)
        BY <1>8, <3>3, <4>1 DEF Kinds, Begins, Ends, Fills, Raises, Checks, Mirrors, Records,
           Marks, Looks, Inserts, Answers, At
      <4>3. CASE Describes(h)
        BY <3>3, <4>3 DEF Describes, Onto, Same, Delivering, Busy, At
      <4>4. CASE WritesRitm(h)
        <5>1. \E r \in requests' : r.ritm = t /\ r.sys = i
          <6>1. Exists(job[h].need)
            BY <1>3, <4>1, <4>4 DEF NeedFits, WritesRitm, At, Ordering
          <6>2. RequestOf(job[h].need) \in Request /\ RequestOf(job[h].need).sys = i
            BY <3>3, <6>1, OfRequest DEF BaseInv, TypeOK, SubmissionTypeOK, Delivering
          <6>3. [RequestOf(job[h].need) EXCEPT !.ritm = t] \in requests'
            BY <3>3, <4>4 DEF WritesRitm
          <6> QED BY <6>2, <6>3 DEF Request
        <5> QED BY <4>1, <5>1
      <4> QED BY <4>2, <4>3, <4>4
    <3> QED BY <3>1, <3>2, <3>3 DEF Once
  <2> QED BY <1>8, <2>1, <2>2 DEF Once
<1>9. CASE Loses(h)
  <2>1. job[h].ticket # NoTicket => job[h].ticket \in DOMAIN tickets /\ tickets[job[h].ticket].for = job[h].need
    BY <1>3, <1>9 DEF Loses, HandFits, At
  <2>2. TicketLost(h)
    BY <1>9, LosesOne DEF BaseInv
  <2>3. job[h].ticket \in DOMAIN tickets => tickets'[job[h].ticket].lost # "no"
    BY <2>2 DEF TicketLost, Gone
  <2>4. job[h].ticket # NoTicket => job[h].need # i
    BY <1>2, <2>1, <2>2, <2>3 DEF TicketLost
  <2>5. TicketsFor(i)' = TicketsFor(i)
    BY <2>2 DEF TicketLost, TicketsFor
  <2> QED BY <1>8, <2>4, <2>5 DEF Delivering
<1>10. CASE TicketRaised(h) /\ job[h].need # i
  <2>1. TicketsFor(i)' = TicketsFor(i)
    BY <1>10 DEF TicketRaised, TicketsFor
  <2>2. ~(Loses(h) /\ Delivering(h, i))
    BY <1>10 DEF Delivering
  <2> QED BY <1>8, <2>1, <2>2
<1>11. CASE tickets' = tickets /\ ~Loses(h)
  BY <1>8, <1>11 DEF TicketsFor
<1> QED BY <1>7, <1>9, <1>10, <1>11, TicketsAfter DEF BaseInv, TicketLost

LEMMA OnceCrash ==
    ASSUME BaseInv, Persists, Crash, NEW i \in Onboardings, ~Excused(i)', Once(i)
    PROVE  Once(i)'
<1> HIDE DEF Idle
<1>1. /\ \A h \in Handlers : job'[h] = Idle
      /\ DOMAIN tickets' = DOMAIN tickets /\ TicketsKept /\ requests' = requests
      /\ \A t \in DOMAIN tickets : InHand(t) /\ Unused(t) => tickets'[t].lost = "crash"
  BY CrashAfter DEF BaseInv
<1>2. TicketsFor(i)' = TicketsFor(i)
  BY <1>1 DEF TicketsFor, TicketsKept
<1>3. ASSUME NEW t \in TicketsFor(i), NEW h \in Handlers, Delivering(h, i),
             job[h].at \in {"describe", "answered"}, job[h].ticket = t
      PROVE  FALSE
  <2>1. InHand(t) /\ Unused(t) /\ t \in DOMAIN tickets
    BY <1>3 DEF InHand, Delivering, Busy, BaseInv, FreshInv, HoldsNew, TicketsFor
  <2>2. tickets'[t].lost = "crash" /\ t \in TicketsFor(i)'
    BY <1>1, <1>2, <2>1
  <2> QED BY <2>2 DEF Excused, Untracked
<1> QED BY <1>1, <1>2, <1>3, IdleFields DEF Once

\* RaisedOnce: however n8n repeats and whatever fails, an onboarding has one ticket
\* unless the exceptions the property names have happened.
THEOREM RaisedHolds == Spec => []RaisedOnce
<1>1. Init => OnceInv
  BY IdleFields DEF Init, SubmissionInit, OnceInv, Once, TicketsFor
<1>2. OnceInv /\ BaseInv /\ MetInv /\ [Next]_vars => OnceInv'
  <2>1. OnceInv /\ UNCHANGED vars => OnceInv'
    BY DEF vars, submissionVars, worldVars, dbVars, historyVars, OnceInv, Once, Excused,
       TicketsFor, Untracked, Delivering, Busy, At
  <2>2. ASSUME OnceInv, BaseInv, MetInv, Next PROVE OnceInv'
    <3>1. Persists
      BY <2>2, BaseNext
    <3>2. SUFFICES ASSUME NEW i \in Onboardings, ~Excused(i)' PROVE Once(i)'
      BY DEF OnceInv
    <3>3. ~Excused(i)
      <4>1. Untracked(i) => Untracked(i)'
        BY <3>1 DEF Persists, TicketsKept, Untracked, TicketsFor
      <4> QED BY <3>1, <3>2, <4>1 DEF Persists, HistoryKept, Excused
    <3>4. Once(i)
      BY <2>2, <3>3 DEF OnceInv
    <3> QED BY <2>2, <3>1, <3>2, <3>4, NextSteps, OnceStep, OnceCrash DEF BaseInv
  <2> QED BY <2>1, <2>2
<1>3. OnceInv => RaisedOnce
  <2> SUFFICES ASSUME NEW i \in Onboardings, Once(i) PROVE ~(Cardinality(TicketsFor(i)) > 1)
    BY DEF OnceInv, Excused, RaisedOnce
  <2>1. CASE TicketsFor(i) = {}
    BY <2>1, FS_EmptySet
  <2>2. ASSUME NEW t \in TicketsFor(i) PROVE Cardinality(TicketsFor(i)) = 1
    <3>1. TicketsFor(i) = {t}
      BY <2>2 DEF Once
    <3> QED BY <3>1, FS_Singleton
  <2> QED BY <2>1, <2>2
<1> QED BY <1>1, <1>2, <1>3, IntakeFits, MetHolds, PTL DEF Spec

-----------------------------------------------------------------------------
(* How often the repairs of a row raise. *)

Kept(k)  == {t \in DOMAIN tickets : tickets[t].row = k /\ tickets[t].lost = "no"}
On(h, k) == Busy(h) /\ job[h].row = k

\* A repair is on its way from the ticket to the mirror.
Repairs(h, k, t) ==
    /\ On(h, k) /\ job[h].ticket = t
    /\ job[h].at \in {"describe", "answered", "resolve"} \/ (At(h, "mirror") /\ Unused(t))

\* A row one handler at a time works on: the ticket that is kept is being written,
\* or the row is resolved; a repair that orders finds none.
OneRow(k) ==
    /\ \A g, h \in Handlers : On(g, k) /\ On(h, k) => g = h
    /\ \A t, u \in Kept(k) : t = u
    /\ \A h \in Handlers : On(h, k) /\ job[h].at \in {"submit", "fill"} => Kept(k) = {}
    /\ \A t \in Kept(k) :
          \/ rows[k].status = "resolved" /\ \A h \in Handlers : ~On(h, k)
          \/ \E h \in Handlers : Repairs(h, k, t)
RowsInv == \A k \in DOMAIN rows \ rowMet : OneRow(k)

\* Who works on a row is an operator.
LEMMA OnRow ==
    ASSUME BaseInv
    PROVE  /\ 0 \notin DOMAIN rows
           /\ \A h \in Handlers : \A k : On(h, k) /\ k # 0 =>
                 k \in DOMAIN rows /\ job[h].op \in {"retry", "abandon", "reopen"}
<1>1. 0 \notin DOMAIN rows
  <2>1. rows \in Seq(Row)
    BY DEF BaseInv, TypeOK, SubmissionTypeOK
  <2> QED BY <2>1
<1>2. ASSUME NEW h \in Handlers, job[h].at # "idle", job[h].row # 0
      PROVE  job[h].row \in DOMAIN rows /\ job[h].op \in {"retry", "abandon", "reopen"}
  <2>1. PointFits(job[h]) /\ WorkFits(job[h]) /\ job[h] \in Job
    BY DEF BaseInv, FitInv, Fits, TypeOK, SubmissionTypeOK
  <2>2. job[h].op \in Ops
    BY <2>1 DEF Job
  <2>3. job[h].op \in {"retry", "abandon", "reopen"}
    BY <1>2, <2>1, <2>2 DEF PointFits, Ops, IntakeRoutes
  <2> QED BY <1>2, <2>1, <2>3 DEF WorkFits
<1> QED BY <1>1, <1>2 DEF On, Busy, At

\* How a handler comes to work on a row.
LEMMA OnNext ==
    ASSUME BaseInv, NEW h \in Handlers, Kinds(h), NEW k, k # 0, On(h, k)'
    PROVE  \/ At(h, "idle") /\ k \in DOMAIN rows /\ BeginsOn(h, k) /\ Still
           \/ On(h, k) /\ job'[h].row = job[h].row /\ ~Begins(h)
<1> HIDE DEF Idle
<1>1. Idle.at = "idle"
  BY IdleFields
<1>2. job'[h].at # "idle" /\ job'[h].row = k
  BY DEF On, Busy, At
<1>3. CASE Begins(h)
  BY <1>2, <1>3 DEF Begins, BeginsOn
<1>4. CASE ~Begins(h)
  BY <1>1, <1>2, <1>4 DEF Kinds, Ends, Fills, Describes, Raises, Loses, Checks, Mirrors, Records,
     Marks, Looks, Inserts, WritesRitm, Answers, Onto, Same, On, Busy, At
<1> QED BY <1>3, <1>4

\* A ticket that waits for its mirror in one handler's hand stays unused.
LEMMA UnusedKept ==
    ASSUME BaseInv, NEW h \in Handlers, Kinds(h), NEW t \in DOMAIN tickets, Unused(t),
           tickets[t].row # 0, NEW g \in Handlers \ {h}, job[g].ticket = t,
           ~On(h, tickets[t].row)
    PROVE  Unused(t)'
<1>1. PointFits(job[h]) /\ HandFits(job[h]) /\ WorkFits(job[h])
  BY DEF BaseInv, FitInv, Fits
<1>2. t \in Tickets /\ t \notin Onboardings /\ t # NoTicket /\ t # Given
  BY TicketsApart DEF BaseInv
<1>3. ASSUME At(h, "mirror") \/ (At(h, "answered") /\ job[h].op \in {"create", "flat"})
      PROVE  job[h].ticket # t
  <2>1. job[h].op \in {"create", "flat"} => job[h].ticket # t
    BY <1>1, <1>2 DEF HandFits
  <2>2. CASE At(h, "mirror")
    <3>1. job[h].op = "retry" /\ job[h].row \in DOMAIN rows /\ Busy(h)
      BY <1>1, <2>2 DEF PointFits, WorkFits, At, Busy
    <3>2. rows[job[h].row].kind # "mirror" => job[h].ticket # t
      BY <1>1, <1>2, <3>1 DEF WorkFits, Busy, At, On
    <3>3. rows[job[h].row].kind = "mirror" => job[h].ticket # t
      BY <1>1, <3>1 DEF WorkFits, Busy, At, Unused
    <3> QED BY <3>2, <3>3
  <2> QED BY <1>3, <2>1, <2>2
<1>4. ~Mirrored(t)'
  <2>1. CASE MirrorAdded(h)
    <3>1. /\ requests' = requests \cup {NewMirror(job[h].need, job[h].ticket)}
          /\ job[h].ticket # t
      BY <1>3, <2>1 DEF MirrorAdded, Mirrors
    <3> QED BY <3>1 DEF NewMirror, Mirrored, Unused
  <2>2. CASE ArrivalAdded(h)
    <3>1. PICK r : /\ requests' = requests \cup {r} /\ r.sys = job[h].need
                   /\ r.ritm \in {NoTicket, Given}
      BY <2>2 DEF ArrivalAdded
    <3>2. job[h].need \in Onboardings
      BY <1>1, <2>2 DEF ArrivalAdded, PointFits, At
    <3> QED BY <1>2, <3>1, <3>2 DEF Mirrored, Unused
  <2>3. CASE RitmWritten(h)
    <3>1. PICK r, q : /\ WritesRitm(h) /\ r \in requests /\ q.sys = r.sys
                      /\ q.ritm = job[h].ticket /\ requests' = (requests \ {r}) \cup {q}
      BY <2>3 DEF RitmWritten
    <3>2. job[h].ticket # t
      BY <1>3, <3>1 DEF WritesRitm
    <3> QED BY <3>1, <3>2 DEF Mirrored, Unused
  <2> QED BY <2>1, <2>2, <2>3, RequestsAfter DEF Mirrored, Unused
<1>5. ~\E k \in DOMAIN rows' : rows'[k].ref = t
  <2>1. CASE RowAdded(h)
    <3>1. At(h, "queue") => job[h].ticket # t
      BY DEF BaseInv, FreshInv, HoldsNew, At
    <3> QED BY <1>2, <2>1, <3>1 DEF RowAdded, Unused
  <2>2. CASE RowMarked(h)
    BY <2>2 DEF RowMarked, Unused
  <2> QED BY <2>1, <2>2, RowsAfter DEF BaseInv, Unused
<1> QED BY <1>4, <1>5 DEF Unused

\* A ticket is raised for a row.
LEMMA RowRaises ==
    ASSUME BaseInv, FreshInv', NEW h \in Handlers, TicketRaised(h),
           NEW k, k # 0, job[h].row = k, OneRow(k), NEW n, n = Len(tickets) + 1, tickets'[n].lost = "no",
           \A f, g \in Handlers : On(f, k)' /\ On(g, k)' => f = g
    PROVE  OneRow(k)'
<1>1. /\ n \notin DOMAIN tickets /\ DOMAIN tickets' = DOMAIN tickets \cup {n}
      /\ \A t \in DOMAIN tickets : tickets'[t] = tickets[t]
      /\ tickets'[n].row = k /\ tickets'[n].lost = "no" /\ Raises(h)
      /\ job'[h].ticket = n /\ job'[h].at \in {"answered", "describe"}
  BY DEF TicketRaised
<1>2. job[h].at \in {"submit", "fill"} /\ Same(h)
  BY <1>1 DEF Raises, At
<1>3. On(h, k) /\ On(h, k)'
  BY <1>1, <1>2 DEF On, Busy, At, Same
<1>4. Kept(k) = {}
  BY <1>2, <1>3 DEF OneRow
<1>5. Kept(k)' = {n}
  BY <1>1, <1>4 DEF Kept
<1>6. Repairs(h, k, n)'
  BY <1>1, <1>3 DEF Repairs
<1>7. \A g \in Handlers : On(g, k)' => job'[g].at \notin {"submit", "fill"}
  BY <1>1, <1>3
<1> QED BY <1>5, <1>6, <1>7 DEF OneRow

\* Where the ticket of a row is after a step of the handler that works on it.
LEMMA RepairsOn ==
    ASSUME BaseInv, BaseInv', Remember, NEW h \in Handlers, Kinds(h),
           NEW k \in DOMAIN rows, k \notin rowMet', NEW t, t \in Kept(k), t \in Kept(k)',
           Repairs(h, k, t)
    PROVE  \/ Repairs(h, k, t)'
           \/ rows'[k].status = "resolved" /\ ~On(h, k)'
<1> HIDE DEF Idle
<1>1. PointFits(job[h]) /\ HandFits(job[h]) /\ WorkFits(job[h]) /\ TicketFits(t)
  BY DEF BaseInv, FitInv, Fits, TicketInv, Kept
<1>2. /\ job[h].row = k /\ job[h].at # "idle" /\ job[h].ticket = t /\ k # 0
      /\ job[h].op \in {"retry", "abandon", "reopen"}
  BY OnRow DEF Repairs, On, Busy, At
<1>3. job[h].op = "retry" /\ rows[k].kind = "submit" /\ t # NoTicket
  <2>1. t \in DOMAIN tickets /\ tickets[t].row = k
    BY DEF Kept
  <2> QED BY <1>1, <1>2, <2>1, TicketsApart DEF Repairs, PointFits, TicketFits, Ordering, At, BaseInv
<1>4. ~Loses(h)
  <2>1. TicketLost(h) => tickets'[t].lost # "no"
    BY <1>2 DEF TicketLost, Kept, Gone
  <2> QED BY <2>1, LosesOne DEF BaseInv, Kept
<1>5. CASE Describes(h)
  <2>1. On(h, k)' /\ job'[h].ticket = t /\ job'[h].at = "answered"
    BY <1>2, <1>5 DEF Describes, Onto, Same, On, Busy, At
  <2> QED BY <2>1 DEF Repairs
<1>6. CASE Checks(h)
  <2>1. Still /\ On(h, k)' /\ job'[h].ticket = t /\ job'[h].at \in {"resolve", "mirror"}
    BY <1>2, <1>3, <1>6 DEF Checks, Onto, Same, On, Busy, At, Repairs
  <2>2. Unused(t)
    BY <1>2, <1>6 DEF Repairs, BaseInv, FreshInv, HoldsNew, Checks, At
  <2>3. Unused(t)'
    BY <2>1, <2>2 DEF Unused, Mirrored, Still
  <2> QED BY <2>1, <2>3 DEF Repairs, At
<1>7. CASE Mirrors(h)
  <2>1. On(h, k)' /\ job'[h].ticket = t /\ job'[h].at = "resolve"
    BY <1>2, <1>3, <1>7 DEF Mirrors, Onto, Same, On, Busy, At
  <2> QED BY <2>1 DEF Repairs
<1>8. CASE Marks(h)
  <2>1. At(h, "resolve") /\ job'[h] = Idle /\ ~At(h, "resolve")'
    BY <1>3, <1>8, <1>1, IdleFields DEF Marks, PointFits, At
  <2>2. rows' # rows
    BY <1>2, <2>1 DEF Remember
  <2>3. RowMarked(h)
    BY <1>8, <2>1, <2>2, RowsAfter DEF BaseInv, RowAdded, Records, At
  <2>4. rows'[k].status = "resolved"
    BY <1>2, <2>1, <2>3 DEF RowMarked, At
  <2> QED BY <2>1, <2>4, IdleFields DEF On, Busy, At
<1> QED BY <1>2, <1>3, <1>4, <1>5, <1>6, <1>7, <1>8 DEF Kinds, Repairs, Begins, Ends, Fills,
     Raises, Records, Looks, Inserts, WritesRitm, Answers, At

LEMMA OneRowNext ==
    ASSUME BaseInv, BaseInv', Remember, Persists, NEW h \in Handlers, Alone(h), Kinds(h),
           NEW k \in DOMAIN rows, k \notin rowMet', OneRow(k)
    PROVE  OneRow(k)'
<1> HIDE DEF Idle
<1>1. /\ k # 0
      /\ \A g \in Handlers \ {h} : job'[g] = job[g] /\ (On(g, k)' <=> On(g, k))
  BY OnRow DEF Alone, On, Busy, At
<1>2. \A f, g \in Handlers : On(f, k)' /\ On(g, k)' => f = g
  BY DEF Remember, On, Busy, At
<1>3. \A f, g \in Handlers : On(f, k) /\ On(g, k) => f = g
  BY DEF OneRow
<1>4. CASE TicketRaised(h) /\ job[h].row = k /\ tickets'[Len(tickets) + 1].lost = "no"
  BY <1>1, <1>2, <1>4, RowRaises DEF BaseInv
<1>5. CASE Kept(k)' \subseteq Kept(k)
  <2>1. \A t, u \in Kept(k)' : t = u
    BY <1>5 DEF OneRow
  <2>2. ASSUME NEW g \in Handlers, On(g, k)', job'[g].at \in {"submit", "fill"}
        PROVE  Kept(k)' = {}
    <3>1. CASE On(g, k) /\ job[g].at \in {"submit", "fill"}
      BY <1>5, <3>1 DEF OneRow
    <3>2. CASE g = h /\ BeginsOn(h, k) /\ At(h, "idle")
      <4>1. rows[k].status # "resolved" /\ ~On(h, k)
        BY <3>2 DEF BeginsOn, On, Busy
      <4>2. ASSUME NEW f \in Handlers, On(f, k) PROVE FALSE
        BY <1>1, <1>2, <2>2, <3>2, <4>1, <4>2
      <4>3. Kept(k) = {}
        BY <4>1, <4>2 DEF OneRow, Repairs
      <4> QED BY <1>5, <4>3
    <3>3. CASE g # h
      BY <1>1, <2>2, <3>1, <3>3
    <3>4. ASSUME g = h, On(h, k), ~Begins(h) PROVE job[h].at \in {"submit", "fill"}
      <4>1. job[h].op \in {"retry", "abandon", "reopen"} /\ PointFits(job[h])
        BY <1>1, <3>4, OnRow DEF BaseInv, FitInv, Fits
      <4> QED BY <2>2, <3>4, <4>1, IdleFields DEF Kinds, Ends, Fills, Describes, Raises, Loses,
         Checks, Mirrors, Records, Marks, Looks, Inserts, WritesRitm, Answers, Onto, Same,
         AfterIntake, AfterAudit, At, PointFits, IntakeRoutes
    <3> QED BY <1>1, <2>2, <3>1, <3>2, <3>3, <3>4, OnNext
  <2>3. ASSUME NEW t \in Kept(k)'
        PROVE  \/ rows'[k].status = "resolved" /\ \A g \in Handlers : ~On(g, k)'
               \/ \E g \in Handlers : Repairs(g, k, t)'
    <3>1. CASE rows[k].status = "resolved" /\ \A g \in Handlers : ~On(g, k)
      <4>1. ~On(h, k)'
        BY <1>1, <3>1, OnNext DEF BeginsOn
      <4>2. RowMarked(h) => job[h].row # k
        <5>1. RowMarked(h) => Busy(h)
          BY DEF RowMarked, Marks, Busy, At
        <5> QED BY <3>1, <5>1 DEF On
      <4>3. rows'[k].status = "resolved"
        BY <3>1, <4>2, RowsAfter DEF BaseInv, RowAdded, RowMarked
      <4> QED BY <1>1, <3>1, <4>1, <4>3
    <3>2. ASSUME NEW g \in Handlers \ {h}, Repairs(g, k, t) PROVE Repairs(g, k, t)'
      <4>1. t \in DOMAIN tickets /\ tickets[t].row = k /\ ~On(h, k)
        BY <1>3, <1>5, <3>2 DEF Kept, Repairs
      <4>2. At(g, "mirror") => Unused(t)'
        BY <1>1, <3>2, <4>1, UnusedKept DEF Repairs, At
      <4> QED BY <1>1, <3>2, <4>2 DEF Repairs, At
    <3>3. CASE Repairs(h, k, t)
      <4>1. \/ Repairs(h, k, t)'
            \/ rows'[k].status = "resolved" /\ ~On(h, k)'
        BY <1>5, <2>3, <3>3, RepairsOn
      <4>2. \A g \in Handlers \ {h} : ~On(g, k)'
        BY <1>1, <1>3, <3>3 DEF Repairs
      <4> QED BY <4>1, <4>2
    <3> QED BY <1>5, <3>1, <3>2, <3>3 DEF OneRow
  <2> QED BY <1>2, <2>1, <2>2, <2>3 DEF OneRow
<1>6. CASE TicketRaised(h) /\ ~(job[h].row = k /\ tickets'[Len(tickets) + 1].lost = "no")
  BY <1>5, <1>6 DEF TicketRaised, Kept
<1>7. CASE TicketLost(h)
  BY <1>5, <1>7 DEF TicketLost, Gone, Kept
<1> QED BY <1>4, <1>5, <1>6, <1>7, TicketsAfter DEF BaseInv, Kept

\* A new row has no repair yet.
LEMMA NewRow ==
    ASSUME BaseInv, NEW h \in Handlers, Alone(h), Kinds(h),
           NEW k \in DOMAIN rows', k \notin DOMAIN rows
    PROVE  OneRow(k)'
<1> HIDE DEF Idle
<1>1. RowAdded(h)
  BY RowsAfter DEF BaseInv, RowMarked
<1>2. tickets' = tickets /\ k # 0 /\ Records(h)
  <2>1. rows \in Seq(Row) /\ k = Len(rows) + 1
    BY <1>1 DEF BaseInv, TypeOK, SubmissionTypeOK, RowAdded
  <2>2. k # 0
    BY <2>1
  <2> QED BY <1>1, <2>2 DEF RowAdded, Records
<1>3. Kept(k)' = {}
  BY <1>2 DEF Kept, BaseInv, TicketInv, TicketFits
<1>4. \A g \in Handlers : ~On(g, k)
  BY <1>2, OnRow
<1>5. ~On(h, k)'
  BY <1>2, <1>4, OnNext
<1>6. \A g \in Handlers \ {h} : ~On(g, k)'
  BY <1>4 DEF Alone, On, Busy, At
<1> QED BY <1>3, <1>5, <1>6 DEF OneRow

LEMMA OneRowCrash ==
    ASSUME BaseInv, Remember, Crash, NEW k \in DOMAIN rows, k \notin rowMet', OneRow(k)
    PROVE  OneRow(k)'
<1> HIDE DEF Idle
<1>1. /\ \A h \in Handlers : job'[h] = Idle
      /\ DOMAIN tickets' = DOMAIN tickets /\ TicketsKept /\ rows' = rows
      /\ \A t \in DOMAIN tickets : InHand(t) /\ Unused(t) => tickets'[t].lost = "crash"
  BY CrashAfter DEF BaseInv
<1>2. \A h \in Handlers : ~On(h, k)' /\ ~At(h, "resolve")'
  BY <1>1, IdleFields DEF On, Busy, At
<1>3. Kept(k)' \subseteq Kept(k)
  BY <1>1 DEF Kept, TicketsKept
<1>4. ASSUME NEW t \in Kept(k)', NEW h \in Handlers, Repairs(h, k, t) PROVE FALSE
  <2>1. ~At(h, "resolve")
    BY <1>1, <1>2, <1>4 DEF Remember, Repairs, On
  <2>2. InHand(t) /\ Unused(t)
    BY <1>4, <2>1 DEF Repairs, On, Busy, InHand, At, BaseInv, FreshInv, HoldsNew
  <2>3. tickets'[t].lost = "crash"
    BY <1>1, <1>3, <2>2 DEF Kept
  <2> QED BY <2>3 DEF Kept
<1> QED BY <1>1, <1>2, <1>3, <1>4 DEF OneRow

\* RowRaisesOnce: of the tickets that the repairs of a row raised one is kept, unless
\* two handlers met on it or a repair that was done was never marked.
THEOREM RowsHold == Spec => []RowRaisesOnce
<1>1. Init => RowsInv
  BY DEF Init, SubmissionInit, RowsInv
<1>2. RowsInv /\ BaseInv /\ [Next]_vars => RowsInv'
  <2>1. RowsInv /\ UNCHANGED vars => RowsInv'
    BY DEF vars, submissionVars, worldVars, dbVars, historyVars, RowsInv, OneRow, Kept, On,
       Repairs, Unused, Mirrored, Busy, At
  <2>2. ASSUME RowsInv, BaseInv, Next PROVE RowsInv'
    <3>1. BaseInv' /\ Persists
      BY <2>2, BaseNext
    <3>2. SUFFICES ASSUME NEW k \in DOMAIN rows', k \notin rowMet' PROVE OneRow(k)'
      BY DEF RowsInv
    <3>3. k \in DOMAIN rows => OneRow(k)
      BY <2>2, <3>1, <3>2 DEF Persists, HistoryKept, RowsInv
    <3>4. ASSUME Remember, NEW h \in Handlers, Alone(h), Kinds(h) PROVE OneRow(k)'
      BY <2>2, <3>1, <3>2, <3>3, <3>4, OneRowNext, NewRow
    <3>5. ASSUME Remember, Crash PROVE OneRow(k)'
      <4>1. DOMAIN rows' = DOMAIN rows
        BY <2>2, <3>5, CrashAfter DEF BaseInv
      <4> QED BY <2>2, <3>2, <3>3, <3>5, <4>1, OneRowCrash
    <3> QED BY <2>2, <3>4, <3>5, NextSteps DEF BaseInv
  <2> QED BY <2>1, <2>2
<1>3. RowsInv => RowRaisesOnce
  <2> SUFFICES ASSUME RowsInv, NEW k \in DOMAIN rows, OneRow(k)
               PROVE  ~(Cardinality(Kept(k)) > 1)
    BY DEF RowsInv, RowRaisesOnce, Kept
  <2>1. CASE Kept(k) = {}
    BY <2>1, FS_EmptySet
  <2>2. ASSUME NEW t \in Kept(k) PROVE Cardinality(Kept(k)) = 1
    <3>1. Kept(k) = {t}
      BY <2>2 DEF OneRow
    <3> QED BY <3>1, FS_Singleton
  <2> QED BY <2>1, <2>2
<1> QED BY <1>1, <1>2, <1>3, IntakeFits, PTL DEF Spec

=============================================================================
