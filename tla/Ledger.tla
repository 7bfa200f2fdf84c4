------------------------------- MODULE Ledger -------------------------------
(***************************************************************************)
(* The OpCo licence ledger and its reconciliation with the tenant          *)
(* (license/ledger-write.service.ts, allocation-import.service.ts,         *)
(* allocation-reset.service.ts, ledger-full-reset.service.ts,              *)
(* assigned-baseline.ts, reconcile.service.ts).                            *)
(*                                                                         *)
(* A cell of the ledger says what an OpCo may use of a licence (allocated) *)
(* and what it uses (assigned).  Assigns count seats one at a time; edits, *)
(* imports, baselines and resets write absolute numbers that they worked   *)
(* out from an earlier read.  A reconciliation compares the tenant's total *)
(* of each licence with the sum of its cells and raises a drift alert.     *)
(* Which licences there are, and what the matrix calls them, the catalog   *)
(* says, which others curate at the same time.                             *)
(***************************************************************************)
EXTENDS Catalog, Integers, Sequences

CONSTANTS
    Opcos,
    Cells,         \* bound: the pairs of an OpCo and a licence that have seats
    MaxQuantity    \* bound: the numbers that are typed in or imported

ASSUME LedgerAssumption ==
    /\ IsFiniteSet(Opcos) /\ Cells \subseteq Opcos \X Skus /\ Cells # {}
    /\ MaxQuantity \in Nat

Quantities == 0 .. MaxQuantity

VARIABLES
    cells,      \* table OpcoSkuLedger; a missing row is one of zeros
    adjusted,   \* table LedgerAdjustment: the sum of what its rows changed assigned by
    alerts,     \* table DriftAlert, per licence
    consumed,   \* the tenant's seats in use, per licence
    job,        \* what each handler does to the ledger
    counted,    \* history: seats that assigns counted, per cell
    overtaken,  \* history: cells whose assigned changed between another's read and write
    repeated,   \* history: cells that a baseline whose file has them twice changed twice
    doubled,    \* history: licences that got a second open alert from a run on which
                \* something moved
    clean,      \* history: licences that nothing touched since the handler began
    fresh       \* history: licences that nothing touched since a run that settled them began

tables  == <<cells, adjusted, alerts, consumed>>
history == <<counted, overtaken, repeated, doubled, clean, fresh>>
vars    == <<catalogVars, tables, job, history>>

Row   == [allocated : Nat, assigned : Nat]
Alert == [status : {"OPEN", "RESOLVED"}, delta : Int]

Points == {"idle", "write", "zero", "clear", "grant", "count",
           "catalog", "look", "sum", "raise", "resolve"}

\* before is what a writer has read, next what it wants to be there, and again what
\* its earlier changes of the same cell add to the adjustments; free, todo, sku,
\* open, live and delta are a reconciliation's.
Job == [at : Points, cell : Cells, scope : SUBSET Cells, before : [Cells -> Row],
        next : [Cells -> Row], again : [Cells -> Int], live : [Skus -> Nat],
        free : SUBSET Skus, todo : SUBSET Skus, sku : Skus, open : Nat, delta : Int]

NoRows == [c \in Cells |-> [allocated |-> 0, assigned |-> 0]]
Once   == [c \in Cells |-> 0]
Idle   == [at |-> "idle", cell |-> CHOOSE c \in Cells : TRUE, scope |-> {},
           before |-> NoRows, next |-> NoRows, again |-> Once,
           live |-> [s \in Skus |-> 0], free |-> {}, todo |-> {},
           sku |-> CHOOSE s \in Skus : TRUE, open |-> 0, delta |-> 0]

TypeOK ==
    /\ cells \in [Cells -> Row]
    /\ adjusted \in [Cells -> Int]
    /\ alerts \in [Skus -> Seq(Alert)]
    /\ consumed \in [Skus -> Nat]
    /\ job \in [Handlers -> Job]
    /\ CatalogTypeOK
    /\ counted \in [Cells -> Nat]
    /\ clean \in [Handlers -> SUBSET Skus]
    /\ overtaken \subseteq Cells /\ repeated \subseteq Cells /\ doubled \subseteq Skus /\ fresh \subseteq Skus

Init ==
    /\ cells = NoRows
    /\ adjusted = [c \in Cells |-> 0]
    /\ alerts = [s \in Skus |-> <<>>]
    /\ consumed = [s \in Skus |-> 0]
    /\ job = [h \in Handlers |-> Idle]
    /\ CatalogInit
    /\ counted = [c \in Cells |-> 0]
    /\ clean = [h \in Handlers |-> {}]
    /\ overtaken = {} /\ repeated = {} /\ doubled = {} /\ fresh = {}

At(h, where) == job[h].at = where
Go(h, where) == job' = [job EXCEPT ![h].at = where] /\ UNCHANGED begun
Done(h)      == job' = [job EXCEPT ![h] = Idle] /\ UNCHANGED begun

MayBegin(h) == At(h, "idle") /\ Doing(h, "idle") /\ begun < MaxJobs

Begin(h, work) ==
    /\ MayBegin(h)
    /\ job' = [job EXCEPT ![h] = work]
    /\ begun' = begun + 1

CellsOf(s)   == {c \in Cells : c[2] = s}
CellsFor(o)  == {c \in Cells : c[1] = o}
\* The sum of a column, as the number of the seats that are in it.
AssignedSum(s) == Cardinality(UNION {{c} \X (1 .. cells[c].assigned) : c \in CellsOf(s)})
OpenAlerts(s) == {k \in DOMAIN alerts[s] : alerts[s][k].status = "OPEN"}

-----------------------------------------------------------------------------
(* Writing absolute numbers. *)

\* A handler that has read the ledger and will write next where it differs from
\* what it read; without a difference it writes nothing.
Plan(h, next, again) ==
    /\ next # cells
    /\ Begin(h, [Idle EXCEPT !.at = "write", !.before = cells, !.next = next,
                             !.again = again])
    /\ UNCHANGED tables

\* updateLedgerRow: one row, either field or both.
EditRow(h) ==
    \E c \in Cells, row \in [allocated : Quantities, assigned : Quantities] :
        Plan(h, [cells EXCEPT ![c] = row], Once)

\* What a file says of a cell, in its order, in files of some OpCos and labels: a
\* header or a label that is repeated lists its cells once more (bound: files that
\* repeat headers or labels, not both, and each of them once).
Listings == {<<n>> : n \in Quantities} \cup (Quantities \X Quantities)

Grids == {Cells \cap (headers \X labels) :
             headers \in SUBSET Opcos, labels \in SUBSET Skus}

Files ==
    {file \in UNION {[grid -> Listings] : grid \in Grids} :
        \E again \in {o \X Skus : o \in SUBSET Opcos} \cup {Opcos \X s : s \in SUBSET Skus} :
            \A c \in DOMAIN file : Len(file[c]) = 2 <=> c \in again}

\* parseAllocationMatrix: headers are OpCos, and rows reach active licences by their
\* alias, of two that share it one, whichever the database returned last.
Matrices ==
    {file \in Files : \A c, d \in DOMAIN file :
        /\ c[2] \in Active /\ catalog[c[2]].alias # NoAlias
        /\ catalog[c[2]].alias = catalog[d[2]].alias => c[2] = d[2]}

\* The listings of a cell that say other than was: each is a change of its own, from
\* the same before, and the last one stays.
Changes(was, listing) == {k \in DOMAIN listing : listing[k] # was}

Target(was, listing) ==
    IF 2 \in Changes(was, listing) THEN listing[2]
    ELSE IF 1 \in Changes(was, listing) THEN listing[1] ELSE was

Again(was, listing) ==
    IF {1, 2} \subseteq Changes(was, listing) THEN listing[1] - was ELSE 0

\* The ledger as a matrix would have it, on what was read.
Imported(m) ==
    [c \in Cells |-> IF c \in DOMAIN m
                     THEN [cells[c] EXCEPT !.allocated = Target(@, m[c])] ELSE cells[c]]

Baselined(m) ==
    [c \in Cells |-> IF c \in DOMAIN m
                     THEN [cells[c] EXCEPT !.assigned = Target(@, m[c])] ELSE cells[c]]

BookedAgain(m) ==
    [c \in Cells |-> IF c \in DOMAIN m THEN Again(cells[c].assigned, m[c]) ELSE 0]

\* AllocationImportService.import, of a matrix that names some of the cells.
Import(h) ==
    /\ MayBegin(h)
    /\ \E next \in {Imported(m) : m \in Matrices} : Plan(h, next, Once)

\* planAssignedBaseline, run by hand with the same kind of matrix.
Baseline(h) ==
    /\ MayBegin(h)
    /\ \E plan \in {<<Baselined(m), BookedAgain(m)>> : m \in Matrices} :
         Plan(h, plan[1], plan[2])

\* The cell c with the fields that h means to change.
Changed(h, c) ==
    LET was == job[h].before[c]
        to  == job[h].next[c]
    IN  [allocated |-> IF to.allocated # was.allocated THEN to.allocated
                       ELSE cells[c].allocated,
         assigned  |-> IF to.assigned # was.assigned THEN to.assigned
                       ELSE cells[c].assigned]

\* Mutant: the difference is added to what is there by now.
WriteDifferences(h) ==
    /\ At(h, "write")
    /\ cells' = [c \in Cells |->
         [allocated |-> Changed(h, c).allocated,
          assigned  |-> cells[c].assigned + job[h].next[c].assigned
                                          - job[h].before[c].assigned]]
    /\ Done(h)
    /\ UNCHANGED <<adjusted, alerts, consumed>>

\* One transaction, with an adjustment for each change of assigned, from the before
\* that was read: two of a cell that is listed twice.
Write(h) ==
    /\ At(h, "write")
    /\ cells' = [c \in Cells |-> Changed(h, c)]
    /\ adjusted' = [c \in Cells |->
         adjusted[c] + job[h].next[c].assigned - job[h].before[c].assigned
                     + job[h].again[c]]
    /\ Done(h)
    /\ UNCHANGED <<alerts, consumed>>

\* AllocationResetService.reset, for one OpCo or for all: nothing to do if every
\* allocation is zero.
AllocationReset(h, scope) ==
    /\ \E c \in scope : cells[c].allocated > 0
    /\ Begin(h, [Idle EXCEPT !.at = "zero", !.scope = scope])
    /\ UNCHANGED tables

ZeroAllocations(h) ==
    /\ At(h, "zero")
    /\ cells' = [c \in Cells |-> IF c \in job[h].scope
                                 THEN [cells[c] EXCEPT !.allocated = 0] ELSE cells[c]]
    /\ Done(h)
    /\ UNCHANGED <<adjusted, alerts, consumed>>

\* LedgerFullResetService.reset reads what it will zero, inside its transaction;
\* at the database's default isolation others commit until the update.
FullReset(h, scope) ==
    /\ \E c \in scope : cells[c].allocated > 0 \/ cells[c].assigned > 0
    /\ Begin(h, [Idle EXCEPT !.at = "clear", !.scope = scope, !.before = cells])
    /\ UNCHANGED tables

\* Mutant: the zeroed numbers leave no adjustment.
ClearSilently(h) ==
    /\ At(h, "clear")
    /\ cells' = [c \in Cells |-> IF c \in job[h].scope THEN NoRows[c] ELSE cells[c]]
    /\ Done(h)
    /\ UNCHANGED <<adjusted, alerts, consumed>>

Clear(h) ==
    /\ At(h, "clear")
    /\ cells' = [c \in Cells |-> IF c \in job[h].scope THEN NoRows[c] ELSE cells[c]]
    /\ adjusted' = [c \in Cells |->
         adjusted[c] - IF c \in job[h].scope THEN job[h].before[c].assigned ELSE 0]
    /\ Done(h)
    /\ UNCHANGED <<alerts, consumed>>

-----------------------------------------------------------------------------
(* Assigning, as far as the ledger sees it (Fulfilment has the rest). *)

\* The budget gate, or its override.
Assign(h, c) ==
    /\ Begin(h, [Idle EXCEPT !.at = "grant", !.cell = c])
    /\ UNCHANGED tables

\* The licence call: granted, or a seat the person had, or refused.
GrantSeat(h) ==
    /\ At(h, "grant")
    /\ \/ consumed' = [consumed EXCEPT ![job[h].cell[2]] = @ + 1] /\ Go(h, "count")
       \/ Done(h) /\ UNCHANGED consumed
    /\ UNCHANGED <<cells, adjusted, alerts>>

\* The upsert that increments.
CountSeat(h) ==
    LET c == job[h].cell IN
    /\ At(h, "count")
    /\ cells' = [cells EXCEPT ![c].assigned = @ + 1]
    /\ Done(h)
    /\ UNCHANGED <<adjusted, alerts, consumed>>

-----------------------------------------------------------------------------
(* Reconciliation. *)

\* A licence that the tenant does not report counts as unused.
Used(s) == IF s \in offered THEN consumed[s] ELSE 0

\* The tenant's totals first, all of them; without them nothing is done.
Reconcile(h) ==
    /\ Begin(h, [Idle EXCEPT !.at = "catalog", !.live = [s \in Skus |-> Used(s)]])
    /\ UNCHANGED tables

Unlimited == {s \in Skus : catalog[s].unlimited}

\* The active licences only: nothing looks at an alert of another one.
ReadCatalog(h) ==
    /\ At(h, "catalog")
    /\ IF Active = {} THEN Done(h)
       ELSE /\ job' = [job EXCEPT ![h].at = "look", ![h].free = Unlimited,
                                  ![h].todo = Active]
            /\ UNCHANGED begun
    /\ UNCHANGED tables

\* The next licence of the run, or its end.
Proceed(h) ==
    LET rest == job[h].todo \ {job[h].sku} IN
    IF rest = {} THEN Done(h)
    ELSE job' = [job EXCEPT ![h].at = "look", ![h].todo = rest] /\ UNCHANGED begun

\* findFirst: any open alert of the licence.
Look(h) ==
    /\ At(h, "look")
    /\ \E s \in job[h].todo :
         \E k \in IF OpenAlerts(s) = {} THEN {0} ELSE OpenAlerts(s) :
            job' = [job EXCEPT ![h].sku = s, ![h].open = k,
                               ![h].at = IF s \in job[h].free THEN "resolve" ELSE "sum"]
    /\ UNCHANGED <<tables, begun>>

\* Mutant: the tenant is compared with what OpCos may use.
SumAllocated(h) ==
    LET s == job[h].sku
        delta == job[h].live[s] -
                   Cardinality(UNION {{c} \X (1 .. cells[c].allocated) : c \in CellsOf(s)})
    IN  /\ At(h, "sum")
        /\ job' = [job EXCEPT ![h].delta = delta,
                              ![h].at = IF delta # 0 THEN "raise" ELSE "resolve"]
        /\ UNCHANGED <<tables, begun>>

Sum(h) ==
    LET s == job[h].sku
        delta == job[h].live[s] - AssignedSum(s)
    IN  /\ At(h, "sum")
        /\ job' = [job EXCEPT ![h].delta = delta,
                              ![h].at = IF delta # 0 THEN "raise" ELSE "resolve"]
        /\ UNCHANGED <<tables, begun>>

\* The alert that was found is refreshed by id, or one is opened.
Raise(h) ==
    LET s == job[h].sku IN
    /\ At(h, "raise")
    /\ alerts' = IF job[h].open # 0
                 THEN [alerts EXCEPT ![s][job[h].open].delta = job[h].delta]
                 ELSE [alerts EXCEPT ![s] = Append(@, [status |-> "OPEN",
                                                       delta |-> job[h].delta])]
    /\ Proceed(h)
    /\ UNCHANGED <<cells, adjusted, consumed>>

\* resolveAlert, if one was found.
Resolve(h) ==
    /\ At(h, "resolve")
    /\ alerts' = IF job[h].open # 0
                 THEN [alerts EXCEPT ![job[h].sku][job[h].open].status = "RESOLVED"]
                 ELSE alerts
    /\ Proceed(h)
    /\ UNCHANGED <<cells, adjusted, consumed>>

-----------------------------------------------------------------------------
(* Outside the ledger. *)

\* Somebody assigns or takes away a licence in the tenant itself.
TenantMoves(s) ==
    /\ OutsideMove
    /\ consumed' \in {[consumed EXCEPT ![s] = n] : n \in Quantities \ {consumed[s]}}
    /\ UNCHANGED <<cells, adjusted, alerts, job, begun>>

Restart ==
    /\ \E h \in Handlers : ~At(h, "idle") \/ ~Doing(h, "idle")
    /\ job' = [h \in Handlers |-> Idle]
    /\ task' = [h \in Handlers |-> NoTask]
    /\ UNCHANGED <<catalogTables, tables, begun, moved>> /\ Note(FALSE)

-----------------------------------------------------------------------------
HandlerStep(h) ==
    \/ EditRow(h) \/ Import(h) \/ Baseline(h) \/ Write(h)
    \/ \E scope \in {Cells} \cup {CellsFor(o) : o \in Opcos} :
         AllocationReset(h, scope) \/ FullReset(h, scope)
    \/ ZeroAllocations(h) \/ Clear(h)
    \/ \E c \in Cells : Assign(h, c)
    \/ GrantSeat(h) \/ CountSeat(h)
    \/ Reconcile(h) \/ ReadCatalog(h) \/ Look(h) \/ Sum(h)

Settle(h) == Raise(h) \/ Resolve(h)

\* What a run compares for licence s moves, or its alerts do.
Moves(s) == \/ consumed[s] # consumed'[s] \/ alerts[s] # alerts'[s]
            \/ AssignedSum(s) # AssignedSum(s)'
            \/ catalog[s] # catalog'[s] \/ (s \in offered) # (s \in offered')

\* h has read cell c, is about to write its assigned, and this step is not its own.
Overtakes(h, c) ==
    /\ cells'[c].assigned # cells[c].assigned
    /\ job'[h].at = job[h].at
    /\ \/ At(h, "write") /\ job[h].next[c].assigned # job[h].before[c].assigned
       \/ At(h, "clear") /\ c \in job[h].scope

\* settled are the licences that a run has finished in this step and on which
\* nothing moved since it began.
Remember(settled) ==
    /\ counted' = [c \in Cells |-> counted[c] +
            IF cells' # cells /\ \E h \in Handlers : At(h, "count") /\ job[h].cell = c
                                                   /\ At(h, "idle")'
            THEN 1 ELSE 0]
    /\ overtaken' = overtaken \cup {c \in Cells : \E h \in Handlers : Overtakes(h, c)}
    /\ repeated' = repeated \cup {c \in Cells : \E h \in Handlers :
            /\ At(h, "write") /\ At(h, "idle")' /\ <<cells, adjusted>>' # <<cells, adjusted>>
            /\ job[h].again[c] # 0}
    /\ doubled' = doubled \cup {s \in Skus \ settled :
            Cardinality(OpenAlerts(s)') > 1 /\ Moves(s)}
    /\ fresh' = {s \in fresh : ~Moves(s)} \cup settled
    /\ clean' = [h \in Handlers |->
            IF At(h, "idle")' THEN {}
            ELSE (IF At(h, "idle") THEN Skus ELSE clean[h]) \ {s \in Skus : Moves(s)}]

LedgerOnly  == UNCHANGED <<catalogTables, task>> /\ Note(FALSE)
CatalogOnly == UNCHANGED <<tables, job>> /\ Remember({})

Next ==
    \/ /\ UNCHANGED moved
       /\ \E h \in Handlers :
            \/ HandlerStep(h) /\ LedgerOnly /\ Remember({})
            \/ Settle(h) /\ LedgerOnly /\ Remember({job[h].sku} \cap clean[h])
            \/ CatalogStep(h) /\ At(h, "idle") /\ CatalogOnly
    \/ \E s \in Skus : (SetSeatModel(s) \/ Offer(s)) /\ CatalogOnly
    \/ \E s \in Skus : TenantMoves(s) /\ LedgerOnly /\ Remember({})
    \/ Restart /\ Remember({})

Spec == Init /\ [][Next]_vars

-----------------------------------------------------------------------------
(* Properties. *)

\* The assigned number of a cell is explained by the seats that assigns counted
\* and the adjustments on record (ADR-0007, ADR-0022 D4), unless it changed
\* between the read and the write of an edit, a baseline or a full reset, or the
\* file of a baseline had it twice with numbers that were both new: the plan keeps
\* both changes (assigned-baseline.ts:68-83), both are booked, and one stays.
TrailExplains ==
    \A c \in Cells \ (overtaken \cup repeated) :
        cells[c].assigned = counted[c] + adjusted[c]

\* When nothing moved since a reconciliation began on a licence, the licence has
\* one open alert, with the difference of the books, or none if they agree or
\* there are none to keep (reconcile) - unless two runs once opened one each.
DriftIsShown ==
    \A s \in fresh \ doubled :
        LET delta == Used(s) - AssignedSum(s) IN
        IF s \in Unlimited \/ delta = 0 THEN OpenAlerts(s) = {}
        ELSE \E k \in OpenAlerts(s) : OpenAlerts(s) = {k} /\ alerts[s][k].delta = delta
=============================================================================
