---------------------------- MODULE LedgerProofs ----------------------------
(***************************************************************************)
(* Proofs about Ledger, and with it Catalog, for any sets of OpCos,        *)
(* licences, aliases, cells and handlers, and any bounds.                  *)
(***************************************************************************)
EXTENDS Ledger, FiniteSetTheorems, SequenceTheorems, TLAPS

-----------------------------------------------------------------------------
(* Types. *)

\* The books of a licence add up to a number.
LEMMA SumType ==
    ASSUME cells \in [Cells -> Row], NEW s
    PROVE  AssignedSum(s) \in Nat
<1> DEFINE Seats(c) == {c} \X (1 .. cells[c].assigned)
<1>1. IsFiniteSet(Cells)
  <2>1. IsFiniteSet(Opcos \X Skus)
    BY FS_Product, LedgerAssumption, CatalogAssumption
  <2> QED BY <2>1, FS_Subset, LedgerAssumption
<1>2. IsFiniteSet(CellsOf(s))
  BY <1>1, FS_Subset DEF CellsOf
<1>3. \A c \in CellsOf(s) : IsFiniteSet(Seats(c))
  <2> SUFFICES ASSUME NEW c \in CellsOf(s) PROVE IsFiniteSet(Seats(c))
    OBVIOUS
  <2>1. cells[c].assigned \in Int
    BY DEF CellsOf, Row
  <2>2. IsFiniteSet(1 .. cells[c].assigned)
    BY <2>1, FS_Interval
  <2>3. IsFiniteSet({c})
    BY FS_Singleton
  <2> QED BY <2>2, <2>3, FS_Product
<1>4. IsFiniteSet({Seats(c) : c \in CellsOf(s)})
  <2> DEFINE all == {Seats(c) : c \in CellsOf(s)}
             f   == [c \in CellsOf(s) |-> Seats(c)]
  <2>1. f \in Surjection(CellsOf(s), all)
    BY DEF Surjection
  <2> HIDE DEF f
  <2> QED BY <1>2, <2>1, FS_Surjection
<1>5. IsFiniteSet(UNION {Seats(c) : c \in CellsOf(s)})
  BY <1>3, <1>4, FS_UNION
<1>6. Cardinality(UNION {Seats(c) : c \in CellsOf(s)}) \in Nat
  BY <1>5, FS_CardinalityType
<1> QED BY <1>6 DEF AssignedSum

LEMMA UpToFinite ==
    ASSUME NEW n \in Nat
    PROVE  IsFiniteSet(1 .. n)
<1>1. 1 \in Int /\ n \in Int
  OBVIOUS
<1> QED BY <1>1, FS_Interval

\* The sum changes with the cells only.
LEMMA SumStays ==
    ASSUME cells' = cells, NEW s
    PROVE  AssignedSum(s)' = AssignedSum(s)
BY DEF AssignedSum, CellsOf

LEMMA RowsType == NoRows \in [Cells -> Row]
BY DEF NoRows, Row

LEMMA IdleFields ==
    /\ Idle \in Job /\ Idle.at = "idle" /\ Idle.scope = {} /\ Idle.todo = {}
    /\ Idle.open = 0
<1>1. (CHOOSE c \in Cells : TRUE) \in Cells
  BY LedgerAssumption
<1>2. (CHOOSE s \in Skus : TRUE) \in Skus
  BY LedgerAssumption
<1>3. Once \in [Cells -> Int]
  BY DEF Once
<1> QED BY <1>1, <1>2, <1>3, RowsType DEF Idle, Job, Points

LEMMA NoTaskFields ==
    NoTask \in Task /\ NoTask.at = "idle" /\ NoTask.edits = {} /\ NoTask.todo = {}
BY DEF NoTask, Task

\* What a handler does next in the ledger.
LEMMA JobNext ==
    ASSUME job \in [Handlers -> Job], NEW h \in Handlers
    PROVE  /\ \A w : Go(h, w) =>
                 /\ job' = [g \in Handlers |-> IF g = h THEN [job[h] EXCEPT !.at = w] ELSE job[g]]
                 /\ begun' = begun
           /\ Done(h) => /\ job' = [g \in Handlers |-> IF g = h THEN Idle ELSE job[g]]
                         /\ begun' = begun
           /\ \A work : Begin(h, work) =>
                 /\ job[h].at = "idle" /\ task[h].at = "idle"
                 /\ job' = [g \in Handlers |-> IF g = h THEN work ELSE job[g]]
                 /\ begun < MaxJobs /\ begun' = begun + 1
<1> HIDE DEF Idle
<1> QED BY DEF Go, Done, Begin, MayBegin, At, Doing

LEMMA ChangedType ==
    ASSUME TypeOK, NEW h \in Handlers, NEW c \in Cells
    PROVE  Changed(h, c) \in Row
<1>1. cells[c] \in Row /\ job[h].before[c] \in Row /\ job[h].next[c] \in Row
  BY DEF TypeOK, Job
<1> QED BY <1>1 DEF Changed, Row

LEMMA PlanTypes ==
    ASSUME TypeOK, NEW h \in Handlers, NEW next \in [Cells -> Row], NEW again \in [Cells -> Int],
           Plan(h, next, again)
    PROVE  job' \in [Handlers -> Job] /\ begun' \in 0 .. MaxJobs /\ UNCHANGED tables
<1> DEFINE work == [Idle EXCEPT !.at = "write", !.before = cells, !.next = next,
                                !.again = again]
<1>1. work \in Job
  BY IdleFields DEF Job, Points, TypeOK
<1>2. Begin(h, work) /\ UNCHANGED tables
  BY DEF Plan
<1>3. begun \in 0 .. MaxJobs /\ MaxJobs \in Nat /\ job \in [Handlers -> Job]
  BY CatalogAssumption DEF TypeOK, CatalogTypeOK
<1> HIDE DEF work, Idle
<1>4. /\ job' = [g \in Handlers |-> IF g = h THEN work ELSE job[g]]
      /\ begun < MaxJobs /\ begun' = begun + 1
  BY <1>2, <1>3, JobNext
<1>5. job' \in [Handlers -> Job]
  BY <1>1, <1>3, <1>4
<1>6. begun' \in 0 .. MaxJobs
  BY <1>3, <1>4
<1> QED BY <1>2, <1>5, <1>6

\* What a matrix says of a cell it names: numbers.
LEMMA ListingTypes ==
    ASSUME NEW m \in Matrices, NEW c \in DOMAIN m, NEW was \in Nat
    PROVE  Target(was, m[c]) \in Nat /\ Again(was, m[c]) \in Int
<1>1. Quantities \subseteq Nat
  BY LedgerAssumption DEF Quantities
<1>2. m[c] \in Listings
  <2>1. m \in Files
    BY DEF Matrices
  <2>2. PICK grid \in Grids : m \in [grid -> Listings]
    BY <2>1 DEF Files
  <2> QED BY <2>2
<1>3. PICK listing : listing = m[c]
  OBVIOUS
<1>4. \A k \in DOMAIN listing : listing[k] \in Nat
  <2>1. CASE \E n \in Quantities : listing = <<n>>
    BY <1>1, <2>1
  <2>2. CASE listing \in Quantities \X Quantities
    <3>1. PICK x \in Quantities, y \in Quantities : listing = <<x, y>>
      BY <2>2
    <3>2. DOMAIN listing = {1, 2} /\ listing[1] = x /\ listing[2] = y
      BY <3>1
    <3> QED BY <1>1, <3>2
  <2> QED BY <1>2, <1>3, <2>1, <2>2 DEF Listings
<1>5. Changes(was, listing) \subseteq DOMAIN listing
  BY DEF Changes
<1>6. Target(was, listing) \in Nat
  BY <1>4, <1>5 DEF Target
<1>7. Again(was, listing) \in Int
  BY <1>4, <1>5 DEF Again
<1> QED BY <1>3, <1>6, <1>7

LEMMA MatrixTypes ==
    ASSUME cells \in [Cells -> Row], NEW m \in Matrices
    PROVE  /\ Imported(m) \in [Cells -> Row]
           /\ \A c \in Cells : Imported(m)[c].assigned = cells[c].assigned
           /\ Baselined(m) \in [Cells -> Row] /\ BookedAgain(m) \in [Cells -> Int]
<1>1. ASSUME NEW c \in Cells, c \in DOMAIN m
      PROVE  /\ Target(cells[c].allocated, m[c]) \in Nat
             /\ Target(cells[c].assigned, m[c]) \in Nat
             /\ Again(cells[c].assigned, m[c]) \in Int
  <2>1. cells[c].allocated \in Nat /\ cells[c].assigned \in Nat
    BY DEF Row
  <2> QED BY <1>1, <2>1, ListingTypes
<1>2. ASSUME NEW c \in Cells, NEW n \in Nat
      PROVE  /\ [cells[c] EXCEPT !.allocated = n] \in Row
             /\ [cells[c] EXCEPT !.assigned = n] \in Row
             /\ [cells[c] EXCEPT !.allocated = n].assigned = cells[c].assigned
  <2>1. cells[c] \in Row
    OBVIOUS
  <2> QED BY <2>1 DEF Row
<1>3. ASSUME NEW c \in Cells
      PROVE  /\ Imported(m)[c] \in Row /\ Imported(m)[c].assigned = cells[c].assigned
             /\ Baselined(m)[c] \in Row /\ BookedAgain(m)[c] \in Int
  <2>1. CASE c \in DOMAIN m
    <3>1. Imported(m)[c] = [cells[c] EXCEPT !.allocated = Target(cells[c].allocated, m[c])]
      BY <2>1 DEF Imported
    <3>2. Baselined(m)[c] = [cells[c] EXCEPT !.assigned = Target(cells[c].assigned, m[c])]
      BY <2>1 DEF Baselined
    <3>3. BookedAgain(m)[c] = Again(cells[c].assigned, m[c])
      BY <2>1 DEF BookedAgain
    <3> QED BY <1>1, <1>2, <2>1, <3>1, <3>2, <3>3
  <2>2. CASE c \notin DOMAIN m
    BY <2>2 DEF Imported, Baselined, BookedAgain
  <2> QED BY <2>1, <2>2
<1>4. /\ Imported(m) = [c \in Cells |-> Imported(m)[c]]
      /\ Baselined(m) = [c \in Cells |-> Baselined(m)[c]]
      /\ BookedAgain(m) = [c \in Cells |-> BookedAgain(m)[c]]
  BY DEF Imported, Baselined, BookedAgain
<1> QED BY <1>3, <1>4

\* Steps that begin an absolute write keep types and tables.
LEMMA PlanSteps ==
    ASSUME TypeOK, NEW h \in Handlers, EditRow(h) \/ Import(h) \/ Baseline(h)
    PROVE  job' \in [Handlers -> Job] /\ begun' \in 0 .. MaxJobs /\ UNCHANGED tables
<1>0. /\ cells \in [Cells -> Row] /\ Quantities \subseteq Nat /\ Once \in [Cells -> Int]
  BY LedgerAssumption DEF TypeOK, Quantities, Once
<1>1. CASE EditRow(h)
  <2>1. PICK c \in Cells, row \in [allocated : Quantities, assigned : Quantities] :
            Plan(h, [cells EXCEPT ![c] = row], Once)
    BY <1>1 DEF EditRow
  <2>2. [cells EXCEPT ![c] = row] \in [Cells -> Row]
    BY <1>0 DEF Row
  <2> QED BY <1>0, <2>1, <2>2, PlanTypes
<1>2. CASE Import(h)
  <2>1. PICK m \in Matrices : Plan(h, Imported(m), Once)
    BY <1>2 DEF Import
  <2> QED BY <1>0, <2>1, MatrixTypes, PlanTypes
<1>3. CASE Baseline(h)
  <2>1. PICK m \in Matrices : Plan(h, Baselined(m), BookedAgain(m))
    BY <1>3 DEF Baseline
  <2> QED BY <1>0, <2>1, MatrixTypes, PlanTypes
<1> QED BY <1>1, <1>2, <1>3

LEMMA BeginTypes ==
    ASSUME job \in [Handlers -> Job], begun \in 0 .. MaxJobs, NEW h \in Handlers,
           NEW work \in Job, Begin(h, work)
    PROVE  job' \in [Handlers -> Job] /\ begun' \in 0 .. MaxJobs
<1>1. /\ job' = [g \in Handlers |-> IF g = h THEN work ELSE job[g]]
      /\ begun < MaxJobs /\ begun' = begun + 1
  BY JobNext
<1>2. job' \in [Handlers -> Job]
  BY <1>1
<1>3. begun' \in 0 .. MaxJobs
  BY <1>1, CatalogAssumption
<1> QED BY <1>2, <1>3

\* A handler that stops, or that goes on.
LEMMA GoTypes ==
    ASSUME job \in [Handlers -> Job], NEW h \in Handlers
    PROVE  /\ Done(h) => job' \in [Handlers -> Job] /\ begun' = begun
           /\ \A w \in Points : Go(h, w) => job' \in [Handlers -> Job] /\ begun' = begun
<1> HIDE DEF Idle
<1>1. \A w \in Points : [job[h] EXCEPT !.at = w] \in Job
  BY DEF Job
<1> QED BY <1>1, JobNext, IdleFields

TableTypes ==
    /\ cells \in [Cells -> Row]
    /\ adjusted \in [Cells -> Int]
    /\ alerts \in [Skus -> Seq(Alert)]
    /\ consumed \in [Skus -> Nat]

StepTypes == TableTypes /\ job \in [Handlers -> Job] /\ begun \in 0 .. MaxJobs

LEMMA TypeIsStepTypes == TypeOK => StepTypes
BY DEF TypeOK, StepTypes, TableTypes, CatalogTypeOK

LEMMA TablesStay ==
    ASSUME TypeOK, UNCHANGED tables, job' \in [Handlers -> Job], begun' \in 0 .. MaxJobs
    PROVE  StepTypes'
BY DEF TypeOK, StepTypes, TableTypes, tables

LEMMA BeginningsTyped ==
    ASSUME TypeOK, NEW h \in Handlers,
           \/ \E scope \in SUBSET Cells : AllocationReset(h, scope) \/ FullReset(h, scope)
           \/ \E c \in Cells : Assign(h, c)
           \/ Reconcile(h)
    PROVE  StepTypes'
<1>0. job \in [Handlers -> Job] /\ begun \in 0 .. MaxJobs
  BY DEF TypeOK, CatalogTypeOK
<1>1. ASSUME NEW scope \in SUBSET Cells, AllocationReset(h, scope) PROVE StepTypes'
  <2>1. [Idle EXCEPT !.at = "zero", !.scope = scope] \in Job
    BY IdleFields DEF Job, Points
  <2> HIDE DEF Idle
  <2> QED BY <1>0, <1>1, <2>1, BeginTypes, TablesStay DEF AllocationReset
<1>2. ASSUME NEW scope \in SUBSET Cells, FullReset(h, scope) PROVE StepTypes'
  <2>1. [Idle EXCEPT !.at = "clear", !.scope = scope, !.before = cells] \in Job
    BY IdleFields DEF Job, Points, TypeOK
  <2> HIDE DEF Idle
  <2> QED BY <1>0, <1>2, <2>1, BeginTypes, TablesStay DEF FullReset
<1>3. ASSUME NEW c \in Cells, Assign(h, c) PROVE StepTypes'
  <2>1. [Idle EXCEPT !.at = "grant", !.cell = c] \in Job
    BY IdleFields DEF Job, Points
  <2> HIDE DEF Idle
  <2> QED BY <1>0, <1>3, <2>1, BeginTypes, TablesStay DEF Assign
<1>4. CASE Reconcile(h)
  <2>1. [s \in Skus |-> Used(s)] \in [Skus -> Nat]
    BY DEF TypeOK, Used
  <2>2. [Idle EXCEPT !.at = "catalog", !.live = [s \in Skus |-> Used(s)]] \in Job
    BY <2>1, IdleFields DEF Job, Points
  <2> HIDE DEF Idle
  <2> QED BY <1>0, <1>4, <2>2, BeginTypes, TablesStay DEF Reconcile
<1> QED BY <1>1, <1>2, <1>3, <1>4

LEMMA WritesTyped ==
    ASSUME TypeOK, NEW h \in Handlers,
           Write(h) \/ ZeroAllocations(h) \/ Clear(h) \/ CountSeat(h) \/ GrantSeat(h)
    PROVE  StepTypes'
<1>0. job \in [Handlers -> Job] /\ begun \in 0 .. MaxJobs /\ TableTypes
  BY DEF TypeOK, CatalogTypeOK, TableTypes
<1>1. CASE Write(h)
  <2>1. cells' \in [Cells -> Row]
    BY <1>1, ChangedType DEF Write
  <2>2. \A c \in Cells : /\ job[h].next[c].assigned \in Int
                          /\ job[h].before[c].assigned \in Int
                          /\ adjusted[c] \in Int /\ job[h].again[c] \in Int
    <3>1. \A c \in Cells : /\ job[h].next[c] \in Row /\ job[h].before[c] \in Row
                            /\ job[h].again[c] \in Int
      BY <1>0 DEF Job
    <3> QED BY <1>0, <3>1 DEF Row, TableTypes
  <2>3. adjusted' \in [Cells -> Int]
    BY <1>1, <2>2 DEF Write
  <2> QED BY <1>0, <1>1, <2>1, <2>3, GoTypes DEF Write, StepTypes, TableTypes
<1>2. CASE ZeroAllocations(h)
  <2>1. cells' \in [Cells -> Row]
    BY <1>0, <1>2 DEF ZeroAllocations, TableTypes, Row
  <2> QED BY <1>0, <1>2, <2>1, GoTypes DEF ZeroAllocations, StepTypes, TableTypes
<1>3. CASE Clear(h)
  <2>1. cells' \in [Cells -> Row]
    BY <1>0, <1>3, RowsType DEF Clear, TableTypes
  <2>2. \A c \in Cells : job[h].before[c].assigned \in Int /\ adjusted[c] \in Int
    BY <1>0 DEF Job, Row, TableTypes
  <2>3. adjusted' \in [Cells -> Int]
    BY <1>3, <2>2 DEF Clear
  <2> QED BY <1>0, <1>3, <2>1, <2>3, GoTypes DEF Clear, StepTypes, TableTypes
<1>4. CASE CountSeat(h)
  <2>1. cells' \in [Cells -> Row]
    <3> DEFINE c == job[h].cell
    <3>1. c \in Cells /\ cells[c] \in Row
      BY <1>0 DEF Job, TableTypes
    <3>2. [cells[c] EXCEPT !.assigned = cells[c].assigned + 1] \in Row
      BY <3>1 DEF Row
    <3>3. cells' = [cells EXCEPT ![c] = [cells[c] EXCEPT !.assigned = cells[c].assigned + 1]]
      BY <1>4 DEF CountSeat
    <3> QED BY <1>0, <3>1, <3>2, <3>3 DEF TableTypes
  <2> QED BY <1>0, <1>4, <2>1, GoTypes DEF CountSeat, StepTypes, TableTypes
<1>5. CASE GrantSeat(h)
  <2>0. job[h].cell[2] \in Skus
    BY <1>0, LedgerAssumption DEF Job
  <2>1. consumed' \in [Skus -> Nat]
    BY <1>0, <1>5, <2>0 DEF GrantSeat, TableTypes
  <2>2. "count" \in Points
    BY DEF Points
  <2> QED BY <1>0, <1>5, <2>1, <2>2, GoTypes DEF GrantSeat, StepTypes, TableTypes
<1> QED BY <1>1, <1>2, <1>3, <1>4, <1>5

LEMMA ProceedTypes ==
    ASSUME job \in [Handlers -> Job], NEW h \in Handlers, Proceed(h)
    PROVE  job' \in [Handlers -> Job] /\ begun' = begun
<1>1. [job[h] EXCEPT !.at = "look", !.todo = job[h].todo \ {job[h].sku}] \in Job
  BY DEF Job, Points
<1> HIDE DEF Idle
<1> QED BY <1>1, GoTypes DEF Proceed

\* An edit of one alert of a licence, there or not.
LEMMA EditedAlerts ==
    ASSUME NEW q \in Seq(Alert), NEW k \in Nat, NEW d \in Int
    PROVE  /\ [q EXCEPT ![k].delta = d] \in Seq(Alert)
           /\ [q EXCEPT ![k].status = "RESOLVED"] \in Seq(Alert)
<1>1. DOMAIN q = 1 .. Len(q) /\ Len(q) \in Nat /\ q \in [1 .. Len(q) -> Alert]
  BY LenProperties
<1>2. CASE k \in 1 .. Len(q)
  <2>1. q[k] \in Alert
    BY <1>1, <1>2
  <2>2. [q[k] EXCEPT !.delta = d] \in Alert /\ [q[k] EXCEPT !.status = "RESOLVED"] \in Alert
    BY <2>1 DEF Alert
  <2>3. \A e \in Alert : [q EXCEPT ![k] = e] \in Seq(Alert)
    BY <1>2, ExceptSeq
  <2>4. /\ [q EXCEPT ![k].delta = d] = [q EXCEPT ![k] = [q[k] EXCEPT !.delta = d]]
        /\ [q EXCEPT ![k].status = "RESOLVED"] = [q EXCEPT ![k] = [q[k] EXCEPT !.status = "RESOLVED"]]
    OBVIOUS
  <2> QED BY <2>2, <2>3, <2>4
<1>3. CASE k \notin 1 .. Len(q)
  <2>1. [q EXCEPT ![k].delta = d] = q /\ [q EXCEPT ![k].status = "RESOLVED"] = q
    BY <1>1, <1>3
  <2> QED BY <2>1
<1> QED BY <1>2, <1>3

LEMMA ReconcileTyped ==
    ASSUME TypeOK, NEW h \in Handlers,
           ReadCatalog(h) \/ Look(h) \/ Sum(h) \/ Raise(h) \/ Resolve(h)
    PROVE  StepTypes'
<1>0. job \in [Handlers -> Job] /\ begun \in 0 .. MaxJobs /\ TableTypes
  BY DEF TypeOK, CatalogTypeOK, TableTypes
<1>1. CASE ReadCatalog(h)
  <2>1. [job[h] EXCEPT !.at = "look", !.free = Unlimited, !.todo = Active] \in Job
    BY <1>0 DEF Job, Points, Unlimited, Active
  <2> HIDE DEF Idle
  <2>2. job' \in [Handlers -> Job] /\ begun' \in 0 .. MaxJobs
    BY <1>0, <1>1, <2>1, GoTypes DEF ReadCatalog
  <2> QED BY <1>1, <2>2, TablesStay DEF ReadCatalog
<1>2. CASE Look(h)
  <2>1. PICK s \in job[h].todo :
           \E k \in IF OpenAlerts(s) = {} THEN {0} ELSE OpenAlerts(s) :
            job' = [job EXCEPT ![h].sku = s, ![h].open = k,
                               ![h].at = IF s \in job[h].free THEN "resolve" ELSE "sum"]
    BY <1>2 DEF Look
  <2>2. s \in Skus
    BY <1>0, <2>1 DEF Job
  <2>3. OpenAlerts(s) \subseteq Nat
    <3>1. alerts[s] \in Seq(Alert)
      BY <1>0, <2>2 DEF TableTypes
    <3> QED BY <3>1, LenProperties DEF OpenAlerts
  <2>4. PICK k \in Nat :
            job' = [job EXCEPT ![h].sku = s, ![h].open = k,
                               ![h].at = IF s \in job[h].free THEN "resolve" ELSE "sum"]
    BY <2>1, <2>3
  <2>5. [job[h] EXCEPT !.sku = s, !.open = k,
                       !.at = IF s \in job[h].free THEN "resolve" ELSE "sum"] \in Job
    BY <1>0, <2>2 DEF Job, Points
  <2>6. job' \in [Handlers -> Job]
    BY <1>0, <2>4, <2>5
  <2> QED BY <1>0, <1>2, <2>6 DEF Look, StepTypes, TableTypes, tables
<1>3. CASE Sum(h)
  <2> DEFINE delta == job[h].live[job[h].sku] - AssignedSum(job[h].sku)
  <2>1. delta \in Int
    BY <1>0, SumType DEF Job, TableTypes
  <2>2. job' = [job EXCEPT ![h].delta = delta,
                           ![h].at = IF delta # 0 THEN "raise" ELSE "resolve"]
    BY <1>3 DEF Sum
  <2> HIDE DEF delta
  <2>3. [job[h] EXCEPT !.delta = delta,
                       !.at = IF delta # 0 THEN "raise" ELSE "resolve"] \in Job
    BY <1>0, <2>1 DEF Job, Points
  <2>4. job' \in [Handlers -> Job]
    BY <1>0, <2>2, <2>3
  <2> QED BY <1>0, <1>3, <2>4 DEF Sum, StepTypes, TableTypes, tables
<1>4. CASE Raise(h)
  <2> DEFINE s == job[h].sku
  <2>1. s \in Skus /\ alerts[s] \in Seq(Alert) /\ job[h].delta \in Int /\ job[h].open \in Nat
    BY <1>0 DEF Job, TableTypes
  <2>2. [alerts[s] EXCEPT ![job[h].open].delta = job[h].delta] \in Seq(Alert)
    BY <2>1, EditedAlerts
  <2>3. Append(alerts[s], [status |-> "OPEN", delta |-> job[h].delta]) \in Seq(Alert)
    BY <2>1, AppendProperties DEF Alert
  <2>4. alerts' \in [Skus -> Seq(Alert)]
    BY <1>0, <1>4, <2>1, <2>2, <2>3 DEF Raise, TableTypes
  <2> QED BY <1>0, <1>4, <2>4, ProceedTypes DEF Raise, StepTypes, TableTypes
<1>5. CASE Resolve(h)
  <2> DEFINE s == job[h].sku
  <2>1. s \in Skus /\ alerts[s] \in Seq(Alert) /\ job[h].open \in Nat
    BY <1>0 DEF Job, TableTypes
  <2>2. [alerts[s] EXCEPT ![job[h].open].status = "RESOLVED"] \in Seq(Alert)
    <3>1. 0 \in Int
      OBVIOUS
    <3> QED BY <2>1, <3>1, EditedAlerts
  <2>3. alerts' \in [Skus -> Seq(Alert)]
    BY <1>0, <1>5, <2>1, <2>2 DEF Resolve, TableTypes
  <2> QED BY <1>0, <1>5, <2>3, ProceedTypes DEF Resolve, StepTypes, TableTypes
<1> QED BY <1>1, <1>2, <1>3, <1>4, <1>5

\* The catalog's part of the types.
CatalogStepTypes ==
    /\ catalog \in [Skus -> Entry] /\ offered \subseteq Skus
    /\ task \in [Handlers -> Task]
    /\ begun \in 0 .. MaxJobs /\ moved \in 0 .. MaxMoves

\* What a handler does next in the catalog.
LEMMA TaskNext ==
    ASSUME task \in [Handlers -> Task], NEW h \in Handlers
    PROVE  /\ \A w : Turn(h, w) =>
                 /\ task' = [g \in Handlers |-> IF g = h THEN [task[h] EXCEPT !.at = w] ELSE task[g]]
                 /\ begun' = begun
           /\ Finish(h) => /\ task' = [g \in Handlers |-> IF g = h THEN NoTask ELSE task[g]]
                           /\ begun' = begun
           /\ \A work : Take(h, work) =>
                 /\ task[h].at = "idle"
                 /\ task' = [g \in Handlers |-> IF g = h THEN work ELSE task[g]]
                 /\ begun < MaxJobs /\ begun' = begun + 1
<1> HIDE DEF NoTask
<1> QED BY DEF Turn, Finish, Take, Doing

LEMMA TakeTypes ==
    ASSUME CatalogTypeOK, NEW h \in Handlers, NEW work \in Task, Take(h, work),
           UNCHANGED <<catalogTables, moved>>
    PROVE  CatalogStepTypes'
<1>1. /\ task' = [g \in Handlers |-> IF g = h THEN work ELSE task[g]]
      /\ begun < MaxJobs /\ begun' = begun + 1
  BY TaskNext DEF CatalogTypeOK
<1>2. task' \in [Handlers -> Task]
  BY <1>1 DEF CatalogTypeOK
<1>3. begun' \in 0 .. MaxJobs
  BY <1>1, CatalogAssumption DEF CatalogTypeOK
<1> QED BY <1>2, <1>3 DEF CatalogTypeOK, CatalogStepTypes, catalogTables

LEMMA FinishTypes ==
    ASSUME CatalogTypeOK, NEW h \in Handlers
    PROVE  /\ Finish(h) => task' \in [Handlers -> Task] /\ begun' \in 0 .. MaxJobs
           /\ Turn(h, "save") => task' \in [Handlers -> Task] /\ begun' \in 0 .. MaxJobs
<1> HIDE DEF NoTask
<1>1. [task[h] EXCEPT !.at = "save"] \in Task
  BY DEF Task, CatalogTypeOK
<1> QED BY <1>1, TaskNext, NoTaskFields DEF CatalogTypeOK

LEMMA AliasType == \A s \in Skus : CatalogTypeOK => /\ catalog[s] \in Entry
                                                  /\ catalog[s].alias \in Aliases \cup {NoAlias}
BY DEF CatalogTypeOK, Entry

\* What a handler's step in the catalog does to the catalog's types.
LEMMA CatalogStepsTyped ==
    ASSUME CatalogTypeOK, NEW h \in Handlers, CatalogStep(h), moved' = moved
    PROVE  CatalogStepTypes'
<1> USE DEF CatalogTypeOK
<1>1. CASE StartSync(h)
  <2>1. [NoTask EXCEPT !.at = AfterUpsert(offered), !.seen = offered, !.todo = offered] \in Task
    BY NoTaskFields DEF Task, AfterUpsert
  <2> HIDE DEF NoTask
  <2> QED BY <1>1, <2>1, TakeTypes DEF StartSync
<1>2. CASE Upsert(h)
  <2>1. task[h] \in Task
    OBVIOUS
  <2>2. CASE Finish(h) /\ UNCHANGED catalog
    BY <1>2, <2>2, FinishTypes DEF Upsert, CatalogStepTypes
  <2>3. ASSUME NEW s \in task[h].todo,
               catalog' = [catalog EXCEPT ![s].row = "active"],
               task' = [task EXCEPT ![h].todo = @ \ {s},
                                    ![h].at = AfterUpsert(task[h].todo \ {s})],
               begun' = begun
        PROVE  CatalogStepTypes'
    <3>1. s \in Skus
      BY <2>1 DEF Task
    <3>2. [catalog[s] EXCEPT !.row = "active"] \in Entry
      BY <3>1 DEF Entry
    <3>3. catalog' \in [Skus -> Entry]
      BY <2>3, <3>1, <3>2
    <3>4. [task[h] EXCEPT !.todo = task[h].todo \ {s},
                          !.at = AfterUpsert(task[h].todo \ {s})] \in Task
      BY <2>1 DEF Task, AfterUpsert
    <3>5. task' \in [Handlers -> Task]
      BY <2>3, <3>4
    <3> QED BY <1>2, <2>3, <3>3, <3>5 DEF Upsert, CatalogStepTypes
  <2> QED BY <1>2, <2>2, <2>3 DEF Upsert
<1>3. CASE Retire(h)
  <2>1. \A s \in Skus : [catalog[s] EXCEPT !.row = "inactive"] \in Entry
    BY DEF Entry
  <2>2. catalog' \in [Skus -> Entry]
    BY <1>3, <2>1 DEF Retire
  <2> QED BY <1>3, <2>2, FinishTypes DEF Retire, CatalogStepTypes
<1>4. ASSUME NEW s \in Skus, NEW a \in Aliases \cup {NoAlias}, UpdateEntry(h, s, a)
      PROVE  CatalogStepTypes'
  <2> DEFINE edits == {<<s, a>>}
             at    == IF s \in Active /\ a # NoAlias THEN "guard" ELSE "save"
  <2>1. edits \subseteq Skus \X (Aliases \cup {NoAlias}) /\ at \in {"guard", "save"}
    OBVIOUS
  <2> HIDE DEF edits, at
  <2>2. [NoTask EXCEPT !.edits = edits, !.at = at] \in Task
    BY <2>1, NoTaskFields DEF Task
  <2> HIDE DEF NoTask
  <2> QED BY <1>4, <2>2, TakeTypes DEF UpdateEntry, edits, at
<1>5. CASE Guard(h)
  <2>1. (Finish(h) \/ Turn(h, "save")) /\ UNCHANGED catalogTables
    BY <1>5 DEF Guard
  <2> QED BY <2>1, FinishTypes DEF CatalogStepTypes, catalogTables
<1>6. CASE ImportCatalog(h)
  <2>1. PICK some \in SUBSET Active : \E file \in [some -> Aliases \cup {NoAlias}] :
          Take(h, [NoTask EXCEPT !.at = "save",
                     !.edits = {<<s, file[s]>> : s \in {t \in some : file[t] # catalog[t].alias}}])
          /\ UNCHANGED catalogTables
    BY <1>6 DEF ImportCatalog
  <2>2. PICK file \in [some -> Aliases \cup {NoAlias}] :
          Take(h, [NoTask EXCEPT !.at = "save",
                     !.edits = {<<s, file[s]>> : s \in {t \in some : file[t] # catalog[t].alias}}])
          /\ UNCHANGED catalogTables
    BY <2>1
  <2> DEFINE edits == {<<s, file[s]>> : s \in {t \in some : file[t] # catalog[t].alias}}
  <2>3. edits \subseteq Skus \X (Aliases \cup {NoAlias})
    BY DEF Active
  <2> HIDE DEF edits
  <2>4. [NoTask EXCEPT !.at = "save", !.edits = edits] \in Task
    BY <2>3, NoTaskFields DEF Task
  <2> HIDE DEF NoTask
  <2> QED BY <2>2, <2>4, TakeTypes DEF edits
<1>7. CASE Save(h)
  <2>1. ASSUME NEW s \in Skus, NEW e \in task[h].edits
        PROVE  [catalog[s] EXCEPT !.alias = e[2]] \in Entry
    <3>1. e \in Skus \X (Aliases \cup {NoAlias})
      BY DEF Task
    <3> QED BY <3>1 DEF Entry
  <2>2. ASSUME NEW s \in Skus
        PROVE  (IF \E e \in task[h].edits : e[1] = s
                THEN [catalog[s] EXCEPT !.alias = (CHOOSE e \in task[h].edits : e[1] = s)[2]]
                ELSE catalog[s]) \in Entry
    <3>1. CASE \E e \in task[h].edits : e[1] = s
      <4>1. (CHOOSE e \in task[h].edits : e[1] = s) \in task[h].edits
        BY <3>1
      <4> QED BY <2>1, <3>1, <4>1
    <3>2. CASE ~ \E e \in task[h].edits : e[1] = s
      BY <3>2
    <3> QED BY <3>1, <3>2
  <2>3. catalog' \in [Skus -> Entry]
    BY <1>7, <2>2 DEF Save
  <2> QED BY <1>7, <2>3, FinishTypes DEF Save, CatalogStepTypes
<1> QED BY <1>1, <1>2, <1>3, <1>4, <1>5, <1>6, <1>7 DEF CatalogStep

LEMMA OutsideTyped ==
    ASSUME CatalogTypeOK, NEW s \in Skus, SetSeatModel(s) \/ Offer(s)
    PROVE  CatalogStepTypes'
<1> USE DEF CatalogTypeOK
<1>1. moved' \in 0 .. MaxMoves
  <2>1. MaxMoves \in Nat /\ moved < MaxMoves /\ moved' = moved + 1
    BY CatalogAssumption DEF SetSeatModel, Offer, OutsideMove
  <2> QED BY <2>1
<1>2. CASE SetSeatModel(s)
  <2>1. [catalog[s] EXCEPT !.unlimited = ~catalog[s].unlimited] \in Entry
    BY DEF Entry
  <2>2. catalog' = [catalog EXCEPT ![s] = [catalog[s] EXCEPT !.unlimited = ~catalog[s].unlimited]]
    BY <1>2 DEF SetSeatModel
  <2>3. catalog' \in [Skus -> Entry]
    BY <2>1, <2>2
  <2> QED BY <1>1, <1>2, <2>3 DEF SetSeatModel, CatalogStepTypes
<1>3. CASE Offer(s)
  BY <1>1, <1>3 DEF Offer, CatalogStepTypes
<1> QED BY <1>2, <1>3

LEMMA NoteTyped == \A b \in BOOLEAN : Note(b) => stale' \subseteq Handlers /\ clashed' \subseteq Aliases
BY DEF Note

LEMMA CatalogNotes ==
    ASSUME NEW h \in Handlers, CatalogStep(h)
    PROVE  \E b \in BOOLEAN : Note(b)
<1>1. CASE Upsert(h)
  BY <1>1 DEF Upsert
<1>2. CASE Save(h)
  <2>1. Note(h \in stale)
    BY <1>2 DEF Save
  <2>2. (h \in stale) \in BOOLEAN
    OBVIOUS
  <2> QED BY <2>1, <2>2
<1>3. CASE ImportCatalog(h)
  BY <1>3 DEF ImportCatalog
<1>4. CASE StartSync(h) \/ Retire(h) \/ Guard(h)
  BY <1>4 DEF StartSync, Retire, Guard
<1>5. CASE \E s \in Skus, a \in Aliases \cup {NoAlias} : UpdateEntry(h, s, a)
  BY <1>5 DEF UpdateEntry
<1> QED BY <1>1, <1>2, <1>3, <1>4, <1>5 DEF CatalogStep

LEMMA RememberTyped ==
    ASSUME TypeOK, NEW settled \in SUBSET Skus, Remember(settled)
    PROVE  /\ counted' \in [Cells -> Nat] /\ clean' \in [Handlers -> SUBSET Skus]
           /\ overtaken' \subseteq Cells /\ repeated' \subseteq Cells /\ doubled' \subseteq Skus /\ fresh' \subseteq Skus
<1>1. counted' \in [Cells -> Nat]
  BY DEF Remember, TypeOK
<1>2. overtaken' \subseteq Cells /\ repeated' \subseteq Cells /\ doubled' \subseteq Skus /\ fresh' \subseteq Skus
  BY DEF Remember, TypeOK
<1>3. clean' \in [Handlers -> SUBSET Skus]
  BY DEF Remember, TypeOK
<1> QED BY <1>1, <1>2, <1>3

\* Every step that changes the ledger keeps its types.
LEMMA LedgerTypes ==
    ASSUME TypeOK, NEW h \in Handlers, HandlerStep(h) \/ Settle(h)
    PROVE  StepTypes'
<1>1. ASSUME EditRow(h) \/ Import(h) \/ Baseline(h) PROVE StepTypes'
  BY <1>1, PlanSteps, TablesStay
<1>2. ASSUME NEW scope \in {Cells} \cup {CellsFor(o) : o \in Opcos},
             AllocationReset(h, scope) \/ FullReset(h, scope)
      PROVE  StepTypes'
  <2>1. scope \in SUBSET Cells
    BY DEF CellsFor
  <2> QED BY <1>2, <2>1, BeginningsTyped
<1>3. ASSUME (\E c \in Cells : Assign(h, c)) \/ Reconcile(h) PROVE StepTypes'
  BY <1>3, BeginningsTyped
<1>4. ASSUME Write(h) \/ ZeroAllocations(h) \/ Clear(h) \/ CountSeat(h) \/ GrantSeat(h)
      PROVE  StepTypes'
  BY <1>4, WritesTyped
<1>5. ASSUME ReadCatalog(h) \/ Look(h) \/ Sum(h) \/ Raise(h) \/ Resolve(h) PROVE StepTypes'
  BY <1>5, ReconcileTyped
<1> QED BY <1>1, <1>2, <1>3, <1>4, <1>5 DEF HandlerStep, Settle

LEMMA AllTypes ==
    ASSUME StepTypes', CatalogStepTypes', stale' \subseteq Handlers, clashed' \subseteq Aliases,
           counted' \in [Cells -> Nat], clean' \in [Handlers -> SUBSET Skus],
           overtaken' \subseteq Cells, repeated' \subseteq Cells, doubled' \subseteq Skus, fresh' \subseteq Skus
    PROVE  TypeOK'
BY DEF TypeOK, StepTypes, TableTypes, CatalogTypeOK, CatalogStepTypes

LEMMA InitTyped == Init => TypeOK
<1> SUFFICES ASSUME Init PROVE TypeOK
  OBVIOUS
<1>1. CatalogTypeOK
  BY NoTaskFields, CatalogAssumption DEF Init, CatalogInit, CatalogTypeOK, Active
<1>2. alerts \in [Skus -> Seq(Alert)]
  BY EmptySeq DEF Init
<1> HIDE DEF Idle, NoRows
<1>3. job \in [Handlers -> Job] /\ cells \in [Cells -> Row]
  BY IdleFields, RowsType DEF Init
<1> QED BY <1>1, <1>2, <1>3 DEF Init, TypeOK

LEMMA NextTyped == TypeOK /\ [Next]_vars => TypeOK'
<1> SUFFICES ASSUME TypeOK, [Next]_vars PROVE TypeOK'
  OBVIOUS
<1>0. CatalogTypeOK /\ StepTypes
  BY TypeIsStepTypes DEF TypeOK
<1>1. ASSUME NEW h \in Handlers, HandlerStep(h) \/ Settle(h), LedgerOnly, moved' = moved,
             NEW settled \in SUBSET Skus, Remember(settled)
      PROVE  TypeOK'
  <2>1. StepTypes'
    BY <1>1, LedgerTypes
  <2>2. begun' \in 0 .. MaxJobs
    BY <2>1 DEF StepTypes
  <2>3. CatalogStepTypes'
    BY <1>0, <1>1, <2>2 DEF LedgerOnly, CatalogStepTypes, CatalogTypeOK, catalogTables
  <2>4. stale' \subseteq Handlers /\ clashed' \subseteq Aliases
    BY <1>1, NoteTyped DEF LedgerOnly
  <2>5. /\ counted' \in [Cells -> Nat] /\ clean' \in [Handlers -> SUBSET Skus]
        /\ overtaken' \subseteq Cells /\ repeated' \subseteq Cells /\ doubled' \subseteq Skus /\ fresh' \subseteq Skus
    BY <1>1, RememberTyped
  <2> QED BY <2>1, <2>3, <2>4, <2>5, AllTypes
<1>2. ASSUME CatalogStepTypes', stale' \subseteq Handlers, clashed' \subseteq Aliases, CatalogOnly
      PROVE  TypeOK'
  <2>1. StepTypes'
    BY <1>0, <1>2 DEF CatalogOnly, StepTypes, TableTypes, tables, CatalogStepTypes
  <2>2. /\ counted' \in [Cells -> Nat] /\ clean' \in [Handlers -> SUBSET Skus]
        /\ overtaken' \subseteq Cells /\ repeated' \subseteq Cells /\ doubled' \subseteq Skus /\ fresh' \subseteq Skus
    BY <1>2, RememberTyped DEF CatalogOnly
  <2> QED BY <1>2, <2>1, <2>2, AllTypes
<1>3. ASSUME NEW h \in Handlers, CatalogStep(h), CatalogOnly, moved' = moved
      PROVE  TypeOK'
  <2>1. CatalogStepTypes'
    BY <1>0, <1>3, CatalogStepsTyped
  <2>2. \E b \in BOOLEAN : Note(b)
    BY <1>3, CatalogNotes
  <2> QED BY <1>2, <1>3, <2>1, <2>2, NoteTyped
<1>4. ASSUME NEW s \in Skus, SetSeatModel(s) \/ Offer(s), CatalogOnly
      PROVE  TypeOK'
  <2>1. CatalogStepTypes'
    BY <1>0, <1>4, OutsideTyped
  <2>2. \E b \in BOOLEAN : Note(b)
    BY <1>4 DEF SetSeatModel, Offer
  <2> QED BY <1>2, <1>4, <2>1, <2>2, NoteTyped
<1>5. ASSUME NEW s \in Skus, TenantMoves(s), LedgerOnly, Remember({})
      PROVE  TypeOK'
  <2>1. consumed' \in [Skus -> Nat]
    <3>1. PICK n \in Quantities : consumed' = [consumed EXCEPT ![s] = n]
      BY <1>5 DEF TenantMoves
    <3>2. n \in Nat /\ consumed \in [Skus -> Nat]
      BY <1>0, LedgerAssumption DEF Quantities, StepTypes, TableTypes
    <3> QED BY <3>1, <3>2
  <2>2. StepTypes'
    BY <1>0, <1>5, <2>1 DEF TenantMoves, StepTypes, TableTypes
  <2>3. moved' \in 0 .. MaxMoves
    BY <1>0, <1>5, CatalogAssumption DEF TenantMoves, OutsideMove, CatalogTypeOK
  <2>4. CatalogStepTypes'
    BY <1>0, <1>5, <2>3 DEF LedgerOnly, TenantMoves, CatalogStepTypes, CatalogTypeOK, catalogTables
  <2>5. stale' \subseteq Handlers /\ clashed' \subseteq Aliases
    BY <1>5, NoteTyped DEF LedgerOnly
  <2>6. /\ counted' \in [Cells -> Nat] /\ clean' \in [Handlers -> SUBSET Skus]
        /\ overtaken' \subseteq Cells /\ repeated' \subseteq Cells /\ doubled' \subseteq Skus /\ fresh' \subseteq Skus
    BY <1>5, RememberTyped
  <2> QED BY <2>2, <2>4, <2>5, <2>6, AllTypes
<1>6. ASSUME Restart, Remember({}) PROVE TypeOK'
  <2> HIDE DEF Idle, NoTask
  <2>1. job' \in [Handlers -> Job] /\ task' \in [Handlers -> Task]
    BY <1>6, IdleFields, NoTaskFields DEF Restart
  <2>2. StepTypes'
    BY <1>0, <1>6, <2>1 DEF Restart, StepTypes, TableTypes, tables
  <2>3. CatalogStepTypes'
    BY <1>0, <1>6, <2>1 DEF Restart, CatalogStepTypes, CatalogTypeOK, catalogTables
  <2>4. stale' \subseteq Handlers /\ clashed' \subseteq Aliases
    BY <1>6, NoteTyped DEF Restart
  <2>5. /\ counted' \in [Cells -> Nat] /\ clean' \in [Handlers -> SUBSET Skus]
        /\ overtaken' \subseteq Cells /\ repeated' \subseteq Cells /\ doubled' \subseteq Skus /\ fresh' \subseteq Skus
    BY <1>6, RememberTyped
  <2> QED BY <2>2, <2>3, <2>4, <2>5, AllTypes
<1>7. CASE UNCHANGED vars
  BY <1>7 DEF vars, catalogVars, catalogTables, tables, history, TypeOK, CatalogTypeOK
<1>8. CASE Next
  <2>1. \A h \in Handlers : {job[h].sku} \cap clean[h] \in SUBSET Skus
    BY DEF TypeOK
  <2> QED BY <1>1, <1>3, <1>4, <1>5, <1>6, <1>8, <2>1 DEF Next
<1> QED BY <1>7, <1>8

\* Tables, handlers and history keep their types: a cell never goes below zero,
\* a handler never refers to a cell or a licence that is not there.
THEOREM LedgerTyped == Spec => []TypeOK
BY InitTyped, NextTyped, PTL DEF Spec

-----------------------------------------------------------------------------
(* The trail of the assigned numbers. *)

\* Only h moves.
LEMMA LedgerAlone ==
    ASSUME job \in [Handlers -> Job], NEW h \in Handlers, HandlerStep(h) \/ Settle(h)
    PROVE  \A g \in Handlers \ {h} : job'[g] = job[g]
<1> DEFINE Rest == \A g \in Handlers \ {h} : job'[g] = job[g]
<1> HIDE DEF Idle
<1>1. /\ \A w : Go(h, w) => Rest
      /\ Done(h) => Rest
      /\ \A work : Begin(h, work) => Rest
      /\ \A work : job' = [job EXCEPT ![h] = work] => Rest
  BY JobNext
<1>2. \A next, again : Plan(h, next, again) => Rest
  BY <1>1 DEF Plan
<1> HIDE DEF Rest
<1>3. ASSUME EditRow(h) \/ Import(h) \/ Baseline(h) PROVE Rest
  BY <1>2, <1>3 DEF EditRow, Import, Baseline
<1>4. ASSUME NEW scope, AllocationReset(h, scope) \/ FullReset(h, scope) PROVE Rest
  BY <1>1, <1>4 DEF AllocationReset, FullReset
<1>5. ASSUME NEW c, Assign(h, c) PROVE Rest
  BY <1>1, <1>5 DEF Assign
<1>6. ASSUME Reconcile(h) PROVE Rest
  BY <1>1, <1>6 DEF Reconcile
<1>7. ASSUME Write(h) \/ ZeroAllocations(h) \/ Clear(h) \/ CountSeat(h) \/ GrantSeat(h) PROVE Rest
  BY <1>1, <1>7 DEF Write, ZeroAllocations, Clear, CountSeat, GrantSeat
<1>8. ASSUME ReadCatalog(h) \/ Look(h) \/ Sum(h) PROVE Rest
  BY <1>1, <1>8 DEF ReadCatalog, Look, Sum, Rest
<1>9. Proceed(h) => Rest
  BY <1>1 DEF Proceed, Rest
<1>10. ASSUME Raise(h) \/ Resolve(h) PROVE Rest
  BY <1>9, <1>10 DEF Raise, Resolve
<1> QED BY <1>3, <1>4, <1>5, <1>6, <1>7, <1>8, <1>10 DEF HandlerStep, Settle, Rest

\* Who begins an absolute write has read the cells as they are.
LEMMA PlansAsRead ==
    ASSUME TypeOK, NEW h \in Handlers, EditRow(h) \/ Import(h) \/ Baseline(h)
    PROVE  /\ job[h].at = "idle" /\ job'[h].at = "write"
           /\ job'[h].before = cells /\ UNCHANGED tables
<1> HIDE DEF Idle
<1>0. job \in [Handlers -> Job] /\ cells \in [Cells -> Row]
  BY DEF TypeOK
<1>1. ASSUME NEW next, NEW again, Plan(h, next, again)
      PROVE  /\ job[h].at = "idle" /\ job'[h].at = "write" /\ job'[h].before = cells
             /\ UNCHANGED tables
  <2>1. /\ job[h].at = "idle"
        /\ job'[h] = [Idle EXCEPT !.at = "write", !.before = cells, !.next = next,
                                  !.again = again]
    BY <1>0, <1>1, JobNext DEF Plan
  <2> QED BY <1>1, <2>1, IdleFields DEF Plan, Job
<1> QED BY <1>1 DEF EditRow, Import, Baseline

\* A step that leaves the numbers in use, and what is on record about them.
Quiet == \A c \in Cells : /\ cells'[c].assigned = cells[c].assigned
                          /\ adjusted'[c] = adjusted[c]

LEMMA TablesQuiet == UNCHANGED tables => Quiet
BY DEF tables, Quiet

LEMMA IdlePoints == \A h \in Handlers : TypeOK => job[h].at \in Points /\ job[h] \in Job
BY DEF TypeOK, Job

\* The other steps of the ledger: quiet, or one of the three that write numbers
\* in use; and none but a full reset comes to write anything absolute.
LEMMA OtherSteps ==
    ASSUME TypeOK, NEW h \in Handlers, HandlerStep(h) \/ Settle(h),
           ~(EditRow(h) \/ Import(h) \/ Baseline(h))
    PROVE  /\ Write(h) \/ Clear(h) \/ CountSeat(h)
              \/ (Quiet /\ (job[h].at = "count" => cells' = cells))
           /\ job'[h].at # "write"
           /\ job'[h].at = "clear" => job'[h].before = cells /\ Quiet
<1> HIDE DEF Idle
<1>0. /\ job \in [Handlers -> Job] /\ cells \in [Cells -> Row] /\ job[h] \in Job
      /\ Idle \in Job /\ Idle.at = "idle"
  BY IdleFields DEF TypeOK
<1>1. /\ \A w \in Points : Go(h, w) => job'[h].at = w
      /\ Done(h) => job'[h].at = "idle"
      /\ \A work : Begin(h, work) => job'[h] = work
  BY <1>0, JobNext DEF Job
<1>2. ASSUME NEW scope, AllocationReset(h, scope)
      PROVE  Quiet /\ job'[h].at = "zero" /\ cells' = cells
  <2>1. [Idle EXCEPT !.at = "zero", !.scope = scope].at = "zero"
    BY <1>0 DEF Job
  <2> QED BY <1>1, <1>2, <2>1, TablesQuiet DEF AllocationReset, tables
<1>3. ASSUME NEW scope, FullReset(h, scope)
      PROVE  Quiet /\ job'[h].at = "clear" /\ job'[h].before = cells /\ cells' = cells
  <2>1. [Idle EXCEPT !.at = "clear", !.scope = scope, !.before = cells].at = "clear"
    BY <1>0 DEF Job
  <2>2. [Idle EXCEPT !.at = "clear", !.scope = scope, !.before = cells].before = cells
    BY <1>0 DEF Job
  <2> QED BY <1>1, <1>3, <2>1, <2>2, TablesQuiet DEF FullReset, tables
<1>4. ASSUME NEW c, Assign(h, c)
      PROVE  Quiet /\ job'[h].at = "grant" /\ cells' = cells
  <2>1. [Idle EXCEPT !.at = "grant", !.cell = c].at = "grant"
    BY <1>0 DEF Job
  <2> QED BY <1>1, <1>4, <2>1, TablesQuiet DEF Assign, tables
<1>5. ASSUME Reconcile(h)
      PROVE  Quiet /\ job'[h].at = "catalog" /\ cells' = cells
  <2>1. [Idle EXCEPT !.at = "catalog", !.live = [s \in Skus |-> Used(s)]].at = "catalog"
    BY <1>0 DEF Job
  <2> QED BY <1>1, <1>5, <2>1, TablesQuiet DEF Reconcile, tables
<1>6. ASSUME Write(h) \/ Clear(h) \/ CountSeat(h) PROVE job'[h].at = "idle"
  BY <1>1, <1>6 DEF Write, Clear, CountSeat
<1>7. ASSUME ZeroAllocations(h)
      PROVE  Quiet /\ job'[h].at = "idle" /\ job[h].at = "zero"
  <2>1. \A c \in Cells : [cells[c] EXCEPT !.allocated = 0].assigned = cells[c].assigned
    BY <1>0 DEF Row
  <2> QED BY <1>0, <1>1, <1>7, <2>1 DEF ZeroAllocations, Quiet, At
<1>8. ASSUME GrantSeat(h)
      PROVE  Quiet /\ job'[h].at \in {"idle", "count"} /\ cells' = cells
  <2>1. "count" \in Points
    BY DEF Points
  <2> QED BY <1>1, <1>8, <2>1 DEF GrantSeat, Quiet
<1>9. ASSUME ReadCatalog(h) \/ Sum(h) \/ Look(h)
      PROVE  Quiet /\ job'[h].at \in {"idle", "look", "raise", "resolve", "sum"} /\ cells' = cells
  <2>1. UNCHANGED tables
    BY <1>9 DEF ReadCatalog, Sum, Look
  <2>2. CASE ReadCatalog(h)
    BY <1>0, <1>1, <2>1, <2>2, TablesQuiet DEF ReadCatalog, tables, Job
  <2>3. CASE Sum(h)
    BY <1>0, <2>1, <2>3, TablesQuiet DEF Sum, tables, Job
  <2>4. CASE Look(h)
    BY <1>0, <2>1, <2>4, TablesQuiet DEF Look, tables, Job
  <2> QED BY <1>9, <2>2, <2>3, <2>4
<1>10. ASSUME Raise(h) \/ Resolve(h)
       PROVE  Quiet /\ job'[h].at \in {"idle", "look"} /\ cells' = cells
  <2>1. Proceed(h)
    BY <1>10 DEF Raise, Resolve
  <2>2. job'[h].at \in {"idle", "look"}
    BY <1>0, <1>1, <2>1 DEF Proceed, Job
  <2> QED BY <1>10, <2>2 DEF Raise, Resolve, Quiet
<1>11. CASE \E scope : AllocationReset(h, scope) \/ FullReset(h, scope)
  BY <1>2, <1>3, <1>11
<1>12. CASE (\E c : Assign(h, c)) \/ Reconcile(h) \/ ZeroAllocations(h) \/ GrantSeat(h)
  BY <1>4, <1>5, <1>7, <1>8, <1>12
<1>13. CASE ReadCatalog(h) \/ Sum(h) \/ Look(h) \/ Raise(h) \/ Resolve(h)
  BY <1>9, <1>10, <1>13
<1>14. CASE Write(h) \/ Clear(h) \/ CountSeat(h)
  BY <1>6, <1>14
<1> QED BY <1>11, <1>12, <1>13, <1>14 DEF HandlerStep, Settle

\* A handler that will write the assigned number of a cell, and that nobody
\* overtook there, has the number that the cell has.
BookInv ==
    \A h \in Handlers :
       /\ At(h, "write") => \A c \in Cells \ overtaken :
             job[h].next[c].assigned # job[h].before[c].assigned
               => cells[c].assigned = job[h].before[c].assigned
       /\ At(h, "clear") => \A c \in job[h].scope \ overtaken :
             cells[c].assigned = job[h].before[c].assigned

TrailInv == BookInv /\ TrailExplains

LEMMA TrailStart == Init => TrailInv
<1> SUFFICES ASSUME Init PROVE TrailInv
  OBVIOUS
<1> HIDE DEF Idle
<1>1. BookInv
  BY IdleFields DEF Init, BookInv, At
<1>2. TrailExplains
  BY DEF Init, TrailExplains, NoRows
<1> QED BY <1>1, <1>2 DEF TrailInv

\* What the seats that were counted become.
LEMMA CountedNext ==
    ASSUME TypeOK, NEW settled, Remember(settled), NEW h \in Handlers,
           \A g \in Handlers \ {h} : job'[g] = job[g], NEW c \in Cells
    PROVE  counted'[c] = counted[c] + IF cells' # cells /\ job[h].at = "count" /\ job[h].cell = c
                                         /\ job'[h].at = "idle"
                                      THEN 1 ELSE 0
<1>1. counted'[c] = counted[c] +
            IF cells' # cells /\ \E g \in Handlers : At(g, "count") /\ job[g].cell = c
                                                   /\ At(g, "idle")'
            THEN 1 ELSE 0
  BY DEF Remember
<1>2. (\E g \in Handlers : At(g, "count") /\ job[g].cell = c /\ At(g, "idle")')
      <=> (job[h].at = "count" /\ job[h].cell = c /\ job'[h].at = "idle")
  BY DEF At
<1> QED BY <1>1, <1>2

LEMMA OthersBook ==
    ASSUME TypeOK, BookInv, NEW settled, Remember(settled), NEW g \in Handlers,
           job'[g] = job[g]
    PROVE  /\ At(g, "write")' => \A c \in Cells \ overtaken' :
                job'[g].next[c].assigned # job'[g].before[c].assigned
                  => cells'[c].assigned = job'[g].before[c].assigned
           /\ At(g, "clear")' => \A c \in job'[g].scope \ overtaken' :
                cells'[c].assigned = job'[g].before[c].assigned
<1>1. overtaken' = overtaken \cup {c \in Cells : \E h \in Handlers : Overtakes(h, c)}
  BY DEF Remember
<1>2. job[g].scope \subseteq Cells
  BY DEF TypeOK, Job
<1>3. ASSUME NEW c \in Cells \ overtaken', cells'[c].assigned # cells[c].assigned
      PROVE  ~Overtakes(g, c)
  BY <1>1
<1>4. \A c \in Cells \ overtaken' : c \notin overtaken
  BY <1>1
<1>5. ASSUME At(g, "write"), NEW c \in Cells \ overtaken',
             job[g].next[c].assigned # job[g].before[c].assigned
      PROVE  cells'[c].assigned = job[g].before[c].assigned
  BY <1>3, <1>4, <1>5 DEF BookInv, Overtakes
<1>6. ASSUME At(g, "clear"), NEW c \in job[g].scope \ overtaken'
      PROVE  cells'[c].assigned = job[g].before[c].assigned
  BY <1>2, <1>3, <1>4, <1>6 DEF BookInv, Overtakes
<1> QED BY <1>5, <1>6 DEF At

LEMMA TrailNext ==
    ASSUME TypeOK, TypeOK', TrailInv, [Next]_vars
    PROVE  TrailInv'
<1>0. /\ job \in [Handlers -> Job] /\ cells \in [Cells -> Row] /\ adjusted \in [Cells -> Int]
      /\ counted \in [Cells -> Nat] /\ cells' \in [Cells -> Row]
      /\ BookInv /\ TrailExplains
  BY DEF TypeOK, TrailInv
<1>1. ASSUME NEW h \in Handlers, HandlerStep(h) \/ Settle(h), NEW settled, Remember(settled)
      PROVE  TrailInv'
  <2>1. \A g \in Handlers \ {h} : job'[g] = job[g]
    BY <1>0, <1>1, LedgerAlone
  <2>2. overtaken \subseteq overtaken' /\ repeated \subseteq repeated'
    BY <1>1 DEF Remember
  <2>3. \A c \in Cells : counted'[c] = counted[c] +
          IF cells' # cells /\ job[h].at = "count" /\ job[h].cell = c /\ job'[h].at = "idle"
          THEN 1 ELSE 0
    BY <1>1, <2>1, CountedNext
  <2>4. ASSUME /\ At(h, "write")' => \A c \in Cells \ overtaken' :
                    job'[h].next[c].assigned # job'[h].before[c].assigned
                      => cells'[c].assigned = job'[h].before[c].assigned
               /\ At(h, "clear")' => \A c \in job'[h].scope \ overtaken' :
                    cells'[c].assigned = job'[h].before[c].assigned
        PROVE  BookInv'
    <3>1. ASSUME NEW g \in Handlers
          PROVE  /\ At(g, "write")' => \A c \in Cells \ overtaken' :
                      job'[g].next[c].assigned # job'[g].before[c].assigned
                        => cells'[c].assigned = job'[g].before[c].assigned
                 /\ At(g, "clear")' => \A c \in job'[g].scope \ overtaken' :
                      cells'[c].assigned = job'[g].before[c].assigned
      <4>1. CASE g = h
        BY <2>4, <4>1
      <4>2. CASE g # h
        BY <1>0, <1>1, <2>1, <4>2, OthersBook
      <4> QED BY <4>1, <4>2
    <3> QED BY <3>1 DEF BookInv
  <2>5. ASSUME Quiet, job[h].at = "count" => cells' = cells PROVE TrailExplains'
    <3>1. \A c \in Cells : counted'[c] = counted[c]
      BY <1>0, <2>3, <2>5
    <3> QED BY <1>0, <2>2, <2>5, <3>1 DEF TrailExplains, Quiet
  <2>6. CASE EditRow(h) \/ Import(h) \/ Baseline(h)
    <3>1. /\ job[h].at = "idle" /\ job'[h].at = "write"
          /\ job'[h].before = cells /\ UNCHANGED tables
      BY <2>6, PlansAsRead
    <3>2. cells' = cells /\ Quiet
      BY <3>1, TablesQuiet DEF tables
    <3>3. BookInv'
      BY <2>4, <3>1, <3>2 DEF At
    <3> QED BY <2>5, <3>2, <3>3 DEF TrailInv
  <2>7. CASE ~(EditRow(h) \/ Import(h) \/ Baseline(h))
    <3>1. /\ Write(h) \/ Clear(h) \/ CountSeat(h)
              \/ (Quiet /\ (job[h].at = "count" => cells' = cells))
          /\ job'[h].at # "write"
          /\ job'[h].at = "clear" => job'[h].before = cells /\ Quiet
      BY <1>1, <2>7, OtherSteps
    <3>2. job'[h].scope \subseteq Cells
      BY DEF TypeOK, Job
    <3>3. BookInv'
      BY <2>4, <3>1, <3>2 DEF At, Quiet
    <3>4. TrailExplains'
      <4>1. CASE Write(h)
        <5>1. \A c \in Cells : counted'[c] = counted[c]
          BY <1>0, <2>3, <4>1 DEF Write, At
        <5>2. ASSUME NEW c \in Cells \ (overtaken' \cup repeated')
              PROVE  cells'[c].assigned = counted'[c] + adjusted'[c]
          <6>1. /\ c \notin overtaken /\ c \notin repeated
                /\ cells[c].assigned = counted[c] + adjusted[c]
            BY <1>0, <2>2 DEF TrailExplains
          <6> DEFINE to == job[h].next[c].assigned
                     was == job[h].before[c].assigned
                     again == job[h].again[c]
          <6>2. /\ cells'[c].assigned = IF to # was THEN to ELSE cells[c].assigned
                /\ adjusted'[c] = adjusted[c] + to - was + again
            BY <1>0, <4>1 DEF Write, Changed
          <6>3. to \in Nat /\ was \in Nat /\ counted[c] \in Nat /\ adjusted[c] \in Int
            <7>1. job[h].next[c] \in Row /\ job[h].before[c] \in Row
              BY <1>0 DEF Job
            <7> QED BY <1>0, <7>1 DEF Row
          <6>4. to # was => cells[c].assigned = was
            BY <1>0, <4>1, <6>1 DEF BookInv, Write
          <6>5. CASE <<cells, adjusted>>' = <<cells, adjusted>>
            BY <5>1, <6>1, <6>5
          <6>6. CASE <<cells, adjusted>>' # <<cells, adjusted>>
            <7>1. At(h, "write") /\ At(h, "idle")'
              <8> HIDE DEF Idle
              <8>1. job'[h].at = "idle"
                BY <1>0, <4>1, JobNext, IdleFields DEF Write
              <8> QED BY <4>1, <8>1 DEF Write, At
            <7>2. again = 0
              BY <1>1, <6>6, <7>1 DEF Remember
            <7> HIDE DEF to, was, again
            <7> QED BY <5>1, <6>1, <6>2, <6>3, <6>4, <7>2
          <6> QED BY <6>5, <6>6
        <5> QED BY <5>2 DEF TrailExplains
      <4>2. CASE Clear(h)
        <5>1. \A c \in Cells : counted'[c] = counted[c]
          BY <1>0, <2>3, <4>2 DEF Clear, At
        <5>2. ASSUME NEW c \in Cells \ (overtaken' \cup repeated')
              PROVE  cells'[c].assigned = counted'[c] + adjusted'[c]
          <6>1. c \notin overtaken /\ cells[c].assigned = counted[c] + adjusted[c]
            BY <1>0, <2>2 DEF TrailExplains
          <6> DEFINE was == job[h].before[c].assigned
          <6>2. CASE c \in job[h].scope
            <7>1. cells'[c].assigned = 0 /\ adjusted'[c] = adjusted[c] - was
              BY <4>2, <6>2 DEF Clear, NoRows
            <7>2. cells[c].assigned = was
              BY <1>0, <4>2, <6>1, <6>2 DEF BookInv, Clear
            <7>3. counted[c] \in Nat /\ adjusted[c] \in Int
              BY <1>0
            <7> HIDE DEF was
            <7> QED BY <5>1, <6>1, <7>1, <7>2, <7>3
          <6>3. CASE c \notin job[h].scope
            <7>1. cells'[c] = cells[c] /\ adjusted'[c] = adjusted[c] - 0
              BY <4>2, <6>3 DEF Clear
            <7>2. adjusted'[c] = adjusted[c]
              BY <1>0, <7>1
            <7> QED BY <5>1, <6>1, <7>1, <7>2
          <6> QED BY <6>2, <6>3
        <5> QED BY <5>2 DEF TrailExplains
      <4>3. CASE CountSeat(h)
        <5> DEFINE c == job[h].cell
        <5>0. c \in Cells /\ cells[c] \in Row /\ cells[c].assigned \in Nat
          BY <1>0 DEF Job, Row
        <5>1. /\ cells' = [cells EXCEPT ![c] = [cells[c] EXCEPT !.assigned = cells[c].assigned + 1]]
              /\ job[h].at = "count" /\ adjusted' = adjusted
          BY <4>3 DEF CountSeat, At
        <5>2. job'[h].at = "idle"
          <6> HIDE DEF Idle
          <6> QED BY <1>0, <4>3, JobNext, IdleFields DEF CountSeat
        <5>3. cells'[c].assigned = cells[c].assigned + 1
          BY <1>0, <5>0, <5>1 DEF Row
        <5>4. cells' # cells
          BY <5>0, <5>3
        <5>5. \A d \in Cells \ {c} : cells'[d] = cells[d]
          BY <1>0, <5>0, <5>1
        <5> HIDE DEF c
        <5>6. counted'[c] = counted[c] + 1 /\ \A d \in Cells \ {c} : counted'[d] = counted[d]
          BY <1>0, <2>3, <5>1, <5>2, <5>4, <5>0 DEF c
        <5>7. ASSUME NEW d \in Cells \ (overtaken' \cup repeated')
              PROVE  cells'[d].assigned = counted'[d] + adjusted'[d]
          <6>1. cells[d].assigned = counted[d] + adjusted[d] /\ counted[d] \in Nat /\ adjusted[d] \in Int
            BY <1>0, <2>2 DEF TrailExplains
          <6> QED BY <5>1, <5>3, <5>5, <5>6, <6>1
        <5> QED BY <5>7 DEF TrailExplains
      <4> QED BY <2>5, <3>1, <4>1, <4>2, <4>3
    <3> QED BY <3>3, <3>4 DEF TrailInv
  <2> QED BY <2>6, <2>7
<1>2. ASSUME UNCHANGED <<cells, adjusted, job>>, Remember({}) PROVE TrailInv'
  <2>1. counted' = counted
    BY <1>0, <1>2 DEF Remember
  <2>2. overtaken' = overtaken /\ repeated \subseteq repeated'
    BY <1>2 DEF Remember, Overtakes
  <2> QED BY <1>0, <1>2, <2>1, <2>2 DEF TrailInv, BookInv, TrailExplains, At
<1>3. ASSUME Restart, Remember({}) PROVE TrailInv'
  <2> HIDE DEF Idle
  <2>1. cells' = cells /\ adjusted' = adjusted /\ \A h \in Handlers : job'[h].at = "idle"
    BY <1>3, IdleFields DEF Restart, tables
  <2>2. counted' = counted
    BY <1>0, <1>3, <2>1 DEF Remember
  <2>3. overtaken \subseteq overtaken' /\ repeated \subseteq repeated'
    BY <1>3 DEF Remember
  <2> QED BY <1>0, <2>1, <2>2, <2>3 DEF TrailInv, BookInv, TrailExplains, At
<1>4. CASE UNCHANGED vars
  BY <1>0, <1>4 DEF vars, tables, history, TrailInv, BookInv, TrailExplains, At
<1>5. CASE Next
  <2>1. ASSUME CatalogOnly PROVE TrailInv'
    BY <1>2, <2>1 DEF CatalogOnly, tables
  <2>2. ASSUME NEW s \in Skus, TenantMoves(s), Remember({}) PROVE TrailInv'
    BY <1>2, <2>2 DEF TenantMoves
  <2> QED BY <1>1, <1>3, <1>5, <2>1, <2>2 DEF Next
<1> QED BY <1>4, <1>5

\* The number in use of a cell is the seats that assigns counted plus what is on
\* record as adjusted (ledger-write.service.ts, assigned-baseline.ts,
\* ledger-full-reset.service.ts), whatever files are imported and however writers
\* interleave, unless a writer was overtaken at that cell or a baseline changed it
\* twice, for a file that lists it twice.
THEOREM TrailHolds == Spec => []TrailExplains
<1>1. TypeOK /\ TrailInv /\ [Next]_vars => TypeOK' /\ TrailInv'
  BY NextTyped, TrailNext
<1>2. TrailInv => TrailExplains
  BY DEF TrailInv
<1> QED BY InitTyped, TrailStart, <1>1, <1>2, PTL DEF Spec

-----------------------------------------------------------------------------
(* Aliases. *)

\* The alias of a licence once h has saved.
Becomes(h, s) ==
    IF \E e \in task[h].edits : e[1] = s THEN (CHOOSE e \in task[h].edits : e[1] = s)[2]
    ELSE catalog[s].alias

\* The licences that would then hold a.
Sharers(h, a) == {s \in Active : Becomes(h, s) = a}

\* What h saves adds nothing to an alias that it does not leave with one licence.
Fair(h) ==
    \A a \in Aliases : Sharers(h, a) \subseteq Holders(a) \/ \A s, t \in Sharers(h, a) : s = t

AliasInv ==
    /\ \A h \in Handlers : Doing(h, "save") /\ h \notin stale => Fair(h)
    /\ \A h \in Handlers : Doing(h, "guard") =>
          \E s \in Skus, a \in Aliases : task[h].edits = {<<s, a>>}
    /\ AliasNamesOneSku

\* A set of licences whose members are all the same.
LEMMA AtMostOne ==
    ASSUME NEW S \in SUBSET Skus, \A s, t \in S : s = t
    PROVE  Cardinality(S) <= 1
<1>1. CASE S = {}
  BY <1>1, FS_EmptySet
<1>2. CASE S # {}
  <2>1. PICK s \in S : S = {s}
    BY <1>2
  <2> QED BY <2>1, FS_Singleton
<1> QED BY <1>1, <1>2

LEMMA LicencesCounted == \A S \in SUBSET Skus : IsFiniteSet(S) /\ Cardinality(S) \in Nat
BY CatalogAssumption, FS_Subset, FS_CardinalityType

\* While no licence changes its row or its alias, aliases have who they had.
LEMMA HoldersStay ==
    ASSUME ~Renamed
    PROVE  Active' = Active /\ \A a : Holders(a)' = Holders(a)
<1>1. \A s \in Skus : catalog'[s].alias = catalog[s].alias /\ catalog'[s].row = catalog[s].row
  BY DEF Renamed
<1>2. Active' = Active
  BY <1>1 DEF Active
<1> QED BY <1>1, <1>2 DEF Holders, Active

LEMMA FairStays ==
    ASSUME ~Renamed, NEW h \in Handlers, task'[h].edits = task[h].edits, Fair(h)
    PROVE  Fair(h)'
<1>1. Active' = Active /\ \A a : Holders(a)' = Holders(a)
  BY HoldersStay
<1>2. \A s \in Skus : Becomes(h, s)' = Becomes(h, s)
  BY DEF Becomes, Renamed
<1>3. \A a : Sharers(h, a)' = Sharers(h, a)
  BY <1>1, <1>2 DEF Sharers, Active
<1> QED BY <1>1, <1>3 DEF Fair

\* Which edit of a licence is taken, when they agree.
LEMMA Picked ==
    ASSUME NEW edits, NEW s, NEW a, \E e \in edits : e[1] = s,
           \A e \in edits : e[1] = s => e[2] = a
    PROVE  (CHOOSE e \in edits : e[1] = s)[2] = a
<1>1. (CHOOSE e \in edits : e[1] = s) \in edits /\ (CHOOSE e \in edits : e[1] = s)[1] = s
  OBVIOUS
<1> QED BY <1>1

\* What a step notes of an alias.
LEMMA Noted ==
    ASSUME NEW excused \in BOOLEAN, Note(excused), NEW a \in Aliases, a \notin clashed'
    PROVE  Cardinality(Holders(a)') <= 1 \/ (a \notin clashed /\ ~excused)
<1>1. Holders(a)' \in SUBSET Skus
  BY DEF Holders, Active
<1>2. Cardinality(Holders(a)') \in Nat
  BY <1>1, LicencesCounted
<1>3. ~(Cardinality(Holders(a)') > 1 /\ (a \in clashed \/ excused))
  BY DEF Note
<1> QED BY <1>2, <1>3

LEMMA NamesStay ==
    ASSUME AliasNamesOneSku, NEW excused \in BOOLEAN, Note(excused), ~Renamed
    PROVE  AliasNamesOneSku'
<1> SUFFICES ASSUME NEW a \in Aliases, a \notin clashed'
             PROVE  Cardinality(Holders(a)') <= 1
  BY DEF AliasNamesOneSku
<1>1. Holders(a)' = Holders(a)
  BY HoldersStay
<1> QED BY <1>1, Noted DEF AliasNamesOneSku

\* Where a handler's step in the catalog takes it.
LEMMA CatalogSteps ==
    ASSUME CatalogTypeOK, NEW h \in Handlers, CatalogStep(h), AliasInv
    PROVE  /\ \A g \in Handlers \ {h} : task'[g] = task[g]
           /\ task'[h].at = "save" => ~Doing(h, "save") /\ catalog' = catalog /\ Fair(h)'
           /\ task'[h].at = "guard" => \E s \in Skus, a \in Aliases : task'[h].edits = {<<s, a>>}
<1> DEFINE Rest == \A g \in Handlers \ {h} : task'[g] = task[g]
<1> HIDE DEF NoTask
<1>0. task \in [Handlers -> Task] /\ task[h] \in Task /\ NoTask \in Task /\ NoTask.at = "idle"
  BY NoTaskFields DEF CatalogTypeOK
<1>1. /\ Finish(h) => Rest /\ task'[h].at = "idle"
      /\ \A work : Take(h, work) => Rest /\ task[h].at = "idle" /\ task'[h] = work
      /\ \A w : Turn(h, w) => Rest /\ task'[h] = [task[h] EXCEPT !.at = w]
  BY <1>0, TaskNext
<1>2. CASE StartSync(h)
  <2>1. [NoTask EXCEPT !.at = AfterUpsert(offered), !.seen = offered, !.todo = offered].at
           = AfterUpsert(offered)
    BY <1>0 DEF Task
  <2>2. Take(h, [NoTask EXCEPT !.at = AfterUpsert(offered), !.seen = offered, !.todo = offered])
    BY <1>2 DEF StartSync
  <2>3. Rest /\ task'[h].at = AfterUpsert(offered)
    BY <1>1, <2>1, <2>2
  <2> QED BY <2>3 DEF AfterUpsert
<1>3. CASE Upsert(h)
  <2>1. CASE Finish(h)
    BY <1>1, <2>1
  <2>2. ASSUME NEW s \in task[h].todo,
               task' = [task EXCEPT ![h].todo = @ \ {s},
                                    ![h].at = AfterUpsert(task[h].todo \ {s})]
        PROVE  Rest /\ task'[h].at \in {"upsert", "retire"}
    BY <1>0, <2>2 DEF AfterUpsert, Task
  <2> QED BY <1>3, <2>1, <2>2 DEF Upsert
<1>4. CASE Retire(h)
  BY <1>1, <1>4 DEF Retire
<1>5. CASE Save(h)
  BY <1>1, <1>5 DEF Save
<1>6. ASSUME NEW s \in Skus, NEW a \in Aliases \cup {NoAlias}, UpdateEntry(h, s, a)
      PROVE  /\ Rest
             /\ task'[h].at = "save" => ~Doing(h, "save") /\ catalog' = catalog /\ Fair(h)'
             /\ task'[h].at = "guard" => \E t \in Skus, b \in Aliases : task'[h].edits = {<<t, b>>}
  <2> DEFINE at == IF s \in Active /\ a # NoAlias THEN "guard" ELSE "save"
  <2> HIDE DEF at
  <2>1. /\ Rest /\ task[h].at = "idle" /\ catalog' = catalog
        /\ task'[h] = [NoTask EXCEPT !.edits = {<<s, a>>}, !.at = at]
    BY <1>1, <1>6 DEF UpdateEntry, at, catalogTables
  <2>2. task'[h].edits = {<<s, a>>} /\ task'[h].at = at
    BY <1>0, <2>1 DEF Task
  <2>3. CASE s \in Active /\ a # NoAlias
    BY <2>1, <2>2, <2>3 DEF at
  <2>4. CASE ~(s \in Active /\ a # NoAlias)
    <3>1. \A t \in Skus : Becomes(h, t)' = IF t = s THEN a ELSE catalog[t].alias
      <4> SUFFICES ASSUME NEW t \in Skus
                   PROVE  Becomes(h, t)' = IF t = s THEN a ELSE catalog[t].alias
        OBVIOUS
      <4>1. CASE t = s
        <5>1. \E e \in task'[h].edits : e[1] = t
          BY <2>2, <4>1
        <5>2. \A e \in task'[h].edits : e[1] = t => e[2] = a
          BY <2>2
        <5>3. (CHOOSE e \in task'[h].edits : e[1] = t)[2] = a
          BY <5>1, <5>2, Picked
        <5> QED BY <4>1, <5>1, <5>3 DEF Becomes
      <4>2. CASE t # s
        BY <2>1, <2>2, <4>2 DEF Becomes
      <4> QED BY <4>1, <4>2
    <3>2. ASSUME NEW b \in Aliases PROVE Sharers(h, b)' \subseteq Holders(b)'
      <4>1. b # NoAlias
        BY CatalogAssumption
      <4> QED BY <2>1, <2>4, <3>1, <4>1 DEF Sharers, Holders, Active
    <3>3. Fair(h)'
      BY <3>2 DEF Fair
    <3> QED BY <2>1, <2>2, <2>4, <3>3 DEF at, Doing
  <2> QED BY <2>3, <2>4
<1>7. CASE Guard(h)
  <2>1. PICK s \in Skus, a \in Aliases : task[h].edits = {<<s, a>>}
    BY <1>7 DEF Guard, AliasInv
  <2> DEFINE own   == CHOOSE e \in task[h].edits : TRUE
             named == [t \in Active \cup {own[1]} |->
                         IF t = own[1] THEN own[2] ELSE catalog[t].alias]
  <2>2. own = <<s, a>>
    BY <2>1
  <2>3. /\ IF Collide(named) THEN Finish(h) ELSE Turn(h, "save")
        /\ catalog' = catalog /\ Doing(h, "guard")
    BY <1>7 DEF Guard, catalogTables
  <2>4. CASE Collide(named)
    BY <1>1, <2>3, <2>4
  <2>5. CASE ~Collide(named)
    <3>1. Rest /\ task'[h] = [task[h] EXCEPT !.at = "save"] /\ catalog' = catalog
      BY <1>1, <2>3, <2>5
    <3>2. task'[h].edits = {<<s, a>>} /\ task'[h].at = "save"
      BY <1>0, <2>1, <3>1 DEF Task
    <3> HIDE DEF own
    <3>3. named = [t \in Active \cup {s} |-> IF t = s THEN a ELSE catalog[t].alias]
      BY <2>2
    <3> HIDE DEF named
    <3>4. \A t \in Skus : Becomes(h, t) = IF t = s THEN a ELSE catalog[t].alias
      <4> SUFFICES ASSUME NEW t \in Skus
                   PROVE  Becomes(h, t) = IF t = s THEN a ELSE catalog[t].alias
        OBVIOUS
      <4>1. CASE t = s
        <5>1. \E e \in task[h].edits : e[1] = t
          BY <2>1, <4>1
        <5>2. \A e \in task[h].edits : e[1] = t => e[2] = a
          BY <2>1
        <5>3. (CHOOSE e \in task[h].edits : e[1] = t)[2] = a
          BY <5>1, <5>2, Picked
        <5> QED BY <4>1, <5>1, <5>3 DEF Becomes
      <4>2. CASE t # s
        BY <2>1, <4>2 DEF Becomes
      <4> QED BY <4>1, <4>2
    <3>5. ASSUME NEW b \in Aliases, NEW t \in Sharers(h, b), NEW u \in Sharers(h, b), t # u
          PROVE  FALSE
      <4>1. t \in Active /\ u \in Active /\ Becomes(h, t) = b /\ Becomes(h, u) = b /\ b # NoAlias
        BY <3>5, CatalogAssumption DEF Sharers
      <4>2. named[t] = b /\ named[u] = b /\ t \in DOMAIN named /\ u \in DOMAIN named
        BY <3>3, <3>4, <4>1 DEF Active
      <4> QED BY <2>5, <3>5, <4>1, <4>2 DEF Collide
    <3>6. Fair(h)
      BY <3>5 DEF Fair
    <3>7. ~Renamed
      BY <3>1 DEF Renamed
    <3>8. Fair(h)'
      BY <2>1, <3>2, <3>6, <3>7, FairStays
    <3> QED BY <2>3, <3>1, <3>2, <3>8 DEF Doing
  <2> QED BY <2>4, <2>5
<1>8. CASE ImportCatalog(h)
  <2>1. PICK some \in SUBSET Active : \E file \in [some -> Aliases \cup {NoAlias}] :
          /\ ~Collide([s \in Active |-> IF s \in some THEN file[s] ELSE catalog[s].alias])
          /\ Take(h, [NoTask EXCEPT !.at = "save",
                     !.edits = {<<s, file[s]>> : s \in {t \in some : file[t] # catalog[t].alias}}])
          /\ UNCHANGED catalogTables
    BY <1>8 DEF ImportCatalog
  <2>2. PICK file \in [some -> Aliases \cup {NoAlias}] :
          /\ ~Collide([s \in Active |-> IF s \in some THEN file[s] ELSE catalog[s].alias])
          /\ Take(h, [NoTask EXCEPT !.at = "save",
                     !.edits = {<<s, file[s]>> : s \in {t \in some : file[t] # catalog[t].alias}}])
          /\ UNCHANGED catalogTables
    BY <2>1
  <2> DEFINE named == [s \in Active |-> IF s \in some THEN file[s] ELSE catalog[s].alias]
             edits == {<<s, file[s]>> : s \in {t \in some : file[t] # catalog[t].alias}}
  <2>3. /\ Rest /\ task[h].at = "idle" /\ catalog' = catalog
        /\ task'[h] = [NoTask EXCEPT !.at = "save", !.edits = edits]
    <3> HIDE DEF edits, Rest
    <3>1. Take(h, [NoTask EXCEPT !.at = "save", !.edits = edits]) /\ catalog' = catalog
      BY <2>2 DEF edits, catalogTables
    <3> QED BY <1>1, <3>1
  <2> HIDE DEF edits
  <2>4. task'[h].edits = edits /\ task'[h].at = "save"
    BY <1>0, <2>3 DEF Task
  <2> USE DEF edits
  <2>5. \A s \in Active : Becomes(h, s)' = named[s]
    <3> SUFFICES ASSUME NEW s \in Active PROVE Becomes(h, s)' = named[s]
      OBVIOUS
    <3>1. CASE s \in some /\ file[s] # catalog[s].alias
      <4>1. <<s, file[s]>> \in task'[h].edits
        BY <2>4, <3>1
      <4>2. \E x \in task'[h].edits : x[1] = s
        BY <4>1
      <4>4. \A x \in task'[h].edits : x[1] = s => x[2] = file[s]
        BY <2>4
      <4>5. (CHOOSE x \in task'[h].edits : x[1] = s)[2] = file[s]
        BY <4>2, <4>4, Picked
      <4> QED BY <3>1, <4>2, <4>5 DEF Becomes
    <3>2. CASE ~(s \in some /\ file[s] # catalog[s].alias)
      <4>1. ~ \E x \in task'[h].edits : x[1] = s
        BY <2>4, <3>2
      <4> QED BY <2>3, <3>2, <4>1 DEF Becomes
    <3> QED BY <3>1, <3>2
  <2> HIDE DEF named, edits
  <2>6. ~Collide(named) /\ DOMAIN named = Active
    BY <2>2 DEF named
  <2>7. ASSUME NEW b \in Aliases, NEW t \in Sharers(h, b)', NEW u \in Sharers(h, b)', t # u
        PROVE  FALSE
    <3>1. t \in Active /\ u \in Active /\ Becomes(h, t)' = b /\ Becomes(h, u)' = b /\ b # NoAlias
      BY <2>3, CatalogAssumption DEF Sharers, Active
    <3>2. named[t] = b /\ named[u] = b
      BY <2>5, <3>1
    <3> QED BY <2>6, <2>7, <3>1, <3>2 DEF Collide
  <2>8. Fair(h)'
    BY <2>7 DEF Fair
  <2> QED BY <2>3, <2>4, <2>8 DEF Doing
<1>9. CASE \E s \in Skus, a \in Aliases \cup {NoAlias} : UpdateEntry(h, s, a)
  BY <1>6, <1>9
<1> QED BY <1>2, <1>3, <1>4, <1>5, <1>7, <1>8, <1>9 DEF CatalogStep

\* A handler's step in the catalog leaves an alias with one licence, or notes it.
LEMMA StepNames ==
    ASSUME CatalogTypeOK, NEW h \in Handlers, CatalogStep(h), AliasInv
    PROVE  AliasNamesOneSku'
<1> SUFFICES ASSUME NEW a \in Aliases, a \notin clashed'
             PROVE  Cardinality(Holders(a)') <= 1
  BY DEF AliasNamesOneSku
<1>0. AliasNamesOneSku
  BY DEF AliasInv
<1>1. CASE Upsert(h)
  BY <1>1, Noted DEF Upsert
<1>2. CASE Retire(h)
  <2>1. /\ Note(FALSE)
        /\ catalog' = [s \in Skus |-> IF s \in Active \ task[h].seen
                                  THEN [catalog[s] EXCEPT !.row = "inactive"] ELSE catalog[s]]
    BY <1>2 DEF Retire
  <2>2. \A s \in Skus : catalog'[s].row = "active" => catalog'[s] = catalog[s]
    BY <2>1 DEF CatalogTypeOK, Entry
  <2>3. Holders(a)' \subseteq Holders(a)
    BY <2>2 DEF Holders, Active
  <2>4. Holders(a) \in SUBSET Skus /\ Holders(a)' \in SUBSET Skus
    BY <2>3 DEF Holders, Active
  <2>5. Cardinality(Holders(a)') <= Cardinality(Holders(a))
    BY <2>3, <2>4, LicencesCounted, FS_Subset
  <2>6. CASE Cardinality(Holders(a)') <= 1
    BY <2>6
  <2>7. CASE a \notin clashed
    <3>1. Cardinality(Holders(a)) <= 1
      BY <1>0, <2>7 DEF AliasNamesOneSku
    <3> QED BY <2>4, <2>5, <3>1, LicencesCounted
  <2> QED BY <2>1, <2>6, <2>7, Noted
<1>3. CASE Save(h)
  <2>1. /\ Note(h \in stale) /\ (h \in stale) \in BOOLEAN /\ Doing(h, "save")
        /\ catalog' = [s \in Skus |->
             IF \E e \in task[h].edits : e[1] = s
             THEN [catalog[s] EXCEPT !.alias = (CHOOSE e \in task[h].edits : e[1] = s)[2]]
             ELSE catalog[s]]
    BY <1>3 DEF Save
  <2>2. CASE Cardinality(Holders(a)') <= 1
    BY <2>2
  <2>3. CASE a \notin clashed /\ h \notin stale
    <3>1. Fair(h)
      BY <2>1, <2>3 DEF AliasInv
    <3>2. ASSUME NEW s \in Skus
          PROVE  catalog'[s].row = catalog[s].row /\ catalog'[s].alias = Becomes(h, s)
      <4>1. catalog[s] \in Entry
        BY DEF CatalogTypeOK
      <4>2. CASE \E e \in task[h].edits : e[1] = s
        <5>1. catalog'[s] = [catalog[s] EXCEPT !.alias = (CHOOSE e \in task[h].edits : e[1] = s)[2]]
          BY <2>1, <4>2
        <5>2. Becomes(h, s) = (CHOOSE e \in task[h].edits : e[1] = s)[2]
          BY <4>2 DEF Becomes
        <5> DEFINE alias == (CHOOSE e \in task[h].edits : e[1] = s)[2]
        <5> HIDE DEF alias
        <5>3. catalog'[s] = [catalog[s] EXCEPT !.alias = alias] /\ Becomes(h, s) = alias
          BY <5>1, <5>2 DEF alias
        <5> QED BY <4>1, <5>3 DEF Entry
      <4>3. CASE ~ \E e \in task[h].edits : e[1] = s
        BY <2>1, <4>3 DEF Becomes
      <4> QED BY <4>2, <4>3
    <3>3. Active' = Active
      BY <3>2 DEF Active
    <3>4. Holders(a)' = Sharers(h, a)
      BY <3>2, <3>3 DEF Holders, Sharers, Active
    <3>5. Holders(a)' \in SUBSET Skus /\ Holders(a) \in SUBSET Skus
      BY DEF Holders, Active
    <3>6. CASE Sharers(h, a) \subseteq Holders(a)
      <4>1. Cardinality(Holders(a)') <= Cardinality(Holders(a))
        BY <3>4, <3>5, <3>6, LicencesCounted, FS_Subset
      <4>2. Cardinality(Holders(a)) <= 1
        BY <1>0, <2>3 DEF AliasNamesOneSku
      <4> QED BY <3>5, <4>1, <4>2, LicencesCounted
    <3>7. CASE \A s, t \in Sharers(h, a) : s = t
      BY <3>4, <3>5, <3>7, AtMostOne
    <3> QED BY <3>1, <3>6, <3>7 DEF Fair
  <2> QED BY <2>1, <2>2, <2>3, Noted
<1>4. ASSUME catalog' = catalog, Note(FALSE) PROVE Cardinality(Holders(a)') <= 1
  <2>1. ~Renamed
    BY <1>4 DEF Renamed
  <2>2. AliasNamesOneSku'
    BY <1>0, <1>4, <2>1, NamesStay
  <2> QED BY <2>2 DEF AliasNamesOneSku
<1>5. CASE StartSync(h) \/ Guard(h)
  BY <1>4, <1>5 DEF StartSync, Guard, catalogTables
<1>6. CASE ImportCatalog(h)
  BY <1>4, <1>6 DEF ImportCatalog, catalogTables
<1>7. CASE \E s \in Skus, b \in Aliases \cup {NoAlias} : UpdateEntry(h, s, b)
  BY <1>4, <1>7 DEF UpdateEntry, catalogTables
<1> QED BY <1>1, <1>2, <1>3, <1>5, <1>6, <1>7 DEF CatalogStep

\* Those who will save without being noted as stale have saved nothing behind
\* which the catalog moved.
LEMMA NotStale ==
    ASSUME NEW excused, Note(excused), NEW g \in Handlers,
           Doing(g, "save"), Doing(g, "save")', g \notin stale'
    PROVE  g \notin stale /\ ~Renamed
BY DEF Note

LEMMA AliasStart == Init => AliasInv
<1> SUFFICES ASSUME Init PROVE AliasInv
  OBVIOUS
<1>1. \A h \in Handlers : task[h].at = "idle"
  BY NoTaskFields DEF Init, CatalogInit
<1>2. AliasNamesOneSku
  <2> SUFFICES ASSUME NEW a \in Aliases PROVE Cardinality(Holders(a)) <= 1
    BY DEF AliasNamesOneSku
  <2>1. catalog \in Catalogs /\ a # NoAlias /\ Holders(a) \in SUBSET Skus
    BY CatalogAssumption DEF Init, CatalogInit, Holders, Active
  <2>2. \A s, t \in Holders(a) : s = t
    BY <2>1, CatalogAssumption DEF Holders, Active
  <2> QED BY <2>1, <2>2, AtMostOne
<1> QED BY <1>1, <1>2 DEF AliasInv, Doing

LEMMA AliasNext ==
    ASSUME TypeOK, AliasInv, [Next]_vars
    PROVE  AliasInv'
<1>0. CatalogTypeOK /\ AliasNamesOneSku
  BY DEF TypeOK, AliasInv
<1>1. ASSUME NEW h \in Handlers, CatalogStep(h) PROVE AliasInv'
  <2>1. /\ \A g \in Handlers \ {h} : task'[g] = task[g]
        /\ task'[h].at = "save" => ~Doing(h, "save") /\ catalog' = catalog /\ Fair(h)'
        /\ task'[h].at = "guard" => \E s \in Skus, a \in Aliases : task'[h].edits = {<<s, a>>}
    BY <1>0, <1>1, CatalogSteps
  <2>2. PICK b \in BOOLEAN : Note(b)
    BY <1>1, CatalogNotes
  <2>3. ASSUME NEW g \in Handlers, Doing(g, "save")', g \notin stale' PROVE Fair(g)'
    <3>1. CASE g = h
      BY <2>1, <2>3, <3>1 DEF Doing
    <3>2. CASE g # h
      <4>1. Doing(g, "save") /\ task'[g] = task[g]
        BY <2>1, <2>3, <3>2 DEF Doing
      <4>2. g \notin stale /\ ~Renamed
        BY <2>2, <2>3, <4>1, NotStale
      <4> QED BY <4>1, <4>2, FairStays DEF AliasInv
    <3> QED BY <3>1, <3>2
  <2>4. ASSUME NEW g \in Handlers, Doing(g, "guard")'
        PROVE  \E s \in Skus, a \in Aliases : task'[g].edits = {<<s, a>>}
    BY <2>1, <2>4 DEF AliasInv, Doing
  <2>5. AliasNamesOneSku'
    BY <1>0, <1>1, StepNames
  <2> QED BY <2>3, <2>4, <2>5 DEF AliasInv
<1>2. ASSUME task' = task, ~Renamed, Note(FALSE) PROVE AliasInv'
  <2>1. ASSUME NEW g \in Handlers, Doing(g, "save")', g \notin stale' PROVE Fair(g)'
    <3>1. Doing(g, "save") /\ g \notin stale
      BY <1>2, <2>1, NotStale DEF Doing
    <3> QED BY <1>2, <3>1, FairStays DEF AliasInv
  <2>2. AliasNamesOneSku'
    BY <1>0, <1>2, NamesStay
  <2> QED BY <1>2, <2>1, <2>2 DEF AliasInv, Doing
<1>3. ASSUME LedgerOnly PROVE AliasInv'
  BY <1>2, <1>3 DEF LedgerOnly, catalogTables, Renamed
<1>4. ASSUME NEW s \in Skus, SetSeatModel(s) \/ Offer(s) PROVE AliasInv'
  <2>1. task' = task /\ Note(FALSE)
    BY <1>4 DEF SetSeatModel, Offer
  <2>2. ~Renamed
    <3>1. CASE Offer(s)
      BY <3>1 DEF Offer, Renamed
    <3>2. CASE SetSeatModel(s)
      <4>1. catalog' = [catalog EXCEPT ![s].unlimited = ~catalog[s].unlimited]
        BY <3>2 DEF SetSeatModel
      <4> QED BY <1>0, <4>1 DEF Renamed, CatalogTypeOK, Entry
    <3> QED BY <1>4, <3>1, <3>2
  <2> QED BY <1>2, <2>1, <2>2
<1>5. ASSUME Restart PROVE AliasInv'
  <2> HIDE DEF Idle, NoTask
  <2>1. \A h \in Handlers : task'[h].at = "idle"
    BY <1>5, NoTaskFields DEF Restart
  <2>2. ~Renamed /\ Note(FALSE)
    BY <1>5 DEF Restart, catalogTables, Renamed
  <2>3. AliasNamesOneSku'
    BY <1>0, <2>2, NamesStay
  <2> QED BY <2>1, <2>3 DEF AliasInv, Doing
<1>6. CASE UNCHANGED vars
  <2>1. catalog' = catalog /\ task' = task /\ stale' = stale /\ clashed' = clashed
    BY <1>6 DEF vars, catalogVars, catalogTables
  <2>2. ~Renamed
    BY <2>1 DEF Renamed
  <2>3. ASSUME NEW g \in Handlers, Doing(g, "save")', g \notin stale' PROVE Fair(g)'
    BY <2>1, <2>2, <2>3, FairStays DEF AliasInv, Doing
  <2>4. AliasNamesOneSku'
    BY <1>0, <2>1, <2>2, HoldersStay DEF AliasNamesOneSku
  <2> QED BY <2>1, <2>3, <2>4 DEF AliasInv, Doing
<1>7. CASE Next
  BY <1>1, <1>3, <1>4, <1>5, <1>7 DEF Next
<1> QED BY <1>6, <1>7

\* Two active licences share an alias (alias-collision.ts) only where a licence
\* came back with it, or an edit or a file was saved on a catalog that had changed
\* since it was checked.
THEOREM AliasHolds == Spec => []AliasNamesOneSku
<1>1. TypeOK /\ AliasInv /\ [Next]_vars => TypeOK' /\ AliasInv'
  BY NextTyped, AliasNext
<1>2. AliasInv => AliasNamesOneSku
  BY DEF AliasInv
<1> QED BY InitTyped, AliasStart, <1>1, <1>2, PTL DEF Spec

-----------------------------------------------------------------------------
(* Reconciliation. *)

\* The open alert that h has found is open, or there is none.
Found(h) ==
    LET s == job[h].sku IN
    IF OpenAlerts(s) = {} THEN job[h].open = 0 ELSE job[h].open \in OpenAlerts(s)

\* What a run that is at h knows of a licence that nothing has touched is so.
Knows(h) ==
    LET s == job[h].sku IN
    /\ job[h].at \in {"catalog", "look", "sum", "raise", "resolve"} =>
         \A t \in clean[h] : job[h].live[t] = Used(t)
    /\ job[h].at \in {"look", "sum", "raise", "resolve"} =>
         \A t \in clean[h] : t \in job[h].free <=> t \in Unlimited
    /\ s \in clean[h] =>
         /\ job[h].at \in {"sum", "raise", "resolve"} => Found(h)
         /\ job[h].at \in {"sum", "raise"} => s \notin Unlimited
         /\ job[h].at = "raise" => /\ job[h].delta = Used(s) - AssignedSum(s)
                                   /\ job[h].delta # 0
         /\ job[h].at = "resolve" => s \in Unlimited \/ Used(s) = AssignedSum(s)

\* A licence has a second open alert only if two runs overlapped on it.
OneInv == \A s \in Skus \ doubled : \A j, k \in OpenAlerts(s) : j = k

DriftInv == (\A h \in Handlers : Knows(h)) /\ OneInv /\ DriftIsShown

LEMMA AlertRows ==
    ASSUME alerts \in [Skus -> Seq(Alert)], NEW s \in Skus
    PROVE  /\ Len(alerts[s]) \in Nat /\ DOMAIN alerts[s] = 1 .. Len(alerts[s])
           /\ \A k \in DOMAIN alerts[s] : alerts[s][k] \in Alert
           /\ OpenAlerts(s) \subseteq 1 .. Len(alerts[s])
<1>1. alerts[s] \in Seq(Alert)
  OBVIOUS
<1>2. Len(alerts[s]) \in Nat /\ DOMAIN alerts[s] = 1 .. Len(alerts[s])
  BY <1>1, LenProperties
<1>3. \A k \in DOMAIN alerts[s] : alerts[s][k] \in Alert
  BY <1>1, <1>2, ElementOfSeq
<1> QED BY <1>2, <1>3 DEF OpenAlerts

\* A finite set that counts at most one has no two members.
LEMMA NoTwo ==
    ASSUME NEW S, IsFiniteSet(S), ~(Cardinality(S) > 1)
    PROVE  \A j, k \in S : j = k
<1>1. Cardinality(S) \in Nat
  BY FS_CardinalityType
<1>2. CASE Cardinality(S) = 0
  BY <1>2, FS_EmptySet
<1>3. CASE Cardinality(S) = 1
  BY <1>3, FS_Singleton
<1> QED BY <1>1, <1>2, <1>3

\* What nothing has touched stays.
LEMMA Untouched ==
    ASSUME NEW t \in Skus, ~Moves(t)
    PROVE  /\ Used(t)' = Used(t) /\ AssignedSum(t)' = AssignedSum(t)
           /\ t \in Unlimited' <=> t \in Unlimited
           /\ alerts'[t] = alerts[t] /\ OpenAlerts(t)' = OpenAlerts(t)
<1>1. /\ consumed'[t] = consumed[t] /\ alerts'[t] = alerts[t]
      /\ AssignedSum(t)' = AssignedSum(t) /\ catalog'[t] = catalog[t]
      /\ t \in offered' <=> t \in offered
  BY DEF Moves
<1> QED BY <1>1 DEF Used, Unlimited, OpenAlerts

\* Which licences stay clean for a handler.
LEMMA CleanNext ==
    ASSUME TypeOK, NEW settled, Remember(settled), NEW h \in Handlers, NEW t \in clean'[h]
    PROVE  /\ t \in Skus /\ ~Moves(t) /\ job'[h].at # "idle"
           /\ job[h].at # "idle" => t \in clean[h]
<1>1. clean'[h] = IF At(h, "idle")' THEN {}
                  ELSE (IF At(h, "idle") THEN Skus ELSE clean[h]) \ {s \in Skus : Moves(s)}
  BY DEF Remember
<1>2. clean[h] \subseteq Skus
  BY DEF TypeOK
<1> QED BY <1>1, <1>2 DEF At

\* Whom a step does not concern knows what it knew.
LEMMA KnowsOn ==
    ASSUME TypeOK, NEW settled, Remember(settled), NEW g \in Handlers, Knows(g),
           job'[g] = job[g]
    PROVE  Knows(g)'
<1>1. \A t \in clean'[g] : /\ t \in Skus /\ ~Moves(t) /\ job[g].at # "idle" /\ t \in clean[g]
  BY CleanNext
<1>2. \A t \in clean'[g] :
         /\ Used(t)' = Used(t) /\ AssignedSum(t)' = AssignedSum(t)
         /\ t \in Unlimited' <=> t \in Unlimited
         /\ OpenAlerts(t)' = OpenAlerts(t)
  BY <1>1, Untouched
<1> QED BY <1>1, <1>2 DEF Knows, Found

\* Where a handler's step in the ledger takes a reconciliation.
LEMMA RunSteps ==
    ASSUME TypeOK, NEW h \in Handlers, HandlerStep(h) \/ Settle(h)
    PROVE  \/ job'[h].at \notin {"catalog", "look", "sum", "raise", "resolve"}
           \/ /\ job[h].at = "idle" /\ job'[h].at = "catalog"
              /\ \A s \in Skus : job'[h].live[s] = Used(s)
           \/ /\ job[h].at = "catalog" /\ job'[h].at = "look"
              /\ job'[h].live = job[h].live /\ job'[h].free = Unlimited
           \/ /\ job[h].at = "look" /\ job'[h].at \in {"sum", "resolve"}
              /\ job'[h].live = job[h].live /\ job'[h].free = job[h].free
              /\ IF OpenAlerts(job'[h].sku) = {} THEN job'[h].open = 0
                 ELSE job'[h].open \in OpenAlerts(job'[h].sku)
              /\ job'[h].at = "resolve" <=> job'[h].sku \in job[h].free
           \/ /\ job[h].at = "sum" /\ job'[h].at \in {"raise", "resolve"}
              /\ job'[h].live = job[h].live /\ job'[h].free = job[h].free
              /\ job'[h].sku = job[h].sku /\ job'[h].open = job[h].open
              /\ job'[h].delta = job[h].live[job[h].sku] - AssignedSum(job[h].sku)
              /\ job'[h].at = "raise" <=> job'[h].delta # 0
           \/ /\ job[h].at \in {"raise", "resolve"} /\ job'[h].at = "look"
              /\ job'[h].live = job[h].live /\ job'[h].free = job[h].free
<1> HIDE DEF Idle
<1>0. /\ job \in [Handlers -> Job] /\ job[h] \in Job /\ Idle \in Job /\ Idle.at = "idle"
  BY IdleFields DEF TypeOK
<1>1. /\ \A w \in Points : Go(h, w) => job'[h].at = w
      /\ Done(h) => job'[h].at = "idle"
      /\ \A work : Begin(h, work) => job[h].at = "idle" /\ job'[h] = work
  BY <1>0, JobNext DEF Job
<1>2. CASE EditRow(h) \/ Import(h) \/ Baseline(h)
  BY <1>2, PlansAsRead
<1>3. ASSUME NEW scope, AllocationReset(h, scope) PROVE job'[h].at = "zero"
  <2>1. [Idle EXCEPT !.at = "zero", !.scope = scope].at = "zero"
    BY <1>0 DEF Job
  <2> QED BY <1>1, <1>3, <2>1 DEF AllocationReset
<1>4. ASSUME NEW scope, FullReset(h, scope) PROVE job'[h].at = "clear"
  <2>1. [Idle EXCEPT !.at = "clear", !.scope = scope, !.before = cells].at = "clear"
    BY <1>0 DEF Job
  <2> QED BY <1>1, <1>4, <2>1 DEF FullReset
<1>5. ASSUME NEW c, Assign(h, c) PROVE job'[h].at = "grant"
  <2>1. [Idle EXCEPT !.at = "grant", !.cell = c].at = "grant"
    BY <1>0 DEF Job
  <2> QED BY <1>1, <1>5, <2>1 DEF Assign
<1>6. CASE Write(h) \/ Clear(h) \/ CountSeat(h) \/ ZeroAllocations(h) \/ GrantSeat(h)
  <2>1. "count" \in Points
    BY DEF Points
  <2> QED BY <1>1, <1>6, <2>1 DEF Write, Clear, CountSeat, ZeroAllocations, GrantSeat
<1>7. CASE Reconcile(h)
  <2> DEFINE live == [s \in Skus |-> Used(s)]
  <2>1. job[h].at = "idle" /\ job'[h] = [Idle EXCEPT !.at = "catalog", !.live = live]
    BY <1>1, <1>7 DEF Reconcile
  <2>2. \A s \in Skus : live[s] = Used(s)
    OBVIOUS
  <2> HIDE DEF live
  <2>3. job'[h].at = "catalog" /\ job'[h].live = live
    BY <1>0, <2>1 DEF Job
  <2> QED BY <2>1, <2>2, <2>3
<1>8. CASE ReadCatalog(h)
  <2>1. CASE Active = {}
    BY <1>1, <1>8, <2>1 DEF ReadCatalog
  <2>2. CASE Active # {}
    <3>1. /\ job' = [job EXCEPT ![h].at = "look", ![h].free = Unlimited, ![h].todo = Active]
          /\ job[h].at = "catalog"
      BY <1>8, <2>2 DEF ReadCatalog, At
    <3> QED BY <1>0, <3>1 DEF Job
  <2> QED BY <2>1, <2>2
<1>9. CASE Look(h)
  <2>1. PICK s \in job[h].todo :
           \E k \in IF OpenAlerts(s) = {} THEN {0} ELSE OpenAlerts(s) :
            job' = [job EXCEPT ![h].sku = s, ![h].open = k,
                               ![h].at = IF s \in job[h].free THEN "resolve" ELSE "sum"]
    BY <1>9 DEF Look
  <2>2. PICK k \in IF OpenAlerts(s) = {} THEN {0} ELSE OpenAlerts(s) :
            job' = [job EXCEPT ![h].sku = s, ![h].open = k,
                               ![h].at = IF s \in job[h].free THEN "resolve" ELSE "sum"]
    BY <2>1
  <2>3. /\ job'[h].sku = s /\ job'[h].open = k
        /\ job'[h].at = IF s \in job[h].free THEN "resolve" ELSE "sum"
        /\ job'[h].live = job[h].live /\ job'[h].free = job[h].free
    BY <1>0, <2>2 DEF Job
  <2>4. IF OpenAlerts(job'[h].sku) = {} THEN job'[h].open = 0
        ELSE job'[h].open \in OpenAlerts(job'[h].sku)
    BY <2>2, <2>3
  <2>5. job[h].at = "look"
    BY <1>9 DEF Look, At
  <2> QED BY <2>3, <2>4, <2>5
<1>10. CASE Sum(h)
  <2> DEFINE delta == job[h].live[job[h].sku] - AssignedSum(job[h].sku)
  <2>1. /\ job' = [job EXCEPT ![h].delta = delta,
                              ![h].at = IF delta # 0 THEN "raise" ELSE "resolve"]
        /\ job[h].at = "sum"
    BY <1>10 DEF Sum, At
  <2> HIDE DEF delta
  <2>2. /\ job'[h].delta = delta /\ job'[h].at = IF delta # 0 THEN "raise" ELSE "resolve"
        /\ job'[h].live = job[h].live /\ job'[h].free = job[h].free
        /\ job'[h].sku = job[h].sku /\ job'[h].open = job[h].open
    BY <1>0, <2>1 DEF Job
  <2> QED BY <2>1, <2>2 DEF delta
<1>11. CASE Settle(h)
  <2>1. Proceed(h) /\ job[h].at \in {"raise", "resolve"}
    BY <1>11 DEF Settle, Raise, Resolve, At
  <2>2. CASE Done(h)
    BY <1>1, <2>2
  <2>3. CASE job' = [job EXCEPT ![h].at = "look", ![h].todo = job[h].todo \ {job[h].sku}]
    BY <1>0, <2>1, <2>3 DEF Job
  <2> QED BY <2>1, <2>2, <2>3 DEF Proceed
<1> QED BY <1>2, <1>3, <1>4, <1>5, <1>6, <1>7, <1>8, <1>9, <1>10, <1>11 DEF HandlerStep

LEMMA KnowsNext ==
    ASSUME TypeOK, NEW settled, Remember(settled), NEW h \in Handlers, Knows(h),
           HandlerStep(h) \/ Settle(h)
    PROVE  Knows(h)'
<1>1. \A t \in clean'[h] :
         /\ t \in Skus /\ ~Moves(t) /\ (job[h].at # "idle" => t \in clean[h])
         /\ Used(t)' = Used(t) /\ AssignedSum(t)' = AssignedSum(t)
         /\ t \in Unlimited' <=> t \in Unlimited
         /\ OpenAlerts(t)' = OpenAlerts(t)
  BY CleanNext, Untouched
<1>2. CASE job'[h].at \notin {"catalog", "look", "sum", "raise", "resolve"}
  BY <1>2 DEF Knows
<1>3. CASE /\ job[h].at = "idle" /\ job'[h].at = "catalog"
           /\ \A s \in Skus : job'[h].live[s] = Used(s)
  BY <1>1, <1>3 DEF Knows
<1>4. CASE /\ job[h].at = "catalog" /\ job'[h].at = "look"
           /\ job'[h].live = job[h].live /\ job'[h].free = Unlimited
  BY <1>1, <1>4 DEF Knows
<1>5. CASE /\ job[h].at = "look" /\ job'[h].at \in {"sum", "resolve"}
           /\ job'[h].live = job[h].live /\ job'[h].free = job[h].free
           /\ IF OpenAlerts(job'[h].sku) = {} THEN job'[h].open = 0
              ELSE job'[h].open \in OpenAlerts(job'[h].sku)
           /\ job'[h].at = "resolve" <=> job'[h].sku \in job[h].free
  <2>1. /\ \A t \in clean'[h] : job'[h].live[t] = Used(t)'
        /\ \A t \in clean'[h] : t \in job'[h].free <=> t \in Unlimited'
    BY <1>1, <1>5 DEF Knows
  <2>2. ASSUME NEW s \in clean'[h], job'[h].sku = s
        PROVE  /\ Found(h)'
               /\ job'[h].at = "sum" => s \notin Unlimited'
               /\ job'[h].at = "resolve" => s \in Unlimited'
    <3>1. OpenAlerts(s)' = OpenAlerts(s)
      BY <1>1
    <3>2. IF OpenAlerts(s)' = {} THEN job'[h].open = 0 ELSE job'[h].open \in OpenAlerts(s)'
      BY <1>5, <2>2, <3>1
    <3>3. Found(h)'
      BY <2>2, <3>2 DEF Found
    <3> QED BY <1>5, <2>1, <2>2, <3>3
  <2> QED BY <1>5, <2>1, <2>2 DEF Knows
<1>6. CASE /\ job[h].at = "sum" /\ job'[h].at \in {"raise", "resolve"}
           /\ job'[h].live = job[h].live /\ job'[h].free = job[h].free
           /\ job'[h].sku = job[h].sku /\ job'[h].open = job[h].open
           /\ job'[h].delta = job[h].live[job[h].sku] - AssignedSum(job[h].sku)
           /\ job'[h].at = "raise" <=> job'[h].delta # 0
  <2>1. /\ \A t \in clean'[h] : job'[h].live[t] = Used(t)'
        /\ \A t \in clean'[h] : t \in job'[h].free <=> t \in Unlimited'
    BY <1>1, <1>6 DEF Knows
  <2> DEFINE s == job[h].sku
  <2>2. ASSUME s \in clean'[h]
        PROVE  /\ Found(h)' /\ s \notin Unlimited'
               /\ job'[h].delta = Used(s)' - AssignedSum(s)'
               /\ job'[h].at = "resolve" => Used(s)' = AssignedSum(s)'
    <3>1. s \in clean[h] /\ OpenAlerts(s)' = OpenAlerts(s) /\ Used(s)' = Used(s)
          /\ AssignedSum(s)' = AssignedSum(s) /\ (s \in Unlimited' <=> s \in Unlimited) /\ s \in Skus
      BY <1>1, <1>6, <2>2
    <3>2. Found(h) /\ s \notin Unlimited /\ job[h].live[s] = Used(s)
      BY <1>6, <3>1 DEF Knows
    <3>3. Found(h)'
      BY <1>6, <3>1, <3>2 DEF Found
    <3>4. AssignedSum(s) \in Nat /\ Used(s) \in Nat
      BY <3>1, SumType DEF TypeOK, Used
    <3>5. job'[h].delta = Used(s) - AssignedSum(s)
      BY <1>6, <3>2
    <3>6. job'[h].at = "resolve" => Used(s) = AssignedSum(s)
      BY <1>6, <3>4, <3>5
    <3> QED BY <3>1, <3>2, <3>3, <3>5, <3>6
  <2> QED BY <1>6, <2>1, <2>2 DEF Knows
<1>7. CASE /\ job[h].at \in {"raise", "resolve"} /\ job'[h].at = "look"
           /\ job'[h].live = job[h].live /\ job'[h].free = job[h].free
  BY <1>1, <1>7 DEF Knows
<1> QED BY <1>2, <1>3, <1>4, <1>5, <1>6, <1>7, RunSteps

\* What a run leaves of a licence that nothing touched: its one open alert with
\* the difference, or none.
LEMMA SettledAlerts ==
    ASSUME TypeOK, NEW h \in Handlers, Knows(h), Settle(h), NEW s, s = job[h].sku,
           s \in clean[h], \A j, k \in OpenAlerts(s) : j = k
    PROVE  /\ job[h].at = "raise" =>
                \E k : OpenAlerts(s)' = {k} /\ alerts'[s][k].delta = job[h].delta
           /\ job[h].at = "resolve" => OpenAlerts(s)' = {}
<1>0. /\ job[h] \in Job /\ s \in Skus /\ alerts \in [Skus -> Seq(Alert)]
      /\ alerts[s] \in Seq(Alert)
  BY DEF TypeOK, Job
<1> DEFINE q == alerts[s]
           n == Len(q)
           o == job[h].open
<1>1. /\ n \in Nat /\ DOMAIN q = 1 .. n /\ OpenAlerts(s) \subseteq 1 .. n
      /\ \A k \in 1 .. n : q[k] \in Alert
  BY <1>0, AlertRows
<1>2. IF OpenAlerts(s) = {} THEN o = 0 ELSE o \in OpenAlerts(s)
  BY DEF Knows, Found, Settle, Raise, Resolve, At
<1>3. o # 0 => OpenAlerts(s) = {o} /\ o \in 1 .. n
  BY <1>1, <1>2
<1>4. o = 0 => OpenAlerts(s) = {}
  BY <1>1, <1>2
<1>5. OpenAlerts(s)' = {k \in DOMAIN alerts'[s] : alerts'[s][k].status = "OPEN"}
  BY DEF OpenAlerts
<1>6. OpenAlerts(s) = {k \in 1 .. n : q[k].status = "OPEN"}
  BY <1>1 DEF OpenAlerts
<1>7. ASSUME job[h].at = "raise"
      PROVE  \E k : OpenAlerts(s)' = {k} /\ alerts'[s][k].delta = job[h].delta
  <2>1. alerts' = IF o # 0 THEN [alerts EXCEPT ![s][o].delta = job[h].delta]
                  ELSE [alerts EXCEPT ![s] = Append(@, [status |-> "OPEN", delta |-> job[h].delta])]
    BY <1>7 DEF Settle, Raise, Resolve, At
  <2>2. CASE o # 0
    <3>1. alerts'[s] = [q EXCEPT ![o] = [q[o] EXCEPT !.delta = job[h].delta]]
      BY <1>0, <2>1, <2>2
    <3>2. o \in 1 .. n /\ q[o] \in Alert
      BY <1>1, <1>3, <2>2
    <3>3. /\ DOMAIN alerts'[s] = 1 .. n
          /\ \A k \in 1 .. n : alerts'[s][k].status = q[k].status
          /\ alerts'[s][o].delta = job[h].delta
      BY <1>1, <3>1, <3>2 DEF Alert
    <3>4. OpenAlerts(s)' = OpenAlerts(s)
      BY <1>5, <1>6, <3>3
    <3> QED BY <1>3, <2>2, <3>3, <3>4
  <2>3. CASE o = 0
    <3> DEFINE new == [status |-> "OPEN", delta |-> job[h].delta]
    <3>1. alerts'[s] = Append(q, new)
      BY <1>0, <2>1, <2>3
    <3>2. new \in Alert
      BY <1>0 DEF Job, Alert
    <3> HIDE DEF new
    <3>3. /\ Append(q, new) \in Seq(Alert) /\ Len(Append(q, new)) = n + 1
          /\ \A k \in 1 .. n : Append(q, new)[k] = q[k]
          /\ Append(q, new)[n + 1] = new
      BY <1>0, <3>2, AppendProperties
    <3>4. DOMAIN Append(q, new) = 1 .. (n + 1)
      BY <3>3, LenProperties
    <3>5. new.status = "OPEN" /\ new.delta = job[h].delta
      BY DEF new
    <3> HIDE DEF q, n, o
    <3>6. \A k \in 1 .. n : q[k].status # "OPEN"
      BY <1>4, <1>6, <2>3
    <3>7. OpenAlerts(s)' = {k \in 1 .. (n + 1) : Append(q, new)[k].status = "OPEN"}
      BY <1>5, <3>1, <3>4
    <3>8. \A k \in 1 .. (n + 1) : Append(q, new)[k].status = "OPEN" <=> k = n + 1
      <4> SUFFICES ASSUME NEW k \in 1 .. (n + 1)
                   PROVE  Append(q, new)[k].status = "OPEN" <=> k = n + 1
        OBVIOUS
      <4>1. CASE k = n + 1
        BY <3>3, <3>5, <4>1
      <4>2. CASE k # n + 1
        <5>1. k \in 1 .. n
          BY <1>1, <4>2
        <5> QED BY <3>3, <3>6, <4>2, <5>1
      <4> QED BY <4>1, <4>2
    <3>9. n + 1 \in 1 .. (n + 1)
      BY <1>1
    <3>10. OpenAlerts(s)' = {n + 1}
      BY <3>7, <3>8, <3>9
    <3> QED BY <3>1, <3>3, <3>5, <3>10
  <2> QED BY <2>2, <2>3
<1>8. ASSUME job[h].at = "resolve" PROVE OpenAlerts(s)' = {}
  <2>1. alerts' = IF o # 0 THEN [alerts EXCEPT ![s][o].status = "RESOLVED"] ELSE alerts
    BY <1>8 DEF Settle, Raise, Resolve, At
  <2>2. CASE o # 0
    <3>1. alerts'[s] = [q EXCEPT ![o] = [q[o] EXCEPT !.status = "RESOLVED"]]
      BY <1>0, <2>1, <2>2
    <3>2. o \in 1 .. n /\ q[o] \in Alert
      BY <1>1, <1>3, <2>2
    <3>3. /\ DOMAIN alerts'[s] = 1 .. n
          /\ \A k \in 1 .. n : k # o => alerts'[s][k] = q[k]
          /\ alerts'[s][o].status = "RESOLVED"
      BY <1>1, <3>1, <3>2 DEF Alert
    <3> QED BY <1>3, <1>5, <1>6, <2>2, <3>3
  <2>3. CASE o = 0
    BY <1>1, <1>4, <1>5, <1>6, <2>1, <2>3
  <2> QED BY <2>2, <2>3
<1> QED BY <1>7, <1>8

LEMMA SettleShows ==
    ASSUME TypeOK, TypeOK', DriftInv, NEW h \in Handlers, Settle(h), LedgerOnly,
           Remember({job[h].sku} \cap clean[h])
    PROVE  DriftInv'
<1>1. PICK sku \in Skus : sku = job[h].sku
  BY DEF TypeOK, Job
<1>2. PICK settled : settled = {job[h].sku} \cap clean[h]
  OBVIOUS
<1>3. Remember(settled) /\ settled \subseteq Skus
  BY <1>1, <1>2
<1>4. /\ doubled' = doubled \cup {s \in Skus \ settled :
            Cardinality(OpenAlerts(s)') > 1 /\ Moves(s)}
      /\ fresh' = {s \in fresh : ~Moves(s)} \cup settled
  BY <1>3 DEF Remember
<1>5. \A g \in Handlers : Knows(g)'
  <2>1. \A g \in Handlers \ {h} : job'[g] = job[g]
    BY LedgerAlone DEF TypeOK
  <2>2. Knows(h)'
    BY <1>3, KnowsNext DEF DriftInv
  <2>3. \A g \in Handlers \ {h} : Knows(g)'
    BY <1>3, <2>1, KnowsOn DEF DriftInv
  <2> QED BY <2>2, <2>3
<1>6. ASSUME sku \in settled, sku \notin doubled
      PROVE  /\ job[h].at = "raise" =>
                  \E k : OpenAlerts(sku)' = {k} /\ alerts'[sku][k].delta = job[h].delta
             /\ job[h].at = "resolve" => OpenAlerts(sku)' = {}
  <2>1. sku \in clean[h] /\ Knows(h) /\ \A j, k \in OpenAlerts(sku) : j = k
    BY <1>1, <1>2, <1>6 DEF DriftInv, OneInv
  <2> QED BY <1>1, <2>1, SettledAlerts
<1>7. job[h].at \in {"raise", "resolve"}
  BY DEF Settle, Raise, Resolve, At
<1>8. OneInv'
  <2> SUFFICES ASSUME NEW s \in Skus, s \notin doubled'
               PROVE  \A j, k \in OpenAlerts(s)' : j = k
    BY DEF OneInv
  <2>1. s \notin doubled
    BY <1>4
  <2>2. CASE s \in settled
    <3>1. s = sku
      BY <1>1, <1>2, <2>2
    <3> QED BY <1>6, <1>7, <2>1, <2>2, <3>1
  <2>3. CASE s \notin settled /\ Moves(s)
    <3>1. ~(Cardinality(OpenAlerts(s)') > 1)
      BY <1>4, <2>3
    <3>2. IsFiniteSet(OpenAlerts(s)')
      <4>1. Len(alerts'[s]) \in Nat /\ DOMAIN alerts'[s] = 1 .. Len(alerts'[s])
        BY LenProperties DEF TypeOK
      <4>2. OpenAlerts(s)' \in SUBSET (1 .. Len(alerts'[s]))
        BY <4>1 DEF OpenAlerts
      <4>3. IsFiniteSet(1 .. Len(alerts'[s]))
        BY <4>1, UpToFinite
      <4> QED BY <4>2, <4>3, FS_Subset
    <3> QED BY <3>1, <3>2, NoTwo
  <2>4. CASE ~Moves(s)
    <3>1. OpenAlerts(s)' = OpenAlerts(s)
      BY <2>4, Untouched
    <3> QED BY <2>1, <3>1 DEF DriftInv, OneInv
  <2> QED BY <2>2, <2>3, <2>4
<1>9. DriftIsShown'
  <2> SUFFICES ASSUME NEW s \in fresh', s \notin doubled'
               PROVE  IF s \in Unlimited' \/ Used(s)' - AssignedSum(s)' = 0
                      THEN OpenAlerts(s)' = {}
                      ELSE \E k \in OpenAlerts(s)' : /\ OpenAlerts(s)' = {k}
                             /\ alerts'[s][k].delta = Used(s)' - AssignedSum(s)'
    BY DEF DriftIsShown
  <2>0. s \in Skus
    BY DEF TypeOK
  <2>1. s \notin doubled
    BY <1>4
  <2>2. CASE s \notin settled
    <3>1. s \in fresh /\ ~Moves(s)
      BY <1>4, <2>2
    <3>2. /\ Used(s)' = Used(s) /\ AssignedSum(s)' = AssignedSum(s)
          /\ s \in Unlimited' <=> s \in Unlimited
          /\ alerts'[s] = alerts[s] /\ OpenAlerts(s)' = OpenAlerts(s)
      BY <2>0, <3>1, Untouched
    <3>3. IF s \in Unlimited \/ Used(s) - AssignedSum(s) = 0
          THEN OpenAlerts(s) = {}
          ELSE \E k \in OpenAlerts(s) : /\ OpenAlerts(s) = {k}
                 /\ alerts[s][k].delta = Used(s) - AssignedSum(s)
      BY <2>1, <3>1 DEF DriftInv, DriftIsShown
    <3> QED BY <3>2, <3>3
  <2>3. CASE s \in settled
    <3>1. s = sku /\ s \in clean[h]
      BY <1>1, <1>2, <2>3
    <3>2. /\ cells' = cells /\ consumed' = consumed /\ catalog' = catalog /\ offered' = offered
      BY DEF Settle, Raise, Resolve, LedgerOnly, catalogTables
    <3>3. /\ Used(s)' = Used(s) /\ AssignedSum(s)' = AssignedSum(s)
          /\ s \in Unlimited' <=> s \in Unlimited
      BY <3>2, SumStays DEF Used, Unlimited
    <3>4. Used(s) \in Nat /\ AssignedSum(s) \in Nat
      BY <2>0, SumType DEF TypeOK, Used
    <3>5. Knows(h)
      BY DEF DriftInv
    <3>6. CASE job[h].at = "raise"
      <4>1. PICK k : OpenAlerts(s)' = {k} /\ alerts'[s][k].delta = job[h].delta
        BY <1>6, <2>1, <2>3, <3>1, <3>6
      <4>2. /\ s \notin Unlimited /\ job[h].delta = Used(s) - AssignedSum(s)
            /\ job[h].delta # 0
        BY <1>1, <3>1, <3>5, <3>6 DEF Knows
      <4> QED BY <3>3, <4>1, <4>2
    <3>7. CASE job[h].at = "resolve"
      <4>1. OpenAlerts(s)' = {}
        BY <1>6, <2>1, <2>3, <3>1, <3>7
      <4>2. s \in Unlimited \/ Used(s) = AssignedSum(s)
        BY <1>1, <3>1, <3>5, <3>7 DEF Knows
      <4> QED BY <3>3, <3>4, <4>1, <4>2
    <3> QED BY <1>7, <3>6, <3>7
  <2> QED BY <2>2, <2>3
<1> QED BY <1>5, <1>8, <1>9 DEF DriftInv

\* A step that settles nothing leaves what was settled, where it touches nothing.
LEMMA DriftOn ==
    ASSUME TypeOK, TypeOK', DriftInv, Remember({}), \A g \in Handlers : Knows(g)'
    PROVE  DriftInv'
<1>1. /\ doubled' = doubled \cup {s \in Skus : Cardinality(OpenAlerts(s)') > 1 /\ Moves(s)}
      /\ fresh' = {s \in fresh : ~Moves(s)}
  BY DEF Remember
<1>2. OneInv'
  <2> SUFFICES ASSUME NEW s \in Skus, s \notin doubled'
               PROVE  \A j, k \in OpenAlerts(s)' : j = k
    BY DEF OneInv
  <2>1. s \notin doubled
    BY <1>1
  <2>2. CASE Moves(s)
    <3>1. ~(Cardinality(OpenAlerts(s)') > 1)
      BY <1>1, <2>2
    <3>2. IsFiniteSet(OpenAlerts(s)')
      <4>1. Len(alerts'[s]) \in Nat /\ DOMAIN alerts'[s] = 1 .. Len(alerts'[s])
        BY LenProperties DEF TypeOK
      <4>2. OpenAlerts(s)' \in SUBSET (1 .. Len(alerts'[s]))
        BY <4>1 DEF OpenAlerts
      <4>3. IsFiniteSet(1 .. Len(alerts'[s]))
        BY <4>1, UpToFinite
      <4> QED BY <4>2, <4>3, FS_Subset
    <3> QED BY <3>1, <3>2, NoTwo
  <2>3. CASE ~Moves(s)
    <3>1. OpenAlerts(s)' = OpenAlerts(s)
      BY <2>3, Untouched
    <3> QED BY <2>1, <3>1 DEF DriftInv, OneInv
  <2> QED BY <2>2, <2>3
<1>3. DriftIsShown'
  <2> SUFFICES ASSUME NEW s \in fresh', s \notin doubled'
               PROVE  IF s \in Unlimited' \/ Used(s)' - AssignedSum(s)' = 0
                      THEN OpenAlerts(s)' = {}
                      ELSE \E k \in OpenAlerts(s)' : /\ OpenAlerts(s)' = {k}
                             /\ alerts'[s][k].delta = Used(s)' - AssignedSum(s)'
    BY DEF DriftIsShown
  <2>1. s \in Skus /\ s \in fresh /\ ~Moves(s) /\ s \notin doubled
    BY <1>1 DEF TypeOK
  <2>2. /\ Used(s)' = Used(s) /\ AssignedSum(s)' = AssignedSum(s)
        /\ s \in Unlimited' <=> s \in Unlimited
        /\ alerts'[s] = alerts[s] /\ OpenAlerts(s)' = OpenAlerts(s)
    BY <2>1, Untouched
  <2>3. IF s \in Unlimited \/ Used(s) - AssignedSum(s) = 0
        THEN OpenAlerts(s) = {}
        ELSE \E k \in OpenAlerts(s) : /\ OpenAlerts(s) = {k}
               /\ alerts[s][k].delta = Used(s) - AssignedSum(s)
    BY <2>1 DEF DriftInv, DriftIsShown
  <2> QED BY <2>2, <2>3
<1> QED BY <1>2, <1>3 DEF DriftInv

LEMMA DriftStart == Init => DriftInv
<1> SUFFICES ASSUME Init PROVE DriftInv
  OBVIOUS
<1>1. \A h \in Handlers : job[h].at = "idle" /\ clean[h] = {}
  <2> HIDE DEF Idle
  <2> QED BY IdleFields DEF Init
<1>2. \A s \in Skus : OpenAlerts(s) = {}
  <2>1. \A s \in Skus : alerts[s] = <<>>
    BY DEF Init
  <2> QED BY <2>1 DEF OpenAlerts
<1>3. fresh = {}
  BY DEF Init
<1> QED BY <1>1, <1>2, <1>3 DEF DriftInv, Knows, OneInv, DriftIsShown

LEMMA DriftNext ==
    ASSUME TypeOK, TypeOK', DriftInv, [Next]_vars
    PROVE  DriftInv'
<1>0. \A g \in Handlers : Knows(g)
  BY DEF DriftInv
<1>1. ASSUME NEW h \in Handlers, HandlerStep(h), Remember({}) PROVE DriftInv'
  <2>1. \A g \in Handlers \ {h} : job'[g] = job[g]
    BY <1>1, LedgerAlone DEF TypeOK
  <2>2. Knows(h)'
    BY <1>0, <1>1, KnowsNext
  <2>3. \A g \in Handlers \ {h} : Knows(g)'
    BY <1>0, <1>1, <2>1, KnowsOn
  <2> QED BY <1>1, <2>2, <2>3, DriftOn
<1>2. ASSUME job' = job, Remember({}) PROVE DriftInv'
  <2>1. \A g \in Handlers : Knows(g)'
    BY <1>0, <1>2, KnowsOn
  <2> QED BY <1>2, <2>1, DriftOn
<1>3. ASSUME Restart, Remember({}) PROVE DriftInv'
  <2> HIDE DEF Idle
  <2>1. \A g \in Handlers : job'[g].at = "idle"
    BY <1>3, IdleFields DEF Restart
  <2>2. \A g \in Handlers : clean'[g] = {}
    BY <1>3, <2>1 DEF Remember, At
  <2>3. \A g \in Handlers : Knows(g)'
    BY <2>1, <2>2 DEF Knows
  <2> QED BY <1>3, <2>3, DriftOn
<1>4. CASE UNCHANGED vars
  <2>1. /\ UNCHANGED <<cells, alerts, consumed, job, catalog, offered>>
        /\ UNCHANGED <<doubled, clean, fresh>>
    BY <1>4 DEF vars, catalogVars, catalogTables, tables, history
  <2>2. \A s : /\ OpenAlerts(s)' = OpenAlerts(s) /\ Used(s)' = Used(s)
               /\ AssignedSum(s)' = AssignedSum(s)
    BY <2>1, SumStays DEF OpenAlerts, Used
  <2>3. Unlimited' = Unlimited
    BY <2>1 DEF Unlimited
  <2>4. \A g \in Handlers : Knows(g)'
    BY <1>0, <2>1, <2>2, <2>3 DEF Knows, Found
  <2>5. OneInv'
    BY <2>1, <2>2 DEF DriftInv, OneInv
  <2>6. DriftIsShown'
    BY <2>1, <2>2, <2>3 DEF DriftInv, DriftIsShown
  <2> QED BY <2>4, <2>5, <2>6 DEF DriftInv
<1>5. CASE Next
  <2>1. ASSUME CatalogOnly PROVE DriftInv'
    BY <1>2, <2>1 DEF CatalogOnly
  <2>2. ASSUME NEW s \in Skus, TenantMoves(s), Remember({}) PROVE DriftInv'
    BY <1>2, <2>2 DEF TenantMoves
  <2> QED BY <1>1, <1>3, <1>5, <2>1, <2>2, SettleShows DEF Next
<1> QED BY <1>4, <1>5

\* A reconciliation on which nothing moved leaves the licence with one open alert
\* that has the difference of the books, or with none where they agree
\* (reconcile.service.ts), whatever runs, edits and syncs went on beside it -
\* unless two runs opened an alert each.
THEOREM DriftHolds == Spec => []DriftIsShown
<1>1. TypeOK /\ DriftInv /\ [Next]_vars => TypeOK' /\ DriftInv'
  BY NextTyped, DriftNext
<1>2. DriftInv => DriftIsShown
  BY DEF DriftInv
<1> QED BY InitTyped, DriftStart, <1>1, <1>2, PTL DEF Spec
=============================================================================
