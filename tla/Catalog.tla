------------------------------- MODULE Catalog -------------------------------
(***************************************************************************)
(* The licence catalog (license/catalog.service.ts,                        *)
(* catalog-import.service.ts, alias-collision.ts): a sync takes over what  *)
(* the tenant reports, curators name licences by an alias, one by one or   *)
(* by file.  The matrix of seats is matched on the alias, so two active    *)
(* licences must not share one.                                            *)
(***************************************************************************)
EXTENDS Naturals, FiniteSets

CONSTANTS
    Skus, Aliases, NoAlias,
    Catalogs,      \* catalogs that a behaviour may begin with, in order
    Handlers,      \* requests that may be in flight at a time
    MaxJobs,       \* bound: handlers that start in a behaviour
    MaxMoves       \* bound: changes of the tenant and of seat models in a behaviour

\* A row of SkuCatalog; absent before the first sync that sees the licence.
Entry == [row : {"absent", "active", "inactive"}, alias : Aliases \cup {NoAlias},
          unlimited : BOOLEAN]

ASSUME CatalogAssumption ==
    /\ IsFiniteSet(Skus) /\ NoAlias \notin Aliases /\ {MaxJobs, MaxMoves} \subseteq Nat
    /\ Catalogs \subseteq [Skus -> Entry]
    /\ \A c \in Catalogs : \A s, t \in Skus :
         c[s].row = "active" /\ c[t].row = "active" /\ c[s].alias = c[t].alias
           => s = t \/ c[s].alias = NoAlias

VARIABLES
    catalog,   \* table SkuCatalog
    offered,   \* licences that the tenant reports (subscribedSkus)
    task,      \* what each handler does to the catalog
    begun,     \* handlers started so far
    moved,     \* changes of the tenant and of seat models so far
    stale,     \* history: handlers that will write by a catalog that has changed since
    clashed    \* history: aliases that a returning licence, or a stale write, doubled

catalogTables == <<catalog, offered>>
catalogVars   == <<catalogTables, task, begun, moved, stale, clashed>>

\* seen is what a sync was told, todo what it has still to upsert.
Task == [at : {"idle", "upsert", "retire", "guard", "save"}, seen : SUBSET Skus,
         todo : SUBSET Skus, edits : SUBSET (Skus \X (Aliases \cup {NoAlias}))]

NoTask == [at |-> "idle", seen |-> {}, todo |-> {}, edits |-> {}]

CatalogTypeOK ==
    /\ catalog \in [Skus -> Entry]
    /\ offered \subseteq Skus
    /\ task \in [Handlers -> Task]
    /\ begun \in 0 .. MaxJobs /\ moved \in 0 .. MaxMoves
    /\ stale \subseteq Handlers /\ clashed \subseteq Aliases

Active == {s \in Skus : catalog[s].row = "active"}

\* findAliasCollisions, of names as they would be; no alias is never a collision.
Collide(named) ==
    \E s, t \in DOMAIN named : s # t /\ named[s] = named[t] /\ named[s] # NoAlias

Holders(a) == {s \in Active : catalog[s].alias = a}

CatalogInit ==
    /\ catalog \in Catalogs
    /\ offered = Active
    /\ task = [h \in Handlers |-> NoTask]
    /\ begun = 0 /\ moved = 0
    /\ stale = {} /\ clashed = {}

Doing(h, what) == task[h].at = what
Turn(h, what)  == task' = [task EXCEPT ![h].at = what] /\ UNCHANGED begun
Finish(h)      == task' = [task EXCEPT ![h] = NoTask] /\ UNCHANGED begun

Take(h, work) ==
    /\ Doing(h, "idle") /\ begun < MaxJobs
    /\ task' = [task EXCEPT ![h] = work]
    /\ begun' = begun + 1

OutsideMove == moved < MaxMoves /\ moved' = moved + 1

\* What the guards look at changes.
Renamed == \E s \in Skus : \/ catalog'[s].alias # catalog[s].alias
                           \/ catalog'[s].row # catalog[s].row

\* Those who have made their check, and still write when the catalog moves on.
Note(excused) ==
    /\ stale' = {g \in Handlers : /\ Doing(g, "save") /\ Doing(g, "save")'
                                  /\ g \in stale \/ Renamed}
    /\ clashed' = {a \in Aliases : /\ Cardinality(Holders(a)') > 1
                                   /\ a \in clashed \/ excused}

-----------------------------------------------------------------------------
(* syncFromTenant. *)

AfterUpsert(todo) == IF todo = {} THEN "retire" ELSE "upsert"

StartSync(h) ==
    /\ Take(h, [NoTask EXCEPT !.at = AfterUpsert(offered), !.seen = offered,
                              !.todo = offered])
    /\ UNCHANGED catalogTables /\ Note(FALSE)

\* One licence: created, or active again with whatever alias it had.  The
\* statement may fail, among others because another sync created the row.
Upsert(h) ==
    /\ Doing(h, "upsert")
    /\ \/ \E s \in task[h].todo :
            /\ catalog' = [catalog EXCEPT ![s].row = "active"]
            /\ task' = [task EXCEPT ![h].todo = @ \ {s},
                                    ![h].at = AfterUpsert(task[h].todo \ {s})]
            /\ UNCHANGED begun
       \/ Finish(h) /\ UNCHANGED catalog
    /\ UNCHANGED offered /\ Note(TRUE)

\* What the tenant no longer reports is deactivated.
Retire(h) ==
    /\ Doing(h, "retire")
    /\ catalog' = [s \in Skus |-> IF s \in Active \ task[h].seen
                                  THEN [catalog[s] EXCEPT !.row = "inactive"]
                                  ELSE catalog[s]]
    /\ Finish(h)
    /\ UNCHANGED offered /\ Note(FALSE)

-----------------------------------------------------------------------------
(* Curation. *)

\* updateEntry: an inactive licence and an alias that is cleared need no guard.
UpdateEntry(h, s, a) ==
    /\ catalog[s].row # "absent" /\ catalog[s].alias # a
    /\ Take(h, [NoTask EXCEPT !.edits = {<<s, a>>},
                   !.at = IF s \in Active /\ a # NoAlias THEN "guard" ELSE "save"])
    /\ UNCHANGED catalogTables /\ Note(FALSE)

\* Mutant: one entry is saved without the guard of the file import.
SkipGuard(h) ==
    /\ Doing(h, "guard")
    /\ Turn(h, "save")
    /\ UNCHANGED catalogTables /\ Note(FALSE)

\* The names of the other active licences, and the new one.
Guard(h) ==
    LET own == CHOOSE e \in task[h].edits : TRUE
        named == [s \in Active \cup {own[1]} |->
                    IF s = own[1] THEN own[2] ELSE catalog[s].alias]
    IN  /\ Doing(h, "guard")
        /\ IF Collide(named) THEN Finish(h) ELSE Turn(h, "save")
        /\ UNCHANGED catalogTables /\ Note(FALSE)

\* CatalogImportService.import: a file that names some of the active licences,
\* checked on the catalog that it would result in.
ImportCatalog(h) ==
    \E some \in SUBSET Active : \E file \in [some -> Aliases \cup {NoAlias}] :
        LET named   == [s \in Active |-> IF s \in some THEN file[s]
                                         ELSE catalog[s].alias]
            changes == {s \in some : file[s] # catalog[s].alias}
        IN  /\ changes # {} /\ ~Collide(named)
            /\ Take(h, [NoTask EXCEPT !.at = "save",
                                      !.edits = {<<s, file[s]>> : s \in changes}])
            /\ UNCHANGED catalogTables /\ Note(FALSE)

\* One transaction, by id.
Save(h) ==
    /\ Doing(h, "save")
    /\ catalog' = [s \in Skus |->
         IF \E e \in task[h].edits : e[1] = s
         THEN [catalog[s] EXCEPT !.alias = (CHOOSE e \in task[h].edits : e[1] = s)[2]]
         ELSE catalog[s]]
    /\ Finish(h)
    /\ UNCHANGED offered /\ Note(h \in stale)

\* updateEntry or a file: the seat model of a licence, which no guard looks at.
SetSeatModel(s) ==
    /\ catalog[s].row # "absent" /\ OutsideMove
    /\ catalog' = [catalog EXCEPT ![s].unlimited = ~@]
    /\ UNCHANGED <<offered, task, begun>> /\ Note(FALSE)

\* The tenant's subscriptions change.
Offer(s) ==
    /\ OutsideMove
    /\ offered' = IF s \in offered THEN offered \ {s} ELSE offered \cup {s}
    /\ UNCHANGED <<catalog, task, begun>> /\ Note(FALSE)

-----------------------------------------------------------------------------
CatalogStep(h) ==
    \/ StartSync(h) \/ Upsert(h) \/ Retire(h)
    \/ \E s \in Skus, a \in Aliases \cup {NoAlias} : UpdateEntry(h, s, a)
    \/ Guard(h) \/ ImportCatalog(h) \/ Save(h)

\* An alias names one active licence (alias-collision.ts), so a row of the matrix
\* has one place to go - unless a sync brought back a licence whose alias was
\* given away, or changed, while it was inactive, or an edit or a file was
\* checked on a catalog that changed before it was written.
AliasNamesOneSku == \A a \in Aliases \ clashed : Cardinality(Holders(a)) <= 1
=============================================================================
