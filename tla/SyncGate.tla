------------------------------ MODULE SyncGate ------------------------------
(***************************************************************************)
(* The two sync gates of an onboarding request (sync-sweep.service.ts,     *)
(* sync-check.service.ts, open-sync-gate.ts and the header edit of         *)
(* request.service.ts).                                                    *)
(*                                                                         *)
(* A person may be licensed only after Entra (gate 1) and ServiceNow       *)
(* (gate 2) know them.  A sweep, started by a timer, asks both vendors     *)
(* about the oldest waiting requests; an operator may ask Entra about one  *)
(* request at once, and may still correct whom a request is for.  Between  *)
(* two awaits a sweep, a check and an edit run alone; at every await the   *)
(* others run.  Rounds of the sweep may overlap: the timer does not wait.  *)
(***************************************************************************)
EXTENDS Naturals, Sequences, FiniteSets

CONSTANTS
    Requests, People,
    Order,         \* the requests, oldest first
    Batch,         \* SYNC_SWEEP_BATCH
    Sweeps,        \* rounds that may be under way at the same time
    Checks,        \* on-demand checks that may be under way at the same time
    Edits,         \* header edits that may be under way at the same time
    FirstTarget,   \* the person a request is for at first
    Corrections,   \* <<r, p>>: an operator may find that r is really for p
    Joiners,       \* people the vendors will get to know
    Ambiguous,     \* people ServiceNow has twice
    Breakable,     \* services that may go down
    Nobody

\* The vendors, the database and the platform's own process.
Services == {"graph", "servicenow", "db", "process"}

ASSUME GateAssumption ==
    /\ Requests # {}
    /\ Order \in Seq(Requests)
    /\ Batch \in Nat \ {0}
    /\ FirstTarget \in [Requests -> People]
    /\ Corrections \subseteq Requests \X People
    /\ Joiners \subseteq People
    /\ Ambiguous \subseteq People
    /\ Breakable \subseteq Services
    /\ Nobody \notin People

VARIABLES
    target,      \* Request.targetUpn
    azure,       \* Request.azureSyncedAt is set
    snUser,      \* Request.serviceNowUserSysId: whom gate 2 was opened for
    waiting,     \* the request is open, a line of it waits for its licence, and
                 \* it is younger than SYNC_SWEEP_MAX_AGE_DAYS
    inGraph,     \* people Entra knows
    inSnow,      \* people ServiceNow knows
    up,          \* the services that run
    sweep,       \* the rounds
    check,       \* the on-demand checks
    edit,        \* the header edits
    cooling,     \* lastCheckedAt: requests in their cooldown
    asked        \* on-demand lookups in the current cooldown window

requestVars == <<target, azure, snUser, waiting>>
worldVars   == <<inGraph, inSnow, up>>
checkVars   == <<check, cooling, asked>>
vars == <<requestVars, worldVars, sweep, edit, checkVars>>

\* A candidate as findCandidates selected it.
Items == [req : Requests, upn : People, azure : BOOLEAN, sn : BOOLEAN]

\* refused: how often a vendor failed this round.
Rounds == [at : {"idle", "azure", "openAzure", "servicenow", "openServiceNow",
                 "notes"},
           todo : Seq(Items), graphDown : BOOLEAN, snowDown : BOOLEAN,
           graphRefused : Nat, snowRefused : Nat]
NoRound == [at |-> "idle", todo |-> <<>>, graphDown |-> FALSE,
            snowDown |-> FALSE, graphRefused |-> 0, snowRefused |-> 0]

\* A check or an edit in flight: the request, and the person it read or writes.
InFlight == [at : {"idle", "cooldown", "ask", "open", "write"},
             req : Requests, upn : People]
Nothing == [at |-> "idle", req |-> CHOOSE r \in Requests : TRUE,
            upn |-> CHOOSE p \in People : TRUE]

-----------------------------------------------------------------------------
SnOpen(r) == snUser[r] # Nobody

\* findCandidates: the request waits and a gate is shut ...
Candidate(r) == waiting[r] /\ (~azure[r] \/ ~SnOpen(r))

\* How many of the i oldest requests are candidates.
Among(i) == Cardinality({j \in 1..i : Candidate(Order[j])})

\* ... oldest first, at most a batch of them.
Candidates ==
    LET all == Among(Len(Order)) IN
    [n \in 1..(IF all < Batch THEN all ELSE Batch) |->
        Order[CHOOSE i \in DOMAIN Order : Candidate(Order[i]) /\ Among(i) = n]]

Snapshot(r) == [req |-> r, upn |-> target[r], azure |-> azure[r], sn |-> SnOpen(r)]

InBatch(r) == \E i \in DOMAIN Candidates : Candidates[i] = r

Current(w) == Head(sweep[w].todo)

-----------------------------------------------------------------------------
Init ==
    /\ target = FirstTarget
    /\ azure \in [Requests -> BOOLEAN]     \* n8n may already claim gate 1
    /\ snUser = [r \in Requests |-> Nobody]
    /\ waiting = [r \in Requests |-> TRUE]
    /\ inGraph = {}
    /\ inSnow = Ambiguous
    /\ up = Services
    /\ sweep = [w \in Sweeps |-> NoRound]
    /\ check = [c \in Checks |-> Nothing]
    /\ edit = [e \in Edits |-> Nothing]
    /\ cooling = {}
    /\ asked = [r \in Requests |-> 0]

-----------------------------------------------------------------------------
(* The sweep. *)

Set(w, round) == sweep' = [sweep EXCEPT ![w] = round]
Step(w, where) == Set(w, [sweep[w] EXCEPT !.at = where])

\* Mutant: the end of the list is not noticed.
AdvancePastEnd(w, round) ==
    Set(w, IF round.graphDown /\ round.snowDown
           THEN NoRound
           ELSE [round EXCEPT !.at = "azure", !.todo = Tail(@)])

\* The next candidate, or the end of the round; it also ends when both are down.
Advance(w, round) ==
    Set(w, IF Tail(round.todo) = <<>> \/ (round.graphDown /\ round.snowDown)
           THEN NoRound
           ELSE [round EXCEPT !.at = "azure", !.todo = Tail(@)])

\* The timer fires.  Without candidates no vendor is called.
StartRound(w) ==
    /\ sweep[w].at = "idle"
    /\ {"db", "process"} \subseteq up
    /\ Candidates # <<>>
    /\ Set(w, [NoRound EXCEPT !.at = "azure",
                 !.todo = [i \in DOMAIN Candidates |-> Snapshot(Candidates[i])]])
    /\ UNCHANGED <<requestVars, worldVars, edit, checkVars>>

\* Mutant: an outage of either vendor ends the round for both.
SkipGraphIfAnyDown(w) ==
    /\ sweep[w].at = "azure"
    /\ Current(w).azure \/ sweep[w].graphDown \/ sweep[w].snowDown
    /\ Step(w, "servicenow")
    /\ UNCHANGED <<requestVars, worldVars, edit, checkVars>>

\* Nothing to ask Entra: the gate was open, or Entra failed earlier this round.
SkipGraph(w) ==
    /\ sweep[w].at = "azure"
    /\ Current(w).azure \/ sweep[w].graphDown
    /\ Step(w, "servicenow")
    /\ UNCHANGED <<requestVars, worldVars, edit, checkVars>>

AskGraph(w) ==
    /\ sweep[w].at = "azure"
    /\ ~Current(w).azure
    /\ ~sweep[w].graphDown
    /\ "graph" \in up
    /\ Step(w, IF Current(w).upn \in inGraph THEN "openAzure" ELSE "servicenow")
    /\ UNCHANGED <<requestVars, worldVars, edit, checkVars>>

\* Mutant: the failure is not remembered.
GraphRefusesEach(w) ==
    /\ sweep[w].at = "azure"
    /\ ~Current(w).azure
    /\ ~sweep[w].graphDown
    /\ "graph" \notin up
    /\ Set(w, [sweep[w] EXCEPT !.at = "servicenow", !.graphRefused = @ + 1])
    /\ UNCHANGED <<requestVars, worldVars, edit, checkVars>>

\* Entra is not asked again this round.
GraphRefuses(w) ==
    /\ sweep[w].at = "azure"
    /\ ~Current(w).azure
    /\ ~sweep[w].graphDown
    /\ "graph" \notin up
    /\ Set(w, [sweep[w] EXCEPT !.at = "servicenow", !.graphDown = TRUE,
                 !.graphRefused = @ + 1])
    /\ UNCHANGED <<requestVars, worldVars, edit, checkVars>>

\* openSyncGate writes by id, on the answer about the person of the snapshot.  A
\* failed write is taken for an outage of Entra: the catch is around both.
OpenGate(w) ==
    /\ sweep[w].at = "openAzure"
    /\ IF "db" \in up
       THEN /\ azure' = [azure EXCEPT ![Current(w).req] = TRUE]
            /\ Step(w, "servicenow")
       ELSE /\ UNCHANGED azure
            /\ Set(w, [sweep[w] EXCEPT !.at = "servicenow", !.graphDown = TRUE])
    /\ UNCHANGED <<target, snUser, waiting, worldVars, edit, checkVars>>

SkipServiceNow(w) ==
    /\ sweep[w].at = "servicenow"
    /\ Current(w).sn \/ sweep[w].snowDown
    /\ Advance(w, sweep[w])
    /\ UNCHANGED <<requestVars, worldVars, edit, checkVars>>

\* Mutant: a person ServiceNow has twice counts as an outage.
AmbiguousIsDown(w) ==
    LET upn == Current(w).upn IN
    /\ sweep[w].at = "servicenow"
    /\ ~Current(w).sn
    /\ ~sweep[w].snowDown
    /\ "servicenow" \in up
    /\ IF upn \in inSnow \ Ambiguous
       THEN Step(w, "openServiceNow")
       ELSE Advance(w, [sweep[w] EXCEPT !.snowDown = upn \in inSnow])
    /\ UNCHANGED <<requestVars, worldVars, edit, checkVars>>

\* An ambiguous person keeps this gate shut and is no outage.
AskServiceNow(w) ==
    /\ sweep[w].at = "servicenow"
    /\ ~Current(w).sn
    /\ ~sweep[w].snowDown
    /\ "servicenow" \in up
    /\ IF Current(w).upn \in inSnow \ Ambiguous
       THEN Step(w, "openServiceNow")
       ELSE Advance(w, sweep[w])
    /\ UNCHANGED <<requestVars, worldVars, edit, checkVars>>

ServiceNowRefuses(w) ==
    /\ sweep[w].at = "servicenow"
    /\ ~Current(w).sn
    /\ ~sweep[w].snowDown
    /\ "servicenow" \notin up
    /\ Advance(w, [sweep[w] EXCEPT !.snowDown = TRUE, !.snowRefused = @ + 1])
    /\ UNCHANGED <<requestVars, worldVars, edit, checkVars>>

\* openServiceNowUserGate, with the sys_id of the person that was looked up.
OpenServiceNowGate(w) ==
    /\ sweep[w].at = "openServiceNow"
    /\ IF "db" \in up
       THEN /\ snUser' = [snUser EXCEPT ![Current(w).req] = Current(w).upn]
            /\ Step(w, "notes")
       ELSE /\ UNCHANGED snUser
            /\ Advance(w, [sweep[w] EXCEPT !.snowDown = TRUE])
    /\ UNCHANGED <<target, azure, waiting, worldVars, edit, checkVars>>

\* Work notes on the lines' tickets.  Notes may fail; reading the lines may not.
NoteTickets(w) ==
    /\ sweep[w].at = "notes"
    /\ Advance(w, [sweep[w] EXCEPT !.snowDown = @ \/ "db" \notin up])
    /\ UNCHANGED <<requestVars, worldVars, edit, checkVars>>

-----------------------------------------------------------------------------
(* The on-demand check. *)

\* Read the request; a request past gate 1 is answered at once.
StartCheck(c, r) ==
    /\ check[c].at = "idle"
    /\ {"db", "process"} \subseteq up
    /\ ~azure[r]
    /\ check' = [check EXCEPT ![c] = [at |-> "cooldown", req |-> r, upn |-> target[r]]]
    /\ UNCHANGED <<requestVars, worldVars, sweep, edit, cooling, asked>>

EndCheck(c) == check' = [check EXCEPT ![c] = Nothing]

Throttled(c) ==
    /\ check[c].at = "cooldown"
    /\ check[c].req \in cooling
    /\ EndCheck(c)
    /\ UNCHANGED <<requestVars, worldVars, sweep, edit, cooling, asked>>

\* Mutant: the cooldown starts only when Entra has answered.
StampLater(c) ==
    /\ check[c].at = "cooldown"
    /\ check[c].req \notin cooling
    /\ check' = [check EXCEPT ![c].at = "ask"]
    /\ asked' = [asked EXCEPT ![check[c].req] = @ + 1]
    /\ UNCHANGED <<requestVars, worldVars, sweep, edit, cooling>>

\* The cooldown is stamped before the call: a failing Entra is not hammered.
Stamp(c) ==
    /\ check[c].at = "cooldown"
    /\ check[c].req \notin cooling
    /\ check' = [check EXCEPT ![c].at = "ask"]
    /\ cooling' = cooling \union {check[c].req}
    /\ asked' = [asked EXCEPT ![check[c].req] = @ + 1]
    /\ UNCHANGED <<requestVars, worldVars, sweep, edit>>

CheckGraph(c) ==
    /\ check[c].at = "ask"
    /\ IF "graph" \in up /\ check[c].upn \in inGraph
       THEN check' = [check EXCEPT ![c].at = "open"]
       ELSE EndCheck(c)
    /\ UNCHANGED <<requestVars, worldVars, sweep, edit, cooling, asked>>

CheckOpens(c) ==
    /\ check[c].at = "open"
    /\ IF "db" \in up
       THEN azure' = [azure EXCEPT ![check[c].req] = TRUE]
       ELSE UNCHANGED azure
    /\ EndCheck(c)
    /\ UNCHANGED <<target, snUser, waiting, worldVars, sweep, edit, cooling,
                   asked>>

\* Thirty seconds have passed since the last check of r.
CoolDown(r) ==
    /\ r \in cooling
    /\ cooling' = cooling \ {r}
    /\ asked' = [asked EXCEPT ![r] = 0]
    /\ UNCHANGED <<requestVars, worldVars, sweep, edit, check>>

-----------------------------------------------------------------------------
(* The other hands on a request. *)

\* updateHeader: the person may be corrected while gate 1 is shut, whatever
\* gate 2 says ...
StartEdit(e, r, p) ==
    /\ edit[e].at = "idle"
    /\ {"db", "process"} \subseteq up
    /\ <<r, p>> \in Corrections
    /\ ~azure[r]
    /\ target[r] # p
    /\ edit' = [edit EXCEPT ![e] = [at |-> "write", req |-> r, upn |-> p]]
    /\ UNCHANGED <<requestVars, worldVars, sweep, checkVars>>

\* ... and is written by id.  No gate is touched.
WriteEdit(e) ==
    /\ edit[e].at = "write"
    /\ IF "db" \in up
       THEN target' = [target EXCEPT ![edit[e].req] = edit[e].upn]
       ELSE UNCHANGED target
    /\ edit' = [edit EXCEPT ![e] = Nothing]
    /\ UNCHANGED <<azure, snUser, waiting, worldVars, sweep, checkVars>>

\* markSynced: somebody asserts gate 1.
MarkSynced(r) ==
    /\ {"db", "process"} \subseteq up
    /\ ~azure[r]
    /\ azure' = [azure EXCEPT ![r] = TRUE]
    /\ UNCHANGED <<target, snUser, waiting, worldVars, sweep, edit, checkVars>>

\* The last waiting line is assigned or cancelled, or the request passes the age
\* cutoff; a line is added after all were cancelled.
Settle(r) ==
    /\ waiting' = [waiting EXCEPT ![r] = ~@]
    /\ UNCHANGED <<target, azure, snUser, worldVars, sweep, edit, checkVars>>

\* Entra Connect and the ServiceNow import bring people in.
JoinGraph(p) ==
    /\ p \notin inGraph
    /\ inGraph' = inGraph \union {p}
    /\ UNCHANGED <<requestVars, inSnow, up, sweep, edit, checkVars>>
JoinServiceNow(p) ==
    /\ p \notin inSnow
    /\ inSnow' = inSnow \union {p}
    /\ UNCHANGED <<requestVars, inGraph, up, sweep, edit, checkVars>>

\* A vendor or the database goes down or comes back.
Toggle(s) ==
    /\ s # "process"
    /\ up' = IF s \in up THEN up \ {s} ELSE up \union {s}
    /\ UNCHANGED <<requestVars, inGraph, inSnow, sweep, edit, checkVars>>

\* The process stops: rounds, checks, edits and the cooldown map are gone.
Crash ==
    /\ "process" \in Breakable \intersect up
    /\ up' = up \ {"process"}
    /\ sweep' = [w \in Sweeps |-> NoRound]
    /\ check' = [c \in Checks |-> Nothing]
    /\ edit' = [e \in Edits |-> Nothing]
    /\ cooling' = {}
    /\ asked' = [r \in Requests |-> 0]
    /\ UNCHANGED <<requestVars, inGraph, inSnow>>

Boot ==
    /\ "process" \notin up
    /\ up' = up \union {"process"}
    /\ UNCHANGED <<requestVars, inGraph, inSnow, sweep, edit, checkVars>>

-----------------------------------------------------------------------------
SweepStep(w) ==
    \/ SkipGraph(w) \/ AskGraph(w) \/ GraphRefuses(w) \/ OpenGate(w)
    \/ SkipServiceNow(w) \/ AskServiceNow(w) \/ ServiceNowRefuses(w)
    \/ OpenServiceNowGate(w) \/ NoteTickets(w)

CheckStep(c) == Throttled(c) \/ Stamp(c) \/ CheckGraph(c) \/ CheckOpens(c)

OperatorStep ==
    \/ \E c \in Checks, r \in Requests : StartCheck(c, r)
    \/ \E e \in Edits, r \in Requests, p \in People : StartEdit(e, r, p)
    \/ \E r \in Requests : MarkSynced(r) \/ Settle(r)

WorldStep ==
    \/ \E r \in Requests : CoolDown(r)
    \/ \E p \in Joiners : JoinGraph(p) \/ JoinServiceNow(p)
    \/ \E s \in Breakable : Toggle(s)

Next ==
    \/ \E w \in Sweeps : StartRound(w) \/ SweepStep(w)
    \/ \E c \in Checks : CheckStep(c)
    \/ \E e \in Edits : WriteEdit(e)
    \/ OperatorStep
    \/ WorldStep
    \/ Crash
    \/ Boot

\* The timer keeps firing and a round that has begun goes on.
Fairness == \A w \in Sweeps : WF_vars(StartRound(w)) /\ WF_vars(SweepStep(w))

Spec == Init /\ [][Next]_vars /\ Fairness

-----------------------------------------------------------------------------
TypeOK ==
    /\ target \in [Requests -> People]
    /\ azure \in [Requests -> BOOLEAN]
    /\ snUser \in [Requests -> People \union {Nobody}]
    /\ waiting \in [Requests -> BOOLEAN]
    /\ inGraph \subseteq Joiners
    /\ inSnow \subseteq Joiners \union Ambiguous
    /\ up \subseteq Services
    /\ sweep \in [Sweeps -> Rounds]
    /\ \A w \in Sweeps : sweep[w].at # "idle" => sweep[w].todo # <<>>
    /\ check \in [Checks -> InFlight]
    /\ edit \in [Edits -> InFlight]
    /\ cooling \subseteq Requests
    /\ asked \in [Requests -> Nat]

\* "A throttled or failing Graph is the case where hammering it does the most
\* damage": one on-demand lookup of a request per cooldown, also when the lookup
\* fails, when several operators ask and when the answer is still on its way.
AskedOnce == \A r \in Requests : asked[r] <= 1

\* A vendor that failed is not asked again in the same round.
OneRefusalPerRound ==
    \A w \in Sweeps : sweep[w].graphRefused <= 1 /\ sweep[w].snowRefused <= 1

\* From some point on the process runs on and the services in need stay up.
Calm(need) == <>[](need \union {"process"} \subseteq up)

\* From some point on r is among the oldest waiting requests and is for p.
Served(r, p) == <>[](InBatch(r) /\ target[r] = p)

\* Gate 1 opens for a request that stays among the oldest waiting ones once Entra
\* knows the person, although ServiceNow may be down for ever.
GateOneOpens ==
    \A r \in Requests : \A p \in Joiners :
        Calm({"graph", "db"}) /\ Served(r, p) /\ <>(p \in inGraph) => <>azure[r]

\* The same of gate 2: Entra may be down for ever, and somebody older in the
\* batch may be in ServiceNow twice.
GateTwoOpens ==
    \A r \in Requests : \A p \in Joiners \ Ambiguous :
        Calm({"servicenow", "db"}) /\ Served(r, p) /\ <>(p \in inSnow) => <>SnOpen(r)

\* Gate 2 says "the target user exists in ServiceNow" and keeps the sys_id that
\* proves it: it is the sys_id of the person the request is for.
GateTwoMeansTarget == \A r \in Requests : SnOpen(r) => snUser[r] = target[r]
=============================================================================
