------------------------------ MODULE AgentRun ------------------------------
(***************************************************************************)
(* Agent runs (agent/ai-assist.service.ts, agent-run.queue.ts,             *)
(* agent-run.worker.ts, run-expiry.service.ts, agent-conversation.service, *)
(* kill-switch.service.ts and the two runtime adapters).                   *)
(*                                                                         *)
(* A run is a row, created by a person from a request or by a turn of a    *)
(* conversation, executed by a worker that takes its job from the queue.   *)
(* A stretch of execution ends with the run completed, failed, or parked   *)
(* on proposals that wait for a person; a decision (AgentApproval) resumes *)
(* it.  Meanwhile a person may stop the run, the clock may expire it, an   *)
(* admin may switch the agent off, and the process may stop.  A handler    *)
(* makes one database statement or one call at a time; at every await the  *)
(* others run.                                                             *)
(***************************************************************************)
EXTENDS Naturals, Sequences, FiniteSets

CONSTANTS
    Requests,      \* requests that a run can be started on
    Chats,         \* conversations
    RequestOf,     \* the request of each; of a conversation there may be none
    NoRequest,     \* null
    Handlers,      \* handlers and worker slots that may be in flight at a time
    Items,         \* line items that a line-item proposal names
    MaxHistory,    \* turns of its conversation that a run is given
    MaxRuns,       \* bound: runs in a behaviour
    MaxProposals,  \* bound: proposals in a behaviour
    MaxJobs,       \* bound: handlers that start in a behaviour
    MaxFlips       \* bound: times the kill switch is set

Topics == Requests \cup Chats

ASSUME AgentAssumption ==
    /\ Requests \cap Chats = {} /\ NoRequest \notin Requests /\ Topics # {}
    /\ RequestOf \in [Topics -> Requests \cup {NoRequest}]
    /\ \A q \in Requests : RequestOf[q] = q
    /\ {Items, MaxHistory} \subseteq Nat \ {0}
    /\ {MaxRuns, MaxProposals, MaxJobs, MaxFlips} \subseteq Nat

VARIABLES
    enabled,    \* AgentPrincipal.active, the kill switch
    runs,       \* table AgentRun
    proposals,  \* table AgentProposal
    said,       \* table AgentChatTurn: who spoke, per conversation
    jobs,       \* the BullMQ queue: runs with a job that no worker has taken
    job,        \* what each handler does
    begun,      \* handlers started so far
    flips,      \* times the switch was set
    stalled     \* runs whose job has already come back once from a stopped process

rowVars   == <<runs, proposals, said, jobs>>
agentVars == <<enabled, rowVars, job, begun, flips, stalled>>

NonTerminal == {"running", "awaiting_approval", "approved"}
Terminal    == {"completed", "failed", "aborted", "expired"}

\* saved is runState: the proposals that the stored pause waits for.
Run == [about : Topics, status : NonTerminal \cup Terminal,
        saved : SUBSET (1 .. MaxProposals), hidden : BOOLEAN]

\* by is approvedById: what the person decided whose name is on the row.
\* made is history: line items created, or licences assigned, on its account.
Proposal == [run : 1 .. MaxRuns, kind : {"line_items", "assign"},
             status : {"pending", "executed", "failed", "rejected"},
             by : {"nobody", "approve", "reject"}, decided : BOOLEAN,
             made : Nat]

Ops == {"start", "ask", "work", "approve", "reject", "abort", "expire", "hide"}

Points == {"idle",
           "gate", "open", "principal", "create", "enqueue",     \* queueRun
           "load", "switch", "model", "propose", "park",         \* a stretch
           "finish", "fail", "tell",
           "decide", "make", "botch", "mark", "resume", "reload",
           "decided",                                            \* a decision
           "stop", "tidy", "hide"}

Job == [op : Ops, at : Points, about : Topics, run : 0 .. MaxRuns,
        prop : 0 .. MaxProposals, left : Nat, ok : BOOLEAN,
        new : SUBSET (1 .. MaxProposals)]

Idle == [op |-> "start", at |-> "idle", about |-> CHOOSE t \in Topics : TRUE,
         run |-> 0, prop |-> 0, left |-> 0, ok |-> FALSE, new |-> {}]

AgentTypeOK ==
    /\ enabled \in BOOLEAN
    /\ runs \in Seq(Run) /\ Len(runs) <= MaxRuns
    /\ proposals \in Seq(Proposal) /\ Len(proposals) <= MaxProposals
    /\ said \in [Chats -> Seq({"person", "agent"})]
    /\ jobs \subseteq DOMAIN runs
    /\ job \in [Handlers -> Job]
    /\ begun \in 0 .. MaxJobs
    /\ flips \in 0 .. MaxFlips
    /\ stalled \subseteq DOMAIN runs

\* A missing principal row counts as enabled.
AgentInit ==
    /\ enabled = TRUE
    /\ runs = <<>> /\ proposals = <<>>
    /\ said = [c \in Chats |-> <<>>]
    /\ jobs = {}
    /\ job = [h \in Handlers |-> Idle]
    /\ begun = 0 /\ flips = 0 /\ stalled = {}

At(h, where)  == job[h].at = where
Busy(h)       == ~At(h, "idle")
Go(h, where)  == job' = [job EXCEPT ![h].at = where] /\ UNCHANGED begun
Done(h)       == job' = [job EXCEPT ![h] = Idle] /\ UNCHANGED begun

Begin(h, work) ==
    /\ ~Busy(h) /\ begun < MaxJobs
    /\ job' = [job EXCEPT ![h] = work]
    /\ begun' = begun + 1

MyRun(h)  == runs[job[h].run]
SetStatus(r, status) == runs' = [runs EXCEPT ![r].status = status]

ProposalsOf(r) == {p \in DOMAIN proposals : proposals[p].run = r}
PendingOf(r)   == {p \in ProposalsOf(r) : proposals[p].status = "pending"}
OpenRunsOn(q)  == {r \in DOMAIN runs : RequestOf[runs[r].about] = q
                                       /\ runs[r].status \in NonTerminal}

-----------------------------------------------------------------------------
(* Starting a run. *)

\* startRun, after assertEnabled; a refusal changes nothing.
StartRun(h, q) ==
    /\ enabled
    /\ Begin(h, [Idle EXCEPT !.op = "start", !.at = "open", !.about = q])
    /\ UNCHANGED <<rowVars, enabled, flips, stalled>>

\* Mutant: a parked run does not count as open.
AssertNoRunningRun(h) ==
    /\ At(h, "open")
    /\ IF \E r \in OpenRunsOn(job[h].about) : runs[r].status = "running"
       THEN Done(h) ELSE Go(h, "principal")
    /\ UNCHANGED <<rowVars, enabled, flips, stalled>>

\* assertNoOpenRun: any open run of the request, whoever asked for it.
AssertNoOpenRun(h) ==
    /\ At(h, "open")
    /\ IF OpenRunsOn(job[h].about) = {} THEN Go(h, "principal") ELSE Done(h)
    /\ UNCHANGED <<rowVars, enabled, flips, stalled>>

\* addTurn: the question is stored before its run is started.
AddTurn(h, c) ==
    /\ Begin(h, [Idle EXCEPT !.op = "ask", !.at = "gate", !.about = c])
    /\ said' = [said EXCEPT ![c] = Append(@, "person")]
    /\ UNCHANGED <<runs, proposals, jobs, enabled, flips, stalled>>

\* startConversationRun: no rule of one run, only the switch.
StartConversationRun(h) ==
    /\ At(h, "gate")
    /\ IF enabled THEN Go(h, "principal") ELSE Done(h)
    /\ UNCHANGED <<rowVars, enabled, flips, stalled>>

\* queueRun reads the principal a second time, and resolves the profile, which
\* may refuse: before anything is written.
ReadPrincipal(h) ==
    /\ At(h, "principal")
    /\ \/ enabled /\ Go(h, "create")
       \/ Done(h)
    /\ UNCHANGED <<rowVars, enabled, flips, stalled>>

\* Mutant: a status the statuses of a run do not know.
CreateQueuedRun(h) ==
    /\ At(h, "create") /\ Len(runs) < MaxRuns
    /\ runs' = Append(runs, [about |-> job[h].about, status |-> "queued",
                             saved |-> {}, hidden |-> FALSE])
    /\ Done(h)
    /\ UNCHANGED <<proposals, said, jobs, enabled, flips, stalled>>

CreateRun(h) ==
    /\ At(h, "create")
    /\ IF Len(runs) < MaxRuns
       THEN /\ runs' = Append(runs, [about |-> job[h].about, status |-> "running",
                                     saved |-> {}, hidden |-> FALSE])
            /\ job' = [job EXCEPT ![h].at = "enqueue", ![h].run = Len(runs) + 1]
            /\ UNCHANGED begun
       ELSE Done(h) /\ UNCHANGED runs
    /\ UNCHANGED <<proposals, said, jobs, enabled, flips, stalled>>

\* Mutant: a failed enqueue is only reported.
EnqueueOrReport(h) ==
    /\ At(h, "enqueue")
    /\ jobs' \in {jobs, jobs \cup {job[h].run}}
    /\ Done(h)
    /\ UNCHANGED <<runs, proposals, said, enabled, flips, stalled>>

\* A failed enqueue ends the run.
Enqueue(h) ==
    /\ At(h, "enqueue")
    /\ \/ jobs' = jobs \cup {job[h].run} /\ Done(h)
       \/ Go(h, "fail") /\ UNCHANGED jobs
    /\ UNCHANGED <<runs, proposals, said, enabled, flips, stalled>>

-----------------------------------------------------------------------------
(* A stretch of execution. *)

\* AgentRunWorker takes a job; it is gone from the queue while it is active.
TakeJob(h, r) ==
    /\ r \in jobs
    /\ Begin(h, [Idle EXCEPT !.op = "work", !.at = "load",
                             !.about = runs[r].about, !.run = r])
    /\ jobs' = jobs \ {r}
    /\ UNCHANGED <<runs, proposals, said, enabled, flips, stalled>>

\* Mutant: a late job runs whatever the run has become.
LoadAnyRun(h) ==
    /\ At(h, "load")
    /\ Go(h, "switch")
    /\ UNCHANGED <<rowVars, enabled, flips, stalled>>

\* executeRun, before its try: a run that is no longer running keeps its outcome.
LoadRun(h) ==
    /\ At(h, "load")
    /\ Go(h, IF MyRun(h).status = "running" THEN "switch" ELSE "tell")
    /\ UNCHANGED <<rowVars, enabled, flips, stalled>>

\* inputFor: a run of a conversation wants a question among its last turns.
InputFor(t) ==
    t \in Chats => \E k \in DOMAIN said[t] : /\ k + MaxHistory >= Len(said[t])
                                           /\ said[t][k] = "person"

\* The switch inside the try: an agent that was switched off fails the run.
CheckSwitch(h) ==
    /\ At(h, "switch")
    /\ Go(h, IF enabled /\ InputFor(job[h].about) THEN "model" ELSE "fail")
    /\ UNCHANGED <<rowVars, enabled, flips, stalled>>

\* A run without a request is not shown the tools that propose.
MayPropose(t) == RequestOf[t] \in Requests

\* The model's turn: an error, an answer, or calls of tools that need approval.
ModelTurn(h) ==
    /\ At(h, "model")
    /\ \/ Go(h, "fail")
       \/ Go(h, "finish")
       \/ \E n \in 1 .. 2 :
            /\ MayPropose(job[h].about)
            /\ Len(proposals) + n <= MaxProposals
            /\ job' = [job EXCEPT ![h].at = "propose", ![h].left = n,
                                  ![h].new = {}]
            /\ UNCHANGED begun
    /\ UNCHANGED <<rowVars, enabled, flips, stalled>>

\* After the last write of a stretch the worker tells the conversation; a
\* decision has answered its person.
EndStretch(h, spoke) ==
    IF job[h].op = "work"
    THEN job' = [job EXCEPT ![h].at = "tell", ![h].ok = spoke] /\ UNCHANGED begun
    ELSE Done(h)

\* persistTurn, a turn without pauses.
PersistCompleted(h) ==
    /\ At(h, "finish")
    /\ runs' = [runs EXCEPT ![job[h].run].status = "completed",
                            ![job[h].run].saved = {}]
    /\ EndStretch(h, TRUE)
    /\ UNCHANGED <<proposals, said, jobs, enabled, flips, stalled>>

\* persistTurn, one proposal for each pause.
PersistProposal(h) ==
    /\ At(h, "propose")
    /\ \/ /\ Len(proposals) < MaxProposals
          /\ \E kind \in {"line_items", "assign"} :
               proposals' = Append(proposals,
                   [run |-> job[h].run, kind |-> kind, status |-> "pending",
                    by |-> "nobody", decided |-> FALSE, made |-> 0])
          /\ LET n == Len(proposals) + 1
                 rest == job[h].left - 1
             IN  job' = [job EXCEPT ![h].left = rest, ![h].new = @ \cup {n},
                            ![h].at = IF rest = 0 THEN "park" ELSE "propose"]
          /\ UNCHANGED begun
       \/ Go(h, "fail") /\ UNCHANGED proposals
    /\ UNCHANGED <<runs, said, jobs, enabled, flips, stalled>>

\* persistTurn, the status last and whatever the status is by now.
PersistAwaiting(h) ==
    /\ At(h, "park")
    /\ runs' = [runs EXCEPT ![job[h].run].status = "awaiting_approval",
                            ![job[h].run].saved = job[h].new]
    /\ EndStretch(h, FALSE)
    /\ UNCHANGED <<proposals, said, jobs, enabled, flips, stalled>>

\* failRun: the status, not the proposals.
FailRun(h) ==
    /\ At(h, "fail")
    /\ SetStatus(job[h].run, "failed")
    /\ EndStretch(h, FALSE)
    /\ UNCHANGED <<proposals, said, jobs, enabled, flips, stalled>>

\* recordAssistantTurn: what the run said, if it belongs to a conversation.
RecordAssistantTurn(h) ==
    /\ At(h, "tell")
    /\ IF job[h].about \in Chats /\ job[h].ok
       THEN said' = [said EXCEPT ![job[h].about] = Append(@, "agent")]
       ELSE UNCHANGED said
    /\ Done(h)
    /\ UNCHANGED <<runs, proposals, jobs, enabled, flips, stalled>>

\* A statement inside the try of executeRun or resumeRun throws: the catch fails
\* the run.  (ModelTurn and PersistProposal have this outcome of their own.)
Catch(h) ==
    /\ job[h].at \in {"switch", "finish", "park"}
    /\ Go(h, "fail")
    /\ UNCHANGED <<rowVars, enabled, flips, stalled>>

\* A statement outside every try throws: the handler ends with its rows as they
\* are.  The worker catches once more to tell the conversation, and its job, which
\* has one attempt, has failed.
Throw(h) ==
    /\ \/ job[h].at \in {"load", "fail"} /\ EndStretch(h, FALSE)
       \/ /\ job[h].at \in {"open", "gate", "principal", "create", "enqueue", "tell",
                            "decide", "botch", "mark", "decided", "resume", "reload",
                            "stop", "tidy", "hide"}
          /\ Done(h)
    /\ UNCHANGED <<rowVars, enabled, flips, stalled>>

-----------------------------------------------------------------------------
(* Ending a run from outside, and the switch. *)

\* abortRun, by a person.
AbortRun(h, r) ==
    /\ runs[r].status \in NonTerminal
    /\ Begin(h, [Idle EXCEPT !.op = "abort", !.at = "stop",
                             !.about = runs[r].about, !.run = r])
    /\ UNCHANGED <<rowVars, enabled, flips, stalled>>

\* The sweep finds a run that is parked for too long.
SweepRun(h, r) ==
    /\ runs[r].status = "awaiting_approval"
    /\ Begin(h, [Idle EXCEPT !.op = "expire", !.at = "stop",
                             !.about = runs[r].about, !.run = r])
    /\ UNCHANGED <<rowVars, enabled, flips, stalled>>

\* Mutant: the proposals of an expired run are left where they are.
StopRunOnly(h) ==
    /\ At(h, "stop")
    /\ SetStatus(job[h].run, IF job[h].op = "abort" THEN "aborted" ELSE "expired")
    /\ IF job[h].op = "abort" THEN Go(h, "tidy") ELSE Done(h)
    /\ UNCHANGED <<proposals, said, jobs, enabled, flips, stalled>>

\* abortRun and expireRun (of the sweep, or of resumeRun) write the status by id ...
StopRun(h) ==
    /\ At(h, "stop")
    /\ SetStatus(job[h].run, IF job[h].op = "abort" THEN "aborted" ELSE "expired")
    /\ Go(h, "tidy")
    /\ UNCHANGED <<proposals, said, jobs, enabled, flips, stalled>>

\* ... and then reject what is pending, in the name of nobody.
TidyProposals(h) ==
    /\ At(h, "tidy")
    /\ proposals' = [p \in DOMAIN proposals |->
                       IF p \in PendingOf(job[h].run)
                       THEN [proposals[p] EXCEPT !.status = "rejected"]
                       ELSE proposals[p]]
    /\ Done(h)
    /\ UNCHANGED <<runs, said, jobs, enabled, flips, stalled>>

\* hideRun: only what has ended.
HideRun(h, r) ==
    /\ runs[r].status \in Terminal /\ ~runs[r].hidden
    /\ Begin(h, [Idle EXCEPT !.op = "hide", !.at = "hide",
                             !.about = runs[r].about, !.run = r])
    /\ UNCHANGED <<rowVars, enabled, flips, stalled>>

SetHidden(h) ==
    /\ At(h, "hide")
    /\ runs' = [runs EXCEPT ![job[h].run].hidden = TRUE]
    /\ Done(h)
    /\ UNCHANGED <<proposals, said, jobs, enabled, flips, stalled>>

\* AgentKillSwitchService.set.
SetSwitch ==
    /\ flips < MaxFlips
    /\ enabled' = ~enabled
    /\ flips' = flips + 1
    /\ UNCHANGED <<rowVars, job, begun, stalled>>

\* Runs whose job a worker has.
Active == {job[h].run : h \in {g \in Handlers : Busy(g) /\ job[g].op = "work"}}

\* The process stops.  A job that was active comes back as stalled, once: BullMQ
\* fails a job that stalls again (maxStalledCount is left at 1).
Restart ==
    /\ \E h \in Handlers : Busy(h)
    /\ jobs' = jobs \cup (Active \ stalled)
    /\ stalled' = stalled \cup Active
    /\ job' = [h \in Handlers |-> Idle]
    /\ UNCHANGED <<runs, proposals, said, enabled, begun, flips>>

-----------------------------------------------------------------------------
RunStep(h) ==
    \/ \E q \in Requests : StartRun(h, q)
    \/ \E c \in Chats : AddTurn(h, c)
    \/ AssertNoOpenRun(h) \/ StartConversationRun(h) \/ ReadPrincipal(h)
    \/ CreateRun(h) \/ Enqueue(h)
    \/ \E r \in jobs : TakeJob(h, r)
    \/ LoadRun(h) \/ CheckSwitch(h) \/ ModelTurn(h)
    \/ PersistCompleted(h) \/ PersistProposal(h) \/ PersistAwaiting(h)
    \/ FailRun(h) \/ RecordAssistantTurn(h) \/ Catch(h)
    \/ \E r \in DOMAIN runs : AbortRun(h, r) \/ SweepRun(h, r) \/ HideRun(h, r)
    \/ StopRun(h) \/ TidyProposals(h) \/ SetHidden(h)
=============================================================================
