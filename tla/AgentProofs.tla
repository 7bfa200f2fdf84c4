---------------------------- MODULE AgentProofs ----------------------------
(***************************************************************************)
(* Proofs about AgentApproval, and with it AgentRun, for any sets of       *)
(* requests, conversations and handlers, and any bounds.                   *)
(***************************************************************************)
EXTENDS AgentApproval, FiniteSetTheorems, SequenceTheorems, TLAPS

-----------------------------------------------------------------------------
(* Types.  What a handler refers to has to be there, and where it stands has *)
(* to be a point that its operation passes.                                *)

TableTypes ==
    /\ enabled \in BOOLEAN
    /\ runs \in Seq(Run) /\ Len(runs) <= MaxRuns
    /\ proposals \in Seq(Proposal) /\ Len(proposals) <= MaxProposals
    /\ \A p \in DOMAIN proposals : proposals[p].run \in DOMAIN runs
    /\ said \in [Chats -> Seq({"person", "agent"})]
    /\ jobs \subseteq DOMAIN runs
    /\ begun \in 0 .. MaxJobs
    /\ flips \in 0 .. MaxFlips
    /\ stalled \subseteq DOMAIN runs

\* Before its run exists.
Early == {"idle", "gate", "open", "principal", "create"}

Decisions == {"approve", "reject"}

\* The operation of a handler passes the point where it is.
Placed(j) ==
    /\ j.at \in {"gate", "open", "principal", "create", "enqueue"} => j.op \in {"start", "ask"}
    /\ j.at \in {"load", "switch", "tell"} => j.op = "work"
    /\ j.at \in {"model", "propose", "park", "finish"} => j.op \in {"work"} \cup Decisions
    /\ j.at = "fail" => j.op \in {"start", "ask", "work"} \cup Decisions
    /\ j.at \in {"decide", "make", "botch", "mark"} => j.op = "approve"
    /\ j.at = "decided" => j.op = "reject"
    /\ j.at \in {"resume", "reload"} => j.op \in Decisions
    /\ j.at \in {"stop", "tidy"} => j.op \in {"abort", "expire"} \cup Decisions
    /\ j.at = "hide" => j.op = "hide"
    /\ j.at = "open" => j.op = "start"
    /\ j.at = "gate" => j.op = "ask"
    /\ j.at # "idle" /\ j.op = "start" => j.about \in Requests
    /\ j.op = "ask" => j.about \in Chats

Fits(h) ==
    /\ job[h] \in Job /\ Placed(job[h])
    /\ job[h].run \in 0 .. Len(runs) /\ job[h].prop \in 0 .. Len(proposals)
    /\ job[h].run = 0 <=> job[h].at \in Early
    /\ job[h].op \in Decisions => /\ job[h].prop # 0
                                  /\ proposals[job[h].prop].run = job[h].run
    /\ job[h].at \in {"make", "propose"} => job[h].left # 0

JobTypes == job \in [Handlers -> Job] /\ \A h \in Handlers : Fits(h)

HistoryTypes ==
    /\ contested \subseteq 1 .. MaxProposals
    /\ disturbed \subseteq 1 .. MaxRuns
    /\ stranded \subseteq 1 .. MaxRuns
    /\ untidied \subseteq 1 .. MaxRuns
    /\ startsMet \subseteq Requests
    /\ late \subseteq Handlers

Typed == TableTypes /\ JobTypes /\ HistoryTypes

LEMMA TypedIsTypeOK == Typed => TypeOK
BY DEF Typed, TableTypes, JobTypes, HistoryTypes, TypeOK, AgentTypeOK

\* Rows have their types, and their numbers are within the bounds.
LEMMA RowTypes ==
    ASSUME TableTypes
    PROVE  /\ Len(runs) \in Nat /\ DOMAIN runs = 1 .. Len(runs)
           /\ Len(proposals) \in Nat /\ DOMAIN proposals = 1 .. Len(proposals)
           /\ MaxRuns \in Nat /\ MaxProposals \in Nat
           /\ \A r \in DOMAIN runs : runs[r] \in Run /\ r \in 1 .. MaxRuns
           /\ \A p \in DOMAIN proposals : proposals[p] \in Proposal /\ p \in 1 .. MaxProposals
<1>1. MaxRuns \in Nat /\ MaxProposals \in Nat
  BY AgentAssumption
<1>2. /\ Len(runs) \in Nat /\ DOMAIN runs = 1 .. Len(runs)
      /\ Len(proposals) \in Nat /\ DOMAIN proposals = 1 .. Len(proposals)
      /\ Len(runs) <= MaxRuns /\ Len(proposals) <= MaxProposals
  BY LenProperties DEF TableTypes
<1>3. /\ \A r \in 1 .. Len(runs) : runs[r] \in Run
      /\ \A p \in 1 .. Len(proposals) : proposals[p] \in Proposal
  BY ElementOfSeq DEF TableTypes
<1> QED BY <1>1, <1>2, <1>3

\* A handler that has nothing to do.
LEMMA IdleFields ==
    /\ Idle.op = "start" /\ Idle.at = "idle" /\ Idle.run = 0 /\ Idle.prop = 0
    /\ Idle.left = 0 /\ Idle.ok = FALSE /\ Idle.new = {}
BY DEF Idle

LEMMA IdleType == Idle \in Job
BY AgentAssumption DEF Idle, Job, Ops, Points

\* The tables after a step hold what they held.
Grow ==
    /\ runs' \in Seq(Run) /\ Len(runs) <= Len(runs') /\ Len(runs') <= MaxRuns
    /\ proposals' \in Seq(Proposal) /\ Len(proposals) <= Len(proposals')
    /\ Len(proposals') <= MaxProposals
    /\ \A p \in DOMAIN proposals : proposals'[p].run = proposals[p].run

\* Who does not move fits on.
LEMMA StaysFitting ==
    ASSUME TableTypes, Grow, NEW g \in Handlers, Fits(g), job'[g] = job[g]
    PROVE  Fits(g)'
<1>1. /\ Len(runs) \in Nat /\ Len(runs') \in Nat
      /\ Len(proposals) \in Nat /\ Len(proposals') \in Nat
      /\ DOMAIN proposals = 1 .. Len(proposals)
  BY RowTypes, LenProperties DEF Grow
<1> QED BY <1>1 DEF Fits, Grow

\* What a handler does next.
LEMMA JobNext ==
    ASSUME job \in [Handlers -> Job], NEW h \in Handlers
    PROVE  /\ \A w : Go(h, w) => \A g \in Handlers :
                 job'[g] = IF g = h THEN [job[h] EXCEPT !.at = w] ELSE job[g]
           /\ Done(h) => \A g \in Handlers : job'[g] = IF g = h THEN Idle ELSE job[g]
           /\ \A work : Begin(h, work) =>
                 /\ job[h].at = "idle"
                 /\ \A g \in Handlers : job'[g] = IF g = h THEN work ELSE job[g]
<1> HIDE DEF Idle
<1> QED BY DEF Go, Done, Begin, Busy, At

\* Only h moves.
Alone(h) == \A g \in Handlers \ {h} : job'[g] = job[g]

LEMMA MovesAlone ==
    ASSUME job \in [Handlers -> Job], NEW h \in Handlers,
           RunStep(h) \/ DecisionStep(h) \/ Throw(h)
    PROVE  Alone(h)
<1> HIDE DEF Idle
<1>1. \A w : Go(h, w) => Alone(h)
  BY JobNext DEF Alone
<1>2. Done(h) => Alone(h)
  BY JobNext DEF Alone
<1>3. \A work : Begin(h, work) => Alone(h)
  BY JobNext DEF Alone
<1>4. \A work : job' = [job EXCEPT ![h] = work] => Alone(h)
  BY DEF Alone
<1>5. CASE \/ \E q \in Requests : StartRun(h, q)
           \/ \E c \in Chats : AddTurn(h, c)
           \/ \E r \in jobs : TakeJob(h, r)
           \/ \E r \in DOMAIN runs : AbortRun(h, r) \/ SweepRun(h, r) \/ HideRun(h, r)
           \/ \E p \in DOMAIN proposals : Approve(h, p) \/ Reject(h, p)
  BY <1>3, <1>5 DEF StartRun, AddTurn, TakeJob, AbortRun, SweepRun, HideRun, Approve, Reject
<1>6. CASE AssertNoOpenRun(h) \/ StartConversationRun(h) \/ ReadPrincipal(h) \/ Enqueue(h)
  BY <1>1, <1>2, <1>6 DEF AssertNoOpenRun, StartConversationRun, ReadPrincipal, Enqueue
<1>7. CASE LoadRun(h) \/ CheckSwitch(h) \/ StopRun(h) \/ TidyProposals(h) \/ SetHidden(h)
           \/ RecordAssistantTurn(h)
  BY <1>1, <1>2, <1>7 DEF LoadRun, CheckSwitch, StopRun, TidyProposals, SetHidden,
                          RecordAssistantTurn
<1>8. CASE MarkBroken(h) \/ MarkDone(h) \/ MarkRejected(h) \/ AskToResume(h) \/ ReloadRun(h)
  BY <1>1, <1>2, <1>8 DEF MarkBroken, MarkDone, MarkRejected, AskToResume, ReloadRun
<1>9. CASE CreateRun(h)
  BY <1>2, <1>9 DEF CreateRun, Alone
<1>10. CASE ModelTurn(h)
  BY <1>1, <1>10 DEF ModelTurn, Alone
<1>11. CASE PersistCompleted(h) \/ PersistAwaiting(h) \/ FailRun(h)
  BY <1>2, <1>11 DEF PersistCompleted, PersistAwaiting, FailRun, EndStretch, Alone
<1>12. CASE PersistProposal(h)
  BY <1>1, <1>12 DEF PersistProposal, Alone
<1>13. CASE LoadDecidable(h)
  BY <1>2, <1>13 DEF LoadDecidable, Alone
<1>14. CASE CreateLineItem(h)
  BY <1>1, <1>14 DEF CreateLineItem, Alone
<1>15. CASE AssignLine(h)
  BY <1>2, <1>15 DEF AssignLine, Alone
<1>16. CASE Throw(h) \/ Catch(h)
  BY <1>1, <1>2, <1>16 DEF Throw, Catch, EndStretch, Alone
<1> QED BY <1>5, <1>6, <1>7, <1>8, <1>9, <1>10, <1>11, <1>12, <1>13, <1>14, <1>15, <1>16
        DEF RunStep, DecisionStep

\* The handler's next job, in the three ways a step leaves it.
LEMMA DoneFits ==
    ASSUME TableTypes, Grow, NEW h \in Handlers, job'[h] = Idle
    PROVE  Fits(h)'
<1>1. Idle \in Job /\ Len(runs') \in Nat /\ Len(proposals') \in Nat
  BY IdleType, LenProperties DEF Grow
<1>2. job'[h].op = "start" /\ job'[h].at = "idle" /\ job'[h].run = 0 /\ job'[h].prop = 0
  BY IdleFields
<1> HIDE DEF Idle
<1> QED BY <1>1, <1>2 DEF Fits, Placed, Early, Decisions

LEMMA GoFits ==
    ASSUME TableTypes, Grow, NEW h \in Handlers, Fits(h), NEW w \in Points \ {"make", "propose"},
           job'[h] = [job[h] EXCEPT !.at = w], w \in Early <=> job[h].at \in Early,
           Placed([job[h] EXCEPT !.at = w])
    PROVE  Fits(h)'
<1>1. /\ Len(runs) \in Nat /\ Len(runs') \in Nat
      /\ Len(proposals) \in Nat /\ Len(proposals') \in Nat
      /\ DOMAIN proposals = 1 .. Len(proposals)
  BY RowTypes, LenProperties DEF Grow
<1>2. /\ job'[h] \in Job /\ job'[h].run = job[h].run /\ job'[h].prop = job[h].prop
      /\ job'[h].op = job[h].op /\ job'[h].at = w
  BY DEF Fits, Job
<1> QED BY <1>1, <1>2 DEF Fits, Grow

LEMMA BeginFits ==
    ASSUME TableTypes, Grow, NEW h \in Handlers, NEW work \in Job, job'[h] = work,
           Placed(work), work.run \in 0 .. Len(runs), work.prop \in 0 .. Len(proposals),
           work.run = 0 <=> work.at \in Early,
           work.op \in Decisions => work.prop # 0 /\ proposals[work.prop].run = work.run,
           work.at \notin {"make", "propose"}
    PROVE  Fits(h)'
<1>1. /\ Len(runs) \in Nat /\ Len(runs') \in Nat
      /\ Len(proposals) \in Nat /\ Len(proposals') \in Nat
      /\ DOMAIN proposals = 1 .. Len(proposals)
  BY RowTypes, LenProperties DEF Grow
<1> QED BY <1>1 DEF Fits, Grow

\* What is left of a step when the handler that takes it fits afterwards.
LEMMA StepFits ==
    ASSUME Typed, Grow, NEW h \in Handlers, Alone(h), Fits(h)',
           \E work \in Job : job' = [job EXCEPT ![h] = work],
           begun' \in 0 .. MaxJobs, UNCHANGED <<enabled, flips, stalled>>,
           \A p \in DOMAIN proposals' : proposals'[p].run \in DOMAIN runs',
           said' \in [Chats -> Seq({"person", "agent"})], jobs' \subseteq DOMAIN runs'
    PROVE  TableTypes' /\ JobTypes'
<1>1. job' \in [Handlers -> Job]
  BY DEF Typed, JobTypes
<1>2. \A g \in Handlers : Fits(g)'
  BY StaysFitting DEF Typed, JobTypes, Alone
<1>3. stalled' \subseteq DOMAIN runs'
  BY RowTypes, LenProperties DEF Typed, TableTypes, Grow
<1> QED BY <1>1, <1>2, <1>3 DEF Typed, TableTypes, JobTypes, Grow

\* Steps that leave the tables alone.
LEMMA TablesStay ==
    ASSUME Typed, UNCHANGED <<runs, proposals>>
    PROVE  /\ Grow /\ \A p \in DOMAIN proposals' : proposals'[p].run \in DOMAIN runs'
BY RowTypes DEF Typed, TableTypes, Grow

\* A handler that begins.
LEMMA BeginTypes ==
    ASSUME Typed, NEW h \in Handlers,
           \/ \E q \in Requests : StartRun(h, q)
           \/ \E c \in Chats : AddTurn(h, c)
           \/ \E r \in jobs : TakeJob(h, r)
           \/ \E r \in DOMAIN runs : AbortRun(h, r) \/ SweepRun(h, r) \/ HideRun(h, r)
           \/ \E p \in DOMAIN proposals : Approve(h, p) \/ Reject(h, p)
    PROVE  TableTypes' /\ JobTypes'
<1>0. /\ TableTypes /\ job \in [Handlers -> Job] /\ Idle \in Job /\ Alone(h)
      /\ Len(runs) \in Nat /\ DOMAIN runs = 1 .. Len(runs)
      /\ Len(proposals) \in Nat /\ DOMAIN proposals = 1 .. Len(proposals)
  BY IdleType, RowTypes, MovesAlone DEF Typed, JobTypes, RunStep, DecisionStep
<1> HIDE DEF Idle
<1>1. ASSUME NEW work \in Job, Begin(h, work), UNCHANGED <<runs, proposals, enabled, flips, stalled>>,
             Placed(work), work.run \in 0 .. Len(runs), work.prop \in 0 .. Len(proposals),
             work.run = 0 <=> work.at \in Early,
             work.op \in Decisions => work.prop # 0 /\ proposals[work.prop].run = work.run,
             work.at \notin {"make", "propose"},
             said' \in [Chats -> Seq({"person", "agent"})], jobs' \subseteq jobs
      PROVE  TableTypes' /\ JobTypes'
  <2>1. Grow /\ \A p \in DOMAIN proposals' : proposals'[p].run \in DOMAIN runs'
    BY <1>1, TablesStay
  <2>2. job'[h] = work
    BY <1>0, <1>1, JobNext
  <2>3. Fits(h)'
    BY <1>0, <1>1, <2>1, <2>2, BeginFits
  <2>4. job' = [job EXCEPT ![h] = work] /\ begun' \in 0 .. MaxJobs
    BY <1>1, AgentAssumption DEF Begin, Typed, TableTypes
  <2>5. jobs' \subseteq DOMAIN runs'
    BY <1>0, <1>1 DEF TableTypes
  <2> QED BY <1>0, <1>1, <2>1, <2>3, <2>4, <2>5, StepFits
<1>2. ASSUME NEW q \in Requests, StartRun(h, q) PROVE TableTypes' /\ JobTypes'
  <2> DEFINE work == [Idle EXCEPT !.op = "start", !.at = "open", !.about = q]
  <2>1. /\ work \in Job /\ work.op = "start" /\ work.at = "open" /\ work.about = q
        /\ work.run = 0 /\ work.prop = 0
    BY <1>0, IdleFields DEF Job, Ops, Points, Topics
  <2>2. Begin(h, work) /\ UNCHANGED <<rowVars, enabled, flips, stalled>>
    BY <1>2 DEF StartRun
  <2>3. said' \in [Chats -> Seq({"person", "agent"})] /\ jobs' \subseteq jobs
    BY <1>0, <2>2 DEF TableTypes, rowVars
  <2> HIDE DEF work
  <2>4. Placed(work)
    BY <2>1 DEF Placed
  <2>5. /\ work.run \in 0 .. Len(runs) /\ work.prop \in 0 .. Len(proposals)
        /\ work.at \in Early /\ work.op \notin Decisions
        /\ work.at \notin {"make", "propose"}
    BY <1>0, <2>1 DEF Early, Decisions
  <2> QED BY <1>1, <2>1, <2>2, <2>3, <2>4, <2>5 DEF rowVars
<1>3. ASSUME NEW c \in Chats, AddTurn(h, c) PROVE TableTypes' /\ JobTypes'
  <2> DEFINE work == [Idle EXCEPT !.op = "ask", !.at = "gate", !.about = c]
  <2>1. /\ work \in Job /\ work.op = "ask" /\ work.at = "gate" /\ work.about = c
        /\ work.run = 0 /\ work.prop = 0
    BY <1>0, IdleFields DEF Job, Ops, Points, Topics
  <2>2. Begin(h, work) /\ UNCHANGED <<runs, proposals, jobs, enabled, flips, stalled>>
    BY <1>3 DEF AddTurn
  <2>3. said' \in [Chats -> Seq({"person", "agent"})] /\ jobs' \subseteq jobs
    <3>1. said[c] \in Seq({"person", "agent"})
      BY <1>0 DEF TableTypes
    <3>2. Append(said[c], "person") \in Seq({"person", "agent"})
      BY <3>1, AppendProperties
    <3> QED BY <1>0, <1>3, <3>2 DEF TableTypes, AddTurn
  <2> HIDE DEF work
  <2>4. Placed(work)
    BY <2>1 DEF Placed
  <2>5. /\ work.run \in 0 .. Len(runs) /\ work.prop \in 0 .. Len(proposals)
        /\ work.at \in Early /\ work.op \notin Decisions
        /\ work.at \notin {"make", "propose"}
    BY <1>0, <2>1 DEF Early, Decisions
  <2> QED BY <1>1, <2>1, <2>2, <2>3, <2>4, <2>5
<1>4. ASSUME NEW r \in DOMAIN runs, NEW op \in {"work", "abort", "expire", "hide"},
             NEW at \in {"load", "stop", "hide"},
             op = "work" <=> at = "load", op = "hide" <=> at = "hide",
             Begin(h, [Idle EXCEPT !.op = op, !.at = at, !.about = runs[r].about, !.run = r]),
             UNCHANGED <<runs, proposals, enabled, flips, stalled, said>>, jobs' \subseteq jobs
      PROVE  TableTypes' /\ JobTypes'
  <2> DEFINE work == [Idle EXCEPT !.op = op, !.at = at, !.about = runs[r].about, !.run = r]
  <2>1. runs[r].about \in Topics /\ r \in 1 .. Len(runs) /\ r \in 0 .. MaxRuns
    BY <1>0, RowTypes DEF Run
  <2>2. /\ work \in Job /\ work.op = op /\ work.at = at /\ work.run = r /\ work.prop = 0
    BY <1>0, <2>1, IdleFields DEF Job, Ops, Points
  <2>3. Begin(h, work)
    BY <1>4
  <2>4. said' \in [Chats -> Seq({"person", "agent"})]
    BY <1>0, <1>4 DEF TableTypes
  <2> HIDE DEF work
  <2>5. Placed(work)
    BY <1>4, <2>2 DEF Placed
  <2>6. /\ work.run \in 0 .. Len(runs) /\ work.prop \in 0 .. Len(proposals)
        /\ work.run # 0 /\ work.at \notin Early /\ work.op \notin Decisions
        /\ work.at \notin {"make", "propose"}
    BY <1>0, <1>4, <2>1, <2>2 DEF Early, Decisions
  <2> QED BY <1>1, <1>4, <2>2, <2>3, <2>4, <2>5, <2>6
<1>5. ASSUME NEW r \in jobs, TakeJob(h, r) PROVE TableTypes' /\ JobTypes'
  <2>1. r \in DOMAIN runs
    BY <1>0 DEF TableTypes
  <2> QED BY <1>4, <1>5, <2>1 DEF TakeJob
<1>6. ASSUME NEW r \in DOMAIN runs, AbortRun(h, r) \/ SweepRun(h, r) \/ HideRun(h, r)
      PROVE  TableTypes' /\ JobTypes'
  BY <1>4, <1>6 DEF AbortRun, SweepRun, HideRun, rowVars
<1>7. ASSUME NEW p \in DOMAIN proposals, NEW verdict \in Decisions, NEW at \in {"decide", "decided"},
             at = "decide" <=> verdict = "approve", Begin(h, Deciding(p, verdict, at)),
             UNCHANGED <<rowVars, enabled, flips, stalled>>
      PROVE  TableTypes' /\ JobTypes'
  <2> DEFINE work == Deciding(p, verdict, at)
  <2>1. /\ proposals[p].run \in 1 .. Len(runs) /\ p \in 1 .. Len(proposals)
        /\ p \in 0 .. MaxProposals /\ proposals[p].run \in 0 .. MaxRuns
        /\ runs[proposals[p].run].about \in Topics
    BY <1>0, RowTypes DEF Run, TableTypes
  <2>2. /\ work \in Job /\ work.op = verdict /\ work.at = at /\ work.prop = p
        /\ work.run = proposals[p].run
    BY <1>0, <2>1, IdleFields DEF Deciding, Job, Ops, Points, Decisions
  <2>3. Begin(h, work)
    BY <1>7
  <2>4. said' \in [Chats -> Seq({"person", "agent"})] /\ jobs' \subseteq jobs
    BY <1>0, <1>7 DEF TableTypes, rowVars
  <2> HIDE DEF work
  <2>5. Placed(work)
    BY <1>7, <2>2 DEF Placed, Decisions
  <2>6. /\ work.run \in 0 .. Len(runs) /\ work.prop \in 0 .. Len(proposals)
        /\ work.run # 0 /\ work.prop # 0 /\ work.at \notin Early
        /\ work.at \notin {"make", "propose"}
        /\ proposals[work.prop].run = work.run
    BY <1>0, <1>7, <2>1, <2>2 DEF Early
  <2> QED BY <1>1, <1>7, <2>2, <2>3, <2>4, <2>5, <2>6 DEF rowVars
<1>8. ASSUME NEW p \in DOMAIN proposals, Approve(h, p) \/ Reject(h, p)
      PROVE  TableTypes' /\ JobTypes'
  BY <1>7, <1>8 DEF Approve, Reject, Decisions
<1> QED BY <1>2, <1>3, <1>5, <1>6, <1>8

\* Replacing a row.
LEMMA RowReplaced ==
    ASSUME NEW S, NEW s \in Seq(S), NEW i \in DOMAIN s, NEW e \in S
    PROVE  /\ [s EXCEPT ![i] = e] \in Seq(S) /\ Len([s EXCEPT ![i] = e]) = Len(s)
           /\ DOMAIN [s EXCEPT ![i] = e] = DOMAIN s
           /\ \A j \in DOMAIN s : [s EXCEPT ![i] = e][j] = IF j = i THEN e ELSE s[j]
<1>1. i \in 1 .. Len(s) /\ DOMAIN s = 1 .. Len(s)
  BY LenProperties
<1>2. /\ [s EXCEPT ![i] = e] \in Seq(S) /\ Len([s EXCEPT ![i] = e]) = Len(s)
      /\ \A j \in 1 .. Len(s) : [s EXCEPT ![i] = e][j] = IF j = i THEN e ELSE s[j]
  BY <1>1, ExceptSeq
<1>3. DOMAIN [s EXCEPT ![i] = e] = DOMAIN s
  OBVIOUS
<1> QED BY <1>1, <1>2, <1>3

\* A run that is rewritten, and a proposal that keeps its run.
LEMMA RunRewritten ==
    ASSUME TableTypes, NEW r \in DOMAIN runs, NEW row \in Run,
           runs' = [runs EXCEPT ![r] = row], proposals' = proposals
    PROVE  /\ Grow /\ DOMAIN runs' = DOMAIN runs
           /\ \A s \in DOMAIN runs : runs'[s] = IF s = r THEN row ELSE runs[s]
           /\ \A p \in DOMAIN proposals' : proposals'[p].run \in DOMAIN runs'
<1>1. /\ runs' \in Seq(Run) /\ Len(runs') = Len(runs) /\ DOMAIN runs' = DOMAIN runs
      /\ \A s \in DOMAIN runs : runs'[s] = IF s = r THEN row ELSE runs[s]
  BY RowReplaced DEF TableTypes
<1> QED BY <1>1, RowTypes DEF TableTypes, Grow

LEMMA ProposalRewritten ==
    ASSUME TableTypes, NEW p \in DOMAIN proposals, NEW row \in Proposal,
           row.run = proposals[p].run,
           proposals' = [proposals EXCEPT ![p] = row], runs' = runs
    PROVE  /\ Grow /\ DOMAIN proposals' = DOMAIN proposals
           /\ \A s \in DOMAIN proposals : proposals'[s] = IF s = p THEN row ELSE proposals[s]
           /\ \A s \in DOMAIN proposals' : proposals'[s].run \in DOMAIN runs'
<1>1. /\ proposals' \in Seq(Proposal) /\ Len(proposals') = Len(proposals)
      /\ DOMAIN proposals' = DOMAIN proposals
      /\ \A s \in DOMAIN proposals : proposals'[s] = IF s = p THEN row ELSE proposals[s]
  BY RowReplaced DEF TableTypes
<1> QED BY <1>1, RowTypes DEF TableTypes, Grow

\* A status that is written to a run.
LEMMA StatusWritten ==
    ASSUME TableTypes, NEW r \in DOMAIN runs, NEW status \in NonTerminal \cup Terminal,
           NEW saved \in SUBSET (1 .. MaxProposals), NEW hidden \in BOOLEAN
    PROVE  /\ [runs[r] EXCEPT !.status = status, !.saved = saved] \in Run
           /\ [runs[r] EXCEPT !.status = status] \in Run
           /\ [runs[r] EXCEPT !.hidden = hidden] \in Run
BY RowTypes DEF Run

\* A verdict that is marked on a proposal.
LEMMA MarkWritten ==
    ASSUME TableTypes, NEW p \in DOMAIN proposals,
           NEW status \in {"executed", "failed", "rejected"}, NEW verdict \in Decisions,
           Mark(p, status, verdict), runs' = runs
    PROVE  /\ Grow /\ DOMAIN proposals' = DOMAIN proposals
           /\ \A s \in DOMAIN proposals : s # p => proposals'[s] = proposals[s]
           /\ proposals'[p].status = status /\ proposals'[p].by = verdict
           /\ proposals'[p].made = proposals[p].made /\ proposals'[p].kind = proposals[p].kind
           /\ \A s \in DOMAIN proposals' : proposals'[s].run \in DOMAIN runs'
<1> DEFINE row == [proposals[p] EXCEPT !.status = status, !.by = verdict, !.decided = TRUE]
<1>1. /\ row \in Proposal /\ row.run = proposals[p].run /\ row.status = status
      /\ row.by = verdict /\ row.made = proposals[p].made /\ row.kind = proposals[p].kind
  BY RowTypes DEF Proposal, Decisions
<1>2. proposals' = [proposals EXCEPT ![p] = row]
  BY DEF Mark
<1> HIDE DEF row
<1> QED BY <1>1, <1>2, ProposalRewritten

\* Where a handler goes on to, or it stops.
LEMMA MoveTypes ==
    ASSUME Typed, NEW h \in Handlers, Alone(h), Grow, NEW w \in Points \ {"make", "propose"},
           Go(h, w) \/ Done(h), w \in Early <=> job[h].at \in Early,
           job[h].at # "idle", Placed([job[h] EXCEPT !.at = w]),
           UNCHANGED <<enabled, flips, stalled>>,
           \A p \in DOMAIN proposals' : proposals'[p].run \in DOMAIN runs',
           said' \in [Chats -> Seq({"person", "agent"})], jobs' \subseteq DOMAIN runs'
    PROVE  TableTypes' /\ JobTypes'
<1>0. /\ TableTypes /\ job \in [Handlers -> Job] /\ Idle \in Job /\ Fits(h) /\ job[h] \in Job
      /\ begun' \in 0 .. MaxJobs
  BY IdleType DEF Typed, JobTypes, TableTypes, Go, Done
<1> HIDE DEF Idle
<1>1. CASE Go(h, w)
  <2>1. job'[h] = [job[h] EXCEPT !.at = w]
    BY <1>0, <1>1, JobNext
  <2>2. Fits(h)'
    BY <1>0, <2>1, GoFits
  <2>3. job' = [job EXCEPT ![h] = [job[h] EXCEPT !.at = w]]
    BY <1>1 DEF Go
  <2>4. [job[h] EXCEPT !.at = w] \in Job
    BY <1>0 DEF Job
  <2> QED BY <1>0, <2>2, <2>3, <2>4, StepFits
<1>2. CASE Done(h)
  <2>1. job'[h] = Idle
    BY <1>0, <1>2, JobNext
  <2>2. Fits(h)'
    BY <1>0, <2>1, DoneFits
  <2>3. job' = [job EXCEPT ![h] = Idle]
    BY <1>2 DEF Done
  <2> QED BY <1>0, <2>2, <2>3, StepFits
<1> QED BY <1>1, <1>2

\* Steps that only move the handler.
LEMMA QuietTypes ==
    ASSUME Typed, NEW h \in Handlers,
           \/ AssertNoOpenRun(h) \/ StartConversationRun(h) \/ ReadPrincipal(h)
           \/ LoadRun(h) \/ CheckSwitch(h) \/ AskToResume(h) \/ ReloadRun(h) \/ Catch(h)
    PROVE  TableTypes' /\ JobTypes'
<1>0. Alone(h) /\ job[h] \in Job /\ Fits(h) /\ TableTypes
  BY MovesAlone DEF Typed, JobTypes, RunStep, DecisionStep
<1>1. UNCHANGED <<rowVars, enabled, flips, stalled>>
  BY DEF AssertNoOpenRun, StartConversationRun, ReadPrincipal, LoadRun, CheckSwitch,
         AskToResume, ReloadRun, Catch
<1>2. /\ Grow /\ \A p \in DOMAIN proposals' : proposals'[p].run \in DOMAIN runs'
      /\ said' \in [Chats -> Seq({"person", "agent"})] /\ jobs' \subseteq DOMAIN runs'
  BY <1>0, <1>1, TablesStay DEF rowVars, TableTypes
<1>3. ASSUME NEW w \in Points \ {"make", "propose"}, Go(h, w) \/ Done(h), job[h].at # "idle",
             w \in Early <=> job[h].at \in Early, Placed([job[h] EXCEPT !.at = w])
      PROVE  TableTypes' /\ JobTypes'
  BY <1>0, <1>1, <1>2, <1>3, MoveTypes
<1>4. CASE AssertNoOpenRun(h) \/ StartConversationRun(h)
  <2>1. (Go(h, "principal") \/ Done(h)) /\ job[h].at \in {"open", "gate"}
    BY <1>4 DEF AssertNoOpenRun, StartConversationRun, At
  <2>2. Placed([job[h] EXCEPT !.at = "principal"])
    BY <1>0, <1>4 DEF Fits, Placed, Job, AssertNoOpenRun, StartConversationRun, At
  <2> QED BY <1>3, <1>4, <2>1, <2>2 DEF Early, Points, AssertNoOpenRun, StartConversationRun, At
<1>5. CASE ReadPrincipal(h)
  <2>1. Go(h, "create") \/ Done(h)
    BY <1>5 DEF ReadPrincipal
  <2>2. Placed([job[h] EXCEPT !.at = "create"])
    BY <1>0, <1>5 DEF Fits, Placed, Job, ReadPrincipal, At
  <2> QED BY <1>3, <1>5, <2>1, <2>2 DEF Early, Points, ReadPrincipal, At
<1>6. CASE LoadRun(h)
  <2>1. Go(h, "switch") \/ Go(h, "tell")
    BY <1>6 DEF LoadRun
  <2>2. Placed([job[h] EXCEPT !.at = "switch"]) /\ Placed([job[h] EXCEPT !.at = "tell"])
    BY <1>0, <1>6 DEF Fits, Placed, Job, LoadRun, At
  <2> QED BY <1>3, <1>6, <2>1, <2>2 DEF Early, Points, LoadRun, At
<1>7. CASE CheckSwitch(h)
  <2>1. Go(h, "model") \/ Go(h, "fail")
    BY <1>7 DEF CheckSwitch
  <2>2. Placed([job[h] EXCEPT !.at = "model"]) /\ Placed([job[h] EXCEPT !.at = "fail"])
    BY <1>0, <1>7 DEF Fits, Placed, Job, CheckSwitch, At
  <2> QED BY <1>3, <1>7, <2>1, <2>2 DEF Early, Points, CheckSwitch, At
<1>8. CASE AskToResume(h)
  <2>1. Go(h, "reload") \/ Done(h)
    BY <1>8 DEF AskToResume
  <2>2. Placed([job[h] EXCEPT !.at = "reload"])
    BY <1>0, <1>8 DEF Fits, Placed, Job, AskToResume, At
  <2> QED BY <1>3, <1>8, <2>1, <2>2 DEF Early, Points, AskToResume, At
<1>9. CASE ReloadRun(h)
  <2>1. Go(h, "model") \/ Go(h, "fail") \/ Go(h, "stop") \/ Done(h)
    BY <1>9 DEF ReloadRun
  <2>2. /\ Placed([job[h] EXCEPT !.at = "model"]) /\ Placed([job[h] EXCEPT !.at = "fail"])
        /\ Placed([job[h] EXCEPT !.at = "stop"])
    BY <1>0, <1>9 DEF Fits, Placed, Job, ReloadRun, At, Decisions
  <2> QED BY <1>3, <1>9, <2>1, <2>2 DEF Early, Points, ReloadRun, At
<1>10. CASE Catch(h)
  <2>1. Go(h, "fail") /\ job[h].at \in {"switch", "finish", "park"}
    BY <1>10 DEF Catch
  <2>2. Placed([job[h] EXCEPT !.at = "fail"])
    BY <1>0, <2>1 DEF Fits, Placed, Job
  <2> QED BY <1>3, <2>1, <2>2 DEF Early, Points
<1> QED BY <1>4, <1>5, <1>6, <1>7, <1>8, <1>9, <1>10

\* A step that gives the handler a job of its own making.
LEMMA WorkTypes ==
    ASSUME Typed, NEW h \in Handlers, Alone(h), Grow, NEW work \in Job,
           job' = [job EXCEPT ![h] = work], UNCHANGED begun, Fits(h)',
           UNCHANGED <<enabled, flips, stalled>>,
           \A p \in DOMAIN proposals' : proposals'[p].run \in DOMAIN runs',
           said' \in [Chats -> Seq({"person", "agent"})], jobs' \subseteq DOMAIN runs'
    PROVE  TableTypes' /\ JobTypes'
BY StepFits DEF Typed, TableTypes

\* The end of a stretch.
LEMMA EndTypes ==
    ASSUME Typed, NEW h \in Handlers, Alone(h), Grow, NEW spoke \in BOOLEAN, EndStretch(h, spoke),
           job[h].at \in {"load", "finish", "park", "fail"}, UNCHANGED <<enabled, flips, stalled, said, jobs>>,
           \A p \in DOMAIN proposals' : proposals'[p].run \in DOMAIN runs'
    PROVE  TableTypes' /\ JobTypes'
<1>0. /\ TableTypes /\ job \in [Handlers -> Job] /\ Idle \in Job /\ Fits(h) /\ job[h] \in Job
  BY IdleType DEF Typed, JobTypes
<1>1. /\ said' \in [Chats -> Seq({"person", "agent"})] /\ jobs' \subseteq DOMAIN runs'
  BY <1>0, RowTypes, LenProperties DEF TableTypes, Grow
<1>2. CASE job[h].op = "work"
  <2> DEFINE work == [job[h] EXCEPT !.at = "tell", !.ok = spoke]
  <2>1. /\ work \in Job /\ work.at = "tell" /\ work.op = "work" /\ work.run = job[h].run
        /\ work.prop = job[h].prop
    BY <1>0, <1>2 DEF Job, Points
  <2>2. job' = [job EXCEPT ![h] = work] /\ UNCHANGED begun
    BY <1>2 DEF EndStretch
  <2> HIDE DEF work
  <2>3. job'[h] = work
    BY <1>0, <2>2
  <2>4. work.run \in 0 .. Len(runs) /\ work.prop \in 0 .. Len(proposals) /\ work.run # 0
    BY <1>0, <2>1 DEF Fits, Early
  <2>5. Fits(h)'
    BY <1>0, <2>1, <2>3, <2>4, BeginFits DEF Placed, Early, Decisions
  <2> QED BY <1>1, <2>1, <2>2, <2>5, WorkTypes
<1>3. CASE job[h].op # "work"
  <2>1. Done(h)
    BY <1>3 DEF EndStretch
  <2>2. job'[h] = Idle /\ job' = [job EXCEPT ![h] = Idle] /\ UNCHANGED begun
    BY <1>0, <2>1, JobNext DEF Done
  <2> HIDE DEF Idle
  <2>3. Fits(h)'
    BY <1>0, <2>2, DoneFits
  <2> QED BY <1>0, <1>1, <2>2, <2>3, WorkTypes
<1> QED BY <1>2, <1>3

\* A handler that a statement throws out of what it does.
LEMMA ThrowTypes ==
    ASSUME Typed, NEW h \in Handlers, Throw(h)
    PROVE  TableTypes' /\ JobTypes'
<1>0. /\ TableTypes /\ job \in [Handlers -> Job] /\ Idle \in Job /\ Alone(h)
      /\ UNCHANGED <<rowVars, enabled, flips, stalled>>
  BY IdleType, MovesAlone DEF Typed, JobTypes, Throw
<1>1. /\ Grow /\ \A p \in DOMAIN proposals' : proposals'[p].run \in DOMAIN runs'
      /\ said' \in [Chats -> Seq({"person", "agent"})] /\ jobs' \subseteq DOMAIN runs'
  BY <1>0, TablesStay DEF rowVars, TableTypes
<1>2. CASE job[h].at \in {"load", "fail"} /\ EndStretch(h, FALSE)
  BY <1>0, <1>1, <1>2, EndTypes DEF rowVars
<1>3. CASE Done(h)
  <2>1. job'[h] = Idle /\ job' = [job EXCEPT ![h] = Idle] /\ UNCHANGED begun
    BY <1>0, <1>3, JobNext DEF Done
  <2> HIDE DEF Idle
  <2>2. Fits(h)'
    BY <1>0, <1>1, <2>1, DoneFits
  <2> QED BY <1>0, <1>1, <2>1, <2>2, WorkTypes
<1> QED BY <1>2, <1>3 DEF Throw

\* Creating a run, and what changes runs.
LEMMA RunTypes ==
    ASSUME Typed, NEW h \in Handlers,
           \/ CreateRun(h) \/ Enqueue(h) \/ PersistCompleted(h) \/ PersistAwaiting(h)
           \/ FailRun(h) \/ StopRun(h) \/ SetHidden(h) \/ RecordAssistantTurn(h)
    PROVE  TableTypes' /\ JobTypes'
<1>0. /\ TableTypes /\ job \in [Handlers -> Job] /\ Idle \in Job /\ Fits(h) /\ job[h] \in Job
      /\ Alone(h)
      /\ Len(runs) \in Nat /\ DOMAIN runs = 1 .. Len(runs)
      /\ Len(proposals) \in Nat /\ DOMAIN proposals = 1 .. Len(proposals)
  BY IdleType, RowTypes, MovesAlone DEF Typed, JobTypes, RunStep
<1> HIDE DEF Idle
<1>a. job[h].at \notin Early => job[h].run \in DOMAIN runs
  BY <1>0 DEF Fits
<1>1. CASE CreateRun(h)
  <2> DEFINE new == [about |-> job[h].about, status |-> "running", saved |-> {}, hidden |-> FALSE]
             work == [job[h] EXCEPT !.at = "enqueue", !.run = Len(runs) + 1]
  <2>0. job[h].at = "create" /\ job[h].op \in {"start", "ask"} /\ job[h].op \notin Decisions
    BY <1>0, <1>1 DEF CreateRun, At, Fits, Placed, Decisions
  <2>1. CASE Len(runs) < MaxRuns
    <3>1. new \in Run
      BY <1>0 DEF Job, Run, NonTerminal
    <3>2. runs' = Append(runs, new) /\ proposals' = proposals
      BY <1>1, <2>1 DEF CreateRun
    <3> HIDE DEF new
    <3>3. /\ runs' \in Seq(Run) /\ Len(runs') = Len(runs) + 1 /\ Len(runs') <= MaxRuns
          /\ DOMAIN runs' = 1 .. Len(runs) + 1
      BY <1>0, <2>1, <3>1, <3>2, AgentAssumption DEF TableTypes
    <3>4. Grow /\ \A p \in DOMAIN proposals' : proposals'[p].run \in DOMAIN runs'
      BY <1>0, <3>2, <3>3 DEF TableTypes, Grow
    <3>5. job' = [job EXCEPT ![h] = work] /\ UNCHANGED begun
      BY <1>1, <2>1 DEF CreateRun
    <3>6. /\ work \in Job /\ work.at = "enqueue" /\ work.op = job[h].op
          /\ work.run = Len(runs) + 1 /\ work.prop = job[h].prop /\ work.about = job[h].about
      <4>1. Len(runs) + 1 \in 0 .. MaxRuns /\ "enqueue" \in Points
        BY <1>0, <2>1, RowTypes DEF Points
      <4> QED BY <1>0, <4>1 DEF Job
    <3> HIDE DEF work
    <3>7. Fits(h)'
      <4>1. job'[h] = work
        BY <1>0, <3>5
      <4>2. Placed(work)
        BY <1>0, <2>0, <3>6 DEF Fits, Placed
      <4> QED BY <1>0, <2>0, <3>2, <3>3, <3>6, <4>1, <4>2 DEF Fits, Early
    <3>8. said' \in [Chats -> Seq({"person", "agent"})] /\ jobs' \subseteq DOMAIN runs'
          /\ UNCHANGED <<enabled, flips, stalled>>
      BY <1>0, <1>1, <3>3 DEF CreateRun, TableTypes
    <3> QED BY <1>0, <3>4, <3>5, <3>6, <3>7, <3>8, WorkTypes
  <2>2. CASE ~(Len(runs) < MaxRuns)
    <3>1. Done(h) /\ UNCHANGED <<runs, proposals, said, jobs, enabled, flips, stalled>>
      BY <1>1, <2>2 DEF CreateRun
    <3>2. /\ Grow /\ \A p \in DOMAIN proposals' : proposals'[p].run \in DOMAIN runs'
          /\ said' \in [Chats -> Seq({"person", "agent"})] /\ jobs' \subseteq DOMAIN runs'
      BY <1>0, <3>1, TablesStay DEF TableTypes
    <3>3. [job[h] EXCEPT !.at = "create"] = job[h]
      BY <1>0, <2>0 DEF Job
    <3>4. Placed([job[h] EXCEPT !.at = "create"]) /\ "create" \in Points
      BY <1>0, <3>3 DEF Fits, Points
    <3> QED BY <1>0, <2>0, <3>1, <3>2, <3>4, MoveTypes DEF Early
  <2> QED BY <2>1, <2>2
<1>2. CASE Enqueue(h)
  <2>1. /\ Go(h, "fail") \/ Done(h)
        /\ job[h].at = "enqueue" /\ UNCHANGED <<runs, proposals, said, enabled, flips, stalled>>
        /\ jobs' \subseteq jobs \cup {job[h].run}
    BY <1>2 DEF Enqueue, At
  <2>2. /\ Grow /\ \A p \in DOMAIN proposals' : proposals'[p].run \in DOMAIN runs'
        /\ said' \in [Chats -> Seq({"person", "agent"})] /\ jobs' \subseteq DOMAIN runs'
    BY <1>0, <1>a, <2>1, TablesStay DEF TableTypes, Early
  <2>3. Placed([job[h] EXCEPT !.at = "fail"]) /\ "fail" \in Points
    BY <1>0, <2>1 DEF Fits, Placed, Job, Points
  <2> QED BY <1>0, <2>1, <2>2, <2>3, MoveTypes DEF Early
<1>3. ASSUME PersistCompleted(h) \/ PersistAwaiting(h) \/ FailRun(h)
      PROVE  TableTypes' /\ JobTypes'
  <2> DEFINE r == job[h].run
             row == IF At(h, "fail") THEN [runs[r] EXCEPT !.status = "failed"]
                    ELSE IF At(h, "finish") THEN [runs[r] EXCEPT !.status = "completed", !.saved = {}]
                    ELSE [runs[r] EXCEPT !.status = "awaiting_approval", !.saved = job[h].new]
  <2>1. job[h].at \in {"finish", "park", "fail"} /\ r \in DOMAIN runs
    BY <1>a, <1>3 DEF PersistCompleted, PersistAwaiting, FailRun, At, Early
  <2>2. row \in Run
    BY <1>0, <2>1, StatusWritten DEF NonTerminal, Terminal, Job
  <2>3. runs' = [runs EXCEPT ![r] = row] /\ proposals' = proposals
    BY <1>3 DEF PersistCompleted, PersistAwaiting, FailRun, At, SetStatus
  <2> HIDE DEF row
  <2>4. Grow /\ \A p \in DOMAIN proposals' : proposals'[p].run \in DOMAIN runs'
    BY <1>0, <2>1, <2>2, <2>3, RunRewritten
  <2>5. UNCHANGED <<enabled, flips, stalled, said, jobs>> /\ (EndStretch(h, TRUE) \/ EndStretch(h, FALSE))
    BY <1>3 DEF PersistCompleted, PersistAwaiting, FailRun
  <2> QED BY <1>0, <2>1, <2>4, <2>5, EndTypes
<1>4. ASSUME StopRun(h) \/ SetHidden(h) PROVE TableTypes' /\ JobTypes'
  <2> DEFINE r == job[h].run
             row == IF At(h, "hide") THEN [runs[r] EXCEPT !.hidden = TRUE]
                    ELSE [runs[r] EXCEPT !.status = IF job[h].op = "abort" THEN "aborted"
                                                    ELSE "expired"]
  <2>1. job[h].at \in {"stop", "hide"} /\ r \in DOMAIN runs
    BY <1>a, <1>4 DEF StopRun, SetHidden, At, Early
  <2>2. row \in Run
    BY <1>0, <2>1, StatusWritten DEF NonTerminal, Terminal
  <2>3. runs' = [runs EXCEPT ![r] = row] /\ UNCHANGED <<proposals, said, jobs, enabled, flips, stalled>>
    BY <1>4 DEF StopRun, SetHidden, SetStatus, At
  <2> HIDE DEF row
  <2>4. /\ Grow /\ \A p \in DOMAIN proposals' : proposals'[p].run \in DOMAIN runs'
        /\ DOMAIN runs' = DOMAIN runs
    BY <1>0, <2>1, <2>2, <2>3, RunRewritten
  <2>5. said' \in [Chats -> Seq({"person", "agent"})] /\ jobs' \subseteq DOMAIN runs'
    BY <1>0, <2>3, <2>4 DEF TableTypes
  <2>6. CASE StopRun(h)
    <3>1. Placed([job[h] EXCEPT !.at = "tidy"]) /\ "tidy" \in Points /\ job[h].at = "stop"
      BY <1>0, <2>6 DEF Fits, Placed, Job, Points, StopRun, At
    <3>2. Go(h, "tidy")
      BY <2>6 DEF StopRun
    <3> QED BY <1>0, <2>3, <2>4, <2>5, <3>1, <3>2, MoveTypes DEF Early
  <2>7. CASE SetHidden(h)
    <3>1. [job[h] EXCEPT !.at = "hide"] = job[h] /\ job[h].at = "hide"
      BY <1>0, <2>7 DEF Job, SetHidden, At
    <3>2. Placed([job[h] EXCEPT !.at = "hide"]) /\ "hide" \in Points
      BY <1>0, <3>1 DEF Fits, Points
    <3>3. Done(h)
      BY <2>7 DEF SetHidden
    <3> QED BY <1>0, <2>3, <2>4, <2>5, <3>1, <3>2, <3>3, MoveTypes DEF Early
  <2> QED BY <1>4, <2>6, <2>7
<1>5. CASE RecordAssistantTurn(h)
  <2>1. Done(h) /\ UNCHANGED <<runs, proposals, jobs, enabled, flips, stalled>> /\ job[h].at = "tell"
    BY <1>5 DEF RecordAssistantTurn, At
  <2>2. said' \in [Chats -> Seq({"person", "agent"})]
    <3>1. CASE job[h].about \in Chats
      <4>1. said[job[h].about] \in Seq({"person", "agent"})
        BY <1>0, <3>1 DEF TableTypes
      <4>2. Append(said[job[h].about], "agent") \in Seq({"person", "agent"})
        BY <4>1, AppendProperties
      <4> QED BY <1>0, <1>5, <4>2 DEF TableTypes, RecordAssistantTurn
    <3>2. CASE job[h].about \notin Chats
      BY <1>0, <1>5, <3>2 DEF TableTypes, RecordAssistantTurn
    <3> QED BY <3>1, <3>2
  <2>3. /\ Grow /\ \A p \in DOMAIN proposals' : proposals'[p].run \in DOMAIN runs'
        /\ jobs' \subseteq DOMAIN runs'
    BY <1>0, <2>1, TablesStay DEF TableTypes
  <2>4. [job[h] EXCEPT !.at = "tell"] = job[h]
    BY <1>0, <2>1 DEF Job
  <2>5. Placed([job[h] EXCEPT !.at = "tell"]) /\ "tell" \in Points
    BY <1>0, <2>4 DEF Fits, Points
  <2> QED BY <1>0, <2>1, <2>2, <2>3, <2>5, MoveTypes DEF Early
<1> QED BY <1>1, <1>2, <1>3, <1>4, <1>5

\* A step that keeps the handler's run, proposal and operation, and the tables'
\* numbers of rows.
LEMMA KeepsFitting ==
    ASSUME Typed, Grow, NEW h \in Handlers, NEW work \in Job, job'[h] = work,
           work.op = job[h].op, work.run = job[h].run, work.prop = job[h].prop,
           Placed(work), job[h].at \notin Early, work.at \notin Early,
           work.at \in {"make", "propose"} => work.left # 0
    PROVE  Fits(h)'
<1>1. /\ Len(runs) \in Nat /\ Len(runs') \in Nat
      /\ Len(proposals) \in Nat /\ Len(proposals') \in Nat
      /\ DOMAIN proposals = 1 .. Len(proposals)
  BY RowTypes, LenProperties DEF Grow, Typed
<1> QED BY <1>1 DEF Fits, Grow, Typed, JobTypes

\* What a model's turn starts, and the proposals of it.
LEMMA ProposeTypes ==
    ASSUME Typed, NEW h \in Handlers, ModelTurn(h) \/ PersistProposal(h)
    PROVE  TableTypes' /\ JobTypes'
<1>0. /\ TableTypes /\ job \in [Handlers -> Job] /\ Fits(h) /\ job[h] \in Job /\ Alone(h)
      /\ Len(runs) \in Nat /\ DOMAIN runs = 1 .. Len(runs) /\ MaxProposals \in Nat
      /\ Len(proposals) \in Nat /\ DOMAIN proposals = 1 .. Len(proposals)
      /\ job[h].run \in 0 .. MaxRuns /\ job[h].left \in Nat
      /\ job[h].new \in SUBSET (1 .. MaxProposals)
  BY RowTypes, MovesAlone DEF Typed, JobTypes, RunStep, Job
<1>1. job[h].at \in {"model", "propose"}
  BY DEF ModelTurn, PersistProposal, At
<1>2. job[h].run \in DOMAIN runs /\ job[h].at \notin Early
  BY <1>0, <1>1 DEF Fits, Early
<1>3. ASSUME NEW w \in {"fail", "finish"}, Go(h, w), UNCHANGED <<rowVars, enabled, flips, stalled>>
      PROVE  TableTypes' /\ JobTypes'
  <2>1. /\ Grow /\ \A p \in DOMAIN proposals' : proposals'[p].run \in DOMAIN runs'
        /\ said' \in [Chats -> Seq({"person", "agent"})] /\ jobs' \subseteq DOMAIN runs'
    BY <1>0, <1>3, TablesStay DEF rowVars, TableTypes
  <2>2. Placed([job[h] EXCEPT !.at = w]) /\ w \in Points \ {"make", "propose"} /\ w \notin Early
    BY <1>0, <1>1 DEF Fits, Placed, Job, Points, Early
  <2> QED BY <1>0, <1>1, <1>2, <1>3, <2>1, <2>2, MoveTypes
<1>4. CASE ModelTurn(h)
  <2>1. ASSUME NEW n \in 1 .. 2, job' = [job EXCEPT ![h].at = "propose", ![h].left = n, ![h].new = {}],
               UNCHANGED begun, UNCHANGED <<rowVars, enabled, flips, stalled>>
        PROVE  TableTypes' /\ JobTypes'
    <3> DEFINE work == [job[h] EXCEPT !.at = "propose", !.left = n, !.new = {}]
    <3>1. /\ work \in Job /\ work.at = "propose" /\ work.left = n /\ work.op = job[h].op
          /\ work.run = job[h].run /\ work.prop = job[h].prop /\ work.about = job[h].about
      <4>1. n \in Nat /\ {} \in SUBSET (1 .. MaxProposals) /\ "propose" \in Points
        BY DEF Points
      <4> QED BY <1>0, <4>1 DEF Job
    <3>2. job' = [job EXCEPT ![h] = work]
      BY <2>1
    <3> HIDE DEF work
    <3>3. job'[h] = work
      BY <1>0, <3>2
    <3>4. /\ Grow /\ \A p \in DOMAIN proposals' : proposals'[p].run \in DOMAIN runs'
          /\ said' \in [Chats -> Seq({"person", "agent"})] /\ jobs' \subseteq DOMAIN runs'
      BY <1>0, <2>1, TablesStay DEF rowVars, TableTypes
    <3>5. Placed(work)
      BY <1>0, <1>1, <3>1 DEF Fits, Placed
    <3>6. Fits(h)'
      BY <1>2, <3>1, <3>3, <3>4, <3>5, KeepsFitting DEF Early
    <3> QED BY <1>0, <2>1, <3>1, <3>2, <3>4, <3>6, WorkTypes DEF rowVars
  <2> QED BY <1>3, <1>4, <2>1 DEF ModelTurn
<1>5. CASE PersistProposal(h)
  <2>1. CASE Go(h, "fail") /\ UNCHANGED proposals
    BY <1>3, <1>5, <2>1 DEF PersistProposal, rowVars
  <2>2. CASE ~(Go(h, "fail") /\ UNCHANGED proposals)
    <3>1. PICK kind \in {"line_items", "assign"} :
             proposals' = Append(proposals,
                   [run |-> job[h].run, kind |-> kind, status |-> "pending",
                    by |-> "nobody", decided |-> FALSE, made |-> 0])
      BY <1>5, <2>2 DEF PersistProposal
    <3> DEFINE new == [run |-> job[h].run, kind |-> kind, status |-> "pending",
                       by |-> "nobody", decided |-> FALSE, made |-> 0]
               work == [job[h] EXCEPT !.left = job[h].left - 1,
                                      !.new = job[h].new \cup {Len(proposals) + 1},
                                      !.at = IF job[h].left - 1 = 0 THEN "park" ELSE "propose"]
    <3>2. Len(proposals) < MaxProposals /\ UNCHANGED <<runs, said, jobs, enabled, flips, stalled, begun>>
          /\ job[h].at = "propose"
      BY <1>5, <2>2 DEF PersistProposal, At
    <3>3. job' = [job EXCEPT ![h] = work]
      BY <1>5, <2>2 DEF PersistProposal
    <3>4. job[h].left - 1 \in Nat
      BY <1>0, <3>2 DEF Fits
    <3>5. job[h].new \cup {Len(proposals) + 1} \in SUBSET (1 .. MaxProposals)
      BY <1>0, <3>2
    <3>6. /\ work \in Job /\ work.at \in {"park", "propose"} /\ work.op = job[h].op
          /\ work.at = "propose" => work.left # 0
          /\ work.run = job[h].run /\ work.prop = job[h].prop /\ work.about = job[h].about
      BY <1>0, <3>4, <3>5 DEF Job, Points
    <3>7. new \in Proposal /\ new.run = job[h].run /\ proposals' = Append(proposals, new)
      <4>1. job[h].run \in 1 .. MaxRuns
        BY <1>0, <1>2
      <4> QED BY <3>1, <4>1 DEF Proposal
    <3> HIDE DEF work, new
    <3>8. /\ proposals' \in Seq(Proposal) /\ Len(proposals') = Len(proposals) + 1
          /\ DOMAIN proposals' = 1 .. Len(proposals) + 1
          /\ \A p \in 1 .. Len(proposals) : proposals'[p] = proposals[p]
          /\ proposals'[Len(proposals) + 1] = new
      BY <1>0, <3>7 DEF TableTypes
    <3>9. Grow /\ \A p \in DOMAIN proposals' : proposals'[p].run \in DOMAIN runs'
      <4>1. \A p \in DOMAIN proposals' : p \in DOMAIN proposals \/ p = Len(proposals) + 1
        BY <1>0, <3>8
      <4> QED BY <1>0, <1>2, <3>2, <3>7, <3>8, <4>1 DEF TableTypes, Grow
    <3>10. job'[h] = work
      BY <1>0, <3>3
    <3>11. Placed(work)
      BY <1>0, <3>2, <3>6 DEF Fits, Placed
    <3>12. Fits(h)'
      BY <1>2, <3>6, <3>9, <3>10, <3>11, KeepsFitting DEF Early
    <3>13. said' \in [Chats -> Seq({"person", "agent"})] /\ jobs' \subseteq DOMAIN runs'
      BY <1>0, <3>2 DEF TableTypes
    <3> QED BY <1>0, <3>2, <3>3, <3>6, <3>9, <3>12, <3>13, WorkTypes
  <2> QED BY <2>1, <2>2
<1> QED BY <1>4, <1>5

\* What becomes of a proposal.
LEMMA DecideTypes ==
    ASSUME Typed, NEW h \in Handlers,
           \/ TidyProposals(h) \/ LoadDecidable(h) \/ CreateLineItem(h) \/ MarkBroken(h)
           \/ AssignLine(h) \/ MarkDone(h) \/ MarkRejected(h)
    PROVE  TableTypes' /\ JobTypes'
<1>0. /\ TableTypes /\ job \in [Handlers -> Job] /\ Idle \in Job /\ Fits(h) /\ job[h] \in Job
      /\ Alone(h) /\ Len(runs) \in Nat /\ DOMAIN runs = 1 .. Len(runs)
      /\ Len(proposals) \in Nat /\ DOMAIN proposals = 1 .. Len(proposals)
  BY IdleType, RowTypes, MovesAlone DEF Typed, JobTypes, RunStep, DecisionStep
<1> HIDE DEF Idle
<1>a. job[h].at \in {"decide", "make", "botch", "mark", "decided"} =>
         job[h].prop \in DOMAIN proposals
  BY <1>0 DEF Fits, Placed, Decisions
<1>b. UNCHANGED <<runs, said, jobs, enabled, flips, stalled>> /\ job[h].at \notin Early
  BY DEF TidyProposals, LoadDecidable, CreateLineItem, MarkBroken, AssignLine, MarkDone,
         MarkRejected, rowVars, At, Early
<1>c. said' \in [Chats -> Seq({"person", "agent"})] /\ jobs' \subseteq DOMAIN runs'
  BY <1>0, <1>b DEF TableTypes
<1>1. ASSUME Grow, \A p \in DOMAIN proposals' : proposals'[p].run \in DOMAIN runs',
             NEW w \in {"botch", "resume", "tidy"}, Go(h, w) \/ Done(h),
             w = "botch" => job[h].op = "approve", w = "resume" => job[h].op \in Decisions,
             w = "tidy" => job[h].op \in {"abort", "expire"} \cup Decisions
      PROVE  TableTypes' /\ JobTypes'
  <2>1. Placed([job[h] EXCEPT !.at = w]) /\ w \in Points \ {"make", "propose"} /\ w \notin Early
    BY <1>0, <1>1, <1>b DEF Fits, Placed, Job, Points, Early
  <2>2. job[h].at # "idle"
    BY <1>b DEF Early
  <2> QED BY <1>0, <1>1, <1>b, <1>c, <2>1, <2>2, MoveTypes
<1>2. ASSUME Grow, \A p \in DOMAIN proposals' : proposals'[p].run \in DOMAIN runs',
             NEW left \in Nat, NEW ok \in BOOLEAN, NEW w \in {"make", "mark"},
             w = "make" => left # 0, job[h].op = "approve", UNCHANGED begun,
             job' = [job EXCEPT ![h] = [job[h] EXCEPT !.left = left, !.ok = ok, !.at = w]]
      PROVE  TableTypes' /\ JobTypes'
  <2> DEFINE work == [job[h] EXCEPT !.left = left, !.ok = ok, !.at = w]
  <2>1. /\ work \in Job /\ work.at = w /\ work.left = left /\ work.op = "approve"
        /\ work.run = job[h].run /\ work.prop = job[h].prop /\ work.about = job[h].about
    BY <1>0, <1>2 DEF Job, Points
  <2>2. job' = [job EXCEPT ![h] = work]
    BY <1>2
  <2> HIDE DEF work
  <2>3. job'[h] = work /\ Placed(work)
    BY <1>0, <2>1, <2>2 DEF Placed
  <2>4. Fits(h)'
    BY <1>2, <1>b, <2>1, <2>3, KeepsFitting DEF Early
  <2> QED BY <1>0, <1>2, <1>b, <1>c, <2>1, <2>2, <2>4, WorkTypes
<1>3. CASE TidyProposals(h)
  <2> DEFINE row(p) == IF p \in PendingOf(job[h].run)
                       THEN [proposals[p] EXCEPT !.status = "rejected"] ELSE proposals[p]
  <2>1. proposals' = [p \in 1 .. Len(proposals) |-> row(p)]
    BY <1>0, <1>3 DEF TidyProposals
  <2>2. \A p \in 1 .. Len(proposals) : row(p) \in Proposal /\ row(p).run = proposals[p].run
    BY <1>0, RowTypes DEF Proposal
  <2> HIDE DEF row
  <2>3. proposals' \in Seq(Proposal) /\ Len(proposals') = Len(proposals)
    BY <1>0, <2>1, <2>2
  <2>4. Grow /\ \A p \in DOMAIN proposals' : proposals'[p].run \in DOMAIN runs'
    BY <1>0, <1>b, <2>1, <2>2, <2>3 DEF TableTypes, Grow
  <2>5. Done(h) /\ job[h].op \in {"abort", "expire"} \cup Decisions
    BY <1>0, <1>3 DEF TidyProposals, Fits, Placed, At
  <2> QED BY <1>1, <2>4, <2>5
<1>4. CASE LoadDecidable(h)
  <2>1. Grow /\ \A p \in DOMAIN proposals' : proposals'[p].run \in DOMAIN runs'
    BY <1>4, TablesStay DEF LoadDecidable, rowVars
  <2>2. job[h].op = "approve"
    BY <1>0, <1>4 DEF LoadDecidable, Fits, Placed, At
  <2>3. CASE Done(h)
    BY <1>1, <2>1, <2>2, <2>3 DEF Decisions
  <2>4. CASE ~Done(h)
    <3>1. job' = [job EXCEPT ![h].at = "make", ![h].left = Items] /\ UNCHANGED begun
      BY <1>4, <2>4 DEF LoadDecidable
    <3>2. [job[h] EXCEPT !.left = Items, !.ok = job[h].ok, !.at = "make"]
             = [job[h] EXCEPT !.at = "make", !.left = Items]
      BY <1>0 DEF Job
    <3>3. job[h].ok \in BOOLEAN /\ Items \in Nat /\ Items # 0
      BY <1>0, AgentAssumption DEF Job
    <3>4. job' = [job EXCEPT ![h] = [job[h] EXCEPT !.left = Items, !.ok = job[h].ok, !.at = "make"]]
      BY <3>1, <3>2
    <3> QED BY <1>2, <2>1, <2>2, <3>1, <3>3, <3>4
  <2> QED BY <2>3, <2>4
<1>5. ASSUME NEW n \in Nat,
             proposals' = [proposals EXCEPT ![job[h].prop].made = n] \/ proposals' = proposals,
             job[h].at = "make"
      PROVE  Grow /\ \A p \in DOMAIN proposals' : proposals'[p].run \in DOMAIN runs'
  <2> DEFINE row == [proposals[job[h].prop] EXCEPT !.made = n]
  <2>1. CASE proposals' = proposals
    BY <1>b, <2>1, TablesStay
  <2>2. CASE proposals' = [proposals EXCEPT ![job[h].prop] = row]
    <3>1. row \in Proposal /\ row.run = proposals[job[h].prop].run /\ job[h].prop \in DOMAIN proposals
      BY <1>0, <1>5, <1>a, RowTypes DEF Proposal
    <3> HIDE DEF row
    <3> QED BY <1>0, <1>b, <2>2, <3>1, ProposalRewritten
  <2> QED BY <1>5, <2>1, <2>2
<1>6. CASE CreateLineItem(h)
  <2>1. job[h].at = "make" /\ job[h].op = "approve" /\ proposals[job[h].prop].made + 1 \in Nat
        /\ job[h].left - 1 \in Nat
    <3>1. job[h].at = "make" /\ job[h].op = "approve"
      BY <1>0, <1>6 DEF CreateLineItem, Fits, Placed, At
    <3>2. proposals[job[h].prop] \in Proposal
      BY <1>0, <1>a, <3>1, RowTypes
    <3>3. job[h].left \in Nat /\ job[h].left # 0
      BY <1>0, <3>1 DEF Fits, Job
    <3> QED BY <3>1, <3>2, <3>3 DEF Proposal
  <2>2. proposals' = [proposals EXCEPT ![job[h].prop].made = proposals[job[h].prop].made + 1]
        \/ proposals' = proposals
    BY <1>6 DEF CreateLineItem
  <2>3. Grow /\ \A p \in DOMAIN proposals' : proposals'[p].run \in DOMAIN runs'
    BY <1>5, <2>1, <2>2
  <2>4. CASE Go(h, "botch")
    BY <1>1, <2>1, <2>3, <2>4
  <2>5. CASE ~Go(h, "botch")
    <3>1. /\ job' = [job EXCEPT ![h] = [job[h] EXCEPT !.left = job[h].left - 1, !.ok = TRUE,
                        !.at = IF job[h].left - 1 = 0 THEN "mark" ELSE "make"]]
          /\ UNCHANGED begun
      BY <1>6, <2>5 DEF CreateLineItem
    <3> QED BY <1>2, <2>1, <2>3, <3>1
  <2> QED BY <2>4, <2>5
<1>7. CASE AssignLine(h)
  <2>1. job[h].at = "make" /\ job[h].op = "approve" /\ job[h].left \in Nat
    BY <1>0, <1>7 DEF AssignLine, Fits, Placed, At, Job
  <2>2. proposals' = [proposals EXCEPT ![job[h].prop].made = 1] \/ proposals' = proposals
    BY <1>7 DEF AssignLine
  <2>3. Grow /\ \A p \in DOMAIN proposals' : proposals'[p].run \in DOMAIN runs'
    BY <1>5, <2>1, <2>2
  <2>4. CASE Done(h)
    BY <1>1, <2>1, <2>3, <2>4 DEF Decisions
  <2>5. CASE ~Done(h)
    <3>1. PICK ok \in BOOLEAN : job' = [job EXCEPT ![h].at = "mark", ![h].ok = ok] /\ UNCHANGED begun
      BY <1>7, <2>5 DEF AssignLine
    <3>2. [job[h] EXCEPT !.left = job[h].left, !.ok = ok, !.at = "mark"]
             = [job[h] EXCEPT !.at = "mark", !.ok = ok]
      BY <1>0 DEF Job
    <3>3. job' = [job EXCEPT ![h] = [job[h] EXCEPT !.left = job[h].left, !.ok = ok, !.at = "mark"]]
      BY <3>1, <3>2
    <3> QED BY <1>2, <2>1, <2>3, <3>1, <3>3
  <2> QED BY <2>4, <2>5
<1>8. ASSUME NEW status \in {"executed", "failed", "rejected"}, NEW verdict \in Decisions,
             Mark(job[h].prop, status, verdict) \/ proposals' = proposals,
             job[h].at \in {"botch", "mark", "decided"}
      PROVE  Grow /\ \A p \in DOMAIN proposals' : proposals'[p].run \in DOMAIN runs'
  BY <1>0, <1>8, <1>a, <1>b, MarkWritten, TablesStay
<1>9. CASE MarkBroken(h)
  <2>1. job[h].at = "botch" /\ job[h].op \in Decisions /\ Done(h)
        /\ Mark(job[h].prop, "failed", "approve")
    BY <1>0, <1>9 DEF MarkBroken, Fits, Placed, At, Decisions
  <2> QED BY <1>1, <1>8, <2>1 DEF Decisions
<1>10. CASE MarkDone(h)
  <2>1. job[h].at = "mark" /\ job[h].op \in Decisions /\ (Go(h, "resume") \/ Done(h))
    BY <1>0, <1>10 DEF MarkDone, Fits, Placed, At, Decisions
  <2>2. \/ Mark(job[h].prop, "executed", "approve") \/ Mark(job[h].prop, "failed", "approve")
        \/ proposals' = proposals
    BY <1>10 DEF MarkDone
  <2> QED BY <1>1, <1>8, <2>1, <2>2 DEF Decisions
<1>11. CASE MarkRejected(h)
  <2>1. job[h].at = "decided" /\ job[h].op \in Decisions /\ Go(h, "resume")
        /\ Mark(job[h].prop, "rejected", "reject")
    BY <1>0, <1>11 DEF MarkRejected, Fits, Placed, At, Decisions
  <2> QED BY <1>1, <1>8, <2>1 DEF Decisions
<1> QED BY <1>3, <1>4, <1>6, <1>7, <1>9, <1>10, <1>11

\* What a step remembers names runs, proposals, requests and handlers there are.
LEMMA RememberTypes ==
    ASSUME Typed, NEW stops \in BOOLEAN, Remember(stops), NEW gone, LeaveBehind(gone)
    PROVE  HistoryTypes'
<1>1. /\ \A p \in DOMAIN proposals : p \in 1 .. MaxProposals
      /\ \A r \in DOMAIN runs : r \in 1 .. MaxRuns
  BY RowTypes DEF Typed
<1>2. /\ contested \subseteq 1 .. MaxProposals /\ disturbed \subseteq 1 .. MaxRuns
      /\ stranded \subseteq 1 .. MaxRuns /\ untidied \subseteq 1 .. MaxRuns
      /\ startsMet \subseteq Requests
  BY DEF Typed, HistoryTypes
<1>3. contested' \subseteq 1 .. MaxProposals
  BY <1>1, <1>2 DEF Remember
<1>4. disturbed' \subseteq 1 .. MaxRuns
  BY <1>1, <1>2 DEF Remember
<1>5. stranded' \subseteq 1 .. MaxRuns /\ untidied' \subseteq 1 .. MaxRuns
  BY <1>1, <1>2 DEF LeaveBehind
<1>6. startsMet' \subseteq Requests
  BY <1>2 DEF Remember
<1>7. late' \subseteq Handlers
  BY DEF Remember
<1> QED BY <1>3, <1>4, <1>5, <1>6, <1>7 DEF HistoryTypes

\* After a restart nobody does anything.
LEMMA RestartTypes ==
    ASSUME Typed, Restart
    PROVE  TableTypes' /\ JobTypes'
<1>1. Grow /\ \A p \in DOMAIN proposals' : proposals'[p].run \in DOMAIN runs'
  BY TablesStay DEF Restart
<1>2. \A h \in Handlers : job'[h] = Idle
  BY DEF Restart
<1>3. \A h \in Handlers : Fits(h)'
  BY <1>1, <1>2, DoneFits DEF Typed
<1>4. job' \in [Handlers -> Job]
  BY IdleType DEF Restart
<1>5. \A h \in Handlers : Busy(h) /\ job[h].op = "work" => job[h].run \in DOMAIN runs
  <2> SUFFICES ASSUME NEW h \in Handlers, Busy(h), job[h].op = "work"
               PROVE  job[h].run \in DOMAIN runs
    OBVIOUS
  <2>1. job[h].at \notin Early /\ job[h].run \in 0 .. Len(runs) /\ job[h].run # 0
    BY DEF Typed, JobTypes, Fits, Placed, Early, Busy, At
  <2> QED BY <2>1, RowTypes DEF Typed
<1>6. jobs' \subseteq DOMAIN runs' /\ stalled' \subseteq DOMAIN runs'
  BY <1>5 DEF Restart, Active, Typed, TableTypes
<1> QED BY <1>1, <1>3, <1>4, <1>6 DEF Restart, Typed, TableTypes, JobTypes

LEMMA InitTypes == Init => Typed
<1> SUFFICES ASSUME Init PROVE Typed
  OBVIOUS
<1>1. \A h \in Handlers : job[h] = Idle
  BY DEF Init, AgentInit
<1>2. /\ MaxRuns \in Nat /\ MaxProposals \in Nat /\ MaxJobs \in Nat /\ MaxFlips \in Nat
  BY AgentAssumption
<1>3. /\ runs = <<>> /\ proposals = <<>> /\ Len(runs) = 0 /\ Len(proposals) = 0
      /\ DOMAIN runs = {} /\ DOMAIN proposals = {}
  BY DEF Init, AgentInit
<1>4. said \in [Chats -> Seq({"person", "agent"})]
  <2>1. <<>> \in Seq({"person", "agent"})
    OBVIOUS
  <2> QED BY <2>1 DEF Init, AgentInit
<1>5. runs \in Seq(Run) /\ proposals \in Seq(Proposal)
  BY <1>3
<1>6. TableTypes
  BY <1>2, <1>3, <1>4, <1>5 DEF Init, AgentInit, TableTypes
<1>7. JobTypes
  <2>1. job \in [Handlers -> Job]
    BY IdleType DEF Init, AgentInit
  <2>2. ASSUME NEW h \in Handlers PROVE Fits(h)
    <3>1. job[h] = Idle /\ Idle \in Job
      BY <1>1, IdleType
    <3> HIDE DEF Idle
    <3> QED BY <1>3, <3>1, IdleFields DEF Fits, Placed, Early, Decisions
  <2> QED BY <2>1, <2>2 DEF JobTypes
<1>8. HistoryTypes
  BY DEF Init, HistoryTypes
<1> QED BY <1>6, <1>7, <1>8 DEF Typed

LEMMA StepTypes == Typed /\ [Next]_vars => Typed'
<1> SUFFICES ASSUME Typed, [Next]_vars PROVE Typed'
  OBVIOUS
<1>1. ASSUME NEW h \in Handlers, RunStep(h) PROVE TableTypes' /\ JobTypes'
  BY <1>1, BeginTypes, QuietTypes, RunTypes, ProposeTypes, DecideTypes DEF RunStep
<1>2. ASSUME NEW h \in Handlers, DecisionStep(h) PROVE TableTypes' /\ JobTypes'
  BY <1>2, BeginTypes, QuietTypes, DecideTypes DEF DecisionStep
<1>3. ASSUME SetSwitch PROVE TableTypes' /\ JobTypes'
  <2>1. Grow /\ \A p \in DOMAIN proposals' : proposals'[p].run \in DOMAIN runs'
    BY <1>3, TablesStay DEF SetSwitch, rowVars
  <2>2. \A h \in Handlers : Fits(h)'
    BY <1>3, <2>1, StaysFitting DEF SetSwitch, rowVars, Typed, JobTypes
  <2>3. enabled' \in BOOLEAN /\ flips' \in 0 .. MaxFlips
    BY <1>3, AgentAssumption DEF SetSwitch, Typed, TableTypes
  <2> QED BY <1>3, <2>1, <2>2, <2>3 DEF SetSwitch, rowVars, Typed, TableTypes, JobTypes
<1>4. ASSUME Restart PROVE TableTypes' /\ JobTypes'
  BY <1>4, RestartTypes
<1>7. ASSUME NEW h \in Handlers, Throw(h) PROVE TableTypes' /\ JobTypes'
  BY <1>7, ThrowTypes
<1>5. CASE UNCHANGED vars
  BY <1>5 DEF vars, agentVars, rowVars, history, Typed, TableTypes, JobTypes, Fits, HistoryTypes
<1>6. CASE Next
  <2>1. (Remember(TRUE) \/ Remember(FALSE)) /\ \E gone \in SUBSET Handlers : LeaveBehind(gone)
    BY <1>6 DEF Next
  <2>2. HistoryTypes'
    BY <2>1, RememberTypes
  <2> QED BY <1>1, <1>2, <1>3, <1>4, <1>6, <1>7, <2>2 DEF Next, Typed
<1> QED BY <1>5, <1>6

\* The tables and the handlers keep their types, every proposal and every handler
\* names rows that are there, and no handler is where its operation does not lead.
THEOREM AgentTyped == Spec => []TypeOK
<1>1. Init => Typed
  BY InitTypes
<1>2. Typed /\ [Next]_vars => Typed'
  BY StepTypes
<1> QED BY <1>1, <1>2, TypedIsTypeOK, PTL DEF Spec

-----------------------------------------------------------------------------
(* What a step of handler h does to the runs, to the proposals and to its job, *)
(* as the proofs below need it.                                               *)

RunsStay ==
    /\ DOMAIN runs' = DOMAIN runs
    /\ \A r \in DOMAIN runs : /\ runs'[r].about = runs[r].about
                              /\ runs'[r].status = runs[r].status
                              /\ runs'[r].saved = runs[r].saved

\* h writes the status of its run.
RunWritten(h) ==
    LET r == job[h].run IN
    /\ r \in DOMAIN runs /\ DOMAIN runs' = DOMAIN runs /\ proposals' = proposals
    /\ \A s \in DOMAIN runs : runs'[s].about = runs[s].about /\ (s # r => runs'[s] = runs[s])
    /\ job'[h].at # "idle" => job'[h].run = r
    /\ \/ job[h].at = "finish" /\ runs'[r].status = "completed" /\ job'[h].at \in {"tell", "idle"}
       \/ /\ job[h].at = "park" /\ job'[h].at \in {"tell", "idle"}
          /\ runs'[r].status = "awaiting_approval" /\ runs'[r].saved = job[h].new
       \/ job[h].at = "fail" /\ runs'[r].status = "failed" /\ job'[h].at \in {"tell", "idle"}
       \/ job[h].at = "stop" /\ runs'[r].status \in {"aborted", "expired"} /\ job'[h].at = "tidy"

\* h creates a run.
RunMade(h) ==
    LET r == Len(runs) + 1 IN
    /\ job[h].at = "create" /\ proposals' = proposals
    /\ DOMAIN runs' = DOMAIN runs \cup {r} /\ r \notin DOMAIN runs
    /\ \A s \in DOMAIN runs : runs'[s] = runs[s]
    /\ runs'[r].about = job[h].about /\ runs'[r].status = "running"
    /\ job'[h].at = "enqueue" /\ job'[h].run = r /\ job'[h].op = job[h].op

LEMMA CreateMakes ==
    ASSUME Typed, NEW h \in Handlers, CreateRun(h)
    PROVE  RunMade(h) \/ (Done(h) /\ runs' = runs)
<1>0. /\ TableTypes /\ job \in [Handlers -> Job] /\ Idle \in Job /\ Fits(h) /\ job[h] \in Job
      /\ Len(runs) \in Nat /\ DOMAIN runs = 1 .. Len(runs)
      /\ \A r \in DOMAIN runs : runs[r] \in Run
  BY IdleType, RowTypes DEF Typed, JobTypes
<1> HIDE DEF Idle
<1> DEFINE new == [about |-> job[h].about, status |-> "running", saved |-> {}, hidden |-> FALSE]
<1>1. CASE Len(runs) < MaxRuns
  <2>1. runs' = Append(runs, new) /\ proposals' = proposals /\ job[h].at = "create"
    BY <1>1 DEF CreateRun, At
  <2>2. job' = [job EXCEPT ![h].at = "enqueue", ![h].run = Len(runs) + 1]
    BY <1>1 DEF CreateRun
  <2>3. job'[h].at = "enqueue" /\ job'[h].run = Len(runs) + 1 /\ job'[h].op = job[h].op
    BY <1>0, <2>2 DEF Job
  <2>4. new.about = job[h].about /\ new.status = "running" /\ new \in Run
    BY <1>0 DEF Job, Run, NonTerminal
  <2> HIDE DEF new
  <2>5. /\ DOMAIN runs' = 1 .. Len(runs) + 1 /\ runs'[Len(runs) + 1] = new
        /\ \A s \in 1 .. Len(runs) : runs'[s] = runs[s]
    BY <1>0, <2>1, <2>4 DEF TableTypes
  <2>6. DOMAIN runs' = DOMAIN runs \cup {Len(runs) + 1} /\ Len(runs) + 1 \notin DOMAIN runs
    BY <1>0, <2>5
  <2> QED BY <1>0, <2>1, <2>3, <2>4, <2>5, <2>6 DEF RunMade
<1>2. CASE ~(Len(runs) < MaxRuns)
  BY <1>2 DEF CreateRun
<1> QED BY <1>1, <1>2

LEMMA EndWrites ==
    ASSUME Typed, NEW h \in Handlers,
           PersistCompleted(h) \/ PersistAwaiting(h) \/ FailRun(h) \/ StopRun(h)
    PROVE  RunWritten(h)
<1>0. /\ TableTypes /\ job \in [Handlers -> Job] /\ Idle \in Job /\ Fits(h) /\ job[h] \in Job
      /\ Len(runs) \in Nat /\ DOMAIN runs = 1 .. Len(runs)
      /\ \A r \in DOMAIN runs : runs[r] \in Run
  BY IdleType, RowTypes DEF Typed, JobTypes
<1> HIDE DEF Idle
<1>a. job[h].at \notin Early => job[h].run \in DOMAIN runs
  BY <1>0 DEF Fits
<1> DEFINE r == job[h].run
<1>1. /\ job[h].at \in {"finish", "park", "fail", "stop"} /\ r \in DOMAIN runs
      /\ runs[r] \in Run /\ proposals' = proposals
  BY <1>0, <1>a DEF PersistCompleted, PersistAwaiting, FailRun, StopRun, At, Early
<1>2. ASSUME NEW spoke \in BOOLEAN, EndStretch(h, spoke)
      PROVE  job'[h].at \in {"tell", "idle"} /\ (job'[h].at # "idle" => job'[h].run = r)
  <2>1. CASE Done(h)
    BY <1>0, <2>1, JobNext, IdleFields
  <2>2. CASE job' = [job EXCEPT ![h].at = "tell", ![h].ok = spoke]
    BY <1>0, <2>2 DEF Job
  <2> QED BY <1>2, <2>1, <2>2 DEF EndStretch
<1>3. ASSUME NEW row \in Run, runs' = [runs EXCEPT ![r] = row], row.about = runs[r].about
      PROVE  /\ DOMAIN runs' = DOMAIN runs /\ runs'[r] = row
             /\ \A s \in DOMAIN runs : runs'[s].about = runs[s].about /\ (s # r => runs'[s] = runs[s])
  BY <1>0, <1>1, <1>3
<1>4. CASE PersistCompleted(h)
  <2> DEFINE row == [runs[r] EXCEPT !.status = "completed", !.saved = {}]
  <2>1. row \in Run /\ row.about = runs[r].about /\ row.status = "completed"
    BY <1>1 DEF Run, Terminal
  <2>2. runs' = [runs EXCEPT ![r] = row] /\ EndStretch(h, TRUE) /\ job[h].at = "finish"
    BY <1>4 DEF PersistCompleted, At
  <2> HIDE DEF row
  <2> QED BY <1>1, <1>2, <1>3, <2>1, <2>2 DEF RunWritten
<1>5. CASE PersistAwaiting(h)
  <2> DEFINE row == [runs[r] EXCEPT !.status = "awaiting_approval", !.saved = job[h].new]
  <2>a. job[h].new \in SUBSET (1 .. MaxProposals)
    BY <1>0 DEF Job
  <2>1. /\ row \in Run /\ row.about = runs[r].about /\ row.status = "awaiting_approval"
        /\ row.saved = job[h].new
    BY <1>1, <2>a DEF Run, NonTerminal
  <2>2. runs' = [runs EXCEPT ![r] = row] /\ EndStretch(h, FALSE) /\ job[h].at = "park"
    BY <1>5 DEF PersistAwaiting, At
  <2> HIDE DEF row
  <2> QED BY <1>1, <1>2, <1>3, <2>1, <2>2 DEF RunWritten
<1>6. CASE FailRun(h)
  <2> DEFINE row == [runs[r] EXCEPT !.status = "failed"]
  <2>1. row \in Run /\ row.about = runs[r].about /\ row.status = "failed"
    BY <1>1 DEF Run, Terminal
  <2>2. runs' = [runs EXCEPT ![r] = row] /\ EndStretch(h, FALSE) /\ job[h].at = "fail"
    BY <1>6 DEF FailRun, SetStatus, At
  <2> HIDE DEF row
  <2> QED BY <1>1, <1>2, <1>3, <2>1, <2>2 DEF RunWritten
<1>7. CASE StopRun(h)
  <2> DEFINE to == IF job[h].op = "abort" THEN "aborted" ELSE "expired"
             row == [runs[r] EXCEPT !.status = to]
  <2>1. row \in Run /\ row.about = runs[r].about /\ row.status \in {"aborted", "expired"}
    BY <1>1 DEF Run, Terminal
  <2>2. runs' = [runs EXCEPT ![r] = row] /\ Go(h, "tidy") /\ job[h].at = "stop"
    BY <1>7 DEF StopRun, SetStatus, At
  <2>3. job'[h].at = "tidy" /\ job'[h].run = r
    BY <1>0, <2>2 DEF Go, Job
  <2> HIDE DEF row
  <2> QED BY <1>1, <1>3, <2>1, <2>2, <2>3 DEF RunWritten
<1> QED BY <1>4, <1>5, <1>6, <1>7

LEMMA RunEffects ==
    ASSUME Typed, NEW h \in Handlers, RunStep(h) \/ DecisionStep(h) \/ Throw(h)
    PROVE  RunsStay \/ RunWritten(h) \/ RunMade(h)
<1>0. /\ TableTypes /\ job \in [Handlers -> Job] /\ Idle \in Job /\ Fits(h) /\ job[h] \in Job
      /\ Len(runs) \in Nat /\ DOMAIN runs = 1 .. Len(runs)
      /\ \A r \in DOMAIN runs : runs[r] \in Run
  BY IdleType, RowTypes DEF Typed, JobTypes
<1> HIDE DEF Idle
<1>1. CASE runs' = runs
  BY <1>1 DEF RunsStay
<1>2. CASE CreateRun(h)
  BY <1>2, CreateMakes DEF RunsStay
<1>3. CASE PersistCompleted(h) \/ PersistAwaiting(h) \/ FailRun(h) \/ StopRun(h)
  BY <1>3, EndWrites
<1>4. CASE SetHidden(h)
  <2> DEFINE r == job[h].run
             row == [runs[r] EXCEPT !.hidden = TRUE]
  <2>1. runs[r] \in Run /\ r \in DOMAIN runs
    BY <1>0, <1>4 DEF SetHidden, At, Fits, Early
  <2>2. /\ row \in Run /\ row.about = runs[r].about /\ row.status = runs[r].status
        /\ row.saved = runs[r].saved
    BY <2>1 DEF Run
  <2>3. runs' = [runs EXCEPT ![r] = row]
    BY <1>4 DEF SetHidden
  <2> HIDE DEF row
  <2>4. /\ DOMAIN runs' = DOMAIN runs /\ runs'[r] = row
        /\ \A s \in DOMAIN runs : s # r => runs'[s] = runs[s]
    BY <1>0, <2>1, <2>2, <2>3
  <2> QED BY <2>2, <2>4 DEF RunsStay
<1>5. CASE ~(CreateRun(h) \/ PersistCompleted(h) \/ PersistAwaiting(h) \/ FailRun(h)
             \/ StopRun(h) \/ SetHidden(h))
  <2>1. \/ UNCHANGED rowVars \/ Enqueue(h)
        \/ \E r \in jobs : TakeJob(h, r)
        \/ \E c \in Chats : AddTurn(h, c)
        \/ PersistProposal(h) \/ RecordAssistantTurn(h) \/ TidyProposals(h)
        \/ CreateLineItem(h) \/ MarkBroken(h) \/ AssignLine(h) \/ MarkDone(h) \/ MarkRejected(h)
    BY <1>5 DEF RunStep, DecisionStep, StartRun, AssertNoOpenRun, StartConversationRun,
                ReadPrincipal, LoadRun, CheckSwitch, ModelTurn, AbortRun, SweepRun, HideRun,
                Approve, Reject, LoadDecidable, AskToResume, ReloadRun, Catch, Throw
  <2>2. runs' = runs
    BY <2>1 DEF rowVars, AddTurn, Enqueue, TakeJob, PersistProposal, RecordAssistantTurn,
                TidyProposals, CreateLineItem, MarkBroken, AssignLine, MarkDone, MarkRejected
  <2> QED BY <1>1, <2>2
<1> QED BY <1>2, <1>3, <1>4, <1>5

\* h proposes.
ProposalMade(h) ==
    LET p == Len(proposals) + 1 IN
    /\ job[h].at = "propose" /\ runs' = runs
    /\ DOMAIN proposals' = DOMAIN proposals \cup {p} /\ p \notin DOMAIN proposals
    /\ \A s \in DOMAIN proposals : proposals'[s] = proposals[s]
    /\ proposals'[p].run = job[h].run /\ proposals'[p].status = "pending" /\ proposals'[p].made = 0
    /\ proposals'[p].kind \in {"line_items", "assign"}
    /\ job'[h].at \in {"propose", "park"} /\ job'[h].new = job[h].new \cup {p}
    /\ job'[h].run = job[h].run /\ job'[h].prop = job[h].prop

\* h rejects what its run left pending.
Tidied(h) ==
    /\ job[h].at = "tidy" /\ job'[h].at = "idle" /\ runs' = runs
    /\ DOMAIN proposals' = DOMAIN proposals
    /\ \A p \in DOMAIN proposals :
          IF p \in PendingOf(job[h].run)
          THEN /\ proposals'[p].run = proposals[p].run /\ proposals'[p].kind = proposals[p].kind
               /\ proposals'[p].made = proposals[p].made /\ proposals'[p].by = proposals[p].by
               /\ proposals'[p].status = "rejected"
          ELSE proposals'[p] = proposals[p]

\* h decides on its proposal, or does something on its account.
Worked(h) ==
    LET p == job[h].prop IN
    /\ p \in DOMAIN proposals /\ DOMAIN proposals' = DOMAIN proposals /\ runs' = runs
    /\ \A s \in DOMAIN proposals : s # p => proposals'[s] = proposals[s]
    /\ proposals'[p].run = proposals[p].run /\ proposals'[p].kind = proposals[p].kind
    /\ job'[h].at # "idle" => job'[h].prop = p
    /\ \/ /\ job[h].at = "make" /\ proposals[p].kind = "line_items"
          /\ proposals'[p].made = proposals[p].made + 1 /\ job'[h].left = job[h].left - 1
          /\ job'[h].ok /\ job'[h].at = IF job'[h].left = 0 THEN "mark" ELSE "make"
          /\ proposals'[p].status = proposals[p].status /\ proposals'[p].by = proposals[p].by
       \/ /\ job[h].at = "make" /\ proposals[p].kind = "assign"
          /\ proposals[p].made = 0 /\ proposals'[p].made = 1 /\ job'[h].ok /\ job'[h].at = "mark"
          /\ proposals'[p].status = proposals[p].status /\ proposals'[p].by = proposals[p].by
       \/ /\ proposals'[p].made = proposals[p].made
          /\ \/ /\ job[h].at = "botch" /\ job'[h].at = "idle"
                /\ proposals'[p].status = "failed" /\ proposals'[p].by = "approve"
             \/ /\ job[h].at = "mark" /\ job'[h].at = "resume" /\ proposals'[p].by = "approve"
                /\ proposals'[p].status = IF job[h].ok THEN "executed" ELSE "failed"
             \/ /\ job[h].at = "decided" /\ job'[h].at = "resume"
                /\ proposals'[p].status = "rejected" /\ proposals'[p].by = "reject"

\* h leaves its proposal as it is: it gave up or broke off, or goes on to mark that
\* nothing was done.
Unworked(h) ==
    LET p == job[h].prop IN
    /\ p \in DOMAIN proposals /\ proposals' = proposals /\ runs' = runs
    /\ \/ job[h].at \in {"make", "botch", "mark", "decided"} /\ job'[h].at = "idle"
       \/ /\ job[h].at = "make" /\ job'[h].at = "botch" /\ job'[h].prop = p
          /\ proposals[p].kind = "line_items"
       \/ /\ job[h].at = "make" /\ job'[h].at = "mark" /\ job'[h].prop = p
          /\ proposals[p].kind = "assign" /\ ~job'[h].ok

LEMMA WorkEffects ==
    ASSUME Typed, NEW h \in Handlers,
           \/ CreateLineItem(h) \/ MarkBroken(h) \/ AssignLine(h) \/ MarkDone(h)
           \/ MarkRejected(h)
    PROVE  Worked(h) \/ Unworked(h)
<1>0. /\ TableTypes /\ job \in [Handlers -> Job] /\ Idle \in Job /\ Fits(h) /\ job[h] \in Job
      /\ Len(proposals) \in Nat /\ DOMAIN proposals = 1 .. Len(proposals)
      /\ \A p \in DOMAIN proposals : proposals[p] \in Proposal
  BY IdleType, RowTypes DEF Typed, JobTypes
<1> HIDE DEF Idle
<1>a. job[h].at \in {"make", "botch", "mark", "decided"} => job[h].prop \in DOMAIN proposals
  BY <1>0 DEF Fits, Placed, Decisions
<1> DEFINE p == job[h].prop
<1>1. /\ job[h].at \in {"make", "botch", "mark", "decided"} /\ p \in DOMAIN proposals
      /\ proposals[p] \in Proposal /\ runs' = runs
  BY <1>0, <1>a DEF CreateLineItem, MarkBroken, AssignLine, MarkDone, MarkRejected, At
<1>2. ASSUME NEW row \in Proposal, proposals' = [proposals EXCEPT ![p] = row]
      PROVE  /\ DOMAIN proposals' = DOMAIN proposals /\ proposals'[p] = row
             /\ \A s \in DOMAIN proposals : s # p => proposals'[s] = proposals[s]
  BY <1>0, <1>1, <1>2
<1>b. ASSUME NEW w \in {"resume", "botch"}, Go(h, w)
      PROVE  job'[h].at = w /\ job'[h].prop = p
  BY <1>0, <1>b DEF Go, Job
<1>3. CASE CreateLineItem(h) /\ Go(h, "botch") /\ proposals' = proposals
  BY <1>1, <1>3, <1>b DEF CreateLineItem, At, MyProposal, Unworked
<1>4. CASE CreateLineItem(h) /\ ~(Go(h, "botch") /\ proposals' = proposals)
  <2> DEFINE row == [proposals[p] EXCEPT !.made = proposals[p].made + 1]
             left == job[h].left - 1
             work == [job[h] EXCEPT !.left = left, !.ok = TRUE,
                                    !.at = IF left = 0 THEN "mark" ELSE "make"]
  <2>1. /\ proposals' = [proposals EXCEPT ![p] = row] /\ proposals[p].kind = "line_items"
        /\ job' = [job EXCEPT ![h] = work] /\ job[h].at = "make"
    BY <1>4 DEF CreateLineItem, At, MyProposal
  <2>2. /\ row \in Proposal /\ row.made = proposals[p].made + 1 /\ row.run = proposals[p].run
        /\ row.kind = proposals[p].kind /\ row.status = proposals[p].status
        /\ row.by = proposals[p].by
    BY <1>1 DEF Proposal
  <2>3. /\ work.left = left /\ work.ok /\ work.at = (IF left = 0 THEN "mark" ELSE "make")
        /\ work.prop = p
    BY <1>0 DEF Job
  <2> HIDE DEF row, work
  <2>4. job'[h] = work
    BY <1>0, <2>1
  <2>5. /\ job'[h].left = job[h].left - 1 /\ job'[h].ok /\ job'[h].prop = p
        /\ job'[h].at = IF job'[h].left = 0 THEN "mark" ELSE "make"
    BY <2>3, <2>4
  <2>6. /\ DOMAIN proposals' = DOMAIN proposals /\ proposals'[p] = row
        /\ \A s \in DOMAIN proposals : s # p => proposals'[s] = proposals[s]
    BY <1>2, <2>1, <2>2
  <2> QED BY <1>1, <2>1, <2>2, <2>5, <2>6 DEF Worked
<1>5. CASE AssignLine(h) /\ Done(h) /\ proposals' = proposals
  <2>1. job[h].at = "make" /\ job'[h].at = "idle"
    BY <1>0, <1>5, JobNext, IdleFields DEF AssignLine, At
  <2> QED BY <1>1, <1>5, <2>1 DEF Unworked
<1>6. CASE /\ AssignLine(h) /\ proposals' = proposals
           /\ job' = [job EXCEPT ![h].at = "mark", ![h].ok = FALSE]
  <2>1. job'[h].at = "mark" /\ ~job'[h].ok /\ job'[h].prop = p
    BY <1>0, <1>6 DEF Job
  <2> QED BY <1>1, <1>6, <2>1 DEF AssignLine, At, MyProposal, Unworked
<1>7. CASE /\ AssignLine(h) /\ ~(Done(h) /\ proposals' = proposals)
           /\ ~(job' = [job EXCEPT ![h].at = "mark", ![h].ok = FALSE] /\ proposals' = proposals)
  <2> DEFINE row == [proposals[p] EXCEPT !.made = 1]
             work == [job[h] EXCEPT !.at = "mark", !.ok = TRUE]
  <2>1. /\ proposals' = [proposals EXCEPT ![p] = row] /\ proposals[p].kind = "assign"
        /\ job' = [job EXCEPT ![h] = work] /\ job[h].at = "make" /\ proposals[p].made = 0
    BY <1>7 DEF AssignLine, At, MyProposal
  <2>2. /\ row \in Proposal /\ row.made = 1 /\ row.run = proposals[p].run
        /\ row.kind = proposals[p].kind /\ row.status = proposals[p].status
        /\ row.by = proposals[p].by
    BY <1>1 DEF Proposal
  <2>3. work.ok /\ work.at = "mark" /\ work.prop = p
    BY <1>0 DEF Job
  <2> HIDE DEF row, work
  <2>4. job'[h] = work
    BY <1>0, <2>1
  <2> QED BY <1>1, <1>2, <2>1, <2>2, <2>3, <2>4 DEF Worked
<1>9. ASSUME NEW status \in {"executed", "failed", "rejected"}, NEW verdict \in Decisions,
             Mark(p, status, verdict)
      PROVE  /\ DOMAIN proposals' = DOMAIN proposals
             /\ \A s \in DOMAIN proposals : s # p => proposals'[s] = proposals[s]
             /\ proposals'[p].run = proposals[p].run /\ proposals'[p].kind = proposals[p].kind
             /\ proposals'[p].status = status /\ proposals'[p].by = verdict
             /\ proposals'[p].made = proposals[p].made
  <2> DEFINE row == [proposals[p] EXCEPT !.status = status, !.by = verdict, !.decided = TRUE]
  <2>1. proposals' = [proposals EXCEPT ![p] = row]
    BY <1>9 DEF Mark
  <2>2. /\ row \in Proposal /\ row.made = proposals[p].made /\ row.run = proposals[p].run
        /\ row.kind = proposals[p].kind /\ row.status = status /\ row.by = verdict
    BY <1>1 DEF Proposal, Decisions
  <2> HIDE DEF row
  <2> QED BY <1>2, <2>1, <2>2
<1>10. CASE MarkBroken(h)
  <2>1. Mark(p, "failed", "approve") /\ job[h].at = "botch" /\ job'[h].at = "idle"
    BY <1>0, <1>10, JobNext, IdleFields DEF MarkBroken, At
  <2> QED BY <1>1, <1>9, <2>1 DEF Worked, Decisions
<1>11. CASE MarkDone(h) /\ Done(h) /\ proposals' = proposals
  <2>1. job[h].at = "mark" /\ job'[h].at = "idle"
    BY <1>0, <1>11, JobNext, IdleFields DEF MarkDone, At
  <2> QED BY <1>1, <1>11, <2>1 DEF Unworked
<1>12. CASE MarkDone(h) /\ ~(Done(h) /\ proposals' = proposals)
  <2> DEFINE status == IF job[h].ok THEN "executed" ELSE "failed"
  <2>1. Mark(p, status, "approve") /\ job[h].at = "mark" /\ Go(h, "resume")
    BY <1>12 DEF MarkDone, At
  <2>2. status \in {"executed", "failed", "rejected"} /\ "approve" \in Decisions
    BY DEF Decisions
  <2>3. proposals'[p].status = status
    BY <1>9, <2>1, <2>2
  <2> HIDE DEF status
  <2>4. /\ DOMAIN proposals' = DOMAIN proposals
        /\ \A s \in DOMAIN proposals : s # p => proposals'[s] = proposals[s]
        /\ proposals'[p].run = proposals[p].run /\ proposals'[p].kind = proposals[p].kind
        /\ proposals'[p].by = "approve" /\ proposals'[p].made = proposals[p].made
    BY <1>9, <2>1, <2>2
  <2> QED BY <1>1, <1>b, <2>1, <2>3, <2>4 DEF Worked, status
<1>13. CASE MarkRejected(h)
  <2>1. Mark(p, "rejected", "reject") /\ job[h].at = "decided" /\ Go(h, "resume")
    BY <1>13 DEF MarkRejected, At
  <2> QED BY <1>1, <1>9, <1>b, <2>1 DEF Worked, Decisions
<1> QED BY <1>3, <1>4, <1>5, <1>6, <1>7, <1>10, <1>11, <1>12, <1>13

LEMMA ProposeMakes ==
    ASSUME Typed, NEW h \in Handlers, PersistProposal(h)
    PROVE  ProposalMade(h) \/ (Go(h, "fail") /\ proposals' = proposals)
<1>0. /\ TableTypes /\ job \in [Handlers -> Job] /\ Fits(h) /\ job[h] \in Job
      /\ Len(proposals) \in Nat /\ DOMAIN proposals = 1 .. Len(proposals)
  BY RowTypes DEF Typed, JobTypes
<1>a. SUFFICES ASSUME ~(Go(h, "fail") /\ proposals' = proposals)
               PROVE  ProposalMade(h)
  OBVIOUS
<1> DEFINE p == Len(proposals) + 1
<1>1. PICK kind \in {"line_items", "assign"} :
         proposals' = Append(proposals,
               [run |-> job[h].run, kind |-> kind, status |-> "pending",
                by |-> "nobody", decided |-> FALSE, made |-> 0])
  BY <1>a DEF PersistProposal
<1> DEFINE new == [run |-> job[h].run, kind |-> kind, status |-> "pending",
                   by |-> "nobody", decided |-> FALSE, made |-> 0]
           work == [job[h] EXCEPT !.left = job[h].left - 1,
                                  !.new = job[h].new \cup {p},
                                  !.at = IF job[h].left - 1 = 0 THEN "park" ELSE "propose"]
<1>2. job[h].at = "propose" /\ runs' = runs /\ job' = [job EXCEPT ![h] = work]
  BY <1>a DEF PersistProposal, At
<1>3. /\ work.at \in {"park", "propose"} /\ work.new = job[h].new \cup {p}
      /\ work.run = job[h].run /\ work.prop = job[h].prop
  BY <1>0 DEF Job
<1>4. job[h].run \in 1 .. MaxRuns
  BY <1>0, <1>2 DEF Fits, Job, Early
<1>5. /\ new \in Proposal /\ new.run = job[h].run /\ new.status = "pending" /\ new.made = 0
      /\ new.kind = kind /\ proposals' = Append(proposals, new)
  BY <1>1, <1>4 DEF Proposal
<1> HIDE DEF work, new
<1>6. job'[h] = work
  BY <1>0, <1>2
<1>7. /\ DOMAIN proposals' = 1 .. p /\ proposals'[p] = new
      /\ \A s \in 1 .. Len(proposals) : proposals'[s] = proposals[s]
  BY <1>0, <1>5 DEF TableTypes
<1>8. DOMAIN proposals' = DOMAIN proposals \cup {p} /\ p \notin DOMAIN proposals
  BY <1>0, <1>7
<1> QED BY <1>0, <1>2, <1>3, <1>5, <1>6, <1>7, <1>8 DEF ProposalMade

LEMMA TidyTidies ==
    ASSUME Typed, NEW h \in Handlers, TidyProposals(h)
    PROVE  Tidied(h)
<1>0. /\ job \in [Handlers -> Job] /\ job[h] \in Job
      /\ \A p \in DOMAIN proposals : proposals[p] \in Proposal
  BY RowTypes DEF Typed, JobTypes
<1> HIDE DEF Idle
<1>1. job[h].at = "tidy" /\ runs' = runs /\ job'[h].at = "idle"
  BY <1>0, JobNext, IdleFields DEF TidyProposals, At
<1>2. /\ DOMAIN proposals' = DOMAIN proposals
      /\ \A p \in DOMAIN proposals :
           proposals'[p] = IF p \in PendingOf(job[h].run)
                           THEN [proposals[p] EXCEPT !.status = "rejected"] ELSE proposals[p]
  BY DEF TidyProposals
<1>3. ASSUME NEW p \in DOMAIN proposals, proposals'[p] = [proposals[p] EXCEPT !.status = "rejected"]
      PROVE  /\ proposals'[p].run = proposals[p].run /\ proposals'[p].kind = proposals[p].kind
             /\ proposals'[p].made = proposals[p].made /\ proposals'[p].by = proposals[p].by
             /\ proposals'[p].status = "rejected"
  BY <1>0, <1>3 DEF Proposal
<1> QED BY <1>1, <1>2, <1>3 DEF Tidied

LEMMA ProposalEffects ==
    ASSUME Typed, NEW h \in Handlers, RunStep(h) \/ DecisionStep(h) \/ Throw(h)
    PROVE  proposals' = proposals \/ ProposalMade(h) \/ Tidied(h) \/ Worked(h)
<1>0. /\ TableTypes /\ job \in [Handlers -> Job] /\ Idle \in Job /\ Fits(h) /\ job[h] \in Job
      /\ Len(proposals) \in Nat /\ DOMAIN proposals = 1 .. Len(proposals)
      /\ \A p \in DOMAIN proposals : proposals[p] \in Proposal
  BY IdleType, RowTypes DEF Typed, JobTypes
<1> HIDE DEF Idle
<1>1. CASE PersistProposal(h)
  BY <1>1, ProposeMakes
<1>2. CASE TidyProposals(h)
  BY <1>2, TidyTidies
<1>3. CASE CreateLineItem(h) \/ MarkBroken(h) \/ AssignLine(h) \/ MarkDone(h) \/ MarkRejected(h)
  BY <1>3, WorkEffects DEF Unworked
<1>4. CASE ~(PersistProposal(h) \/ TidyProposals(h) \/ CreateLineItem(h) \/ MarkBroken(h)
             \/ AssignLine(h) \/ MarkDone(h) \/ MarkRejected(h))
  <2>1. \/ UNCHANGED rowVars \/ Enqueue(h)
        \/ \E r \in jobs : TakeJob(h, r)
        \/ \E c \in Chats : AddTurn(h, c)
        \/ RecordAssistantTurn(h) \/ CreateRun(h) \/ PersistCompleted(h)
        \/ PersistAwaiting(h) \/ FailRun(h) \/ StopRun(h) \/ SetHidden(h)
    BY <1>4 DEF RunStep, DecisionStep, StartRun, AssertNoOpenRun, StartConversationRun,
                ReadPrincipal, LoadRun, CheckSwitch, ModelTurn, AbortRun, SweepRun, HideRun,
                Approve, Reject, LoadDecidable, AskToResume, ReloadRun, Catch, Throw
  <2>2. proposals' = proposals
    BY <2>1 DEF rowVars, AddTurn, Enqueue, TakeJob, RecordAssistantTurn, CreateRun,
                PersistCompleted, PersistAwaiting, FailRun, StopRun, SetHidden
  <2> QED BY <2>2
<1> QED BY <1>1, <1>2, <1>3, <1>4

\* A handler keeps what it works on while it goes on.
Carries(h) ==
    job[h].at # "idle" /\ job'[h].at # "idle" =>
        /\ job'[h].op = job[h].op /\ job'[h].about = job[h].about /\ job'[h].prop = job[h].prop
        /\ job[h].at # "create" => job'[h].run = job[h].run

\* Where a handler of a start comes from, and what it has seen there.
ComesToStart(h) ==
    /\ job'[h].at = "principal" =>
          \/ job[h].at = "open" /\ OpenRunsOn(job[h].about) = {}
          \/ job[h].at = "gate" /\ job[h].op = "ask"
    /\ job'[h].at = "create" => job[h].at = "principal" /\ enabled
    /\ job'[h].at = "enqueue" => RunMade(h)

ComesToStretch(h) ==
    /\ job'[h].at = "switch" => job[h].at = "load" /\ MyRun(h).status = "running"
    /\ job'[h].at = "model" =>
          \/ job[h].at = "switch" /\ enabled
          \/ /\ job[h].at = "reload" /\ MyRun(h).status = "awaiting_approval"
             /\ MyRun(h).saved = {job[h].prop}
    /\ job'[h].at = "finish" => job[h].at = "model"
    /\ job'[h].at = "propose" => \/ job[h].at = "model" /\ job'[h].new = {}
                                 \/ ProposalMade(h)
    /\ job'[h].at = "park" => ProposalMade(h)
    /\ job'[h].at = "fail" =>
          \/ job[h].at \in {"enqueue", "switch", "model", "propose", "finish", "park"}
          \/ job[h].at = "reload" /\ MyRun(h).status = "awaiting_approval"
    /\ job'[h].at = "stop" => /\ job[h].at \in {"idle", "reload"} /\ job'[h].run \in DOMAIN runs
                              /\ runs[job'[h].run].status \in NonTerminal
    /\ job'[h].at = "tidy" => RunWritten(h)

ComesToDecide(h) ==
    /\ job'[h].at = "decide" => job[h].at = "idle" /\ enabled
    /\ job'[h].at = "make" =>
          \/ /\ job[h].at = "decide" /\ Decidable(job[h].prop) /\ job'[h].left = Items
             /\ job[h].prop \in DOMAIN proposals /\ proposals' = proposals
          \/ job[h].at = "make" /\ Worked(h)
    /\ job'[h].at = "botch" => Unworked(h)
    /\ job'[h].at = "mark" => Worked(h) \/ Unworked(h)
    /\ job'[h].at = "decided" => /\ job[h].at = "idle" /\ Decidable(job'[h].prop)
                                 /\ job'[h].prop \in DOMAIN proposals /\ proposals' = proposals
    /\ job'[h].at = "resume" => Worked(h)
    /\ job'[h].at = "reload" => job[h].at = "resume" /\ enabled

Comes(h) == Carries(h) /\ ComesToStart(h) /\ ComesToStretch(h) /\ ComesToDecide(h)

LEMMA Arrivals ==
    ASSUME Typed, NEW h \in Handlers, RunStep(h) \/ DecisionStep(h) \/ Throw(h)
    PROVE  Comes(h)
<1>0. /\ TableTypes /\ job \in [Handlers -> Job] /\ Idle \in Job /\ Fits(h) /\ job[h] \in Job
      /\ Len(runs) \in Nat /\ DOMAIN runs = 1 .. Len(runs)
      /\ Len(proposals) \in Nat /\ DOMAIN proposals = 1 .. Len(proposals)
  BY IdleType, RowTypes DEF Typed, JobTypes
<1> HIDE DEF Idle
<1>a. ASSUME NEW w, Go(h, w)
      PROVE  /\ job'[h].at = w /\ job'[h].op = job[h].op /\ job'[h].about = job[h].about
             /\ job'[h].prop = job[h].prop /\ job'[h].run = job[h].run
  BY <1>0, <1>a DEF Go, Job
<1>b. CASE job'[h].at = "idle"
  BY <1>b DEF Comes, Carries, ComesToStart, ComesToStretch, ComesToDecide
<1>c. ASSUME Done(h) PROVE Comes(h)
  <2>1. job'[h].at = "idle"
    BY <1>0, <1>c, JobNext, IdleFields
  <2> QED BY <1>b, <2>1
<1>d. ASSUME NEW work \in Job, Begin(h, work)
      PROVE  job'[h] = work /\ job[h].at = "idle"
  BY <1>0, <1>d, JobNext
<1>1. CASE \/ \E q \in Requests : StartRun(h, q)
           \/ \E c \in Chats : AddTurn(h, c)
           \/ \E r \in jobs : TakeJob(h, r)
           \/ \E r \in DOMAIN runs : HideRun(h, r)
  <2>1. ASSUME NEW about \in Topics, NEW r \in 0 .. MaxRuns, NEW op \in Ops,
               NEW at \in {"open", "gate", "load", "hide"},
               Begin(h, [Idle EXCEPT !.op = op, !.at = at, !.about = about])
               \/ Begin(h, [Idle EXCEPT !.op = op, !.at = at, !.about = about, !.run = r])
        PROVE  Comes(h)
    <3>1. /\ [Idle EXCEPT !.op = op, !.at = at, !.about = about] \in Job
          /\ [Idle EXCEPT !.op = op, !.at = at, !.about = about].at = at
          /\ [Idle EXCEPT !.op = op, !.at = at, !.about = about, !.run = r] \in Job
          /\ [Idle EXCEPT !.op = op, !.at = at, !.about = about, !.run = r].at = at
      BY <1>0 DEF Job, Points
    <3>2. job'[h].at = at /\ job[h].at = "idle"
      BY <1>d, <2>1, <3>1
    <3> QED BY <3>2 DEF Comes, Carries, ComesToStart, ComesToStretch, ComesToDecide
  <2>2. /\ Requests \subseteq Topics /\ Chats \subseteq Topics /\ 0 \in 0 .. MaxRuns
        /\ \A r \in DOMAIN runs : runs[r].about \in Topics /\ r \in 0 .. MaxRuns
        /\ jobs \subseteq DOMAIN runs
    <3>1. \A r \in DOMAIN runs : runs[r].about \in Topics /\ r \in 0 .. MaxRuns
      BY <1>0, RowTypes DEF Run
    <3> QED BY <1>0, <3>1, AgentAssumption DEF TableTypes, Topics
  <2>3. ASSUME NEW q \in Requests, StartRun(h, q) PROVE Comes(h)
    BY <2>1, <2>2, <2>3 DEF StartRun, Ops
  <2>4. ASSUME NEW c \in Chats, AddTurn(h, c) PROVE Comes(h)
    BY <2>1, <2>2, <2>4 DEF AddTurn, Ops
  <2>5. ASSUME NEW r \in jobs, TakeJob(h, r) PROVE Comes(h)
    BY <2>1, <2>2, <2>5 DEF TakeJob, Ops
  <2>6. ASSUME NEW r \in DOMAIN runs, HideRun(h, r) PROVE Comes(h)
    BY <2>1, <2>2, <2>6 DEF HideRun, Ops
  <2> QED BY <1>1, <2>3, <2>4, <2>5, <2>6
<1>2. CASE \E r \in DOMAIN runs : AbortRun(h, r) \/ SweepRun(h, r)
  <2>1. PICK r \in DOMAIN runs, op \in {"abort", "expire"} :
          /\ Begin(h, [Idle EXCEPT !.op = op, !.at = "stop", !.about = runs[r].about, !.run = r])
          /\ runs[r].status \in NonTerminal
    BY <1>2 DEF AbortRun, SweepRun, NonTerminal
  <2> DEFINE work == [Idle EXCEPT !.op = op, !.at = "stop", !.about = runs[r].about, !.run = r]
  <2>2. runs[r].about \in Topics /\ r \in 0 .. MaxRuns
    BY <1>0, RowTypes DEF Run
  <2>3. work \in Job /\ work.at = "stop" /\ work.run = r
    BY <1>0, <2>2 DEF Job, Ops, Points
  <2>4. job'[h].at = "stop" /\ job[h].at = "idle" /\ job'[h].run = r
    BY <1>d, <2>1, <2>3
  <2> QED BY <2>1, <2>4 DEF Comes, Carries, ComesToStart, ComesToStretch, ComesToDecide
<1>3. CASE \E p \in DOMAIN proposals : Approve(h, p) \/ Reject(h, p)
  <2>1. PICK p \in DOMAIN proposals : Approve(h, p) \/ Reject(h, p)
    BY <1>3
  <2>2. /\ proposals[p].run \in 0 .. MaxRuns /\ p \in 0 .. MaxProposals
        /\ runs[proposals[p].run].about \in Topics
    BY <1>0, RowTypes DEF Run, TableTypes
  <2>3. ASSUME NEW verdict \in Decisions, NEW at \in {"decide", "decided"},
               Begin(h, Deciding(p, verdict, at))
        PROVE  job'[h].at = at /\ job'[h].prop = p /\ job[h].at = "idle"
    <3>1. /\ Deciding(p, verdict, at) \in Job /\ Deciding(p, verdict, at).at = at
          /\ Deciding(p, verdict, at).prop = p
      BY <1>0, <2>2 DEF Deciding, Job, Ops, Points, Decisions
    <3> QED BY <1>d, <2>3, <3>1
  <2>4. CASE Approve(h, p)
    <3>1. job'[h].at = "decide" /\ job[h].at = "idle" /\ enabled
      BY <2>3, <2>4 DEF Approve, Decisions
    <3> QED BY <3>1 DEF Comes, Carries, ComesToStart, ComesToStretch, ComesToDecide
  <2>5. CASE Reject(h, p)
    <3>1. /\ job'[h].at = "decided" /\ job[h].at = "idle" /\ job'[h].prop = p /\ Decidable(p)
          /\ proposals' = proposals
      BY <2>3, <2>5 DEF Reject, Decisions, rowVars
    <3> QED BY <3>1 DEF Comes, Carries, ComesToStart, ComesToStretch, ComesToDecide
  <2> QED BY <2>1, <2>4, <2>5
<1>4. CASE AssertNoOpenRun(h) \/ StartConversationRun(h) \/ ReadPrincipal(h)
  <2>1. CASE Done(h)
    BY <1>c, <2>1
  <2>2. CASE ~Done(h)
    <3>1. \/ job[h].at = "open" /\ OpenRunsOn(job[h].about) = {} /\ Go(h, "principal")
          \/ job[h].at = "gate" /\ Go(h, "principal")
          \/ job[h].at = "principal" /\ enabled /\ Go(h, "create")
      BY <1>4, <2>2 DEF AssertNoOpenRun, StartConversationRun, ReadPrincipal, At
    <3>2. job[h].at = "gate" => job[h].op = "ask"
      BY <1>0 DEF Fits, Placed, Job, Ops
    <3>3. /\ job'[h].op = job[h].op /\ job'[h].about = job[h].about
          /\ job'[h].prop = job[h].prop /\ job'[h].run = job[h].run
          /\ \/ job[h].at = "open" /\ OpenRunsOn(job[h].about) = {} /\ job'[h].at = "principal"
             \/ job[h].at = "gate" /\ job'[h].at = "principal"
             \/ job[h].at = "principal" /\ enabled /\ job'[h].at = "create"
      BY <1>a, <3>1
    <3> QED BY <3>2, <3>3 DEF Comes, Carries, ComesToStart, ComesToStretch, ComesToDecide
  <2> QED BY <2>1, <2>2
<1>5. CASE Enqueue(h) \/ LoadRun(h) \/ CheckSwitch(h) \/ AskToResume(h) \/ ReloadRun(h) \/ Catch(h)
  <2>1. CASE Done(h)
    BY <1>c, <2>1
  <2>2. CASE ~Done(h)
    <3>1. \/ job[h].at = "enqueue" /\ Go(h, "fail")
          \/ job[h].at = "load" /\ MyRun(h).status = "running" /\ Go(h, "switch")
          \/ job[h].at = "load" /\ MyRun(h).status # "running" /\ Go(h, "tell")
          \/ job[h].at = "switch" /\ enabled /\ Go(h, "model")
          \/ job[h].at = "switch" /\ Go(h, "fail")
          \/ job[h].at = "resume" /\ enabled /\ Go(h, "reload")
          \/ /\ job[h].at = "reload" /\ MyRun(h).status = "awaiting_approval"
             /\ \/ MyRun(h).saved = {job[h].prop} /\ Go(h, "model")
                \/ Go(h, "fail") \/ Go(h, "stop")
          \/ job[h].at \in {"finish", "park"} /\ Go(h, "fail")
      BY <1>5, <2>2 DEF Enqueue, LoadRun, CheckSwitch, AskToResume, ReloadRun, Catch, At,
                          Resumable, MyRun
    <3>2. /\ job'[h].op = job[h].op /\ job'[h].about = job[h].about
          /\ job'[h].prop = job[h].prop /\ job'[h].run = job[h].run
          /\ \/ job[h].at = "enqueue" /\ job'[h].at = "fail"
             \/ job[h].at = "load" /\ MyRun(h).status = "running" /\ job'[h].at = "switch"
             \/ job[h].at = "load" /\ MyRun(h).status # "running" /\ job'[h].at = "tell"
             \/ job[h].at = "switch" /\ enabled /\ job'[h].at = "model"
             \/ job[h].at = "switch" /\ job'[h].at = "fail"
             \/ job[h].at = "resume" /\ enabled /\ job'[h].at = "reload"
             \/ /\ job[h].at = "reload" /\ MyRun(h).status = "awaiting_approval"
                /\ \/ MyRun(h).saved = {job[h].prop} /\ job'[h].at = "model"
                   \/ job'[h].at \in {"fail", "stop"}
             \/ job[h].at \in {"finish", "park"} /\ job'[h].at = "fail"
      BY <1>a, <3>1
    <3>3. job[h].at = "reload" => job[h].run \in DOMAIN runs /\ MyRun(h) = runs[job[h].run]
      BY <1>0 DEF Fits, Early, MyRun
    <3>4. "awaiting_approval" \in NonTerminal
      BY DEF NonTerminal
    <3> HIDE DEF MyRun
    <3> QED BY <3>2, <3>3, <3>4 DEF Comes, Carries, ComesToStart, ComesToStretch, ComesToDecide
  <2> QED BY <2>1, <2>2
<1>6. CASE CreateRun(h)
  <2>1. CASE Done(h)
    BY <1>c, <2>1
  <2>2. CASE ~Done(h)
    <3>1. RunMade(h) /\ job[h].at = "create"
      BY <1>6, <2>2, CreateMakes DEF RunMade
    <3>2. job' = [job EXCEPT ![h].at = "enqueue", ![h].run = Len(runs) + 1]
      BY <1>6, <2>2 DEF CreateRun
    <3>3. /\ job'[h].at = "enqueue" /\ job'[h].op = job[h].op /\ job'[h].about = job[h].about
          /\ job'[h].prop = job[h].prop
      BY <1>0, <3>2 DEF Job
    <3> QED BY <3>1, <3>3 DEF Comes, Carries, ComesToStart, ComesToStretch, ComesToDecide
  <2> QED BY <2>1, <2>2
<1>7. CASE ModelTurn(h)
  <2>1. job[h].at = "model"
    BY <1>7 DEF ModelTurn, At
  <2>2. ASSUME NEW n \in 1 .. 2,
               job' = [job EXCEPT ![h].at = "propose", ![h].left = n, ![h].new = {}]
        PROVE  /\ job'[h].op = job[h].op /\ job'[h].about = job[h].about
               /\ job'[h].prop = job[h].prop /\ job'[h].run = job[h].run
               /\ job'[h].at = "propose" /\ job'[h].new = {}
    BY <1>0, <2>2 DEF Job
  <2>3. /\ job'[h].op = job[h].op /\ job'[h].about = job[h].about
        /\ job'[h].prop = job[h].prop /\ job'[h].run = job[h].run
        /\ \/ job'[h].at \in {"fail", "finish"}
           \/ job'[h].at = "propose" /\ job'[h].new = {}
    BY <1>7, <1>a, <2>2 DEF ModelTurn
  <2> QED BY <2>1, <2>3 DEF Comes, Carries, ComesToStart, ComesToStretch, ComesToDecide
<1>8. CASE PersistProposal(h)
  <2>1. job[h].at = "propose"
    BY <1>8 DEF PersistProposal, At
  <2>2. CASE Go(h, "fail")
    <3>1. /\ job'[h].op = job[h].op /\ job'[h].about = job[h].about
          /\ job'[h].prop = job[h].prop /\ job'[h].run = job[h].run /\ job'[h].at = "fail"
      BY <1>a, <2>2
    <3> QED BY <2>1, <3>1 DEF Comes, Carries, ComesToStart, ComesToStretch, ComesToDecide
  <2>3. CASE ~Go(h, "fail")
    <3> DEFINE work == [job[h] EXCEPT !.left = job[h].left - 1,
                                      !.new = job[h].new \cup {Len(proposals) + 1},
                                      !.at = IF job[h].left - 1 = 0 THEN "park" ELSE "propose"]
    <3>1. job' = [job EXCEPT ![h] = work]
      BY <1>8, <2>3 DEF PersistProposal
    <3>2. /\ work.at \in {"park", "propose"} /\ work.op = job[h].op
          /\ work.about = job[h].about /\ work.prop = job[h].prop /\ work.run = job[h].run
      BY <1>0 DEF Job
    <3> HIDE DEF work
    <3>3. job'[h] = work
      BY <1>0, <3>1
    <3>4. ProposalMade(h)
      BY <1>8, <2>3, ProposeMakes
    <3> QED BY <2>1, <3>2, <3>3, <3>4 DEF Comes, Carries, ComesToStart, ComesToStretch, ComesToDecide
  <2> QED BY <2>2, <2>3
<1>9. ASSUME PersistCompleted(h) \/ PersistAwaiting(h) \/ FailRun(h) \/ StopRun(h)
      PROVE  Comes(h)
  <2>1. CASE Done(h)
    BY <1>c, <2>1
  <2>2. CASE ~Done(h)
    <3>1. RunWritten(h)
      BY <1>9, EndWrites
    <3>2. job[h].at \in {"finish", "park", "fail", "stop"}
      BY <1>9 DEF PersistCompleted, PersistAwaiting, FailRun, StopRun, At
    <3>3. \/ \E spoke \in BOOLEAN : job' = [job EXCEPT ![h].at = "tell", ![h].ok = spoke]
          \/ Go(h, "tidy")
      BY <1>9, <2>2 DEF PersistCompleted, PersistAwaiting, FailRun, StopRun, EndStretch
    <3>4. /\ job'[h].op = job[h].op /\ job'[h].about = job[h].about
          /\ job'[h].prop = job[h].prop /\ job'[h].run = job[h].run
          /\ job'[h].at \in {"tell", "tidy"}
      BY <1>0, <1>a, <3>3 DEF Job
    <3> QED BY <3>1, <3>2, <3>4 DEF Comes, Carries, ComesToStart, ComesToStretch, ComesToDecide
  <2> QED BY <2>1, <2>2
<1>10. CASE SetHidden(h) \/ TidyProposals(h) \/ RecordAssistantTurn(h)
  BY <1>10, <1>c DEF SetHidden, TidyProposals, RecordAssistantTurn
<1>11. CASE LoadDecidable(h)
  <2>1. CASE Done(h)
    BY <1>c, <2>1
  <2>2. CASE ~Done(h)
    <3>1. /\ job[h].at = "decide" /\ Decidable(job[h].prop) /\ proposals' = proposals
          /\ job' = [job EXCEPT ![h].at = "make", ![h].left = Items]
      BY <1>11, <2>2 DEF LoadDecidable, At, rowVars
    <3>2. /\ job'[h].op = job[h].op /\ job'[h].about = job[h].about
          /\ job'[h].prop = job[h].prop /\ job'[h].run = job[h].run
          /\ job'[h].at = "make" /\ job'[h].left = Items
      BY <1>0, <3>1 DEF Job
    <3>3. job[h].prop \in DOMAIN proposals
      BY <1>0, <3>1 DEF Fits, Placed, Decisions
    <3> HIDE DEF Decidable
    <3> QED BY <3>1, <3>2, <3>3 DEF Comes, Carries, ComesToStart, ComesToStretch, ComesToDecide
  <2> QED BY <2>1, <2>2
<1>12. CASE CreateLineItem(h) \/ MarkBroken(h) \/ AssignLine(h) \/ MarkDone(h) \/ MarkRejected(h)
  <2>1. CASE Done(h)
    BY <1>c, <2>1
  <2>2. CASE ~Done(h)
    <3>1. Worked(h) \/ Unworked(h)
      BY <1>12, WorkEffects
    <3>2. /\ job'[h].op = job[h].op /\ job'[h].about = job[h].about
          /\ job'[h].prop = job[h].prop /\ job'[h].run = job[h].run
      BY <1>0, <1>12, <2>2 DEF CreateLineItem, MarkBroken, AssignLine, MarkDone, MarkRejected, Go, Job
    <3>3. /\ job'[h].at \in {"make", "botch", "mark", "resume", "idle"}
          /\ job'[h].at = "make" => Worked(h) /\ job[h].at = "make"
          /\ job'[h].at = "botch" => Unworked(h)
          /\ job'[h].at = "resume" => Worked(h)
      BY <3>1 DEF Worked, Unworked
    <3>4. job[h].at \in {"make", "botch", "mark", "decided"}
      BY <1>12 DEF CreateLineItem, MarkBroken, AssignLine, MarkDone, MarkRejected, At
    <3> QED BY <3>1, <3>2, <3>3, <3>4 DEF Comes, Carries, ComesToStart, ComesToStretch, ComesToDecide
  <2> QED BY <2>1, <2>2
<1>13. CASE Throw(h)
  <2>1. CASE Done(h)
    BY <1>c, <2>1
  <2>2. CASE ~Done(h)
    <3>1. /\ job[h].at \in {"load", "fail"}
          /\ job' = [job EXCEPT ![h].at = "tell", ![h].ok = FALSE]
      BY <1>13, <2>2 DEF Throw, EndStretch
    <3>2. /\ job'[h].op = job[h].op /\ job'[h].about = job[h].about
          /\ job'[h].prop = job[h].prop /\ job'[h].run = job[h].run /\ job'[h].at = "tell"
      BY <1>0, <3>1 DEF Job
    <3> QED BY <3>1, <3>2 DEF Comes, Carries, ComesToStart, ComesToStretch, ComesToDecide
  <2> QED BY <2>1, <2>2
<1> QED BY <1>1, <1>2, <1>3, <1>4, <1>5, <1>6, <1>7, <1>8, <1>9, <1>10, <1>11, <1>12, <1>13
        DEF RunStep, DecisionStep

\* The kinds of steps of the system.
HandlerStep(h) == /\ Alone(h) /\ Comes(h) /\ enabled' = enabled
                  /\ RunsStay \/ RunWritten(h) \/ RunMade(h)
                  /\ proposals' = proposals \/ ProposalMade(h) \/ Tidied(h) \/ Worked(h)

LEMMA StepKinds ==
    ASSUME Typed, Next
    PROVE  \/ \E h \in Handlers : /\ RunStep(h) \/ DecisionStep(h)
                                  /\ HandlerStep(h) /\ Remember(FALSE) /\ LeaveBehind({})
           \/ \E h \in Handlers : /\ Throw(h)
                                  /\ HandlerStep(h) /\ Remember(FALSE) /\ LeaveBehind({h})
           \/ /\ enabled' = ~enabled /\ UNCHANGED <<rowVars, job>>
              /\ Remember(FALSE) /\ LeaveBehind({})
           \/ Restart /\ Remember(TRUE) /\ LeaveBehind(Handlers)
<1>1. ASSUME NEW h \in Handlers, RunStep(h) \/ DecisionStep(h) \/ Throw(h)
      PROVE  HandlerStep(h)
  <2>1. enabled' = enabled
    BY <1>1 DEF RunStep, DecisionStep, StartRun, AddTurn, AssertNoOpenRun, StartConversationRun,
                ReadPrincipal, CreateRun, Enqueue, TakeJob, LoadRun, CheckSwitch, ModelTurn,
                PersistCompleted, PersistProposal, PersistAwaiting, FailRun, RecordAssistantTurn,
                AbortRun, SweepRun, HideRun, StopRun, TidyProposals, SetHidden, Approve, Reject,
                LoadDecidable, CreateLineItem, MarkBroken, AssignLine, MarkDone, MarkRejected,
                AskToResume, ReloadRun, Catch, Throw
  <2>2. Alone(h)
    BY <1>1, MovesAlone DEF Typed, JobTypes
  <2> QED BY <1>1, <2>1, <2>2, Arrivals, RunEffects, ProposalEffects DEF HandlerStep
<1> QED BY <1>1 DEF Next, SetSwitch

-----------------------------------------------------------------------------
(* The switch.  Past its own check and before what the switch forbids, a      *)
(* handler that finds the switch off was there when it went off.              *)

LateInv ==
    \A h \in Handlers :
        ~enabled /\ job[h].at \in {"create", "reload", "decide", "make"} => h \in late

LEMMA LateInit == Init => LateInv
BY IdleFields DEF Init, AgentInit, LateInv

LEMMA LateStep == Typed /\ LateInv /\ [Next]_vars => LateInv'
<1> SUFFICES ASSUME Typed, LateInv, [Next]_vars,
                    NEW h \in Handlers, ~enabled',
                    job'[h].at \in {"create", "reload", "decide", "make"}
             PROVE  h \in late'
  BY DEF LateInv
<1>1. CASE UNCHANGED vars
  BY <1>1 DEF vars, agentVars, history, LateInv
<1>2. CASE Next
  <2>1. \E stops \in BOOLEAN : Remember(stops)
    BY <1>2 DEF Next
  <2>2. h \in late' <=> enabled \/ h \in late
    BY <2>1 DEF Remember, Unstoppable
  <2>3. CASE enabled
    BY <2>2, <2>3
  <2>4. CASE Restart
    BY <2>4, IdleFields DEF Restart
  <2>5. ASSUME NEW g \in Handlers, HandlerStep(g), ~enabled
        PROVE  h \in late
    <3>1. CASE g # h
      BY <2>5, <3>1 DEF HandlerStep, Alone, LateInv
    <3>2. CASE g = h
      BY <2>5, <3>2 DEF HandlerStep, Comes, ComesToStart, ComesToDecide, LateInv
    <3> QED BY <3>1, <3>2
  <2> QED BY <1>2, <2>2, <2>3, <2>4, <2>5, StepKinds
<1> QED BY <1>1, <1>2

\* An agent that is switched off (assertEnabled) creates no run, calls no model and
\* makes nothing, but by handlers that were past their own check when it went off.
THEOREM SwitchHolds == Spec => SwitchedOffIsInert
<1>1. Typed /\ LateInv /\ [Next]_vars =>
        [\A h \in Handlers :
            ~enabled /\ job'[h] # job[h] /\
            (\/ Len(runs') > Len(runs)
             \/ job'[h].at = "model"
             \/ \E p \in DOMAIN proposals : proposals'[p].made > proposals[p].made)
                => h \in late]_vars
  <2> SUFFICES ASSUME Typed, LateInv, Next, NEW h \in Handlers, ~enabled, job'[h] # job[h],
                      \/ Len(runs') > Len(runs)
                      \/ job'[h].at = "model"
                      \/ \E p \in DOMAIN proposals : proposals'[p].made > proposals[p].made
               PROVE  h \in late
    OBVIOUS
  <2>0. /\ \A p \in DOMAIN proposals : proposals[p].made \in Nat
        /\ Len(runs) \in Nat /\ DOMAIN runs = 1 .. Len(runs)
    BY RowTypes DEF Typed, Proposal
  <2>1. CASE Restart
    BY <2>0, <2>1, IdleFields DEF Restart
  <2>2. ASSUME NEW g \in Handlers, HandlerStep(g) PROVE h \in late
    <3>1. g = h
      BY <2>2 DEF HandlerStep, Alone
    <3>2. CASE job'[h].at = "model"
      BY <2>2, <3>1, <3>2 DEF HandlerStep, Comes, ComesToStretch, LateInv
    <3>3. CASE Len(runs') > Len(runs)
      <4>1. DOMAIN runs' # DOMAIN runs
        <5>1. Len(runs') \in Nat /\ DOMAIN runs' = 1 .. Len(runs')
          BY StepTypes, LenProperties DEF Typed, TableTypes
        <5>2. Len(runs') \in 1 .. Len(runs') /\ Len(runs') \notin 1 .. Len(runs)
          BY <2>0, <3>3, <5>1
        <5> QED BY <2>0, <5>1, <5>2
      <4>2. RunMade(h)
        BY <2>2, <3>1, <4>1 DEF HandlerStep, RunsStay, RunWritten
      <4> QED BY <4>2 DEF RunMade, LateInv
    <3>4. CASE \E p \in DOMAIN proposals : proposals'[p].made > proposals[p].made
      <4>1. PICK p \in DOMAIN proposals : proposals'[p].made > proposals[p].made
        BY <3>4
      <4>2. proposals'[p].made # proposals[p].made
        BY <2>0, <4>1
      <4>3. ~(proposals' = proposals) /\ ~ProposalMade(h) /\ ~Tidied(h)
        BY <4>2 DEF ProposalMade, Tidied
      <4>4. Worked(h)
        BY <2>2, <3>1, <4>3 DEF HandlerStep
      <4> QED BY <4>2, <4>4 DEF Worked, LateInv
    <3> QED BY <3>2, <3>3, <3>4
  <2> QED BY <2>1, <2>2, StepKinds
<1> QED BY <1>1, InitTypes, StepTypes, LateInit, LateStep, PTL DEF Spec, SwitchedOffIsInert

-----------------------------------------------------------------------------
(* Writers.  Two handlers that are about to write the status of a run have met, *)
(* and one that is about to write the status of a run that ended has too.       *)

WriterInv ==
    /\ \A r \in DOMAIN runs : \A g, h \in Handlers :
          g # h /\ WillWrite(g, r) /\ WillWrite(h, r) => r \in disturbed
    /\ \A r \in DOMAIN runs : \A h \in Handlers :
          WillWrite(h, r) /\ runs[r].status \in Terminal => r \in disturbed

Writing == {"switch", "model", "propose", "park", "finish", "fail", "enqueue", "stop"}

LEMMA WriterInit == Init => WriterInv
BY IdleFields DEF Init, AgentInit, WriterInv, WillWrite

\* Whoever writes the status of a run was about to.
LEMMA WriterIs ==
    ASSUME NEW h \in Handlers, RunWritten(h)
    PROVE  /\ WillWrite(h, job[h].run) /\ job[h].run \in DOMAIN runs
           /\ job'[h].at \in {"idle", "tell", "tidy"} /\ DOMAIN runs' = DOMAIN runs
BY DEF RunWritten, WillWrite

\* Who is about to write was so before, or has just read that the run is open, or
\* has just created it.
LEMMA WriterComes ==
    ASSUME Typed, NEW h \in Handlers, Comes(h), Fits(h)', NEW r, WillWrite(h, r)'
    PROVE  \/ WillWrite(h, r)
           \/ r \in DOMAIN runs /\ runs[r].status \in NonTerminal /\ ~RunWritten(h) /\ ~RunMade(h)
           \/ RunMade(h) /\ r = Len(runs) + 1
<1>1. /\ job'[h].run = r /\ job'[h].at \in Writing /\ Fits(h) /\ TableTypes
      /\ Len(runs) \in Nat /\ DOMAIN runs = 1 .. Len(runs)
  BY RowTypes DEF WillWrite, Writing, Typed, JobTypes
<1>2. CASE job'[h].at = "enqueue"
  BY <1>1, <1>2 DEF Comes, ComesToStart, RunMade
<1>3. CASE job'[h].at = "stop"
  <2>1. job[h].at \in {"idle", "reload"} /\ r \in DOMAIN runs /\ runs[r].status \in NonTerminal
    BY <1>1, <1>3 DEF Comes, ComesToStretch
  <2> QED BY <2>1 DEF RunWritten, RunMade
<1>4. CASE job'[h].at = "switch"
  <2>1. job[h].at = "load" /\ runs[job[h].run].status = "running" /\ job[h].run = r
    BY <1>1, <1>4 DEF Comes, Carries, ComesToStretch, MyRun
  <2>2. r \in DOMAIN runs
    BY <1>1, <2>1 DEF Fits, Early
  <2> QED BY <2>1, <2>2 DEF NonTerminal, RunWritten, RunMade
<1>5. CASE job'[h].at = "model"
  <2>1. \/ job[h].at = "switch" /\ job[h].run = r
        \/ job[h].at = "reload" /\ runs[job[h].run].status = "awaiting_approval" /\ job[h].run = r
    BY <1>1, <1>5 DEF Comes, Carries, ComesToStretch, MyRun
  <2>2. r \in DOMAIN runs
    BY <1>1, <2>1 DEF Fits, Early
  <2> QED BY <2>1, <2>2 DEF NonTerminal, WillWrite, RunWritten, RunMade
<1>6. CASE job'[h].at = "fail"
  <2>1. \/ /\ job[h].at \in {"enqueue", "switch", "model", "propose", "finish", "park"}
           /\ job[h].run = r
        \/ job[h].at = "reload" /\ runs[job[h].run].status = "awaiting_approval" /\ job[h].run = r
    BY <1>1, <1>6 DEF Comes, Carries, ComesToStretch, MyRun
  <2>2. r \in DOMAIN runs
    BY <1>1, <2>1 DEF Fits, Early
  <2> QED BY <2>1, <2>2 DEF NonTerminal, WillWrite, RunWritten, RunMade
<1>7. CASE job'[h].at \in {"finish", "propose", "park"}
  <2>1. job[h].at \in {"model", "propose"} /\ job[h].run = r
    BY <1>1, <1>7 DEF Comes, Carries, ComesToStretch, ProposalMade
  <2> QED BY <2>1 DEF WillWrite
<1> QED BY <1>1, <1>2, <1>3, <1>4, <1>5, <1>6, <1>7 DEF Writing

LEMMA WriterStep == Typed /\ WriterInv /\ [Next]_vars => WriterInv'
<1> SUFFICES ASSUME Typed, WriterInv, [Next]_vars PROVE WriterInv'
  OBVIOUS
<1>0. /\ Typed' /\ Len(runs) \in Nat /\ DOMAIN runs = 1 .. Len(runs)
      /\ Len(runs') \in Nat /\ DOMAIN runs' = 1 .. Len(runs')
  BY StepTypes, RowTypes, LenProperties DEF Typed, TableTypes
<1>1. CASE UNCHANGED vars
  BY <1>1 DEF vars, agentVars, rowVars, history, WriterInv, WillWrite
<1>2. CASE Restart /\ Remember(TRUE)
  <2>1. \A h \in Handlers : job'[h].at = "idle"
    BY <1>2, IdleFields DEF Restart
  <2> QED BY <2>1 DEF WriterInv, WillWrite
<1>3. CASE enabled' = ~enabled /\ UNCHANGED <<rowVars, job>> /\ Remember(FALSE)
  BY <1>3 DEF rowVars, WriterInv, WillWrite, Remember
<1>4. ASSUME NEW h \in Handlers, HandlerStep(h), Remember(FALSE)
      PROVE  WriterInv'
  <2>0. /\ Fits(h)' /\ \A g \in Handlers : Fits(g)
        /\ \A g \in Handlers \ {h} : job'[g] = job[g] /\ \A r : (WillWrite(g, r)' <=> WillWrite(g, r))
    BY <1>0, <1>4 DEF HandlerStep, Alone, Typed, JobTypes, WillWrite
  <2>1. disturbed \subseteq disturbed'
    BY <1>4 DEF Remember
  <2>2. ASSUME NEW r \in DOMAIN runs', NEW f \in Handlers, NEW g \in Handlers, f # g,
               WillWrite(f, r)', WillWrite(g, r)'
        PROVE  r \in disturbed'
    <3>1. CASE r \in DOMAIN runs
      BY <1>4, <2>2, <3>1 DEF Remember
    <3>2. CASE r \notin DOMAIN runs
      <4>1. \E k \in {f, g} : k # h /\ WillWrite(k, r)
        BY <2>0, <2>2
      <4>2. PICK k \in Handlers : job[k].run = r
        BY <4>1, <2>2 DEF WillWrite
      <4>3. r \in 0 .. Len(runs)
        BY <2>0, <4>2 DEF Fits
      <4> QED BY <1>0, <3>2, <4>3
    <3> QED BY <3>1, <3>2
  <2>3. ASSUME NEW r \in DOMAIN runs', NEW g \in Handlers,
               WillWrite(g, r)', runs'[r].status \in Terminal
        PROVE  r \in disturbed'
    <3>1. \/ WillWrite(g, r)
          \/ r \in DOMAIN runs /\ runs[r].status \in NonTerminal /\ ~RunWritten(h) /\ ~RunMade(h)
          \/ RunMade(h) /\ r = Len(runs) + 1
      BY <1>4, <2>0, <2>3, WriterComes DEF HandlerStep
    <3>2. "running" \notin Terminal /\ \A x \in NonTerminal : x \notin Terminal
      BY DEF NonTerminal, Terminal
    <3>3. CASE RunsStay
      BY <2>1, <2>3, <3>1, <3>2, <3>3, <1>0 DEF RunsStay, WriterInv, RunMade
    <3>4. CASE RunMade(h)
      BY <1>0, <2>0, <2>1, <2>3, <3>1, <3>2, <3>4 DEF RunMade, WriterInv
    <3>5. CASE RunWritten(h)
      <4>1. /\ WillWrite(h, job[h].run) /\ job[h].run \in DOMAIN runs /\ DOMAIN runs' = DOMAIN runs
            /\ job'[h].at \notin Writing
        BY <3>5, WriterIs DEF Writing
      <4>2. g # h
        BY <2>3, <4>1 DEF WillWrite, Writing
      <4>3. WillWrite(g, r) /\ r \in DOMAIN runs
        BY <2>0, <2>3, <4>1, <4>2
      <4>4. CASE r = job[h].run
        BY <2>1, <4>1, <4>2, <4>3, <4>4 DEF WriterInv
      <4>5. CASE r # job[h].run
        BY <2>1, <2>3, <3>5, <4>3, <4>5 DEF WriterInv, RunWritten
      <4> QED BY <4>4, <4>5
    <3> QED BY <1>4, <3>3, <3>4, <3>5 DEF HandlerStep
  <2> QED BY <2>2, <2>3 DEF WriterInv
<1> QED BY <1>1, <1>2, <1>3, <1>4, StepKinds

\* The status of a run that ended is written by those only who have met.
LEMMA EndedStep ==
    Typed /\ WriterInv /\ [Next]_vars =>
        \A r \in DOMAIN runs :
            /\ r \in DOMAIN runs' /\ runs'[r].about = runs[r].about
            /\ runs[r].status \in Terminal /\ runs'[r].status # runs[r].status => r \in disturbed
<1> SUFFICES ASSUME Typed, WriterInv, [Next]_vars, NEW r \in DOMAIN runs
             PROVE  /\ r \in DOMAIN runs' /\ runs'[r].about = runs[r].about
                    /\ runs[r].status \in Terminal /\ runs'[r].status # runs[r].status => r \in disturbed
  OBVIOUS
<1>1. CASE runs' = runs
  BY <1>1
<1>2. ASSUME NEW h \in Handlers, HandlerStep(h)
      PROVE  /\ r \in DOMAIN runs' /\ runs'[r].about = runs[r].about
             /\ runs[r].status \in Terminal /\ runs'[r].status # runs[r].status => r \in disturbed
  <2>1. CASE RunsStay \/ RunMade(h)
    BY <2>1 DEF RunsStay, RunMade
  <2>2. CASE RunWritten(h)
    <3>1. WillWrite(h, job[h].run) /\ job[h].run \in DOMAIN runs
      BY <2>2, WriterIs
    <3> QED BY <2>2, <3>1 DEF RunWritten, WriterInv
  <2> QED BY <1>2, <2>1, <2>2 DEF HandlerStep
<1> QED BY <1>1, <1>2, StepKinds DEF Restart, rowVars, vars, agentVars

\* How a run ended stands: neither a late job, nor a decision, nor the sweep writes
\* over it, but a stretch, a stop or an expiry that read the run before it ended.
THEOREM EndedHolds == Spec => EndedStaysEnded
<1>1. Typed /\ WriterInv /\ [Next]_vars =>
        [\A r \in DOMAIN runs :
            runs[r].status \in Terminal /\ runs'[r].status # runs[r].status =>
                r \in disturbed]_vars
  BY EndedStep
<1> QED BY <1>1, InitTypes, StepTypes, WriterInit, WriterStep, PTL DEF Spec, EndedStaysEnded

-----------------------------------------------------------------------------
(* One open run per request.                                                 *)

OwnRuns(q) == {r \in DOMAIN runs : runs[r].about = q /\ runs[r].status \in NonTerminal}

\* Where no two starts met: of two open runs one is disturbed, and whoever looked the
\* open runs up is alone and found none that is undisturbed.
OpenInv ==
    \A q \in Requests \ startsMet :
        /\ \A r, s \in OwnRuns(q) : r # s => r \in disturbed \/ s \in disturbed
        /\ \A h \in Handlers : Starting(h, q) => OwnRuns(q) \subseteq disturbed
        /\ \A g, h \in Handlers : g # h => ~(Starting(g, q) /\ Starting(h, q))

LEMMA OpenInit == Init => OpenInv
BY IdleFields DEF Init, AgentInit, OpenInv, OwnRuns, Starting

\* Who is starting was so before, or has just found no open run of the request.
LEMMA StartComes ==
    ASSUME Typed, NEW h \in Handlers, Comes(h), Fits(h)', NEW q \in Requests, Starting(h, q)'
    PROVE  /\ job[h].about = q /\ job[h].op = "start"
           /\ Starting(h, q) \/ OwnRuns(q) = {}
           /\ ~RunMade(h) /\ ~RunWritten(h)
<1>1. /\ job'[h].at \in {"principal", "create"} /\ job'[h].about = q /\ job'[h].op = "start"
      /\ Fits(h) /\ RequestOf[q] = q
  BY AgentAssumption DEF Starting, Typed, JobTypes
<1>2. /\ job[h].at \in {"open", "gate", "principal"}
      /\ job[h].about = q /\ job[h].op = "start"
  BY <1>1 DEF Comes, Carries, ComesToStart
<1>3. CASE job[h].at = "principal"
  BY <1>2, <1>3 DEF Starting, RunMade, RunWritten
<1>4. CASE job[h].at # "principal"
  <2>1. OpenRunsOn(job[h].about) = {} /\ job[h].at = "open"
    BY <1>1, <1>2, <1>4 DEF Comes, ComesToStart
  <2>2. OwnRuns(q) \subseteq OpenRunsOn(q)
    BY <1>1 DEF OwnRuns, OpenRunsOn
  <2> QED BY <1>2, <2>1, <2>2 DEF RunMade, RunWritten
<1> QED BY <1>3, <1>4

LEMMA OpenStep == Typed /\ WriterInv /\ OpenInv /\ [Next]_vars => OpenInv'
<1> SUFFICES ASSUME Typed, WriterInv, OpenInv, [Next]_vars PROVE OpenInv'
  OBVIOUS
<1>0. /\ \A h \in Handlers : Fits(h)'
      /\ \A h \in Handlers : Fits(h)
  BY StepTypes DEF Typed, JobTypes
<1>1. CASE UNCHANGED vars
  BY <1>1 DEF vars, agentVars, rowVars, history, OpenInv, OwnRuns, Starting
<1>2. CASE Next
  <2>0. /\ startsMet \subseteq startsMet' /\ disturbed \subseteq disturbed'
        /\ \A q \in Requests : \A g, h \in Handlers :
             g # h /\ Starting(g, q)' /\ Starting(h, q)' => q \in startsMet'
    BY <1>2 DEF Next, Remember
  <2> SUFFICES ASSUME NEW q \in Requests \ startsMet'
               PROVE  /\ \A r, s \in OwnRuns(q)' : r # s => r \in disturbed' \/ s \in disturbed'
                      /\ \A h \in Handlers : Starting(h, q)' => OwnRuns(q)' \subseteq disturbed'
    BY <2>0 DEF OpenInv
  <2>1. /\ \A r, s \in OwnRuns(q) : r # s => r \in disturbed \/ s \in disturbed
        /\ \A h \in Handlers : Starting(h, q) => OwnRuns(q) \subseteq disturbed
        /\ \A g, h \in Handlers : g # h => ~(Starting(g, q) /\ Starting(h, q))
    BY <2>0 DEF OpenInv
  \* An undisturbed run that was there and is open was open before.
  <2>2. \A r \in DOMAIN runs : r \in OwnRuns(q)' /\ r \notin disturbed' => r \in OwnRuns(q)
    <3> SUFFICES ASSUME NEW r \in DOMAIN runs, r \in OwnRuns(q)', r \notin disturbed'
                 PROVE  r \in OwnRuns(q)
      OBVIOUS
    <3>1. /\ runs'[r].about = runs[r].about /\ runs'[r].about = q /\ runs'[r].status \in NonTerminal
          /\ runs[r].status \in Terminal => runs'[r].status = runs[r].status
      BY <2>0, EndedStep DEF OwnRuns
    <3>2. runs[r].status \in Terminal \cup NonTerminal
      BY RowTypes DEF Typed, Run
    <3>3. runs[r].status \notin Terminal
      BY <3>1 DEF Terminal, NonTerminal
    <3> QED BY <3>1, <3>2, <3>3 DEF OwnRuns
  <2>3. CASE \A r \in DOMAIN runs' : r \in DOMAIN runs
    <3>1. \A r \in OwnRuns(q)' : r \notin disturbed' => r \in OwnRuns(q) /\ r \notin disturbed
      BY <2>0, <2>2, <2>3 DEF OwnRuns
    <3>2. \A r, s \in OwnRuns(q)' : r # s => r \in disturbed' \/ s \in disturbed'
      BY <2>1, <3>1
    <3>3. ASSUME NEW h \in Handlers, Starting(h, q)' PROVE OwnRuns(q)' \subseteq disturbed'
      <4>1. CASE Starting(h, q)
        BY <2>1, <3>1, <4>1
      <4>2. CASE ~Starting(h, q)
        <5>1. job'[h] # job[h]
          BY <3>3, <4>2 DEF Starting
        <5>2. job'[h].at # "idle"
          BY <3>3 DEF Starting
        <5>3. CASE HandlerStep(h)
          BY <1>0, <3>1, <3>3, <4>2, <5>3, StartComes DEF HandlerStep
        <5> QED BY <1>2, <5>1, <5>2, <5>3, StepKinds, IdleFields DEF HandlerStep, Alone, Restart
      <4> QED BY <4>1, <4>2
    <3> QED BY <3>2, <3>3
  <2>4. CASE ~(\A r \in DOMAIN runs' : r \in DOMAIN runs)
    <3>1. PICK h \in Handlers : HandlerStep(h) /\ RunMade(h)
      <4>1. runs' # runs
        BY <2>4
      <4>2. PICK h \in Handlers : HandlerStep(h)
        BY <1>2, <4>1, StepKinds DEF rowVars, Restart
      <4> QED BY <2>4, <4>2 DEF HandlerStep, RunsStay, RunWritten
    <3>2. /\ DOMAIN runs' = DOMAIN runs \cup {Len(runs) + 1}
          /\ runs'[Len(runs) + 1].about = job[h].about /\ job[h].at = "create"
          /\ job[h].op \in {"start", "ask"} /\ job'[h].at = "enqueue"
      BY <1>0, <3>1 DEF RunMade, Fits, Placed
    <3>3. \A g \in Handlers : Starting(g, q)' => g # h /\ Starting(g, q)
      BY <3>1, <3>2 DEF HandlerStep, Alone, Starting
    <3>4. CASE Starting(h, q)
      <4>1. OwnRuns(q) \subseteq disturbed /\ \A g \in Handlers : ~Starting(g, q)'
        BY <2>1, <3>3, <3>4
      <4>2. \A r \in OwnRuns(q)' : r \notin disturbed' => r = Len(runs) + 1
        BY <2>0, <2>2, <3>2, <4>1 DEF OwnRuns
      <4> QED BY <4>1, <4>2
    <3>5. CASE ~Starting(h, q)
      <4>1. job[h].about # q
        <5>1. CASE job[h].op = "start"
          BY <3>2, <3>5, <5>1 DEF Starting
        <5>2. CASE job[h].op = "ask"
          BY <1>0, <5>2, AgentAssumption DEF Fits, Placed
        <5> QED BY <3>2, <5>1, <5>2
      <4>2. \A r \in OwnRuns(q)' : r \notin disturbed' => r \in OwnRuns(q) /\ r \notin disturbed
        BY <2>0, <2>2, <3>2, <4>1 DEF OwnRuns
      <4> QED BY <2>1, <3>3, <4>2
    <3> QED BY <3>4, <3>5
  <2> QED BY <2>3, <2>4
<1> QED BY <1>1, <1>2

\* A request has one open run that was started from its screen (assertNoOpenRun),
\* unless two starts met between the look-up and the insert, or a run that had ended
\* came back because somebody was still at work on it.
THEOREM OneOpenHolds == Spec => []OneOpenRun
<1>1. Typed /\ OpenInv => OneOpenRun
  <2> SUFFICES ASSUME Typed, OpenInv, NEW q \in Requests, q \notin startsMet,
                      \A r \in OpenRunsOn(q) : r \notin disturbed,
                      Cardinality({r \in OpenRunsOn(q) : runs[r].about = q}) > 1
               PROVE  FALSE
    BY DEF OneOpenRun
  <2> DEFINE own == {r \in OpenRunsOn(q) : runs[r].about = q}
  <2>1. \A r, s \in own : r = s
    BY DEF OpenInv, OwnRuns, OpenRunsOn
  <2>2. CASE own = {}
    BY <2>2, FS_EmptySet
  <2>3. CASE own # {}
    <3>1. PICK r : own = {r}
      BY <2>1, <2>3
    <3>2. Cardinality(own) = 1
      BY <3>1, FS_Singleton
    <3> QED BY <3>2
  <2> QED BY <2>2, <2>3
<1> QED BY <1>1, InitTypes, StepTypes, WriterInit, WriterStep, OpenInit, OpenStep, PTL DEF Spec

-----------------------------------------------------------------------------
(* Running runs are carried.                                                 *)

LEMMA CarriedInit == Init => RunningIsCarried
BY DEF Init, AgentInit, RunningIsCarried

\* Where a handler of a run may go, and what it has left behind then.
Leaves(h) ==
    /\ job[h].at \in {"fail", "stop"} => RunWritten(h)
    /\ job[h].at \in {"finish", "park"} => RunWritten(h) \/ job'[h].at = "fail"
    /\ job[h].at = "tidy" => Tidied(h)
    /\ job[h].at = "propose" => job'[h].at \in {"propose", "park", "fail"}
    /\ job'[h].at = "tell" => \/ job[h].at \in {"finish", "park", "fail"}
                              \/ job[h].at = "load" /\ MyRun(h).status # "running"
    /\ job'[h].at = "idle" => /\ job[h].at \notin {"load", "switch", "model"}
                              /\ job[h].at = "enqueue" => job[h].run \in jobs'

\* A handler that holds a proposal does its work on it, or leaves it.
Settles(h) ==
    job[h].at \in {"make", "botch", "mark", "decided"} => Worked(h) \/ Unworked(h)

LEMMA Settlings ==
    ASSUME Typed, NEW h \in Handlers, RunStep(h) \/ DecisionStep(h) \/ Throw(h)
    PROVE  Settles(h)
<1>0. job \in [Handlers -> Job] /\ Fits(h)
  BY DEF Typed, JobTypes
<1>1. CASE CreateLineItem(h) \/ MarkBroken(h) \/ AssignLine(h) \/ MarkDone(h) \/ MarkRejected(h)
  BY <1>1, WorkEffects DEF Settles
<1>2. CASE Throw(h)
  <2> SUFFICES ASSUME job[h].at \in {"make", "botch", "mark", "decided"} PROVE Unworked(h)
    BY DEF Settles
  <2>1. Done(h) /\ runs' = runs /\ proposals' = proposals
    BY <1>2 DEF Throw, rowVars
  <2>2. job'[h].at = "idle"
    BY <1>0, <2>1, JobNext, IdleFields
  <2>3. job[h].prop \in DOMAIN proposals
    BY <1>0, RowTypes DEF Fits, Placed, Decisions, Typed
  <2> QED BY <2>1, <2>2, <2>3 DEF Unworked
<1>3. CASE ~(\/ CreateLineItem(h) \/ MarkBroken(h) \/ AssignLine(h) \/ MarkDone(h)
             \/ MarkRejected(h) \/ Throw(h))
  <2>1. job[h].at \notin {"make", "botch", "mark", "decided"}
    BY <1>3 DEF RunStep, DecisionStep, StartRun, AddTurn, AssertNoOpenRun, StartConversationRun,
                ReadPrincipal, CreateRun, Enqueue, TakeJob, LoadRun, CheckSwitch, ModelTurn,
                PersistCompleted, PersistProposal, PersistAwaiting, FailRun, RecordAssistantTurn,
                AbortRun, SweepRun, HideRun, StopRun, TidyProposals, SetHidden, Approve, Reject,
                LoadDecidable, AskToResume, ReloadRun, Catch, Begin, Busy, At
  <2> QED BY <2>1 DEF Settles
<1> QED BY <1>1, <1>2, <1>3

LEMMA Leavings ==
    ASSUME Typed, NEW h \in Handlers, RunStep(h) \/ DecisionStep(h)
    PROVE  Leaves(h)
<1>0. job \in [Handlers -> Job] /\ job[h] \in Job
  BY DEF Typed, JobTypes
<1>a. ASSUME NEW w, Go(h, w) PROVE job'[h].at = w
  BY <1>0, <1>a DEF Go, Job
<1>1. CASE \/ \E q \in Requests : StartRun(h, q)
           \/ \E c \in Chats : AddTurn(h, c)
           \/ \E r \in jobs : TakeJob(h, r)
           \/ \E r \in DOMAIN runs : AbortRun(h, r) \/ SweepRun(h, r) \/ HideRun(h, r)
           \/ \E p \in DOMAIN proposals : Approve(h, p) \/ Reject(h, p)
  <2>1. job[h].at = "idle"
    BY <1>1 DEF StartRun, AddTurn, TakeJob, AbortRun, SweepRun, HideRun, Approve, Reject,
                Begin, Busy, At
  <2>2. job'[h].at # "tell"
    <3>1. ASSUME NEW work, Begin(h, work), work.at # "tell" PROVE job'[h].at # "tell"
      BY <1>0, <3>1, JobNext
    <3>2. CASE \E q \in Requests : StartRun(h, q)
      BY <3>1, <3>2, IdleType DEF StartRun, Job
    <3>3. CASE \E c \in Chats : AddTurn(h, c)
      BY <3>1, <3>3, IdleType DEF AddTurn, Job
    <3>4. CASE \E r \in jobs : TakeJob(h, r)
      BY <3>1, <3>4, IdleType DEF TakeJob, Job
    <3>5. CASE \E r \in DOMAIN runs : AbortRun(h, r) \/ SweepRun(h, r) \/ HideRun(h, r)
      BY <3>1, <3>5, IdleType DEF AbortRun, SweepRun, HideRun, Job
    <3>6. CASE \E p \in DOMAIN proposals : Approve(h, p) \/ Reject(h, p)
      BY <3>1, <3>6, IdleType DEF Approve, Reject, Deciding, Job
    <3> QED BY <1>1, <3>2, <3>3, <3>4, <3>5, <3>6
  <2> QED BY <2>1, <2>2 DEF Leaves
<1>2. CASE \/ AssertNoOpenRun(h) \/ StartConversationRun(h) \/ ReadPrincipal(h) \/ CreateRun(h)
           \/ RecordAssistantTurn(h) \/ SetHidden(h)
  <2>1. job[h].at \in {"open", "gate", "principal", "create", "tell", "hide"}
    BY <1>2 DEF AssertNoOpenRun, StartConversationRun, ReadPrincipal, CreateRun,
                RecordAssistantTurn, SetHidden, At
  <2>2. \/ Done(h) \/ Go(h, "principal") \/ Go(h, "create")
        \/ job' = [job EXCEPT ![h].at = "enqueue", ![h].run = Len(runs) + 1]
    BY <1>2 DEF AssertNoOpenRun, StartConversationRun, ReadPrincipal, CreateRun,
                RecordAssistantTurn, SetHidden
  <2>3. job'[h].at # "tell"
    BY <1>0, <1>a, <2>2, JobNext, IdleFields DEF Job
  <2> QED BY <2>1, <2>3 DEF Leaves
<1>3. CASE LoadDecidable(h) \/ AskToResume(h) \/ ReloadRun(h)
  <2>1. job[h].at \in {"decide", "resume", "reload"}
    BY <1>3 DEF LoadDecidable, AskToResume, ReloadRun, At
  <2>2. CASE Done(h)
    BY <1>0, <2>1, <2>2, JobNext, IdleFields DEF Leaves
  <2>3. CASE ~Done(h)
    <3>1. \/ Go(h, "reload") \/ Go(h, "model") \/ Go(h, "fail") \/ Go(h, "stop")
          \/ job' = [job EXCEPT ![h].at = "make", ![h].left = Items]
      BY <1>3, <2>3 DEF LoadDecidable, AskToResume, ReloadRun
    <3>2. job'[h].at \notin {"tell", "idle"}
      BY <1>0, <1>a, <3>1 DEF Job
    <3> QED BY <2>1, <3>2 DEF Leaves
  <2> QED BY <2>2, <2>3
<1>10. CASE CreateLineItem(h) \/ MarkBroken(h) \/ AssignLine(h) \/ MarkDone(h) \/ MarkRejected(h)
  <2>1. job[h].at \in {"make", "botch", "mark", "decided"}
    BY <1>10 DEF CreateLineItem, MarkBroken, AssignLine, MarkDone, MarkRejected, At
  <2>2. Worked(h) \/ Unworked(h)
    BY <1>10, WorkEffects
  <2>3. job'[h].at # "tell"
    BY <2>2 DEF Worked, Unworked
  <2> QED BY <2>1, <2>3 DEF Leaves
<1>4. CASE Enqueue(h)
  <2>1. job[h].at = "enqueue"
    BY <1>4 DEF Enqueue, At
  <2>2. \/ job[h].run \in jobs' /\ job'[h].at = "idle"
        \/ job'[h].at = "fail"
    BY <1>0, <1>4, <1>a, JobNext, IdleFields DEF Enqueue
  <2> QED BY <2>1, <2>2 DEF Leaves
<1>11. CASE Catch(h)
  <2>1. job[h].at \in {"switch", "finish", "park"} /\ job'[h].at = "fail"
    BY <1>11, <1>a DEF Catch
  <2> QED BY <2>1 DEF Leaves
<1>5. CASE LoadRun(h) \/ CheckSwitch(h)
  <2>1. Go(h, "switch") \/ Go(h, "tell") \/ Go(h, "model") \/ Go(h, "fail")
    BY <1>5 DEF LoadRun, CheckSwitch
  <2>2. job[h].at \in {"load", "switch"}
    BY <1>5 DEF LoadRun, CheckSwitch, At
  <2>3. job'[h].at # "idle"
    BY <2>1, <1>a
  <2>4. job'[h].at = "tell" => job[h].at = "load" /\ MyRun(h).status # "running"
    BY <1>5, <1>a DEF LoadRun, CheckSwitch, At
  <2> QED BY <2>2, <2>3, <2>4 DEF Leaves
<1>6. CASE ModelTurn(h)
  <2>1. job[h].at = "model"
    BY <1>6 DEF ModelTurn, At
  <2>2. job'[h].at \notin {"idle", "tell"}
    BY <1>6, <1>a, <1>0 DEF ModelTurn, Job
  <2> QED BY <2>1, <2>2 DEF Leaves
<1>7. CASE PersistProposal(h)
  <2>1. job[h].at = "propose"
    BY <1>7 DEF PersistProposal, At
  <2>2. job'[h].at \in {"propose", "park", "fail"}
    BY <1>7, <1>a, ProposeMakes DEF ProposalMade
  <2> QED BY <2>1, <2>2 DEF Leaves
<1>8. CASE PersistCompleted(h) \/ PersistAwaiting(h) \/ FailRun(h) \/ StopRun(h)
  <2>1. RunWritten(h)
    BY <1>8, EndWrites
  <2>2. job[h].at \in {"finish", "park", "fail", "stop"}
    BY <1>8 DEF PersistCompleted, PersistAwaiting, FailRun, StopRun, At
  <2> QED BY <2>1, <2>2 DEF Leaves, RunWritten
<1>9. CASE TidyProposals(h)
  <2>1. job[h].at = "tidy"
    BY <1>9 DEF TidyProposals, At
  <2> QED BY <2>1, <1>9, TidyTidies DEF Leaves, Tidied
<1> QED BY <1>1, <1>2, <1>3, <1>4, <1>5, <1>6, <1>7, <1>8, <1>9, <1>10, <1>11
        DEF RunStep, DecisionStep

\* A job leaves the queue to a worker.
LEMMA QueueStep ==
    ASSUME Typed, NEW h \in Handlers, RunStep(h) \/ DecisionStep(h), NEW r \in jobs, r \notin jobs'
    PROVE  job'[h].run = r /\ job'[h].op = "work" /\ job'[h].at = "load"
<1>1. TakeJob(h, r)
  BY DEF RunStep, DecisionStep, StartRun, AddTurn, AssertNoOpenRun, StartConversationRun,
         ReadPrincipal, CreateRun, Enqueue, TakeJob, LoadRun, CheckSwitch, ModelTurn,
         PersistCompleted, PersistProposal, PersistAwaiting, FailRun, RecordAssistantTurn,
         AbortRun, SweepRun, HideRun, StopRun, TidyProposals, SetHidden, Approve, Reject,
         LoadDecidable, CreateLineItem, MarkBroken, AssignLine, MarkDone, MarkRejected,
         AskToResume, ReloadRun, Catch, rowVars
<1> DEFINE work == [Idle EXCEPT !.op = "work", !.at = "load", !.about = runs[r].about, !.run = r]
<1>2. job' = [job EXCEPT ![h] = work]
  BY <1>1 DEF TakeJob, Begin
<1>3. work.run = r /\ work.op = "work" /\ work.at = "load"
  BY IdleType DEF Job
<1> HIDE DEF work
<1> QED BY <1>2, <1>3 DEF Typed, JobTypes

\* Nothing makes an old run running.
LEMMA NeverBack ==
    ASSUME NEW h, HandlerStep(h), NEW r \in DOMAIN runs
    PROVE  /\ r \in DOMAIN runs'
           /\ runs[r].status # "running" => runs'[r].status # "running"
<1>1. CASE RunsStay \/ RunMade(h)
  BY <1>1 DEF RunsStay, RunMade
<1>2. CASE RunWritten(h)
  BY <1>2 DEF RunWritten
<1> QED BY <1>1, <1>2 DEF HandlerStep

LEMMA CarriedStep == Typed /\ RunningIsCarried /\ [Next]_vars => RunningIsCarried'
<1> SUFFICES ASSUME Typed, RunningIsCarried, [Next]_vars PROVE RunningIsCarried'
  OBVIOUS
<1>0. \A h \in Handlers : job[h] \in Job /\ Fits(h) /\ Fits(h)'
  BY StepTypes DEF Typed, JobTypes
<1>a. /\ DOMAIN runs = 1 .. Len(runs) /\ Len(runs) \in Nat
      /\ \A h \in Handlers : job[h].run \in DOMAIN runs => job[h].at \notin Early
  <2>1. DOMAIN runs = 1 .. Len(runs) /\ Len(runs) \in Nat
    BY RowTypes DEF Typed
  <2> QED BY <1>0, <2>1 DEF Fits
<1>1. CASE UNCHANGED vars
  BY <1>1 DEF vars, agentVars, rowVars, history, RunningIsCarried, At
<1>2. CASE /\ enabled' = ~enabled /\ UNCHANGED <<rowVars, job>>
           /\ Remember(FALSE) /\ LeaveBehind({})
  BY <1>2 DEF rowVars, RunningIsCarried, At, LeaveBehind
\* Those who end in the middle, with the process or alone, leave their runs behind.
<1>3. CASE Restart /\ Remember(TRUE) /\ LeaveBehind(Handlers)
  <2>1. runs' = runs /\ jobs \subseteq jobs' /\ stranded \subseteq stranded'
    BY <1>3 DEF Restart, LeaveBehind
  <2>2. ASSUME NEW r \in DOMAIN runs, NEW h \in Handlers, job[h].run = r, ~At(h, "tell"),
               job[h].op \in {"start", "ask", "work"}
        PROVE  r \in jobs' \/ r \in stranded'
    BY <1>3, <2>2 DEF LeaveBehind
  <2> QED BY <2>1, <2>2 DEF RunningIsCarried
<1>4. ASSUME NEW h \in Handlers, Throw(h), HandlerStep(h), LeaveBehind({h})
      PROVE  RunningIsCarried'
  <2>1. /\ runs' = runs /\ jobs' = jobs /\ stranded \subseteq stranded'
        /\ \A g \in Handlers \ {h} : job'[g] = job[g]
    BY <1>4 DEF Throw, rowVars, LeaveBehind, HandlerStep, Alone
  <2> SUFFICES ASSUME NEW r \in DOMAIN runs, runs[r].status = "running"
               PROVE  \/ r \in jobs' \/ r \in stranded'
                      \/ \E g \in Handlers : /\ job'[g].run = r /\ job'[g].at # "tell"
                                             /\ job'[g].op \in {"start", "ask", "work"}
    BY <2>1 DEF RunningIsCarried, At
  <2>2. ASSUME NEW g \in Handlers, job[g].run = r, job[g].at # "tell",
               job[g].op \in {"start", "ask", "work"}
        PROVE  \/ r \in jobs' \/ r \in stranded'
               \/ \E k \in Handlers : /\ job'[k].run = r /\ job'[k].at # "tell"
                                      /\ job'[k].op \in {"start", "ask", "work"}
    <3>1. CASE g # h
      BY <2>1, <2>2, <3>1
    <3>2. CASE g = h
      BY <1>4, <2>2, <3>2 DEF LeaveBehind, At
    <3> QED BY <3>1, <3>2
  <2> QED BY <2>1, <2>2 DEF RunningIsCarried, At
<1>5. ASSUME NEW h \in Handlers, RunStep(h) \/ DecisionStep(h), HandlerStep(h), LeaveBehind({})
      PROVE  RunningIsCarried'
  <2>0. /\ \A g \in Handlers \ {h} : job'[g] = job[g]
        /\ stranded \subseteq stranded' /\ Leaves(h)
    BY <1>5, Leavings DEF HandlerStep, Alone, LeaveBehind
  <2> DEFINE Carrier(g, r) == /\ job[g].run = r /\ job[g].at # "tell"
                              /\ job[g].op \in {"start", "ask", "work"}
             Goes(g, r) == /\ job'[g].run = r /\ job'[g].at # "tell"
                           /\ job'[g].op \in {"start", "ask", "work"}
  <2> SUFFICES ASSUME NEW r \in DOMAIN runs', runs'[r].status = "running"
               PROVE  r \in jobs' \/ r \in stranded' \/ \E g \in Handlers : Goes(g, r)
    BY DEF RunningIsCarried, At
  <2>1. CASE r \notin DOMAIN runs
    <3>1. RunMade(h) /\ job'[h].run = r
      BY <1>5, <2>1 DEF HandlerStep, RunsStay, RunWritten, RunMade
    <3>2. job'[h].op \in {"start", "ask"} /\ job'[h].at = "enqueue"
      BY <1>0, <3>1 DEF RunMade, Fits, Placed
    <3> QED BY <3>1, <3>2
  <2>2. CASE r \in DOMAIN runs
    <3>1. runs[r].status = "running"
      BY <1>5, <2>2, NeverBack
    <3>2. CASE r \in jobs
      BY <1>5, <3>2, QueueStep
    <3>3. CASE r \in stranded
      BY <2>0, <3>3
    <3>4. ASSUME NEW g \in Handlers, Carrier(g, r)
          PROVE  r \in jobs' \/ r \in stranded' \/ \E k \in Handlers : Goes(k, r)
      <4>1. CASE g # h
        BY <2>0, <3>4, <4>1
      <4>2. CASE g = h
        <5>1. job[h].at \notin Early
          BY <1>a, <2>2, <3>4, <4>2
        <5>2. CASE job'[h].at \notin {"idle", "tell"}
          BY <1>5, <3>4, <4>2, <5>1, <5>2 DEF HandlerStep, Comes, Carries, Early
        <5>3. ~RunWritten(h)
          BY <3>4, <4>2 DEF RunWritten
        <5>4. job'[h].at # "tell"
          BY <2>0, <3>1, <3>4, <4>2, <5>3 DEF Leaves, MyRun
        <5>5. CASE job'[h].at = "idle"
          <6>1. job[h].at \in {"load", "switch", "model", "propose", "park", "finish",
                               "fail", "enqueue"}
            BY <1>0, <3>4, <4>2, <5>1 DEF Fits, Placed, Early, Job, Points, Decisions
          <6> QED BY <2>0, <3>4, <4>2, <5>3, <5>5, <6>1 DEF Leaves
        <5> QED BY <5>2, <5>4, <5>5
      <4> QED BY <4>1, <4>2
    <3> QED BY <2>2, <3>1, <3>2, <3>3, <3>4 DEF RunningIsCarried, At
  <2> QED BY <2>1, <2>2
<1> QED BY <1>1, <1>2, <1>3, <1>4, <1>5, StepKinds

\* A run that reads running has a job in the queue or a handler that has still to write
\* how it ended, but for one whose handler or job was cut off in the middle: before the
\* queue had the job, before the try of executeRun, at the write of failRun, or by a
\* second stall.
THEOREM CarriedHolds == Spec => []RunningIsCarried
BY InitTypes, StepTypes, CarriedInit, CarriedStep, PTL DEF Spec

-----------------------------------------------------------------------------
(* Nothing is left pending.                                                  *)

Proposing(h, r) == job[h].run = r /\ job[h].at \in {"propose", "park", "fail"}

\* Of a run that nobody disturbed or left untidied: what is pending is known to the handler that proposes,
\* or stands in the saved pause, and who calls the model or completes the run left none.
PendingKnown(r) ==
    /\ runs[r].status \in {"completed", "aborted", "expired"} =>
          PendingOf(r) = {} \/ \E h \in Handlers : At(h, "tidy") /\ job[h].run = r
    /\ runs[r].status = "running" =>
          PendingOf(r) = {} \/ \E h \in Handlers : Proposing(h, r)
    /\ runs[r].status = "awaiting_approval" =>
          PendingOf(r) \subseteq runs[r].saved \/ \E h \in Handlers : Proposing(h, r)
    /\ \A h \in Handlers : job[h].run = r =>
          /\ job[h].at \in {"switch", "model", "finish"} => PendingOf(r) = {}
          /\ job[h].at \in {"propose", "park"} => PendingOf(r) \subseteq job[h].new

PendingInv ==
    /\ \A h \in Handlers :
          job[h].at \in {"resume", "reload"} => proposals[job[h].prop].status # "pending"
    /\ \A r \in DOMAIN runs : r \in disturbed \cup untidied \/ PendingKnown(r)

LEMMA PendingInit == Init => PendingInv
BY IdleFields DEF Init, AgentInit, PendingInv

\* What a step does to the pending proposals of a run.
LEMMA PendingStep ==
    ASSUME NEW h, HandlerStep(h), NEW r
    PROVE  \/ PendingOf(r)' \subseteq PendingOf(r)
           \/ /\ ProposalMade(h) /\ job[h].run = r
              /\ PendingOf(r)' \subseteq PendingOf(r) \cup {Len(proposals) + 1}
<1>1. CASE proposals' = proposals
  BY <1>1 DEF PendingOf, ProposalsOf
<1>2. CASE ProposalMade(h)
  BY <1>2 DEF PendingOf, ProposalsOf, ProposalMade
<1>3. CASE Tidied(h)
  <2>1. \A p \in DOMAIN proposals : proposals'[p].status = "pending" =>
           proposals'[p] = proposals[p]
    BY <1>3 DEF Tidied
  <2> QED BY <1>3, <2>1 DEF PendingOf, ProposalsOf, Tidied
<1>4. CASE Worked(h)
  <2>1. \A p \in DOMAIN proposals : proposals'[p].status = "pending" =>
           proposals'[p].run = proposals[p].run /\ proposals[p].status = "pending"
    BY <1>4 DEF Worked
  <2> QED BY <1>4, <2>1 DEF PendingOf, ProposalsOf, Worked
<1> QED BY <1>1, <1>2, <1>3, <1>4 DEF HandlerStep

LEMMA NeverPending ==
    ASSUME NEW h, HandlerStep(h), NEW p \in DOMAIN proposals, proposals[p].status # "pending"
    PROVE  p \in DOMAIN proposals' /\ proposals'[p].status # "pending"
<1>1. CASE ProposalMade(h)
  BY <1>1 DEF ProposalMade
<1>2. CASE Tidied(h)
  BY <1>2 DEF Tidied
<1>3. CASE Worked(h)
  BY <1>3 DEF Worked
<1> QED BY <1>1, <1>2, <1>3 DEF HandlerStep

LEMMA PendingRow ==
    ASSUME Typed, Typed', WriterInv, WriterInv', PendingInv, NEW h \in Handlers, HandlerStep(h),
           Leaves(h) \/ (Throw(h) /\ LeaveBehind({h})), Remember(FALSE),
           untidied \subseteq untidied',
           NEW r \in DOMAIN runs, r \notin disturbed' \cup untidied'
    PROVE  PendingKnown(r)'
\* Its clean-up and the end of its failure are not skipped.
<1>a. job[h].run = r =>
         /\ job[h].at = "tidy" => Tidied(h)
         /\ job[h].at \in {"propose", "park", "fail"} => Leaves(h)
  <2>1. CASE Leaves(h)
    BY <2>1 DEF Leaves
  <2>2. CASE Throw(h) /\ LeaveBehind({h})
    <3>1. job[h].run = r => job[h].at \notin {"fail", "tidy"}
      BY <2>2 DEF LeaveBehind
    <3>2. job[h].at \notin {"propose", "park"}
      BY <2>2 DEF Throw
    <3> QED BY <3>1, <3>2
  <2> QED BY <2>1, <2>2
<1>0. /\ r \notin disturbed /\ PendingKnown(r)
      /\ \A g \in Handlers \ {h} : job'[g] = job[g]
      /\ \A g, k \in Handlers : g # k => ~(WillWrite(g, r) /\ WillWrite(k, r))
      /\ \A g, k \in Handlers : g # k => ~(WillWrite(g, r)' /\ WillWrite(k, r)')
      /\ \A g \in Handlers : WillWrite(g, r) => runs[r].status \notin Terminal
      /\ r \in DOMAIN runs' /\ Fits(h) /\ Fits(h)'
      /\ job[h].at \notin Early => job[h].run \in DOMAIN runs
  <2>1. r \notin disturbed
    BY DEF Remember
  <2>2. r \in DOMAIN runs'
    BY NeverBack
  <2>3. /\ \A g, k \in Handlers : g # k => ~(WillWrite(g, r) /\ WillWrite(k, r))
        /\ \A g \in Handlers : WillWrite(g, r) => runs[r].status \notin Terminal
    BY <2>1 DEF WriterInv
  <2>4. \A g, k \in Handlers : g # k => ~(WillWrite(g, r)' /\ WillWrite(k, r)')
    BY <2>2 DEF WriterInv
  <2>5. job[h].at \notin Early => job[h].run \in DOMAIN runs
    BY RowTypes DEF Typed, JobTypes, Fits
  <2>6. Fits(h) /\ Fits(h)'
    BY DEF Typed, JobTypes
  <2> QED BY <2>1, <2>2, <2>3, <2>4, <2>5, <2>6 DEF HandlerStep, Alone, PendingInv
<1>1. \/ PendingOf(r)' \subseteq PendingOf(r)
      \/ /\ ProposalMade(h) /\ job[h].run = r /\ WillWrite(h, r) /\ runs' = runs
         /\ PendingOf(r)' \subseteq PendingOf(r) \cup {Len(proposals) + 1}
  BY PendingStep DEF ProposalMade, WillWrite
<1>2. \/ RunWritten(h) /\ job[h].run = r
      \/ /\ runs'[r].status = runs[r].status /\ runs'[r].saved = runs[r].saved
         /\ ~(RunWritten(h) /\ job[h].run = r)
  BY <1>0 DEF HandlerStep, RunsStay, RunWritten, RunMade
\* A handler that proposes goes on to, or writes.
<1>3. ASSUME NEW g \in Handlers, Proposing(g, r), ~(RunWritten(h) /\ job[h].run = r)
      PROVE  Proposing(g, r)'
  <2>1. CASE g # h
    BY <1>0, <1>3, <2>1 DEF Proposing
  <2>2. CASE g = h
    <3>1. job[h].at \in {"propose", "park", "fail"} /\ job[h].run = r
      BY <1>3, <2>2 DEF Proposing
    <3>2. job'[h].at \in {"propose", "park", "fail"}
      BY <1>3, <1>a, <3>1 DEF Leaves
    <3>3. job'[h].run = r
      BY <3>1, <3>2 DEF HandlerStep, Comes, Carries
    <3> QED BY <2>2, <3>2, <3>3 DEF Proposing
  <2> QED BY <2>1, <2>2
\* Who is about to write has nobody beside it who proposes.
<1>4. ASSUME NEW k \in Handlers, WillWrite(k, r)', NEW g \in Handlers, Proposing(g, r)', g # k
      PROVE  FALSE
  BY <1>0, <1>4 DEF Proposing, WillWrite
<1>5. runs'[r].status \in {"completed", "aborted", "expired"} =>
         PendingOf(r)' = {} \/ \E g \in Handlers : job'[g].at = "tidy" /\ job'[g].run = r
  <2> SUFFICES ASSUME runs'[r].status \in {"completed", "aborted", "expired"}
               PROVE  PendingOf(r)' = {} \/ \E g \in Handlers : job'[g].at = "tidy" /\ job'[g].run = r
    OBVIOUS
  <2>1. CASE RunWritten(h) /\ job[h].run = r
    <3>1. \/ job[h].at = "finish"
          \/ job'[h].at = "tidy" /\ job'[h].run = r
      BY <2>1 DEF RunWritten
    <3>2. CASE job[h].at = "finish"
      <4>1. PendingOf(r) = {}
        BY <1>0, <2>1, <3>2 DEF PendingKnown
      <4> QED BY <1>1, <3>2, <4>1 DEF ProposalMade
    <3> QED BY <3>1, <3>2
  <2>2. CASE ~(RunWritten(h) /\ job[h].run = r)
    <3>1. runs[r].status \in {"completed", "aborted", "expired"} /\ runs[r].status \in Terminal
      BY <1>2, <2>2 DEF Terminal
    <3>2. PendingOf(r)' \subseteq PendingOf(r)
      BY <1>0, <1>1, <3>1
    <3>3. CASE PendingOf(r) = {}
      BY <3>2, <3>3
    <3>4. CASE \E g \in Handlers : At(g, "tidy") /\ job[g].run = r
      <4>1. PICK g \in Handlers : job[g].at = "tidy" /\ job[g].run = r
        BY <3>4 DEF At
      <4>2. CASE g # h
        BY <1>0, <4>1, <4>2
      <4>3. CASE g = h
        <5>1. Tidied(h)
          BY <1>a, <4>1, <4>3
        <5>2. PendingOf(r)' = {}
          BY <4>1, <4>3, <5>1 DEF Tidied, PendingOf, ProposalsOf
        <5> QED BY <5>2
      <4> QED BY <4>2, <4>3
    <3> QED BY <1>0, <3>1, <3>3, <3>4 DEF PendingKnown
  <2> QED BY <2>1, <2>2
<1>6. runs'[r].status = "running" =>
         PendingOf(r)' = {} \/ \E g \in Handlers : Proposing(g, r)'
  <2> SUFFICES ASSUME runs'[r].status = "running"
               PROVE  PendingOf(r)' = {} \/ \E g \in Handlers : Proposing(g, r)'
    OBVIOUS
  <2>1. ~(RunWritten(h) /\ job[h].run = r) /\ runs[r].status = "running"
    BY <1>2 DEF RunWritten
  <2>2. CASE ProposalMade(h) /\ job[h].run = r
    BY <2>2 DEF ProposalMade, Proposing
  <2>3. CASE \E g \in Handlers : Proposing(g, r)
    BY <1>3, <2>1, <2>3
  <2> QED BY <1>0, <1>1, <2>1, <2>2, <2>3 DEF PendingKnown
<1>7. runs'[r].status = "awaiting_approval" =>
         PendingOf(r)' \subseteq runs'[r].saved \/ \E g \in Handlers : Proposing(g, r)'
  <2> SUFFICES ASSUME runs'[r].status = "awaiting_approval"
               PROVE  PendingOf(r)' \subseteq runs'[r].saved \/ \E g \in Handlers : Proposing(g, r)'
    OBVIOUS
  <2>1. CASE RunWritten(h) /\ job[h].run = r
    <3>1. job[h].at = "park" /\ runs'[r].saved = job[h].new
      BY <2>1 DEF RunWritten
    <3>2. PendingOf(r) \subseteq job[h].new
      BY <1>0, <2>1, <3>1 DEF PendingKnown
    <3> QED BY <1>1, <3>1, <3>2 DEF ProposalMade
  <2>2. CASE ~(RunWritten(h) /\ job[h].run = r)
    <3>1. CASE ProposalMade(h) /\ job[h].run = r
      BY <3>1 DEF ProposalMade, Proposing
    <3>2. CASE \E g \in Handlers : Proposing(g, r)
      BY <1>3, <2>2, <3>2
    <3> QED BY <1>0, <1>1, <1>2, <2>2, <3>1, <3>2 DEF PendingKnown
  <2> QED BY <2>1, <2>2
<1>8. ASSUME NEW k \in Handlers, job'[k].run = r
      PROVE  /\ job'[k].at \in {"switch", "model", "finish"} => PendingOf(r)' = {}
             /\ job'[k].at \in {"propose", "park"} => PendingOf(r)' \subseteq job'[k].new
  <2>1. CASE k # h
    <3>1. job'[k] = job[k] /\ job[k].run = r
      BY <1>0, <1>8, <2>1
    <3>2. job[k].at \in {"switch", "model", "finish", "propose", "park"} =>
             PendingOf(r)' \subseteq PendingOf(r)
      BY <1>0, <1>1, <2>1, <3>1 DEF WillWrite
    <3> QED BY <1>0, <3>1, <3>2 DEF PendingKnown
  <2>2. CASE k = h /\ job'[h].at \in {"switch", "model", "finish"}
    <3>1. WillWrite(h, r)'
      BY <1>8, <2>2 DEF WillWrite
    <3>2. \/ job[h].at = "load" /\ MyRun(h).status = "running"
          \/ /\ job[h].at = "reload" /\ MyRun(h).status = "awaiting_approval"
             /\ MyRun(h).saved = {job[h].prop}
          \/ job[h].at \in {"switch", "model"}
      BY <2>2 DEF HandlerStep, Comes, ComesToStretch
    <3>3. job[h].run = r
      BY <1>8, <2>2, <3>2 DEF HandlerStep, Comes, Carries
    <3>4. PendingOf(r)' \subseteq PendingOf(r) /\ ~(RunWritten(h) /\ job[h].run = r)
      BY <1>1, <3>2 DEF ProposalMade, RunWritten
    <3>5. \A g \in Handlers : ~Proposing(g, r)
      <4> SUFFICES ASSUME NEW g \in Handlers, Proposing(g, r) PROVE FALSE
        OBVIOUS
      <4>1. g # h
        BY <3>2 DEF Proposing
      <4> QED BY <1>3, <1>4, <3>1, <3>4, <4>1
    <3>6. CASE job[h].at = "load" /\ MyRun(h).status = "running"
      BY <1>0, <3>3, <3>4, <3>5, <3>6, <2>2 DEF PendingKnown, MyRun
    <3>7. CASE /\ job[h].at = "reload" /\ MyRun(h).status = "awaiting_approval"
               /\ MyRun(h).saved = {job[h].prop}
      <4>1. PendingOf(r) \subseteq {job[h].prop}
        BY <1>0, <3>3, <3>5, <3>7 DEF PendingKnown, MyRun
      <4>2. proposals[job[h].prop].status # "pending"
        BY <3>7 DEF PendingInv
      <4>3. PendingOf(r) = {}
        BY <4>1, <4>2 DEF PendingOf
      <4> QED BY <2>2, <3>4, <4>3
    <3>8. CASE job[h].at \in {"switch", "model"}
      BY <1>0, <2>2, <3>3, <3>4, <3>8 DEF PendingKnown
    <3> QED BY <3>2, <3>6, <3>7, <3>8
  <2>3. CASE k = h /\ job'[h].at \in {"propose", "park"}
    <3>1. \/ job[h].at = "model" /\ job'[h].new = {}
          \/ ProposalMade(h)
      BY <2>3 DEF HandlerStep, Comes, ComesToStretch
    <3>2. job[h].run = r
      BY <1>8, <2>3, <3>1 DEF HandlerStep, Comes, Carries, ProposalMade
    <3>3. CASE job[h].at = "model" /\ job'[h].new = {}
      <4>1. PendingOf(r) = {} /\ PendingOf(r)' \subseteq PendingOf(r)
        BY <1>0, <1>1, <3>2, <3>3 DEF PendingKnown, ProposalMade
      <4> QED BY <2>3, <4>1
    <3>4. CASE ProposalMade(h)
      <4>1. PendingOf(r) \subseteq job[h].new /\ job'[h].new = job[h].new \cup {Len(proposals) + 1}
        BY <1>0, <3>2, <3>4 DEF PendingKnown, ProposalMade
      <4> QED BY <1>1, <2>3, <4>1
    <3> QED BY <3>1, <3>3, <3>4
  <2> QED BY <2>1, <2>2, <2>3
<1> QED BY <1>5, <1>6, <1>7, <1>8 DEF PendingKnown, At

LEMMA PendingSteps == Typed /\ WriterInv /\ PendingInv /\ [Next]_vars => PendingInv'
<1> SUFFICES ASSUME Typed, WriterInv, PendingInv, [Next]_vars PROVE PendingInv'
  OBVIOUS
<1>0. /\ Typed' /\ WriterInv' /\ Len(runs) \in Nat /\ DOMAIN runs = 1 .. Len(runs)
      /\ DOMAIN proposals = 1 .. Len(proposals) /\ Len(proposals) \in Nat
      /\ \A h \in Handlers : Fits(h)
      /\ \A p \in DOMAIN proposals : proposals[p].run \in DOMAIN runs
  BY StepTypes, WriterStep, RowTypes DEF Typed, JobTypes, TableTypes
<1>1. CASE UNCHANGED vars
  BY <1>1 DEF vars, agentVars, rowVars, history, PendingInv, PendingKnown, PendingOf, ProposalsOf,
              Proposing, At
<1>2. CASE /\ enabled' = ~enabled /\ UNCHANGED <<rowVars, job>>
           /\ Remember(FALSE) /\ LeaveBehind({})
  BY <1>2 DEF rowVars, PendingInv, PendingKnown, PendingOf, ProposalsOf, Proposing, At, Remember,
              LeaveBehind
<1>3. CASE Restart /\ Remember(TRUE) /\ LeaveBehind(Handlers)
  <2>1. /\ \A h \in Handlers : job'[h].at = "idle"
        /\ runs' = runs /\ proposals' = proposals
    BY <1>3, IdleFields DEF Restart
  <2>2. ASSUME NEW r \in DOMAIN runs, r \notin disturbed' \cup untidied'
        PROVE  PendingKnown(r)'
    <3>1. /\ r \notin disturbed \cup untidied
          /\ \A h \in Handlers : ~WillWrite(h, r)
          /\ \A h \in Handlers : ~(At(h, "tidy") /\ job[h].run = r)
      BY <1>3, <2>2 DEF Remember, LeaveBehind, At
    <3>2. \A h \in Handlers : ~Proposing(h, r)
      BY <3>1 DEF Proposing, WillWrite
    <3>3. PendingOf(r)' = PendingOf(r) /\ runs'[r] = runs[r]
      BY <2>1 DEF PendingOf, ProposalsOf
    <3>4. PendingKnown(r)
      BY <3>1 DEF PendingInv
    <3> QED BY <2>1, <3>1, <3>2, <3>3, <3>4 DEF PendingKnown
  <2> QED BY <2>1, <2>2 DEF PendingInv
<1>4. ASSUME NEW h \in Handlers, HandlerStep(h), Remember(FALSE),
             \/ (RunStep(h) \/ DecisionStep(h)) /\ LeaveBehind({})
             \/ Throw(h) /\ LeaveBehind({h})
      PROVE  PendingInv'
  <2>0. /\ Leaves(h) \/ (Throw(h) /\ LeaveBehind({h}))
        /\ \A g \in Handlers \ {h} : job'[g] = job[g]
        /\ untidied \subseteq untidied'
    BY <1>4, Leavings DEF HandlerStep, Alone, LeaveBehind
  <2>1. ASSUME NEW g \in Handlers, job'[g].at \in {"resume", "reload"}
        PROVE  proposals'[job'[g].prop].status # "pending"
    <3>1. CASE job[g].at \in {"resume", "reload"} /\ job'[g].prop = job[g].prop
      <4>1. job[g].prop \in DOMAIN proposals /\ proposals[job[g].prop].status # "pending"
        BY <1>0, <3>1 DEF Fits, Placed, PendingInv
      <4> QED BY <1>4, <3>1, <4>1, NeverPending
    <3>2. CASE g # h
      BY <2>0, <2>1, <3>1, <3>2
    <3>3. CASE g = h /\ job'[h].at = "resume"
      <4>1. Worked(h)
        BY <1>4, <3>3 DEF HandlerStep, Comes, ComesToDecide
      <4> QED BY <3>3, <4>1 DEF Worked
    <3>4. CASE g = h /\ job'[h].at = "reload"
      BY <1>4, <3>1, <3>4 DEF HandlerStep, Comes, ComesToDecide, Carries
    <3> QED BY <2>1, <3>2, <3>3, <3>4
  <2>2. ASSUME NEW r \in DOMAIN runs', r \notin disturbed' \cup untidied'
        PROVE  PendingKnown(r)'
    <3>1. CASE r \in DOMAIN runs
      BY <1>0, <1>4, <2>0, <2>2, <3>1, PendingRow
    <3>2. CASE r \notin DOMAIN runs
      <4>1. RunMade(h) /\ r = Len(runs) + 1
        BY <1>4, <2>2, <3>2 DEF HandlerStep, RunsStay, RunWritten, RunMade
      <4>2. PendingOf(r)' = {}
        BY <1>0, <3>2, <4>1 DEF PendingOf, ProposalsOf, RunMade
      <4>3. runs'[r].status = "running"
        BY <4>1 DEF RunMade
      <4> QED BY <4>2, <4>3 DEF PendingKnown
    <3> QED BY <3>1, <3>2
  <2> QED BY <2>1, <2>2 DEF PendingInv
<1> QED BY <1>1, <1>2, <1>3, <1>4, StepKinds

\* A run that was completed, stopped or expired leaves nobody a proposal to decide on,
\* but for one that two handlers were writing at a time, that the process left in the
\* middle, or whose clean-up or failure could not be written.
THEOREM NothingLeftHolds == Spec => []NothingLeftPending
<1>1. PendingInv => NothingLeftPending
  BY DEF PendingInv, PendingKnown, NothingLeftPending
<1> QED BY <1>1, InitTypes, StepTypes, WriterInit, WriterStep, PendingInit, PendingSteps, PTL DEF Spec

-----------------------------------------------------------------------------
(* The verdict matches the work.                                             *)

Holds(h, p) == job[h].prop = p /\ job[h].at \in {"make", "botch", "mark", "decided"}

Whole(p) == IF proposals[p].kind = "assign" THEN 1 ELSE Items

Told(p) ==
    /\ proposals[p].status \in {"pending", "rejected"} => proposals[p].made = 0
    /\ proposals[p].status = "executed" => proposals[p].made = Whole(p)
    /\ proposals[p].made > 0 => proposals[p].by = "approve"
    /\ proposals[p].made <= Whole(p)

\* What a handler that holds proposal p has done, and has still to do.
Kept(h, p) ==
    /\ proposals[p].status = "pending"
    /\ job[h].at = "decided" => proposals[p].made = 0
    /\ job[h].at = "botch" => proposals[p].made <= Whole(p)
    /\ job[h].at = "make" /\ proposals[p].kind = "assign" => proposals[p].made = 0
    /\ job[h].at = "make" /\ proposals[p].kind = "line_items" =>
          proposals[p].made + job[h].left = Items
    /\ job[h].at = "mark" => proposals[p].made = IF job[h].ok THEN Whole(p) ELSE 0

\* A proposal on which nobody met tells what was done, or one handler holds it, which
\* knows.
HeldOnce(p) ==
    /\ Told(p) \/ \E h \in Handlers : Holds(h, p)
    /\ \A g, h \in Handlers : g # h => ~(Holds(h, p) /\ WorksOn(g, p))
    /\ \A h \in Handlers : Holds(h, p) => Kept(h, p)

HoldInv == \A p \in DOMAIN proposals : p \in contested \/ HeldOnce(p)

LEMMA HoldInit == Init => HoldInv
BY DEF Init, AgentInit, HoldInv

\* The numbers of it.
LEMMA HoldTypes ==
    ASSUME Typed, NEW p \in DOMAIN proposals
    PROVE  /\ proposals[p].made \in Nat /\ proposals[p].kind \in {"line_items", "assign"}
           /\ Whole(p) \in Nat /\ Items \in Nat
           /\ \A h \in Handlers : job[h].left \in Nat
<1>1. proposals[p] \in Proposal /\ Items \in Nat
  BY RowTypes, AgentAssumption DEF Typed
<1>2. \A h \in Handlers : job[h].left \in Nat
  BY DEF Typed, JobTypes, Job
<1> QED BY <1>1, <1>2 DEF Proposal, Whole

\* A proposal that the step leaves as it is.
LEMMA HoldStays ==
    ASSUME Typed, NEW h \in Handlers, HandlerStep(h), Settles(h), Remember(FALSE),
           NEW p \in DOMAIN proposals, p \notin contested', HeldOnce(p),
           p \in DOMAIN proposals', proposals'[p] = proposals[p], ~(Worked(h) /\ job[h].prop = p)
    PROVE  HeldOnce(p)'
<1>0. /\ \A g \in Handlers \ {h} : job'[g] = job[g]
      /\ proposals[p].made \in Nat /\ proposals[p].kind \in {"line_items", "assign"}
      /\ Whole(p) \in Nat /\ Items \in Nat /\ job[h].left \in Nat
      /\ Whole(p)' = Whole(p) /\ (Told(p)' <=> Told(p))
  BY HoldTypes DEF HandlerStep, Alone, Whole, Told
<1>1. ASSUME NEW f \in Handlers, NEW g \in Handlers, f # g, Holds(f, p)', WorksOn(g, p)'
      PROVE  FALSE
  <2>1. WorksOn(f, p)'
    BY <1>1 DEF Holds, WorksOn
  <2> QED BY <1>1, <2>1 DEF Remember
<1>2. ASSUME NEW g \in Handlers \ {h}
      PROVE  (Holds(g, p)' <=> Holds(g, p)) /\ (Kept(g, p)' <=> Kept(g, p))
  BY <1>0, <1>2 DEF Holds, Kept
\* Who begins to hold it finds it as it is told.
<1>3. ASSUME ~Holds(h, p), Holds(h, p)', proposals[p].status = "pending"
      PROVE  proposals[p].made = 0
  <2>1. \A g \in Handlers : ~Holds(g, p)
    <3> SUFFICES ASSUME NEW g \in Handlers, Holds(g, p) PROVE FALSE
      OBVIOUS
    <3>1. g # h
      BY <1>3
    <3>2. Holds(g, p)'
      BY <1>2, <3>1
    <3>3. WorksOn(g, p)'
      BY <3>2 DEF Holds, WorksOn
    <3> QED BY <1>1, <1>3, <3>1, <3>3
  <2> QED BY <1>3, <2>1 DEF HeldOnce, Told
<1>4. Holds(h, p)' => Kept(h, p)'
  <2> SUFFICES ASSUME Holds(h, p)' PROVE Kept(h, p)'
    OBVIOUS
  <2>1. job'[h].prop = p /\ job'[h].at \in {"make", "botch", "mark", "decided"}
    BY DEF Holds
  <2>2. ~Worked(h)
    BY <2>1 DEF Worked
  <2>3. CASE job'[h].at = "decided"
    <3>1. job[h].at = "idle" /\ proposals[p].status = "pending"
      BY <2>1, <2>3 DEF HandlerStep, Comes, ComesToDecide, Decidable
    <3>2. proposals[p].made = 0
      BY <1>3, <3>1 DEF Holds
    <3> QED BY <2>3, <3>1, <3>2 DEF Kept
  <2>4. CASE job'[h].at = "make"
    <3>1. job[h].at = "decide" /\ Decidable(job[h].prop) /\ job'[h].left = Items
      BY <2>2, <2>4 DEF HandlerStep, Comes, ComesToDecide
    <3>2. proposals[p].status = "pending"
      BY <2>1, <3>1 DEF Decidable, HandlerStep, Comes, Carries
    <3>3. proposals[p].made = 0
      BY <1>3, <3>1, <3>2 DEF Holds
    <3> QED BY <1>0, <2>4, <3>1, <3>2, <3>3 DEF Kept
  <2>5. CASE job'[h].at \in {"botch", "mark"}
    <3>1. Unworked(h)
      BY <2>2, <2>5 DEF HandlerStep, Comes, ComesToDecide
    <3>2. job[h].at = "make" /\ job[h].prop = p
      BY <2>1, <2>5, <3>1 DEF Unworked
    <3>3. Kept(h, p)
      BY <3>2 DEF HeldOnce, Holds
    <3>4. CASE job'[h].at = "botch"
      <4>1. proposals[p].kind = "line_items" /\ Whole(p) = Items
        BY <3>1, <3>2, <3>4 DEF Unworked, Whole
      <4>2. proposals[p].made + job[h].left = Items
        BY <3>2, <3>3, <4>1 DEF Kept
      <4>3. proposals[p].made <= Whole(p)
        BY <1>0, <4>1, <4>2
      <4> QED BY <1>0, <3>3, <3>4, <4>3 DEF Kept
    <3>5. CASE job'[h].at = "mark"
      BY <1>0, <3>1, <3>2, <3>3, <3>5 DEF Unworked, Kept
    <3> QED BY <2>5, <3>4, <3>5
  <2> QED BY <2>1, <2>3, <2>4, <2>5
<1>5. Told(p)' \/ \E g \in Handlers : Holds(g, p)'
  <2>1. CASE Told(p)
    BY <1>0, <2>1
  <2>2. ASSUME NEW g \in Handlers, Holds(g, p)
        PROVE  Told(p)' \/ \E k \in Handlers : Holds(k, p)'
    <3>1. CASE g # h
      BY <1>2, <2>2, <3>1
    <3>2. CASE g = h
      <4>1. Unworked(h) /\ job[h].prop = p
        BY <2>2, <3>2 DEF Holds, Settles
      <4>2. CASE job'[h].at # "idle"
        BY <4>1, <4>2 DEF Unworked, Holds
      <4>3. CASE job'[h].at = "idle"
        <5>1. WorksOn(h, p) /\ ~Busy(h)' /\ proposals' = proposals
          BY <2>2, <3>2, <4>1, <4>3 DEF Holds, WorksOn, Busy, At, Unworked
        <5>2. ~(proposals[p].made > 0)
          BY <5>1 DEF Remember
        <5>3. proposals[p].made = 0
          BY <1>0, <5>2
        <5>4. proposals[p].status = "pending"
          BY <2>2, <3>2 DEF HeldOnce, Kept
        <5> QED BY <1>0, <5>3, <5>4 DEF Told
      <4> QED BY <4>2, <4>3
    <3> QED BY <3>1, <3>2
  <2> QED BY <2>1, <2>2 DEF HeldOnce
<1>6. \A g \in Handlers : Holds(g, p)' => Kept(g, p)'
  <2> SUFFICES ASSUME NEW g \in Handlers, Holds(g, p)' PROVE Kept(g, p)'
    OBVIOUS
  <2>1. CASE g = h
    BY <1>4, <2>1
  <2>2. CASE g # h
    BY <1>2, <2>2 DEF HeldOnce
  <2> QED BY <2>1, <2>2
<1> QED BY <1>1, <1>5, <1>6 DEF HeldOnce

\* A proposal that its handler works on.
LEMMA HoldWorks ==
    ASSUME Typed, NEW h \in Handlers, HandlerStep(h), Remember(FALSE),
           NEW p \in DOMAIN proposals, p \notin contested', HeldOnce(p),
           Worked(h), job[h].prop = p
    PROVE  HeldOnce(p)'
<1>0. /\ \A g \in Handlers \ {h} : job'[g] = job[g]
      /\ proposals[p].made \in Nat /\ proposals[p].kind \in {"line_items", "assign"}
      /\ Whole(p) \in Nat /\ Items \in Nat /\ job[h].left \in Nat
      /\ Whole(p)' = Whole(p) /\ proposals'[p].kind = proposals[p].kind
      /\ Holds(h, p) /\ Kept(h, p)
  BY HoldTypes DEF HandlerStep, Alone, Whole, Worked, Holds, HeldOnce
<1>1. ASSUME NEW f \in Handlers, NEW g \in Handlers, f # g, Holds(f, p)', WorksOn(g, p)'
      PROVE  FALSE
  <2>1. WorksOn(f, p)'
    BY <1>1 DEF Holds, WorksOn
  <2> QED BY <1>1, <2>1 DEF Remember
<1>2. \A g \in Handlers \ {h} : ~Holds(g, p)'
  <2> SUFFICES ASSUME NEW g \in Handlers \ {h}, Holds(g, p)' PROVE FALSE
    OBVIOUS
  <2>1. Holds(g, p)
    BY <1>0 DEF Holds
  <2>2. WorksOn(h, p)
    BY <1>0 DEF Holds, WorksOn
  <2> QED BY <2>1, <2>2 DEF HeldOnce
<1>3. ASSUME Holds(h, p)', Kept(h, p)' PROVE HeldOnce(p)'
  BY <1>1, <1>2, <1>3 DEF HeldOnce
<1>4. ASSUME ~Holds(h, p)', Told(p)' PROVE HeldOnce(p)'
  BY <1>1, <1>2, <1>4 DEF HeldOnce
<1>5. CASE job[h].at = "make" /\ proposals[p].kind = "line_items"
  <2>1. /\ proposals'[p].made = proposals[p].made + 1 /\ job'[h].left = job[h].left - 1
        /\ job'[h].ok /\ job'[h].at = (IF job'[h].left = 0 THEN "mark" ELSE "make")
        /\ proposals'[p].status = proposals[p].status /\ job'[h].prop = p
    BY <1>5 DEF Worked
  <2>2. proposals[p].status = "pending" /\ proposals[p].made + job[h].left = Items
    BY <1>0, <1>5 DEF Kept
  <2>3. proposals'[p].made + job'[h].left = Items /\ Whole(p)' = Items
    BY <1>0, <1>5, <2>1, <2>2 DEF Whole
  <2>4. job'[h].at = "mark" => proposals'[p].made = Items
    <3>1. job'[h].at = "mark" => job'[h].left = 0
      BY <2>1
    <3> QED BY <1>0, <2>1, <2>3, <3>1
  <2>5. Holds(h, p)' /\ Kept(h, p)'
    BY <1>0, <1>5, <2>1, <2>2, <2>3, <2>4 DEF Holds, Kept
  <2> QED BY <1>3, <2>5
<1>6. CASE job[h].at = "make" /\ proposals[p].kind = "assign"
  <2>1. /\ proposals'[p].made = 1 /\ job'[h].ok /\ job'[h].at = "mark" /\ job'[h].prop = p
        /\ proposals'[p].status = proposals[p].status
    BY <1>6 DEF Worked
  <2>2. proposals[p].status = "pending" /\ Whole(p)' = 1
    BY <1>0, <1>6 DEF Kept, Whole
  <2>3. Holds(h, p)' /\ Kept(h, p)'
    BY <1>0, <1>6, <2>1, <2>2 DEF Holds, Kept
  <2> QED BY <1>3, <2>3
<1>7. CASE job[h].at = "botch"
  <2>1. /\ proposals'[p].made = proposals[p].made /\ proposals'[p].status = "failed"
        /\ proposals'[p].by = "approve" /\ job'[h].at = "idle" /\ proposals[p].made <= Whole(p)
    BY <1>0, <1>7 DEF Worked, Kept
  <2> QED BY <1>0, <1>4, <2>1 DEF Holds, Told
<1>8. CASE job[h].at = "mark"
  <2>1. /\ proposals'[p].made = proposals[p].made /\ proposals'[p].by = "approve"
        /\ proposals'[p].status = (IF job[h].ok THEN "executed" ELSE "failed")
        /\ job'[h].at = "resume" /\ proposals[p].made = (IF job[h].ok THEN Whole(p) ELSE 0)
    BY <1>0, <1>8 DEF Worked, Kept
  <2>2. ~Holds(h, p)'
    BY <2>1 DEF Holds
  <2>3. Told(p)'
    BY <1>0, <2>1 DEF Told
  <2> QED BY <1>4, <2>2, <2>3
<1>9. CASE job[h].at = "decided"
  <2>1. /\ proposals'[p].made = 0 /\ proposals'[p].status = "rejected" /\ job'[h].at = "resume"
    BY <1>0, <1>9 DEF Worked, Kept
  <2> QED BY <1>0, <1>4, <2>1 DEF Holds, Told
<1> QED BY <1>0, <1>5, <1>6, <1>7, <1>8, <1>9 DEF Holds

\* A proposal that is rejected in the name of nobody.
LEMMA HoldTidied ==
    ASSUME Typed, NEW h \in Handlers, HandlerStep(h), Remember(FALSE),
           NEW p \in DOMAIN proposals, HeldOnce(p), Tidied(h), p \in PendingOf(job[h].run)
    PROVE  HeldOnce(p)'
<1>1. /\ \A g \in Handlers \ {h} : job'[g] = job[g]
      /\ job[h].at = "tidy" /\ job'[h].at = "idle"
      /\ proposals'[p].made = proposals[p].made /\ proposals'[p].status = "rejected"
      /\ proposals'[p].kind = proposals[p].kind /\ proposals[p].status = "pending"
      /\ proposals[p].run = job[h].run
  BY DEF HandlerStep, Alone, Tidied, PendingOf, ProposalsOf
<1>2. WorksOn(h, p)
  BY <1>1 DEF WorksOn, At
<1>3. \A g \in Handlers : ~Holds(g, p) /\ ~Holds(g, p)'
  BY <1>1, <1>2 DEF HeldOnce, Holds
<1>4. proposals[p].made = 0 /\ Whole(p)' \in Nat
  BY <1>1, <1>3, HoldTypes DEF HeldOnce, Told, Whole
<1>5. Told(p)'
  BY <1>1, <1>4 DEF Told
<1> QED BY <1>3, <1>5 DEF HeldOnce

LEMMA HoldStep == Typed /\ HoldInv /\ [Next]_vars => HoldInv'
<1> SUFFICES ASSUME Typed, HoldInv, [Next]_vars PROVE HoldInv'
  OBVIOUS
<1>0. /\ Len(proposals) \in Nat /\ DOMAIN proposals = 1 .. Len(proposals)
      /\ \A h \in Handlers : Fits(h) /\ job[h].prop \in 0 .. Len(proposals)
  BY RowTypes DEF Typed, JobTypes, Fits
<1>1. CASE UNCHANGED vars
  BY <1>1 DEF vars, agentVars, rowVars, history, HoldInv, HeldOnce, Told, Holds, Kept, Whole,
              WorksOn, At
<1>2. CASE enabled' = ~enabled /\ UNCHANGED <<rowVars, job>> /\ Remember(FALSE)
  BY <1>2 DEF rowVars, HoldInv, HeldOnce, Told, Holds, Kept, Whole, WorksOn, At, Remember
<1>3. CASE Restart /\ Remember(TRUE)
  <2>1. /\ \A h \in Handlers : job'[h].at = "idle"
        /\ proposals' = proposals
    BY <1>3, IdleFields DEF Restart
  <2>2. ASSUME NEW p \in DOMAIN proposals, p \notin contested'
        PROVE  HeldOnce(p)'
    <3>1. HeldOnce(p)
      BY <1>3, <2>2 DEF Remember, HoldInv
    <3>2. Told(p)' <=> Told(p)
      BY <2>1 DEF Told, Whole
    <3>3. Told(p)
      <4>1. ASSUME NEW h \in Handlers, Holds(h, p) PROVE Told(p)
        <5>1. WorksOn(h, p) /\ ~Busy(h)'
          BY <2>1, <4>1 DEF Holds, WorksOn, Busy, At
        <5>2. ~(proposals[p].made > 0)
          BY <1>3, <2>1, <2>2, <5>1 DEF Remember
        <5>3. proposals[p].made = 0 /\ proposals[p].status = "pending" /\ Whole(p) \in Nat
          BY <3>1, <4>1, <5>2, HoldTypes DEF HeldOnce, Kept
        <5> QED BY <5>3 DEF Told
      <4> QED BY <3>1, <4>1 DEF HeldOnce
    <3> QED BY <2>1, <3>2, <3>3 DEF HeldOnce, Holds
  <2> QED BY <2>1, <2>2 DEF HoldInv
<1>4. ASSUME NEW h \in Handlers, RunStep(h) \/ DecisionStep(h) \/ Throw(h),
             HandlerStep(h), Remember(FALSE)
      PROVE  HoldInv'
  <2>0. Settles(h) /\ \A g \in Handlers \ {h} : job'[g] = job[g]
    BY <1>4, Settlings DEF HandlerStep, Alone
  <2>1. ASSUME NEW p \in DOMAIN proposals, p \in DOMAIN proposals', p \notin contested'
        PROVE  HeldOnce(p)'
    <3>1. HeldOnce(p)
      BY <1>4, <2>1 DEF Remember, HoldInv
    <3>2. CASE proposals'[p] = proposals[p] /\ ~(Worked(h) /\ job[h].prop = p)
      BY <1>4, <2>0, <2>1, <3>1, <3>2, HoldStays
    <3>3. CASE Worked(h) /\ job[h].prop = p
      BY <1>4, <2>1, <3>1, <3>3, HoldWorks
    <3>4. CASE proposals'[p] # proposals[p] /\ ~(Worked(h) /\ job[h].prop = p)
      <4>1. Tidied(h) /\ p \in PendingOf(job[h].run)
        BY <1>4, <3>4 DEF HandlerStep, ProposalMade, Worked, Tidied
      <4> QED BY <1>4, <2>1, <3>1, <4>1, HoldTidied
    <3> QED BY <3>2, <3>3, <3>4
  <2>2. ASSUME NEW p \in DOMAIN proposals', p \notin DOMAIN proposals
        PROVE  HeldOnce(p)'
    <3>1. ProposalMade(h) /\ p = Len(proposals) + 1
      BY <1>4, <2>2 DEF HandlerStep, ProposalMade, Tidied, Worked
    <3>2. \A g \in Handlers : job'[g].prop = job[g].prop
      BY <2>0, <3>1 DEF ProposalMade
    <3>3. \A g \in Handlers : ~Holds(g, p)'
      BY <1>0, <3>1, <3>2 DEF Holds
    <3>4. Told(p)'
      BY <3>1, AgentAssumption DEF ProposalMade, Told, Whole
    <3> QED BY <3>3, <3>4 DEF HeldOnce
  <2>3. DOMAIN proposals \subseteq DOMAIN proposals'
    BY <1>4 DEF HandlerStep, ProposalMade, Tidied, Worked
  <2> QED BY <2>1, <2>2, <2>3 DEF HoldInv
<1> QED BY <1>1, <1>2, <1>3, <1>4, StepKinds

\* The verdict of a proposal tells what was done on its account - nothing, all of it, or
\* what a broken list left -, whoever is at work on it excepted, and whoever met there.
THEOREM VerdictHolds == Spec => []VerdictMatchesWork
<1>1. HoldInv => VerdictMatchesWork
  <2> SUFFICES ASSUME HoldInv, NEW p \in DOMAIN proposals, p \notin contested,
                      \A h \in Handlers : ~WorksOn(h, p)
               PROVE  Told(p)
    BY DEF VerdictMatchesWork, Told, Whole
  <2>1. \A h \in Handlers : ~Holds(h, p)
    BY DEF Holds, WorksOn
  <2> QED BY <2>1 DEF HoldInv, HeldOnce
<1> QED BY <1>1, InitTypes, StepTypes, HoldInit, HoldStep, PTL DEF Spec
=============================================================================
