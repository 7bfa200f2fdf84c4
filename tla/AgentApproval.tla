--------------------------- MODULE AgentApproval ---------------------------
(***************************************************************************)
(* Deciding on what an agent proposed                                      *)
(* (agent-approval/agent-approval.service.ts) and resuming its run         *)
(* (AiAssistService.resumeRun, the adapters' resume).                      *)
(*                                                                         *)
(* A person approves or rejects one proposal.  An approval does the work   *)
(* first - line items one by one, or one assign through the platform's own *)
(* gates -, marks the proposal afterwards, and then resumes the run with   *)
(* this one decision.                                                      *)
(***************************************************************************)
EXTENDS AgentRun

\* History: what met, so that the properties can name their exceptions.
VARIABLES
    contested,   \* proposals that two handlers worked on, or one left half done
    disturbed,   \* runs whose status two handlers were about to write at a time,
                 \* or one that stopped before it did
    stranded,    \* runs whose handler or job ended before it wrote how they ended
    untidied,    \* runs whose failure, or whose cleaning up, was not written
    startsMet,   \* requests with two starts at a time
    late         \* handlers past their own check when the switch went off

history == <<contested, disturbed, stranded, untidied, startsMet, late>>
vars == <<agentVars, history>>

TypeOK ==
    /\ AgentTypeOK
    /\ contested \subseteq 1 .. MaxProposals
    /\ disturbed \subseteq 1 .. MaxRuns
    /\ stranded \subseteq 1 .. MaxRuns
    /\ untidied \subseteq 1 .. MaxRuns
    /\ startsMet \subseteq Requests
    /\ late \subseteq Handlers

Init ==
    /\ AgentInit
    /\ contested = {} /\ disturbed = {} /\ stranded = {}
    /\ untidied = {} /\ startsMet = {} /\ late = {}

MyProposal(h) == proposals[job[h].prop]

\* Mutant: only the run is looked at.
DecidableByRun(p) == runs[proposals[p].run].status = "awaiting_approval"

\* loadDecidable: pending, on a run that waits.
Decidable(p) == /\ proposals[p].status = "pending"
                /\ runs[proposals[p].run].status = "awaiting_approval"

Deciding(p, verdict, where) ==
    [Idle EXCEPT !.op = verdict, !.at = where, !.prop = p,
                 !.run = proposals[p].run, !.about = runs[proposals[p].run].about]

\* What an approval has done is on the row of its proposal, in the name of the
\* person who approved.
Mark(p, status, verdict) ==
    proposals' = [proposals EXCEPT ![p].status = status, ![p].by = verdict,
                                   ![p].decided = TRUE]

\* Mutant: approving feels like a person's action, so no switch is asked.
ApproveAnyway(h, p) ==
    /\ Begin(h, Deciding(p, "approve", "decide"))
    /\ UNCHANGED <<rowVars, enabled, flips, stalled>>

\* approve: the switch before anything is loaded.
Approve(h, p) ==
    /\ enabled
    /\ Begin(h, Deciding(p, "approve", "decide"))
    /\ UNCHANGED <<rowVars, enabled, flips, stalled>>

\* The payload may be unreadable or name a SKU that is no longer active: refused
\* before the first write.
LoadDecidable(h) ==
    /\ At(h, "decide")
    /\ \/ /\ Decidable(job[h].prop)
          /\ job' = [job EXCEPT ![h].at = "make", ![h].left = Items]
          /\ UNCHANGED begun
       \/ Done(h)
    /\ UNCHANGED <<rowVars, enabled, flips, stalled>>

\* createLineItems: addLineItem once per item, each a unit of work of its own.
CreateLineItem(h) ==
    LET p == job[h].prop
        left == job[h].left - 1
    IN  /\ At(h, "make") /\ MyProposal(h).kind = "line_items"
        /\ \/ /\ proposals' = [proposals EXCEPT ![p].made = @ + 1]
              /\ job' = [job EXCEPT ![h].left = left, ![h].ok = TRUE,
                                    ![h].at = IF left = 0 THEN "mark" ELSE "make"]
              /\ UNCHANGED begun
           \/ Go(h, "botch") /\ UNCHANGED proposals
        /\ UNCHANGED <<runs, said, jobs, enabled, flips, stalled>>

\* The list broke off: failed, in the name of the person who pressed approve.
MarkBroken(h) ==
    /\ At(h, "botch")
    /\ Mark(job[h].prop, "failed", "approve")
    /\ Done(h)
    /\ UNCHANGED <<runs, said, jobs, enabled, flips, stalled>>

\* approveAssign: assignLineItem assigns a READY line once, or a gate blocks it,
\* or it throws what is none of the gates' and the proposal stays as it is.
AssignLine(h) ==
    LET p == job[h].prop IN
    /\ At(h, "make") /\ MyProposal(h).kind = "assign"
    /\ \/ /\ proposals[p].made = 0
          /\ proposals' = [proposals EXCEPT ![p].made = 1]
          /\ job' = [job EXCEPT ![h].at = "mark", ![h].ok = TRUE]
          /\ UNCHANGED begun
       \/ /\ job' = [job EXCEPT ![h].at = "mark", ![h].ok = FALSE]
          /\ UNCHANGED <<proposals, begun>>
       \/ Done(h) /\ UNCHANGED proposals
    /\ UNCHANGED <<runs, said, jobs, enabled, flips, stalled>>

\* The mark after the work; the update may fail as well.
MarkDone(h) ==
    /\ At(h, "mark")
    /\ \/ /\ Mark(job[h].prop, IF job[h].ok THEN "executed" ELSE "failed", "approve")
          /\ Go(h, "resume")
       \/ Done(h) /\ UNCHANGED proposals
    /\ UNCHANGED <<runs, said, jobs, enabled, flips, stalled>>

\* reject asks no switch: cleaning up is not stopped.
Reject(h, p) ==
    /\ Decidable(p)
    /\ Begin(h, Deciding(p, "reject", "decided"))
    /\ UNCHANGED <<rowVars, enabled, flips, stalled>>

MarkRejected(h) ==
    /\ At(h, "decided")
    /\ Mark(job[h].prop, "rejected", "reject")
    /\ Go(h, "resume")
    /\ UNCHANGED <<runs, said, jobs, enabled, flips, stalled>>

\* resumeRun asks the switch; the decision stands when it refuses.
AskToResume(h) ==
    /\ At(h, "resume")
    /\ IF enabled THEN Go(h, "reload") ELSE Done(h)
    /\ UNCHANGED <<rowVars, enabled, flips, stalled>>

\* The adapters' resume: every pause of the saved state has its decision, and the
\* decision its pause.
Resumable(p, r) == runs[r].saved = {p}

\* resumeRun loads the run; a run that no longer waits is left alone.  Without a
\* readable state it expires (expireRun); a state this SDK cannot restore, or a
\* decision that does not fit it, fails the run.
ReloadRun(h) ==
    /\ At(h, "reload")
    /\ \/ MyRun(h).status # "awaiting_approval" /\ Done(h)
       \/ /\ MyRun(h).status = "awaiting_approval"
          /\ \/ Resumable(job[h].prop, job[h].run) /\ Go(h, "model")
             \/ Go(h, "fail")
             \/ Go(h, "stop")
    /\ UNCHANGED <<rowVars, enabled, flips, stalled>>

DecisionStep(h) ==
    \/ \E p \in DOMAIN proposals : Approve(h, p) \/ Reject(h, p)
    \/ LoadDecidable(h) \/ CreateLineItem(h) \/ MarkBroken(h) \/ AssignLine(h)
    \/ MarkDone(h) \/ MarkRejected(h) \/ AskToResume(h) \/ ReloadRun(h)

-----------------------------------------------------------------------------
(* History. *)

\* h is about to change proposal p, or its verdict.
WorksOn(h, p) ==
    \/ At(h, "tidy") /\ proposals[p].run = job[h].run
    \/ /\ job[h].prop = p
       /\ job[h].at \in {"make", "botch", "mark", "decided"}

\* h has read run r, or created it, and may write its status.
WillWrite(h, r) ==
    /\ job[h].run = r
    /\ job[h].at \in {"switch", "model", "propose", "park", "finish", "fail",
                      "enqueue", "stop"}

Starting(h, q) ==
    job[h].op = "start" /\ job[h].about = q /\ job[h].at \in {"principal", "create"}

\* Nothing tests the switch again before h does what the switch forbids.
Unstoppable(h) == job[h].at \in {"create", "reload", "decide", "make"}

\* Two of them at a time, or one that stops (with the process: stops) before its
\* next write.
Remember(stops) ==
    /\ contested' = contested \cup {p \in DOMAIN proposals :
         \/ \E g, h \in Handlers : g # h /\ WorksOn(g, p)' /\ WorksOn(h, p)'
         \/ \E h \in Handlers : WorksOn(h, p) /\ ~Busy(h)' /\ proposals' = proposals
                                /\ proposals[p].made > 0}
    /\ disturbed' = disturbed \cup {r \in DOMAIN runs :
         \/ \E g, h \in Handlers : g # h /\ WillWrite(g, r)' /\ WillWrite(h, r)'
         \/ stops /\ \E h \in Handlers : WillWrite(h, r)}
    /\ startsMet' = startsMet \cup {q \in Requests :
         \E g, h \in Handlers : g # h /\ Starting(g, q)' /\ Starting(h, q)'}
    /\ late' = {h \in Handlers : Unstoppable(h)' /\ ~enabled' /\ (enabled \/ h \in late)}

\* What handlers that end in the middle (gone) leave behind: a run that nobody will
\* fail or complete any more, and one that did not get its failure or its clean-up.
LeaveBehind(gone) ==
    /\ stranded' = stranded \cup {r \in DOMAIN runs \ jobs' :
         \E h \in gone : /\ job[h].run = r /\ ~At(h, "tell")
                          /\ job[h].op \in {"start", "ask", "work"}}
    /\ untidied' = untidied \cup {r \in DOMAIN runs :
         \E h \in gone : job[h].run = r /\ job[h].at \in {"fail", "tidy"}}

Next ==
    \/ \E h \in Handlers : RunStep(h) /\ Remember(FALSE) /\ LeaveBehind({})
    \/ \E h \in Handlers : DecisionStep(h) /\ Remember(FALSE) /\ LeaveBehind({})
    \/ \E h \in Handlers : Throw(h) /\ Remember(FALSE) /\ LeaveBehind({h})
    \/ SetSwitch /\ Remember(FALSE) /\ LeaveBehind({})
    \/ Restart /\ Remember(TRUE) /\ LeaveBehind(Handlers)

Spec == Init /\ [][Next]_vars

-----------------------------------------------------------------------------
(* Properties. *)

\* A request has one open run that was started from its screen (assertNoOpenRun)
\* unless two starts met between the look-up and the insert, or a run that had
\* ended came back because a stretch was still at work on it.
OneOpenRun ==
    \A q \in Requests :
        Cardinality({r \in OpenRunsOn(q) : runs[r].about = q}) > 1 =>
            q \in startsMet \/ \E r \in OpenRunsOn(q) : r \in disturbed

\* Neither a late job, nor a decision, nor the sweep overwrites how a run ended:
\* only a stretch, a stop or an expiry does that read the run before it ended.
EndedStaysEnded ==
    [][\A r \in DOMAIN runs :
          runs[r].status \in Terminal /\ runs'[r].status # runs[r].status =>
              r \in disturbed]_vars

\* The verdict of a proposal tells what was done on its account: nothing for one
\* that is pending or rejected, all of it for one that is executed, and never
\* twice; whoever works on it at the moment, or met somebody there, or broke off
\* before the mark, excepted.
VerdictMatchesWork ==
    \A p \in DOMAIN proposals :
        LET all == IF proposals[p].kind = "assign" THEN 1 ELSE Items IN
        \/ p \in contested
        \/ \E h \in Handlers : WorksOn(h, p)
        \/ /\ proposals[p].status \in {"pending", "rejected"} => proposals[p].made = 0
           /\ proposals[p].status = "executed" => proposals[p].made = all
           /\ proposals[p].made > 0 => proposals[p].by = "approve"
           /\ proposals[p].made <= all

\* A switch that is off stops everything the agent causes (assertEnabled): no run
\* is created, no model is called and nothing is made, but by a handler whose last
\* test of the switch was already behind it when it went off.
SwitchedOffIsInert ==
    [][\A h \in Handlers :
          ~enabled /\ job'[h] # job[h] /\
          (\/ Len(runs') > Len(runs)
           \/ job'[h].at = "model"
           \/ \E p \in DOMAIN proposals : proposals'[p].made > proposals[p].made)
              => h \in late]_vars

\* A run that was completed, stopped or expired leaves nobody a proposal to decide
\* on, unless two stretches, or its end and a stretch, got in each other's way, the
\* process stopped in the middle, or the write that was to clean up (the updateMany
\* of abortRun and expireRun, or failRun's) failed itself.  (A run that failed may:
\* failRun writes the status alone, and a turn that paused twice fails at its first
\* decision.)
NothingLeftPending ==
    \A r \in DOMAIN runs :
        runs[r].status \in {"completed", "aborted", "expired"} =>
            \/ PendingOf(r) = {}
            \/ r \in disturbed \cup untidied
            \/ \E h \in Handlers : At(h, "tidy") /\ job[h].run = r

\* A run that reads running has a job in the queue, or a handler that has still to
\* write how it ended: it would block its request for good, since the sweep leaves
\* running runs alone.  Excepted are the runs that run-expiry.service.ts calls a
\* known gap, each left behind by one of these, and by nothing else: the handler that
\* created it stopped, or its step was refused, before the queue had the job;
\* executeRun threw before its try; failRun's own write failed; or the job stalled
\* a second time.
RunningIsCarried ==
    \A r \in DOMAIN runs :
        runs[r].status = "running" =>
            \/ r \in jobs
            \/ \E h \in Handlers : /\ job[h].run = r /\ ~At(h, "tell")
                                    /\ job[h].op \in {"start", "ask", "work"}
            \/ r \in stranded
=============================================================================
