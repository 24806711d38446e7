--------------------------- MODULE TranscriptFlow ---------------------------
(***************************************************************************)
(* AiTranscriptResolverWorker around the rule engine: a BullMQ job per     *)
(* call event fires the event at WorkflowExecution's rules and stores what *)
(* became of it in a TranscriptWorkflowEvaluation row.  A failed run fails *)
(* the job, whose next attempt repairs it; a worker that dies or stalls    *)
(* has its job handed to another; an administrator may queue a repair.     *)
(*                                                                         *)
(* Composition.  The engine's steps are WorkflowExecution's; this module   *)
(* starts its calls from jobs, reads their outcome and adds job and eval.  *)
(* Abstractions.  The language model has answered, one signal per call,    *)
(* action_required with an intent other than no_action.                    *)
(* Definitions named Mut... are seeded faults, as in WorkflowExecution.    *)
(* Bounds: MaxTries attempts of a job, MaxRepairs repairs, and the         *)
(* engine's; a stall spends one of MaxCrashes.                             *)
(***************************************************************************)
EXTENDS WorkflowExecution

CONSTANTS MaxTries, MaxRepairs, NoWorker

ASSUME FlowAssumption ==
    MaxTries \in Nat \ {0} /\ MaxRepairs \in Nat /\ NoWorker \notin Workers

VARIABLES
    job,      \* the event's job: [state, tries, repair, owner]
    eval,     \* status of its TranscriptWorkflowEvaluation row
    verdict,  \* what each worker is about to store
    repairs,  \* repairs left
    unstored  \* history: has a failed run gone by without being stored?

flow == <<job, eval, verdict, repairs, unstored>>
engine == <<exec, task, cool, note, now, budget, fired>>
allVars == <<vars, flow>>

Job(state, tries, repair, owner) ==
    [state |-> state, tries |-> tries, repair |-> repair, owner |-> owner]

FlowInit ==
    /\ Init
    /\ job = [e \in Events |-> Job("none", 0, FALSE, NoWorker)]
    /\ eval = [e \in Events |-> "none"]
    /\ verdict = [w \in Workers |-> "none"]
    /\ repairs = MaxRepairs
    /\ unstored = FALSE

-----------------------------------------------------------------------------
\* enqueueTranscriptResolver, for a new transcript and for a repair.
Enqueue(e) ==
    /\ job[e].state = "none"
    /\ job' = [job EXCEPT ![e] = Job("waiting", 0, FALSE, NoWorker)]
    /\ UNCHANGED <<vars, eval, verdict, repairs, unstored>>

EnqueueRepair(e) ==
    /\ repairs > 0
    /\ job[e].state \in {"waiting", "done", "dead"}
    /\ eval[e] \in {"none", "failed", "no_matching_rule"}
    /\ repairs' = repairs - 1
    /\ job' = [job EXCEPT ![e] = Job("waiting", 0, TRUE, NoWorker)]
    /\ UNCHANGED <<vars, eval, verdict, unstored>>

MutForced(e) == job[e].repair
Forced(e) == job[e].repair \/ eval[e] = "failed"

\* resolveCallEvent: an event that is evaluated is left alone.
TakeJob(w, e) ==
    /\ job[e].state = "waiting"
    /\ At(w, "idle")
    /\ IF eval[e] # "none" /\ ~Forced(e)
         THEN /\ job' = [job EXCEPT ![e].state = "done"]
              /\ UNCHANGED vars
         ELSE /\ job' = [job EXCEPT ![e].state = "active", ![e].owner = w]
              /\ Fire(w, e, Forced(e))
    /\ UNCHANGED <<eval, verdict, repairs, unstored>>

EngineStep(w) == RunStep(w) /\ UNCHANGED flow
EngineFault(w) == (FailAction(w) \/ Throw(w)) /\ UNCHANGED flow

\* The rows recoverDuplicateWorkflowResponse finds.
Answered(e) == {r \in Rules : exec[e][r].status \notin {"none", "started", "skipped"}}
Recovered(e) ==
    IF \E r \in Answered(e) : exec[e][r].tasks # {} THEN "task_created"
    ELSE IF \E r \in Answered(e) : exec[e][r].status = "cooldown_suppressed"
         THEN "cooldown_suppressed"
    ELSE IF Answered(e) # {} THEN "matched_without_task" ELSE "no_matching_rule"

\* transcriptEvaluationStatus
MutJudge(w) ==
    /\ wk[w].pc \in {"returned", "threw"} /\ verdict[w] = "none"
    /\ verdict' = [verdict EXCEPT ![w] =
            IF wk[w].out = "no_matching_rule" THEN Recovered(wk[w].ev) ELSE wk[w].out]
    /\ UNCHANGED <<vars, job, eval, repairs, unstored>>
Judge(w) ==
    /\ wk[w].pc \in {"returned", "threw"} /\ verdict[w] = "none"
    /\ verdict' = [verdict EXCEPT ![w] =
            IF At(w, "threw") THEN "failed"
            ELSE IF wk[w].out = "no_matching_rule" THEN Recovered(wk[w].ev)
            ELSE wk[w].out]
    /\ UNCHANGED <<vars, job, eval, repairs, unstored>>

LastTry(j) == j.tries + 1 >= MaxTries

\* The job of a worker whose lock was taken away is not its own any more.
EndJob(w, failed) ==
    LET e == wk[w].ev IN
    job' = IF job[e].owner # w THEN job
           ELSE [job EXCEPT ![e] =
                IF ~failed THEN Job("done", @.tries, @.repair, NoWorker)
                ELSE Job(IF LastTry(@) THEN "dead" ELSE "waiting", @.tries + 1, @.repair, NoWorker)]

Store(w) ==
    /\ verdict[w] # "none"
    /\ eval' = [eval EXCEPT ![wk[w].ev] = verdict[w]]
    /\ EndJob(w, verdict[w] = "failed")
    /\ verdict' = [verdict EXCEPT ![w] = "none"]
    /\ Forget(w)
    /\ UNCHANGED <<engine, repairs, unstored>>

\* The upsert throws: the job fails and the row stays.
StoreFails(w) ==
    /\ verdict[w] # "none"
    /\ SpendFault
    /\ EndJob(w, TRUE)
    /\ verdict' = [verdict EXCEPT ![w] = "none"]
    /\ Forget(w)
    /\ unstored' = (unstored \/ verdict[w] = "failed")
    /\ UNCHANGED <<exec, task, cool, note, now, fired, eval, repairs>>

\* BullMQ hands a job out again when the lock of its worker lapses.
MutStalled(j) == j
Stalled(j) == Job("waiting", j.tries, j.repair, NoWorker)

Die(w) ==
    /\ Crash(w)
    /\ job' = IF job[wk[w].ev].owner # w THEN job
              ELSE [job EXCEPT ![wk[w].ev] = Stalled(@)]
    /\ verdict' = [verdict EXCEPT ![w] = "none"]
    /\ UNCHANGED <<eval, repairs, unstored>>

\* A live worker loses its job lock.
Stall(e) ==
    /\ job[e].state = "active"
    /\ SpendCrash
    /\ job' = [job EXCEPT ![e] = Stalled(@)]
    /\ UNCHANGED <<exec, task, cool, note, now, wk, fired, eval, verdict, repairs, unstored>>

WorkerStep(w) == EngineStep(w) \/ Judge(w) \/ Store(w)

FlowNext ==
    \/ \E e \in Events : \/ Enqueue(e) \/ EnqueueRepair(e) \/ Stall(e)
                         \/ \E w \in Workers : TakeJob(w, e)
    \/ \E w \in Workers : \/ WorkerStep(w) \/ EngineFault(w)
                          \/ StoreFails(w) \/ Die(w)

FlowSpec == FlowInit /\ [][FlowNext]_allVars

\* Workers go on with what they do, and BullMQ hands out waiting jobs.
FairFlow ==
    /\ FlowSpec
    /\ \A w \in Workers : WF_allVars(WorkerStep(w))
    /\ \A e \in Events : WF_allVars(\E w \in Workers : TakeJob(w, e))

-----------------------------------------------------------------------------
FlowTypeOK ==
    /\ TypeOK
    /\ job \in [Events -> [state : {"none", "waiting", "active", "done", "dead"},
                           tries : 0 .. MaxTries, repair : BOOLEAN,
                           owner : Workers \cup {NoWorker}]]
    /\ eval \in [Events -> Outs \cup {"none", "failed"}]
    /\ verdict \in [Workers -> Outs \cup {"none", "failed"}]
    /\ repairs \in 0 .. MaxRepairs
    /\ unstored \in BOOLEAN

AtRest(e) ==
    /\ job[e].state = "done"
    /\ \A w \in Workers : At(w, "idle") \/ wk[w].ev # e

\* No worker has died or lost its lock so far, and every failed run was stored.
Undisturbed == budget.crashes = MaxCrashes /\ ~unstored

(* A stored evaluation is true of the event when its job is done: what it   *)
(* calls task_created has a task, and what it calls no_matching_rule was    *)
(* claimed by no rule that acts, unless a worker died or stalled, or the    *)
(* database failed both the run and the upsert of its failure.              *)
EvaluationHonest ==
    \A e \in Events : AtRest(e) =>
        /\ eval[e] = "task_created" => \E r \in Rules : HasTask(e, r)
        /\ eval[e] = "no_matching_rule" /\ Undisturbed =>
            \A r \in Rules : /\ exec[e][r].status \in {"none", "skipped"}
                             /\ ~HasTask(e, r)

(* However its runs throw, an event that matches a rule ends with that      *)
(* rule's task, unless its attempts were used up, a worker died or stalled  *)
(* or a failed run went by unstored (retries, replay of failed and started  *)
(* rows, forceWorkflowEvaluationRepair).                                    *)
MatchedGetsTask ==
    \A e \in Events : job[e].state = "waiting" /\ <<e, 1>> \in Matches
        ~> HasTask(e, 1) \/ job[e].state = "dead" \/ ~Undisturbed

\* The database failed at least once for each attempt a job has.
Outage == MaxFaults - budget.faults >= MaxTries

(* Whatever dies, stalls or throws, a job that is queued comes to an end:   *)
(* done with an evaluation stored, or dead with one, unless the upsert      *)
(* failed in every attempt and nothing was stored.                          *)
JobEnds ==
    \A e \in Events : job[e].state = "waiting"
        ~> \/ job[e].state \in {"done", "dead"} /\ eval[e] # "none"
           \/ job[e].state = "dead" /\ Outage
=============================================================================
