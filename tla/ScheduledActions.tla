-------------------------- MODULE ScheduledActions --------------------------
(***************************************************************************)
(* Deferred create_task actions of services/backend/src/modules/rules: the *)
(* rule engine stores a hidden WorkflowScheduledAction row, a sweep every  *)
(* minute claims the due rows, revalidates each one and only then creates  *)
(* the staff task, while MCP clients cancel rows and rules re-route them.  *)
(*                                                                         *)
(* One action per database round trip.  A row is named by its idempotency  *)
(* key, unique in the database, so insert-if-absent is one step.           *)
(*                                                                         *)
(* Abstractions.  The clock is the flag `due` (runAt has passed).  The     *)
(* customer's doings are the sets `since` (bought or called after the      *)
(* source call).  proactiveContactDecision may answer either way.  Open    *)
(* tasks of an intent are those created here; payloads keep the assignee.  *)
(* Definitions named Mut... are seeded faults: each is the definition after *)
(* it with a plausible bug, and no part of the model uses them.            *)
(* Bounds: MaxFaults crashes and thrown errors; Limit is `take`.           *)
(***************************************************************************)
EXTENDS Naturals, FiniteSets

CONSTANTS
    Actions,    \* scheduled actions, by idempotency key
    Members,    \* staff members a task is assigned to
    Sweepers,   \* worker processes, each runs one sweep job at a time
    Clients,    \* cancelScheduledWorkflowAction calls and route_member actions
    IntentOf,   \* the operational intent of each action
    PolicyOf,   \* the revalidations each action asks for
    Limit,      \* rows taken by one sweep
    MaxFaults,
    NoAction

Revalidations == {"open", "purchase", "call"}
Happenings == {"purchase", "call"}

ASSUME SweepAssumption ==
    /\ PolicyOf \in [Actions -> SUBSET Revalidations]
    /\ Limit \in Nat \ {0} /\ MaxFaults \in Nat
    /\ NoAction \notin Actions

VARIABLES
    row,        \* WorkflowScheduledAction: [status, due, assignee]
    task,       \* the staff task with key scheduled:<id>: [state, assignee]
    since,      \* what the customer did since the source call
    wk,         \* sweep jobs
    req,        \* client calls
    faults,
    \* History variable: the code does not keep it.
    ruledOut    \* revalidations that already spoke against a when it was claimed

vars == <<row, task, since, wk, req, faults, ruledOut>>

Statuses == {"none", "pending", "executing", "executed", "skipped", "failed", "cancelled"}
\* A sweep that asks scheduledActionSkipReason's queries is at their names.
AskingPC == {"contact", "open", "purchase", "call"}
WorkingPC == {"load", "skip", "create", "mark", "fail"} \cup AskingPC
SweepPC == {"idle", "claim"} \cup WorkingPC

IdleSweeper(m) == [pc |-> "idle", todo |-> {}, act |-> NoAction, assignee |-> m]
IdleClient(m) == [pc |-> "idle", act |-> NoAction, cancellable |-> FALSE, member |-> m]

Init ==
    \E m \in Members :
        /\ row = [a \in Actions |-> [status |-> "none", due |-> FALSE, assignee |-> m]]
        /\ task = [a \in Actions |-> [state |-> "none", assignee |-> m]]
        /\ since = [a \in Actions |-> {}]
        /\ wk = [s \in Sweepers |-> IdleSweeper(m)]
        /\ req = [c \in Clients |-> IdleClient(m)]
        /\ faults = 0
        /\ ruledOut = [a \in Actions |-> {}]

Task(a) == task[a].state # "none"
MutDoneForIntent(a) == \E b \in Actions \ {a} : IntentOf[b] = IntentOf[a] /\ row[b].status = "skipped"
OpenForIntent(a) == \E b \in Actions \ {a} : IntentOf[b] = IntentOf[a] /\ task[b].state = "open"

(***************************************************************************)
(* The rule engine and the outside world.                                  *)
(***************************************************************************)
Schedule(a, m) ==
    /\ row[a].status = "none"
    /\ row' = [row EXCEPT ![a].status = "pending", ![a].assignee = m]
    /\ UNCHANGED <<task, since, wk, req, faults, ruledOut>>

FallDue(a) ==
    /\ row[a].status # "none" /\ ~row[a].due
    /\ row' = [row EXCEPT ![a].due = TRUE]
    /\ UNCHANGED <<task, since, wk, req, faults, ruledOut>>

Happens(a, h) ==
    /\ row[a].status # "none" /\ h \notin since[a]
    /\ since' = [since EXCEPT ![a] = @ \cup {h}]
    /\ UNCHANGED <<row, task, wk, req, faults, ruledOut>>

CloseTask(a) ==
    /\ task[a].state = "open"
    /\ task' = [task EXCEPT ![a].state = "closed"]
    /\ UNCHANGED <<row, since, wk, req, faults, ruledOut>>

(***************************************************************************)
(* processDueScheduledActions and processScheduledWorkflowAction.          *)
(***************************************************************************)
Due == {a \in Actions : row[a].status = "pending" /\ row[a].due}

\* The sweep's list is read once and worked off row by row.
StartSweep(s) ==
    /\ wk[s].pc = "idle"
    /\ \E todo \in SUBSET Due :
         /\ todo # {}
         /\ IF Cardinality(Due) <= Limit THEN todo = Due ELSE Cardinality(todo) = Limit
         /\ wk' = [wk EXCEPT ![s].pc = "claim", ![s].todo = todo]
    /\ UNCHANGED <<row, task, since, req, faults, ruledOut>>

EndSweep(s) ==
    /\ wk[s].pc = "claim" /\ wk[s].todo = {}
    /\ wk' = [wk EXCEPT ![s].pc = "idle"]
    /\ UNCHANGED <<row, task, since, req, faults, ruledOut>>

MutClaimableTwice(a) == row[a].status \in {"pending", "executing"}
Claimable(a) == row[a].status = "pending"

\* The conditional update: only a row that is still pending is claimed.
Claim(s, a) ==
    /\ wk[s].pc = "claim" /\ a \in wk[s].todo
    /\ IF Claimable(a)
       THEN /\ row' = [row EXCEPT ![a].status = "executing"]
            /\ wk' = [wk EXCEPT ![s].pc = "load", ![s].act = a, ![s].todo = @ \ {a}]
            /\ ruledOut' = [ruledOut EXCEPT ![a] = since[a] \cap PolicyOf[a]]
       ELSE /\ wk' = [wk EXCEPT ![s].todo = @ \ {a}]
            /\ UNCHANGED <<row, ruledOut>>
    /\ UNCHANGED <<task, since, req, faults>>

Load(s) ==
    /\ wk[s].pc = "load"
    /\ wk' = [wk EXCEPT ![s].pc = "contact", ![s].assignee = row[wk[s].act].assignee]
    /\ UNCHANGED <<row, task, since, req, faults, ruledOut>>

\* What a revalidation query may answer now; "contact" is always asked.
Answers(a, reason) ==
    IF reason = "contact" THEN BOOLEAN
    ELSE IF reason \notin PolicyOf[a] THEN {FALSE}
    ELSE IF reason = "open" THEN {OpenForIntent(a)}
    ELSE {reason \in since[a]}

\* Where the sweep goes when a query has nothing against the action.
MutAfterNoCalls == [contact |-> "open", open |-> "purchase", purchase |-> "create", call |-> "create"]
After == [contact |-> "open", open |-> "purchase", purchase |-> "call", call |-> "create"]

Revalidate(s) ==
    /\ wk[s].pc \in AskingPC
    /\ \E against \in Answers(wk[s].act, wk[s].pc) :
         wk' = [wk EXCEPT ![s].pc = IF against THEN "skip" ELSE After[@]]
    /\ UNCHANGED <<row, task, since, req, faults, ruledOut>>

\* The row's last write by its sweep; like the code's, it has no condition.
Settle(s, status) ==
    /\ row' = [row EXCEPT ![wk[s].act].status = status]
    /\ wk' = [wk EXCEPT ![s].pc = "claim", ![s].act = NoAction]
    /\ UNCHANGED <<task, since, req, faults, ruledOut>>

MutSkipRequeued(s) == wk[s].pc = "skip" /\ Settle(s, "pending")
SkipRow(s) == wk[s].pc = "skip" /\ Settle(s, "skipped")
MarkExecuted(s) == wk[s].pc = "mark" /\ Settle(s, "executed")
MarkFailed(s) == wk[s].pc = "fail" /\ Settle(s, "failed")

\* StaffWorkService.create with idempotencyKey scheduled:<id>.
Materialize(s) ==
    /\ wk[s].pc = "create"
    /\ task' = IF Task(wk[s].act) THEN task
               ELSE [task EXCEPT ![wk[s].act] = [state |-> "open", assignee |-> wk[s].assignee]]
    /\ wk' = [wk EXCEPT ![s].pc = "mark"]
    /\ UNCHANGED <<row, since, req, faults, ruledOut>>

(***************************************************************************)
(* cancelScheduledWorkflowAction: read, conditional update, answer from    *)
(* the first read.  updateScheduledActionAssignment: read, conditional     *)
(* update.                                                                 *)
(***************************************************************************)
CancelRead(c, a) ==
    /\ req[c].pc = "idle" /\ row[a].status # "none"
    /\ req' = [req EXCEPT ![c].pc = "cancel", ![c].act = a,
                          ![c].cancellable = row[a].status \in {"pending", "failed"}]
    /\ UNCHANGED <<row, task, since, wk, faults, ruledOut>>

CancelWrite(c) ==
    /\ req[c].pc = "cancel"
    /\ LET a == req[c].act IN
       row' = IF req[c].cancellable /\ row[a].status \in {"pending", "failed"}
              THEN [row EXCEPT ![a].status = "cancelled"] ELSE row
    /\ req' = [req EXCEPT ![c] = IdleClient(req[c].member)]
    /\ UNCHANGED <<task, since, wk, faults, ruledOut>>

MutRoutableAlways(a) == TRUE
Routable(a) == row[a].status = "pending"

RouteRead(c, a, m) ==
    /\ req[c].pc = "idle" /\ Routable(a)
    /\ req' = [req EXCEPT ![c].pc = "route", ![c].act = a, ![c].member = m]
    /\ UNCHANGED <<row, task, since, wk, faults, ruledOut>>

RouteWrite(c) ==
    /\ req[c].pc = "route"
    /\ LET a == req[c].act IN
       row' = IF Routable(a) THEN [row EXCEPT ![a].assignee = req[c].member] ELSE row
    /\ req' = [req EXCEPT ![c] = IdleClient(req[c].member)]
    /\ UNCHANGED <<task, since, wk, faults, ruledOut>>

(***************************************************************************)
(* Faults.  An error inside the try block leads to the failed write; one   *)
(* outside it, or a dead process, ends the sweep where it stands: the job  *)
(* has one attempt, and the next sweep asks for pending rows only.         *)
(***************************************************************************)
Throw(s) ==
    /\ wk[s].pc \in {"skip", "create", "mark"} \cup AskingPC /\ faults < MaxFaults
    /\ faults' = faults + 1
    /\ wk' = [wk EXCEPT ![s].pc = "fail"]
    /\ UNCHANGED <<row, task, since, req, ruledOut>>

Crash(s) ==
    /\ wk[s].pc # "idle" /\ faults < MaxFaults
    /\ faults' = faults + 1
    /\ wk' = [wk EXCEPT ![s] = IdleSweeper(wk[s].assignee)]
    /\ UNCHANGED <<row, task, since, req, ruledOut>>

SweepStep(s) ==
    \/ StartSweep(s) \/ EndSweep(s) \/ (\E a \in Actions : Claim(s, a)) \/ Load(s)
    \/ Revalidate(s) \/ SkipRow(s) \/ Materialize(s) \/ MarkExecuted(s) \/ MarkFailed(s)

ClientStep(c) ==
    \/ \E a \in Actions : CancelRead(c, a) \/ (\E m \in Members : RouteRead(c, a, m))
    \/ CancelWrite(c) \/ RouteWrite(c)

Next ==
    \/ \E a \in Actions : \/ \E m \in Members : Schedule(a, m)
                          \/ FallDue(a)
                          \/ \E h \in Happenings : Happens(a, h)
                          \/ CloseTask(a)
    \/ \E s \in Sweepers : SweepStep(s) \/ Throw(s) \/ Crash(s)
    \/ \E c \in Clients : ClientStep(c)

Spec == Init /\ [][Next]_vars

\* The job scheduler fires every minute and a started sweep runs on.
FairSpec == Spec /\ \A s \in Sweepers : WF_vars(SweepStep(s))

(***************************************************************************)
(* Properties.                                                             *)
(***************************************************************************)
RowType == [status : Statuses, due : BOOLEAN, assignee : Members]
TaskType == [state : {"none", "open", "closed"}, assignee : Members]
SweepType == [pc : SweepPC, todo : SUBSET Actions, act : Actions \cup {NoAction},
              assignee : Members]
CallType == [pc : {"idle", "cancel", "route"}, act : Actions \cup {NoAction},
             cancellable : BOOLEAN, member : Members]

TypeOK ==
    /\ row \in [Actions -> RowType]
    /\ task \in [Actions -> TaskType]
    /\ since \in [Actions -> SUBSET Happenings]
    /\ wk \in [Sweepers -> SweepType]
    /\ req \in [Clients -> CallType]
    /\ faults \in 0..MaxFaults
    /\ ruledOut \in [Actions -> SUBSET Happenings]

\* A purchase or a call that precedes the claim, and that the action's policy
\* asks about, keeps the task from being created.
NoTaskPastRevalidation == \A a \in Actions : Task(a) => ruledOut[a] = {}

\* The task goes to the member the row names: routing either reaches the row
\* before its sweep reads it, or does not change the row any more.
TaskFollowsRow == \A a \in Actions : Task(a) => task[a].assignee = row[a].assignee

\* skipIfOpenTaskExistsForIntent, swept by one process: two open tasks of one
\* intent do not come about.
OneOpenTaskPerIntent ==
    \A a, b \in Actions :
        /\ a # b /\ IntentOf[a] = IntentOf[b]
        /\ "open" \in PolicyOf[a] /\ "open" \in PolicyOf[b]
        => ~(task[a].state = "open" /\ task[b].state = "open")

\* The deferred task as its clients see it.
Outcome(a) ==
    IF Task(a) THEN "visible"
    ELSE IF row[a].status = "none" THEN "absent"
    ELSE IF row[a].status \in {"skipped", "cancelled"} THEN "dropped"
    ELSE "hidden"

DT == INSTANCE DeferredTask WITH state <- [a \in Actions |-> Outcome(a)]

\* The row's life, as its clients may watch it, is that of a DeferredTask.
ImplementsDeferredTask == DT!DTSpec

\* A dead sweep left the row executing: no sweep will ask for it again.
Stranded(a) == row[a].status = "executing" /\ \A s \in Sweepers : wk[s].act # a

\* "Task is due; worker will claim and revalidate it.", which
\* scheduledActionNextOutcome says of due rows: with sweeps that fail or die
\* now and then they are settled or, by a death alone, stranded.
DueIsSettled ==
    \A a \in Actions :
        (row[a].status \in {"pending", "executing"} /\ row[a].due)
        ~> \/ row[a].status \in {"executed", "skipped", "failed", "cancelled"}
           \/ Stranded(a) /\ faults > 0

=============================================================================
