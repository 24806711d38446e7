-------------------------- MODULE WorkflowExecution --------------------------
(***************************************************************************)
(* RulesService.fireTrigger: an event is run against the runnable rules of *)
(* its trigger in priority order.  Each (event, rule) pair owns one        *)
(* WorkflowRuleExecution row; the row is claimed, the customer's cooldown  *)
(* consulted, the actions applied and the row completed, with nothing but  *)
(* single database round trips in between.  A call that finds the row      *)
(* taken skips it, unless the tasks it records are gone (recover) or the   *)
(* caller asks for a repair (replay).                                      *)
(*                                                                         *)
(* One action per round trip that another call can observe.  Unique keys   *)
(* make the claim and the creation of a task insert-if-absent, one step.   *)
(*                                                                         *)
(* Abstractions.  Rules are numbered in the order they are tried.  The     *)
(* conditions of an event on a rule hold always, never or (Volatile) now   *)
(* and then.  A task is the staff work its idempotency key leads to.       *)
(* no_op counts as actions_applied, and of the actions only create_task    *)
(* and add_note are told apart.  A cooldown window is one unit of `now`.   *)
(* Definitions named Mut... are seeded faults: each is the definition after *)
(* it with a plausible bug, and no part of the model uses them.            *)
(* Bounds: MaxFaults thrown errors, MaxCrashes, MaxDeletes, MaxNow.        *)
(***************************************************************************)
EXTENDS Naturals, Sequences, FiniteSets

CONSTANTS
    Workers,        \* calls of fireTrigger that may be under way at once
    Events,         \* event ids
    Customers, NoCustomer,
    CustomerOf,     \* the customer an event resolves to, or NoCustomer
    NumRules,
    Kind,           \* Kind[r][a]: what action a of rule r does
    Shadow,         \* rules with status shadow; the others are active
    Composable,     \* rules that do not stop the run
    CooldownLimit,  \* fires per window; 0 is a disabled cooldown
    Matches, Volatile, \* <<event, rule>> whose conditions hold, or may hold
    PolicySkips,    \* may proactiveContactDecision refuse a task?
    Repairs,        \* may a call carry forceWorkflowEvaluationRepair?
    MaxFaults, MaxCrashes, MaxDeletes, MaxNow

Rules == 1 .. NumRules
ActionIds == UNION {1 .. Len(Kind[r]) : r \in Rules}
Keys == Events \X Rules \X ActionIds
NoRow == [count |-> 0, window |-> 0]
AnyEvent == CHOOSE e \in Events : TRUE

ASSUME EngineAssumption ==
    /\ Events # {} /\ IsFiniteSet(Events) /\ NumRules \in Nat \ {0}
    /\ Kind \in [Rules -> Seq({"task", "note"})]
    /\ Shadow \subseteq Rules /\ Composable \subseteq Rules
    /\ CooldownLimit \in [Rules -> Nat]
    /\ NoCustomer \notin Customers
    /\ CustomerOf \in [Events -> Customers \cup {NoCustomer}]
    /\ Matches \cap Volatile = {}
    /\ PolicySkips \in BOOLEAN /\ Repairs \in BOOLEAN
    /\ MaxFaults \in Nat /\ MaxCrashes \in Nat /\ MaxDeletes \in Nat /\ MaxNow \in Nat

VARIABLES
    exec,    \* WorkflowRuleExecution by event and rule: [status, tasks]
    task,    \* keys of the staff tasks that exist
    cool,    \* WorkflowRuleCooldown by rule and customer: [count, window]
    note,    \* the lines of each customer's note, by the key that wrote them
    now,     \* the clock, in cooldown windows
    wk,      \* the calls
    budget,  \* faults, crashes and deletions left
    fired    \* history: <<event, rule, window>> of every fresh run that applied, with
             \* the cooldown window it is counted in

vars == <<exec, task, cool, note, now, wk, budget, fired>>

Settled == {"task_created", "actions_applied", "skipped",
            "cooldown_suppressed", "shadow_matched"}
Statuses == Settled \cup {"none", "started", "failed"}
\* What the response says, weakest first.
Outs == {"no_matching_rule", "matched_without_task", "cooldown_suppressed", "task_created"}

Row(status, tasks) == [status |-> status, tasks |-> tasks]
IdleCall(e) ==
    [pc |-> "idle", ev |-> e, force |-> FALSE, r |-> 1, a |-> 1, mode |-> "fresh",
     old |-> Row("none", {}), at |-> 0, lines |-> {}, seen |-> NoRow, got |-> {},
     applied |-> FALSE, out |-> "no_matching_rule"]

Init ==
    /\ exec = [e \in Events |-> [r \in Rules |-> Row("none", {})]]
    /\ task = {}
    /\ cool = [r \in Rules |-> [c \in Customers |-> NoRow]]
    /\ note = [c \in Customers |-> {}]
    /\ now = 0
    /\ wk = [w \in Workers |-> IdleCall(AnyEvent)]
    /\ budget = [faults |-> MaxFaults, crashes |-> MaxCrashes, deletes |-> MaxDeletes]
    /\ fired = {}

-----------------------------------------------------------------------------
At(w, pc) == wk[w].pc = pc
Key(w) == <<wk[w].ev, wk[w].r, wk[w].a>>
CustomerAt(w) == CustomerOf[wk[w].ev]
ActionsDone(w) == wk[w].a > Len(Kind[wk[w].r])
Does(w, kind) == At(w, "act") /\ ~ActionsDone(w) /\ Kind[wk[w].r][wk[w].a] = kind

\* The break after a result of rule r.
MutStops(r) == r \in Shadow /\ r \notin Composable
Stops(r) == r \notin Shadow /\ r \notin Composable

Stronger(x, y) ==
    IF "task_created" \in {x, y} THEN "task_created"
    ELSE IF "cooldown_suppressed" \in {x, y} THEN "cooldown_suppressed"
    ELSE IF "matched_without_task" \in {x, y} THEN "matched_without_task"
    ELSE "no_matching_rule"

\* The call is done with its rule, which contributed `out`; it tries the next
\* rule unless the run stops here.
Leave(w, stop, out) ==
    wk' = [wk EXCEPT ![w] =
        [IdleCall(wk[w].ev) EXCEPT
            !.pc = IF stop \/ wk[w].r = NumRules THEN "returned" ELSE "rule",
            !.force = wk[w].force,
            !.r = IF stop \/ wk[w].r = NumRules THEN wk[w].r ELSE wk[w].r + 1,
            !.out = Stronger(wk[w].out, out)]]

Goto(w, pc) == wk' = [wk EXCEPT ![w].pc = pc]

-----------------------------------------------------------------------------
(* fireTrigger, up to a row to work on *)

Fire(w, e, force) ==
    /\ At(w, "idle")
    /\ wk' = [wk EXCEPT ![w] = [IdleCall(e) EXCEPT !.pc = "rule", !.force = force]]
    /\ UNCHANGED <<exec, task, cool, note, now, budget, fired>>

Mismatch(w) ==
    /\ At(w, "rule")
    /\ <<wk[w].ev, wk[w].r>> \notin Matches
    /\ Leave(w, FALSE, "no_matching_rule")
    /\ UNCHANGED <<exec, task, cool, note, now, budget, fired>>

\* resolveConditionState reads the clock and the customer row, note included.
Match(w) ==
    /\ At(w, "rule")
    /\ <<wk[w].ev, wk[w].r>> \in Matches \cup Volatile
    /\ wk' = [wk EXCEPT ![w] = [@ EXCEPT
            !.pc = "claim", !.at = now,
            !.lines = IF CustomerAt(w) = NoCustomer THEN {} ELSE note[CustomerAt(w)]]]
    /\ UNCHANGED <<exec, task, cool, note, now, budget, fired>>

MutUnclaimed(e, r) == exec[e][r].status \in {"none", "skipped"}
Unclaimed(e, r) == exec[e][r].status = "none"

Claim(w) ==
    /\ At(w, "claim")
    /\ IF Unclaimed(wk[w].ev, wk[w].r)
         THEN /\ exec' = [exec EXCEPT ![wk[w].ev][wk[w].r] = Row("started", {})]
              /\ Goto(w, "cool")
         ELSE /\ Goto(w, "existing")
              /\ UNCHANGED exec
    /\ UNCHANGED <<task, cool, note, now, budget, fired>>

ReadExisting(w) ==
    /\ At(w, "existing")
    /\ wk' = [wk EXCEPT ![w] = [@ EXCEPT !.pc = "stale", !.old = exec[wk[w].ev][wk[w].r]]]
    /\ UNCHANGED <<exec, task, cool, note, now, budget, fired>>

\* staleExecutionRecovery: the row it read records tasks, and some exist.
Recorded(w) == wk[w].old.status = "task_created" /\ wk[w].old.tasks # {}
Present(w) == \E a \in wk[w].old.tasks : <<wk[w].ev, wk[w].r, a>> \in task

Existing(w) ==
    /\ At(w, "stale")
    /\ Recorded(w) /\ Present(w)
    /\ Leave(w, Stops(wk[w].r), "task_created")
    /\ UNCHANGED <<exec, task, cool, note, now, budget, fired>>

Duplicate(w) ==
    /\ At(w, "stale")
    /\ ~Recorded(w) /\ ~wk[w].force
    /\ Leave(w, Stops(wk[w].r), "no_matching_rule")
    /\ UNCHANGED <<exec, task, cool, note, now, budget, fired>>

Again(w, mode) == wk' = [wk EXCEPT ![w] = [@ EXCEPT !.pc = "cool", !.mode = mode]]

Recover(w) ==
    /\ At(w, "stale")
    /\ Recorded(w) /\ ~Present(w)
    /\ Again(w, "recover")
    /\ UNCHANGED <<exec, task, cool, note, now, budget, fired>>

Replay(w) ==
    /\ At(w, "stale")
    /\ ~Recorded(w) /\ wk[w].force
    /\ Again(w, "replay")
    /\ UNCHANGED <<exec, task, cool, note, now, budget, fired>>

-----------------------------------------------------------------------------
(* The cooldown, the actions and the record *)

Limited(w) ==
    /\ wk[w].r \notin Shadow /\ CooldownLimit[wk[w].r] > 0
    /\ CustomerAt(w) # NoCustomer
MutExpired(row, at) == row.count = 0
Expired(row, at) == row.count = 0 \/ row.window < at
MutExhausted(r, row) == row.count > CooldownLimit[r]
Exhausted(r, row) == row.count >= CooldownLimit[r]

CheckCooldown(w) ==
    /\ At(w, "cool")
    /\ LET row == IF Limited(w) THEN cool[wk[w].r][CustomerAt(w)] ELSE NoRow
           blocked == Limited(w) /\ ~Expired(row, wk[w].at) /\ Exhausted(wk[w].r, row)
       IN wk' = [wk EXCEPT ![w] = [@ EXCEPT
                !.seen = row,
                !.pc = IF blocked /\ wk[w].mode # "recover" THEN "suppress"
                       ELSE IF wk[w].r \in Shadow THEN "shadow" ELSE "act"]]
    /\ UNCHANGED <<exec, task, cool, note, now, budget, fired>>

\* completeExecution
MutWrite(w, status, tasks) ==
    exec' = [exec EXCEPT ![wk[w].ev][wk[w].r] = Row(status, {})]
Write(w, status, tasks) ==
    exec' = [exec EXCEPT ![wk[w].ev][wk[w].r] = Row(status, tasks)]

Suppress(w) ==
    /\ At(w, "suppress")
    /\ Write(w, "cooldown_suppressed", {})
    /\ Leave(w, Stops(wk[w].r), "cooldown_suppressed")
    /\ UNCHANGED <<task, cool, note, now, budget, fired>>

ShadowMatch(w) ==
    /\ At(w, "shadow")
    /\ Write(w, "shadow_matched", {})
    /\ Leave(w, FALSE, "matched_without_task")
    /\ UNCHANGED <<task, cool, note, now, budget, fired>>

Applied(w, got) ==
    wk' = [wk EXCEPT ![w] = [@ EXCEPT
        !.a = wk[w].a + 1, !.got = wk[w].got \cup got, !.applied = TRUE]]
SkipAction(w) == wk' = [wk EXCEPT ![w].a = @ + 1]

\* create_task: the task of this key, new or found.
CreateTask(w) ==
    /\ Does(w, "task")
    /\ task' = task \cup {Key(w)}
    /\ Applied(w, {wk[w].a})
    /\ UNCHANGED <<exec, cool, note, now, budget, fired>>

\* No task of this key yet, and proactiveContactDecision refuses one.
SkipTask(w) ==
    /\ Does(w, "task")
    /\ PolicySkips /\ Key(w) \notin task /\ CustomerAt(w) # NoCustomer
    /\ SkipAction(w)
    /\ UNCHANGED <<exec, task, cool, note, now, budget, fired>>

\* add_note appends to the note that was read with the conditions.
MutNewNote(w) == {Key(w)}
NewNote(w) == wk[w].lines \cup {Key(w)}
WriteNote(w) ==
    /\ Does(w, "note")
    /\ CustomerAt(w) # NoCustomer
    /\ note' = [note EXCEPT ![CustomerAt(w)] = NewNote(w)]
    /\ Applied(w, {})
    /\ UNCHANGED <<exec, task, cool, now, budget, fired>>

SkipNote(w) ==
    /\ Does(w, "note")
    /\ CustomerAt(w) = NoCustomer
    /\ SkipAction(w)
    /\ UNCHANGED <<exec, task, cool, note, now, budget, fired>>

ResultStatus(w) ==
    IF wk[w].got # {} THEN "task_created"
    ELSE IF wk[w].applied THEN "actions_applied" ELSE "skipped"

Out(w) ==
    IF wk[w].got # {} THEN "task_created"
    ELSE IF wk[w].applied THEN "matched_without_task" ELSE "no_matching_rule"

Counts(w) == wk[w].mode = "fresh" /\ wk[w].applied

\* the window of the row read before the actions, or a new one
Window(w) == IF Expired(wk[w].seen, wk[w].at) THEN wk[w].at ELSE wk[w].seen.window

Complete(w) ==
    /\ At(w, "act") /\ ActionsDone(w)
    /\ Write(w, ResultStatus(w), wk[w].got)
    /\ fired' = IF wk[w].applied /\ wk[w].mode = "fresh"
                  THEN fired \cup {<<wk[w].ev, wk[w].r, Window(w)>>} ELSE fired
    /\ IF Counts(w) /\ Limited(w)
         THEN Goto(w, "record")
         ELSE Leave(w, Stops(wk[w].r) /\ wk[w].applied, Out(w))
    /\ UNCHANGED <<task, cool, note, now, budget>>

\* recordCooldownFire writes back the row that was read before the actions.
RecordFire(w) ==
    /\ At(w, "record")
    /\ cool' = [cool EXCEPT ![wk[w].r][CustomerAt(w)] =
            [count |-> IF Expired(wk[w].seen, wk[w].at) THEN 1 ELSE wk[w].seen.count + 1,
             window |-> Window(w)]]
    /\ Leave(w, Stops(wk[w].r), Out(w))
    /\ UNCHANGED <<exec, task, note, now, budget, fired>>

-----------------------------------------------------------------------------
(* Errors, crashes and the surroundings *)

SpendFault == budget.faults > 0 /\ budget' = [budget EXCEPT !.faults = @ - 1]
SpendCrash == budget.crashes > 0 /\ budget' = [budget EXCEPT !.crashes = @ - 1]
SpendDelete == budget.deletes > 0 /\ budget' = [budget EXCEPT !.deletes = @ - 1]

\* An action throws, before or after its task is in the database.
FailAction(w) ==
    /\ At(w, "act") /\ ~ActionsDone(w)
    /\ SpendFault
    /\ \/ UNCHANGED task
       \/ /\ Does(w, "task")
          /\ task' = task \cup {Key(w)}
    /\ Goto(w, "failed")
    /\ UNCHANGED <<exec, cool, note, now, fired>>

RecordFailure(w) ==
    /\ At(w, "failed")
    /\ Write(w, "failed", wk[w].got)
    /\ Goto(w, "threw")
    /\ UNCHANGED <<task, cool, note, now, budget, fired>>

\* A query of fireTrigger itself throws; the row stays as it is.
QueryPC == {"rule", "claim", "existing", "stale", "cool", "suppress", "shadow",
            "record", "failed"}
Throw(w) ==
    /\ wk[w].pc \in QueryPC \/ (At(w, "act") /\ ActionsDone(w))
    /\ SpendFault
    /\ Goto(w, "threw")
    /\ UNCHANGED <<exec, task, cool, note, now, fired>>

Forget(w) == wk' = [wk EXCEPT ![w] = IdleCall(AnyEvent)]

Crash(w) ==
    /\ ~At(w, "idle")
    /\ SpendCrash
    /\ Forget(w)
    /\ UNCHANGED <<exec, task, cool, note, now, fired>>

Return(w) ==
    /\ wk[w].pc \in {"returned", "threw"}
    /\ Forget(w)
    /\ UNCHANGED <<exec, task, cool, note, now, budget, fired>>

DeleteTask(k) ==
    /\ k \in task
    /\ SpendDelete
    /\ task' = task \ {k}
    /\ UNCHANGED <<exec, cool, note, now, wk, fired>>

Tick ==
    /\ now < MaxNow
    /\ now' = now + 1
    /\ UNCHANGED <<exec, task, cool, note, wk, budget, fired>>

RunStep(w) ==
    \/ Mismatch(w) \/ Match(w) \/ Claim(w) \/ ReadExisting(w)
    \/ Existing(w) \/ Duplicate(w) \/ Recover(w) \/ Replay(w)
    \/ CheckCooldown(w) \/ Suppress(w) \/ ShadowMatch(w)
    \/ CreateTask(w) \/ SkipTask(w) \/ WriteNote(w) \/ SkipNote(w)
    \/ Complete(w) \/ RecordFire(w) \/ RecordFailure(w)

Disturb == Tick \/ \E k \in task : DeleteTask(k)

Next ==
    \/ \E w \in Workers : \/ RunStep(w) \/ FailAction(w) \/ Throw(w) \/ Crash(w) \/ Return(w)
                        \/ \E e \in Events : \/ Fire(w, e, FALSE)
                                             \/ Repairs /\ Fire(w, e, TRUE)
    \/ Disturb

Spec == Init /\ [][Next]_vars

-----------------------------------------------------------------------------
PCs == QueryPC \cup {"idle", "act", "returned", "threw"}
ExecType == [status : Statuses, tasks : SUBSET ActionIds]
RowType == [count : Nat, window : Nat]
CallType == [pc : PCs, ev : Events, force : BOOLEAN, r : Rules, a : Nat \ {0},
             mode : {"fresh", "recover", "replay"}, old : ExecType, at : Nat,
             lines : SUBSET Keys, seen : RowType, got : SUBSET ActionIds,
             applied : BOOLEAN, out : Outs]

(* Every variable has its type: the rows of fireTrigger only ever hold the  *)
(* statuses, tasks and notes of the rules' own actions.                     *)
TypeOK ==
    /\ exec \in [Events -> [Rules -> ExecType]]
    /\ task \subseteq Keys
    /\ cool \in [Rules -> [Customers -> RowType]]
    /\ note \in [Customers -> SUBSET Keys]
    /\ now \in Nat
    /\ wk \in [Workers -> CallType]
    /\ budget \in [faults : Nat, crashes : Nat, deletes : Nat]
    /\ fired \subseteq Events \X Rules \X Nat

HasTask(e, r) == \E a \in ActionIds : <<e, r, a>> \in task

(* First match wins (TASK_MANAGEMENT.md, fireTrigger's breaks): an event    *)
(* has no task of a rule when an earlier rule that ends the run has made    *)
(* one, however often and however concurrently the event is delivered.      *)
FirstMatchWins ==
    \A e \in Events : \A r1, r2 \in Rules :
        r1 < r2 /\ r1 \notin Shadow \cup Composable /\ HasTask(e, r1) => ~HasTask(e, r2)

Working == {"cool", "suppress", "shadow", "act", "record", "failed"}
WorksOn(w, e, r) == wk[w].pc \in Working /\ wk[w].ev = e /\ wk[w].r = r

(* The execution row, on which later duplicates and the transcript resolver *)
(* rely, knows the tasks of its event and rule once it is settled.          *)
RecordKeepsTasks ==
    \A e \in Events, r \in Rules :
        exec[e][r].status \in Settled /\ (\A w \in Workers : ~WorksOn(w, e, r))
        => \A a \in ActionIds : <<e, r, a>> \in task => a \in exec[e][r].tasks

(* A settled row is never written again: no later delivery of its event     *)
(* runs its actions a second time.                                          *)
SettledOnce ==
    [][\A e \in Events, r \in Rules :
        exec[e][r].status \in Settled => exec'[e][r] = exec[e][r]]_vars

FiresIn(r, c, k) == {e \in Events : CustomerOf[e] = c /\ <<e, r, k>> \in fired}

(* No more events of a customer than the limit allows make a rule act       *)
(* within one cooldown window (recovery of lost tasks and repairs aside).   *)
(* It holds for calls that come one after another.                          *)
CooldownRespected ==
    \A r \in Rules, c \in Customers, k \in 0 .. MaxNow :
        CooldownLimit[r] > 0 => Cardinality(FiresIn(r, c, k)) <= CooldownLimit[r]

(* An event is suppressed only for as many events of its customer as the    *)
(* limit allows, which the rule did act on in the window of the call or a   *)
(* later one: neither overlapping calls, errors and deaths between the      *)
(* actions and their count, nor repeated deliveries make a cooldown swallow *)
(* an event without cause (rules.service.ts:919-960, 1083, 1228-1245).      *)
SuppressedForReason ==
    \A w \in Workers : At(w, "suppress") =>
        \E k \in wk[w].at .. now :
            CooldownLimit[wk[w].r] <= Cardinality(FiresIn(wk[w].r, CustomerAt(w), k))

(* The note line of an applied add_note action stays in the customer's      *)
(* note, for calls that come one after another.                             *)
NotesKept ==
    \A e \in Events, r \in Rules : \A a \in 1 .. Len(Kind[r]) :
        /\ exec[e][r].status \in {"task_created", "actions_applied"}
        /\ Kind[r][a] = "note" /\ CustomerOf[e] # NoCustomer
        => <<e, r, a>> \in note[CustomerOf[e]]
=============================================================================
