----------------------- MODULE WorkflowExecution_proofs -----------------------
(***************************************************************************)
(* Proofs about WorkflowExecution and TranscriptFlow, for every set of     *)
(* calls, events and rules.  First the types.  Then, when conditions do    *)
(* not change, no task is deleted and no call asks for a repair (Steady),  *)
(* the three promises of the execution rows: the first match wins, a       *)
(* settled row knows its tasks, and nobody writes it again.  Then, for any *)
(* calls, errors, crashes and repairs, that a cooldown suppresses an event *)
(* only for others that fired.  Last, the transcript resolver's stored     *)
(* evaluation is true of its event, repairs included.                      *)
(***************************************************************************)
EXTENDS TranscriptFlow, FiniteSetTheorems, TLAPS

-----------------------------------------------------------------------------
(* Types *)

\* A written execution row has its type.
LEMMA RowTyped ==
  ASSUME NEW s \in Statuses, NEW ts \in SUBSET ActionIds
  PROVE  Row(s, ts) \in ExecType
BY DEF Row, ExecType

\* What completeExecution writes keeps the rows typed.
LEMMA WriteTyped ==
  ASSUME exec \in [Events -> [Rules -> ExecType]], wk \in [Workers -> CallType],
         NEW w \in Workers, NEW s \in Statuses, NEW ts \in SUBSET ActionIds, Write(w, s, ts)
  PROVE  exec' \in [Events -> [Rules -> ExecType]]
<1>1. Row(s, ts) \in ExecType
  BY RowTyped
<1>2. wk[w].ev \in Events /\ wk[w].r \in Rules
  BY DEF CallType
<1>3. QED BY <1>1, <1>2 DEF Write

\* Replacing one call by a typed one keeps the calls typed.
LEMMA CallReplaced ==
  ASSUME wk \in [Workers -> CallType], NEW w \in Workers, NEW c \in CallType,
         wk' = [wk EXCEPT ![w] = c]
  PROVE  wk' \in [Workers -> CallType]
OBVIOUS

\* The call fireTrigger starts from.
LEMMA IdleTyped ==
  ASSUME NEW e \in Events
  PROVE  IdleCall(e) \in CallType
<1>1. Row("none", {}) \in ExecType
  BY RowTyped DEF Statuses
<1>2. 1 \in Rules /\ 1 \in Nat \ {0} /\ NoRow \in RowType
  BY EngineAssumption DEF Rules, NoRow, RowType
<1>3. QED BY <1>1, <1>2 DEF IdleCall, CallType, PCs, QueryPC, Outs

\* A change of the program counter.
LEMMA GotoTyped ==
  ASSUME wk \in [Workers -> CallType], NEW w \in Workers, NEW pc \in PCs, Goto(w, pc)
  PROVE  wk' \in [Workers -> CallType]
BY DEF Goto, CallType

\* Being done with a rule.
LEMMA LeaveTyped ==
  ASSUME wk \in [Workers -> CallType], NEW w \in Workers, NEW stop, NEW out \in Outs,
         Leave(w, stop, out)
  PROVE  wk' \in [Workers -> CallType]
<1> DEFINE pc == IF stop \/ wk[w].r = NumRules THEN "returned" ELSE "rule"
           r == IF stop \/ wk[w].r = NumRules THEN wk[w].r ELSE wk[w].r + 1
           said == Stronger(wk[w].out, out)
           c == [IdleCall(wk[w].ev) EXCEPT !.pc = pc, !.force = wk[w].force,
                                           !.r = r, !.out = said]
<1>1. wk[w] \in CallType
  OBVIOUS
<1>2. wk[w].r \in Rules /\ wk[w].out \in Outs /\ wk[w].force \in BOOLEAN /\ wk[w].ev \in Events
  BY <1>1 DEF CallType
<1>3. pc \in PCs
  BY DEF PCs, QueryPC
<1>4. r \in Rules
  BY <1>2, EngineAssumption DEF Rules
<1>5. said \in Outs
  BY DEF Stronger, Outs
<1>6. IdleCall(wk[w].ev) \in CallType
  BY <1>2, IdleTyped
<1> HIDE DEF pc, r, said
<1>7. c \in CallType
  BY <1>2, <1>3, <1>4, <1>5, <1>6 DEF CallType
<1>8. wk' = [wk EXCEPT ![w] = c]
  BY DEF Leave, pc, r, said
<1> HIDE DEF c
<1>9. QED BY <1>7, <1>8, CallReplaced

\* The key of the action a call is at.
LEMMA KeyTyped ==
  ASSUME wk \in [Workers -> CallType], NEW w \in Workers, ~ActionsDone(w)
  PROVE  wk[w].a \in ActionIds /\ Key(w) \in Keys
<1>1. wk[w].ev \in Events /\ wk[w].r \in Rules /\ wk[w].a \in Nat \ {0}
  BY DEF CallType
<1>2. Len(Kind[wk[w].r]) \in Nat
  BY <1>1, EngineAssumption
<1>3. wk[w].a \in 1 .. Len(Kind[wk[w].r])
  BY <1>1, <1>2 DEF ActionsDone
<1>4. wk[w].a \in ActionIds
  BY <1>1, <1>3 DEF ActionIds
<1>5. QED BY <1>1, <1>4 DEF Key, Keys

\* An action that is applied or skipped.
LEMMA AppliedTyped ==
  ASSUME wk \in [Workers -> CallType], NEW w \in Workers, NEW got \in SUBSET ActionIds,
         Applied(w, got)
  PROVE  wk' \in [Workers -> CallType]
<1> DEFINE c == [wk[w] EXCEPT !.a = wk[w].a + 1, !.got = wk[w].got \cup got, !.applied = TRUE]
<1>1. wk[w].a + 1 \in Nat \ {0} /\ wk[w].got \cup got \in SUBSET ActionIds
  BY DEF CallType
<1>2. c \in CallType
  BY <1>1 DEF CallType
<1>3. wk' = [wk EXCEPT ![w] = c]
  BY DEF Applied
<1> HIDE DEF c
<1>4. QED BY <1>2, <1>3, CallReplaced

\* An action that is skipped.
LEMMA SkipTyped ==
  ASSUME wk \in [Workers -> CallType], NEW w \in Workers, SkipAction(w)
  PROVE  wk' \in [Workers -> CallType]
<1>1. wk[w].a + 1 \in Nat \ {0}
  BY DEF CallType
<1>2. QED BY <1>1 DEF SkipAction, CallType

\* The call of a crashed or finished process.
LEMMA ForgetTyped ==
  ASSUME wk \in [Workers -> CallType], NEW w \in Workers, Forget(w)
  PROVE  wk' \in [Workers -> CallType]
<1>1. AnyEvent \in Events
  BY EngineAssumption DEF AnyEvent
<1>2. QED BY <1>1, IdleTyped, CallReplaced DEF Forget

\* One step of a call.
LEMMA RunStepTyped ==
  ASSUME TypeOK, NEW w \in Workers, RunStep(w)
  PROVE  TypeOK'
<1>exec. exec \in [Events -> [Rules -> ExecType]]
  BY DEF TypeOK
<1>cool. cool \in [Rules -> [Customers -> RowType]]
  BY DEF TypeOK
<1>note. note \in [Customers -> SUBSET Keys]
  BY DEF TypeOK
<1>wk. wk \in [Workers -> CallType]
  BY DEF TypeOK
<1>task. task \subseteq Keys /\ now \in Nat /\ fired \subseteq Events \X Rules \X Nat
         /\ budget \in [faults : Nat, crashes : Nat, deletes : Nat]
  BY DEF TypeOK
<1>c. wk[w] \in CallType
  BY <1>wk
<1>ev. wk[w].ev \in Events /\ wk[w].r \in Rules
  BY <1>c DEF CallType
<1>at. wk[w].at \in Nat /\ wk[w].got \in SUBSET ActionIds /\ wk[w].lines \in SUBSET Keys
       /\ wk[w].seen \in RowType
  BY <1>c DEF CallType
<1>who. CustomerAt(w) # NoCustomer => CustomerAt(w) \in Customers
  BY <1>ev, EngineAssumption DEF CustomerAt
<1>outs. /\ "no_matching_rule" \in Outs /\ "matched_without_task" \in Outs
         /\ "cooldown_suppressed" \in Outs /\ "task_created" \in Outs
  BY DEF Outs
<1>pcs. /\ "claim" \in PCs /\ "cool" \in PCs /\ "existing" \in PCs /\ "stale" \in PCs
        /\ "suppress" \in PCs /\ "shadow" \in PCs /\ "act" \in PCs /\ "record" \in PCs
        /\ "failed" \in PCs /\ "threw" \in PCs /\ "rule" \in PCs
  BY DEF PCs, QueryPC
<1>st. /\ "started" \in Statuses /\ "failed" \in Statuses /\ "shadow_matched" \in Statuses
       /\ "cooldown_suppressed" \in Statuses /\ "task_created" \in Statuses
       /\ "actions_applied" \in Statuses /\ "skipped" \in Statuses
  BY DEF Statuses, Settled
<1>out. Out(w) \in Outs /\ ResultStatus(w) \in Statuses
  BY <1>outs, <1>st DEF Out, ResultStatus
<1>none. NoRow \in RowType
  BY DEF NoRow, RowType
<1>1. CASE Mismatch(w)
  <2>1. wk' \in [Workers -> CallType]
    BY <1>1, <1>wk, <1>outs, LeaveTyped DEF Mismatch
  <2>2. QED BY <2>1, <1>1, <1>exec, <1>cool, <1>note, <1>task DEF Mismatch, TypeOK
<1>2. CASE Match(w)
  <2> DEFINE lines == IF CustomerAt(w) = NoCustomer THEN {} ELSE note[CustomerAt(w)]
             c == [wk[w] EXCEPT !.pc = "claim", !.at = now, !.lines = lines]
  <2>1. lines \in SUBSET Keys
    BY <1>who, <1>note
  <2> HIDE DEF lines
  <2>2. c \in CallType
    BY <2>1, <1>c, <1>pcs, <1>task DEF CallType
  <2>3. wk' = [wk EXCEPT ![w] = c]
    BY <1>2 DEF Match, lines
  <2> HIDE DEF c
  <2>4. wk' \in [Workers -> CallType]
    BY <2>2, <2>3, <1>wk, CallReplaced
  <2>5. QED BY <2>4, <1>2, <1>exec, <1>cool, <1>note, <1>task DEF Match, TypeOK
<1>3. CASE Claim(w)
  <2>1. wk' \in [Workers -> CallType]
    BY <1>3, <1>wk, <1>pcs, GotoTyped DEF Claim
  <2>2. Row("started", {}) \in ExecType
    BY <1>st, RowTyped
  <2>3. exec' \in [Events -> [Rules -> ExecType]]
    BY <2>2, <1>3, <1>exec, <1>ev DEF Claim
  <2>4. QED BY <2>1, <2>3, <1>3, <1>cool, <1>note, <1>task DEF Claim, TypeOK
<1>4. CASE ReadExisting(w)
  <2> DEFINE row == exec[wk[w].ev][wk[w].r]
             c == [wk[w] EXCEPT !.pc = "stale", !.old = row]
  <2>1. row \in ExecType
    BY <1>exec, <1>ev
  <2> HIDE DEF row
  <2>2. c \in CallType
    BY <2>1, <1>c, <1>pcs DEF CallType
  <2>3. wk' = [wk EXCEPT ![w] = c]
    BY <1>4 DEF ReadExisting, row
  <2> HIDE DEF c
  <2>4. wk' \in [Workers -> CallType]
    BY <2>2, <2>3, <1>wk, CallReplaced
  <2>5. QED BY <2>4, <1>4, <1>exec, <1>cool, <1>note, <1>task DEF ReadExisting, TypeOK
<1>5. CASE Existing(w)
  <2>1. wk' \in [Workers -> CallType]
    BY <1>5, <1>wk, <1>outs, LeaveTyped DEF Existing
  <2>2. QED BY <2>1, <1>5, <1>exec, <1>cool, <1>note, <1>task DEF Existing, TypeOK
<1>6. CASE Duplicate(w)
  <2>1. wk' \in [Workers -> CallType]
    BY <1>6, <1>wk, <1>outs, LeaveTyped DEF Duplicate
  <2>2. QED BY <2>1, <1>6, <1>exec, <1>cool, <1>note, <1>task DEF Duplicate, TypeOK
<1>7. CASE Recover(w) \/ Replay(w)
  <2>1. wk' \in [Workers -> CallType]
    <3>1. PICK mode \in {"recover", "replay"} : Again(w, mode)
      BY <1>7 DEF Recover, Replay
    <3>2. [wk[w] EXCEPT !.pc = "cool", !.mode = mode] \in CallType
      BY <1>c, <1>pcs DEF CallType
    <3>3. QED BY <3>1, <3>2, <1>wk, CallReplaced DEF Again
  <2>2. QED BY <2>1, <1>7, <1>exec, <1>cool, <1>note, <1>task DEF Recover, Replay, TypeOK
<1>8. CASE CheckCooldown(w)
  <2> DEFINE row == IF Limited(w) THEN cool[wk[w].r][CustomerAt(w)] ELSE NoRow
             blocked == Limited(w) /\ ~Expired(row, wk[w].at) /\ Exhausted(wk[w].r, row)
             pc == IF blocked /\ wk[w].mode # "recover" THEN "suppress"
                   ELSE IF wk[w].r \in Shadow THEN "shadow" ELSE "act"
             c == [wk[w] EXCEPT !.seen = row, !.pc = pc]
  <2>1. row \in RowType
    BY <1>cool, <1>ev, <1>who, <1>none DEF Limited
  <2>2. pc \in PCs
    BY <1>pcs
  <2>3. wk' = [wk EXCEPT ![w] = c]
    BY <1>8 DEF CheckCooldown
  <2> HIDE DEF row, pc
  <2>4. c \in CallType
    BY <2>1, <2>2, <1>c DEF CallType
  <2> HIDE DEF c
  <2>5. wk' \in [Workers -> CallType]
    BY <2>3, <2>4, <1>wk, CallReplaced
  <2>6. QED BY <2>5, <1>8, <1>exec, <1>cool, <1>note, <1>task DEF CheckCooldown, TypeOK
<1>9. CASE Suppress(w) \/ ShadowMatch(w)
  <2>1. wk' \in [Workers -> CallType]
    BY <1>9, <1>wk, <1>outs, LeaveTyped DEF Suppress, ShadowMatch
  <2>2. exec' \in [Events -> [Rules -> ExecType]]
    <3>1. {} \in SUBSET ActionIds
      OBVIOUS
    <3>2. Write(w, "cooldown_suppressed", {}) \/ Write(w, "shadow_matched", {})
      BY <1>9 DEF Suppress, ShadowMatch
    <3>3. QED BY <3>1, <3>2, <1>wk, <1>exec, <1>st, WriteTyped
  <2>3. QED BY <2>1, <2>2, <1>9, <1>cool, <1>note, <1>task DEF Suppress, ShadowMatch, TypeOK
<1>10. CASE CreateTask(w)
  <2>1. wk[w].a \in ActionIds /\ Key(w) \in Keys
    BY <1>10, <1>wk, KeyTyped DEF CreateTask, Does
  <2>2. wk' \in [Workers -> CallType]
    BY <2>1, <1>10, <1>wk, AppliedTyped DEF CreateTask
  <2>3. QED BY <2>1, <2>2, <1>10, <1>exec, <1>cool, <1>note, <1>task DEF CreateTask, TypeOK
<1>11. CASE SkipTask(w) \/ SkipNote(w)
  <2>1. wk' \in [Workers -> CallType]
    BY <1>11, <1>wk, SkipTyped DEF SkipTask, SkipNote
  <2>2. QED BY <2>1, <1>11, <1>exec, <1>cool, <1>note, <1>task DEF SkipTask, SkipNote, TypeOK
<1>12. CASE WriteNote(w)
  <2>1. Key(w) \in Keys
    BY <1>12, <1>wk, KeyTyped DEF WriteNote, Does
  <2>2. wk' \in [Workers -> CallType]
    BY <1>12, <1>wk, AppliedTyped DEF WriteNote
  <2>3. NewNote(w) \in SUBSET Keys
    BY <2>1, <1>at DEF NewNote
  <2>4. note' \in [Customers -> SUBSET Keys]
    BY <2>3, <1>12, <1>note DEF WriteNote
  <2>5. QED BY <2>2, <2>4, <1>12, <1>exec, <1>cool, <1>task DEF WriteNote, TypeOK
<1>13. CASE Complete(w)
  <2>1. wk' \in [Workers -> CallType]
    BY <1>13, <1>wk, <1>out, <1>pcs, GotoTyped, LeaveTyped DEF Complete
  <2>2. exec' \in [Events -> [Rules -> ExecType]]
    BY <1>13, <1>wk, <1>exec, <1>out, <1>at, WriteTyped DEF Complete
  <2>3. fired' \subseteq Events \X Rules \X Nat
    <3>1. Window(w) \in Nat
      BY <1>at DEF Window, RowType
    <3> QED BY <3>1, <1>13, <1>task, <1>ev DEF Complete
  <2>4. QED BY <2>1, <2>2, <2>3, <1>13, <1>cool, <1>note, <1>task DEF Complete, TypeOK
<1>14. CASE RecordFire(w)
  <2> DEFINE new == [count |-> IF Expired(wk[w].seen, wk[w].at) THEN 1
                               ELSE wk[w].seen.count + 1,
                     window |-> Window(w)]
  <2>1. new \in RowType
    BY <1>at DEF RowType, Window
  <2>2. cool' = [cool EXCEPT ![wk[w].r][CustomerAt(w)] = new]
    BY <1>14 DEF RecordFire
  <2> HIDE DEF new
  <2>3. cool' \in [Rules -> [Customers -> RowType]]
    BY <2>1, <2>2, <1>cool, <1>ev
  <2>4. wk' \in [Workers -> CallType]
    BY <1>14, <1>wk, <1>out, LeaveTyped DEF RecordFire
  <2>5. QED BY <2>3, <2>4, <1>14, <1>exec, <1>note, <1>task DEF RecordFire, TypeOK
<1>15. CASE RecordFailure(w)
  <2>1. wk' \in [Workers -> CallType]
    BY <1>15, <1>wk, <1>pcs, GotoTyped DEF RecordFailure
  <2>2. exec' \in [Events -> [Rules -> ExecType]]
    BY <1>15, <1>wk, <1>exec, <1>st, <1>at, WriteTyped DEF RecordFailure
  <2>3. QED BY <2>1, <2>2, <1>15, <1>cool, <1>note, <1>task DEF RecordFailure, TypeOK
<1>16. QED BY <1>1, <1>2, <1>3, <1>4, <1>5, <1>6, <1>7, <1>8, <1>9, <1>10, <1>11, <1>12,
              <1>13, <1>14, <1>15 DEF RunStep

\* What an error, a crash or a deletion takes from its budget.
LEMMA BudgetTyped ==
  ASSUME budget \in [faults : Nat, crashes : Nat, deletes : Nat],
         SpendFault \/ SpendCrash \/ SpendDelete
  PROVE  budget' \in [faults : Nat, crashes : Nat, deletes : Nat]
<1>1. CASE SpendFault
  <2>1. budget.faults - 1 \in Nat
    BY <1>1 DEF SpendFault
  <2>2. QED BY <1>1, <2>1 DEF SpendFault
<1>2. CASE SpendCrash
  <2>1. budget.crashes - 1 \in Nat
    BY <1>2 DEF SpendCrash
  <2>2. QED BY <1>2, <2>1 DEF SpendCrash
<1>3. CASE SpendDelete
  <2>1. budget.deletes - 1 \in Nat
    BY <1>3 DEF SpendDelete
  <2>2. QED BY <1>3, <2>1 DEF SpendDelete
<1>4. QED BY <1>1, <1>2, <1>3

\* Every step of Next keeps the types.
LEMMA TypeStep ==
  ASSUME TypeOK, [Next]_vars
  PROVE  TypeOK'
<1>exec. exec \in [Events -> [Rules -> ExecType]]
  BY DEF TypeOK
<1>cool. cool \in [Rules -> [Customers -> RowType]]
  BY DEF TypeOK
<1>note. note \in [Customers -> SUBSET Keys]
  BY DEF TypeOK
<1>wk. wk \in [Workers -> CallType]
  BY DEF TypeOK
<1>budget. budget \in [faults : Nat, crashes : Nat, deletes : Nat]
  BY DEF TypeOK
<1>task. task \subseteq Keys /\ now \in Nat /\ fired \subseteq Events \X Rules \X Nat
  BY DEF TypeOK
<1>pcs. "failed" \in PCs /\ "threw" \in PCs /\ "rule" \in PCs
  BY DEF PCs, QueryPC
<1>1. ASSUME NEW w \in Workers, RunStep(w)
      PROVE  TypeOK'
  BY <1>1, RunStepTyped
<1>2. ASSUME NEW w \in Workers, FailAction(w)
      PROVE  TypeOK'
  <2>1. wk' \in [Workers -> CallType]
    BY <1>2, <1>wk, <1>pcs, GotoTyped DEF FailAction
  <2>2. budget' \in [faults : Nat, crashes : Nat, deletes : Nat]
    BY <1>2, <1>budget, BudgetTyped DEF FailAction
  <2>3. Key(w) \in Keys
    BY <1>2, <1>wk, KeyTyped DEF FailAction
  <2>4. task' \subseteq Keys
    BY <2>3, <1>2, <1>task DEF FailAction
  <2>5. QED BY <2>1, <2>2, <2>4, <1>2, <1>exec, <1>cool, <1>note, <1>task DEF FailAction, TypeOK
<1>3. ASSUME NEW w \in Workers, Throw(w)
      PROVE  TypeOK'
  <2>1. wk' \in [Workers -> CallType]
    BY <1>3, <1>wk, <1>pcs, GotoTyped DEF Throw
  <2>2. budget' \in [faults : Nat, crashes : Nat, deletes : Nat]
    BY <1>3, <1>budget, BudgetTyped DEF Throw
  <2>3. QED BY <2>1, <2>2, <1>3, <1>exec, <1>cool, <1>note, <1>task DEF Throw, TypeOK
<1>4. ASSUME NEW w \in Workers, Crash(w)
      PROVE  TypeOK'
  <2>1. wk' \in [Workers -> CallType]
    BY <1>4, <1>wk, ForgetTyped DEF Crash
  <2>2. budget' \in [faults : Nat, crashes : Nat, deletes : Nat]
    BY <1>4, <1>budget, BudgetTyped DEF Crash
  <2>3. QED BY <2>1, <2>2, <1>4, <1>exec, <1>cool, <1>note, <1>task DEF Crash, TypeOK
<1>5. ASSUME NEW w \in Workers, Return(w)
      PROVE  TypeOK'
  <2>1. wk' \in [Workers -> CallType]
    BY <1>5, <1>wk, ForgetTyped DEF Return
  <2>2. QED BY <2>1, <1>5, <1>exec, <1>cool, <1>note, <1>task, <1>budget DEF Return, TypeOK
<1>6. ASSUME NEW w \in Workers, NEW e \in Events, NEW force \in BOOLEAN, Fire(w, e, force)
      PROVE  TypeOK'
  <2>1. IdleCall(e) \in CallType
    BY IdleTyped
  <2>2. [IdleCall(e) EXCEPT !.pc = "rule", !.force = force] \in CallType
    BY <2>1, <1>pcs DEF CallType
  <2>3. wk' \in [Workers -> CallType]
    BY <2>2, <1>6, <1>wk, CallReplaced DEF Fire
  <2>4. QED BY <2>3, <1>6, <1>exec, <1>cool, <1>note, <1>task, <1>budget DEF Fire, TypeOK
<1>7. ASSUME NEW k \in task, DeleteTask(k)
      PROVE  TypeOK'
  <2>1. budget' \in [faults : Nat, crashes : Nat, deletes : Nat]
    BY <1>7, <1>budget, BudgetTyped DEF DeleteTask
  <2>2. QED BY <2>1, <1>7, <1>exec, <1>cool, <1>note, <1>task, <1>wk DEF DeleteTask, TypeOK
<1>8. CASE Tick
  BY <1>8, <1>exec, <1>cool, <1>note, <1>task, <1>wk, <1>budget DEF Tick, TypeOK
<1>9. CASE UNCHANGED vars
  BY <1>9, <1>exec, <1>cool, <1>note, <1>task, <1>wk, <1>budget DEF vars, TypeOK
<1>10. QED BY <1>1, <1>2, <1>3, <1>4, <1>5, <1>6, <1>7, <1>8, <1>9 DEF Next, Disturb

\* The rows and calls start out typed.
LEMMA TypeInit == Init => TypeOK
<1> SUFFICES ASSUME Init
             PROVE  TypeOK
  OBVIOUS
<1>1. Row("none", {}) \in ExecType
  BY RowTyped DEF Statuses
<1>2. NoRow \in RowType
  BY DEF NoRow, RowType
<1>3. AnyEvent \in Events
  BY EngineAssumption DEF AnyEvent
<1>4. IdleCall(AnyEvent) \in CallType
  BY <1>3, IdleTyped
<1>5. MaxFaults \in Nat /\ MaxCrashes \in Nat /\ MaxDeletes \in Nat
  BY EngineAssumption
<1>6. exec \in [Events -> [Rules -> ExecType]] /\ wk \in [Workers -> CallType]
  BY <1>1, <1>4 DEF Init
<1>7. cool \in [Rules -> [Customers -> RowType]] /\ note \in [Customers -> SUBSET Keys]
  BY <1>2 DEF Init
<1>8. budget \in [faults : Nat, crashes : Nat, deletes : Nat]
  BY <1>5 DEF Init
<1>9. QED BY <1>6, <1>7, <1>8 DEF Init, TypeOK

(* The types of fireTrigger's rows and calls hold for every set of rules.   *)
THEOREM TypeCorrect == Spec => []TypeOK
BY TypeInit, TypeStep, PTL DEF Spec

-----------------------------------------------------------------------------
(* The promises of the execution rows *)

\* The conditions of an event stay as they are, no task is deleted and no call
\* asks for a repair.
Steady == Volatile = {} /\ MaxDeletes = 0 /\ Repairs = FALSE

\* A call owns its row from the claim to completeExecution.
Owns(w) == wk[w].pc \in {"cool", "suppress", "shadow", "act", "failed"}
Reached(w) == Owns(w) \/ wk[w].pc \in {"claim", "existing", "stale", "record"}

\* What a call may rely on.
CallInv(w) ==
    /\ wk[w].force = FALSE /\ wk[w].mode = "fresh"
    /\ Reached(w) => <<wk[w].ev, wk[w].r>> \in Matches
    /\ Owns(w) => exec[wk[w].ev][wk[w].r].status = "started"
    /\ wk[w].pc = "stale" /\ wk[w].old.status = "task_created" =>
           /\ wk[w].old.tasks # {}
           /\ \A a \in wk[w].old.tasks : <<wk[w].ev, wk[w].r, a>> \in task
    /\ wk[w].got # {} => wk[w].applied = TRUE
    /\ \A a \in wk[w].got : <<wk[w].ev, wk[w].r, a>> \in task
    /\ wk[w].pc \in {"cool", "suppress", "shadow"} => wk[w].got = {}
    /\ Owns(w) /\ wk[w].pc # "failed" =>
           \A a \in ActionIds : <<wk[w].ev, wk[w].r, a>> \in task => a \in wk[w].got
    /\ wk[w].pc = "shadow" => wk[w].r \in Shadow

\* What a row says of the tasks of its event and rule.
RowInv(e, r) ==
    /\ exec[e][r].status # "none" => <<e, r>> \in Matches
    /\ exec[e][r].status = "task_created" =>
           /\ exec[e][r].tasks # {}
           /\ \A a \in exec[e][r].tasks : <<e, r, a>> \in task
    /\ \A a \in ActionIds : <<e, r, a>> \in task =>
           /\ exec[e][r].status \in {"started", "failed", "task_created"}
           /\ exec[e][r].status = "task_created" => a \in exec[e][r].tasks

\* Nobody shares a row.
Alone == \A v, w \in Workers :
    Owns(v) /\ Owns(w) /\ wk[v].ev = wk[w].ev /\ wk[v].r = wk[w].r => v = w

\* Rule r does not keep the run of event e from the rules after it.
Passed(e, r) == r \in Shadow \cup Composable \/ <<e, r>> \notin Matches
                    \/ exec[e][r].status = "skipped"
CallsPassed == \A w \in Workers, r \in Rules : r < wk[w].r => Passed(wk[w].ev, r)
RowsPassed == \A e \in Events, r1, r2 \in Rules :
    r1 < r2 /\ exec[e][r2].status # "none" => Passed(e, r1)

IInv ==
    /\ TypeOK
    /\ budget.deletes = 0
    /\ \A w \in Workers : CallInv(w)
    /\ \A e \in Events, r \in Rules : RowInv(e, r)
    /\ Alone /\ CallsPassed /\ RowsPassed

\* A step of call w touches its own row only, and only a row it owns or claims.
LocalStep(w) ==
    /\ \A v \in Workers : v # w => wk'[v] = wk[v]
    /\ \A e \in Events, r \in Rules : exec'[e][r] # exec[e][r] =>
           /\ e = wk[w].ev /\ r = wk[w].r
           /\ Owns(w) \/ exec[e][r].status = "none"
    /\ task \subseteq task'
    /\ \A e \in Events, r \in Rules, a \in ActionIds :
           <<e, r, a>> \in task' =>
               <<e, r, a>> \in task \/ (Owns(w) /\ e = wk[w].ev /\ r = wk[w].r)
    /\ budget'.deletes = budget.deletes

\* What is left to show of such a step.
OwnStep(w) ==
    /\ CallInv(w)'
    /\ \A e \in Events, r \in Rules : e = wk[w].ev /\ r = wk[w].r => RowInv(e, r)'
    /\ Owns(w)' => /\ wk'[w].ev = wk[w].ev /\ wk'[w].r = wk[w].r
                   /\ Owns(w) \/ exec[wk[w].ev][wk[w].r].status = "none"
    /\ \A e \in Events, r \in Rules : e = wk'[w].ev /\ r < wk'[w].r =>
           e = wk[w].ev /\ (r < wk[w].r \/ Passed(e, r)')

\* The other calls and rows do not notice.
LEMMA LocalKeeps ==
  ASSUME IInv, TypeOK', NEW w \in Workers, LocalStep(w), OwnStep(w)
  PROVE  IInv'
<1>typ. ASSUME NEW v \in Workers
        PROVE  wk[v].ev \in Events /\ wk[v].r \in Rules /\ wk'[v].ev \in Events /\ wk'[v].r \in Rules
               /\ wk[v].got \in SUBSET ActionIds /\ wk[v].old.tasks \in SUBSET ActionIds
  BY DEF IInv, TypeOK, CallType, ExecType
<1>1. ASSUME NEW v \in Workers, v # w
      PROVE  CallInv(v)'
  <2>1. wk'[v] = wk[v] /\ CallInv(v) /\ wk[v].ev \in Events /\ wk[v].r \in Rules
    BY <1>1, <1>typ DEF LocalStep, IInv
  <2>2. Owns(v) => ~(Owns(w) /\ wk[v].ev = wk[w].ev /\ wk[v].r = wk[w].r)
    BY <1>1 DEF IInv, Alone
  <2>3. Owns(v) => exec'[wk[v].ev][wk[v].r] = exec[wk[v].ev][wk[v].r]
    BY <2>1, <2>2 DEF LocalStep, CallInv
  <2>4. (Owns(v)' <=> Owns(v)) /\ (Reached(v)' <=> Reached(v))
    BY <2>1 DEF Owns, Reached
  <2>5. Owns(v) => \A a \in ActionIds : <<wk[v].ev, wk[v].r, a>> \in task'
                                            => <<wk[v].ev, wk[v].r, a>> \in task
    BY <2>1, <2>2 DEF LocalStep
  <2>6. task \subseteq task'
    BY DEF LocalStep
  <2>7. QED BY <2>1, <2>3, <2>4, <2>5, <2>6 DEF CallInv
<1>2. ASSUME NEW e \in Events, NEW r \in Rules, ~(e = wk[w].ev /\ r = wk[w].r)
      PROVE  RowInv(e, r)'
  <2>1. exec'[e][r] = exec[e][r] /\ task \subseteq task' /\ RowInv(e, r)
    BY <1>2 DEF LocalStep, IInv
  <2>2. \A a \in ActionIds : <<e, r, a>> \in task' => <<e, r, a>> \in task
    BY <1>2 DEF LocalStep
  <2>3. QED BY <2>1, <2>2 DEF RowInv
<1>3. \A v \in Workers : CallInv(v)'
  BY <1>1 DEF OwnStep
<1>4. \A e \in Events, r \in Rules : RowInv(e, r)'
  BY <1>2 DEF OwnStep
<1>5. Alone'
  <2>1. ASSUME NEW v \in Workers, v # w, Owns(v)'
        PROVE  wk'[v] = wk[v] /\ Owns(v) /\ exec[wk[v].ev][wk[v].r].status = "started"
    BY <2>1 DEF LocalStep, Owns, IInv, CallInv
  <2>2. ASSUME NEW v \in Workers, v # w, Owns(v)', Owns(w)', wk'[v].ev = wk'[w].ev,
               wk'[v].r = wk'[w].r
        PROVE  FALSE
    <3>1. wk[v].ev = wk[w].ev /\ wk[v].r = wk[w].r
      BY <2>1, <2>2 DEF OwnStep
    <3>2. exec[wk[w].ev][wk[w].r].status = "started"
      BY <2>1, <2>2, <3>1
    <3>3. Owns(w)
      BY <2>2, <3>2 DEF OwnStep
    <3>4. QED BY <2>1, <2>2, <3>1, <3>3 DEF IInv, Alone
  <2>3. ASSUME NEW u \in Workers, NEW v \in Workers, Owns(u)', Owns(v)',
               wk'[u].ev = wk'[v].ev, wk'[u].r = wk'[v].r
        PROVE  u = v
    <3>1. CASE u = w \/ v = w
      BY <2>2, <2>3, <3>1
    <3>2. CASE u # w /\ v # w
      BY <2>1, <2>3, <3>2 DEF IInv, Alone
    <3>3. QED BY <3>1, <3>2
  <2>4. QED BY <2>3 DEF Alone
<1>6. ASSUME NEW e \in Events, NEW r \in Rules, Passed(e, r)
      PROVE  Passed(e, r)'
  <2>1. Owns(w) => exec[wk[w].ev][wk[w].r].status = "started"
    BY DEF IInv, CallInv
  <2>2. exec[e][r].status = "skipped" => exec'[e][r] = exec[e][r]
    BY <2>1 DEF LocalStep
  <2>3. QED BY <1>6, <2>2 DEF Passed
<1>7. CallsPassed'
  <2>1. ASSUME NEW v \in Workers, NEW r \in Rules, r < wk'[v].r
        PROVE  Passed(wk[v].ev, r)'
    <3>0. wk'[v].ev \in Events /\ wk[v].ev \in Events
      BY <1>typ
    <3>1. ASSUME NEW e \in Events, e = wk'[v].ev
          PROVE  Passed(e, r)'
      <4>1. CASE v = w
        <5>1. e = wk[w].ev /\ (r < wk[w].r \/ Passed(e, r)')
          BY <2>1, <3>1, <4>1 DEF OwnStep
        <5>2. r < wk[w].r => Passed(e, r)
          BY <5>1 DEF IInv, CallsPassed
        <5>3. QED BY <5>1, <5>2, <1>6
      <4>2. CASE v # w
        <5>1. wk'[v] = wk[v]
          BY <4>2 DEF LocalStep
        <5>2. Passed(e, r)
          BY <2>1, <3>1, <5>1 DEF IInv, CallsPassed
        <5>3. QED BY <5>2, <1>6
      <4>3. QED BY <4>1, <4>2
    <3>2. QED BY <3>0, <3>1 DEF Passed
  <2>2. QED BY <2>1 DEF CallsPassed
<1>8. RowsPassed'
  <2>1. ASSUME NEW e \in Events, NEW r1 \in Rules, NEW r2 \in Rules, r1 < r2,
               exec'[e][r2].status # "none"
        PROVE  Passed(e, r1)'
    <3>1. CASE exec[e][r2].status # "none"
      BY <2>1, <3>1, <1>6 DEF IInv, RowsPassed
    <3>2. CASE exec[e][r2].status = "none"
      <4>1. exec'[e][r2] # exec[e][r2]
        BY <2>1, <3>2
      <4>2. e = wk[w].ev /\ r2 = wk[w].r
        BY <4>1 DEF LocalStep
      <4>3. Passed(e, r1)
        BY <2>1, <4>2 DEF IInv, CallsPassed
      <4>4. QED BY <4>3, <1>6
    <3>3. QED BY <3>1, <3>2
  <2>2. QED BY <2>1 DEF RowsPassed
<1>9. budget'.deletes = 0
  BY DEF LocalStep, IInv
<1>10. QED BY <1>3, <1>4, <1>5, <1>7, <1>8, <1>9 DEF IInv

\* A call that is done with its rule relies on nothing.
LEMMA Left ==
  ASSUME TypeOK, NEW w \in Workers, NEW stop, NEW out, CallInv(w), Leave(w, stop, out)
  PROVE  /\ \A v \in Workers : v # w => wk'[v] = wk[v]
         /\ CallInv(w)' /\ ~Owns(w)'
         /\ wk'[w].ev = wk[w].ev
         /\ \A r \in Rules : r < wk'[w].r => r < wk[w].r \/ (r = wk[w].r /\ ~stop)
<1>1. wk \in [Workers -> CallType]
  BY DEF TypeOK
<1>2. wk[w].r \in Rules
  BY <1>1 DEF CallType
<1>3. \A v \in Workers : v # w => wk'[v] = wk[v]
  BY <1>1 DEF Leave
<1>4. /\ wk'[w].pc \in {"returned", "rule"} /\ wk'[w].got = {} /\ wk'[w].mode = "fresh"
      /\ wk'[w].force = wk[w].force /\ wk'[w].ev = wk[w].ev
      /\ wk'[w].r = IF stop \/ wk[w].r = NumRules THEN wk[w].r ELSE wk[w].r + 1
  BY <1>1 DEF Leave, IdleCall
<1>5. CallInv(w)' /\ ~Owns(w)'
  BY <1>4 DEF CallInv, Owns, Reached
<1>6. ASSUME NEW r \in Rules, r < wk'[w].r
      PROVE  r < wk[w].r \/ (r = wk[w].r /\ ~stop)
  <2>1. CASE stop \/ wk[w].r = NumRules
    BY <2>1, <1>4, <1>6
  <2>2. CASE ~(stop \/ wk[w].r = NumRules)
    BY <2>2, <1>2, <1>4, <1>6, EngineAssumption DEF Rules
  <2>3. QED BY <2>1, <2>2
<1>7. QED BY <1>3, <1>4, <1>5, <1>6

\* A step that writes no row and no task.
LEMMA QuietStep ==
  ASSUME IInv, TypeOK', NEW w \in Workers, UNCHANGED <<exec, task>>,
         budget'.deletes = budget.deletes,
         \A v \in Workers : v # w => wk'[v] = wk[v],
         CallInv(w)',
         Owns(w)' => Owns(w) /\ wk'[w].ev = wk[w].ev /\ wk'[w].r = wk[w].r,
         \A e \in Events, r \in Rules : e = wk'[w].ev /\ r < wk'[w].r =>
             e = wk[w].ev /\ (r < wk[w].r \/ Passed(e, r)')
  PROVE  IInv'
<1>1. LocalStep(w)
  BY DEF LocalStep
<1>2. \A e \in Events, r \in Rules : RowInv(e, r)'
  BY DEF IInv, RowInv
<1>3. OwnStep(w)
  BY <1>2 DEF OwnStep
<1>4. QED BY <1>1, <1>3, LocalKeeps

\* A step that only moves the call within its rule.
LEMMA MoveStep ==
  ASSUME IInv, TypeOK', NEW w \in Workers, UNCHANGED <<exec, task>>,
         budget'.deletes = budget.deletes,
         \A v \in Workers : v # w => wk'[v] = wk[v],
         wk'[w].ev = wk[w].ev, wk'[w].r = wk[w].r, CallInv(w)', Owns(w)' => Owns(w)
  PROVE  IInv'
BY QuietStep

\* A step that leaves the rule and writes no row and no task.
LEMMA LeaveStep ==
  ASSUME IInv, TypeOK', NEW w \in Workers, NEW stop, NEW out, UNCHANGED <<exec, task, budget>>,
         Leave(w, stop, out), stop \/ Passed(wk[w].ev, wk[w].r)
  PROVE  IInv'
<1>1. TypeOK /\ CallInv(w)
  BY DEF IInv
<1>2. /\ \A v \in Workers : v # w => wk'[v] = wk[v]
      /\ CallInv(w)' /\ ~Owns(w)' /\ wk'[w].ev = wk[w].ev
      /\ \A r \in Rules : r < wk'[w].r => r < wk[w].r \/ (r = wk[w].r /\ ~stop)
  BY <1>1, Left
<1>3. ASSUME NEW e \in Events, NEW r \in Rules, e = wk'[w].ev, r < wk'[w].r
      PROVE  e = wk[w].ev /\ (r < wk[w].r \/ Passed(e, r)')
  <2>1. e = wk[w].ev
    BY <1>2, <1>3
  <2>2. Passed(e, r) => Passed(e, r)'
    BY DEF Passed
  <2>3. QED BY <1>2, <1>3, <2>1, <2>2
<1>4. QED BY <1>2, <1>3, QuietStep

\* The end of a run of a rule: completeExecution writes the row and the call
\* does not own it any more.
LEMMA WriteStep ==
  ASSUME IInv, TypeOK', NEW w \in Workers, NEW s, NEW ts, Owns(w), Write(w, s, ts),
         UNCHANGED <<task, budget>>,
         \A v \in Workers : v # w => wk'[v] = wk[v],
         CallInv(w)', ~Owns(w)',
         s = "task_created" => ts # {} /\ \A a \in ts : <<wk[w].ev, wk[w].r, a>> \in task,
         \A a \in ActionIds : <<wk[w].ev, wk[w].r, a>> \in task =>
             /\ s \in {"failed", "task_created"}
             /\ s = "task_created" => a \in ts,
         wk'[w].ev = wk[w].ev,
         \A r \in Rules : r < wk'[w].r =>
             r < wk[w].r \/ (r = wk[w].r /\ (s = "skipped" \/ r \in Shadow \cup Composable))
  PROVE  IInv'
<1>1. exec \in [Events -> [Rules -> ExecType]] /\ wk[w].ev \in Events /\ wk[w].r \in Rules
  BY DEF IInv, TypeOK, CallType
<1>2. exec'[wk[w].ev][wk[w].r] = Row(s, ts)
  BY <1>1 DEF Write
<1>3. Row(s, ts).status = s /\ Row(s, ts).tasks = ts
  BY DEF Row
<1>4. ASSUME NEW e \in Events, NEW r \in Rules, exec'[e][r] # exec[e][r]
      PROVE  e = wk[w].ev /\ r = wk[w].r
  BY <1>1, <1>4 DEF Write
<1>5. LocalStep(w)
  BY <1>4 DEF LocalStep
<1>6. <<wk[w].ev, wk[w].r>> \in Matches
  BY DEF IInv, CallInv, Reached
<1>7. ASSUME NEW e \in Events, NEW r \in Rules, e = wk[w].ev, r = wk[w].r
      PROVE  RowInv(e, r)'
  <2>1. exec'[e][r].status = s /\ exec'[e][r].tasks = ts
    BY <1>2, <1>3, <1>7
  <2>2. QED BY <2>1, <1>6, <1>7 DEF RowInv
<1>8. ASSUME NEW e \in Events, NEW r \in Rules, e = wk'[w].ev, r < wk'[w].r
      PROVE  e = wk[w].ev /\ (r < wk[w].r \/ Passed(e, r)')
  <2>1. CASE r < wk[w].r
    BY <1>8, <2>1
  <2>2. CASE r = wk[w].r /\ s = "skipped"
    <3>1. exec'[e][r].status = "skipped"
      BY <1>2, <1>3, <1>8, <2>2
    <3>2. QED BY <3>1, <1>8 DEF Passed
  <2>3. CASE r \in Shadow \cup Composable
    BY <1>8, <2>3 DEF Passed
  <2>4. QED BY <1>8, <2>1, <2>2, <2>3
<1>9. OwnStep(w)
  BY <1>7, <1>8 DEF OwnStep
<1>10. QED BY <1>5, <1>9, LocalKeeps

\* One step of a call keeps the promises.
LEMMA RunStepKeeps ==
  ASSUME Steady, IInv, NEW w \in Workers, RunStep(w)
  PROVE  IInv'
<1>type. TypeOK /\ TypeOK'
  BY RunStepTyped DEF IInv
<1>wk. wk \in [Workers -> CallType]
  BY <1>type DEF TypeOK
<1>c. /\ wk[w].ev \in Events /\ wk[w].r \in Rules /\ wk[w].applied \in BOOLEAN
      /\ wk[w].got \in SUBSET ActionIds
  BY <1>wk DEF CallType
<1>inv. CallInv(w)
  BY DEF IInv
<1>row. RowInv(wk[w].ev, wk[w].r)
  BY <1>c DEF IInv
<1>1. CASE Mismatch(w)
  <2>1. Passed(wk[w].ev, wk[w].r)
    BY <1>1 DEF Mismatch, Passed
  <2>2. QED BY <2>1, <1>1, <1>type, LeaveStep DEF Mismatch
<1>2. CASE Match(w)
  <2>1. <<wk[w].ev, wk[w].r>> \in Matches
    BY <1>2 DEF Match, Steady
  <2>2. /\ \A v \in Workers : v # w => wk'[v] = wk[v]
        /\ wk'[w].pc = "claim" /\ wk'[w].ev = wk[w].ev /\ wk'[w].r = wk[w].r
        /\ wk'[w].got = wk[w].got /\ wk'[w].applied = wk[w].applied
        /\ wk'[w].force = wk[w].force /\ wk'[w].mode = wk[w].mode
    BY <1>2, <1>wk DEF Match, CallType
  <2>3. CallInv(w)' /\ ~Owns(w)'
    BY <2>1, <2>2, <1>inv, <1>2 DEF CallInv, Owns, Reached, Match
  <2>4. QED BY <2>2, <2>3, <1>2, <1>type, MoveStep DEF Match
<1>3. CASE Claim(w) /\ Unclaimed(wk[w].ev, wk[w].r)
  <2>1. /\ exec' = [exec EXCEPT ![wk[w].ev][wk[w].r] = Row("started", {})]
        /\ wk' = [wk EXCEPT ![w].pc = "cool"] /\ task' = task /\ budget' = budget
        /\ wk[w].pc = "claim" /\ exec[wk[w].ev][wk[w].r].status = "none"
    BY <1>3 DEF Claim, Goto, Unclaimed, At
  <2>2. /\ \A v \in Workers : v # w => wk'[v] = wk[v]
        /\ wk'[w].pc = "cool" /\ wk'[w].ev = wk[w].ev /\ wk'[w].r = wk[w].r
        /\ wk'[w].got = wk[w].got /\ wk'[w].applied = wk[w].applied
        /\ wk'[w].force = wk[w].force /\ wk'[w].mode = wk[w].mode
    BY <2>1, <1>wk DEF CallType
  <2>3. exec \in [Events -> [Rules -> ExecType]]
    BY <1>type DEF TypeOK
  <2>4. exec'[wk[w].ev][wk[w].r].status = "started"
    BY <2>1, <2>3, <1>c DEF Row
  <2>5. \A a \in ActionIds : <<wk[w].ev, wk[w].r, a>> \notin task
    BY <2>1, <1>row DEF RowInv
  <2>6. <<wk[w].ev, wk[w].r>> \in Matches
    BY <2>1, <1>inv DEF CallInv, Reached
  <2>7. wk[w].got = {}
    BY <2>5, <1>inv, <1>c DEF CallInv
  <2>8. CallInv(w)'
    BY <2>1, <2>2, <2>4, <2>5, <2>6, <2>7, <1>inv DEF CallInv, Owns, Reached
  <2>9. ASSUME NEW e \in Events, NEW r \in Rules, exec'[e][r] # exec[e][r]
        PROVE  e = wk[w].ev /\ r = wk[w].r
    BY <2>1, <2>3, <1>c, <2>9
  <2>10. LocalStep(w)
    BY <2>1, <2>2, <2>9 DEF LocalStep
  <2>11. ASSUME NEW e \in Events, NEW r \in Rules, e = wk[w].ev, r = wk[w].r
         PROVE  RowInv(e, r)'
    BY <2>1, <2>4, <2>5, <2>6, <2>11 DEF RowInv
  <2>12. OwnStep(w)
    BY <2>1, <2>2, <2>8, <2>11 DEF OwnStep
  <2>13. QED BY <2>10, <2>12, <1>type, LocalKeeps
<1>4. CASE Claim(w) /\ ~Unclaimed(wk[w].ev, wk[w].r)
  <2>1. wk' = [wk EXCEPT ![w].pc = "existing"] /\ UNCHANGED <<exec, task, budget>>
    BY <1>4 DEF Claim, Goto
  <2>2. /\ \A v \in Workers : v # w => wk'[v] = wk[v]
        /\ wk'[w].pc = "existing" /\ wk'[w].ev = wk[w].ev /\ wk'[w].r = wk[w].r
        /\ wk'[w].got = wk[w].got /\ wk'[w].applied = wk[w].applied
        /\ wk'[w].force = wk[w].force /\ wk'[w].mode = wk[w].mode
    BY <2>1, <1>wk DEF CallType
  <2>3. CallInv(w)' /\ ~Owns(w)'
    BY <2>1, <2>2, <1>inv, <1>4 DEF CallInv, Owns, Reached, Claim, At
  <2>4. QED BY <2>1, <2>2, <2>3, <1>type, MoveStep
<1>5. CASE ReadExisting(w)
  <2>1. /\ \A v \in Workers : v # w => wk'[v] = wk[v]
        /\ wk'[w].pc = "stale" /\ wk'[w].ev = wk[w].ev /\ wk'[w].r = wk[w].r
        /\ wk'[w].old = exec[wk[w].ev][wk[w].r]
        /\ wk'[w].got = wk[w].got /\ wk'[w].applied = wk[w].applied
        /\ wk'[w].force = wk[w].force /\ wk'[w].mode = wk[w].mode
    BY <1>5, <1>wk DEF ReadExisting, CallType
  <2>2. UNCHANGED <<exec, task, budget>> /\ wk[w].pc = "existing"
    BY <1>5 DEF ReadExisting, At
  <2>3. CallInv(w)' /\ ~Owns(w)'
    BY <2>1, <2>2, <1>inv, <1>row DEF CallInv, Owns, Reached, RowInv
  <2>4. QED BY <2>1, <2>2, <2>3, <1>type, MoveStep
<1>6. CASE Existing(w)
  <2>1. Stops(wk[w].r) \/ Passed(wk[w].ev, wk[w].r)
    BY DEF Stops, Passed
  <2>2. QED BY <2>1, <1>6, <1>type, LeaveStep DEF Existing
<1>7. CASE Duplicate(w)
  <2>1. Stops(wk[w].r) \/ Passed(wk[w].ev, wk[w].r)
    BY DEF Stops, Passed
  <2>2. QED BY <2>1, <1>7, <1>type, LeaveStep DEF Duplicate
<1>8. CASE Recover(w)
  <2>1. wk[w].old.tasks \in SUBSET ActionIds
    BY <1>wk DEF CallType, ExecType
  <2>2. Recorded(w) => Present(w)
    BY <2>1, <1>8, <1>inv DEF CallInv, Recorded, Present, Recover, At
  <2>3. QED BY <2>2, <1>8 DEF Recover
<1>9. CASE Replay(w)
  BY <1>9, <1>inv DEF Replay, CallInv
<1>10. CASE CheckCooldown(w)
  <2>1. PICK seen, pc :
          /\ wk' = [wk EXCEPT ![w] = [@ EXCEPT !.seen = seen, !.pc = pc]]
          /\ pc = "suppress" \/ (pc = "shadow" /\ wk[w].r \in Shadow) \/ pc = "act"
    BY <1>10 DEF CheckCooldown
  <2>2. /\ \A v \in Workers : v # w => wk'[v] = wk[v]
        /\ wk'[w].pc = pc /\ wk'[w].ev = wk[w].ev /\ wk'[w].r = wk[w].r
        /\ wk'[w].got = wk[w].got /\ wk'[w].applied = wk[w].applied
        /\ wk'[w].force = wk[w].force /\ wk'[w].mode = wk[w].mode
    BY <2>1, <1>wk DEF CallType
  <2>3. UNCHANGED <<exec, task, budget>> /\ wk[w].pc = "cool"
    BY <1>10 DEF CheckCooldown, At
  <2>4. CallInv(w)' /\ Owns(w)
    BY <2>1, <2>2, <2>3, <1>inv DEF CallInv, Owns, Reached
  <2>5. QED BY <2>2, <2>3, <2>4, <1>type, MoveStep
<1>11. CASE Suppress(w)
  <2>1. wk[w].pc = "suppress" /\ Owns(w) /\ wk[w].got = {}
    BY <1>11, <1>inv DEF Suppress, At, Owns, CallInv
  <2>2. \A a \in ActionIds : <<wk[w].ev, wk[w].r, a>> \notin task
    BY <2>1, <1>inv DEF CallInv
  <2>3. Stops(wk[w].r) \/ wk[w].r \in Shadow \cup Composable
    BY DEF Stops
  <2>4. Write(w, "cooldown_suppressed", {}) /\ Leave(w, Stops(wk[w].r), "cooldown_suppressed")
        /\ UNCHANGED <<task, budget>>
    BY <1>11 DEF Suppress
  <2>5. /\ \A v \in Workers : v # w => wk'[v] = wk[v]
        /\ CallInv(w)' /\ ~Owns(w)' /\ wk'[w].ev = wk[w].ev
        /\ \A r \in Rules : r < wk'[w].r => r < wk[w].r \/ (r = wk[w].r /\ ~Stops(wk[w].r))
    BY <2>4, <1>type, <1>inv, Left
  <2>6. QED BY <2>1, <2>2, <2>3, <2>4, <2>5, <1>type, WriteStep
<1>12. CASE ShadowMatch(w)
  <2>1. wk[w].pc = "shadow" /\ Owns(w) /\ wk[w].got = {} /\ wk[w].r \in Shadow
    BY <1>12, <1>inv DEF ShadowMatch, At, Owns, CallInv
  <2>2. \A a \in ActionIds : <<wk[w].ev, wk[w].r, a>> \notin task
    BY <2>1, <1>inv DEF CallInv
  <2>3. Write(w, "shadow_matched", {}) /\ Leave(w, FALSE, "matched_without_task")
        /\ UNCHANGED <<task, budget>>
    BY <1>12 DEF ShadowMatch
  <2>4. /\ \A v \in Workers : v # w => wk'[v] = wk[v]
        /\ CallInv(w)' /\ ~Owns(w)' /\ wk'[w].ev = wk[w].ev
        /\ \A r \in Rules : r < wk'[w].r => r < wk[w].r \/ (r = wk[w].r /\ ~FALSE)
    BY <2>3, <1>type, <1>inv, Left
  <2>5. QED BY <2>1, <2>2, <2>3, <2>4, <1>type, WriteStep
<1>13. CASE CreateTask(w)
  <2>1. wk[w].a \in ActionIds /\ wk[w].pc = "act"
    BY <1>13, <1>wk, KeyTyped DEF CreateTask, Does, At
  <2>2. task' = task \cup {<<wk[w].ev, wk[w].r, wk[w].a>>} /\ UNCHANGED <<exec, budget>>
    BY <1>13 DEF CreateTask, Key
  <2>3. /\ \A v \in Workers : v # w => wk'[v] = wk[v]
        /\ wk'[w].pc = "act" /\ wk'[w].ev = wk[w].ev /\ wk'[w].r = wk[w].r
        /\ wk'[w].got = wk[w].got \cup {wk[w].a} /\ wk'[w].applied = TRUE
        /\ wk'[w].force = wk[w].force /\ wk'[w].mode = wk[w].mode
    BY <2>1, <1>13, <1>wk DEF CreateTask, Applied, CallType
  <2>4. Owns(w) /\ Owns(w)'
    BY <2>1, <2>3 DEF Owns
  <2>5. CallInv(w)'
    BY <2>1, <2>2, <2>3, <2>4, <1>inv DEF CallInv, Reached
  <2>6. LocalStep(w)
    BY <2>2, <2>3, <2>4 DEF LocalStep
  <2>7. exec[wk[w].ev][wk[w].r].status = "started"
    BY <2>4, <1>inv DEF CallInv
  <2>8. ASSUME NEW e \in Events, NEW r \in Rules, e = wk[w].ev, r = wk[w].r
        PROVE  RowInv(e, r)'
    BY <2>2, <2>7, <2>8, <1>row DEF RowInv
  <2>9. OwnStep(w)
    BY <2>3, <2>4, <2>5, <2>8 DEF OwnStep
  <2>10. QED BY <2>6, <2>9, <1>type, LocalKeeps
<1>14. CASE SkipTask(w) \/ SkipNote(w)
  <2>1. SkipAction(w) /\ UNCHANGED <<exec, task, budget>> /\ wk[w].pc = "act"
    BY <1>14 DEF SkipTask, SkipNote, Does, At
  <2>2. /\ \A v \in Workers : v # w => wk'[v] = wk[v]
        /\ wk'[w].pc = wk[w].pc /\ wk'[w].ev = wk[w].ev /\ wk'[w].r = wk[w].r
        /\ wk'[w].got = wk[w].got /\ wk'[w].applied = wk[w].applied
        /\ wk'[w].force = wk[w].force /\ wk'[w].mode = wk[w].mode
    BY <2>1, <1>wk DEF SkipAction, CallType
  <2>3. CallInv(w)' /\ Owns(w)
    BY <2>1, <2>2, <1>inv DEF CallInv, Owns, Reached
  <2>4. QED BY <2>1, <2>2, <2>3, <1>type, MoveStep
<1>15. CASE WriteNote(w)
  <2>1. Applied(w, {}) /\ UNCHANGED <<exec, task, budget>> /\ wk[w].pc = "act"
    BY <1>15 DEF WriteNote, Does, At
  <2>2. /\ \A v \in Workers : v # w => wk'[v] = wk[v]
        /\ wk'[w].pc = wk[w].pc /\ wk'[w].ev = wk[w].ev /\ wk'[w].r = wk[w].r
        /\ wk'[w].got = wk[w].got /\ wk'[w].applied = TRUE
        /\ wk'[w].force = wk[w].force /\ wk'[w].mode = wk[w].mode
    BY <2>1, <1>wk DEF Applied, CallType
  <2>3. CallInv(w)' /\ Owns(w)
    BY <2>1, <2>2, <1>inv DEF CallInv, Owns, Reached
  <2>4. QED BY <2>1, <2>2, <2>3, <1>type, MoveStep
<1>16. CASE Complete(w)
  <2>1. /\ wk[w].pc = "act" /\ Owns(w) /\ Write(w, ResultStatus(w), wk[w].got)
        /\ UNCHANGED <<task, budget>>
    BY <1>16 DEF Complete, At, Owns
  <2>2. \A a \in wk[w].got : <<wk[w].ev, wk[w].r, a>> \in task
    BY <1>inv DEF CallInv
  <2>3. \A a \in ActionIds : <<wk[w].ev, wk[w].r, a>> \in task => a \in wk[w].got
    BY <2>1, <1>inv DEF CallInv
  <2>4. /\ ResultStatus(w) = "task_created" => wk[w].got # {}
        /\ wk[w].got # {} => ResultStatus(w) = "task_created"
    BY DEF ResultStatus
  <2>5. wk[w].applied = TRUE \/ ResultStatus(w) = "skipped"
    BY <1>inv, <1>c DEF ResultStatus, CallInv
  <2>6. /\ \A v \in Workers : v # w => wk'[v] = wk[v]
        /\ CallInv(w)' /\ ~Owns(w)' /\ wk'[w].ev = wk[w].ev
        /\ \A r \in Rules : r < wk'[w].r =>
             r < wk[w].r
             \/ (r = wk[w].r /\ (ResultStatus(w) = "skipped" \/ r \in Shadow \cup Composable))
    <3>1. CASE Counts(w) /\ Limited(w)
      <4>1. wk' = [wk EXCEPT ![w].pc = "record"]
        BY <1>16, <3>1 DEF Complete, Goto
      <4>2. /\ \A v \in Workers : v # w => wk'[v] = wk[v]
            /\ wk'[w].pc = "record" /\ wk'[w].ev = wk[w].ev /\ wk'[w].r = wk[w].r
            /\ wk'[w].got = wk[w].got /\ wk'[w].applied = wk[w].applied
            /\ wk'[w].force = wk[w].force /\ wk'[w].mode = wk[w].mode
        BY <4>1, <1>wk DEF CallType
      <4>3. CallInv(w)' /\ ~Owns(w)'
        BY <2>1, <4>2, <1>inv DEF CallInv, Owns, Reached
      <4>4. QED BY <4>2, <4>3
    <3>2. CASE ~(Counts(w) /\ Limited(w))
      <4>1. Leave(w, Stops(wk[w].r) /\ wk[w].applied, Out(w))
        BY <1>16, <3>2 DEF Complete
      <4>2. /\ \A v \in Workers : v # w => wk'[v] = wk[v]
            /\ CallInv(w)' /\ ~Owns(w)' /\ wk'[w].ev = wk[w].ev
            /\ \A r \in Rules : r < wk'[w].r =>
                 r < wk[w].r \/ (r = wk[w].r /\ ~(Stops(wk[w].r) /\ wk[w].applied))
        BY <4>1, <1>type, <1>inv, Left
      <4>3. ~(Stops(wk[w].r) /\ wk[w].applied) =>
              ResultStatus(w) = "skipped" \/ wk[w].r \in Shadow \cup Composable
        BY <2>5 DEF Stops
      <4>4. QED BY <4>2, <4>3
    <3>3. QED BY <3>1, <3>2
  <2>7. QED BY <2>1, <2>2, <2>3, <2>4, <2>6, <1>type, WriteStep
<1>17. CASE RecordFire(w)
  <2>1. Stops(wk[w].r) \/ Passed(wk[w].ev, wk[w].r)
    BY DEF Stops, Passed
  <2>2. QED BY <2>1, <1>17, <1>type, LeaveStep DEF RecordFire
<1>18. CASE RecordFailure(w)
  <2>1. wk[w].pc = "failed" /\ Owns(w) /\ Write(w, "failed", wk[w].got)
        /\ wk' = [wk EXCEPT ![w].pc = "threw"] /\ UNCHANGED <<task, budget>>
    BY <1>18 DEF RecordFailure, At, Owns, Goto
  <2>2. /\ \A v \in Workers : v # w => wk'[v] = wk[v]
        /\ wk'[w].pc = "threw" /\ wk'[w].ev = wk[w].ev /\ wk'[w].r = wk[w].r
        /\ wk'[w].got = wk[w].got /\ wk'[w].applied = wk[w].applied
        /\ wk'[w].force = wk[w].force /\ wk'[w].mode = wk[w].mode
    BY <2>1, <1>wk DEF CallType
  <2>3. CallInv(w)' /\ ~Owns(w)'
    BY <2>1, <2>2, <1>inv DEF CallInv, Owns, Reached
  <2>4. QED BY <2>1, <2>2, <2>3, <1>type, WriteStep
<1>19. QED BY <1>1, <1>2, <1>3, <1>4, <1>5, <1>6, <1>7, <1>8, <1>9, <1>10, <1>11, <1>12,
              <1>13, <1>14, <1>15, <1>16, <1>17, <1>18 DEF RunStep

\* Errors, crashes and new calls keep the promises too.
LEMMA StepKeeps ==
  ASSUME Steady, IInv, [Next]_vars
  PROVE  IInv'
<1>type. TypeOK /\ TypeOK'
  BY TypeStep DEF IInv
<1>wk. wk \in [Workers -> CallType]
  BY <1>type DEF TypeOK
<1>budget. budget \in [faults : Nat, crashes : Nat, deletes : Nat]
  BY <1>type DEF TypeOK
<1>1. ASSUME NEW w \in Workers, RunStep(w)
      PROVE  IInv'
  BY <1>1, RunStepKeeps
<1>2. ASSUME NEW w \in Workers, FailAction(w)
      PROVE  IInv'
  <2>1. /\ wk[w].pc = "act" /\ Owns(w) /\ exec' = exec /\ budget'.deletes = budget.deletes
        /\ wk' = [wk EXCEPT ![w].pc = "failed"]
        /\ task' = task \/ task' = task \cup {<<wk[w].ev, wk[w].r, wk[w].a>>}
    BY <1>2, <1>budget DEF FailAction, SpendFault, Goto, Key, At, Owns
  <2>2. /\ \A v \in Workers : v # w => wk'[v] = wk[v]
        /\ wk'[w].pc = "failed" /\ wk'[w].ev = wk[w].ev /\ wk'[w].r = wk[w].r
        /\ wk'[w].got = wk[w].got /\ wk'[w].applied = wk[w].applied
        /\ wk'[w].force = wk[w].force /\ wk'[w].mode = wk[w].mode
    BY <2>1, <1>wk DEF CallType
  <2>3. CallInv(w)
    BY DEF IInv
  <2>4. wk[w].ev \in Events /\ wk[w].r \in Rules
    BY <1>wk DEF CallType
  <2>5. RowInv(wk[w].ev, wk[w].r) /\ exec[wk[w].ev][wk[w].r].status = "started"
    BY <2>1, <2>3, <2>4 DEF IInv, CallInv
  <2>6. Owns(w)' /\ task \subseteq task'
    BY <2>1, <2>2 DEF Owns
  <2>7. CallInv(w)'
    BY <2>1, <2>2, <2>3, <2>6 DEF CallInv, Reached
  <2>8. LocalStep(w)
    BY <2>1, <2>2 DEF LocalStep
  <2>9. ASSUME NEW e \in Events, NEW r \in Rules, e = wk[w].ev, r = wk[w].r
        PROVE  RowInv(e, r)'
    BY <2>1, <2>5, <2>9 DEF RowInv
  <2>10. OwnStep(w)
    BY <2>1, <2>2, <2>7, <2>9 DEF OwnStep
  <2>11. QED BY <2>8, <2>10, <1>type, LocalKeeps
<1>3. ASSUME NEW w \in Workers, Throw(w)
      PROVE  IInv'
  <2>1. wk' = [wk EXCEPT ![w].pc = "threw"] /\ UNCHANGED <<exec, task>>
        /\ budget'.deletes = budget.deletes
    BY <1>3, <1>budget DEF Throw, SpendFault, Goto
  <2>2. /\ \A v \in Workers : v # w => wk'[v] = wk[v]
        /\ wk'[w].pc = "threw" /\ wk'[w].ev = wk[w].ev /\ wk'[w].r = wk[w].r
        /\ wk'[w].got = wk[w].got /\ wk'[w].applied = wk[w].applied
        /\ wk'[w].force = wk[w].force /\ wk'[w].mode = wk[w].mode
    BY <2>1, <1>wk DEF CallType
  <2>3. CallInv(w)
    BY DEF IInv
  <2>4. CallInv(w)' /\ ~Owns(w)'
    BY <2>1, <2>2, <2>3 DEF CallInv, Owns, Reached
  <2>5. QED BY <2>1, <2>2, <2>4, <1>type, MoveStep
<1>4. ASSUME NEW w \in Workers, NEW c, UNCHANGED <<exec, task>>,
             budget'.deletes = budget.deletes, wk' = [wk EXCEPT ![w] = c],
             c.pc = "idle" \/ c.pc = "rule", c.r = 1, c.got = {}, c.force = FALSE,
             c.mode = "fresh"
      PROVE  IInv'
  <2>1. (\A v \in Workers : v # w => wk'[v] = wk[v]) /\ wk'[w] = c
    BY <1>4, <1>wk
  <2>2. CallInv(w)' /\ ~Owns(w)'
    BY <1>4, <2>1 DEF CallInv, Owns, Reached
  <2>3. \A r \in Rules : ~(r < wk'[w].r)
    BY <1>4, <2>1, EngineAssumption DEF Rules
  <2>4. QED BY <1>4, <2>1, <2>2, <2>3, <1>type, QuietStep
<1>5. ASSUME NEW e
      PROVE  /\ IdleCall(e).pc = "idle" /\ IdleCall(e).r = 1 /\ IdleCall(e).got = {}
             /\ IdleCall(e).force = FALSE /\ IdleCall(e).mode = "fresh"
  BY DEF IdleCall
<1>6. ASSUME NEW w \in Workers, Crash(w) \/ Return(w)
      PROVE  IInv'
  <2>1. UNCHANGED <<exec, task>> /\ budget'.deletes = budget.deletes
    BY <1>6, <1>budget DEF Crash, Return, SpendCrash
  <2>2. wk' = [wk EXCEPT ![w] = IdleCall(AnyEvent)]
    BY <1>6 DEF Crash, Return, Forget
  <2>3. QED BY <1>4, <1>5, <2>1, <2>2
<1>7. ASSUME NEW w \in Workers, NEW e \in Events, Fire(w, e, FALSE)
      PROVE  IInv'
  <2> DEFINE c == [IdleCall(e) EXCEPT !.pc = "rule", !.force = FALSE]
  <2>1. c.pc = "rule" /\ c.r = 1 /\ c.got = {} /\ c.force = FALSE /\ c.mode = "fresh"
    BY DEF IdleCall
  <2>2. wk' = [wk EXCEPT ![w] = c] /\ UNCHANGED <<exec, task, budget>>
    BY <1>7 DEF Fire
  <2> HIDE DEF c
  <2>3. QED BY <1>4, <2>1, <2>2
<1>8. ASSUME NEW k \in task, DeleteTask(k)
      PROVE  IInv'
  BY <1>8 DEF DeleteTask, SpendDelete, IInv
<1>9. ASSUME UNCHANGED <<exec, task, wk, budget>>
      PROVE  IInv'
  <2>1. ASSUME NEW w \in Workers
        PROVE  CallInv(w)'
    BY <1>9 DEF IInv, CallInv, Owns, Reached
  <2>2. ASSUME NEW e \in Events, NEW r \in Rules
        PROVE  RowInv(e, r)'
    BY <1>9 DEF IInv, RowInv
  <2>3. Alone' /\ CallsPassed' /\ RowsPassed'
    BY <1>9 DEF IInv, Alone, Owns, CallsPassed, RowsPassed, Passed
  <2>4. QED BY <1>9, <2>1, <2>2, <2>3, <1>type DEF IInv
<1>10. CASE Tick
  BY <1>9, <1>10 DEF Tick
<1>11. CASE UNCHANGED vars
  BY <1>9, <1>11 DEF vars
<1>12. QED BY <1>1, <1>2, <1>3, <1>6, <1>7, <1>8, <1>10, <1>11 DEF Next, Disturb, Steady

\* Nothing has run yet.
LEMMA StartKeeps ==
  ASSUME Steady, Init
  PROVE  IInv
<1>1. TypeOK /\ budget.deletes = 0
  BY TypeInit DEF Init, Steady
<1>2. /\ \A w \in Workers : wk[w] = IdleCall(AnyEvent)
      /\ \A e \in Events, r \in Rules : exec[e][r].status = "none"
      /\ task = {}
  BY DEF Init, Row
<1>3. ASSUME NEW w \in Workers
      PROVE  CallInv(w) /\ ~Owns(w) /\ wk[w].r = 1
  BY <1>2 DEF CallInv, Owns, Reached, IdleCall
<1>4. ASSUME NEW e \in Events, NEW r \in Rules
      PROVE  RowInv(e, r)
  BY <1>2 DEF RowInv
<1>5. Alone /\ RowsPassed
  BY <1>2, <1>3 DEF Alone, RowsPassed
<1>6. CallsPassed
  <2>1. \A r \in Rules : ~(r < 1)
    BY EngineAssumption DEF Rules
  <2>2. QED BY <1>3, <2>1 DEF CallsPassed
<1>7. QED BY <1>1, <1>3, <1>4, <1>5, <1>6 DEF IInv

\* The strengthening is an invariant.
LEMMA Promises == ASSUME Steady PROVE Spec => []IInv
<1>1. Init => IInv
  BY StartKeeps
<1>2. IInv /\ [Next]_vars => IInv'
  BY StepKeeps
<1>3. QED BY <1>1, <1>2, PTL DEF Spec

-----------------------------------------------------------------------------

(* First match wins for every set of rules and events and any number of     *)
(* concurrent deliveries, errors and crashes.                               *)
THEOREM FirstMatch == ASSUME Steady PROVE Spec => []FirstMatchWins
<1>1. IInv => FirstMatchWins
  <2> SUFFICES ASSUME IInv, NEW e \in Events, NEW r1 \in Rules, NEW r2 \in Rules, r1 < r2,
                      r1 \notin Shadow \cup Composable,
                      NEW a1 \in ActionIds, <<e, r1, a1>> \in task,
                      NEW a2 \in ActionIds, <<e, r2, a2>> \in task
               PROVE  FALSE
    BY DEF FirstMatchWins, HasTask
  <2>1. /\ exec[e][r1].status \in {"started", "failed", "task_created"}
        /\ exec[e][r2].status \in {"started", "failed", "task_created"}
    BY DEF IInv, RowInv
  <2>2. <<e, r1>> \in Matches
    BY <2>1 DEF IInv, RowInv
  <2>3. Passed(e, r1)
    BY <2>1 DEF IInv, RowsPassed
  <2>4. QED BY <2>1, <2>2, <2>3 DEF Passed
<1>2. QED BY <1>1, Promises, PTL

(* A settled execution row knows every task of its event and rule.          *)
THEOREM RecordComplete == ASSUME Steady PROVE Spec => []RecordKeepsTasks
<1>1. IInv => RecordKeepsTasks
  BY DEF IInv, RowInv, RecordKeepsTasks, Settled
<1>2. QED BY <1>1, Promises, PTL

\* A call writes only a row it owns or claims, and no settled row is either.
LEMMA SettledStep ==
  ASSUME IInv, [Next]_vars, NEW e \in Events, NEW r \in Rules, exec[e][r].status \in Settled
  PROVE  exec'[e][r] = exec[e][r]
<1>exec. exec \in [Events -> [Rules -> ExecType]] /\ wk \in [Workers -> CallType]
  BY DEF IInv, TypeOK
<1>1. exec[e][r].status # "none" /\ exec[e][r].status # "started"
  BY DEF Settled
<1>2. ASSUME NEW w \in Workers, Owns(w), NEW s, NEW ts, Write(w, s, ts)
      PROVE  exec'[e][r] = exec[e][r]
  <2>1. exec[wk[w].ev][wk[w].r].status = "started"
    BY <1>2 DEF IInv, CallInv
  <2>2. e # wk[w].ev \/ r # wk[w].r
    BY <1>1, <2>1
  <2>3. QED BY <1>2, <1>exec, <2>2 DEF Write
<1>3. ASSUME NEW w \in Workers, Claim(w)
      PROVE  exec'[e][r] = exec[e][r]
  <2>1. CASE Unclaimed(wk[w].ev, wk[w].r)
    <3>1. e # wk[w].ev \/ r # wk[w].r
      BY <1>1, <2>1 DEF Unclaimed
    <3>2. exec' = [exec EXCEPT ![wk[w].ev][wk[w].r] = Row("started", {})]
      BY <1>3, <2>1 DEF Claim
    <3>3. QED BY <1>exec, <3>1, <3>2
  <2>2. CASE ~Unclaimed(wk[w].ev, wk[w].r)
    BY <1>3, <2>2 DEF Claim
  <2>3. QED BY <2>1, <2>2
<1>4. ASSUME NEW w \in Workers,
             Suppress(w) \/ ShadowMatch(w) \/ Complete(w) \/ RecordFailure(w)
      PROVE  exec'[e][r] = exec[e][r]
  <2>1. Owns(w)
    BY <1>4 DEF Suppress, ShadowMatch, Complete, RecordFailure, At, Owns
  <2>2. \/ Write(w, "cooldown_suppressed", {}) \/ Write(w, "shadow_matched", {})
        \/ Write(w, ResultStatus(w), wk[w].got) \/ Write(w, "failed", wk[w].got)
    BY <1>4 DEF Suppress, ShadowMatch, Complete, RecordFailure
  <2>3. QED BY <1>2, <2>1, <2>2
<1>5. ASSUME NEW w \in Workers, RunStep(w)
      PROVE  exec'[e][r] = exec[e][r]
  <2>1. CASE Claim(w)
    BY <1>3, <2>1
  <2>2. CASE Suppress(w) \/ ShadowMatch(w) \/ Complete(w) \/ RecordFailure(w)
    BY <1>4, <2>2
  <2>3. CASE Mismatch(w) \/ Match(w) \/ ReadExisting(w) \/ Existing(w) \/ Duplicate(w)
    BY <2>3 DEF Mismatch, Match, ReadExisting, Existing, Duplicate
  <2>4. CASE Recover(w) \/ Replay(w) \/ CheckCooldown(w) \/ RecordFire(w)
    BY <2>4 DEF Recover, Replay, CheckCooldown, RecordFire
  <2>5. CASE CreateTask(w) \/ SkipTask(w) \/ WriteNote(w) \/ SkipNote(w)
    BY <2>5 DEF CreateTask, SkipTask, WriteNote, SkipNote
  <2>6. QED BY <1>5, <2>1, <2>2, <2>3, <2>4, <2>5 DEF RunStep
<1>6. ASSUME NEW w \in Workers, FailAction(w) \/ Throw(w) \/ Crash(w) \/ Return(w)
      PROVE  exec'[e][r] = exec[e][r]
  BY <1>6 DEF FailAction, Throw, Crash, Return
<1>7. ASSUME NEW w \in Workers, NEW f \in Events, NEW force \in BOOLEAN, Fire(w, f, force)
      PROVE  exec'[e][r] = exec[e][r]
  BY <1>7 DEF Fire
<1>8. CASE Disturb
  BY <1>8 DEF Disturb, Tick, DeleteTask
<1>9. CASE UNCHANGED vars
  BY <1>9 DEF vars
<1>10. QED BY <1>5, <1>6, <1>7, <1>8, <1>9 DEF Next

(* A settled row is never written again, whatever other deliveries of its   *)
(* event are under way.                                                     *)
THEOREM NeverRewritten == ASSUME Steady PROVE Spec => SettledOnce
<1>1. IInv /\ [Next]_vars =>
          [\A e \in Events, r \in Rules :
              exec[e][r].status \in Settled => exec'[e][r] = exec[e][r]]_vars
  BY SettledStep
<1>2. QED BY <1>1, Promises, PTL DEF Spec, SettledOnce

-----------------------------------------------------------------------------
(* The cooldown *)

\* A call that leaves its rule is at no rule's work.
LEMMA LeavesWork ==
  ASSUME TypeOK, NEW w \in Workers, NEW stop, NEW out, Leave(w, stop, out)
  PROVE  /\ wk'[w].pc \in {"returned", "rule"} /\ wk'[w].at = 0 /\ wk'[w].seen = NoRow
         /\ \A v \in Workers : v # w => wk'[v] = wk[v]
BY DEF Leave, IdleCall, TypeOK, CallType

\* A fresh call is the only one there will be for its event and rule.  What a
\* call has read of the cooldown was fired by others.
Fresh(w) == wk[w].mode = "fresh" /\ wk[w].pc \in Working
Mine(w) == IF wk[w].mode = "fresh" THEN {wk[w].ev} ELSE {}
HasFired(e, r) == \E f \in fired : f[1] = e /\ f[2] = r
Before(w) == FiresIn(wk[w].r, CustomerAt(w), wk[w].seen.window) \ Mine(w)

CallFits(w) ==
    /\ wk[w].at <= now /\ wk[w].seen.window <= now
    /\ Fresh(w) => exec[wk[w].ev][wk[w].r].status # "none"
    /\ Fresh(w) /\ wk[w].pc # "record" => ~HasFired(wk[w].ev, wk[w].r)
    /\ wk[w].pc = "record" => /\ wk[w].mode = "fresh" /\ Limited(w)
                              /\ <<wk[w].ev, wk[w].r, Window(w)>> \in fired
    /\ wk[w].pc \in {"suppress", "act", "record"} /\ Limited(w)
           => wk[w].seen.count <= Cardinality(Before(w))
    /\ wk[w].pc = "suppress" => /\ Limited(w) /\ ~Expired(wk[w].seen, wk[w].at)
                                /\ Exhausted(wk[w].r, wk[w].seen)

\* The count of a cooldown row is made of fires in its window.
RowFits(r, c) ==
    /\ cool[r][c].window <= now
    /\ cool[r][c].count <= Cardinality(FiresIn(r, c, cool[r][c].window))

CoolInv ==
    /\ \A f \in fired : exec[f[1]][f[2]].status # "none"
    /\ \A v, w \in Workers :
           Fresh(v) /\ Fresh(w) /\ wk[v].ev = wk[w].ev /\ wk[v].r = wk[w].r => v = w
    /\ \A r \in Rules, c \in Customers : RowFits(r, c)
    /\ \A w \in Workers : CallFits(w)

\* Fires are events, of which there are finitely many.
LEMMA FiresCounted ==
  ASSUME NEW S, S \subseteq Events
  PROVE  IsFiniteSet(S) /\ Cardinality(S) \in Nat
<1>1. IsFiniteSet(S)
  BY EngineAssumption, FS_Subset
<1> QED BY <1>1, FS_CardinalityType

LEMMA FiresGrow ==
  ASSUME NEW S, NEW T, S \subseteq T, T \subseteq Events
  PROVE  Cardinality(S) <= Cardinality(T)
<1>1. IsFiniteSet(T)
  BY FiresCounted
<1> QED BY <1>1, FS_Subset

Marked == \A e \in Events, r \in Rules :
              exec[e][r].status # "none" => exec'[e][r].status # "none"

\* A call keeps what it knows while others fire for other events or rules.
LEMMA CallKeeps ==
  ASSUME TypeOK, NEW v \in Workers, CallFits(v), wk'[v] = wk[v], Marked,
         now' \in Nat, now <= now', fired \subseteq fired',
         Fresh(v) /\ wk[v].pc # "record" =>
             \A f \in fired' \ fired : ~(f[1] = wk[v].ev /\ f[2] = wk[v].r)
  PROVE  CallFits(v)'
<1>1. /\ wk[v].ev \in Events /\ wk[v].r \in Rules /\ wk[v].at \in Nat /\ now \in Nat
      /\ wk[v].seen \in RowType
  BY DEF TypeOK, CallType
<1>2. wk'[v].at <= now' /\ wk'[v].seen.window <= now'
  BY <1>1 DEF CallFits, RowType
<1>3. Limited(v)' = Limited(v) /\ CustomerAt(v)' = CustomerAt(v) /\ Window(v)' = Window(v)
      /\ Mine(v)' = Mine(v) /\ (Fresh(v)' <=> Fresh(v))
  BY DEF Limited, CustomerAt, Window, Expired, Mine, Fresh
<1>4. Fresh(v)' => exec'[wk'[v].ev][wk'[v].r].status # "none"
  BY <1>1, <1>3 DEF CallFits, Marked
<1>5. (Fresh(v) /\ wk[v].pc # "record" => ~HasFired(wk[v].ev, wk[v].r))'
  BY <1>3 DEF CallFits, HasFired
<1>6. ASSUME wk[v].pc \in {"suppress", "act", "record"}, Limited(v)
      PROVE  wk'[v].seen.count <= Cardinality(Before(v)')
  <2>1. Before(v) \subseteq Before(v)' /\ Before(v)' \subseteq Events
    BY <1>3 DEF Before, FiresIn
  <2>2. Cardinality(Before(v)) <= Cardinality(Before(v)')
    BY <2>1, FiresGrow
  <2>3. Cardinality(Before(v)) \in Nat /\ Cardinality(Before(v)') \in Nat
    BY <2>1, FiresCounted
  <2>4. wk[v].seen.count <= Cardinality(Before(v)) /\ wk[v].seen.count \in Nat
    BY <1>1, <1>6 DEF CallFits, RowType
  <2>5. wk[v].seen.count <= Cardinality(Before(v)')
    BY <2>2, <2>3, <2>4
  <2> QED BY <2>5
<1>7. (wk[v].pc = "record" => /\ wk[v].mode = "fresh" /\ Limited(v)
                              /\ <<wk[v].ev, wk[v].r, Window(v)>> \in fired)'
  BY <1>3 DEF CallFits
<1>8. (wk[v].pc = "suppress" => /\ Limited(v) /\ ~Expired(wk[v].seen, wk[v].at)
                                /\ Exhausted(wk[v].r, wk[v].seen))'
  BY <1>3 DEF CallFits, Expired, Exhausted
<1>9. (wk[v].pc \in {"suppress", "act", "record"} /\ Limited(v)
           => wk[v].seen.count <= Cardinality(Before(v)))'
  BY <1>3, <1>6
<1> QED BY <1>2, <1>4, <1>5, <1>7, <1>8, <1>9 DEF CallFits

\* A row keeps what it counts.
LEMMA RowKeeps ==
  ASSUME TypeOK, NEW r \in Rules, NEW c \in Customers, RowFits(r, c),
         cool'[r][c] = cool[r][c], now' \in Nat, now <= now', fired \subseteq fired'
  PROVE  RowFits(r, c)'
<1>1. cool[r][c].window \in Nat /\ cool[r][c].count \in Nat /\ now \in Nat
  BY DEF TypeOK, RowType
<1> DEFINE k == cool[r][c].window
<1>2. FiresIn(r, c, k) \subseteq FiresIn(r, c, k)' /\ FiresIn(r, c, k)' \subseteq Events
  BY DEF FiresIn
<1>3. Cardinality(FiresIn(r, c, k)) <= Cardinality(FiresIn(r, c, k)')
  BY <1>2, FiresGrow
<1>4. Cardinality(FiresIn(r, c, k)) \in Nat /\ Cardinality(FiresIn(r, c, k)') \in Nat
  BY <1>2, FiresCounted
<1>5. cool[r][c].count <= Cardinality(FiresIn(r, c, k)')
  BY <1>1, <1>3, <1>4 DEF RowFits
<1>6. cool'[r][c].window <= now'
  BY <1>1 DEF RowFits
<1> QED BY <1>5, <1>6 DEF RowFits

\* A step of one call that fires nothing and counts nothing.
LEMMA OneMoves ==
  ASSUME TypeOK, TypeOK', CoolInv, NEW w \in Workers,
         \A v \in Workers : v # w => wk'[v] = wk[v],
         UNCHANGED <<cool, fired, now>>, Marked, CallFits(w)',
         Fresh(w)' => \/ Fresh(w) /\ wk'[w].ev = wk[w].ev /\ wk'[w].r = wk[w].r
                      \/ exec[wk'[w].ev][wk'[w].r].status = "none"
  PROVE  CoolInv'
<1>1. now \in Nat /\ now' = now /\ fired' = fired
  BY DEF TypeOK
<1>2. ASSUME NEW v \in Workers PROVE CallFits(v)'
  <2>1. CASE v = w
    BY <2>1
  <2>2. CASE v # w
    BY <1>1, <2>2, CallKeeps DEF CoolInv
  <2> QED BY <2>1, <2>2
<1>3. ASSUME NEW f \in fired' PROVE exec'[f[1]][f[2]].status # "none"
  <2>1. f[1] \in Events /\ f[2] \in Rules
    BY DEF TypeOK
  <2> QED BY <2>1, <1>1 DEF CoolInv, Marked
<1>4. ASSUME NEW r \in Rules, NEW c \in Customers PROVE RowFits(r, c)'
  BY <1>1, RowKeeps DEF CoolInv
<1>5. ASSUME NEW v \in Workers, v # w, Fresh(v)', Fresh(w)',
             wk'[v].ev = wk'[w].ev, wk'[v].r = wk'[w].r
      PROVE  FALSE
  <2>1. Fresh(v) /\ wk'[v] = wk[v]
    BY <1>5 DEF Fresh
  <2>2. exec[wk[v].ev][wk[v].r].status # "none"
    BY <2>1 DEF CoolInv, CallFits
  <2> QED BY <1>5, <2>1, <2>2 DEF CoolInv
<1>6. ASSUME NEW u \in Workers, NEW v \in Workers, Fresh(u)', Fresh(v)',
             wk'[u].ev = wk'[v].ev, wk'[u].r = wk'[v].r
      PROVE  u = v
  <2>1. CASE u = w \/ v = w
    BY <1>5, <1>6, <2>1
  <2>2. CASE u # w /\ v # w
    BY <1>6, <2>2 DEF CoolInv, Fresh
  <2> QED BY <2>1, <2>2
<1> QED BY <1>2, <1>3, <1>4, <1>6 DEF CoolInv

\* A call that leaves its work, or goes on with it, fits.
LEMMA AwayFits ==
  ASSUME NEW w \in Workers, wk'[w].pc \notin Working, wk'[w].at <= now',
         wk'[w].seen.window <= now'
  PROVE  CallFits(w)' /\ ~Fresh(w)'
BY DEF CallFits, Fresh, Working

LEMMA OnwardFits ==
  ASSUME TypeOK, NEW w \in Workers, CallFits(w), Marked, UNCHANGED <<fired, now>>,
         wk[w].pc \in Working \ {"record"}, wk'[w].pc \in {"cool", "shadow", "act", "failed"},
         wk'[w].pc = "act" => wk[w].pc = "act",
         wk'[w].ev = wk[w].ev, wk'[w].r = wk[w].r, wk'[w].at = wk[w].at,
         wk'[w].seen = wk[w].seen, wk'[w].mode = wk[w].mode
  PROVE  CallFits(w)' /\ (Fresh(w)' => Fresh(w))
<1>1. wk[w].ev \in Events /\ wk[w].r \in Rules
  BY DEF TypeOK, CallType
<1>2. Fresh(w)' => Fresh(w)
  BY DEF Fresh
<1>3. Fresh(w)' => /\ exec'[wk'[w].ev][wk'[w].r].status # "none"
                   /\ (~HasFired(wk[w].ev, wk[w].r))'
  BY <1>1, <1>2 DEF CallFits, Marked, HasFired
<1>4. Limited(w)' = Limited(w) /\ Before(w)' = Before(w)
  BY DEF Limited, CustomerAt, Before, Mine, FiresIn
<1>5. (wk[w].pc \in {"suppress", "act", "record"} /\ Limited(w)
           => wk[w].seen.count <= Cardinality(Before(w)))'
  BY <1>4 DEF CallFits
<1>6. wk'[w].at <= now' /\ wk'[w].seen.window <= now'
  BY DEF CallFits
<1>7. wk'[w].pc # "record" /\ wk'[w].pc # "suppress"
  OBVIOUS
<1>8. (Fresh(w) => exec[wk[w].ev][wk[w].r].status # "none")'
  BY <1>3
<1>9. (Fresh(w) /\ wk[w].pc # "record" => ~HasFired(wk[w].ev, wk[w].r))'
  BY <1>3
<1> QED BY <1>2, <1>5, <1>6, <1>7, <1>8, <1>9 DEF CallFits

\* completeExecution leaves no row unclaimed.
LEMMA WriteMarks ==
  ASSUME TypeOK, NEW w \in Workers, NEW s, NEW ts, Write(w, s, ts), s # "none"
  PROVE  Marked
<1>1. \A e \in Events, r \in Rules :
          exec'[e][r] = IF e = wk[w].ev /\ r = wk[w].r THEN Row(s, ts) ELSE exec[e][r]
  BY DEF Write, TypeOK, CallType
<1>2. Row(s, ts).status = s
  BY DEF Row
<1> QED BY <1>1, <1>2 DEF Marked

\* The claim: nobody worked on the row, and the event has not fired.
LEMMA ClaimFits ==
  ASSUME TypeOK, TypeOK', CoolInv, NEW w \in Workers, Claim(w)
  PROVE  CoolInv'
<1> DEFINE e0 == wk[w].ev
           r0 == wk[w].r
<1>1. /\ e0 \in Events /\ r0 \in Rules /\ CallFits(w) /\ UNCHANGED <<cool, fired, now>>
  BY DEF TypeOK, CallType, CoolInv, Claim
<1>2. PICK pc \in {"cool", "existing"} :
        /\ Goto(w, pc)
        /\ pc = "existing" => exec' = exec
        /\ pc = "cool" =>
             /\ exec[e0][r0].status = "none"
             /\ exec' = [exec EXCEPT ![e0][r0] = Row("started", {})]
  BY DEF Claim, Unclaimed
<1>3. /\ \A v \in Workers : v # w => wk'[v] = wk[v]
      /\ wk'[w].pc = pc /\ wk'[w].ev = e0 /\ wk'[w].r = r0 /\ wk'[w].at = wk[w].at
      /\ wk'[w].seen = wk[w].seen
  BY <1>2 DEF Goto, TypeOK, CallType
<1>4. CASE pc = "existing"
  <2>1. Marked
    BY <1>2, <1>4 DEF Marked
  <2>2. CallFits(w)' /\ ~Fresh(w)'
    <3>1. wk'[w].at <= now' /\ wk'[w].seen.window <= now'
      BY <1>1, <1>3 DEF CallFits
    <3> QED BY <3>1, <1>3, <1>4, AwayFits DEF Working
  <2> QED BY <1>1, <1>3, <2>1, <2>2, OneMoves
<1>5. CASE pc = "cool"
  <2>1. exec[e0][r0].status = "none" /\ exec' = [exec EXCEPT ![e0][r0] = Row("started", {})]
    BY <1>2, <1>5
  <2>2. exec'[e0][r0].status = "started"
    BY <1>1, <2>1 DEF Row, TypeOK
  <2>3. Marked
    BY <2>1, <2>2 DEF Marked, TypeOK
  <2>4. (~HasFired(wk[w].ev, wk[w].r))'
    BY <1>1, <1>3, <2>1 DEF HasFired, CoolInv
  <2>5. CallFits(w)'
    BY <1>1, <1>3, <1>5, <2>2, <2>4 DEF CallFits, HasFired
  <2>6. exec[wk'[w].ev][wk'[w].r].status = "none"
    BY <1>3, <2>1
  <2> HIDE DEF e0, r0
  <2> QED BY <1>1, <1>3, <2>3, <2>5, <2>6, OneMoves
<1> QED BY <1>2, <1>4, <1>5

\* The cooldown is read: what the row counts was fired by others.
LEMMA CheckFits ==
  ASSUME TypeOK, TypeOK', CoolInv, NEW w \in Workers, CheckCooldown(w)
  PROVE  CoolInv'
<1> DEFINE row == IF Limited(w) THEN cool[wk[w].r][CustomerAt(w)] ELSE NoRow
           blocked == Limited(w) /\ ~Expired(row, wk[w].at) /\ Exhausted(wk[w].r, row)
           pc == IF blocked /\ wk[w].mode # "recover" THEN "suppress"
                 ELSE IF wk[w].r \in Shadow THEN "shadow" ELSE "act"
<1>typ. wk \in [Workers -> CallType] /\ now \in Nat
  BY DEF TypeOK
<1>1. wk' = [wk EXCEPT ![w] = [wk[w] EXCEPT !.seen = row, !.pc = pc]]
  BY DEF CheckCooldown
<1>2. wk[w].pc = "cool" /\ UNCHANGED <<exec, cool, fired, now>> /\ CallFits(w)
  BY DEF CheckCooldown, At, CoolInv
<1>3. pc = "suppress" => Limited(w) /\ ~Expired(row, wk[w].at) /\ Exhausted(wk[w].r, row)
  OBVIOUS
<1>4. pc \in {"suppress", "shadow", "act"}
  OBVIOUS
<1>5. row.window <= now
  <2>1. CASE Limited(w)
    <3>1. wk[w].r \in Rules /\ CustomerAt(w) \in Customers
      BY <1>typ, <2>1, EngineAssumption DEF CallType, Limited, CustomerAt
    <3> QED BY <3>1, <2>1 DEF CoolInv, RowFits
  <2>2. CASE ~Limited(w)
    BY <1>typ, <2>2 DEF NoRow
  <2> QED BY <2>1, <2>2
<1>6. Limited(w) => row.count <= Cardinality(FiresIn(wk[w].r, CustomerAt(w), row.window))
  <2>1. ASSUME Limited(w) PROVE wk[w].r \in Rules /\ CustomerAt(w) \in Customers
    BY <1>typ, <2>1, EngineAssumption DEF CallType, Limited, CustomerAt
  <2> QED BY <2>1 DEF CoolInv, RowFits
<1> HIDE DEF row, blocked, pc
<1>7. /\ wk'[w].pc = pc /\ wk'[w].seen = row /\ wk'[w].ev = wk[w].ev /\ wk'[w].r = wk[w].r
      /\ wk'[w].at = wk[w].at /\ wk'[w].mode = wk[w].mode
      /\ \A v \in Workers : v # w => wk'[v] = wk[v]
  BY <1>1, <1>typ DEF CallType
<1>8. Limited(w)' = Limited(w) /\ CustomerAt(w)' = CustomerAt(w) /\ (Fresh(w)' => Fresh(w))
  BY <1>2, <1>7 DEF Limited, CustomerAt, Fresh, Working
<1>9. Fresh(w) => /\ exec[wk[w].ev][wk[w].r].status # "none"
                  /\ ~HasFired(wk[w].ev, wk[w].r)
  BY <1>2 DEF CallFits
<1>10. Limited(w) => Before(w)' = FiresIn(wk[w].r, CustomerAt(w), row.window)
  <2>1. Before(w)' = FiresIn(wk[w].r, CustomerAt(w), row.window) \ Mine(w)
    BY <1>2, <1>7, <1>8 DEF Before, Mine, FiresIn
  <2>2. ASSUME NEW e \in FiresIn(wk[w].r, CustomerAt(w), row.window), e \in Mine(w) PROVE FALSE
    <3>1. e = wk[w].ev /\ Fresh(w) /\ <<e, wk[w].r, row.window>> \in fired
      BY <2>2, <1>2 DEF Mine, FiresIn, Fresh, Working
    <3>2. HasFired(e, wk[w].r)
      BY <3>1 DEF HasFired
    <3> QED BY <3>1, <3>2, <1>9
  <2> QED BY <2>1, <2>2
<1>11. CallFits(w)'
  <2>1. wk'[w].at <= now' /\ wk'[w].seen.window <= now'
    BY <1>2, <1>5, <1>7 DEF CallFits
  <2>2. Fresh(w)' => /\ exec'[wk'[w].ev][wk'[w].r].status # "none"
                     /\ (~HasFired(wk[w].ev, wk[w].r))'
    BY <1>2, <1>7, <1>8, <1>9 DEF HasFired
  <2>3. Limited(w)' => wk'[w].seen.count <= Cardinality(Before(w)')
    BY <1>6, <1>7, <1>8, <1>10
  <2>4. wk'[w].pc # "record"
    BY <1>4, <1>7
  <2>5. (wk[w].pc = "suppress" => /\ Limited(w) /\ ~Expired(wk[w].seen, wk[w].at)
                                  /\ Exhausted(wk[w].r, wk[w].seen))'
    BY <1>3, <1>7, <1>8 DEF Expired, Exhausted
  <2>6. (Fresh(w) => exec[wk[w].ev][wk[w].r].status # "none")'
    BY <2>2
  <2>7. (Fresh(w) /\ wk[w].pc # "record" => ~HasFired(wk[w].ev, wk[w].r))'
    BY <2>2
  <2>8. (wk[w].pc \in {"suppress", "act", "record"} /\ Limited(w)
           => wk[w].seen.count <= Cardinality(Before(w)))'
    BY <2>3
  <2> QED BY <2>1, <2>4, <2>5, <2>6, <2>7, <2>8 DEF CallFits
<1>12. Marked
  BY <1>2 DEF Marked
<1> QED BY <1>2, <1>7, <1>8, <1>11, <1>12, OneMoves

\* completeExecution of a fresh run that acted: its event fires.
LEMMA CompleteFits ==
  ASSUME TypeOK, TypeOK', CoolInv, NEW w \in Workers, Complete(w)
  PROVE  CoolInv'
<1>typ. /\ wk \in [Workers -> CallType] /\ now \in Nat
        /\ wk[w].ev \in Events /\ wk[w].r \in Rules
  BY DEF TypeOK, CallType
<1>1. /\ wk[w].pc = "act" /\ UNCHANGED <<cool, now>> /\ CallFits(w)
      /\ Write(w, ResultStatus(w), wk[w].got)
  BY DEF Complete, At, CoolInv
<1>2. Marked
  BY <1>1, WriteMarks DEF ResultStatus
<1>3. exec'[wk[w].ev][wk[w].r].status # "none"
  <2>1. exec'[wk[w].ev][wk[w].r] = Row(ResultStatus(w), wk[w].got)
    BY <1>typ, <1>1 DEF Write, TypeOK
  <2> QED BY <2>1 DEF Row, ResultStatus
<1>4. /\ fired \subseteq fired'
      /\ fired' \subseteq fired \cup {<<wk[w].ev, wk[w].r, Window(w)>>}
      /\ fired' # fired => wk[w].mode = "fresh"
      /\ Counts(w) => <<wk[w].ev, wk[w].r, Window(w)>> \in fired'
  BY DEF Complete, Counts
<1>5. \/ Goto(w, "record") /\ Counts(w) /\ Limited(w)
      \/ \E stop, out : Leave(w, stop, out)
  BY DEF Complete
<1>6. ASSUME NEW v \in Workers, v # w PROVE wk'[v] = wk[v]
  BY <1>5, <1>6, <1>typ DEF Goto, Leave
<1>7. ASSUME NEW v \in Workers, v # w, Fresh(v), NEW f \in fired' \ fired
      PROVE  ~(f[1] = wk[v].ev /\ f[2] = wk[v].r)
  <2>1. f[1] = wk[w].ev /\ f[2] = wk[w].r /\ Fresh(w)
    BY <1>1, <1>4, <1>7 DEF Fresh, Working
  <2> QED BY <1>7, <2>1 DEF CoolInv
<1>8. CallFits(w)' /\ (Fresh(w)' => Fresh(w) /\ wk'[w].ev = wk[w].ev /\ wk'[w].r = wk[w].r)
  <2>1. ASSUME NEW stop, NEW out, Leave(w, stop, out) PROVE CallFits(w)' /\ ~Fresh(w)'
    <3>1. wk'[w].pc \notin Working /\ wk'[w].at <= now' /\ wk'[w].seen.window <= now'
      BY <2>1, <1>1, <1>typ, LeavesWork DEF Working, NoRow
    <3> QED BY <3>1, AwayFits
  <2>2. CASE Goto(w, "record") /\ Counts(w) /\ Limited(w)
    <3>1. /\ wk'[w].pc = "record" /\ wk'[w].ev = wk[w].ev /\ wk'[w].r = wk[w].r
          /\ wk'[w].at = wk[w].at /\ wk'[w].seen = wk[w].seen /\ wk'[w].mode = wk[w].mode
      BY <2>2, <1>typ DEF Goto, CallType
    <3>2. /\ Limited(w)' /\ wk'[w].mode = "fresh" /\ Fresh(w)
          /\ Window(w)' = Window(w)
      BY <3>1, <2>2, <1>1 DEF Limited, CustomerAt, Counts, Fresh, Working, Window, Expired
    <3>3. <<wk'[w].ev, wk'[w].r, Window(w)'>> \in fired'
      BY <3>1, <3>2, <2>2, <1>4
    <3>4. wk'[w].seen.count <= Cardinality(Before(w)')
      <4>1. Before(w) \subseteq Before(w)' /\ Before(w)' \subseteq Events
        BY <3>1, <1>4 DEF Before, FiresIn, CustomerAt, Mine
      <4>2. Cardinality(Before(w)) <= Cardinality(Before(w)')
        BY <4>1, FiresGrow
      <4>3. Cardinality(Before(w)) \in Nat /\ Cardinality(Before(w)') \in Nat
        BY <4>1, FiresCounted
      <4>4. wk[w].seen.count <= Cardinality(Before(w)) /\ wk[w].seen.count \in Nat
        BY <1>1, <2>2, <1>typ DEF CallFits, CallType, RowType
      <4>5. wk[w].seen.count <= Cardinality(Before(w)')
        BY <4>2, <4>3, <4>4
      <4> QED BY <3>1, <4>5
    <3>5. wk'[w].at <= now' /\ wk'[w].seen.window <= now'
      BY <3>1, <1>1 DEF CallFits
    <3>6. exec'[wk'[w].ev][wk'[w].r].status # "none"
      BY <3>1, <1>3
    <3>7. CallFits(w)'
      BY <3>1, <3>2, <3>3, <3>4, <3>5, <3>6 DEF CallFits
    <3> QED BY <3>1, <3>2, <3>7
  <2> QED BY <1>5, <2>1, <2>2
<1>9. ASSUME NEW v \in Workers PROVE CallFits(v)'
  <2>1. CASE v = w
    BY <1>8, <2>1
  <2>2. CASE v # w
    <3>1. CallFits(v) /\ wk'[v] = wk[v] /\ now' \in Nat /\ now <= now'
      BY <1>1, <1>6, <1>typ, <2>2 DEF CoolInv
    <3> QED BY <3>1, <1>2, <1>4, <1>7, <2>2, CallKeeps
  <2> QED BY <2>1, <2>2
<1>10. ASSUME NEW f \in fired' PROVE exec'[f[1]][f[2]].status # "none"
  <2>1. CASE f \in fired
    <3>1. f[1] \in Events /\ f[2] \in Rules
      BY <2>1 DEF TypeOK
    <3> QED BY <3>1, <2>1, <1>2 DEF CoolInv, Marked
  <2>2. CASE f \notin fired
    BY <2>2, <1>3, <1>4
  <2> QED BY <2>1, <2>2
<1>11. ASSUME NEW r \in Rules, NEW c \in Customers PROVE RowFits(r, c)'
  BY <1>1, <1>4, <1>typ, RowKeeps DEF CoolInv
<1>12. ASSUME NEW u \in Workers, NEW v \in Workers, Fresh(u)', Fresh(v)',
              wk'[u].ev = wk'[v].ev, wk'[u].r = wk'[v].r
       PROVE  u = v
  <2>1. ASSUME NEW x \in Workers, Fresh(x)'
        PROVE  Fresh(x) /\ wk'[x].ev = wk[x].ev /\ wk'[x].r = wk[x].r
    BY <1>6, <1>8, <2>1 DEF Fresh
  <2>2. /\ Fresh(u) /\ wk'[u].ev = wk[u].ev /\ wk'[u].r = wk[u].r
        /\ Fresh(v) /\ wk'[v].ev = wk[v].ev /\ wk'[v].r = wk[v].r
    BY <1>12, <2>1
  <2> QED BY <1>12, <2>2 DEF CoolInv
<1> QED BY <1>9, <1>10, <1>11, <1>12 DEF CoolInv

\* recordCooldownFire: one more than what was read, for the event that fired.
LEMMA RecordFits ==
  ASSUME TypeOK, TypeOK', CoolInv, NEW w \in Workers, RecordFire(w)
  PROVE  CoolInv'
<1> DEFINE r0 == wk[w].r
           c0 == CustomerAt(w)
           k0 == Window(w)
           n0 == IF Expired(wk[w].seen, wk[w].at) THEN 1 ELSE wk[w].seen.count + 1
           old == Before(w)
<1>typ. /\ wk \in [Workers -> CallType] /\ now \in Nat /\ wk[w].ev \in Events /\ r0 \in Rules
        /\ wk[w].seen.count \in Nat /\ wk[w].seen.window \in Nat /\ wk[w].at \in Nat
        /\ cool \in [Rules -> [Customers -> RowType]]
  BY DEF TypeOK, CallType, RowType
<1>1. wk[w].pc = "record" /\ UNCHANGED <<exec, fired, now>> /\ CallFits(w)
  BY DEF RecordFire, At, CoolInv
<1>2. cool' = [cool EXCEPT ![r0][c0] = [count |-> n0, window |-> k0]]
  BY DEF RecordFire
<1>3. /\ Limited(w) /\ wk[w].mode = "fresh" /\ <<wk[w].ev, r0, k0>> \in fired
      /\ wk[w].seen.count <= Cardinality(Before(w))
  BY <1>1 DEF CallFits
<1>4. c0 \in Customers
  BY <1>3, <1>typ, EngineAssumption DEF Limited, CustomerAt
<1>5. wk[w].ev \in FiresIn(r0, c0, k0) /\ FiresIn(r0, c0, k0) \subseteq Events
  BY <1>3, <1>typ DEF FiresIn, CustomerAt
<1>6. n0 <= Cardinality(FiresIn(r0, c0, k0))
  <2> DEFINE F == FiresIn(r0, c0, k0)
  <2>1. IsFiniteSet(F) /\ Cardinality(F) \in Nat /\ wk[w].ev \in F
    BY <1>5, FiresCounted
  <2>2. Cardinality(F \ {wk[w].ev}) = Cardinality(F) - 1
    BY <2>1, FS_RemoveElement
  <2>3. IsFiniteSet(F \ {wk[w].ev}) /\ Cardinality(F \ {wk[w].ev}) \in Nat
    BY <1>5, FiresCounted
  <2>4. CASE Expired(wk[w].seen, wk[w].at)
    BY <2>1, <2>2, <2>3, <2>4
  <2>5. CASE ~Expired(wk[w].seen, wk[w].at)
    <3>1. Before(w) = F \ {wk[w].ev}
      BY <1>3, <2>5 DEF Before, Mine, Window
    <3>2. wk[w].seen.count <= Cardinality(F \ {wk[w].ev})
      BY <1>3, <3>1
    <3>3. n0 = wk[w].seen.count + 1 /\ wk[w].seen.count \in Nat
      BY <2>5, <1>typ
    <3>4. wk[w].seen.count + 1 <= Cardinality(F)
      <4>1. \A n, a, b \in Nat : n <= a /\ a = b - 1 => n + 1 <= b
        OBVIOUS
      <4> QED BY <4>1, <3>2, <3>3, <2>1, <2>2, <2>3, Zenon
    <3> QED BY <3>3, <3>4
  <2> QED BY <2>4, <2>5
<1>7. k0 <= now
  BY <1>1, <1>typ DEF CallFits, Window
<1>8. ASSUME NEW r \in Rules, NEW c \in Customers PROVE RowFits(r, c)'
  <2>1. CASE r = r0 /\ c = c0
    <3>1. cool'[r][c] = [count |-> n0, window |-> k0]
      BY <2>1, <1>2, <1>4, <1>typ
    <3>2. cool'[r][c].count = n0 /\ cool'[r][c].window = k0
      BY <3>1
    <3> HIDE DEF n0, k0, r0, c0
    <3>4. RowFits(r, c)' <=> k0 <= now' /\ n0 <= Cardinality(FiresIn(r, c, k0))
      BY <3>2, <1>1 DEF RowFits, FiresIn
    <3> QED BY <3>4, <2>1, <1>1, <1>6, <1>7
  <2>2. CASE ~(r = r0 /\ c = c0)
    <3>1. cool'[r][c] = cool[r][c]
      BY <2>2, <1>2, <1>4, <1>typ
    <3> QED BY <3>1, <1>1, <1>typ, RowKeeps DEF CoolInv
  <2> QED BY <2>1, <2>2
<1>9. /\ wk'[w].pc \notin Working /\ wk'[w].at <= now' /\ wk'[w].seen.window <= now'
      /\ \A v \in Workers : v # w => wk'[v] = wk[v]
  <2>1. Leave(w, Stops(wk[w].r), Out(w))
    BY DEF RecordFire
  <2> QED BY <2>1, <1>1, <1>typ, LeavesWork DEF Working, NoRow
<1>10. CallFits(w)' /\ ~Fresh(w)'
  BY <1>9, AwayFits
<1>11. ASSUME NEW v \in Workers PROVE CallFits(v)'
  <2>1. CASE v # w
    BY <2>1, <1>1, <1>9, <1>typ, CallKeeps DEF CoolInv, Marked
  <2> QED BY <2>1, <1>10
<1>12. ASSUME NEW v \in Workers, Fresh(v)' PROVE v # w /\ Fresh(v) /\ wk'[v] = wk[v]
  <2>1. v # w
    BY <1>10, <1>12
  <2> QED BY <2>1, <1>9, <1>12 DEF Fresh
<1> HIDE DEF r0, c0, k0, n0
<1>13. \A f \in fired' : exec'[f[1]][f[2]].status # "none"
  BY <1>1 DEF CoolInv
<1>14. \A u, v \in Workers :
          Fresh(u)' /\ Fresh(v)' /\ wk'[u].ev = wk'[v].ev /\ wk'[u].r = wk'[v].r => u = v
  BY <1>12 DEF CoolInv
<1> QED BY <1>8, <1>11, <1>13, <1>14 DEF CoolInv

\* The clock and the deletion of tasks.
LEMMA DisturbFits ==
  ASSUME TypeOK, TypeOK', CoolInv, UNCHANGED <<exec, cool, fired, wk>>, now <= now'
  PROVE  CoolInv'
<1>1. now' \in Nat /\ Marked /\ fired' = fired
  BY DEF TypeOK, Marked
<1>2. ASSUME NEW w \in Workers PROVE CallFits(w)'
  BY <1>1, CallKeeps DEF CoolInv
<1>3. ASSUME NEW r \in Rules, NEW c \in Customers PROVE RowFits(r, c)'
  BY <1>1, RowKeeps DEF CoolInv
<1> QED BY <1>2, <1>3 DEF CoolInv, Fresh

\* Every step keeps it, whatever the calls do to each other.
LEMMA CoolStep ==
  ASSUME TypeOK, TypeOK', CoolInv, [Next]_vars
  PROVE  CoolInv'
<1>typ. wk \in [Workers -> CallType] /\ now \in Nat
  BY DEF TypeOK
<1>fit. ASSUME NEW w \in Workers PROVE CallFits(w) /\ wk[w].at <= now /\ wk[w].seen.window <= now
  BY DEF CoolInv, CallFits
<1>away. ASSUME NEW w \in Workers, \A v \in Workers : v # w => wk'[v] = wk[v],
                UNCHANGED <<cool, fired, now>>, Marked,
                wk'[w].pc \notin Working, wk'[w].at <= now, wk'[w].seen.window <= now
         PROVE  CoolInv'
  BY <1>away, AwayFits, OneMoves
<1>leave. ASSUME NEW w \in Workers, NEW stop, NEW out, Leave(w, stop, out),
                 UNCHANGED <<cool, fired, now>>, Marked
          PROVE  CoolInv'
  BY <1>leave, <1>away, <1>typ, LeavesWork DEF Working, NoRow
<1>goto. ASSUME NEW w \in Workers, NEW pc, Goto(w, pc), UNCHANGED <<cool, fired, now>>, Marked,
                pc \notin Working
         PROVE  CoolInv'
  <2>1. /\ wk'[w].pc = pc /\ wk'[w].at = wk[w].at /\ wk'[w].seen = wk[w].seen
        /\ \A v \in Workers : v # w => wk'[v] = wk[v]
    BY <1>goto, <1>typ DEF Goto, CallType
  <2> QED BY <2>1, <1>goto, <1>fit, <1>away
<1>same. exec' = exec => Marked
  BY DEF Marked
<1>1. ASSUME NEW w \in Workers, NEW e \in Events, NEW force, Fire(w, e, force) PROVE CoolInv'
  <2>1. /\ wk'[w].pc = "rule" /\ wk'[w].at = 0 /\ wk'[w].seen = NoRow
        /\ UNCHANGED <<exec, cool, fired, now>> /\ \A v \in Workers : v # w => wk'[v] = wk[v]
    BY <1>1, <1>typ DEF Fire, IdleCall
  <2> QED BY <2>1, <1>away, <1>same, <1>typ DEF Working, NoRow
<1>2. ASSUME NEW w \in Workers, Mismatch(w) \/ Existing(w) \/ Duplicate(w) PROVE CoolInv'
  BY <1>2, <1>leave, <1>same DEF Mismatch, Existing, Duplicate
<1>3. ASSUME NEW w \in Workers, Suppress(w) \/ ShadowMatch(w) PROVE CoolInv'
  <2>1. Marked
    BY <1>3, WriteMarks DEF Suppress, ShadowMatch
  <2> QED BY <1>3, <2>1, <1>leave DEF Suppress, ShadowMatch
<1>4. ASSUME NEW w \in Workers, Match(w) PROVE CoolInv'
  <2>1. /\ wk'[w].pc = "claim" /\ wk'[w].at = now /\ wk'[w].seen = wk[w].seen
        /\ UNCHANGED <<exec, cool, fired, now>> /\ \A v \in Workers : v # w => wk'[v] = wk[v]
    BY <1>4, <1>typ DEF Match, CallType
  <2> QED BY <2>1, <1>away, <1>fit, <1>same, <1>typ DEF Working
<1>5. ASSUME NEW w \in Workers, ReadExisting(w) PROVE CoolInv'
  <2>1. /\ wk'[w].pc = "stale" /\ wk'[w].at = wk[w].at /\ wk'[w].seen = wk[w].seen
        /\ UNCHANGED <<exec, cool, fired, now>> /\ \A v \in Workers : v # w => wk'[v] = wk[v]
    BY <1>5, <1>typ DEF ReadExisting, CallType
  <2> QED BY <2>1, <1>away, <1>fit, <1>same DEF Working
<1>6. ASSUME NEW w \in Workers, Recover(w) \/ Replay(w) PROVE CoolInv'
  <2>1. PICK mode \in {"recover", "replay"} : Again(w, mode)
    BY <1>6 DEF Recover, Replay
  <2>2. wk' = [wk EXCEPT ![w] = [wk[w] EXCEPT !.pc = "cool", !.mode = mode]]
    BY <2>1 DEF Again
  <2>3. /\ wk'[w].pc = "cool" /\ wk'[w].mode = mode /\ wk'[w].at = wk[w].at
        /\ wk'[w].seen = wk[w].seen /\ \A v \in Workers : v # w => wk'[v] = wk[v]
    BY <2>2, <1>typ DEF CallType
  <2>4. UNCHANGED <<exec, cool, fired, now>>
    BY <1>6 DEF Recover, Replay
  <2>5. CallFits(w)' /\ ~Fresh(w)'
    BY <2>3, <2>4, <1>fit DEF CallFits, Fresh
  <2> QED BY <2>3, <2>4, <2>5, <1>same, OneMoves
<1>7. ASSUME NEW w \in Workers, CreateTask(w) \/ SkipTask(w) \/ WriteNote(w) \/ SkipNote(w)
      PROVE  CoolInv'
  <2>1. wk[w].pc = "act" /\ UNCHANGED <<exec, cool, fired, now>>
    BY <1>7 DEF CreateTask, SkipTask, WriteNote, SkipNote, Does, At
  <2>2. SkipAction(w) \/ \E got : Applied(w, got)
    BY <1>7 DEF CreateTask, SkipTask, WriteNote, SkipNote
  <2> DEFINE Stays == /\ wk'[w].pc = "act" /\ wk'[w].ev = wk[w].ev /\ wk'[w].r = wk[w].r
                      /\ wk'[w].at = wk[w].at /\ wk'[w].mode = wk[w].mode
                      /\ wk'[w].seen = wk[w].seen
                      /\ \A v \in Workers : v # w => wk'[v] = wk[v]
  <2>3. ASSUME SkipAction(w) PROVE Stays
    BY <2>3, <2>1, <1>typ DEF SkipAction, CallType
  <2>4. ASSUME NEW got, Applied(w, got) PROVE Stays
    BY <2>4, <2>1, <1>typ DEF Applied, CallType
  <2>5. Stays
    BY <2>2, <2>3, <2>4
  <2>6. CallFits(w)' /\ (Fresh(w)' => Fresh(w))
    BY <2>1, <2>5, <1>fit, <1>same, OnwardFits DEF Working
  <2> QED BY <2>1, <2>5, <2>6, <1>same, OneMoves
<1>8. ASSUME NEW w \in Workers, FailAction(w) PROVE CoolInv'
  <2>1. /\ wk[w].pc = "act" /\ UNCHANGED <<exec, cool, fired, now>> /\ Goto(w, "failed")
    BY <1>8 DEF FailAction, At
  <2>2. /\ wk'[w].pc = "failed" /\ wk'[w].ev = wk[w].ev /\ wk'[w].r = wk[w].r
        /\ wk'[w].at = wk[w].at /\ wk'[w].mode = wk[w].mode /\ wk'[w].seen = wk[w].seen
        /\ \A v \in Workers : v # w => wk'[v] = wk[v]
    BY <2>1, <1>typ DEF Goto, CallType
  <2>3. CallFits(w)' /\ (Fresh(w)' => Fresh(w))
    BY <2>1, <2>2, <1>fit, <1>same, OnwardFits DEF Working
  <2> QED BY <2>1, <2>2, <2>3, <1>same, OneMoves
<1>9. ASSUME NEW w \in Workers, RecordFailure(w) PROVE CoolInv'
  <2>1. Marked
    BY <1>9, WriteMarks DEF RecordFailure
  <2> QED BY <1>9, <2>1, <1>goto DEF RecordFailure, Working
<1>10. ASSUME NEW w \in Workers, Throw(w) PROVE CoolInv'
  BY <1>10, <1>goto, <1>same DEF Throw, Working
<1>11. ASSUME NEW w \in Workers, Crash(w) \/ Return(w) PROVE CoolInv'
  <2>1. /\ wk'[w].pc = "idle" /\ wk'[w].at = 0 /\ wk'[w].seen = NoRow
        /\ UNCHANGED <<exec, cool, fired, now>> /\ \A v \in Workers : v # w => wk'[v] = wk[v]
    BY <1>11, <1>typ DEF Crash, Return, Forget, IdleCall
  <2> QED BY <2>1, <1>away, <1>same, <1>typ DEF Working, NoRow
<1>12. ASSUME Disturb \/ UNCHANGED vars PROVE CoolInv'
  <2>1. UNCHANGED <<exec, cool, fired, wk>> /\ now <= now'
    BY <1>12, <1>typ DEF Disturb, Tick, DeleteTask, vars
  <2> QED BY <2>1, DisturbFits
<1>13. ASSUME NEW w \in Workers, RunStep(w) PROVE CoolInv'
  BY <1>13, <1>2, <1>3, <1>4, <1>5, <1>6, <1>7, <1>9, ClaimFits, CheckFits, CompleteFits,
     RecordFits DEF RunStep
<1> QED BY <1>1, <1>8, <1>10, <1>11, <1>12, <1>13 DEF Next

LEMMA CoolInit == Init => CoolInv
<1> SUFFICES ASSUME Init PROVE CoolInv
  OBVIOUS
<1>1. fired = {} /\ now = 0
  BY DEF Init
<1>2. ASSUME NEW w \in Workers PROVE CallFits(w) /\ ~Fresh(w)
  BY <1>1 DEF Init, IdleCall, CallFits, Fresh, Working, NoRow
<1>3. ASSUME NEW r \in Rules, NEW c \in Customers PROVE RowFits(r, c)
  <2>1. cool[r][c].window = 0 /\ cool[r][c].count = 0
    BY DEF Init, NoRow
  <2>2. FiresIn(r, c, 0) \subseteq Events
    BY DEF FiresIn
  <2>3. Cardinality(FiresIn(r, c, 0)) \in Nat
    BY <2>2, FiresCounted
  <2> QED BY <1>1, <2>1, <2>3 DEF RowFits
<1> QED BY <1>1, <1>2, <1>3 DEF CoolInv

\* Whatever calls overlap, fail or die, and however often an event is delivered
\* or repaired, an event is suppressed only for as many others as the limit
\* allows that the rule did act on.
THEOREM SuppressionHolds == Spec => []SuppressedForReason
<1>1. TypeOK /\ TypeOK' /\ CoolInv /\ [Next]_vars => CoolInv'
  BY CoolStep
<1>2. TypeOK /\ CoolInv => SuppressedForReason
  <2> SUFFICES ASSUME TypeOK, CoolInv, NEW w \in Workers, At(w, "suppress")
               PROVE  \E k \in wk[w].at .. now :
                          CooldownLimit[wk[w].r] <= Cardinality(FiresIn(wk[w].r, CustomerAt(w), k))
    BY DEF SuppressedForReason
  <2> DEFINE k == wk[w].seen.window
             F == FiresIn(wk[w].r, CustomerAt(w), k)
  <2>1. /\ wk[w].at \in Nat /\ now \in Nat /\ k \in Nat /\ wk[w].seen.count \in Nat
        /\ CooldownLimit[wk[w].r] \in Nat
    BY EngineAssumption DEF TypeOK, CallType, RowType
  <2>2. /\ Limited(w) /\ ~Expired(wk[w].seen, wk[w].at) /\ Exhausted(wk[w].r, wk[w].seen)
        /\ wk[w].seen.count <= Cardinality(Before(w)) /\ k <= now
    BY DEF CoolInv, CallFits, At
  <2>3. k \in wk[w].at .. now
    BY <2>1, <2>2 DEF Expired
  <2>4. Before(w) \subseteq F /\ F \subseteq Events
    BY DEF Before, FiresIn
  <2>5. Cardinality(Before(w)) <= Cardinality(F)
    BY <2>4, FiresGrow
  <2>6. Cardinality(Before(w)) \in Nat /\ Cardinality(F) \in Nat
    BY <2>4, FiresCounted
  <2>7. CooldownLimit[wk[w].r] <= wk[w].seen.count
    BY <2>1, <2>2 DEF Exhausted
  <2> HIDE DEF F
  <2>8. CooldownLimit[wk[w].r] <= Cardinality(F)
    BY <2>1, <2>2, <2>5, <2>6, <2>7
  <2> QED BY <2>3, <2>8 DEF F
<1> QED BY <1>1, <1>2, CoolInit, TypeCorrect, PTL DEF Spec

-----------------------------------------------------------------------------
(* TranscriptFlow: the job around the engine.  Types, rows and tasks *)

\* A call is within its rule once the conditions have held.
GroundCall(w) ==
    /\ wk[w].pc \in {"claim", "existing", "stale"} \cup Working
          => <<wk[w].ev, wk[w].r>> \in Matches
    /\ wk[w].pc \in {"existing", "stale"} \cup Working
          => exec[wk[w].ev][wk[w].r].status # "none"
    /\ \A a \in wk[w].got : <<wk[w].ev, wk[w].r, a>> \in task

\* What the rows say of the tasks, whatever happens.
Grounded ==
    /\ \A e \in Events, r \in Rules, a \in ActionIds : <<e, r, a>> \in task =>
           /\ a \in 1 .. Len(Kind[r]) /\ Kind[r][a] = "task" /\ exec[e][r].status # "none"
    /\ \A e \in Events, r \in Rules :
           /\ exec[e][r].status # "none" => <<e, r>> \in Matches
           /\ \A a \in exec[e][r].tasks : <<e, r, a>> \in task
    /\ \A w \in Workers : GroundCall(w)

\* What is said to have led to a task has one.
Tasked(e) == \E r \in Rules : HasTask(e, r)
TruthCall(w) ==
    /\ wk[w].out = "task_created" => Tasked(wk[w].ev)
    /\ verdict[w] = "task_created" => Tasked(wk[w].ev)
    /\ verdict[w] # "none" => wk[w].pc \in {"returned", "threw"}
                              /\ (verdict[w] = "failed" <=> wk[w].pc = "threw")
Truthful ==
    /\ \A e \in Events : eval[e] = "task_created" => Tasked(e)
    /\ \A w \in Workers : TruthCall(w)

JobType == [state : {"none", "waiting", "active", "done", "dead"}, tries : Nat,
            repair : BOOLEAN, owner : Workers \cup {NoWorker}]
Said == Outs \cup {"none", "failed"}
FlowTyped ==
    /\ TypeOK
    /\ job \in [Events -> JobType]
    /\ eval \in [Events -> Said] /\ verdict \in [Workers -> Said]
    /\ unstored \in BOOLEAN

-----------------------------------------------------------------------------
\* A job that is taken starts a typed call.
LEMMA FireTyped ==
  ASSUME TypeOK, NEW w \in Workers, NEW e \in Events, NEW force \in BOOLEAN, Fire(w, e, force)
  PROVE  TypeOK'
<1>1. IdleCall(e) \in CallType
  BY IdleTyped
<1>2. [IdleCall(e) EXCEPT !.pc = "rule", !.force = force] \in CallType
  BY <1>1 DEF CallType, PCs, QueryPC
<1>3. wk' = [wk EXCEPT ![w] = [IdleCall(e) EXCEPT !.pc = "rule", !.force = force]]
  BY DEF Fire
<1>4. wk' \in [Workers -> CallType]
  BY <1>2, <1>3, CallReplaced DEF TypeOK
<1> QED BY <1>4 DEF Fire, TypeOK

\* A job that ends keeps the jobs typed.
LEMMA EndJobTyped ==
  ASSUME job \in [Events -> JobType], wk \in [Workers -> CallType], NEW w \in Workers,
         NEW failed, EndJob(w, failed)
  PROVE  job' \in [Events -> JobType]
<1> DEFINE e == wk[w].ev
           j == job[e]
           k == IF ~failed THEN Job("done", j.tries, j.repair, NoWorker)
                ELSE Job(IF LastTry(j) THEN "dead" ELSE "waiting", j.tries + 1, j.repair, NoWorker)
<1>1. e \in Events /\ j \in JobType
  BY DEF CallType
<1>2. k \in JobType
  <2>1. j.tries \in Nat /\ j.tries + 1 \in Nat /\ j.repair \in BOOLEAN
    BY <1>1 DEF JobType
  <2> HIDE DEF j
  <2> QED BY <2>1 DEF Job, JobType
<1>3. job' = job \/ job' = [job EXCEPT ![e] = k]
  BY DEF EndJob
<1> HIDE DEF k, e
<1> QED BY <1>1, <1>2, <1>3

\* So do the engine's own steps, by their types above.
LEMMA EngineTyped ==
  ASSUME TypeOK, NEW w \in Workers, RunStep(w) \/ FailAction(w) \/ Throw(w) \/ Crash(w)
  PROVE  TypeOK'
<1>1. Next
  BY DEF Next
<1> QED BY <1>1, TypeStep

\* The types hold after every step of the resolver.
LEMMA FlowTypedStep ==
  ASSUME FlowTyped, [FlowNext]_allVars
  PROVE  FlowTyped'
<1>typ. /\ TypeOK /\ job \in [Events -> JobType] /\ wk \in [Workers -> CallType]
        /\ eval \in [Events -> Said] /\ verdict \in [Workers -> Said] /\ unstored \in BOOLEAN
        /\ budget \in [faults : Nat, crashes : Nat, deletes : Nat]
  BY DEF FlowTyped, TypeOK
<1>job. \A s \in {"none", "waiting", "active", "done", "dead"}, n \in Nat, b \in BOOLEAN,
           o \in Workers \cup {NoWorker} : Job(s, n, b, o) \in JobType
  BY DEF Job, JobType
<1>same. UNCHANGED vars => TypeOK'
  BY <1>typ, TypeStep
<1>1. ASSUME NEW e \in Events, Enqueue(e) PROVE FlowTyped'
  BY <1>1, <1>typ, <1>job, <1>same DEF Enqueue, FlowTyped
<1>2. ASSUME NEW e \in Events, EnqueueRepair(e) PROVE FlowTyped'
  BY <1>2, <1>typ, <1>job, <1>same DEF EnqueueRepair, FlowTyped
<1>3. ASSUME NEW e \in Events, Stall(e) PROVE FlowTyped'
  <2>1. job[e] \in JobType /\ Stalled(job[e]) \in JobType
    BY <1>typ, <1>job DEF Stalled, JobType
  <2>2. job' \in [Events -> JobType]
    BY <1>3, <1>typ, <2>1 DEF Stall
  <2>3. TypeOK'
    BY <1>3, <1>typ, BudgetTyped DEF Stall, TypeOK
  <2> QED BY <1>3, <1>typ, <2>2, <2>3 DEF Stall, FlowTyped
<1>4. ASSUME NEW e \in Events, NEW w \in Workers, TakeJob(w, e) PROVE FlowTyped'
  <2>1. job' \in [Events -> JobType]
    BY <1>4, <1>typ DEF TakeJob, JobType
  <2>2. TypeOK'
    <3>1. Forced(e) \in BOOLEAN
      BY <1>typ DEF Forced, JobType
    <3> QED BY <1>4, <1>typ, <1>same, <3>1, FireTyped DEF TakeJob
  <2> QED BY <1>4, <1>typ, <2>1, <2>2 DEF TakeJob, FlowTyped
<1>5. ASSUME NEW w \in Workers, EngineStep(w) \/ EngineFault(w) PROVE FlowTyped'
  BY <1>5, <1>typ, EngineTyped DEF EngineStep, EngineFault, flow, FlowTyped
<1>6. ASSUME NEW w \in Workers, Judge(w) PROVE FlowTyped'
  <2> DEFINE said == IF At(w, "threw") THEN "failed"
                     ELSE IF wk[w].out = "no_matching_rule" THEN Recovered(wk[w].ev)
                     ELSE wk[w].out
  <2>1. said \in Said
    BY <1>typ DEF Recovered, Said, Outs, CallType
  <2>2. verdict' = [verdict EXCEPT ![w] = said]
    BY <1>6 DEF Judge
  <2> HIDE DEF said
  <2> QED BY <1>6, <1>typ, <1>same, <2>1, <2>2 DEF Judge, FlowTyped
<1>7. ASSUME NEW w \in Workers, Store(w) PROVE FlowTyped'
  <2>1. eval' \in [Events -> Said] /\ verdict' \in [Workers -> Said]
    BY <1>7, <1>typ DEF Store, Said
  <2>2. job' \in [Events -> JobType]
    BY <1>7, <1>typ, EndJobTyped DEF Store
  <2>3. TypeOK'
    BY <1>7, <1>typ, ForgetTyped DEF Store, engine, TypeOK
  <2> QED BY <1>7, <1>typ, <2>1, <2>2, <2>3 DEF Store, FlowTyped
<1>8. ASSUME NEW w \in Workers, StoreFails(w) PROVE FlowTyped'
  <2>1. verdict' \in [Workers -> Said] /\ unstored' \in BOOLEAN /\ eval' = eval
    BY <1>8, <1>typ DEF StoreFails, Said
  <2>2. job' \in [Events -> JobType]
    BY <1>8, <1>typ, EndJobTyped DEF StoreFails
  <2>3. TypeOK'
    BY <1>8, <1>typ, ForgetTyped, BudgetTyped DEF StoreFails, TypeOK
  <2> QED BY <1>typ, <2>1, <2>2, <2>3 DEF FlowTyped
<1>9. ASSUME NEW w \in Workers, Die(w) PROVE FlowTyped'
  <2>1. verdict' \in [Workers -> Said] /\ UNCHANGED <<eval, unstored>>
    BY <1>9, <1>typ DEF Die, Said
  <2>2. wk[w].ev \in Events /\ job[wk[w].ev] \in JobType
    BY <1>typ DEF CallType
  <2>3. Stalled(job[wk[w].ev]) \in JobType
    BY <2>2, <1>job DEF Stalled, JobType
  <2>4. job' \in [Events -> JobType]
    BY <1>9, <1>typ, <2>2, <2>3 DEF Die
  <2>5. TypeOK'
    BY <1>9, <1>typ, EngineTyped DEF Die
  <2> QED BY <1>typ, <2>1, <2>4, <2>5 DEF FlowTyped
<1>10. ASSUME UNCHANGED allVars PROVE FlowTyped'
  BY <1>10, <1>typ, <1>same DEF allVars, flow, FlowTyped
<1>11. ASSUME FlowNext PROVE FlowTyped'
  BY <1>11, <1>1, <1>2, <1>3, <1>4, <1>5, <1>6, <1>7, <1>8, <1>9 DEF FlowNext, WorkerStep
<1> QED BY <1>10, <1>11

-----------------------------------------------------------------------------
(* Rows, tasks and what is said of them *)

\* A step of call w: the others, their rows and their tasks stay.
OwnRow(w) ==
    /\ \A v \in Workers : v # w => wk'[v] = wk[v]
    /\ task \subseteq task'
    /\ \A e \in Events, r \in Rules, a \in ActionIds : <<e, r, a>> \in task' =>
           \/ <<e, r, a>> \in task
           \/ /\ e = wk[w].ev /\ r = wk[w].r /\ wk[w].pc = "act"
              /\ a = wk[w].a /\ a \in 1 .. Len(Kind[r]) /\ Kind[r][a] = "task"
    /\ \A e \in Events, r \in Rules : exec'[e][r] # exec[e][r] =>
           /\ e = wk[w].ev /\ r = wk[w].r /\ wk[w].pc \in {"claim"} \cup Working
           /\ exec'[e][r].status # "none" /\ exec'[e][r].tasks \subseteq wk[w].got

\* A step about one call: what remains is what that call rests on.
LEMMA GroundKeeps ==
  ASSUME TypeOK, Grounded, NEW w \in Workers, OwnRow(w), GroundCall(w)'
  PROVE  Grounded'
<1>typ. wk[w].ev \in Events /\ wk[w].r \in Rules
  BY DEF TypeOK, CallType
<1>call. GroundCall(w)
  BY DEF Grounded
<1>1. \A e \in Events, r \in Rules : exec'[e][r].status = "none" => exec[e][r].status = "none"
  BY DEF OwnRow
<1>2. ASSUME NEW e \in Events, NEW r \in Rules, NEW a \in ActionIds, <<e, r, a>> \in task'
      PROVE  a \in 1 .. Len(Kind[r]) /\ Kind[r][a] = "task" /\ exec'[e][r].status # "none"
  <2>1. CASE <<e, r, a>> \in task
    BY <2>1, <1>1 DEF Grounded
  <2>2. CASE <<e, r, a>> \notin task
    BY <1>2, <2>2, <1>call, <1>1 DEF OwnRow, GroundCall, Working
  <2> QED BY <2>1, <2>2
<1>3. ASSUME NEW e \in Events, NEW r \in Rules
      PROVE  /\ exec'[e][r].status # "none" => <<e, r>> \in Matches
             /\ \A a \in exec'[e][r].tasks : <<e, r, a>> \in task'
  <2>1. CASE exec'[e][r] = exec[e][r]
    BY <2>1 DEF Grounded, OwnRow
  <2>2. CASE exec'[e][r] # exec[e][r]
    BY <2>2, <1>call DEF OwnRow, GroundCall
  <2> QED BY <2>1, <2>2
<1>4. ASSUME NEW v \in Workers, v # w PROVE GroundCall(v)'
  <2>1. wk'[v] = wk[v] /\ GroundCall(v) /\ wk[v].ev \in Events /\ wk[v].r \in Rules
    BY <1>4 DEF OwnRow, Grounded, TypeOK, CallType
  <2> QED BY <2>1, <1>1 DEF GroundCall, OwnRow
<1> QED BY <1>2, <1>3, <1>4 DEF Grounded

\* The same for its answer, as tasks do not go.
LEMMA TruthKeeps ==
  ASSUME Truthful, NEW w \in Workers, task \subseteq task', TruthCall(w)',
         \A v \in Workers : v # w => wk'[v] = wk[v] /\ verdict'[v] = verdict[v],
         \A e \in Events : eval'[e] = "task_created" => eval[e] = "task_created" \/ Tasked(e)
  PROVE  Truthful'
<1>1. \A e : Tasked(e) => Tasked(e)'
  BY DEF Tasked, HasTask
<1>2. ASSUME NEW v \in Workers, v # w PROVE TruthCall(v)'
  BY <1>1, <1>2 DEF Truthful, TruthCall
<1>3. \A e \in Events : eval'[e] = "task_created" => Tasked(e)'
  BY <1>1 DEF Truthful
<1> QED BY <1>2, <1>3 DEF Truthful

\* A call that leaves its rule.
LEMMA LeaveSays ==
  ASSUME TypeOK, NEW w \in Workers, NEW stop, NEW out, Leave(w, stop, out)
  PROVE  /\ \A v \in Workers : v # w => wk'[v] = wk[v]
         /\ wk'[w].pc = IF stop \/ wk[w].r = NumRules THEN "returned" ELSE "rule"
         /\ wk'[w].r = IF stop \/ wk[w].r = NumRules THEN wk[w].r ELSE wk[w].r + 1
         /\ wk'[w].ev = wk[w].ev /\ wk'[w].got = {} /\ wk'[w].force = wk[w].force
         /\ wk'[w].out = Stronger(wk[w].out, out)
         /\ wk'[w].pc \in {"returned", "rule"}
BY DEF Leave, IdleCall, TypeOK, CallType

\* Such a call keeps the invariants if its answer is true.
LEMMA LeaveGround ==
  ASSUME TypeOK, Grounded, Truthful, NEW w \in Workers, NEW stop, NEW out, Leave(w, stop, out),
         task' = task, UNCHANGED <<eval, verdict>>, wk[w].pc \notin {"returned", "threw"},
         \A e \in Events, r \in Rules : exec'[e][r] # exec[e][r] =>
             /\ e = wk[w].ev /\ r = wk[w].r /\ wk[w].pc \in {"claim"} \cup Working
             /\ exec'[e][r].status # "none" /\ exec'[e][r].tasks \subseteq wk[w].got,
         out = "task_created" => Tasked(wk[w].ev)
  PROVE  Grounded' /\ Truthful'
<1>1. /\ \A v \in Workers : v # w => wk'[v] = wk[v]
      /\ wk'[w].pc \in {"returned", "rule"} /\ wk'[w].got = {} /\ wk'[w].ev = wk[w].ev
      /\ wk'[w].out = Stronger(wk[w].out, out)
  BY LeaveSays
<1>2. GroundCall(w)'
  BY <1>1 DEF GroundCall, Working
<1>3. OwnRow(w)
  BY <1>1 DEF OwnRow
<1>4. Tasked(wk[w].ev)' = Tasked(wk[w].ev)
  BY <1>1 DEF Tasked, HasTask
<1>5. TruthCall(w)'
  <2>1. TruthCall(w) /\ verdict[w] = "none"
    BY DEF Truthful, TruthCall
  <2>2. wk'[w].out = "task_created" => wk[w].out = "task_created" \/ out = "task_created"
    BY <1>1 DEF Stronger
  <2> QED BY <1>1, <1>4, <2>1, <2>2 DEF TruthCall
<1> QED BY <1>1, <1>2, <1>3, <1>5, GroundKeeps, TruthKeeps

\* A step within the rule, or out of it by an error.
LEMMA MoveGround ==
  ASSUME TypeOK, Grounded, Truthful, NEW w \in Workers, OwnRow(w), UNCHANGED <<eval, verdict>>,
         wk[w].pc \notin {"returned", "threw"},
         wk'[w].ev = wk[w].ev, wk'[w].r = wk[w].r, wk'[w].out = wk[w].out,
         GroundCall(w)'
  PROVE  Grounded' /\ Truthful'
<1>1. TruthCall(w) /\ verdict[w] = "none"
  BY DEF Truthful, TruthCall
<1>2. Tasked(wk[w].ev) => Tasked(wk[w].ev)'
  BY DEF Tasked, HasTask, OwnRow
<1>3. TruthCall(w)'
  BY <1>1, <1>2 DEF TruthCall
<1> QED BY <1>3, GroundKeeps, TruthKeeps DEF OwnRow

\* What a step within the rule leaves alone.
Within(w) ==
    /\ \A v \in Workers : v # w => wk'[v] = wk[v]
    /\ wk'[w].ev = wk[w].ev /\ wk'[w].r = wk[w].r /\ wk'[w].out = wk[w].out
    /\ wk'[w].force = wk[w].force

\* A step within a rule that only moves the call on.
LEMMA GotoWithin ==
  ASSUME TypeOK, NEW w \in Workers, NEW pc, Goto(w, pc)
  PROVE  Within(w) /\ wk'[w].pc = pc /\ wk'[w].got = wk[w].got /\ wk'[w].a = wk[w].a
         /\ wk'[w].old = wk[w].old
BY DEF Goto, Within, TypeOK, CallType

\* An action that was applied.
LEMMA AppliedWithin ==
  ASSUME TypeOK, NEW w \in Workers, NEW got, Applied(w, got)
  PROVE  Within(w) /\ wk'[w].pc = wk[w].pc /\ wk'[w].got = wk[w].got \cup got
         /\ wk'[w].a = wk[w].a + 1
BY DEF Applied, Within, TypeOK, CallType

\* An action that was skipped.
LEMMA SkipWithin ==
  ASSUME TypeOK, NEW w \in Workers, SkipAction(w)
  PROVE  Within(w) /\ wk'[w].pc = wk[w].pc /\ wk'[w].got = wk[w].got
         /\ wk'[w].a = wk[w].a + 1
BY DEF SkipAction, Within, TypeOK, CallType

\* A row taken up again.
LEMMA AgainWithin ==
  ASSUME TypeOK, NEW w \in Workers, NEW mode, Again(w, mode)
  PROVE  Within(w) /\ wk'[w].pc = "cool" /\ wk'[w].got = wk[w].got /\ wk'[w].a = wk[w].a
<1>1. wk' = [wk EXCEPT ![w] = [wk[w] EXCEPT !.pc = "cool", !.mode = mode]]
  BY DEF Again
<1> QED BY <1>1 DEF Within, TypeOK, CallType

\* Conditions that hold.
LEMMA MatchWithin ==
  ASSUME TypeOK, NEW w \in Workers, Match(w)
  PROVE  Within(w) /\ wk'[w].pc = "claim" /\ wk'[w].got = wk[w].got /\ wk'[w].a = wk[w].a
BY DEF Match, Within, TypeOK, CallType

\* The read of a row that was taken.
LEMMA ReadWithin ==
  ASSUME TypeOK, NEW w \in Workers, ReadExisting(w)
  PROVE  Within(w) /\ wk'[w].pc = "stale" /\ wk'[w].got = wk[w].got /\ wk'[w].a = wk[w].a
         /\ wk'[w].old = exec[wk[w].ev][wk[w].r]
BY DEF ReadExisting, Within, TypeOK, CallType

\* The read of the cooldown.
LEMMA CheckWithin ==
  ASSUME TypeOK, NEW w \in Workers, CheckCooldown(w)
  PROVE  Within(w) /\ wk'[w].pc \in {"suppress", "shadow", "act"} /\ wk'[w].got = wk[w].got
         /\ wk'[w].a = wk[w].a
<1> DEFINE row == IF Limited(w) THEN cool[wk[w].r][CustomerAt(w)] ELSE NoRow
           blocked == Limited(w) /\ ~Expired(row, wk[w].at) /\ Exhausted(wk[w].r, row)
           pc == IF blocked /\ wk[w].mode # "recover" THEN "suppress"
                 ELSE IF wk[w].r \in Shadow THEN "shadow" ELSE "act"
<1>1. wk' = [wk EXCEPT ![w] = [wk[w] EXCEPT !.seen = row, !.pc = pc]]
  BY DEF CheckCooldown
<1>2. pc \in {"suppress", "shadow", "act"}
  OBVIOUS
<1> HIDE DEF row, pc
<1> QED BY <1>1, <1>2 DEF Within, TypeOK, CallType

\* completeExecution, row by row.
LEMMA WriteRow ==
  ASSUME TypeOK, NEW w \in Workers, NEW s, NEW ts, Write(w, s, ts)
  PROVE  /\ exec'[wk[w].ev][wk[w].r] = Row(s, ts)
         /\ \A e \in Events, r \in Rules : e # wk[w].ev \/ r # wk[w].r => exec'[e][r] = exec[e][r]
         /\ Row(s, ts).status = s /\ Row(s, ts).tasks = ts
BY DEF Write, Row, TypeOK, CallType

\* The steps of fireTrigger keep rows, tasks and answers in agreement.
LEMMA EngineGround ==
  ASSUME Volatile = {}, FlowTyped, Grounded, Truthful, UNCHANGED <<eval, verdict>>,
         NEW w \in Workers, RunStep(w) \/ FailAction(w) \/ Throw(w)
  PROVE  Grounded' /\ Truthful'
<1> DEFINE Good == Grounded' /\ Truthful'
<1>typ. /\ TypeOK /\ wk \in [Workers -> CallType] /\ wk[w].ev \in Events /\ wk[w].r \in Rules
        /\ wk[w].got \subseteq ActionIds /\ exec \in [Events -> [Rules -> ExecType]]
        /\ wk[w].a \in Nat \ {0} /\ Len(Kind[wk[w].r]) \in Nat
        /\ wk[w].old.tasks \subseteq ActionIds
  BY EngineAssumption DEF FlowTyped, TypeOK, CallType, ExecType
<1>call. GroundCall(w)
  BY DEF Grounded
<1>got. wk[w].got # {} => Tasked(wk[w].ev)
  BY <1>typ, <1>call DEF GroundCall, Tasked, HasTask
<1>still. ASSUME UNCHANGED <<exec, task>>, Within(w), wk[w].pc \notin {"returned", "threw"},
                 GroundCall(w)'
          PROVE  Good
  <2>1. OwnRow(w)
    BY <1>still DEF OwnRow, Within
  <2> QED BY <2>1, <1>still, <1>typ, MoveGround DEF Within
<1>leave. ASSUME NEW stop, NEW out, Leave(w, stop, out), UNCHANGED <<exec, task>>,
                 wk[w].pc \notin {"returned", "threw"},
                 out = "task_created" => Tasked(wk[w].ev)
          PROVE  Good
  BY <1>leave, <1>typ, LeaveGround
<1>end. ASSUME NEW stop, NEW out, NEW s, NEW ts, Leave(w, stop, out), Write(w, s, ts),
               task' = task, wk[w].pc \in Working, s # "none", ts \subseteq wk[w].got,
               out = "task_created" => Tasked(wk[w].ev)
        PROVE  Good
  <2>1. \A e \in Events, r \in Rules : exec'[e][r] # exec[e][r] =>
             /\ e = wk[w].ev /\ r = wk[w].r
             /\ exec'[e][r].status # "none" /\ exec'[e][r].tasks \subseteq wk[w].got
    BY <1>end, <1>typ, WriteRow
  <2> QED BY <2>1, <1>end, <1>typ, LeaveGround DEF Working
<1>1. ASSUME Mismatch(w) PROVE Good
  BY <1>1, <1>leave DEF Mismatch, At
<1>2. ASSUME Match(w) PROVE Good
  <2>1. Within(w) /\ wk'[w].pc = "claim" /\ wk'[w].got = wk[w].got
    BY <1>2, <1>typ, MatchWithin
  <2>2. <<wk[w].ev, wk[w].r>> \in Matches /\ UNCHANGED <<exec, task>> /\ wk[w].pc = "rule"
    BY <1>2 DEF Match, At
  <2>3. GroundCall(w)'
    BY <2>1, <2>2, <1>call DEF GroundCall, Working, Within
  <2> QED BY <2>1, <2>2, <2>3, <1>still
<1>3. ASSUME Claim(w) PROVE Good
  <2>1. wk[w].pc = "claim" /\ task' = task
    BY <1>3 DEF Claim, At
  <2>2. CASE Unclaimed(wk[w].ev, wk[w].r)
    <3>1. Write(w, "started", {}) /\ Goto(w, "cool")
      BY <1>3, <2>2 DEF Claim, Write
    <3>2. Within(w) /\ wk'[w].pc = "cool" /\ wk'[w].got = wk[w].got
      BY <3>1, <1>typ, GotoWithin
    <3>3. /\ exec'[wk[w].ev][wk[w].r].status = "started"
          /\ exec'[wk[w].ev][wk[w].r].tasks = {}
          /\ \A e \in Events, r \in Rules : e # wk[w].ev \/ r # wk[w].r => exec'[e][r] = exec[e][r]
      BY <3>1, <1>typ, WriteRow
    <3>4. OwnRow(w)
      BY <2>1, <3>2, <3>3 DEF OwnRow, Within
    <3>5. GroundCall(w)'
      BY <1>call, <2>1, <3>2, <3>3 DEF GroundCall, Within
    <3> QED BY <2>1, <3>2, <3>4, <3>5, <1>typ, MoveGround DEF Within
  <2>3. CASE ~Unclaimed(wk[w].ev, wk[w].r)
    <3>1. Goto(w, "existing") /\ UNCHANGED exec
      BY <1>3, <2>3 DEF Claim
    <3>2. Within(w) /\ wk'[w].pc = "existing" /\ wk'[w].got = wk[w].got
      BY <3>1, <1>typ, GotoWithin
    <3>3. GroundCall(w)'
      BY <1>call, <2>1, <2>3, <3>1, <3>2 DEF GroundCall, Within, Working, Unclaimed
    <3> QED BY <2>1, <3>1, <3>2, <3>3, <1>still
  <2> QED BY <2>2, <2>3
<1>4. ASSUME ReadExisting(w) PROVE Good
  <2>1. Within(w) /\ wk'[w].pc = "stale" /\ wk'[w].got = wk[w].got
    BY <1>4, <1>typ, ReadWithin
  <2>2. UNCHANGED <<exec, task>> /\ wk[w].pc = "existing"
    BY <1>4 DEF ReadExisting, At
  <2>3. GroundCall(w)'
    BY <2>1, <2>2, <1>call DEF GroundCall, Working, Within
  <2> QED BY <2>1, <2>2, <2>3, <1>still
<1>5. ASSUME Existing(w) PROVE Good
  <2>1. Tasked(wk[w].ev)
    BY <1>5, <1>typ DEF Existing, Present, Tasked, HasTask
  <2> QED BY <2>1, <1>5, <1>leave DEF Existing, At
<1>6. ASSUME Duplicate(w) PROVE Good
  BY <1>6, <1>leave DEF Duplicate, At
<1>7. ASSUME Recover(w) \/ Replay(w) PROVE Good
  <2>1. PICK mode : Again(w, mode)
    BY <1>7 DEF Recover, Replay
  <2>2. Within(w) /\ wk'[w].pc = "cool" /\ wk'[w].got = wk[w].got
    BY <2>1, <1>typ, AgainWithin
  <2>3. UNCHANGED <<exec, task>> /\ wk[w].pc = "stale"
    BY <1>7 DEF Recover, Replay, At
  <2>4. exec[wk[w].ev][wk[w].r].status # "none"
    BY <1>call, <2>3 DEF GroundCall
  <2>5. GroundCall(w)'
    BY <2>2, <2>3, <2>4, <1>call DEF GroundCall, Working, Within
  <2> QED BY <2>2, <2>3, <2>5, <1>still
<1>8. ASSUME CheckCooldown(w) PROVE Good
  <2>1. Within(w) /\ wk'[w].pc \in {"suppress", "shadow", "act"} /\ wk'[w].got = wk[w].got
    BY <1>8, <1>typ, CheckWithin
  <2>2. UNCHANGED <<exec, task>> /\ wk[w].pc = "cool"
    BY <1>8 DEF CheckCooldown, At
  <2>3. GroundCall(w)'
    BY <2>1, <2>2, <1>call DEF GroundCall, Working, Within
  <2> QED BY <2>1, <2>2, <2>3, <1>still
<1>9. ASSUME Suppress(w) \/ ShadowMatch(w) PROVE Good
  BY <1>9, <1>end DEF Suppress, ShadowMatch, At, Working
<1>10. ASSUME CreateTask(w) PROVE Good
  <2>1. /\ wk[w].pc = "act" /\ wk[w].a \in 1 .. Len(Kind[wk[w].r])
        /\ Kind[wk[w].r][wk[w].a] = "task" /\ exec' = exec
        /\ task' = task \cup {<<wk[w].ev, wk[w].r, wk[w].a>>} /\ Applied(w, {wk[w].a})
    BY <1>10, <1>typ DEF CreateTask, Does, At, ActionsDone, Key
  <2>2. Within(w) /\ wk'[w].pc = "act" /\ wk'[w].got = wk[w].got \cup {wk[w].a}
    BY <2>1, <1>typ, AppliedWithin
  <2>3. OwnRow(w)
    BY <2>1, <2>2 DEF OwnRow, Within
  <2>4. GroundCall(w)'
    BY <2>1, <2>2, <1>call DEF GroundCall, Within, Working
  <2> QED BY <2>1, <2>2, <2>3, <2>4, <1>typ, MoveGround DEF Within
<1>11. ASSUME SkipTask(w) \/ WriteNote(w) \/ SkipNote(w) PROVE Good
  <2>1. wk[w].pc = "act" /\ UNCHANGED <<exec, task>> /\ (SkipAction(w) \/ Applied(w, {}))
    BY <1>11 DEF SkipTask, WriteNote, SkipNote, Does, At
  <2>a. Applied(w, {}) => Within(w) /\ wk'[w].pc = "act" /\ wk'[w].got = wk[w].got \cup {}
    BY <2>1, <1>typ, AppliedWithin
  <2>b. SkipAction(w) => Within(w) /\ wk'[w].pc = "act" /\ wk'[w].got = wk[w].got
    BY <2>1, <1>typ, SkipWithin
  <2>2. Within(w) /\ wk'[w].pc = "act" /\ wk'[w].got = wk[w].got
    BY <2>1, <2>a, <2>b
  <2>3. GroundCall(w)'
    BY <2>1, <2>2, <1>call DEF GroundCall, Within, Working
  <2> QED BY <2>1, <2>2, <2>3, <1>still
<1>12. ASSUME Complete(w) PROVE Good
  <2>1. wk[w].pc = "act" /\ task' = task /\ Write(w, ResultStatus(w), wk[w].got)
    BY <1>12 DEF Complete, At
  <2>2. CASE Counts(w) /\ Limited(w)
    <3>1. Within(w) /\ wk'[w].pc = "record" /\ wk'[w].got = wk[w].got
      BY <1>12, <2>2, <1>typ, GotoWithin DEF Complete
    <3>2. ResultStatus(w) # "none"
      BY DEF ResultStatus
    <3>3. /\ exec'[wk[w].ev][wk[w].r].status = ResultStatus(w)
          /\ exec'[wk[w].ev][wk[w].r].tasks = wk[w].got
          /\ \A e \in Events, r \in Rules : e # wk[w].ev \/ r # wk[w].r => exec'[e][r] = exec[e][r]
      BY <2>1, <1>typ, WriteRow
    <3>4. OwnRow(w)
      BY <2>1, <3>1, <3>2, <3>3 DEF OwnRow, Within, Working
    <3>5. GroundCall(w)'
      BY <1>call, <2>1, <3>1, <3>2, <3>3 DEF GroundCall, Within, Working
    <3> QED BY <2>1, <3>1, <3>4, <3>5, <1>typ, MoveGround DEF Within
  <2>3. CASE ~(Counts(w) /\ Limited(w))
    <3>1. Leave(w, Stops(wk[w].r) /\ wk[w].applied, Out(w))
      BY <1>12, <2>3 DEF Complete
    <3>2. ResultStatus(w) # "none" /\ (Out(w) = "task_created" => Tasked(wk[w].ev))
      BY <1>got DEF ResultStatus, Out
    <3> QED BY <2>1, <3>1, <3>2, <1>end DEF Working
  <2> QED BY <2>2, <2>3
<1>13. ASSUME RecordFire(w) PROVE Good
  <2>1. Out(w) = "task_created" => Tasked(wk[w].ev)
    BY <1>got DEF Out
  <2> QED BY <2>1, <1>13, <1>leave DEF RecordFire, At
<1>14. ASSUME RecordFailure(w) PROVE Good
  <2>1. wk[w].pc = "failed" /\ task' = task /\ Write(w, "failed", wk[w].got)
    BY <1>14 DEF RecordFailure, At
  <2>2. Within(w) /\ wk'[w].pc = "threw" /\ wk'[w].got = wk[w].got
    BY <1>14, <1>typ, GotoWithin DEF RecordFailure
  <2>3. OwnRow(w)
    BY <2>1, <2>2, <1>typ, WriteRow DEF OwnRow, Within, Working
  <2>4. GroundCall(w)'
    BY <1>call, <2>1, <2>2 DEF GroundCall, Within, Working
  <2> QED BY <2>1, <2>2, <2>3, <2>4, <1>typ, MoveGround DEF Within
<1>15. ASSUME FailAction(w) PROVE Good
  <2>1. /\ wk[w].pc = "act" /\ exec' = exec /\ Goto(w, "failed")
        /\ \/ task' = task
           \/ /\ wk[w].a \in 1 .. Len(Kind[wk[w].r]) /\ Kind[wk[w].r][wk[w].a] = "task"
              /\ task' = task \cup {<<wk[w].ev, wk[w].r, wk[w].a>>}
    BY <1>15, <1>typ DEF FailAction, Does, At, ActionsDone, Key
  <2>2. Within(w) /\ wk'[w].pc = "failed" /\ wk'[w].got = wk[w].got
    BY <2>1, <1>typ, GotoWithin
  <2>3. OwnRow(w)
    BY <2>1, <2>2 DEF OwnRow, Within
  <2>4. GroundCall(w)'
    BY <2>1, <2>2, <1>call DEF GroundCall, Within, Working
  <2> QED BY <2>1, <2>2, <2>3, <2>4, <1>typ, MoveGround DEF Within
<1>16. ASSUME Throw(w) PROVE Good
  <2>1. wk[w].pc \notin {"returned", "threw"} /\ UNCHANGED <<exec, task>> /\ Goto(w, "threw")
    BY <1>16 DEF Throw, QueryPC, At
  <2>2. Within(w) /\ wk'[w].pc = "threw" /\ wk'[w].got = wk[w].got
    BY <2>1, <1>typ, GotoWithin
  <2>3. GroundCall(w)'
    BY <2>1, <2>2, <1>call DEF GroundCall, Within, Working
  <2> QED BY <2>1, <2>2, <2>3, <1>still
<1> HIDE DEF Good
<1>17. Good
  BY <1>1, <1>2, <1>3, <1>4, <1>5, <1>6, <1>7, <1>8, <1>9, <1>10, <1>11, <1>12, <1>13, <1>14,
     <1>15, <1>16 DEF RunStep
<1> QED BY <1>17 DEF Good

\* A call without a stored answer to give: nothing to say of it.
LEMMA GroundAway ==
  ASSUME NEW w \in Workers, wk'[w].pc \notin {"claim", "existing", "stale"} \cup Working,
         wk'[w].got = {}
  PROVE  GroundCall(w)'
BY DEF GroundCall

\* The resolver's steps keep rows, tasks and answers in agreement.
LEMMA FlowGround ==
  ASSUME Volatile = {}, FlowTyped, Grounded, Truthful, [FlowNext]_allVars
  PROVE  Grounded' /\ Truthful'
<1> DEFINE Good == Grounded' /\ Truthful'
<1>typ. /\ TypeOK /\ wk \in [Workers -> CallType] /\ verdict \in [Workers -> Said]
        /\ eval \in [Events -> Said]
  BY DEF FlowTyped, TypeOK
<1>same. ASSUME UNCHANGED <<exec, task, wk, eval, verdict>> PROVE Good
  <2>1. \A e : Tasked(e)' = Tasked(e)
    BY <1>same DEF Tasked, HasTask
  <2>2. Truthful'
    BY <1>same, <2>1 DEF Truthful, TruthCall
  <2>3. \A w \in Workers : GroundCall(w)'
    BY <1>same DEF Grounded, GroundCall
  <2> QED BY <1>same, <2>2, <2>3 DEF Grounded
<1>forget. ASSUME NEW w \in Workers, Forget(w), UNCHANGED <<exec, task>>,
                  verdict' = [verdict EXCEPT ![w] = "none"],
                  \A e \in Events : eval'[e] = "task_created" =>
                      eval[e] = "task_created" \/ Tasked(e)
           PROVE  Good
  <2>1. /\ wk'[w].pc = "idle" /\ wk'[w].got = {} /\ wk'[w].out = "no_matching_rule"
        /\ \A v \in Workers : v # w => wk'[v] = wk[v] /\ verdict'[v] = verdict[v]
        /\ verdict'[w] = "none"
    BY <1>forget, <1>typ DEF Forget, IdleCall
  <2>2. GroundCall(w)' /\ OwnRow(w)
    BY <1>forget, <2>1, GroundAway DEF Working, OwnRow
  <2>3. TruthCall(w)'
    BY <2>1 DEF TruthCall
  <2> QED BY <1>forget, <1>typ, <2>1, <2>2, <2>3, GroundKeeps, TruthKeeps
<1>1. ASSUME NEW e \in Events, Enqueue(e) \/ EnqueueRepair(e) \/ Stall(e) PROVE Good
  BY <1>1, <1>same DEF Enqueue, EnqueueRepair, Stall, vars
<1>2. ASSUME NEW e \in Events, NEW w \in Workers, TakeJob(w, e) PROVE Good
  <2>1. CASE UNCHANGED vars
    BY <1>2, <2>1, <1>same DEF TakeJob, vars
  <2>2. CASE ~UNCHANGED vars
    <3>1. Fire(w, e, Forced(e)) /\ UNCHANGED <<eval, verdict>>
      BY <1>2, <2>2 DEF TakeJob
    <3>2. /\ wk[w].pc = "idle" /\ UNCHANGED <<exec, task>>
          /\ wk'[w].pc = "rule" /\ wk'[w].got = {} /\ wk'[w].out = "no_matching_rule"
          /\ \A v \in Workers : v # w => wk'[v] = wk[v]
      BY <3>1, <1>typ DEF Fire, IdleCall, At
    <3>3. GroundCall(w)' /\ OwnRow(w)
      BY <3>2, GroundAway DEF Working, OwnRow
    <3>4. TruthCall(w)'
      BY <3>1, <3>2 DEF TruthCall, Truthful
    <3> QED BY <3>1, <3>2, <3>3, <3>4, <1>typ, GroundKeeps, TruthKeeps
  <2> QED BY <2>1, <2>2
<1>3. ASSUME NEW w \in Workers, EngineStep(w) \/ EngineFault(w) PROVE Good
  BY <1>3, EngineGround DEF EngineStep, EngineFault, flow
<1>4. ASSUME NEW w \in Workers, Judge(w) PROVE Good
  <2> DEFINE said == IF At(w, "threw") THEN "failed"
                     ELSE IF wk[w].out = "no_matching_rule" THEN Recovered(wk[w].ev)
                     ELSE wk[w].out
  <2>1. /\ UNCHANGED <<exec, task, wk, eval>> /\ wk[w].pc \in {"returned", "threw"}
        /\ verdict' = [verdict EXCEPT ![w] = said]
    BY <1>4 DEF Judge, vars
  <2>2. \A e : Tasked(e)' = Tasked(e)
    BY <2>1 DEF Tasked, HasTask
  <2>ev. wk[w].ev \in Events /\ wk[w].out \in Outs
    BY <1>typ DEF CallType
  <2>3. said = "task_created" => Tasked(wk[w].ev)
    <3>1. Recovered(wk[w].ev) = "task_created" => Tasked(wk[w].ev)
      <4>1. Recovered(wk[w].ev) = "task_created" =>
              \E r \in Rules : exec[wk[w].ev][r].tasks # {}
        BY DEF Recovered, Answered
      <4>2. \A r \in Rules : exec[wk[w].ev][r].tasks \subseteq ActionIds
        BY <2>ev, <1>typ DEF TypeOK, ExecType
      <4> QED BY <4>1, <4>2, <2>ev DEF Grounded, Tasked, HasTask
    <3>2. wk[w].out = "task_created" => Tasked(wk[w].ev)
      BY DEF Truthful, TruthCall
    <3> QED BY <3>1, <3>2
  <2>4. said = "failed" <=> wk[w].pc = "threw"
    <3>1. Recovered(wk[w].ev) # "failed" /\ wk[w].out # "failed"
      BY <2>ev DEF Recovered, Outs
    <3> QED BY <3>1 DEF At
  <2> HIDE DEF said
  <2>5. verdict'[w] = said /\ \A v \in Workers : v # w => verdict'[v] = verdict[v]
    BY <2>1, <1>typ
  <2>6. TruthCall(w)'
    BY <2>1, <2>2, <2>3, <2>4, <2>5 DEF Truthful, TruthCall
  <2>7. Truthful'
    BY <2>1, <2>5, <2>6, TruthKeeps
  <2>8. \A v \in Workers : GroundCall(v)'
    BY <2>1 DEF Grounded, GroundCall
  <2> QED BY <2>1, <2>7, <2>8 DEF Grounded
<1>5. ASSUME NEW w \in Workers, Store(w) PROVE Good
  <2>1. verdict[w] = "task_created" => Tasked(wk[w].ev)
    BY DEF Truthful, TruthCall
  <2>2. \A e \in Events : eval'[e] = "task_created" => eval[e] = "task_created" \/ Tasked(e)
    BY <1>5, <1>typ, <2>1 DEF Store
  <2> QED BY <1>5, <2>2, <1>forget DEF Store, engine
<1>6. ASSUME NEW w \in Workers, StoreFails(w) PROVE Good
  BY <1>6, <1>forget DEF StoreFails
<1>7. ASSUME NEW w \in Workers, Die(w) PROVE Good
  BY <1>7, <1>forget DEF Die, Crash
<1>8. ASSUME UNCHANGED allVars PROVE Good
  BY <1>8, <1>same DEF allVars, vars, flow
<1>9. ASSUME FlowNext PROVE Good
  BY <1>9, <1>1, <1>2, <1>3, <1>4, <1>5, <1>6, <1>7 DEF FlowNext, WorkerStep
<1> QED BY <1>8, <1>9

-----------------------------------------------------------------------------
(* What the job, the stored evaluation and the rows say of each other *)

\* A row that was not left in the middle, and hides no task.
Tidy(e, r) ==
    /\ exec[e][r].status # "started"
    /\ exec[e][r].status \in {"none", "skipped"} => ~HasTask(e, r)
Clean(e) == \A r \in Rules : exec[e][r].status \in {"none", "skipped"} /\ ~HasTask(e, r)
Open == {"none", "no_matching_rule"}

\* The job of an event and what is stored of it go together.
JobTold(e) ==
    /\ job[e].state = "none" => eval[e] = "none"
    /\ job[e].state \in {"waiting", "active"} =>
           /\ eval[e] \in Open \cup {"failed"}
           /\ ~job[e].repair => eval[e] # "no_matching_rule"
    /\ job[e].state # "active" /\ eval[e] \in Open => \A r \in Rules : Tidy(e, r)
    /\ job[e].state = "done" /\ eval[e] = "no_matching_rule" => Clean(e)

\* The rows a call has behind it, and those it does not work on unless it repairs
\* a failed run.
OnRow == {"cool", "suppress", "shadow", "act"}
Behind(w) ==
    wk[w].pc \notin {"threw", "failed"} => \A r \in Rules :
        \/ r < wk[w].r
        \/ r = wk[w].r /\ wk[w].pc \in {"returned", "record"}
        \/ eval[wk[w].ev] \in Open /\ (r # wk[w].r \/ wk[w].pc \notin OnRow)
        => Tidy(wk[w].ev, r)

\* The row a call works on.
RowTold(w) ==
    /\ wk[w].pc \in {"rule", "claim", "existing", "stale"} => wk[w].a = 1
    /\ wk[w].pc \in OnRow => \A a \in ActionIds :
           <<wk[w].ev, wk[w].r, a>> \in task /\ a < wk[w].a => a \in wk[w].got
    /\ wk[w].pc = "stale" => wk[w].old = exec[wk[w].ev][wk[w].r]
    /\ wk[w].pc = "record" => wk[w].applied

\* The call runs its event's job, and answers truly.
CallTold(w) ==
    /\ job[wk[w].ev].state = "active" /\ job[wk[w].ev].owner = w
    /\ ~wk[w].force => eval[wk[w].ev] = "none"
    /\ RowTold(w)
    /\ Behind(w)
    /\ wk[w].pc = "returned" /\ wk[w].out = "no_matching_rule" =>
           eval[wk[w].ev] \in Open \/ wk[w].r = NumRules
    /\ verdict[w] = "no_matching_rule" => Clean(wk[w].ev)

Told ==
    /\ budget.crashes <= MaxCrashes
    /\ Undisturbed => /\ \A e \in Events : JobTold(e)
                      /\ \A w \in Workers : wk[w].pc # "idle" => CallTold(w)

\* A step of call w changes its own row and tasks, and no lock.
OnlyMine(w) ==
    /\ \A v \in Workers : v # w => wk'[v] = wk[v]
    /\ \A e \in Events, r \in Rules : e # wk[w].ev \/ r # wk[w].r =>
           exec'[e][r] = exec[e][r] /\ \A a \in ActionIds : <<e, r, a>> \in task' <=> <<e, r, a>> \in task
    /\ wk'[w].ev = wk[w].ev

\* A row that a step leaves alone is as tidy as before.
LEMMA TidyKept ==
  ASSUME NEW e, NEW r, exec'[e][r] = exec[e][r],
         \A a \in ActionIds : <<e, r, a>> \in task' <=> <<e, r, a>> \in task
  PROVE  Tidy(e, r)' <=> Tidy(e, r)
<1>1. HasTask(e, r)' <=> HasTask(e, r)
  BY DEF HasTask, ActionIds, Rules
<1> QED BY <1>1 DEF Tidy

\* The jobs whose event the step is not about.
LEMMA JobElsewhere ==
  ASSUME NEW e \in Events, JobTold(e), job'[e] = job[e], eval'[e] = eval[e],
         \A r \in Rules : exec'[e][r] = exec[e][r],
         \A r \in Rules, a \in ActionIds : <<e, r, a>> \in task' <=> <<e, r, a>> \in task
  PROVE  JobTold(e)'
<1>1. \A r \in Rules : Tidy(e, r)' <=> Tidy(e, r)
  BY TidyKept
<1>2. Clean(e)' <=> Clean(e)
  BY DEF Clean, HasTask, ActionIds, Rules
<1>3. (\A r \in Rules : Tidy(e, r))' <=> \A r \in Rules : Tidy(e, r)
  BY <1>1 DEF Rules
<1> QED BY <1>2, <1>3 DEF JobTold, Open

\* The calls of other events.
LEMMA CallElsewhere ==
  ASSUME TypeOK, NEW v \in Workers, CallTold(v), wk'[v] = wk[v], verdict'[v] = verdict[v],
         job'[wk[v].ev] = job[wk[v].ev], eval'[wk[v].ev] = eval[wk[v].ev],
         \A r \in Rules : exec'[wk[v].ev][r] = exec[wk[v].ev][r],
         \A r \in Rules, a \in ActionIds :
             <<wk[v].ev, r, a>> \in task' <=> <<wk[v].ev, r, a>> \in task
  PROVE  CallTold(v)'
<1>typ. wk[v].r \in Rules
  BY DEF TypeOK, CallType
<1>1. \A r \in Rules : Tidy(wk[v].ev, r)' <=> Tidy(wk[v].ev, r)
  BY TidyKept
<1>2. Clean(wk[v].ev)' <=> Clean(wk[v].ev)
  BY DEF Clean, HasTask, ActionIds, Rules
<1>3. Behind(v)'
  BY <1>1 DEF CallTold, Behind, Rules
<1>4. RowTold(v)'
  BY <1>typ DEF CallTold, RowTold, ActionIds, Rules
<1> QED BY <1>2, <1>3, <1>4 DEF CallTold

\* One call at a time has the job of an event.
LEMMA Apart ==
  ASSUME Undisturbed, Told, NEW v \in Workers, NEW w \in Workers, v # w,
         wk[v].pc # "idle", wk[w].pc # "idle"
  PROVE  wk[v].ev # wk[w].ev
BY DEF Told, CallTold

\* A step of one call: what remains is that call.
LEMMA ToldLocal ==
  ASSUME TypeOK, Told, NEW w \in Workers, wk[w].pc # "idle", OnlyMine(w), UNCHANGED flow,
         budget'.crashes = budget.crashes, Undisturbed => CallTold(w)'
  PROVE  Told'
<1>typ. wk[w].ev \in Events /\ wk[w].r \in Rules /\ \A v \in Workers : wk[v].ev \in Events
  BY DEF TypeOK, CallType
<1>1. Undisturbed' <=> Undisturbed
  BY DEF Undisturbed, flow
<1>2. ASSUME Undisturbed, NEW e \in Events PROVE JobTold(e)'
  <2>1. CASE e = wk[w].ev
    BY <1>2, <2>1 DEF Told, CallTold, JobTold, flow
  <2>2. CASE e # wk[w].ev
    BY <1>2, <2>2, JobElsewhere DEF Told, OnlyMine, flow
  <2> QED BY <2>1, <2>2
<1>3. ASSUME Undisturbed, NEW v \in Workers, wk'[v].pc # "idle" PROVE CallTold(v)'
  <2>1. CASE v = w
    BY <1>3, <2>1
  <2>2. CASE v # w
    <3>1. wk'[v] = wk[v] /\ wk[v].pc # "idle" /\ CallTold(v) /\ wk[v].ev # wk[w].ev
      BY <1>3, <2>2, Apart DEF OnlyMine, Told
    <3> QED BY <3>1, <1>typ, CallElsewhere DEF OnlyMine, flow
  <2> QED BY <2>1, <2>2
<1> QED BY <1>1, <1>2, <1>3 DEF Told

\* A call that leaves its rule, whose row is tidy now.
LEMMA LeaveTold ==
  ASSUME TypeOK, Truthful, NEW w \in Workers, NEW stop, NEW out \in Outs, Leave(w, stop, out),
         wk[w].pc \notin {"idle", "returned", "threw", "failed"},
         CallTold(w), OnlyMine(w), UNCHANGED flow,
         NEW e \in Events, NEW q \in Rules, e = wk[w].ev, q = wk[w].r, Tidy(e, q)',
         stop /\ out = "no_matching_rule" => eval[wk[w].ev] \in Open
  PROVE  CallTold(w)'
<1>typ. wk[w].ev \in Events /\ wk[w].r \in 1 .. NumRules /\ NumRules \in Nat
  BY EngineAssumption DEF TypeOK, CallType, Rules
<1>1. /\ wk'[w].pc = IF stop \/ wk[w].r = NumRules THEN "returned" ELSE "rule"
      /\ wk'[w].r = IF stop \/ wk[w].r = NumRules THEN wk[w].r ELSE wk[w].r + 1
      /\ wk'[w].ev = wk[w].ev /\ wk'[w].force = wk[w].force
      /\ wk'[w].out = Stronger(wk[w].out, out)
      /\ wk'[w].pc \in {"returned", "rule"}
  BY LeaveSays
<1>2. wk'[w].a = 1
  BY DEF Leave, IdleCall, TypeOK, CallType
<1>3. verdict[w] = "none" /\ verdict' = verdict /\ eval' = eval /\ job' = job
  BY DEF Truthful, TruthCall, flow
<1>4. \A r \in Rules : r # wk[w].r => (Tidy(e, r)' <=> Tidy(e, r))
  BY <1>typ, TidyKept DEF OnlyMine
<1>5. ASSUME NEW r \in Rules, r < wk'[w].r \/ (r = wk'[w].r /\ wk'[w].pc = "returned")
                              \/ eval[wk[w].ev] \in Open
      PROVE  Tidy(e, r)'
  <2>1. CASE r = wk[w].r
    BY <2>1
  <2>2. CASE r # wk[w].r
    <3>1. r < wk[w].r \/ eval[wk[w].ev] \in Open
      BY <1>5, <1>1, <1>typ, <2>2 DEF Rules
    <3> QED BY <3>1, <2>2, <1>4 DEF CallTold, Behind
  <2> QED BY <2>1, <2>2
<1>6. Behind(w)'
  BY <1>1, <1>3, <1>5 DEF Behind, Open, Rules
<1>7. RowTold(w)'
  BY <1>1, <1>2 DEF RowTold, OnRow
<1>a. wk'[w].out = "no_matching_rule" => out \notin Outs \/ out = "no_matching_rule"
  BY <1>1 DEF Stronger, Outs
<1>8. wk'[w].pc = "returned" /\ wk'[w].out = "no_matching_rule" =>
          eval[wk[w].ev] \in Open \/ wk'[w].r = NumRules
  BY <1>1, <1>a
<1> QED BY <1>1, <1>3, <1>6, <1>7, <1>8 DEF CallTold, Open

\* A step within the rule.
LEMMA MoveTold ==
  ASSUME TypeOK, Truthful, NEW w \in Workers, Within(w), wk[w].pc \notin {"idle", "returned", "threw", "failed"},
         CallTold(w), OnlyMine(w), UNCHANGED flow, RowTold(w)',
         wk'[w].pc \in {"claim", "existing", "stale", "record"} \cup OnRow,
         NEW e \in Events, NEW q \in Rules, e = wk[w].ev, q = wk[w].r,
         \/ wk'[w].pc \in OnRow
         \/ Tidy(e, q)'
         \/ wk'[w].pc # "record" /\ eval[wk[w].ev] \notin Open
  PROVE  CallTold(w)'
<1>typ. wk[w].ev \in Events /\ wk[w].r \in Rules
  BY DEF TypeOK, CallType
<1>1. verdict[w] = "none" /\ verdict' = verdict /\ eval' = eval /\ job' = job
  BY DEF Truthful, TruthCall, flow
<1>2. wk'[w].ev = wk[w].ev /\ wk'[w].r = wk[w].r /\ wk'[w].force = wk[w].force
  BY DEF Within
<1>3. \A r \in Rules : r # wk[w].r => (Tidy(e, r)' <=> Tidy(e, r))
  BY <1>typ, TidyKept DEF OnlyMine
<1>4. ASSUME NEW r \in Rules,
             \/ r < wk[w].r
             \/ r = wk[w].r /\ wk'[w].pc = "record"
             \/ eval[wk[w].ev] \in Open /\ (r # wk[w].r \/ wk'[w].pc \notin OnRow)
      PROVE  Tidy(e, r)'
  <2>1. CASE r = wk[w].r
    <3>1. ~(r < wk[w].r)
      BY <2>1, <1>typ DEF Rules
    <3> QED BY <1>4, <2>1, <3>1 DEF OnRow
  <2>2. CASE r # wk[w].r
    <3>1. r < wk[w].r \/ eval[wk[w].ev] \in Open
      BY <1>4, <2>2
    <3> QED BY <3>1, <2>2, <1>3 DEF CallTold, Behind
  <2> QED BY <2>1, <2>2
<1>5. Behind(w)'
  BY <1>1, <1>2, <1>4 DEF Behind, Open, OnRow, Rules
<1>6. wk'[w].pc # "returned"
  BY DEF OnRow
<1> QED BY <1>1, <1>2, <1>5, <1>6 DEF CallTold, Open

\* An error: nothing is said of the rows any more.
LEMMA FallTold ==
  ASSUME Truthful, NEW w \in Workers, Within(w), wk[w].pc \notin {"idle", "returned", "threw"},
         CallTold(w), UNCHANGED flow, wk'[w].pc \in {"failed", "threw"}
  PROVE  CallTold(w)'
<1>1. verdict[w] = "none" /\ verdict' = verdict /\ eval' = eval /\ job' = job
  BY DEF Truthful, TruthCall, flow
<1>2. RowTold(w)'
  BY DEF RowTold, OnRow
<1>3. Behind(w)'
  BY DEF Behind
<1> QED BY <1>1, <1>2, <1>3 DEF CallTold, Within, Open

\* Every step of fireTrigger is about its own call, row and tasks.
LEMMA EngineMine ==
  ASSUME TypeOK, NEW w \in Workers, RunStep(w) \/ FailAction(w) \/ Throw(w)
  PROVE  OnlyMine(w) /\ wk[w].pc \notin {"idle", "returned", "threw"}
         /\ budget'.crashes = budget.crashes
<1>typ. /\ wk[w].ev \in Events /\ wk[w].r \in Rules
        /\ budget \in [faults : Nat, crashes : Nat, deletes : Nat]
  BY DEF TypeOK, CallType
<1>leave. ASSUME NEW stop, NEW out, Leave(w, stop, out)
          PROVE  wk'[w].ev = wk[w].ev /\ \A v \in Workers : v # w => wk'[v] = wk[v]
  BY <1>leave, LeaveSays
<1>goto. ASSUME NEW pc, Goto(w, pc)
         PROVE  wk'[w].ev = wk[w].ev /\ \A v \in Workers : v # w => wk'[v] = wk[v]
  BY <1>goto, GotoWithin DEF Within
<1>1. wk'[w].ev = wk[w].ev /\ \A v \in Workers : v # w => wk'[v] = wk[v]
  <2>1. ASSUME Mismatch(w) \/ Existing(w) \/ Duplicate(w) \/ Suppress(w) \/ ShadowMatch(w)
               \/ RecordFire(w)
        PROVE  wk'[w].ev = wk[w].ev /\ \A v \in Workers : v # w => wk'[v] = wk[v]
    BY <2>1, <1>leave DEF Mismatch, Existing, Duplicate, Suppress, ShadowMatch, RecordFire
  <2>2. ASSUME Match(w) \/ ReadExisting(w) \/ CheckCooldown(w) \/ SkipTask(w) \/ SkipNote(w)
        PROVE  Within(w)
    BY <2>2, MatchWithin, ReadWithin, CheckWithin, SkipWithin DEF SkipTask, SkipNote
  <2>3. ASSUME Recover(w) \/ Replay(w) PROVE Within(w)
    BY <2>3, AgainWithin DEF Recover, Replay
  <2>4. ASSUME CreateTask(w) \/ WriteNote(w) PROVE Within(w)
    BY <2>4, AppliedWithin DEF CreateTask, WriteNote
  <2>5. ASSUME Claim(w) \/ RecordFailure(w) \/ FailAction(w) \/ Throw(w)
        PROVE  wk'[w].ev = wk[w].ev /\ \A v \in Workers : v # w => wk'[v] = wk[v]
    BY <2>5, <1>goto DEF Claim, RecordFailure, FailAction, Throw
  <2>6. ASSUME Complete(w)
        PROVE  wk'[w].ev = wk[w].ev /\ \A v \in Workers : v # w => wk'[v] = wk[v]
    BY <2>6, <1>goto, <1>leave DEF Complete
  <2> QED BY <2>1, <2>2, <2>3, <2>4, <2>5, <2>6 DEF RunStep, Within
<1>2. \A e \in Events, r \in Rules : e # wk[w].ev \/ r # wk[w].r => exec'[e][r] = exec[e][r]
  <2>1. UNCHANGED exec \/ \E s, ts : Write(w, s, ts)
    BY DEF RunStep, Mismatch, Match, Claim, ReadExisting, Existing, Duplicate, Recover, Replay,
           CheckCooldown, Suppress, ShadowMatch, CreateTask, SkipTask, WriteNote, SkipNote,
           Complete, RecordFire, RecordFailure, FailAction, Throw, Write
  <2> QED BY <2>1, WriteRow
<1>3. task' = task \/ task' = task \cup {Key(w)}
  BY DEF RunStep, Mismatch, Match, Claim, ReadExisting, Existing, Duplicate, Recover, Replay,
         CheckCooldown, Suppress, ShadowMatch, CreateTask, SkipTask, WriteNote, SkipNote,
         Complete, RecordFire, RecordFailure, FailAction, Throw
<1>4. \A e \in Events, r \in Rules : e # wk[w].ev \/ r # wk[w].r =>
          \A a \in ActionIds : <<e, r, a>> \in task' <=> <<e, r, a>> \in task
  BY <1>3 DEF Key
<1>5. wk[w].pc \notin {"idle", "returned", "threw"}
  BY DEF RunStep, Mismatch, Match, Claim, ReadExisting, Existing, Duplicate, Recover, Replay,
         CheckCooldown, Suppress, ShadowMatch, CreateTask, SkipTask, WriteNote, SkipNote,
         Complete, RecordFire, RecordFailure, FailAction, Throw, Does, At, QueryPC
<1>6. budget'.crashes = budget.crashes
  <2>1. budget' = budget \/ SpendFault
    BY DEF RunStep, Mismatch, Match, Claim, ReadExisting, Existing, Duplicate, Recover, Replay,
           CheckCooldown, Suppress, ShadowMatch, CreateTask, SkipTask, WriteNote, SkipNote,
           Complete, RecordFire, RecordFailure, FailAction, Throw
  <2> QED BY <2>1, <1>typ DEF SpendFault
<1> QED BY <1>1, <1>2, <1>4, <1>5, <1>6 DEF OnlyMine

\* A call within its rule goes on to one of the steps before its row is taken.
LEMMA BeforeRow ==
  ASSUME NEW w \in Workers, CallTold(w), wk[w].pc \in {"rule", "claim", "existing"},
         Within(w), wk'[w].pc \in {"claim", "existing"}, wk'[w].a = wk[w].a
  PROVE  RowTold(w)'
BY DEF CallTold, RowTold, OnRow

\* A call takes the row up: it has tried no action yet.
LEMMA TakesRow ==
  ASSUME NEW w \in Workers, CallTold(w), wk[w].pc \in {"claim", "stale"},
         Within(w), wk'[w].pc = "cool", wk'[w].a = wk[w].a
  PROVE  RowTold(w)'
<1>1. wk'[w].a = 1
  BY DEF CallTold, RowTold
<1>2. \A a \in ActionIds : ~(a < 1)
  BY EngineAssumption DEF ActionIds
<1> QED BY <1>1, <1>2 DEF RowTold, OnRow

\* fireTrigger keeps the job, the answer and the rows in agreement.
LEMMA EngineTold ==
  ASSUME Volatile = {}, FlowTyped, Grounded, Truthful, Told, UNCHANGED flow,
         NEW w \in Workers, RunStep(w) \/ FailAction(w) \/ Throw(w)
  PROVE  Told'
<1>typ. /\ TypeOK /\ wk \in [Workers -> CallType] /\ wk[w].ev \in Events /\ wk[w].r \in Rules
        /\ wk[w].got \subseteq ActionIds /\ exec \in [Events -> [Rules -> ExecType]]
        /\ wk[w].a \in Nat \ {0} /\ Len(Kind[wk[w].r]) \in Nat
        /\ ActionIds \subseteq Nat
  BY EngineAssumption DEF FlowTyped, TypeOK, CallType, ExecType, ActionIds
<1>mine. OnlyMine(w) /\ wk[w].pc \notin {"idle", "returned", "threw"}
         /\ budget'.crashes = budget.crashes
  BY <1>typ, EngineMine
<1> SUFFICES ASSUME Undisturbed PROVE CallTold(w)'
  BY <1>typ, <1>mine, ToldLocal
<1> DEFINE Good == CallTold(w)'
<1>call. CallTold(w) /\ GroundCall(w)
  BY <1>mine DEF Told, Grounded
<1> SUFFICES ASSUME NEW e \in Events, NEW q \in Rules, e = wk[w].ev, q = wk[w].r PROVE Good
  BY <1>typ
<1>row. ASSUME UNCHANGED <<exec, task>>, Tidy(e, q) PROVE Tidy(e, q)'
  BY <1>row, TidyKept
<1>open. wk[w].pc \in {"rule", "claim", "existing", "stale"} =>
             Tidy(e, q) \/ eval[wk[w].ev] \notin Open
  BY <1>call, <1>typ DEF CallTold, Behind, OnRow
<1>leave. ASSUME NEW stop, NEW out \in Outs, Leave(w, stop, out), wk[w].pc # "failed", Tidy(e, q)',
                 stop /\ out = "no_matching_rule" => eval[wk[w].ev] \in Open
          PROVE  Good
  BY <1>leave, <1>call, <1>mine, <1>typ, LeaveTold
<1>move. ASSUME Within(w), RowTold(w)', wk[w].pc # "failed",
                wk'[w].pc \in {"claim", "existing", "stale", "record"} \cup OnRow,
                \/ wk'[w].pc \in OnRow
                \/ Tidy(e, q)'
                \/ wk'[w].pc # "record" /\ eval[wk[w].ev] \notin Open
         PROVE  Good
  BY <1>move, <1>call, <1>mine, <1>typ, MoveTold
<1>before. ASSUME Within(w), wk[w].pc \in {"rule", "claim", "existing"}, UNCHANGED <<exec, task>>,
                  wk'[w].pc \in {"claim", "existing"}, wk'[w].a = wk[w].a
           PROVE  Good
  <2>1. RowTold(w)'
    BY <1>before, <1>call, BeforeRow
  <2>2. Tidy(e, q)' \/ eval[wk[w].ev] \notin Open
    BY <1>before, <1>open, <1>row
  <2> QED BY <2>1, <2>2, <1>before, <1>move
<1>take. ASSUME Within(w), wk[w].pc \in {"claim", "stale"}, wk'[w].pc = "cool", wk'[w].a = wk[w].a
         PROVE  Good
  <2>1. RowTold(w)'
    BY <1>take, <1>call, TakesRow
  <2> QED BY <2>1, <1>take, <1>move DEF OnRow
<1>fall. ASSUME Within(w), wk'[w].pc \in {"failed", "threw"} PROVE Good
  BY <1>fall, <1>call, <1>mine, FallTold
<1>1. ASSUME Mismatch(w) PROVE Good
  <2>1. UNCHANGED <<exec, task>> /\ <<e, q>> \notin Matches /\ wk[w].pc = "rule"
        /\ Leave(w, FALSE, "no_matching_rule")
    BY <1>1 DEF Mismatch, At
  <2>2. exec[e][q].status = "none" /\ ~HasTask(e, q)
    BY <2>1 DEF Grounded, HasTask
  <2>3. Tidy(e, q)
    BY <2>2 DEF Tidy
  <2> QED BY <2>1, <2>3, <1>row, <1>leave DEF Outs
<1>2. ASSUME Match(w) PROVE Good
  BY <1>2, <1>typ, <1>before, MatchWithin DEF Match, At
<1>3. ASSUME Claim(w) PROVE Good
  <2>1. wk[w].pc = "claim" /\ task' = task
    BY <1>3 DEF Claim, At
  <2>2. CASE Unclaimed(wk[w].ev, wk[w].r)
    BY <1>3, <2>1, <2>2, <1>typ, <1>take, GotoWithin DEF Claim
  <2>3. CASE ~Unclaimed(wk[w].ev, wk[w].r)
    BY <1>3, <2>1, <2>3, <1>typ, <1>before, GotoWithin DEF Claim
  <2> QED BY <2>2, <2>3
<1>4. ASSUME ReadExisting(w) PROVE Good
  <2>1. wk[w].pc = "existing" /\ UNCHANGED <<exec, task>>
    BY <1>4 DEF ReadExisting, At
  <2>2. Within(w) /\ wk'[w].pc = "stale" /\ wk'[w].a = wk[w].a
        /\ wk'[w].old = exec[wk[w].ev][wk[w].r]
    BY <1>4, <1>typ, ReadWithin
  <2>3. RowTold(w)'
    BY <2>1, <2>2, <1>call DEF CallTold, RowTold, OnRow, Within
  <2>4. Tidy(e, q)' \/ eval[wk[w].ev] \notin Open
    BY <2>1, <1>open, <1>row
  <2> QED BY <2>1, <2>2, <2>3, <2>4, <1>move
<1>5. ASSUME Existing(w) PROVE Good
  <2>1. /\ wk[w].pc = "stale" /\ UNCHANGED <<exec, task>> /\ wk[w].old.status = "task_created"
        /\ Leave(w, Stops(wk[w].r), "task_created")
    BY <1>5 DEF Existing, Recorded, At
  <2>2. Tidy(e, q)
    BY <2>1, <1>call DEF CallTold, RowTold, Tidy
  <2> QED BY <2>1, <2>2, <1>row, <1>leave DEF Outs
<1>6. ASSUME Duplicate(w) PROVE Good
  <2>1. /\ wk[w].pc = "stale" /\ UNCHANGED <<exec, task>> /\ ~wk[w].force
        /\ Leave(w, Stops(wk[w].r), "no_matching_rule")
    BY <1>6 DEF Duplicate, At
  <2>2. eval[wk[w].ev] \in Open
    BY <2>1, <1>call DEF CallTold, Open
  <2> QED BY <2>1, <2>2, <1>open, <1>row, <1>leave DEF Outs
<1>7. ASSUME Recover(w) \/ Replay(w) PROVE Good
  <2>1. PICK mode : Again(w, mode)
    BY <1>7 DEF Recover, Replay
  <2> QED BY <2>1, <1>7, <1>typ, <1>take, AgainWithin DEF Recover, Replay, At
<1>8. ASSUME CheckCooldown(w) PROVE Good
  <2>1. wk[w].pc = "cool" /\ UNCHANGED <<exec, task>>
    BY <1>8 DEF CheckCooldown, At
  <2>2. Within(w) /\ wk'[w].pc \in {"suppress", "shadow", "act"} /\ wk'[w].got = wk[w].got
        /\ wk'[w].a = wk[w].a
    BY <1>8, <1>typ, CheckWithin
  <2>3. RowTold(w)'
    BY <2>1, <2>2, <1>call DEF CallTold, RowTold, OnRow, Within
  <2> QED BY <2>1, <2>2, <2>3, <1>move DEF OnRow
<1>9. ASSUME Suppress(w) \/ ShadowMatch(w) PROVE Good
  <2>1. PICK s \in {"cooldown_suppressed", "shadow_matched"} :
            Write(w, s, {}) /\ wk[w].pc \in {"suppress", "shadow"}
    BY <1>9 DEF Suppress, ShadowMatch, At
  <2>2. exec'[wk[w].ev][wk[w].r].status = s
    BY <2>1, <1>typ, WriteRow
  <2>3. Tidy(e, q)'
    BY <2>1, <2>2 DEF Tidy
  <2> QED BY <2>1, <2>3, <1>9, <1>leave DEF Suppress, ShadowMatch, Outs
<1>act. ASSUME Within(w), wk[w].pc = "act", wk'[w].pc = "act", wk'[w].a = wk[w].a + 1,
               wk[w].got \subseteq wk'[w].got,
               \A a \in ActionIds : <<e, q, a>> \in task' =>
                   \/ <<e, q, a>> \in task /\ a # wk[w].a
                   \/ a \in wk'[w].got
        PROVE  Good
  <2>a. \A a, b \in Nat : a < b + 1 /\ a # b => a < b
    OBVIOUS
  <2>1. \A a \in ActionIds : a < wk[w].a + 1 /\ a # wk[w].a => a < wk[w].a
    BY <1>typ, <2>a
  <2>2. \A a \in ActionIds : <<e, q, a>> \in task /\ a < wk[w].a => a \in wk[w].got
    BY <1>act, <1>call DEF CallTold, RowTold, OnRow
  <2>3. \A a \in ActionIds : <<e, q, a>> \in task' /\ a < wk'[w].a => a \in wk'[w].got
    BY <1>act, <2>1, <2>2
  <2>4. RowTold(w)'
    BY <1>act, <2>3 DEF RowTold, OnRow, Within
  <2> QED BY <1>act, <2>4, <1>move DEF OnRow
<1>10. ASSUME CreateTask(w) PROVE Good
  <2>1. /\ wk[w].pc = "act" /\ task' = task \cup {<<wk[w].ev, wk[w].r, wk[w].a>>}
        /\ Applied(w, {wk[w].a})
    BY <1>10 DEF CreateTask, Does, At, Key
  <2>2. Within(w) /\ wk'[w].pc = "act" /\ wk'[w].got = wk[w].got \cup {wk[w].a}
        /\ wk'[w].a = wk[w].a + 1
    BY <2>1, <1>typ, AppliedWithin
  <2> QED BY <2>1, <2>2, <1>act
<1>11. ASSUME SkipTask(w) \/ WriteNote(w) \/ SkipNote(w) PROVE Good
  <2>1. wk[w].pc = "act" /\ task' = task /\ (SkipAction(w) \/ Applied(w, {}))
    BY <1>11 DEF SkipTask, WriteNote, SkipNote, Does, At
  <2>2. <<e, q, wk[w].a>> \notin task
    BY <1>11, <1>typ DEF SkipTask, WriteNote, SkipNote, Does, Key, Grounded, Keys, TypeOK
  <2>a. Applied(w, {}) => Within(w) /\ wk'[w].pc = "act" /\ wk'[w].got = wk[w].got \cup {}
                          /\ wk'[w].a = wk[w].a + 1
    BY <2>1, <1>typ, AppliedWithin
  <2>b. SkipAction(w) => Within(w) /\ wk'[w].pc = "act" /\ wk'[w].got = wk[w].got
                         /\ wk'[w].a = wk[w].a + 1
    BY <2>1, <1>typ, SkipWithin
  <2>3. Within(w) /\ wk'[w].pc = "act" /\ wk'[w].got = wk[w].got /\ wk'[w].a = wk[w].a + 1
    BY <2>1, <2>a, <2>b
  <2> QED BY <2>1, <2>2, <2>3, <1>act
<1>12. ASSUME Complete(w) PROVE Good
  <2>1. /\ wk[w].pc = "act" /\ task' = task /\ Write(w, ResultStatus(w), wk[w].got)
        /\ wk[w].a > Len(Kind[wk[w].r])
    BY <1>12 DEF Complete, At, ActionsDone
  <2>2. exec'[e][q].status = ResultStatus(w)
    BY <2>1, <1>typ, WriteRow
  <2>3. wk[w].got = {} => ~HasTask(e, q)
    <3>1. \A a \in ActionIds : <<e, q, a>> \in task => a < wk[w].a
      BY <2>1, <1>typ DEF Grounded
    <3> QED BY <3>1, <2>1, <1>call DEF CallTold, RowTold, OnRow, HasTask
  <2>4. HasTask(e, q)' <=> HasTask(e, q)
    BY <2>1 DEF HasTask
  <2>5. Tidy(e, q)'
    BY <2>2, <2>3, <2>4 DEF Tidy, ResultStatus
  <2>6. CASE Counts(w) /\ Limited(w)
    <3>1. Goto(w, "record")
      BY <1>12, <2>6 DEF Complete
    <3>a. wk'[w].applied
      BY <3>1, <2>6, <1>typ DEF Goto, Counts, CallType
    <3>2. Within(w) /\ wk'[w].pc = "record" /\ wk'[w].applied
      BY <3>1, <3>a, <1>typ, GotoWithin
    <3>3. RowTold(w)'
      BY <3>2 DEF RowTold, OnRow
    <3> QED BY <2>1, <2>5, <3>2, <3>3, <1>move
  <2>7. CASE ~(Counts(w) /\ Limited(w))
    <3>1. Leave(w, Stops(wk[w].r) /\ wk[w].applied, Out(w))
      BY <1>12, <2>7 DEF Complete
    <3>2. Out(w) \in Outs /\ (wk[w].applied => Out(w) # "no_matching_rule")
      BY DEF Out, Outs
    <3> QED BY <2>1, <2>5, <3>1, <3>2, <1>leave
  <2> QED BY <2>6, <2>7
<1>13. ASSUME RecordFire(w) PROVE Good
  <2>1. wk[w].pc = "record" /\ UNCHANGED <<exec, task>> /\ Leave(w, Stops(wk[w].r), Out(w))
    BY <1>13 DEF RecordFire, At
  <2>2. Out(w) \in Outs /\ Out(w) # "no_matching_rule"
    BY <2>1, <1>call DEF CallTold, RowTold, Out, Outs
  <2>3. Tidy(e, q)
    BY <2>1, <1>call DEF CallTold, Behind
  <2> QED BY <2>1, <2>2, <2>3, <1>row, <1>leave
<1>14. ASSUME RecordFailure(w) \/ FailAction(w) \/ Throw(w) PROVE Good
  <2>1. Goto(w, "failed") \/ Goto(w, "threw")
    BY <1>14 DEF RecordFailure, FailAction, Throw
  <2> QED BY <2>1, <1>typ, <1>fall, GotoWithin
<1> HIDE DEF Good
<1> QED
  BY <1>1, <1>2, <1>3, <1>4, <1>5, <1>6, <1>7, <1>8, <1>9, <1>10, <1>11, <1>12, <1>13, <1>14
     DEF RunStep

\* A step about one event: what remains are its job and its call.
LEMMA ToldOther ==
  ASSUME TypeOK, Told, NEW e \in Events, Undisturbed' => Undisturbed,
         budget'.crashes <= MaxCrashes, UNCHANGED <<exec, task>>,
         \A d \in Events : d # e => job'[d] = job[d] /\ eval'[d] = eval[d],
         Undisturbed' => JobTold(e)',
         \A v \in Workers : Undisturbed' /\ wk'[v].pc # "idle" =>
             CallTold(v)' \/ (wk'[v] = wk[v] /\ verdict'[v] = verdict[v] /\ wk[v].ev # e)
  PROVE  Told'
<1>1. ASSUME Undisturbed', NEW d \in Events PROVE JobTold(d)'
  <2>1. CASE d = e
    BY <1>1, <2>1
  <2>2. CASE d # e
    BY <1>1, <2>2, JobElsewhere DEF Told
  <2> QED BY <2>1, <2>2
<1>2. ASSUME Undisturbed', NEW v \in Workers, wk'[v].pc # "idle", ~(CallTold(v)')
      PROVE  FALSE
  <2>1. wk'[v] = wk[v] /\ verdict'[v] = verdict[v] /\ wk[v].ev # e /\ CallTold(v)
        /\ wk[v].ev \in Events
    BY <1>2 DEF Told, TypeOK, CallType
  <2>2. CallTold(v)'
    BY <2>1, CallElsewhere
  <2> QED BY <1>2, <2>2
<1> QED BY <1>1, <1>2 DEF Told

\* The resolver's steps keep the job, the answer and the rows in agreement.
LEMMA FlowTold ==
  ASSUME Volatile = {}, FlowTyped, Grounded, Truthful, Told, [FlowNext]_allVars
  PROVE  Told'
<1>typ. /\ TypeOK /\ wk \in [Workers -> CallType] /\ verdict \in [Workers -> Said]
        /\ eval \in [Events -> Said] /\ job \in [Events -> JobType] /\ unstored \in BOOLEAN
        /\ budget \in [faults : Nat, crashes : Nat, deletes : Nat] /\ budget.crashes \in Nat
        /\ budget.crashes <= MaxCrashes /\ MaxCrashes \in Nat
        /\ \A w \in Workers : wk[w].ev \in Events
  BY EngineAssumption DEF FlowTyped, TypeOK, Told, CallType
<1>spent. ASSUME SpendCrash PROVE Told'
  <2>1. budget'.crashes = budget.crashes - 1
    BY <1>spent, <1>typ DEF SpendCrash
  <2> QED BY <2>1, <1>typ DEF Told, Undisturbed
<1>queue. ASSUME NEW e \in Events, UNCHANGED <<vars, eval, verdict, unstored>>,
                 \A d \in Events : d # e => job'[d] = job[d], job[e].state # "active",
                 Undisturbed => JobTold(e)'
          PROVE  Told'
  <2>1. Undisturbed' <=> Undisturbed
    BY <1>queue DEF Undisturbed, vars
  <2>2. \A v \in Workers : Undisturbed /\ wk'[v].pc # "idle" => wk[v].ev # e
    BY <1>queue DEF Told, CallTold, vars
  <2> QED BY <1>queue, <1>typ, <2>1, <2>2, ToldOther DEF vars
<1>1. ASSUME NEW e \in Events, Enqueue(e) PROVE Told'
  <2>1. job[e].state = "none" /\ job'[e] = Job("waiting", 0, FALSE, NoWorker)
        /\ UNCHANGED <<vars, eval, verdict, unstored>> /\ \A d \in Events : d # e => job'[d] = job[d]
    BY <1>1, <1>typ DEF Enqueue
  <2>2. ASSUME Undisturbed PROVE JobTold(e)'
    <3>1. JobTold(e) /\ (\A r \in Rules : Tidy(e, r)' <=> Tidy(e, r))
      BY <2>1, <2>2, TidyKept DEF Told, vars
    <3>2. eval'[e] = "none" /\ \A r \in Rules : Tidy(e, r)'
      BY <2>1, <3>1 DEF JobTold, Open
    <3> QED BY <2>1, <3>2 DEF JobTold, Job, Open, Rules
  <2> QED BY <2>1, <2>2, <1>queue
<1>2. ASSUME NEW e \in Events, EnqueueRepair(e) PROVE Told'
  <2>1. job[e].state \in {"waiting", "done", "dead"} /\ job'[e] = Job("waiting", 0, TRUE, NoWorker)
        /\ UNCHANGED <<vars, eval, verdict, unstored>> /\ (\A d \in Events : d # e => job'[d] = job[d])
        /\ eval[e] \in {"none", "failed", "no_matching_rule"}
    BY <1>2, <1>typ DEF EnqueueRepair
  <2>2. ASSUME Undisturbed PROVE JobTold(e)'
    <3>1. JobTold(e) /\ (\A r \in Rules : Tidy(e, r)' <=> Tidy(e, r))
      BY <2>1, <2>2, TidyKept DEF Told, vars
    <3>2. eval'[e] \in Open => \A r \in Rules : Tidy(e, r)'
      BY <2>1, <3>1 DEF JobTold, Open
    <3> QED BY <2>1, <3>2 DEF JobTold, Job, Open, Rules
  <2> QED BY <2>1, <2>2, <1>queue
<1>3. ASSUME NEW e \in Events, NEW w \in Workers, TakeJob(w, e) PROVE Told'
  <2>1. job[e].state = "waiting" /\ wk[w].pc = "idle" /\ UNCHANGED <<eval, verdict, unstored>>
        /\ UNCHANGED <<exec, task>> /\ UNCHANGED budget
    BY <1>3 DEF TakeJob, At, Fire, vars
  <2>2. Undisturbed' <=> Undisturbed
    BY <2>1 DEF Undisturbed
  <2>3. \A d \in Events : d # e => job'[d] = job[d] /\ eval'[d] = eval[d]
    BY <1>3, <1>typ, <2>1 DEF TakeJob
  <2>4. CASE eval[e] # "none" /\ ~Forced(e)
    <3>1. ~Undisturbed
      BY <2>1, <2>4, <1>typ DEF Told, JobTold, Forced, Open
    <3> QED BY <1>typ, <2>1, <2>2, <3>1 DEF Told
  <2>5. CASE ~(eval[e] # "none" /\ ~Forced(e))
    <3>1. job' = [job EXCEPT ![e].state = "active", ![e].owner = w] /\ Fire(w, e, Forced(e))
      BY <1>3, <2>5 DEF TakeJob
    <3>2. /\ job'[e].state = "active" /\ job'[e].owner = w /\ job'[e].repair = job[e].repair
          /\ wk'[w].pc = "rule" /\ wk'[w].ev = e /\ wk'[w].a = 1 /\ wk'[w].r = 1
          /\ wk'[w].force = Forced(e)
          /\ \A v \in Workers : v # w => wk'[v] = wk[v]
      <4>1. job[e] \in JobType
        BY <1>typ
      <4>2. job'[e].state = "active" /\ job'[e].owner = w /\ job'[e].repair = job[e].repair
        BY <3>1, <1>typ, <4>1 DEF JobType
      <4> QED BY <3>1, <4>2, <1>typ DEF Fire, IdleCall
    <3>3. verdict'[w] = "none"
      BY <2>1 DEF Truthful, TruthCall
    <3>4. ASSUME Undisturbed PROVE JobTold(e)' /\ CallTold(w)'
      <4>1. JobTold(e) /\ (\A r \in Rules : Tidy(e, r)' <=> Tidy(e, r))
        BY <2>1, <3>4, TidyKept DEF Told
      <4>2. eval[e] \in Open => \A r \in Rules : Tidy(e, r)'
        BY <2>1, <4>1 DEF JobTold
      <4>3. JobTold(e)'
        BY <2>1, <3>2, <4>1 DEF JobTold, Open
      <4>4. ~Forced(e) => eval[e] = "none"
        BY <2>1, <4>1 DEF JobTold, Forced, Open
      <4>5. \A r \in Rules : ~(r < 1)
        BY EngineAssumption DEF Rules
      <4>6. Behind(w)'
        BY <2>1, <3>2, <4>2, <4>5 DEF Behind, Open, Rules
      <4>7. RowTold(w)'
        BY <3>2 DEF RowTold, OnRow
      <4> QED BY <2>1, <3>2, <3>3, <4>3, <4>4, <4>6, <4>7 DEF CallTold, Open
    <3>5. \A v \in Workers : v # w /\ Undisturbed /\ wk'[v].pc # "idle" => wk[v].ev # e
      BY <2>1, <3>2 DEF Told, CallTold
    <3> QED BY <1>typ, <2>1, <2>2, <2>3, <3>2, <3>4, <3>5, ToldOther
  <2> QED BY <2>4, <2>5
<1>4. ASSUME NEW w \in Workers, EngineStep(w) \/ EngineFault(w) PROVE Told'
  BY <1>4, EngineTold DEF EngineStep, EngineFault
<1>5. ASSUME NEW w \in Workers, Judge(w) PROVE Told'
  <2> DEFINE said == IF At(w, "threw") THEN "failed"
                     ELSE IF wk[w].out = "no_matching_rule" THEN Recovered(wk[w].ev)
                     ELSE wk[w].out
  <2> SUFFICES ASSUME NEW e \in Events, e = wk[w].ev PROVE Told'
    BY <1>typ
  <2>1. /\ UNCHANGED <<vars, job, eval, unstored>> /\ wk[w].pc \in {"returned", "threw"}
        /\ verdict' = [verdict EXCEPT ![w] = said]
    BY <1>5 DEF Judge
  <2>2. Undisturbed' <=> Undisturbed
    BY <2>1 DEF Undisturbed, vars
  <2>3. ASSUME Undisturbed, said = "no_matching_rule" PROVE Clean(e)
    <3>1. wk[w].pc = "returned" /\ wk[w].out = "no_matching_rule"
          /\ Recovered(e) = "no_matching_rule"
      BY <2>1, <2>3 DEF At
    <3>2. Answered(e) = {}
      BY <3>1 DEF Recovered
    <3>3. CallTold(w) /\ (eval[e] \in Open \/ wk[w].r = NumRules)
      BY <2>3, <3>1 DEF Told, CallTold
    <3>4. \A r \in Rules : Tidy(e, r)
      <4>1. \A r \in Rules : r < NumRules \/ r = NumRules
        BY EngineAssumption DEF Rules
      <4> QED BY <3>1, <3>3, <4>1 DEF CallTold, Behind, OnRow
    <3> QED BY <3>2, <3>4 DEF Answered, Tidy, Clean
  <2> HIDE DEF said
  <2>4. verdict'[w] = said /\ \A v \in Workers : v # w => verdict'[v] = verdict[v]
    BY <2>1, <1>typ
  <2>5. \A r \in Rules : Tidy(e, r)' <=> Tidy(e, r)
    BY <2>1, TidyKept DEF vars
  <2>6. Clean(e)' <=> Clean(e)
    BY <2>1 DEF Clean, HasTask, vars
  <2>7. ASSUME Undisturbed PROVE JobTold(e)' /\ CallTold(w)'
    <3>1. JobTold(e) /\ CallTold(w)
      BY <2>1, <2>7 DEF Told
    <3>2. JobTold(e)'
      BY <2>1, <3>1, JobElsewhere DEF vars
    <3>3. Behind(w)'
      BY <2>1, <2>5, <3>1 DEF CallTold, Behind, Open, vars, Rules
    <3>4. RowTold(w)'
      BY <2>1, <3>1 DEF CallTold, RowTold, vars, ActionIds, OnRow
    <3> QED BY <2>1, <2>3, <2>4, <2>6, <2>7, <3>1, <3>2, <3>3, <3>4 DEF CallTold, Open, vars
  <2>8. \A v \in Workers : v # w /\ Undisturbed /\ wk'[v].pc # "idle" => wk[v].ev # e
    BY <2>1, Apart DEF vars
  <2> QED BY <1>typ, <2>1, <2>2, <2>4, <2>7, <2>8, ToldOther DEF vars
<1>gone. ASSUME NEW w \in Workers, verdict[w] # "none", Forget(w), UNCHANGED <<exec, task>>,
                verdict' = [verdict EXCEPT ![w] = "none"], Undisturbed' => Undisturbed,
                budget'.crashes = budget.crashes, NEW e \in Events, e = wk[w].ev,
                \A d \in Events : d # e => job'[d] = job[d] /\ eval'[d] = eval[d],
                Undisturbed' => JobTold(e)'
         PROVE  Told'
  <2>1. /\ wk'[w].pc = "idle" /\ wk[w].pc # "idle"
        /\ \A v \in Workers : v # w => wk'[v] = wk[v] /\ verdict'[v] = verdict[v]
    BY <1>gone, <1>typ DEF Forget, IdleCall, Truthful, TruthCall
  <2>2. \A v \in Workers : v # w /\ Undisturbed /\ wk'[v].pc # "idle" => wk[v].ev # e
    BY <1>gone, <2>1, Apart
  <2> QED BY <1>typ, <1>gone, <2>1, <2>2, ToldOther
<1>ended. ASSUME NEW w \in Workers, verdict[w] # "none", Undisturbed, NEW failed, EndJob(w, failed)
          PROVE  /\ CallTold(w) /\ JobTold(wk[w].ev)
                 /\ \A d \in Events : d # wk[w].ev => job'[d] = job[d]
                 /\ job'[wk[w].ev].repair = job[wk[w].ev].repair
                 /\ job'[wk[w].ev].state \in IF failed THEN {"waiting", "dead"} ELSE {"done"}
                 /\ job[wk[w].ev].state = "active"
  <2>1. CallTold(w) /\ JobTold(wk[w].ev)
    BY <1>ended, <1>typ DEF Told, Truthful, TruthCall
  <2>2. job[wk[w].ev].owner = w /\ job[wk[w].ev].state = "active"
    BY <2>1 DEF CallTold
  <2> QED BY <1>ended, <1>typ, <2>1, <2>2 DEF EndJob, Job
<1>else. ASSUME NEW w \in Workers, NEW failed, EndJob(w, failed), NEW d \in Events, d # wk[w].ev
         PROVE  job'[d] = job[d]
  BY <1>else, <1>typ DEF EndJob
<1>6. ASSUME NEW w \in Workers, Store(w) PROVE Told'
  <2> SUFFICES ASSUME NEW e \in Events, e = wk[w].ev PROVE Told'
    BY <1>typ
  <2>1. /\ verdict[w] # "none" /\ eval' = [eval EXCEPT ![e] = verdict[w]]
        /\ EndJob(w, verdict[w] = "failed") /\ verdict' = [verdict EXCEPT ![w] = "none"]
        /\ Forget(w) /\ UNCHANGED <<exec, task, budget, unstored>>
    BY <1>6 DEF Store, engine
  <2>2. Undisturbed' <=> Undisturbed
    BY <2>1 DEF Undisturbed
  <2>3. \A d \in Events : d # e => job'[d] = job[d] /\ eval'[d] = eval[d]
    BY <2>1, <1>typ, <1>else
  <2>4. ASSUME Undisturbed PROVE JobTold(e)'
    <3>1. /\ CallTold(w)
          /\ job'[e].state \in IF verdict[w] = "failed" THEN {"waiting", "dead"} ELSE {"done"}
      BY <2>1, <2>4, <1>ended
    <3>2. eval'[e] = verdict[w]
      BY <2>1, <1>typ
    <3>3. verdict[w] = "no_matching_rule" => Clean(e)
      BY <3>1 DEF CallTold
    <3>4. Clean(e)' <=> Clean(e)
      BY <2>1 DEF Clean, HasTask
    <3>5. Clean(e)' => \A r \in Rules : Tidy(e, r)'
      BY DEF Clean, Tidy
    <3> QED BY <2>1, <3>1, <3>2, <3>3, <3>4, <3>5 DEF JobTold, Open, Rules
  <2> QED BY <1>gone, <2>1, <2>2, <2>3, <2>4
<1>7. ASSUME NEW w \in Workers, StoreFails(w) PROVE Told'
  <2> SUFFICES ASSUME NEW e \in Events, e = wk[w].ev PROVE Told'
    BY <1>typ
  <2>1. /\ verdict[w] # "none" /\ eval' = eval /\ SpendFault
        /\ EndJob(w, TRUE) /\ verdict' = [verdict EXCEPT ![w] = "none"]
        /\ Forget(w) /\ UNCHANGED <<exec, task>>
        /\ unstored' = (unstored \/ verdict[w] = "failed")
    BY <1>7 DEF StoreFails
  <2>2. budget'.crashes = budget.crashes
    BY <2>1, <1>typ DEF SpendFault
  <2>3. Undisturbed' => Undisturbed /\ verdict[w] # "failed"
    BY <2>1, <2>2 DEF Undisturbed
  <2>4. \A d \in Events : d # e => job'[d] = job[d] /\ eval'[d] = eval[d]
    BY <2>1, <1>else
  <2>5. ASSUME Undisturbed' PROVE JobTold(e)'
    <3>1. /\ CallTold(w) /\ JobTold(e) /\ job[e].state = "active"
          /\ job'[e].state \in {"waiting", "dead"} /\ job'[e].repair = job[e].repair
      BY <2>1, <2>3, <2>5, <1>ended
    <3>2. wk[w].pc = "returned"
      BY <2>1, <2>3, <2>5 DEF Truthful, TruthCall
    <3>3. \A r \in Rules : Tidy(e, r)' <=> Tidy(e, r)
      BY <2>1, TidyKept
    <3>4. eval[e] \in Open => \A r \in Rules : Tidy(e, r)'
      BY <3>1, <3>2, <3>3 DEF CallTold, Behind, OnRow
    <3> QED BY <2>1, <3>1, <3>4 DEF JobTold, Open, Rules
  <2> QED BY <1>gone, <2>1, <2>2, <2>3, <2>4, <2>5
<1>8. ASSUME UNCHANGED allVars PROVE Told'
  <2> SUFFICES ASSUME NEW e \in Events PROVE Told'
    BY EngineAssumption
  <2>1. Undisturbed' <=> Undisturbed
    BY <1>8 DEF Undisturbed, allVars, vars, flow
  <2>2. UNCHANGED <<exec, task, wk, job, eval, verdict, budget>>
    BY <1>8 DEF allVars, vars, flow
  <2>3. \A d \in Events : Undisturbed => JobTold(d)'
    BY <2>2, JobElsewhere DEF Told
  <2>4. \A v \in Workers : Undisturbed /\ wk'[v].pc # "idle" => CallTold(v)'
    BY <2>2, <1>typ, CallElsewhere DEF Told
  <2> QED BY <1>typ, <2>1, <2>2, <2>3, <2>4 DEF Told
<1>9. ASSUME FlowNext PROVE Told'
  BY <1>9, <1>1, <1>2, <1>3, <1>4, <1>5, <1>6, <1>7, <1>spent
     DEF FlowNext, WorkerStep, Stall, Die, Crash
<1> QED BY <1>8, <1>9

FlowInv == FlowTyped /\ Grounded /\ Truthful /\ Told

\* No job, no row, no answer.
LEMMA FlowStarts ==
  ASSUME FlowInit
  PROVE  FlowInv
<1>1. FlowTyped
  <2>1. TypeOK
    BY TypeInit DEF FlowInit
  <2>2. job \in [Events -> JobType]
    BY DEF FlowInit, Job, JobType
  <2> QED BY <2>1, <2>2 DEF FlowInit, FlowTyped, Said
<1>2. /\ \A e \in Events, r \in Rules : exec[e][r].status = "none" /\ exec[e][r].tasks = {}
      /\ task = {}
      /\ \A w \in Workers : wk[w].pc = "idle" /\ wk[w].got = {} /\ wk[w].out = "no_matching_rule"
      /\ \A e \in Events : job[e].state = "none" /\ eval[e] = "none"
      /\ \A w \in Workers : verdict[w] = "none"
      /\ budget.crashes = MaxCrashes /\ MaxCrashes \in Nat
  BY EngineAssumption DEF FlowInit, Init, Row, IdleCall, Job
<1>3. Grounded
  BY <1>2 DEF Grounded, GroundCall, Working
<1>4. Truthful
  BY <1>2 DEF Truthful, TruthCall
<1>5. \A e \in Events : JobTold(e)
  BY <1>2 DEF JobTold, Tidy, HasTask
<1>6. Told
  BY <1>2, <1>5 DEF Told
<1> QED BY <1>1, <1>3, <1>4, <1>6 DEF FlowInv

(* A stored evaluation is true of its event when the job is done, for every *)
(* number of workers, events and rules, every thrown query and upsert,      *)
(* crash, stall and repair, as long as the conditions of an event do not    *)
(* change between its attempts: what is called task_created has a task, and *)
(* while nothing died, stalled or went by unstored, what is called          *)
(* no_matching_rule was claimed by no rule that acts.                       *)
THEOREM EvaluationHolds == ASSUME Volatile = {} PROVE FlowSpec => []EvaluationHonest
<1>1. FlowInit => FlowInv
  BY FlowStarts
<1>2. FlowInv /\ [FlowNext]_allVars => FlowInv'
  BY FlowTypedStep, FlowGround, FlowTold DEF FlowInv
<1>3. FlowInv => EvaluationHonest
  BY DEF FlowInv, EvaluationHonest, AtRest, Truthful, Tasked, Told, JobTold, Clean
<1> QED BY <1>1, <1>2, <1>3, PTL DEF FlowSpec
===============================================================================
