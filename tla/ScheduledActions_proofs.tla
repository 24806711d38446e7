----------------------- MODULE ScheduledActions_proofs -----------------------
(***************************************************************************)
(* Proofs about ScheduledActions, for every set of actions, members,       *)
(* sweepers and clients and every policy.  The strengthening says what a   *)
(* claim gives its sweep: while a sweep works on a row, the row is         *)
(* executing, nobody else works on it, no task exists before Materialize,  *)
(* every revalidation already asked had no objection at the claim, and the *)
(* assignee read is still the row's.  Clear, at the end, says what the     *)
(* question for an open task is worth when there is one sweep process.     *)
(***************************************************************************)
EXTENDS ScheduledActions, TLAPS

Working(s) == wk[s].pc \in WorkingPC

\* A claimed row belongs to one sweep.
Owned ==
    /\ \A s \in Sweepers : Working(s) => /\ wk[s].act \in Actions
                                         /\ row[wk[s].act].status = "executing"
    /\ \A s, t \in Sweepers : Working(s) /\ Working(t) /\ wk[s].act = wk[t].act => s = t

\* Tasks exist only for rows that were claimed, and not before Materialize.
Hidden ==
    /\ \A a \in Actions : Task(a) => row[a].status \in {"executing", "executed", "failed", "cancelled"}
    /\ \A s \in Sweepers : wk[s].pc \in AskingPC \cup {"load", "skip", "create"} => ~Task(wk[s].act)

\* What a sweep has asked did not speak against the action at its claim.
Asked ==
    \A s \in Sweepers :
        LET a == wk[s].act IN
        /\ wk[s].pc \in AskingPC \cup {"load"} => ruledOut[a] \subseteq since[a] \cap PolicyOf[a]
        /\ wk[s].pc = "call" => "purchase" \notin ruledOut[a]
        /\ wk[s].pc = "create" => ruledOut[a] = {}

\* The assignee a sweep read is the row's.
Read == \A s \in Sweepers : wk[s].pc \in AskingPC \cup {"skip", "create"}
                                => wk[s].assignee = row[wk[s].act].assignee

IInv == TypeOK /\ Owned /\ Hidden /\ Asked /\ Read /\ NoTaskPastRevalidation /\ TaskFollowsRow

\* The provers take one variable at a time: each action's new values are typed
\* from its own definition and the old types of the variables it reads.
LEMMA TypeStep ==
  ASSUME TypeOK, Owned, [Next]_vars
  PROVE  TypeOK'
<1> USE SweepAssumption
<1>row. row \in [Actions -> RowType]
  BY DEF TypeOK
<1>task. task \in [Actions -> TaskType]
  BY DEF TypeOK
<1>since. since \in [Actions -> SUBSET Happenings]
  BY DEF TypeOK
<1>wk. wk \in [Sweepers -> SweepType]
  BY DEF TypeOK
<1>req. req \in [Clients -> CallType]
  BY DEF TypeOK
<1>faults. faults \in 0..MaxFaults
  BY DEF TypeOK
<1>ruledOut. ruledOut \in [Actions -> SUBSET Happenings]
  BY DEF TypeOK
<1>1. ASSUME NEW a \in Actions, NEW m \in Members, Schedule(a, m) PROVE TypeOK'
  <2>1. row' \in [Actions -> RowType]
    BY <1>1, <1>row DEF Schedule, RowType, Statuses
  <2>2. QED BY <1>1, <2>1 DEF TypeOK, Schedule
<1>2. ASSUME NEW a \in Actions, FallDue(a) PROVE TypeOK'
  <2>1. row' \in [Actions -> RowType]
    BY <1>2, <1>row DEF FallDue, RowType
  <2>2. QED BY <1>2, <2>1 DEF TypeOK, FallDue
<1>3. ASSUME NEW a \in Actions, NEW h \in Happenings, Happens(a, h) PROVE TypeOK'
  <2>1. since' \in [Actions -> SUBSET Happenings]
    BY <1>3, <1>since DEF Happens
  <2>2. QED BY <1>3, <2>1 DEF TypeOK, Happens
<1>4. ASSUME NEW a \in Actions, CloseTask(a) PROVE TypeOK'
  <2>1. task' \in [Actions -> TaskType]
    BY <1>4, <1>task DEF CloseTask, TaskType
  <2>2. QED BY <1>4, <2>1 DEF TypeOK, CloseTask
<1>5. ASSUME NEW s \in Sweepers, StartSweep(s) PROVE TypeOK'
  <2>1. wk' \in [Sweepers -> SweepType]
    <3>1. PICK todo \in SUBSET Due : wk' = [wk EXCEPT ![s].pc = "claim", ![s].todo = todo]
      BY <1>5 DEF StartSweep
    <3>2. todo \in SUBSET Actions
      BY DEF Due
    <3>3. QED BY <3>1, <3>2, <1>wk DEF SweepType, SweepPC, WorkingPC, AskingPC
  <2>2. QED BY <1>5, <2>1 DEF TypeOK, StartSweep, Due
<1>6. ASSUME NEW s \in Sweepers, EndSweep(s) PROVE TypeOK'
  <2>1. wk' \in [Sweepers -> SweepType]
    BY <1>6, <1>wk DEF EndSweep, SweepType, SweepPC, WorkingPC, AskingPC
  <2>2. QED BY <1>6, <2>1 DEF TypeOK, EndSweep
<1>7. ASSUME NEW s \in Sweepers, NEW a \in Actions, Claim(s, a) PROVE TypeOK'
  <2>1. row' \in [Actions -> RowType]
    BY <1>7, <1>row DEF Claim, Claimable, RowType, Statuses
  <2>2. wk' \in [Sweepers -> SweepType]
    BY <1>7, <1>wk DEF Claim, Claimable, SweepType, SweepPC, WorkingPC, AskingPC
  <2>3. ruledOut' \in [Actions -> SUBSET Happenings]
    BY <1>7, <1>ruledOut, <1>since DEF Claim, Claimable
  <2>4. QED BY <1>7, <2>1, <2>2, <2>3 DEF TypeOK, Claim, Claimable
<1>8. ASSUME NEW s \in Sweepers, Load(s) PROVE TypeOK'
  <2>1. wk' \in [Sweepers -> SweepType]
    <3> DEFINE m == row[wk[s].act].assignee
    <3>1. m \in Members
      BY <1>8, <1>row DEF Load, Owned, Working, WorkingPC, RowType
    <3>2. wk' = [wk EXCEPT ![s].pc = "contact", ![s].assignee = m]
      BY <1>8 DEF Load
    <3>3. [wk[s] EXCEPT !.pc = "contact", !.assignee = m] \in SweepType
      BY <3>1, <1>wk DEF SweepType, SweepPC, WorkingPC, AskingPC
    <3> HIDE DEF m
    <3>4. QED BY <3>2, <3>3, <1>wk
  <2>2. QED BY <1>8, <2>1 DEF TypeOK, Load
<1>9. ASSUME NEW s \in Sweepers, Revalidate(s) PROVE TypeOK'
  <2>1. wk' \in [Sweepers -> SweepType]
    BY <1>9, <1>wk DEF Revalidate, Answers, SweepType, SweepPC, WorkingPC, AskingPC, After
  <2>2. QED BY <1>9, <2>1 DEF TypeOK, Revalidate, Answers
<1>10. ASSUME NEW s \in Sweepers, SkipRow(s) PROVE TypeOK'
  <2>1. row' \in [Actions -> RowType]
    BY <1>10, <1>row DEF SkipRow, Settle, RowType, Statuses, SweepType
  <2>2. wk' \in [Sweepers -> SweepType]
    BY <1>10, <1>wk DEF SkipRow, Settle, SweepType, SweepPC, WorkingPC, AskingPC
  <2>3. QED BY <1>10, <2>1, <2>2 DEF TypeOK, SkipRow, Settle
<1>11. ASSUME NEW s \in Sweepers, Materialize(s) PROVE TypeOK'
  <2>1. task' \in [Actions -> TaskType]
    BY <1>11, <1>task, <1>wk DEF Materialize, TaskType, SweepType
  <2>2. wk' \in [Sweepers -> SweepType]
    BY <1>11, <1>task, <1>wk DEF Materialize, SweepType, SweepPC, WorkingPC, AskingPC
  <2>3. QED BY <1>11, <2>1, <2>2 DEF TypeOK, Materialize
<1>12. ASSUME NEW s \in Sweepers, MarkExecuted(s) PROVE TypeOK'
  <2>1. row' \in [Actions -> RowType]
    BY <1>12, <1>row DEF MarkExecuted, Settle, RowType, Statuses, SweepType
  <2>2. wk' \in [Sweepers -> SweepType]
    BY <1>12, <1>wk DEF MarkExecuted, Settle, SweepType, SweepPC, WorkingPC, AskingPC
  <2>3. QED BY <1>12, <2>1, <2>2 DEF TypeOK, MarkExecuted, Settle
<1>13. ASSUME NEW s \in Sweepers, MarkFailed(s) PROVE TypeOK'
  <2>1. row' \in [Actions -> RowType]
    BY <1>13, <1>row DEF MarkFailed, Settle, RowType, Statuses, SweepType
  <2>2. wk' \in [Sweepers -> SweepType]
    BY <1>13, <1>wk DEF MarkFailed, Settle, SweepType, SweepPC, WorkingPC, AskingPC
  <2>3. QED BY <1>13, <2>1, <2>2 DEF TypeOK, MarkFailed, Settle
<1>14. ASSUME NEW s \in Sweepers, Throw(s) PROVE TypeOK'
  <2>1. wk' \in [Sweepers -> SweepType]
    BY <1>14, <1>wk DEF Throw, SweepType, SweepPC, WorkingPC, AskingPC
  <2>2. faults' \in 0..MaxFaults
    BY <1>14, <1>faults DEF Throw
  <2>3. QED BY <1>14, <2>1, <2>2 DEF TypeOK, Throw
<1>15. ASSUME NEW s \in Sweepers, Crash(s) PROVE TypeOK'
  <2>1. wk' \in [Sweepers -> SweepType]
    BY <1>15, <1>wk DEF Crash, IdleSweeper, SweepType, SweepPC, WorkingPC, AskingPC
  <2>2. faults' \in 0..MaxFaults
    BY <1>15, <1>faults DEF Crash, IdleSweeper
  <2>3. QED BY <1>15, <2>1, <2>2 DEF TypeOK, Crash, IdleSweeper
<1>16. ASSUME NEW c \in Clients, NEW a \in Actions, CancelRead(c, a) PROVE TypeOK'
  <2>1. req' \in [Clients -> CallType]
    <3>1. CASE row[a].status \in {"pending", "failed"}
      <4>1. req' = [req EXCEPT ![c].pc = "cancel", ![c].act = a, ![c].cancellable = TRUE]
        BY <1>16, <3>1 DEF CancelRead
      <4>2. QED BY <4>1, <1>req DEF CallType
    <3>2. CASE row[a].status \notin {"pending", "failed"}
      <4>1. (row[a].status \in {"pending", "failed"}) = FALSE
        BY <3>2
      <4>2. req' = [req EXCEPT ![c].pc = "cancel", ![c].act = a, ![c].cancellable = FALSE]
        BY <1>16, <4>1, Zenon DEF CancelRead
      <4>3. QED BY <4>2, <1>req DEF CallType
    <3>3. QED BY <3>1, <3>2
  <2>2. QED BY <1>16, <2>1 DEF TypeOK, CancelRead
<1>17. ASSUME NEW c \in Clients, CancelWrite(c) PROVE TypeOK'
  <2>1. row' \in [Actions -> RowType]
    BY <1>17, <1>req, <1>row DEF CancelWrite, IdleClient, RowType, Statuses
  <2>2. req' \in [Clients -> CallType]
    BY <1>17, <1>req, <1>row DEF CancelWrite, IdleClient, CallType
  <2>3. QED BY <1>17, <2>1, <2>2 DEF TypeOK, CancelWrite, IdleClient
<1>18. ASSUME NEW c \in Clients, NEW a \in Actions, NEW m \in Members, RouteRead(c, a, m) PROVE TypeOK'
  <2>1. req' \in [Clients -> CallType]
    BY <1>18, <1>req DEF RouteRead, Routable, CallType
  <2>2. QED BY <1>18, <2>1 DEF TypeOK, RouteRead, Routable
<1>19. ASSUME NEW c \in Clients, RouteWrite(c) PROVE TypeOK'
  <2>1. row' \in [Actions -> RowType]
    BY <1>19, <1>req, <1>row DEF RouteWrite, Routable, IdleClient, RowType, CallType
  <2>2. req' \in [Clients -> CallType]
    BY <1>19, <1>req, <1>row DEF RouteWrite, Routable, IdleClient, CallType
  <2>3. QED BY <1>19, <2>1, <2>2 DEF TypeOK, RouteWrite, Routable, IdleClient
<1>20. CASE UNCHANGED vars
  BY <1>20 DEF TypeOK, vars
<1>21. QED BY <1>1, <1>2, <1>3, <1>4, <1>5, <1>6, <1>7, <1>8, <1>9, <1>10, <1>11, <1>12, <1>13, <1>14, <1>15, <1>16, <1>17, <1>18, <1>19, <1>20 DEF Next, SweepStep, ClientStep

\* Only Claim gives a row to a sweep, and only a pending one.
LEMMA OwnedStep ==
  ASSUME TypeOK, Owned, [Next]_vars
  PROVE  Owned'
<1> USE DEF TypeOK, RowType, TaskType, SweepType, Owned, Working, WorkingPC, AskingPC
<1>1. ASSUME NEW a \in Actions, NEW m \in Members, Schedule(a, m) PROVE Owned'
  BY <1>1 DEF Schedule
<1>2. ASSUME NEW a \in Actions, FallDue(a) PROVE Owned'
  BY <1>2 DEF FallDue
<1>3. ASSUME NEW a \in Actions, NEW h \in Happenings, Happens(a, h) PROVE Owned'
  BY <1>3 DEF Happens
<1>4. ASSUME NEW a \in Actions, CloseTask(a) PROVE Owned'
  BY <1>4 DEF CloseTask
<1>5. ASSUME NEW s \in Sweepers, StartSweep(s) PROVE Owned'
  BY <1>5 DEF StartSweep, Due
<1>6. ASSUME NEW s \in Sweepers, EndSweep(s) PROVE Owned'
  BY <1>6 DEF EndSweep
<1>7. ASSUME NEW s \in Sweepers, NEW a \in Actions, Claim(s, a) PROVE Owned'
  <2>1. CASE row[a].status = "pending"
    BY <1>7, <2>1 DEF Claim, Claimable
  <2>2. CASE row[a].status # "pending"
    <3>1. row' = row /\ wk' = [wk EXCEPT ![s].todo = @ \ {a}]
      BY <1>7, <2>2 DEF Claim, Claimable
    <3>2. \A t \in Sweepers : wk'[t].pc = wk[t].pc /\ wk'[t].act = wk[t].act
      BY <3>1
    <3>3. QED BY <1>7, <3>1, <3>2 DEF Claim
  <2>3. QED BY <2>1, <2>2
<1>8. ASSUME NEW s \in Sweepers, Load(s) PROVE Owned'
  BY <1>8 DEF Load
<1>9. ASSUME NEW s \in Sweepers, Revalidate(s) PROVE Owned'
  BY <1>9 DEF Revalidate, Answers
<1>10. ASSUME NEW s \in Sweepers, SkipRow(s) PROVE Owned'
  BY <1>10 DEF SkipRow, Settle
<1>11. ASSUME NEW s \in Sweepers, Materialize(s) PROVE Owned'
  BY <1>11 DEF Materialize
<1>12. ASSUME NEW s \in Sweepers, MarkExecuted(s) PROVE Owned'
  BY <1>12 DEF MarkExecuted, Settle
<1>13. ASSUME NEW s \in Sweepers, MarkFailed(s) PROVE Owned'
  BY <1>13 DEF MarkFailed, Settle
<1>14. ASSUME NEW s \in Sweepers, Throw(s) PROVE Owned'
  BY <1>14 DEF Throw
<1>15. ASSUME NEW s \in Sweepers, Crash(s) PROVE Owned'
  BY <1>15 DEF Crash, IdleSweeper
<1>16. ASSUME NEW c \in Clients, NEW a \in Actions, CancelRead(c, a) PROVE Owned'
  BY <1>16 DEF CancelRead
<1>17. ASSUME NEW c \in Clients, CancelWrite(c) PROVE Owned'
  BY <1>17 DEF CancelWrite, IdleClient
<1>18. ASSUME NEW c \in Clients, NEW a \in Actions, NEW m \in Members, RouteRead(c, a, m) PROVE Owned'
  BY <1>18 DEF RouteRead, Routable
<1>19. ASSUME NEW c \in Clients, RouteWrite(c) PROVE Owned'
  BY <1>19 DEF RouteWrite, Routable, IdleClient
<1>20. CASE UNCHANGED vars
  BY <1>20 DEF vars
<1>21. QED BY <1>1, <1>2, <1>3, <1>4, <1>5, <1>6, <1>7, <1>8, <1>9, <1>10, <1>11, <1>12, <1>13, <1>14, <1>15, <1>16, <1>17, <1>18, <1>19, <1>20 DEF Next, SweepStep, ClientStep

\* A task appears by Materialize alone, for a row that is executing.
LEMMA HiddenStep ==
  ASSUME TypeOK, Owned, Hidden, [Next]_vars
  PROVE  Hidden'
<1> USE DEF TypeOK, RowType, TaskType, SweepType, Owned, Working, WorkingPC, AskingPC, Hidden, Task
<1>1. ASSUME NEW a \in Actions, NEW m \in Members, Schedule(a, m) PROVE Hidden'
  BY <1>1 DEF Schedule
<1>2. ASSUME NEW a \in Actions, FallDue(a) PROVE Hidden'
  BY <1>2 DEF FallDue
<1>3. ASSUME NEW a \in Actions, NEW h \in Happenings, Happens(a, h) PROVE Hidden'
  BY <1>3 DEF Happens
<1>4. ASSUME NEW a \in Actions, CloseTask(a) PROVE Hidden'
  BY <1>4 DEF CloseTask
<1>5. ASSUME NEW s \in Sweepers, StartSweep(s) PROVE Hidden'
  BY <1>5 DEF StartSweep, Due
<1>6. ASSUME NEW s \in Sweepers, EndSweep(s) PROVE Hidden'
  BY <1>6 DEF EndSweep
<1>7. ASSUME NEW s \in Sweepers, NEW a \in Actions, Claim(s, a) PROVE Hidden'
  <2>1. CASE row[a].status = "pending"
    <3>1. /\ ~Task(a)
          /\ task' = task
          /\ row' = [row EXCEPT ![a].status = "executing"]
          /\ wk' = [wk EXCEPT ![s].pc = "load", ![s].act = a, ![s].todo = @ \ {a}]
      BY <1>7, <2>1 DEF Claim, Claimable
    <3>2. \A b \in Actions : row'[b].status = IF b = a THEN "executing" ELSE row[b].status
      BY <3>1
    <3>3. \A t \in Sweepers \ {s} : wk'[t] = wk[t]
      BY <3>1
    <3>4. wk'[s].pc = "load" /\ wk'[s].act = a
      BY <3>1
    <3>5. QED BY <3>1, <3>2, <3>3, <3>4
  <2>2. CASE row[a].status # "pending"
    <3>1. row' = row /\ wk' = [wk EXCEPT ![s].todo = @ \ {a}]
      BY <1>7, <2>2 DEF Claim, Claimable
    <3>2. \A t \in Sweepers : wk'[t].pc = wk[t].pc /\ wk'[t].act = wk[t].act
      BY <3>1
    <3>3. QED BY <1>7, <3>1, <3>2 DEF Claim
  <2>3. QED BY <2>1, <2>2
<1>8. ASSUME NEW s \in Sweepers, Load(s) PROVE Hidden'
  BY <1>8 DEF Load
<1>9. ASSUME NEW s \in Sweepers, Revalidate(s) PROVE Hidden'
  BY <1>9 DEF Revalidate, Answers
<1>10. ASSUME NEW s \in Sweepers, SkipRow(s) PROVE Hidden'
  BY <1>10 DEF SkipRow, Settle
<1>11. ASSUME NEW s \in Sweepers, Materialize(s) PROVE Hidden'
  BY <1>11 DEF Materialize
<1>12. ASSUME NEW s \in Sweepers, MarkExecuted(s) PROVE Hidden'
  BY <1>12 DEF MarkExecuted, Settle
<1>13. ASSUME NEW s \in Sweepers, MarkFailed(s) PROVE Hidden'
  BY <1>13 DEF MarkFailed, Settle
<1>14. ASSUME NEW s \in Sweepers, Throw(s) PROVE Hidden'
  BY <1>14 DEF Throw
<1>15. ASSUME NEW s \in Sweepers, Crash(s) PROVE Hidden'
  BY <1>15 DEF Crash, IdleSweeper
<1>16. ASSUME NEW c \in Clients, NEW a \in Actions, CancelRead(c, a) PROVE Hidden'
  BY <1>16 DEF CancelRead
<1>17. ASSUME NEW c \in Clients, CancelWrite(c) PROVE Hidden'
  BY <1>17 DEF CancelWrite, IdleClient
<1>18. ASSUME NEW c \in Clients, NEW a \in Actions, NEW m \in Members, RouteRead(c, a, m) PROVE Hidden'
  BY <1>18 DEF RouteRead, Routable
<1>19. ASSUME NEW c \in Clients, RouteWrite(c) PROVE Hidden'
  BY <1>19 DEF RouteWrite, Routable, IdleClient
<1>20. CASE UNCHANGED vars
  BY <1>20 DEF vars
<1>21. QED BY <1>1, <1>2, <1>3, <1>4, <1>5, <1>6, <1>7, <1>8, <1>9, <1>10, <1>11, <1>12, <1>13, <1>14, <1>15, <1>16, <1>17, <1>18, <1>19, <1>20 DEF Next, SweepStep, ClientStep

\* Happenings only accumulate, so what a query finds missing was missing at the claim.
LEMMA AskedStep ==
  ASSUME TypeOK, Owned, Asked, [Next]_vars
  PROVE  Asked'
<1> USE DEF TypeOK, RowType, TaskType, SweepType, Owned, Working, WorkingPC, AskingPC, Asked
<1>1. ASSUME NEW a \in Actions, NEW m \in Members, Schedule(a, m) PROVE Asked'
  BY <1>1 DEF Schedule
<1>2. ASSUME NEW a \in Actions, FallDue(a) PROVE Asked'
  BY <1>2 DEF FallDue
<1>3. ASSUME NEW a \in Actions, NEW h \in Happenings, Happens(a, h) PROVE Asked'
  BY <1>3 DEF Happens
<1>4. ASSUME NEW a \in Actions, CloseTask(a) PROVE Asked'
  BY <1>4 DEF CloseTask
<1>5. ASSUME NEW s \in Sweepers, StartSweep(s) PROVE Asked'
  BY <1>5 DEF StartSweep, Due
<1>6. ASSUME NEW s \in Sweepers, EndSweep(s) PROVE Asked'
  BY <1>6 DEF EndSweep
<1>7. ASSUME NEW s \in Sweepers, NEW a \in Actions, Claim(s, a) PROVE Asked'
  BY <1>7 DEF Claim, Claimable
<1>8. ASSUME NEW s \in Sweepers, Load(s) PROVE Asked'
  BY <1>8 DEF Load
<1>9. ASSUME NEW s \in Sweepers, Revalidate(s) PROVE Asked'
  <2>1. wk[s].act \in Actions
    BY <1>9 DEF Revalidate
  <2>2. PICK against \in Answers(wk[s].act, wk[s].pc) :
          wk' = [wk EXCEPT ![s].pc = IF against THEN "skip" ELSE After[@]]
    BY <1>9 DEF Revalidate
  <2>3. CASE against
    <3>1. wk' = [wk EXCEPT ![s].pc = "skip"]
      BY <2>2, <2>3
    <3>2. QED BY <1>9, <3>1 DEF Revalidate
  <2>4. CASE ~against /\ wk[s].pc = "contact"
    <3>1. wk' = [wk EXCEPT ![s].pc = "open"]
      BY <2>2, <2>4 DEF After
    <3>2. QED BY <1>9, <2>4, <3>1 DEF Revalidate
  <2>5. CASE ~against /\ wk[s].pc = "open"
    <3>1. wk' = [wk EXCEPT ![s].pc = "purchase"]
      BY <2>2, <2>5 DEF After
    <3>2. QED BY <1>9, <2>5, <3>1 DEF Revalidate
  <2>6. CASE ~against /\ wk[s].pc = "purchase"
    <3>1. wk' = [wk EXCEPT ![s].pc = "call"]
      BY <2>2, <2>6 DEF After
    <3>2. "purchase" \notin ruledOut[wk[s].act]
      BY <2>1, <2>2, <2>6 DEF Answers
    <3>3. QED BY <1>9, <2>6, <3>1, <3>2 DEF Revalidate
  <2>7. CASE ~against /\ wk[s].pc = "call"
    <3>1. wk' = [wk EXCEPT ![s].pc = "create"]
      BY <2>2, <2>7 DEF After
    <3>2. "call" \notin ruledOut[wk[s].act]
      BY <2>1, <2>2, <2>7 DEF Answers
    <3>3. ruledOut[wk[s].act] = {}
      BY <2>1, <2>7, <3>2 DEF Happenings
    <3>4. QED BY <1>9, <2>7, <3>1, <3>3 DEF Revalidate
  <2>8. QED BY <1>9, <2>3, <2>4, <2>5, <2>6, <2>7 DEF Revalidate
<1>10. ASSUME NEW s \in Sweepers, SkipRow(s) PROVE Asked'
  BY <1>10 DEF SkipRow, Settle
<1>11. ASSUME NEW s \in Sweepers, Materialize(s) PROVE Asked'
  BY <1>11 DEF Materialize
<1>12. ASSUME NEW s \in Sweepers, MarkExecuted(s) PROVE Asked'
  BY <1>12 DEF MarkExecuted, Settle
<1>13. ASSUME NEW s \in Sweepers, MarkFailed(s) PROVE Asked'
  BY <1>13 DEF MarkFailed, Settle
<1>14. ASSUME NEW s \in Sweepers, Throw(s) PROVE Asked'
  BY <1>14 DEF Throw
<1>15. ASSUME NEW s \in Sweepers, Crash(s) PROVE Asked'
  BY <1>15 DEF Crash, IdleSweeper
<1>16. ASSUME NEW c \in Clients, NEW a \in Actions, CancelRead(c, a) PROVE Asked'
  BY <1>16 DEF CancelRead
<1>17. ASSUME NEW c \in Clients, CancelWrite(c) PROVE Asked'
  BY <1>17 DEF CancelWrite, IdleClient
<1>18. ASSUME NEW c \in Clients, NEW a \in Actions, NEW m \in Members, RouteRead(c, a, m) PROVE Asked'
  BY <1>18 DEF RouteRead, Routable
<1>19. ASSUME NEW c \in Clients, RouteWrite(c) PROVE Asked'
  BY <1>19 DEF RouteWrite, Routable, IdleClient
<1>20. CASE UNCHANGED vars
  BY <1>20 DEF vars
<1>21. QED BY <1>1, <1>2, <1>3, <1>4, <1>5, <1>6, <1>7, <1>8, <1>9, <1>10, <1>11, <1>12, <1>13, <1>14, <1>15, <1>16, <1>17, <1>18, <1>19, <1>20 DEF Next, SweepStep, ClientStep

\* Routing changes pending rows only.
LEMMA ReadStep ==
  ASSUME TypeOK, Owned, Read, [Next]_vars
  PROVE  Read'
<1> USE DEF TypeOK, RowType, TaskType, SweepType, Owned, Working, WorkingPC, AskingPC, Read
<1>1. ASSUME NEW a \in Actions, NEW m \in Members, Schedule(a, m) PROVE Read'
  BY <1>1 DEF Schedule
<1>2. ASSUME NEW a \in Actions, FallDue(a) PROVE Read'
  BY <1>2 DEF FallDue
<1>3. ASSUME NEW a \in Actions, NEW h \in Happenings, Happens(a, h) PROVE Read'
  BY <1>3 DEF Happens
<1>4. ASSUME NEW a \in Actions, CloseTask(a) PROVE Read'
  BY <1>4 DEF CloseTask
<1>5. ASSUME NEW s \in Sweepers, StartSweep(s) PROVE Read'
  BY <1>5 DEF StartSweep, Due
<1>6. ASSUME NEW s \in Sweepers, EndSweep(s) PROVE Read'
  BY <1>6 DEF EndSweep
<1>7. ASSUME NEW s \in Sweepers, NEW a \in Actions, Claim(s, a) PROVE Read'
  BY <1>7 DEF Claim, Claimable
<1>8. ASSUME NEW s \in Sweepers, Load(s) PROVE Read'
  BY <1>8 DEF Load
<1>9. ASSUME NEW s \in Sweepers, Revalidate(s) PROVE Read'
  BY <1>9 DEF Revalidate, Answers
<1>10. ASSUME NEW s \in Sweepers, SkipRow(s) PROVE Read'
  BY <1>10 DEF SkipRow, Settle
<1>11. ASSUME NEW s \in Sweepers, Materialize(s) PROVE Read'
  BY <1>11 DEF Materialize
<1>12. ASSUME NEW s \in Sweepers, MarkExecuted(s) PROVE Read'
  BY <1>12 DEF MarkExecuted, Settle
<1>13. ASSUME NEW s \in Sweepers, MarkFailed(s) PROVE Read'
  BY <1>13 DEF MarkFailed, Settle
<1>14. ASSUME NEW s \in Sweepers, Throw(s) PROVE Read'
  BY <1>14 DEF Throw
<1>15. ASSUME NEW s \in Sweepers, Crash(s) PROVE Read'
  BY <1>15 DEF Crash, IdleSweeper
<1>16. ASSUME NEW c \in Clients, NEW a \in Actions, CancelRead(c, a) PROVE Read'
  BY <1>16 DEF CancelRead
<1>17. ASSUME NEW c \in Clients, CancelWrite(c) PROVE Read'
  BY <1>17 DEF CancelWrite, IdleClient
<1>18. ASSUME NEW c \in Clients, NEW a \in Actions, NEW m \in Members, RouteRead(c, a, m) PROVE Read'
  BY <1>18 DEF RouteRead, Routable
<1>19. ASSUME NEW c \in Clients, RouteWrite(c) PROVE Read'
  BY <1>19 DEF RouteWrite, Routable, IdleClient
<1>20. CASE UNCHANGED vars
  BY <1>20 DEF vars
<1>21. QED BY <1>1, <1>2, <1>3, <1>4, <1>5, <1>6, <1>7, <1>8, <1>9, <1>10, <1>11, <1>12, <1>13, <1>14, <1>15, <1>16, <1>17, <1>18, <1>19, <1>20 DEF Next, SweepStep, ClientStep

\* Only pending rows, which have no task, are claimed.
LEMMA RevalidatedStep ==
  ASSUME TypeOK, Owned, Hidden, Asked, NoTaskPastRevalidation, [Next]_vars
  PROVE  NoTaskPastRevalidation'
<1> USE DEF TypeOK, RowType, TaskType, SweepType, Owned, Working, WorkingPC, AskingPC, Hidden, Asked, NoTaskPastRevalidation, Task
<1>1. ASSUME NEW a \in Actions, NEW m \in Members, Schedule(a, m) PROVE NoTaskPastRevalidation'
  BY <1>1 DEF Schedule
<1>2. ASSUME NEW a \in Actions, FallDue(a) PROVE NoTaskPastRevalidation'
  BY <1>2 DEF FallDue
<1>3. ASSUME NEW a \in Actions, NEW h \in Happenings, Happens(a, h) PROVE NoTaskPastRevalidation'
  BY <1>3 DEF Happens
<1>4. ASSUME NEW a \in Actions, CloseTask(a) PROVE NoTaskPastRevalidation'
  BY <1>4 DEF CloseTask
<1>5. ASSUME NEW s \in Sweepers, StartSweep(s) PROVE NoTaskPastRevalidation'
  BY <1>5 DEF StartSweep, Due
<1>6. ASSUME NEW s \in Sweepers, EndSweep(s) PROVE NoTaskPastRevalidation'
  BY <1>6 DEF EndSweep
<1>7. ASSUME NEW s \in Sweepers, NEW a \in Actions, Claim(s, a) PROVE NoTaskPastRevalidation'
  BY <1>7 DEF Claim, Claimable
<1>8. ASSUME NEW s \in Sweepers, Load(s) PROVE NoTaskPastRevalidation'
  BY <1>8 DEF Load
<1>9. ASSUME NEW s \in Sweepers, Revalidate(s) PROVE NoTaskPastRevalidation'
  BY <1>9 DEF Revalidate, Answers
<1>10. ASSUME NEW s \in Sweepers, SkipRow(s) PROVE NoTaskPastRevalidation'
  BY <1>10 DEF SkipRow, Settle
<1>11. ASSUME NEW s \in Sweepers, Materialize(s) PROVE NoTaskPastRevalidation'
  BY <1>11 DEF Materialize
<1>12. ASSUME NEW s \in Sweepers, MarkExecuted(s) PROVE NoTaskPastRevalidation'
  BY <1>12 DEF MarkExecuted, Settle
<1>13. ASSUME NEW s \in Sweepers, MarkFailed(s) PROVE NoTaskPastRevalidation'
  BY <1>13 DEF MarkFailed, Settle
<1>14. ASSUME NEW s \in Sweepers, Throw(s) PROVE NoTaskPastRevalidation'
  BY <1>14 DEF Throw
<1>15. ASSUME NEW s \in Sweepers, Crash(s) PROVE NoTaskPastRevalidation'
  BY <1>15 DEF Crash, IdleSweeper
<1>16. ASSUME NEW c \in Clients, NEW a \in Actions, CancelRead(c, a) PROVE NoTaskPastRevalidation'
  BY <1>16 DEF CancelRead
<1>17. ASSUME NEW c \in Clients, CancelWrite(c) PROVE NoTaskPastRevalidation'
  BY <1>17 DEF CancelWrite, IdleClient
<1>18. ASSUME NEW c \in Clients, NEW a \in Actions, NEW m \in Members, RouteRead(c, a, m) PROVE NoTaskPastRevalidation'
  BY <1>18 DEF RouteRead, Routable
<1>19. ASSUME NEW c \in Clients, RouteWrite(c) PROVE NoTaskPastRevalidation'
  BY <1>19 DEF RouteWrite, Routable, IdleClient
<1>20. CASE UNCHANGED vars
  BY <1>20 DEF vars
<1>21. QED BY <1>1, <1>2, <1>3, <1>4, <1>5, <1>6, <1>7, <1>8, <1>9, <1>10, <1>11, <1>12, <1>13, <1>14, <1>15, <1>16, <1>17, <1>18, <1>19, <1>20 DEF Next, SweepStep, ClientStep

\* Materialize copies the assignee the sweep read.
LEMMA FollowsStep ==
  ASSUME TypeOK, Owned, Hidden, Read, TaskFollowsRow, [Next]_vars
  PROVE  TaskFollowsRow'
<1> USE DEF TypeOK, RowType, TaskType, SweepType, Owned, Working, WorkingPC, AskingPC, Hidden, Read, TaskFollowsRow, Task
<1>1. ASSUME NEW a \in Actions, NEW m \in Members, Schedule(a, m) PROVE TaskFollowsRow'
  BY <1>1 DEF Schedule
<1>2. ASSUME NEW a \in Actions, FallDue(a) PROVE TaskFollowsRow'
  BY <1>2 DEF FallDue
<1>3. ASSUME NEW a \in Actions, NEW h \in Happenings, Happens(a, h) PROVE TaskFollowsRow'
  BY <1>3 DEF Happens
<1>4. ASSUME NEW a \in Actions, CloseTask(a) PROVE TaskFollowsRow'
  BY <1>4 DEF CloseTask
<1>5. ASSUME NEW s \in Sweepers, StartSweep(s) PROVE TaskFollowsRow'
  BY <1>5 DEF StartSweep, Due
<1>6. ASSUME NEW s \in Sweepers, EndSweep(s) PROVE TaskFollowsRow'
  BY <1>6 DEF EndSweep
<1>7. ASSUME NEW s \in Sweepers, NEW a \in Actions, Claim(s, a) PROVE TaskFollowsRow'
  BY <1>7 DEF Claim, Claimable
<1>8. ASSUME NEW s \in Sweepers, Load(s) PROVE TaskFollowsRow'
  BY <1>8 DEF Load
<1>9. ASSUME NEW s \in Sweepers, Revalidate(s) PROVE TaskFollowsRow'
  BY <1>9 DEF Revalidate, Answers
<1>10. ASSUME NEW s \in Sweepers, SkipRow(s) PROVE TaskFollowsRow'
  BY <1>10 DEF SkipRow, Settle
<1>11. ASSUME NEW s \in Sweepers, Materialize(s) PROVE TaskFollowsRow'
  BY <1>11 DEF Materialize
<1>12. ASSUME NEW s \in Sweepers, MarkExecuted(s) PROVE TaskFollowsRow'
  BY <1>12 DEF MarkExecuted, Settle
<1>13. ASSUME NEW s \in Sweepers, MarkFailed(s) PROVE TaskFollowsRow'
  BY <1>13 DEF MarkFailed, Settle
<1>14. ASSUME NEW s \in Sweepers, Throw(s) PROVE TaskFollowsRow'
  BY <1>14 DEF Throw
<1>15. ASSUME NEW s \in Sweepers, Crash(s) PROVE TaskFollowsRow'
  BY <1>15 DEF Crash, IdleSweeper
<1>16. ASSUME NEW c \in Clients, NEW a \in Actions, CancelRead(c, a) PROVE TaskFollowsRow'
  BY <1>16 DEF CancelRead
<1>17. ASSUME NEW c \in Clients, CancelWrite(c) PROVE TaskFollowsRow'
  BY <1>17 DEF CancelWrite, IdleClient
<1>18. ASSUME NEW c \in Clients, NEW a \in Actions, NEW m \in Members, RouteRead(c, a, m) PROVE TaskFollowsRow'
  BY <1>18 DEF RouteRead, Routable
<1>19. ASSUME NEW c \in Clients, RouteWrite(c) PROVE TaskFollowsRow'
  BY <1>19 DEF RouteWrite, Routable, IdleClient
<1>20. CASE UNCHANGED vars
  BY <1>20 DEF vars
<1>21. QED BY <1>1, <1>2, <1>3, <1>4, <1>5, <1>6, <1>7, <1>8, <1>9, <1>10, <1>11, <1>12, <1>13, <1>14, <1>15, <1>16, <1>17, <1>18, <1>19, <1>20 DEF Next, SweepStep, ClientStep

LEMMA InitInv == Init => IInv
<1> SUFFICES ASSUME Init PROVE IInv
  OBVIOUS
<1> USE SweepAssumption DEF Init, IdleSweeper, IdleClient
<1>1. TypeOK
  BY DEF TypeOK, RowType, TaskType, SweepType, CallType, Statuses, SweepPC
<1>2. Owned /\ Hidden /\ Asked /\ Read
  BY DEF Owned, Hidden, Asked, Read, Working, WorkingPC, AskingPC, Task
<1>3. NoTaskPastRevalidation /\ TaskFollowsRow
  BY DEF NoTaskPastRevalidation, TaskFollowsRow, Task
<1>4. QED BY <1>1, <1>2, <1>3 DEF IInv

LEMMA StepInv == IInv /\ [Next]_vars => IInv'
  BY TypeStep, OwnedStep, HiddenStep, AskedStep, ReadStep, RevalidatedStep, FollowsStep DEF IInv

LEMMA Invariance == Spec => []IInv
  BY InitInv, StepInv, PTL DEF Spec

\* Every value a variable takes is of its type, whatever the bounds.
THEOREM TypeCorrect == Spec => []TypeOK
<1>1. IInv => TypeOK
  BY DEF IInv
<1>2. QED BY <1>1, Invariance, PTL

\* A purchase or a later call that a policy asks about, and that precedes the
\* claim, keeps the staff task from appearing, whichever sweeps race.
THEOREM RevalidationHolds == Spec => []NoTaskPastRevalidation
<1>1. IInv => NoTaskPastRevalidation
  BY DEF IInv
<1>2. QED BY <1>1, Invariance, PTL

\* The task is assigned to the member its row names, however routes race sweeps.
THEOREM AssigneeHolds == Spec => []TaskFollowsRow
<1>1. IInv => TaskFollowsRow
  BY DEF IInv
<1>2. QED BY <1>1, Invariance, PTL

\* What each step does to the deferred task its clients see: nothing, unless it
\* is one of the four steps below.
LEMMA OutcomeInit == Init => DT!DTInit
  BY DEF Init, DT!DTInit, Outcome, Task

LEMMA OutcomeStep ==
  ASSUME IInv, [Next]_vars
  PROVE  DT!DTNext \/ [a \in Actions |-> Outcome(a)]' = [a \in Actions |-> Outcome(a)]
<1> DEFINE S == [a \in Actions |-> Outcome(a)]
<1> USE DEF IInv, TypeOK, RowType, TaskType, SweepType, Owned, Hidden, Working, WorkingPC, AskingPC, Task
<1>1. ASSUME NEW a \in Actions, NEW m \in Members, Schedule(a, m) PROVE DT!DTNext \/ S' = S
  <2>1. a \in Actions /\ Outcome(a) = "absent"
    BY <1>1 DEF Schedule, Outcome
  <2>2. S' = [S EXCEPT ![a] = "hidden"]
    <3>1. \A b \in Actions : Outcome(b)' = IF b = a THEN "hidden" ELSE Outcome(b)
      BY <1>1, <2>1 DEF Schedule, Outcome
    <3>2. QED BY <2>1, <3>1
  <2>3. DT!Defer(a)
    BY <2>1, <2>2 DEF DT!Defer, DT!Become
  <2>4. QED BY <2>1, <2>3 DEF DT!DTNext
<1>2. ASSUME NEW a \in Actions, FallDue(a) PROVE DT!DTNext \/ S' = S
  BY <1>2 DEF FallDue, Outcome
<1>3. ASSUME NEW a \in Actions, NEW h \in Happenings, Happens(a, h) PROVE DT!DTNext \/ S' = S
  BY <1>3 DEF Happens, Outcome
<1>4. ASSUME NEW a \in Actions, CloseTask(a) PROVE DT!DTNext \/ S' = S
  BY <1>4 DEF CloseTask, Outcome
<1>5. ASSUME NEW s \in Sweepers, StartSweep(s) PROVE DT!DTNext \/ S' = S
  BY <1>5 DEF StartSweep, Due, Outcome
<1>6. ASSUME NEW s \in Sweepers, EndSweep(s) PROVE DT!DTNext \/ S' = S
  BY <1>6 DEF EndSweep, Outcome
<1>7. ASSUME NEW s \in Sweepers, NEW a \in Actions, Claim(s, a) PROVE DT!DTNext \/ S' = S
  BY <1>7 DEF Claim, Claimable, Outcome
<1>8. ASSUME NEW s \in Sweepers, Load(s) PROVE DT!DTNext \/ S' = S
  BY <1>8 DEF Load, Outcome
<1>9. ASSUME NEW s \in Sweepers, Revalidate(s) PROVE DT!DTNext \/ S' = S
  BY <1>9 DEF Revalidate, Answers, Outcome
<1>10. ASSUME NEW s \in Sweepers, SkipRow(s) PROVE DT!DTNext \/ S' = S
  <2>1. wk[s].act \in Actions /\ Outcome(wk[s].act) = "hidden"
    BY <1>10 DEF SkipRow, Settle, Outcome
  <2>2. S' = [S EXCEPT ![wk[s].act] = "dropped"]
    <3>1. \A b \in Actions : Outcome(b)' = IF b = wk[s].act THEN "dropped" ELSE Outcome(b)
      BY <1>10, <2>1 DEF SkipRow, Settle, Outcome
    <3>2. QED BY <2>1, <3>1
  <2>3. DT!Drop(wk[s].act)
    BY <2>1, <2>2 DEF DT!Drop, DT!Become
  <2>4. QED BY <2>1, <2>3 DEF DT!DTNext
<1>11. ASSUME NEW s \in Sweepers, Materialize(s) PROVE DT!DTNext \/ S' = S
  <2>1. wk[s].act \in Actions /\ Outcome(wk[s].act) = "hidden"
    BY <1>11 DEF Materialize, Outcome
  <2>2. S' = [S EXCEPT ![wk[s].act] = "visible"]
    BY <1>11, <2>1 DEF Materialize, Outcome
  <2>3. DT!Reveal(wk[s].act)
    BY <2>1, <2>2 DEF DT!Reveal, DT!Become
  <2>4. QED BY <2>1, <2>3 DEF DT!DTNext
<1>12. ASSUME NEW s \in Sweepers, MarkExecuted(s) PROVE DT!DTNext \/ S' = S
  BY <1>12 DEF MarkExecuted, Settle, Outcome
<1>13. ASSUME NEW s \in Sweepers, MarkFailed(s) PROVE DT!DTNext \/ S' = S
  BY <1>13 DEF MarkFailed, Settle, Outcome
<1>14. ASSUME NEW s \in Sweepers, Throw(s) PROVE DT!DTNext \/ S' = S
  BY <1>14 DEF Throw, Outcome
<1>15. ASSUME NEW s \in Sweepers, Crash(s) PROVE DT!DTNext \/ S' = S
  BY <1>15 DEF Crash, IdleSweeper, Outcome
<1>16. ASSUME NEW c \in Clients, NEW a \in Actions, CancelRead(c, a) PROVE DT!DTNext \/ S' = S
  BY <1>16 DEF CancelRead, Outcome
<1>17. ASSUME NEW c \in Clients, CancelWrite(c) PROVE DT!DTNext \/ S' = S
  <2> DEFINE a == req[c].act
  <2>1. CASE row' = row
    BY <1>17, <2>1 DEF CancelWrite, Outcome
  <2>2. CASE row' # row
    <3>1. row[a].status \in {"pending", "failed"} /\ row' = [row EXCEPT ![a].status = "cancelled"]
      BY <1>17, <2>2 DEF CancelWrite
    <3>2. a \in Actions
      BY <2>2, <3>1
    <3>3. CASE Task(a)
      BY <1>17, <3>1, <3>3 DEF CancelWrite, Outcome
    <3>4. CASE ~Task(a)
      <4> HIDE DEF a
      <4>0. Outcome(a) = "hidden" /\ \A b \in Actions : Outcome(b)' = IF b = a THEN "dropped" ELSE Outcome(b)
        BY <1>17, <3>1, <3>2, <3>4 DEF CancelWrite, Outcome
      <4>1. Outcome(a) = "hidden" /\ S' = [S EXCEPT ![a] = "dropped"]
        BY <3>2, <4>0
      <4>2. DT!Drop(a)
        BY <3>2, <4>1 DEF DT!Drop, DT!Become
      <4>3. QED BY <3>2, <4>2 DEF DT!DTNext
    <3>5. QED BY <3>3, <3>4
  <2>3. QED BY <2>1, <2>2
<1>18. ASSUME NEW c \in Clients, NEW a \in Actions, NEW m \in Members, RouteRead(c, a, m) PROVE DT!DTNext \/ S' = S
  BY <1>18 DEF RouteRead, Routable, Outcome
<1>19. ASSUME NEW c \in Clients, RouteWrite(c) PROVE DT!DTNext \/ S' = S
  BY <1>19 DEF RouteWrite, Routable, IdleClient, Outcome
<1>20. CASE UNCHANGED vars
  BY <1>20 DEF vars, Outcome
<1>21. QED BY <1>1, <1>2, <1>3, <1>4, <1>5, <1>6, <1>7, <1>8, <1>9, <1>10, <1>11, <1>12, <1>13, <1>14, <1>15, <1>16, <1>17, <1>18, <1>19, <1>20 DEF Next, SweepStep, ClientStep

\* A deferred action is a DeferredTask: hidden until it is one visible task or
\* dropped for good, through every race of sweeps, cancels, routes and crashes.
THEOREM Refinement == Spec => ImplementsDeferredTask
<1>1. IInv /\ [Next]_vars => [DT!DTNext]_([a \in Actions |-> Outcome(a)])
  BY OutcomeStep
<1>2. QED BY <1>1, OutcomeInit, Invariance, PTL DEF Spec, ImplementsDeferredTask, DT!DTSpec

\* A sweep that asked for open tasks of the intent found none, and none has
\* been opened since: the sweep itself is the only one that opens tasks.
Clear ==
    \A s \in Sweepers :
        /\ wk[s].pc \in {"purchase", "call", "create"}
        /\ "open" \in PolicyOf[wk[s].act]
        => ~OpenForIntent(wk[s].act)

\* A step that opens no task, and takes no sweep past the question.
LEMMA ClearStays ==
  ASSUME Clear, OneOpenTaskPerIntent,
         \A a \in Actions : task'[a].state = "open" => task[a].state = "open",
         \A s \in Sweepers : wk'[s].pc \in {"purchase", "call", "create"} =>
             /\ wk'[s].act = wk[s].act
             /\ \/ wk[s].pc \in {"purchase", "call", "create"}
                \/ "open" \in PolicyOf[wk[s].act] => ~OpenForIntent(wk[s].act)
  PROVE  Clear' /\ OneOpenTaskPerIntent'
<1>1. \A a : OpenForIntent(a)' => OpenForIntent(a)
  BY DEF OpenForIntent
<1>2. Clear'
  BY <1>1 DEF Clear
<1> QED BY <1>2 DEF OneOpenTaskPerIntent

LEMMA ClearStep ==
  ASSUME \A s, t \in Sweepers : s = t, IInv, Clear, OneOpenTaskPerIntent, [Next]_vars
  PROVE  Clear' /\ OneOpenTaskPerIntent'
<1> DEFINE Clean == Clear' /\ OneOpenTaskPerIntent'
<1>a. task \in [Actions -> TaskType] /\ wk \in [Sweepers -> SweepType] /\ Owned
  BY DEF IInv, TypeOK
<1>b. ASSUME UNCHANGED <<task, wk>> PROVE Clean
  BY <1>b, ClearStays
<1>1. ASSUME NEW a \in Actions, NEW m \in Members, Schedule(a, m) PROVE Clean
  BY <1>1, <1>b DEF Schedule
<1>2. ASSUME NEW a \in Actions, FallDue(a) PROVE Clean
  BY <1>2, <1>b DEF FallDue
<1>3. ASSUME NEW a \in Actions, NEW h \in Happenings, Happens(a, h) PROVE Clean
  BY <1>3, <1>b DEF Happens
<1>4. ASSUME NEW a \in Actions, CloseTask(a) PROVE Clean
  <2>1. wk' = wk /\ \A b \in Actions : task'[b].state = "open" => task[b].state = "open"
    BY <1>4, <1>a DEF CloseTask, TaskType
  <2> QED BY <2>1, ClearStays
<1>c. ASSUME NEW s \in Sweepers, UNCHANGED task, \A t \in Sweepers \ {s} : wk'[t] = wk[t],
             wk'[s].pc \notin {"purchase", "call", "create"}
      PROVE  Clean
  BY <1>c, ClearStays
<1>5. ASSUME NEW s \in Sweepers, StartSweep(s) \/ EndSweep(s) \/ Load(s) PROVE Clean
  <2>1. /\ UNCHANGED task /\ \A t \in Sweepers \ {s} : wk'[t] = wk[t]
        /\ wk'[s].pc \in {"claim", "idle", "contact"}
    BY <1>5, <1>a DEF StartSweep, EndSweep, Load, SweepType
  <2> QED BY <2>1, <1>c
<1>6. ASSUME NEW s \in Sweepers, NEW a \in Actions, Claim(s, a) PROVE Clean
  <2>1. /\ UNCHANGED task /\ \A t \in Sweepers \ {s} : wk'[t] = wk[t]
        /\ wk'[s].pc \in {"claim", "load"}
    BY <1>6, <1>a DEF Claim, SweepType
  <2> QED BY <2>1, <1>c
<1>7. ASSUME NEW s \in Sweepers, SkipRow(s) \/ MarkExecuted(s) \/ MarkFailed(s) PROVE Clean
  <2>1. /\ UNCHANGED task /\ \A t \in Sweepers \ {s} : wk'[t] = wk[t]
        /\ wk'[s].pc = "claim"
    BY <1>7, <1>a DEF SkipRow, MarkExecuted, MarkFailed, Settle, SweepType
  <2> QED BY <2>1, <1>c
<1>8. ASSUME NEW s \in Sweepers, Throw(s) \/ Crash(s) PROVE Clean
  <2>1. /\ UNCHANGED task /\ \A t \in Sweepers \ {s} : wk'[t] = wk[t]
        /\ wk'[s].pc \in {"fail", "idle"}
    BY <1>8, <1>a DEF Throw, Crash, IdleSweeper, SweepType
  <2> QED BY <2>1, <1>c
<1>9. ASSUME NEW s \in Sweepers, Revalidate(s) PROVE Clean
  <2>1. PICK against \in Answers(wk[s].act, wk[s].pc) :
          wk' = [wk EXCEPT ![s].pc = IF against THEN "skip" ELSE After[wk[s].pc]]
    BY <1>9 DEF Revalidate
  <2>2. /\ UNCHANGED task /\ wk'[s].act = wk[s].act /\ \A t \in Sweepers \ {s} : wk'[t] = wk[t]
        /\ wk'[s].pc = IF against THEN "skip" ELSE After[wk[s].pc]
    BY <1>9, <1>a, <2>1 DEF Revalidate, SweepType
  <2>3. CASE against \/ wk[s].pc = "contact"
    <3>1. wk'[s].pc \in {"skip", "open"}
      BY <2>2, <2>3 DEF After
    <3> QED BY <2>2, <3>1, <1>c
  <2>4. CASE ~against /\ wk[s].pc = "open"
    <3>1. "open" \in PolicyOf[wk[s].act] => ~OpenForIntent(wk[s].act)
      BY <2>1, <2>4 DEF Answers
    <3> QED BY <2>2, <3>1, ClearStays
  <2>5. CASE wk[s].pc \in {"purchase", "call"}
    BY <2>2, <2>5, ClearStays
  <2> QED BY <1>9, <2>3, <2>4, <2>5 DEF Revalidate, AskingPC
<1>10. ASSUME NEW s \in Sweepers, Materialize(s) PROVE Clean
  <2> DEFINE a == wk[s].act
  <2>1. wk[s].pc = "create" /\ a \in Actions
    BY <1>10, <1>a DEF Materialize, Owned, Working, WorkingPC
  <2>2. wk'[s].pc = "mark" /\ \A t \in Sweepers : t = s
    BY <1>10, <1>a DEF Materialize, SweepType
  <2>3. \A b \in Actions \ {a} : task'[b] = task[b]
    BY <1>10, <1>a, <2>1 DEF Materialize
  <2>4. Clear'
    BY <2>2 DEF Clear
  <2>5. "open" \in PolicyOf[a] =>
           \A b \in Actions \ {a} : IntentOf[b] = IntentOf[a] => task[b].state # "open"
    BY <2>1 DEF Clear, OpenForIntent
  <2>6. OneOpenTaskPerIntent'
    <3> HIDE DEF a
    <3> QED BY <2>1, <2>3, <2>5 DEF OneOpenTaskPerIntent
  <2> QED BY <2>4, <2>6
<1>11. ASSUME NEW c \in Clients, ClientStep(c) PROVE Clean
  BY <1>11, <1>b DEF ClientStep, CancelRead, RouteRead, CancelWrite, RouteWrite
<1>12. ASSUME UNCHANGED vars PROVE Clean
  BY <1>12, <1>b DEF vars
<1> HIDE DEF Clean
<1>13. ASSUME NEW s \in Sweepers, SweepStep(s) PROVE Clean
  <2>1. CASE \E a \in Actions : Claim(s, a)
    BY <2>1, <1>6
  <2> QED BY <1>13, <2>1, <1>5, <1>7, <1>9, <1>10 DEF SweepStep
<1>14. ASSUME NEW s \in Sweepers, SweepStep(s) \/ Throw(s) \/ Crash(s) PROVE Clean
  BY <1>14, <1>13, <1>8
<1>15. ASSUME Next PROVE Clean
  BY <1>15, <1>1, <1>2, <1>3, <1>4, <1>14, <1>11 DEF Next
<1>16. Clean
  BY <1>12, <1>15
<1> QED BY <1>16 DEF Clean

\* With one sweep process the question for an open task is as good as a lock:
\* no two open tasks of one intent come about between asking and creating.
THEOREM OneTaskHolds ==
  ASSUME \A s, t \in Sweepers : s = t
  PROVE  Spec => []OneOpenTaskPerIntent
<1>1. Init => Clear /\ OneOpenTaskPerIntent
  BY DEF Init, Clear, OneOpenTaskPerIntent, IdleSweeper
<1>2. IInv /\ Clear /\ OneOpenTaskPerIntent /\ [Next]_vars => (Clear /\ OneOpenTaskPerIntent)'
  BY ClearStep
<1>3. QED BY <1>1, <1>2, Invariance, PTL DEF Spec
=============================================================================
