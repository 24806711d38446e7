------------------------- MODULE ShopifySync_proofs -------------------------
(***************************************************************************)
(* Proofs about ShopifySync, for every set of workers, requests and        *)
(* resources and every bound.  LeaseExclusive is inductive next to the     *)
(* types.  OneWorkerPerResource is not: under a quiet environment the      *)
(* strengthening QuietInv says that no lease is ever found stale, so       *)
(* nothing but its holder writes a locked row; HadRuns then says that a    *)
(* holder has a run for the failure it may count.                          *)
(***************************************************************************)
EXTENDS ShopifySync, TLAPS

\* A worker past shouldSkip works on a resource.
Placed == \A w \in Workers : wk[w].pc \notin {"idle", "next", "failAllRead"} => wk[w].res \in Resources

TypeInv == TypeOK /\ Placed

LEMMA OneMoreType ==
  ASSUME NEW n \in 0..MaxFailures
  PROVE  OneMore(n) \in 0..MaxFailures
  BY SyncAssumption DEF OneMore

LEMMA ReleasedType ==
  ASSUME NEW s, NEW n \in 0..MaxFailures
  PROVE  Released(s, n) \in RowType
  BY DEF Released, RowType

LEMMA LockedType ==
  ASSUME NEW s \in RowType
  PROVE  Locked(s) \in RowType
  BY DEF Locked, RowType

LEMMA Zero == 0 \in 0..MaxPages /\ 0 \in 0..MaxFailures /\ 0 \in 0..MaxFaults
  BY SyncAssumption

LEMMA PCType ==
  /\ "idle" \in WorkerPC /\ "failAllRead" \in WorkerPC /\ "failAllWrite" \in WorkerPC /\ "next" \in WorkerPC
  /\ "acquire" \in WorkerPC /\ "reread" \in WorkerPC /\ "takeover" \in WorkerPC /\ "log" \in WorkerPC
  /\ "page" \in WorkerPC /\ "complete" \in WorkerPC /\ "finish" \in WorkerPC /\ "failRead" \in WorkerPC
  /\ "failWrite" \in WorkerPC
  BY DEF WorkerPC

LEMMA IdleWorkerType == IdleWorker \in WorkerType
  BY Zero DEF IdleWorker, WorkerType, WorkerPC, Job

LEMMA IdleRequestType == IdleRequest \in RequestType
  BY Zero DEF IdleRequest, RequestType, AllKinds, CheckPC

\* One step per action, and under it one per variable it changes.
LEMMA TypeStep ==
  ASSUME TypeInv, [Next]_vars
  PROVE  TypeOK'
<1>row. row \in [Resources -> RowType]
  BY DEF TypeInv, TypeOK
<1>queue. queue \in Seq(Job)
  BY DEF TypeInv, TypeOK
<1>wk. wk \in [Workers -> WorkerType]
  BY DEF TypeInv, TypeOK
<1>req. req \in [Requests -> RequestType]
  BY DEF TypeInv, TypeOK
<1>faults. faults \in 0..MaxFaults
  BY DEF TypeInv, TypeOK
<1>attempts. attempts \in [Resources -> 0..MaxFailures]
  BY DEF TypeInv, TypeOK
<1>broken. broken \in [Resources -> BOOLEAN]
  BY DEF TypeInv, TypeOK
<1>placed. Placed
  BY DEF TypeInv
<1>1. ASSUME NEW q \in Requests, NEW kind \in Kinds, NEW todo \in SUBSET Resources, StartRequest(q, kind, todo) PROVE TypeOK'
  <2>1. req' \in [Requests -> RequestType]
    BY <1>1, <1>req, SyncAssumption, Zero DEF StartRequest, RequestType, CheckPC, AllKinds
  <2>2. QED BY <1>1, <1>row, <1>queue, <1>wk, <1>faults, <1>attempts, <1>broken, <2>1 DEF TypeOK, StartRequest
<1>2. ASSUME NEW q \in Requests, NEW r \in Resources, CheckRead(q, r) PROVE TypeOK'
  <2>1. req' \in [Requests -> RequestType]
    <3>1. PICK c \in CheckPC : req' = [req EXCEPT ![q].check[r] = c]
      BY <1>2 DEF CheckRead, CheckPC
    <3>2. [req[q].check EXCEPT ![r] = c] \in [Resources -> CheckPC]
      BY <1>req DEF RequestType
    <3>3. QED BY <3>1, <3>2, <1>req DEF RequestType
  <2>2. QED BY <1>2, <1>row, <1>queue, <1>wk, <1>faults, <1>attempts, <1>broken, <2>1 DEF TypeOK, CheckRead
<1>3. ASSUME NEW q \in Requests, NEW r \in Resources, StaleRead(q, r) PROVE TypeOK'
  <2>1. req' \in [Requests -> RequestType]
    <3>1. [req[q].check EXCEPT ![r] = "relWrite"] \in [Resources -> CheckPC]
      BY <1>req DEF RequestType, CheckPC
    <3>2. [req[q].seen EXCEPT ![r] = row[r].failures] \in [Resources -> 0..MaxFailures]
      BY <1>req, <1>row DEF RequestType, RowType
    <3>3. [req[q] EXCEPT !.check[r] = "relWrite", !.seen[r] = row[r].failures] \in RequestType
      BY <3>1, <3>2, <1>req DEF RequestType
    <3>4. QED BY <1>3, <3>3, <1>req DEF StaleRead
  <2>2. QED BY <1>3, <1>row, <1>queue, <1>wk, <1>faults, <1>attempts, <1>broken, <2>1 DEF TypeOK, StaleRead
<1>4. ASSUME NEW q \in Requests, NEW r \in Resources, StaleRelease(q, r) PROVE TypeOK'
  <2>1. row' \in [Resources -> RowType]
    BY <1>4, <1>row, <1>req, OneMoreType, ReleasedType DEF StaleRelease, RequestType
  <2>2. req' \in [Requests -> RequestType]
    <3>1. [req[q].check EXCEPT ![r] = "free"] \in [Resources -> CheckPC]
      BY <1>req DEF RequestType, CheckPC
    <3>2. [req[q].seen EXCEPT ![r] = 0] \in [Resources -> 0..MaxFailures]
      BY <1>req, Zero DEF RequestType
    <3>3. [req[q] EXCEPT !.check[r] = "free", !.seen[r] = 0] \in RequestType
      BY <3>1, <3>2, <1>req DEF RequestType
    <3>4. QED BY <1>4, <3>3, <1>req DEF StaleRelease
  <2>3. broken' \in [Resources -> BOOLEAN]
    BY <1>4, <1>broken DEF StaleRelease, SomeInside
  <2>4. QED BY <1>4, <1>queue, <1>wk, <1>faults, <1>attempts, <2>1, <2>2, <2>3 DEF TypeOK, StaleRelease
<1>5. ASSUME NEW q \in Requests, EndCheck(q) PROVE TypeOK'
  <2>1. req' \in [Requests -> RequestType]
    <3>1. \/ req' = [req EXCEPT ![q] = IdleRequest]
          \/ req' = [req EXCEPT ![q].pc = "reset"]
          \/ req' = [req EXCEPT ![q].pc = "enqueue"]
      BY <1>5 DEF EndCheck
    <3>2. CASE req' = [req EXCEPT ![q] = IdleRequest]
      BY <3>2, <1>req, IdleRequestType
    <3>3. CASE req' = [req EXCEPT ![q].pc = "reset"]
      BY <3>3, <1>req DEF RequestType
    <3>4. CASE req' = [req EXCEPT ![q].pc = "enqueue"]
      BY <3>4, <1>req DEF RequestType
    <3>5. QED BY <3>1, <3>2, <3>3, <3>4
  <2>2. QED BY <1>5, <1>row, <1>queue, <1>wk, <1>faults, <1>attempts, <1>broken, <2>1 DEF TypeOK, EndCheck
<1>6. ASSUME NEW q \in Requests, Reset(q) PROVE TypeOK'
  <2>1. row' \in [Resources -> RowType]
    BY <1>6, <1>row, Zero, ReleasedType DEF Reset
  <2>2. req' \in [Requests -> RequestType]
    BY <1>6, <1>req DEF Reset, RequestType, CheckPC, AllKinds
  <2>3. attempts' \in [Resources -> 0..MaxFailures]
    BY <1>6, <1>attempts, Zero DEF Reset
  <2>4. broken' \in [Resources -> BOOLEAN]
    BY <1>6, <1>broken DEF Reset, SomeInside
  <2>5. QED BY <1>6, <1>queue, <1>wk, <1>faults, <2>1, <2>2, <2>3, <2>4 DEF TypeOK, Reset
<1>7. ASSUME NEW q \in Requests, Enqueue(q) PROVE TypeOK'
  <2>1. queue' \in Seq(Job)
    BY <1>7, <1>queue, <1>req DEF Enqueue, Job, RequestType
  <2>2. req' \in [Requests -> RequestType]
    BY <1>7, <1>req, IdleRequestType DEF Enqueue
  <2>3. QED BY <1>7, <1>row, <1>wk, <1>faults, <1>attempts, <1>broken, <2>1, <2>2 DEF TypeOK, Enqueue
<1>8. ASSUME NEW w \in Workers, TakeJob(w) PROVE TypeOK'
  <2>1. queue' \in Seq(Job)
    BY <1>8, <1>queue DEF TakeJob
  <2>2. wk' \in [Workers -> WorkerType]
    <3>1. Head(queue) \in Job
      BY <1>8, <1>queue DEF TakeJob
    <3>2. PICK pc \in {"next", "failAllRead"} :
            wk' = [wk EXCEPT ![w] = [IdleWorker EXCEPT !.pc = pc, !.job = Head(queue),
                                                       !.left = Head(queue).todo]]
      BY <1>8 DEF TakeJob
    <3>3. Head(queue).todo \in SUBSET Resources
      BY <3>1 DEF Job
    <3>4. [IdleWorker EXCEPT !.pc = pc, !.job = Head(queue), !.left = Head(queue).todo] \in WorkerType
      BY <3>1, <3>3, IdleWorkerType, PCType DEF WorkerType
    <3>5. QED BY <3>2, <3>4, <1>wk
  <2>3. QED BY <1>8, <1>row, <1>req, <1>faults, <1>attempts, <1>broken, <2>1, <2>2 DEF TypeOK, TakeJob
<1>9. ASSUME NEW w \in Workers, EndJob(w) PROVE TypeOK'
  <2>1. wk' \in [Workers -> WorkerType]
    BY <1>9, <1>wk, PCType, IdleWorkerType DEF EndJob
  <2>2. QED BY <1>9, <1>row, <1>queue, <1>req, <1>faults, <1>attempts, <1>broken, <2>1 DEF TypeOK, EndJob
<1>10. ASSUME NEW w \in Workers, MarkFailedRead(w) PROVE TypeOK'
  <2>1. wk' \in [Workers -> WorkerType]
    <3>1. PICK r \in wk[w].left :
            wk' = [wk EXCEPT ![w] = [@ EXCEPT !.pc = "failAllWrite", !.res = r, !.left = wk[w].left \ {r},
                                              !.seen = row[r].failures]]
      BY <1>10 DEF MarkFailedRead
    <3>2. r \in Resources
      BY <1>wk DEF WorkerType
    <3>3. row[r].failures \in 0..MaxFailures
      BY <3>2, <1>row DEF RowType
    <3>4. [wk[w] EXCEPT !.pc = "failAllWrite", !.res = r, !.left = wk[w].left \ {r}, !.seen = row[r].failures]
            \in WorkerType
      BY <3>2, <3>3, <1>wk, PCType DEF WorkerType
    <3>5. QED BY <3>1, <3>4, <1>wk
  <2>2. QED BY <1>10, <1>row, <1>queue, <1>req, <1>faults, <1>attempts, <1>broken, <2>1 DEF TypeOK, MarkFailedRead
<1>11. ASSUME NEW w \in Workers, MarkFailedWrite(w) PROVE TypeOK'
  <2>1. row' \in [Resources -> RowType]
    BY <1>11, <1>row, <1>wk, OneMoreType, ReleasedType DEF MarkFailedWrite, WorkerType
  <2>2. wk' \in [Workers -> WorkerType]
    <3>1. [wk[w] EXCEPT !.pc = "failAllRead", !.res = NoRes, !.seen = 0] \in WorkerType
      BY <1>wk, PCType, Zero DEF WorkerType
    <3>2. QED BY <1>11, <3>1, <1>wk DEF MarkFailedWrite
  <2>3. attempts' \in [Resources -> 0..MaxFailures]
    BY <1>11, <1>attempts, OneMoreType DEF MarkFailedWrite
  <2>4. broken' \in [Resources -> BOOLEAN]
    BY <1>11, <1>broken DEF MarkFailedWrite, OthersInside
  <2>5. QED BY <1>11, <1>queue, <1>req, <1>faults, <2>1, <2>2, <2>3, <2>4 DEF TypeOK, MarkFailedWrite
<1>12. ASSUME NEW w \in Workers, NextResource(w) PROVE TypeOK'
  <2>1. wk' \in [Workers -> WorkerType]
    BY <1>12, <1>wk, PCType DEF NextResource, WorkerType
  <2>2. QED BY <1>12, <1>row, <1>queue, <1>req, <1>faults, <1>attempts, <1>broken, <2>1 DEF TypeOK, NextResource
<1>13. ASSUME NEW w \in Workers, Acquire(w) PROVE TypeOK'
  <2>1. row' \in [Resources -> RowType]
    BY <1>13, <1>row, LockedType DEF Acquire
  <2>2. wk' \in [Workers -> WorkerType]
    BY <1>13, <1>wk, PCType, Zero DEF Acquire, WorkerType
  <2>3. attempts' \in [Resources -> 0..MaxFailures]
    BY <1>13, <1>attempts, OneMoreType DEF Acquire
  <2>4. QED BY <1>13, <1>queue, <1>req, <1>faults, <1>broken, <2>1, <2>2, <2>3 DEF TypeOK, Acquire
<1>14. ASSUME NEW w \in Workers, Reread(w) PROVE TypeOK'
  <2>1. wk' \in [Workers -> WorkerType]
    BY <1>14, <1>wk, PCType DEF Reread, WorkerType
  <2>2. QED BY <1>14, <1>row, <1>queue, <1>req, <1>faults, <1>attempts, <1>broken, <2>1 DEF TypeOK, Reread
<1>15. ASSUME NEW w \in Workers, TakeOver(w) PROVE TypeOK'
  <2>1. row' \in [Resources -> RowType]
    BY <1>15, <1>row, LockedType DEF TakeOver
  <2>2. wk' \in [Workers -> WorkerType]
    BY <1>15, <1>wk, PCType, Zero DEF TakeOver, WorkerType
  <2>3. attempts' \in [Resources -> 0..MaxFailures]
    BY <1>15, <1>attempts, OneMoreType DEF TakeOver
  <2>4. broken' \in [Resources -> BOOLEAN]
    BY <1>15, <1>broken DEF TakeOver, OthersInside
  <2>5. QED BY <1>15, <1>queue, <1>req, <1>faults, <2>1, <2>2, <2>3, <2>4 DEF TypeOK, TakeOver
<1>16. ASSUME NEW w \in Workers, LogRunning(w) PROVE TypeOK'
  <2>1. wk' \in [Workers -> WorkerType]
    BY <1>16, <1>wk, PCType DEF LogRunning, WorkerType
  <2>2. QED BY <1>16, <1>row, <1>queue, <1>req, <1>faults, <1>attempts, <1>broken, <2>1 DEF TypeOK, LogRunning
<1>17. ASSUME NEW w \in Workers, Page(w) PROVE TypeOK'
  <2>1. row' \in [Resources -> RowType]
    BY <1>17, <1>row DEF Page, RowType
  <2>2. wk' \in [Workers -> WorkerType]
    BY <1>17, <1>wk, PCType, SyncAssumption DEF Page, WorkerType
  <2>3. QED BY <1>17, <1>queue, <1>req, <1>faults, <1>attempts, <1>broken, <2>1, <2>2 DEF TypeOK, Page
<1>18. ASSUME NEW w \in Workers, Fail(w) PROVE TypeOK'
  <2>1. wk' \in [Workers -> WorkerType]
    BY <1>18, <1>wk, PCType DEF Fail, WorkerType
  <2>2. broken' \in [Resources -> BOOLEAN]
    BY <1>18, <1>broken DEF Fail, OthersInside
  <2>3. QED BY <1>18, <1>row, <1>queue, <1>req, <1>faults, <1>attempts, <2>1, <2>2 DEF TypeOK, Fail
<1>19. ASSUME NEW w \in Workers, FailRead(w) PROVE TypeOK'
  <2>1. wk' \in [Workers -> WorkerType]
    <3>1. row[wk[w].res].failures \in 0..MaxFailures
      BY <1>19, <1>row, <1>placed DEF FailRead, Placed, RowType
    <3>2. QED BY <1>19, <3>1, <1>wk, PCType DEF FailRead, WorkerType
  <2>2. QED BY <1>19, <1>row, <1>queue, <1>req, <1>faults, <1>attempts, <1>broken, <2>1 DEF TypeOK, FailRead
<1>20. ASSUME NEW w \in Workers, FailRelease(w) PROVE TypeOK'
  <2>1. row' \in [Resources -> RowType]
    BY <1>20, <1>row, <1>wk, OneMoreType, ReleasedType DEF FailRelease, WorkerType
  <2>2. wk' \in [Workers -> WorkerType]
    <3>1. [wk[w] EXCEPT !.pc = "next", !.res = NoRes, !.pages = 0, !.seen = 0] \in WorkerType
      BY <1>wk, PCType, Zero DEF WorkerType
    <3>2. QED BY <1>20, <3>1, <1>wk DEF FailRelease
  <2>3. broken' \in [Resources -> BOOLEAN]
    BY <1>20, <1>broken DEF FailRelease, OthersInside
  <2>4. QED BY <1>20, <1>queue, <1>req, <1>faults, <1>attempts, <2>1, <2>2, <2>3 DEF TypeOK, FailRelease
<1>21. ASSUME NEW w \in Workers, Complete(w) PROVE TypeOK'
  <2>1. row' \in [Resources -> RowType]
    BY <1>21, <1>row, Zero, ReleasedType DEF Complete
  <2>2. wk' \in [Workers -> WorkerType]
    BY <1>21, <1>wk, PCType, Zero DEF Complete, WorkerType
  <2>3. broken' \in [Resources -> BOOLEAN]
    BY <1>21, <1>broken DEF Complete, OthersInside
  <2>4. QED BY <1>21, <1>queue, <1>req, <1>faults, <1>attempts, <2>1, <2>2, <2>3 DEF TypeOK, Complete
<1>22. ASSUME NEW w \in Workers, Finish(w) PROVE TypeOK'
  <2>1. wk' \in [Workers -> WorkerType]
    BY <1>22, <1>wk, PCType DEF Finish, WorkerType
  <2>2. QED BY <1>22, <1>row, <1>queue, <1>req, <1>faults, <1>attempts, <1>broken, <2>1 DEF TypeOK, Finish
<1>23. ASSUME NEW w \in Workers, Crash(w) PROVE TypeOK'
  <2>1. queue' \in Seq(Job)
    <3>1. [wk[w].job EXCEPT !.stalled = TRUE] \in Job
      BY <1>wk DEF WorkerType, Job
    <3>2. QED BY <1>23, <3>1, <1>queue DEF Crash
  <2>2. wk' \in [Workers -> WorkerType]
    BY <1>23, <1>wk, PCType, IdleWorkerType DEF Crash, Stopped
  <2>3. faults' \in 0..MaxFaults
    BY <1>23, <1>faults, SyncAssumption DEF Crash, Stopped
  <2>4. broken' \in [Resources -> BOOLEAN]
    BY <1>23, <1>broken DEF Crash, Stopped, Inside, OthersInside
  <2>5. QED BY <1>23, <1>row, <1>req, <1>attempts, <2>1, <2>2, <2>3, <2>4 DEF TypeOK, Crash, Stopped
<1>24. ASSUME NEW w \in Workers, Abort(w) PROVE TypeOK'
  <2>1. wk' \in [Workers -> WorkerType]
    BY <1>24, <1>wk, PCType, IdleWorkerType DEF Abort, Stopped
  <2>2. faults' \in 0..MaxFaults
    BY <1>24, <1>faults, SyncAssumption DEF Abort, Stopped
  <2>3. broken' \in [Resources -> BOOLEAN]
    BY <1>24, <1>broken DEF Abort, Stopped, Inside, OthersInside
  <2>4. QED BY <1>24, <1>row, <1>queue, <1>req, <1>attempts, <2>1, <2>2, <2>3 DEF TypeOK, Abort, Stopped
<1>25. ASSUME NEW q \in Requests, AbortRequest(q) PROVE TypeOK'
  <2>1. req' \in [Requests -> RequestType]
    BY <1>25, <1>req, IdleRequestType DEF AbortRequest
  <2>2. faults' \in 0..MaxFaults
    BY <1>25, <1>faults, SyncAssumption DEF AbortRequest
  <2>3. QED BY <1>25, <1>row, <1>queue, <1>wk, <1>attempts, <1>broken, <2>1, <2>2 DEF TypeOK, AbortRequest
<1>26. ASSUME NEW r \in Resources, Lapse(r) PROVE TypeOK'
  <2>1. row' \in [Resources -> RowType]
    BY <1>26, <1>row DEF Lapse, RowType
  <2>2. QED BY <1>26, <1>queue, <1>wk, <1>req, <1>faults, <1>attempts, <1>broken, <2>1 DEF TypeOK, Lapse
<1>27. CASE UNCHANGED vars
  BY <1>27 DEF TypeInv, TypeOK, vars
<1>28. QED BY <1>1, <1>2, <1>3, <1>4, <1>5, <1>6, <1>7, <1>8, <1>9, <1>10, <1>11, <1>12, <1>13, <1>14, <1>15, <1>16, <1>17, <1>18, <1>19, <1>20, <1>21, <1>22, <1>23, <1>24, <1>25, <1>26, <1>27 DEF Next, RequestStep, WorkerStep

LEMMA PlacedStep ==
  ASSUME TypeInv, [Next]_vars
  PROVE  Placed'
<1> USE DEF TypeInv, TypeOK, Placed, WorkerType, IdleWorker
<1>1. ASSUME NEW q \in Requests, NEW kind \in Kinds, NEW todo \in SUBSET Resources, StartRequest(q, kind, todo) PROVE Placed'
  BY <1>1 DEF StartRequest
<1>2. ASSUME NEW q \in Requests, NEW r \in Resources, CheckRead(q, r) PROVE Placed'
  BY <1>2 DEF CheckRead
<1>3. ASSUME NEW q \in Requests, NEW r \in Resources, StaleRead(q, r) PROVE Placed'
  BY <1>3 DEF StaleRead
<1>4. ASSUME NEW q \in Requests, NEW r \in Resources, StaleRelease(q, r) PROVE Placed'
  BY <1>4 DEF StaleRelease
<1>5. ASSUME NEW q \in Requests, EndCheck(q) PROVE Placed'
  BY <1>5 DEF EndCheck
<1>6. ASSUME NEW q \in Requests, Reset(q) PROVE Placed'
  BY <1>6 DEF Reset
<1>7. ASSUME NEW q \in Requests, Enqueue(q) PROVE Placed'
  BY <1>7 DEF Enqueue
<1>8. ASSUME NEW w \in Workers, TakeJob(w) PROVE Placed'
  BY <1>8 DEF TakeJob
<1>9. ASSUME NEW w \in Workers, EndJob(w) PROVE Placed'
  BY <1>9 DEF EndJob
<1>10. ASSUME NEW w \in Workers, MarkFailedRead(w) PROVE Placed'
  BY <1>10 DEF MarkFailedRead
<1>11. ASSUME NEW w \in Workers, MarkFailedWrite(w) PROVE Placed'
  BY <1>11 DEF MarkFailedWrite
<1>12. ASSUME NEW w \in Workers, NextResource(w) PROVE Placed'
  BY <1>12 DEF NextResource
<1>13. ASSUME NEW w \in Workers, Acquire(w) PROVE Placed'
  <2>1. CASE Free(wk[w].res)
    <3>1. wk' = [wk EXCEPT ![w].pc = "log", ![w].pages = 0]
      BY <1>13, <2>1 DEF Acquire
    <3>2. wk[w].res \in Resources
      BY <1>13 DEF Acquire
    <3>3. wk'[w].res = wk[w].res /\ \A v \in Workers \ {w} : wk'[v] = wk[v]
      BY <3>1
    <3>4. QED BY <3>2, <3>3
  <2>2. CASE ~Free(wk[w].res)
    BY <1>13, <2>2 DEF Acquire
  <2>3. QED BY <2>1, <2>2
<1>14. ASSUME NEW w \in Workers, Reread(w) PROVE Placed'
  BY <1>14 DEF Reread
<1>15. ASSUME NEW w \in Workers, TakeOver(w) PROVE Placed'
  BY <1>15 DEF TakeOver
<1>16. ASSUME NEW w \in Workers, LogRunning(w) PROVE Placed'
  BY <1>16 DEF LogRunning
<1>17. ASSUME NEW w \in Workers, Page(w) PROVE Placed'
  BY <1>17 DEF Page
<1>18. ASSUME NEW w \in Workers, Fail(w) PROVE Placed'
  BY <1>18 DEF Fail
<1>19. ASSUME NEW w \in Workers, FailRead(w) PROVE Placed'
  BY <1>19 DEF FailRead
<1>20. ASSUME NEW w \in Workers, FailRelease(w) PROVE Placed'
  BY <1>20 DEF FailRelease
<1>21. ASSUME NEW w \in Workers, Complete(w) PROVE Placed'
  BY <1>21 DEF Complete
<1>22. ASSUME NEW w \in Workers, Finish(w) PROVE Placed'
  BY <1>22 DEF Finish
<1>23. ASSUME NEW w \in Workers, Crash(w) PROVE Placed'
  BY <1>23 DEF Crash, Stopped
<1>24. ASSUME NEW w \in Workers, Abort(w) PROVE Placed'
  BY <1>24 DEF Abort, Stopped
<1>25. ASSUME NEW q \in Requests, AbortRequest(q) PROVE Placed'
  BY <1>25 DEF AbortRequest
<1>26. ASSUME NEW r \in Resources, Lapse(r) PROVE Placed'
  BY <1>26 DEF Lapse
<1>27. CASE UNCHANGED vars
  BY <1>27 DEF vars
<1>28. QED BY <1>1, <1>2, <1>3, <1>4, <1>5, <1>6, <1>7, <1>8, <1>9, <1>10, <1>11, <1>12, <1>13, <1>14, <1>15, <1>16, <1>17, <1>18, <1>19, <1>20, <1>21, <1>22, <1>23, <1>24, <1>25, <1>26, <1>27 DEF Next, RequestStep, WorkerStep

\* Whoever takes or gives back a lease that a worker still uses sets `broken`.
LEMMA LeaseExclusiveStep ==
  ASSUME TypeInv, LeaseExclusive, [Next]_vars
  PROVE  LeaseExclusive'
<1> USE DEF TypeInv, TypeOK, LeaseExclusive, Inside, InsidePC, SomeInside, OthersInside, WorkerType, RowType, IdleWorker, Locked, Released, Free
<1>1. ASSUME NEW q \in Requests, NEW kind \in Kinds, NEW todo \in SUBSET Resources, StartRequest(q, kind, todo) PROVE LeaseExclusive'
  BY <1>1 DEF StartRequest
<1>2. ASSUME NEW q \in Requests, NEW r \in Resources, CheckRead(q, r) PROVE LeaseExclusive'
  BY <1>2 DEF CheckRead
<1>3. ASSUME NEW q \in Requests, NEW r \in Resources, StaleRead(q, r) PROVE LeaseExclusive'
  BY <1>3 DEF StaleRead
<1>4. ASSUME NEW q \in Requests, NEW r \in Resources, StaleRelease(q, r) PROVE LeaseExclusive'
  BY <1>4 DEF StaleRelease
<1>5. ASSUME NEW q \in Requests, EndCheck(q) PROVE LeaseExclusive'
  BY <1>5 DEF EndCheck
<1>6. ASSUME NEW q \in Requests, Reset(q) PROVE LeaseExclusive'
  BY <1>6 DEF Reset
<1>7. ASSUME NEW q \in Requests, Enqueue(q) PROVE LeaseExclusive'
  BY <1>7 DEF Enqueue
<1>8. ASSUME NEW w \in Workers, TakeJob(w) PROVE LeaseExclusive'
  BY <1>8 DEF TakeJob
<1>9. ASSUME NEW w \in Workers, EndJob(w) PROVE LeaseExclusive'
  BY <1>9 DEF EndJob
<1>10. ASSUME NEW w \in Workers, MarkFailedRead(w) PROVE LeaseExclusive'
  BY <1>10 DEF MarkFailedRead
<1>11. ASSUME NEW w \in Workers, MarkFailedWrite(w) PROVE LeaseExclusive'
  BY <1>11 DEF MarkFailedWrite
<1>12. ASSUME NEW w \in Workers, NextResource(w) PROVE LeaseExclusive'
  BY <1>12 DEF NextResource
<1>13. ASSUME NEW w \in Workers, Acquire(w) PROVE LeaseExclusive'
  <2>1. CASE Free(wk[w].res)
    <3>1. wk' = [wk EXCEPT ![w].pc = "log", ![w].pages = 0]
      BY <1>13, <2>1 DEF Acquire
    <3>2. row' = [row EXCEPT ![wk[w].res] = Locked(@)] /\ broken' = broken
      BY <1>13, <2>1 DEF Acquire
    <3>3. \A v \in Workers, r \in Resources : Inside(v, r)' <=> Inside(v, r) \/ (v = w /\ r = wk[w].res)
      BY <1>13, <3>1 DEF Acquire
    <3>4. ~broken[wk[w].res] => ~SomeInside(wk[w].res)
      BY <2>1, <1>13 DEF Acquire, Placed
    <3>5. QED BY <3>2, <3>3, <3>4
  <2>2. CASE ~Free(wk[w].res)
    <3>1. wk' = [wk EXCEPT ![w].pc = "reread"] /\ row' = row /\ broken' = broken
      BY <1>13, <2>2 DEF Acquire
    <3>2. \A v \in Workers, r \in Resources : Inside(v, r)' <=> Inside(v, r)
      BY <1>13, <3>1 DEF Acquire
    <3>3. QED BY <3>1, <3>2
  <2>3. QED BY <2>1, <2>2
<1>14. ASSUME NEW w \in Workers, Reread(w) PROVE LeaseExclusive'
  BY <1>14 DEF Reread
<1>15. ASSUME NEW w \in Workers, TakeOver(w) PROVE LeaseExclusive'
  BY <1>15 DEF TakeOver
<1>16. ASSUME NEW w \in Workers, LogRunning(w) PROVE LeaseExclusive'
  BY <1>16 DEF LogRunning
<1>17. ASSUME NEW w \in Workers, Page(w) PROVE LeaseExclusive'
  BY <1>17 DEF Page
<1>18. ASSUME NEW w \in Workers, Fail(w) PROVE LeaseExclusive'
  BY <1>18 DEF Fail
<1>19. ASSUME NEW w \in Workers, FailRead(w) PROVE LeaseExclusive'
  BY <1>19 DEF FailRead
<1>20. ASSUME NEW w \in Workers, FailRelease(w) PROVE LeaseExclusive'
  BY <1>20 DEF FailRelease
<1>21. ASSUME NEW w \in Workers, Complete(w) PROVE LeaseExclusive'
  BY <1>21 DEF Complete
<1>22. ASSUME NEW w \in Workers, Finish(w) PROVE LeaseExclusive'
  BY <1>22 DEF Finish
<1>23. ASSUME NEW w \in Workers, Crash(w) PROVE LeaseExclusive'
  BY <1>23 DEF Crash, Stopped
<1>24. ASSUME NEW w \in Workers, Abort(w) PROVE LeaseExclusive'
  BY <1>24 DEF Abort, Stopped
<1>25. ASSUME NEW q \in Requests, AbortRequest(q) PROVE LeaseExclusive'
  BY <1>25 DEF AbortRequest
<1>26. ASSUME NEW r \in Resources, Lapse(r) PROVE LeaseExclusive'
  BY <1>26 DEF Lapse
<1>27. CASE UNCHANGED vars
  BY <1>27 DEF vars
<1>28. QED BY <1>1, <1>2, <1>3, <1>4, <1>5, <1>6, <1>7, <1>8, <1>9, <1>10, <1>11, <1>12, <1>13, <1>14, <1>15, <1>16, <1>17, <1>18, <1>19, <1>20, <1>21, <1>22, <1>23, <1>24, <1>25, <1>26, <1>27 DEF Next, RequestStep, WorkerStep

LEMMA InitInv == Init => TypeInv /\ LeaseExclusive
<1> SUFFICES ASSUME Init PROVE TypeInv /\ LeaseExclusive
  OBVIOUS
<1>1. TypeOK
  BY Zero, IdleWorkerType, IdleRequestType DEF Init, TypeOK, RowType
<1>2. Placed /\ LeaseExclusive
  BY DEF Init, Placed, LeaseExclusive, Inside, InsidePC, SomeInside, IdleWorker
<1>3. QED BY <1>1, <1>2 DEF TypeInv

LEMMA Invariance == Spec => [](TypeInv /\ LeaseExclusive)
<1>1. TypeInv /\ LeaseExclusive /\ [Next]_vars => (TypeInv /\ LeaseExclusive)'
  BY TypeStep, PlacedStep, LeaseExclusiveStep DEF TypeInv
<1>2. QED BY <1>1, InitInv, PTL DEF Spec

\* Every value a variable takes is of its type: in particular no count of
\* failures or runs leaves 0..MaxFailures.
THEOREM TypeCorrect == Spec => []TypeOK
<1>1. TypeInv => TypeOK
  BY DEF TypeInv
<1>2. QED BY <1>1, Invariance, PTL

\* However many workers and requests race, two workers are on one resource only
\* after its lease was taken from a worker that still ran.
THEOREM LeaseHolds == Spec => []LeaseExclusive
  BY Invariance, PTL

(***************************************************************************)
(* The quiet environment: no lease lapses, credentials stay, log rows are  *)
(* written and nobody resets.                                              *)
(***************************************************************************)
HoldPC == InsidePC \cup {"failRead", "failWrite"}

\* No lease looks stale and no job fails its resources unseen, so nothing but
\* a lease's one holder writes its row.
QuietInv ==
    /\ \A r \in Resources : ~row[r].lapsed
    /\ \A q \in Requests : /\ req[q].pc # "reset" /\ (req[q].pc = "check" => req[q].kind # "initial")
                           /\ \A r \in Resources : req[q].check[r] \notin {"relRead", "relWrite"}
    /\ \A w \in Workers : /\ wk[w].pc \notin {"failAllRead", "failAllWrite", "takeover"}
                          /\ wk[w].pc \in HoldPC => row[wk[w].res].locked
    /\ \A v, w \in Workers : /\ wk[v].pc \in HoldPC /\ wk[w].pc \in HoldPC
                             /\ wk[v].res = wk[w].res
                             => v = w

LEMMA QuietStep ==
  ASSUME Disturbances = {}, "initial" \notin Kinds, TypeInv, QuietInv, [Next]_vars
  PROVE  QuietInv'
<1> USE DEF TypeInv, TypeOK, Placed, QuietInv, HoldPC, InsidePC, WorkerType, RowType, RequestType, IdleWorker, IdleRequest, Locked, Released, Free, Stale
<1>1. ASSUME NEW q \in Requests, NEW kind \in Kinds, NEW todo \in SUBSET Resources, StartRequest(q, kind, todo) PROVE QuietInv'
  BY <1>1 DEF StartRequest
<1>2. ASSUME NEW q \in Requests, NEW r \in Resources, CheckRead(q, r) PROVE QuietInv'
  BY <1>2 DEF CheckRead
<1>3. ASSUME NEW q \in Requests, NEW r \in Resources, StaleRead(q, r) PROVE QuietInv'
  BY <1>3 DEF StaleRead
<1>4. ASSUME NEW q \in Requests, NEW r \in Resources, StaleRelease(q, r) PROVE QuietInv'
  BY <1>4 DEF StaleRelease
<1>5. ASSUME NEW q \in Requests, EndCheck(q) PROVE QuietInv'
  BY <1>5 DEF EndCheck
<1>6. ASSUME NEW q \in Requests, Reset(q) PROVE QuietInv'
  BY <1>6 DEF Reset
<1>7. ASSUME NEW q \in Requests, Enqueue(q) PROVE QuietInv'
  BY <1>7 DEF Enqueue
<1>8. ASSUME NEW w \in Workers, TakeJob(w) PROVE QuietInv'
  BY <1>8 DEF TakeJob
<1>9. ASSUME NEW w \in Workers, EndJob(w) PROVE QuietInv'
  BY <1>9 DEF EndJob
<1>10. ASSUME NEW w \in Workers, MarkFailedRead(w) PROVE QuietInv'
  BY <1>10 DEF MarkFailedRead
<1>11. ASSUME NEW w \in Workers, MarkFailedWrite(w) PROVE QuietInv'
  BY <1>11 DEF MarkFailedWrite
<1>12. ASSUME NEW w \in Workers, NextResource(w) PROVE QuietInv'
  BY <1>12 DEF NextResource
<1>13. ASSUME NEW w \in Workers, Acquire(w) PROVE QuietInv'
  <2>1. CASE Free(wk[w].res)
    <3>1. wk' = [wk EXCEPT ![w].pc = "log", ![w].pages = 0] /\ row' = [row EXCEPT ![wk[w].res] = Locked(@)]
      BY <1>13, <2>1 DEF Acquire
    <3>2. \A v \in Workers : wk[v].pc \in HoldPC => wk[v].res # wk[w].res
      BY <2>1
    <3>3. wk'[w].res = wk[w].res /\ \A v \in Workers \ {w} : wk'[v] = wk[v]
      BY <3>1
    <3>4. wk[w].res \in Resources /\ req' = req
      BY <1>13 DEF Acquire
    <3>10. wk'[w].pc = "log"
      BY <3>1
    <3>5. \A r \in Resources : ~row'[r].lapsed /\ (row'[r].locked <=> row[r].locked \/ r = wk[w].res)
      BY <3>1, <3>4
    <3>6. \A v \in Workers : wk'[v].pc \notin {"failAllRead", "failAllWrite", "takeover"}
      BY <3>10, <3>3
    <3>7. \A v \in Workers : wk'[v].pc \in HoldPC => row'[wk'[v].res].locked
      BY <3>10, <3>3, <3>4, <3>5
    <3>8. \A v, u \in Workers : wk'[v].pc \in HoldPC /\ wk'[u].pc \in HoldPC /\ wk'[v].res = wk'[u].res => v = u
      <4> SUFFICES ASSUME NEW v \in Workers, NEW u \in Workers, wk'[v].pc \in HoldPC,
                          wk'[u].pc \in HoldPC, wk'[v].res = wk'[u].res, v # u
                   PROVE  FALSE
        OBVIOUS
      <4>1. CASE v = w
        <5>1. wk'[u] = wk[u]
          BY <3>3, <4>1
        <5>2. QED BY <3>2, <3>3, <4>1, <5>1
      <4>2. CASE u = w
        <5>1. wk'[v] = wk[v]
          BY <3>3, <4>2
        <5>2. QED BY <3>2, <3>3, <4>2, <5>1
      <4>3. CASE v # w /\ u # w
        BY <3>3, <4>3
      <4>4. QED BY <4>1, <4>2, <4>3
    <3>9. QED BY <3>4, <3>5, <3>6, <3>7, <3>8
  <2>2. CASE ~Free(wk[w].res)
    <3>1. wk' = [wk EXCEPT ![w].pc = "reread"] /\ row' = row /\ req' = req
      BY <1>13, <2>2 DEF Acquire
    <3>2. QED BY <3>1
  <2>3. QED BY <2>1, <2>2
<1>14. ASSUME NEW w \in Workers, Reread(w) PROVE QuietInv'
  BY <1>14 DEF Reread
<1>15. ASSUME NEW w \in Workers, TakeOver(w) PROVE QuietInv'
  BY <1>15 DEF TakeOver
<1>16. ASSUME NEW w \in Workers, LogRunning(w) PROVE QuietInv'
  BY <1>16 DEF LogRunning
<1>17. ASSUME NEW w \in Workers, Page(w) PROVE QuietInv'
  BY <1>17 DEF Page
<1>18. ASSUME NEW w \in Workers, Fail(w) PROVE QuietInv'
  BY <1>18 DEF Fail
<1>19. ASSUME NEW w \in Workers, FailRead(w) PROVE QuietInv'
  BY <1>19 DEF FailRead
<1>20. ASSUME NEW w \in Workers, FailRelease(w) PROVE QuietInv'
  BY <1>20 DEF FailRelease
<1>21. ASSUME NEW w \in Workers, Complete(w) PROVE QuietInv'
  BY <1>21 DEF Complete
<1>22. ASSUME NEW w \in Workers, Finish(w) PROVE QuietInv'
  BY <1>22 DEF Finish
<1>23. ASSUME NEW w \in Workers, Crash(w) PROVE QuietInv'
  BY <1>23 DEF Crash, Stopped
<1>24. ASSUME NEW w \in Workers, Abort(w) PROVE QuietInv'
  BY <1>24 DEF Abort, Stopped
<1>25. ASSUME NEW q \in Requests, AbortRequest(q) PROVE QuietInv'
  BY <1>25 DEF AbortRequest
<1>26. ASSUME NEW r \in Resources, Lapse(r) PROVE QuietInv'
  BY <1>26 DEF Lapse
<1>27. CASE UNCHANGED vars
  BY <1>27 DEF vars
<1>28. QED BY <1>1, <1>2, <1>3, <1>4, <1>5, <1>6, <1>7, <1>8, <1>9, <1>10, <1>11, <1>12, <1>13, <1>14, <1>15, <1>16, <1>17, <1>18, <1>19, <1>20, <1>21, <1>22, <1>23, <1>24, <1>25, <1>26, <1>27 DEF Next, RequestStep, WorkerStep

\* Without lapses, resets, vanishing credentials and failing log writes a
\* resource is synchronised by one worker at a time, through every crash,
\* aborted job, redelivery and overlap of queued jobs.
THEOREM QuietOneWorker ==
  ASSUME Disturbances = {}, "initial" \notin Kinds
  PROVE  Spec => []OneWorkerPerResource
<1>1. Init => QuietInv
  BY DEF Init, QuietInv, HoldPC, InsidePC, IdleWorker, IdleRequest
<1>2. TypeInv /\ QuietInv /\ [Next]_vars => QuietInv'
  BY QuietStep
<1>3. QuietInv => OneWorkerPerResource
  BY DEF QuietInv, OneWorkerPerResource, Inside, HoldPC
<1>4. QED BY <1>1, <1>2, <1>3, Invariance, PTL DEF Spec

\* A worker that holds a lease took it by a run that no failure stands for
\* yet, so there is a run for the failure it may still count.
HadRuns ==
    /\ FailuresHadRuns
    /\ \A w \in Workers : wk[w].pc \in HoldPC =>
          OneMore(row[wk[w].res].failures) <= attempts[wk[w].res]
    /\ \A w \in Workers : wk[w].pc = "failWrite" => OneMore(wk[w].seen) <= attempts[wk[w].res]

LEMMA OneMoreIs ==
  ASSUME NEW m \in 0..MaxFailures, NEW n \in 0..MaxFailures
  PROVE  /\ m <= n => OneMore(m) <= OneMore(n)
         /\ m <= OneMore(m)
         /\ OneMore(m) \in Nat /\ m \in Nat
  BY SyncAssumption DEF OneMore

\* A step that leaves rows and runs alone, and of each worker on a resource
\* its resource and what it read, unless it has read that just now.
LEMMA SameRuns ==
  ASSUME TypeInv, HadRuns, UNCHANGED attempts,
         \A r \in Resources : row'[r].failures = row[r].failures,
         \A w \in Workers : wk'[w].pc \in HoldPC =>
             /\ wk[w].pc \in HoldPC /\ wk'[w].res = wk[w].res
             /\ wk'[w].pc = "failWrite" =>
                    \/ wk[w].pc = "failWrite" /\ wk'[w].seen = wk[w].seen
                    \/ wk'[w].seen = row[wk[w].res].failures
  PROVE  HadRuns'
<1>1. \A w \in Workers : wk[w].pc \in HoldPC => wk[w].res \in Resources
  BY DEF TypeInv, Placed, HoldPC, InsidePC
<1>2. FailuresHadRuns'
  BY DEF HadRuns, FailuresHadRuns
<1>3. ASSUME NEW w \in Workers, wk'[w].pc \in HoldPC
      PROVE  OneMore(row'[wk'[w].res].failures) <= attempts'[wk'[w].res]
  BY <1>1, <1>3 DEF HadRuns
<1>4. ASSUME NEW w \in Workers, wk'[w].pc = "failWrite"
      PROVE  OneMore(wk'[w].seen) <= attempts'[wk'[w].res]
  BY <1>1, <1>4 DEF HadRuns, HoldPC
<1> QED BY <1>2, <1>3, <1>4 DEF HadRuns

\* A step that ends one worker's hold, or starts it, writes that row only.
LEMMA WriteRuns ==
  ASSUME TypeInv, QuietInv, HadRuns, NEW w \in Workers, NEW r \in Resources, r = wk[w].res,
         \A v \in Workers \ {w} : wk'[v] = wk[v],
         \A v \in Workers \ {w} : wk[v].pc \in HoldPC => wk[v].res # r,
         \A s \in Resources \ {r} : row'[s] = row[s] /\ attempts'[s] = attempts[s],
         row'[r].failures <= attempts'[r],
         wk'[w].pc \in HoldPC => /\ wk'[w].pc # "failWrite" /\ wk'[w].res = r
                                 /\ OneMore(row'[r].failures) <= attempts'[r]
  PROVE  HadRuns'
<1>1. \A v \in Workers : wk[v].pc \in HoldPC => wk[v].res \in Resources
  BY DEF TypeInv, Placed, HoldPC, InsidePC
<1>2. FailuresHadRuns'
  BY DEF HadRuns, FailuresHadRuns
<1>3. ASSUME NEW v \in Workers, wk'[v].pc \in HoldPC
      PROVE  OneMore(row'[wk'[v].res].failures) <= attempts'[wk'[v].res]
  BY <1>1, <1>3 DEF HadRuns
<1>4. ASSUME NEW v \in Workers, wk'[v].pc = "failWrite"
      PROVE  OneMore(wk'[v].seen) <= attempts'[wk'[v].res]
  BY <1>1, <1>4 DEF HadRuns, HoldPC
<1> QED BY <1>2, <1>3, <1>4 DEF HadRuns

LEMMA RunsStep ==
  ASSUME Disturbances = {}, "initial" \notin Kinds, TypeInv, QuietInv, HadRuns, [Next]_vars
  PROVE  HadRuns'
<1>a. /\ row \in [Resources -> RowType] /\ attempts \in [Resources -> 0..MaxFailures]
      /\ wk \in [Workers -> WorkerType] /\ MaxFailures \in Nat
      /\ \A w \in Workers : wk[w].seen \in 0..MaxFailures
      /\ \A r \in Resources : row[r].failures \in 0..MaxFailures
  BY SyncAssumption DEF TypeInv, TypeOK, RowType, WorkerType
<1>b. \A w \in Workers : wk[w].pc \in HoldPC => wk[w].res \in Resources
  BY DEF TypeInv, Placed, HoldPC, InsidePC
<1>c. ASSUME UNCHANGED <<row, wk, attempts>> PROVE HadRuns'
  BY <1>c DEF HadRuns, FailuresHadRuns
<1>1. ASSUME NEW q \in Requests, NEW r \in Resources,
             CheckRead(q, r) \/ StaleRead(q, r) \/ StaleRelease(q, r)
      PROVE  HadRuns'
  <2>1. ~StaleRelease(q, r)
    BY DEF StaleRelease, QuietInv
  <2> QED BY <1>1, <1>c, <2>1 DEF CheckRead, StaleRead
<1>2. ASSUME NEW q \in Requests, EndCheck(q) \/ Reset(q) \/ Enqueue(q) \/ AbortRequest(q)
      PROVE  HadRuns'
  <2>1. ~Reset(q)
    BY DEF Reset, QuietInv
  <2> QED BY <1>2, <1>c, <2>1 DEF EndCheck, Enqueue, AbortRequest
<1>3. ASSUME NEW q \in Requests, NEW kind \in Kinds, NEW todo \in SUBSET Resources,
             StartRequest(q, kind, todo)
      PROVE  HadRuns'
  BY <1>3, <1>c DEF StartRequest
<1>4. ASSUME NEW r \in Resources, Lapse(r) PROVE HadRuns'
  BY <1>4 DEF Lapse
<1>d. ASSUME NEW w \in Workers, \A v \in Workers \ {w} : wk'[v] = wk[v],
             UNCHANGED <<row, attempts>>, wk'[w].pc \notin HoldPC
      PROVE  HadRuns'
  <2>1. \A v \in Workers : wk'[v].pc \in HoldPC => v # w
    BY <1>d
  <2> QED BY <1>d, <2>1, SameRuns
<1>5. ASSUME NEW w \in Workers,
             \/ TakeJob(w) \/ EndJob(w) \/ MarkFailedRead(w) \/ MarkFailedWrite(w)
             \/ NextResource(w) \/ Reread(w) \/ TakeOver(w) \/ Finish(w) \/ Crash(w) \/ Abort(w)
      PROVE  HadRuns'
  <2>1. ~MarkFailedRead(w) /\ ~MarkFailedWrite(w) /\ ~TakeOver(w)
    BY DEF MarkFailedRead, MarkFailedWrite, TakeOver, QuietInv
  <2>2. CASE TakeJob(w)
    BY <1>a, <1>d, <2>2 DEF TakeJob, IdleWorker, HoldPC, InsidePC
  <2>3. CASE EndJob(w)
    <3>1. /\ \A v \in Workers \ {w} : wk'[v] = wk[v]
          /\ UNCHANGED <<row, attempts>> /\ wk'[w].pc \in {"idle"}
      BY <1>a, <2>3 DEF EndJob, IdleWorker, WorkerType
    <3> QED BY <1>d, <3>1 DEF HoldPC, InsidePC
  <2>4. CASE NextResource(w)
    <3>1. /\ \A v \in Workers \ {w} : wk'[v] = wk[v]
          /\ UNCHANGED <<row, attempts>> /\ wk'[w].pc \in {"next", "acquire"}
      BY <1>a, <2>4 DEF NextResource, WorkerType
    <3> QED BY <1>d, <3>1 DEF HoldPC, InsidePC
  <2>5. CASE Reread(w)
    <3>1. /\ \A v \in Workers \ {w} : wk'[v] = wk[v]
          /\ UNCHANGED <<row, attempts>> /\ wk'[w].pc \in {"next", "takeover"}
      BY <1>a, <2>5 DEF Reread, WorkerType
    <3> QED BY <1>d, <3>1 DEF HoldPC, InsidePC
  <2>6. CASE Finish(w)
    <3>1. /\ \A v \in Workers \ {w} : wk'[v] = wk[v]
          /\ UNCHANGED <<row, attempts>> /\ wk'[w].pc \in {"next"}
      BY <1>a, <2>6 DEF Finish, WorkerType
    <3> QED BY <1>d, <3>1 DEF HoldPC, InsidePC
  <2>7. CASE Crash(w)
    <3>1. /\ \A v \in Workers \ {w} : wk'[v] = wk[v]
          /\ UNCHANGED <<row, attempts>> /\ wk'[w].pc \in {"idle"}
      BY <1>a, <2>7 DEF Crash, Stopped, IdleWorker, WorkerType
    <3> QED BY <1>d, <3>1 DEF HoldPC, InsidePC
  <2>8. CASE Abort(w)
    <3>1. /\ \A v \in Workers \ {w} : wk'[v] = wk[v]
          /\ UNCHANGED <<row, attempts>> /\ wk'[w].pc \in {"idle"}
      BY <1>a, <2>8 DEF Abort, Stopped, IdleWorker, WorkerType
    <3> QED BY <1>d, <3>1 DEF HoldPC, InsidePC
  <2> QED BY <1>5, <2>1, <2>2, <2>3, <2>4, <2>5, <2>6, <2>7, <2>8
<1>6. ASSUME NEW w \in Workers, LogRunning(w) PROVE HadRuns'
  BY <1>6, <1>a, SameRuns DEF LogRunning, HoldPC, InsidePC
<1>7. ASSUME NEW w \in Workers, Fail(w) \/ FailRead(w) PROVE HadRuns'
  <2>1. UNCHANGED <<row, attempts>>
    BY <1>7 DEF Fail, FailRead
  <2>2. \A v \in Workers \ {w} : wk'[v] = wk[v]
    BY <1>7, <1>a DEF Fail, FailRead
  <2>3. wk[w].pc \in HoldPC /\ wk'[w].res = wk[w].res
    BY <1>7, <1>a DEF Fail, FailRead, WorkerType, HoldPC, InsidePC
  <2>4. wk'[w].pc = "failWrite" => wk'[w].seen = row[wk[w].res].failures
    BY <1>7, <1>a DEF Fail, FailRead, WorkerType
  <2> QED BY <2>1, <2>2, <2>3, <2>4, SameRuns
<1>8. ASSUME NEW w \in Workers, Page(w) PROVE HadRuns'
  <2>1. \A r \in Resources : row'[r].failures = row[r].failures
    BY <1>8, <1>a DEF Page, RowType
  <2>2. wk[w].pc = "page" /\ wk'[w].pc \in {"page", "complete"} /\ wk'[w].res = wk[w].res
        /\ attempts' = attempts /\ \A v \in Workers \ {w} : wk'[v] = wk[v]
    BY <1>8, <1>a DEF Page, WorkerType
  <2> QED BY <2>1, <2>2, SameRuns DEF HoldPC, InsidePC
<1>9. ASSUME NEW w \in Workers, Acquire(w) PROVE HadRuns'
  <2>0. wk[w].pc = "acquire" /\ wk[w].res \in Resources
    BY <1>9 DEF Acquire, TypeInv, Placed
  <2> DEFINE r == wk[w].res
  <2>1. CASE Free(r)
    <3>1. \A v \in Workers : wk[v].pc \in HoldPC => wk[v].res # r
      BY <2>1 DEF QuietInv, Free
    <3>2. /\ row' = [row EXCEPT ![r] = Locked(row[r])]
          /\ attempts' = [attempts EXCEPT ![r] = OneMore(attempts[r])]
          /\ wk' = [wk EXCEPT ![w].pc = "log", ![w].pages = 0]
      BY <1>9, <2>1 DEF Acquire
    <3>3. wk'[w].pc = "log" /\ wk'[w].res = r /\ \A v \in Workers \ {w} : wk'[v] = wk[v]
      BY <1>a, <3>2 DEF WorkerType
    <3>4. row'[r].failures = row[r].failures /\ attempts'[r] = OneMore(attempts[r])
      BY <1>a, <2>0, <3>2 DEF Locked, RowType
    <3>5. \A s \in Resources \ {r} : row'[s] = row[s] /\ attempts'[s] = attempts[s]
      BY <1>a, <3>2
    <3>6. row[r].failures <= attempts[r] /\ row[r].failures \in 0..MaxFailures
          /\ attempts[r] \in 0..MaxFailures
      BY <1>a, <2>0 DEF HadRuns, FailuresHadRuns
    <3>7. /\ OneMore(row[r].failures) <= OneMore(attempts[r])
          /\ row[r].failures <= OneMore(attempts[r])
      BY <3>6, OneMoreIs
    <3> QED BY <2>0, <3>1, <3>3, <3>4, <3>5, <3>7, WriteRuns
  <2>2. CASE ~Free(r)
    <3>1. wk' = [wk EXCEPT ![w].pc = "reread"] /\ UNCHANGED <<row, attempts>>
      BY <1>9, <2>2 DEF Acquire
    <3> QED BY <1>a, <1>d, <3>1 DEF HoldPC, InsidePC
  <2> QED BY <2>1, <2>2
<1>10. ASSUME NEW w \in Workers, FailRelease(w) \/ Complete(w) PROVE HadRuns'
  <2> DEFINE r == wk[w].res
  <2>0. wk[w].pc \in HoldPC /\ r \in Resources /\ attempts[r] \in 0..MaxFailures
    BY <1>10, <1>a, <1>b DEF FailRelease, Complete, HoldPC, InsidePC
  <2>1. \A v \in Workers \ {w} : wk[v].pc \in HoldPC => wk[v].res # r
    BY <2>0 DEF QuietInv
  <2>p. wk'[w].pc \in {"next", "finish"}
    <3>1. CASE FailRelease(w)
      <4>1. wk' = [wk EXCEPT ![w] =
                      [wk[w] EXCEPT !.pc = "next", !.res = NoRes, !.pages = 0, !.seen = 0]]
        BY <3>1 DEF FailRelease
      <4>2. wk[w] \in WorkerType
        BY <1>a
      <4> QED BY <1>a, <4>1, <4>2 DEF WorkerType
    <3>2. CASE Complete(w)
      BY <1>a, <3>2 DEF Complete, WorkerType
    <3> QED BY <1>10, <3>1, <3>2
  <2>2. attempts' = attempts /\ wk'[w].pc \notin HoldPC /\ \A v \in Workers \ {w} : wk'[v] = wk[v]
    BY <1>10, <1>a, <2>p DEF FailRelease, Complete, HoldPC, InsidePC
  <2>3. \A s \in Resources \ {r} : row'[s] = row[s]
    BY <1>10, <1>a DEF FailRelease, Complete
  <2>4. row'[r].failures <= attempts[r]
    <3>1. CASE FailRelease(w)
      <4>1. row'[r].failures = OneMore(wk[w].seen)
        BY <1>a, <2>0, <3>1 DEF FailRelease, Released
      <4> QED BY <3>1, <4>1 DEF FailRelease, HadRuns
    <3>2. CASE Complete(w)
      <4>1. row'[r].failures = 0
        BY <1>a, <2>0, <3>2 DEF Complete, Released
      <4> QED BY <1>a, <2>0, <4>1
    <3> QED BY <1>10, <3>1, <3>2
  <2> QED BY <2>0, <2>1, <2>2, <2>3, <2>4, WriteRuns
<1>11. CASE UNCHANGED vars
  BY <1>11, <1>c DEF vars
<1> QED BY <1>1, <1>2, <1>3, <1>4, <1>5, <1>6, <1>7, <1>8, <1>9, <1>10, <1>11
        DEF Next, RequestStep, WorkerStep

\* In the quiet environment no failure is counted without a run of its own:
\* five failures of a resource are five runs that failed.
THEOREM QuietFailures ==
  ASSUME Disturbances = {}, "initial" \notin Kinds
  PROVE  Spec => []FailuresHadRuns
<1>1. Init => QuietInv /\ HadRuns
  BY SyncAssumption DEF Init, QuietInv, HadRuns, FailuresHadRuns, HoldPC, InsidePC,
                         IdleWorker, IdleRequest
<1>2. TypeInv /\ QuietInv /\ HadRuns /\ [Next]_vars => QuietInv' /\ HadRuns'
  BY QuietStep, RunsStep
<1>3. HadRuns => FailuresHadRuns
  BY DEF HadRuns
<1>4. QED BY <1>1, <1>2, <1>3, Invariance, PTL DEF Spec

=============================================================================
