----------------------------- MODULE ShopifySync -----------------------------
(***************************************************************************)
(* The Shopify pull synchronisation of services/backend/src/modules/sync:  *)
(* the requests that trigger a sync (triggerInitialSync, triggerRollingSync*)
(* and the status poll), the BullMQ queue between them and the worker      *)
(* processes, and the per-resource lease row of ShopifySyncStateService    *)
(* that is meant to keep two workers off one resource.                     *)
(*                                                                         *)
(* One action per database round trip: no handler of the code runs inside  *)
(* a transaction, so other processes move between any two awaits.          *)
(*                                                                         *)
(* Abstractions.  The clock is replaced by `lapsed`: lockExpiresAt may pass*)
(* while a lease is held, as Disturbances allows.      consecutiveFailures *)
(* saturates at MaxFailures, the only value it is compared with.  Records, *)
(* cursors, run totals and log rows are left out.                          *)
(* The inline mode without REDIS_URL, where the request itself is the      *)
(* worker, is not modelled.                                                *)
(* Definitions named Mut... are seeded faults: each is the definition after *)
(* it with a plausible bug, and no part of the model uses them.            *)
(* Bounds: MaxQueue queued jobs, MaxPages pages per run, MaxFaults worker  *)
(* deaths and thrown database errors outside the page loop's try block.    *)
(***************************************************************************)
EXTENDS Naturals, Sequences, FiniteSets

CONSTANTS
    Resources,      \* customers, products, orders
    Workers,        \* BullMQ worker processes (one job at a time each)
    Requests,       \* request slots: HTTP handlers and the rolling scheduler
    Kinds,          \* which handlers the requests run
    MaxFailures,    \* SHOPIFY_SYNC_MAX_FAILURES
    MaxQueue, MaxPages, MaxFaults,
    Disturbances,   \* what the environment may do, see AllDisturbances
    NoRes           \* no resource

AllKinds == {"initial", "rolling", "status"}

\* "dead": the lease of a dead worker lapses.  "slow": so may the lease of a
\* worker that spends SHOPIFY_SYNC_LOCK_TTL_MS on one page.  "credentials": the
\* tenant's credentials are removed under a queued job.  "log": writing the
\* log row of a finished resource may fail.
AllDisturbances == {"dead", "slow", "credentials", "log"}

ASSUME SyncAssumption ==
    /\ MaxFailures \in Nat \ {0}
    /\ MaxQueue \in Nat /\ MaxPages \in Nat \ {0} /\ MaxFaults \in Nat
    /\ Kinds \subseteq AllKinds
    /\ Disturbances \subseteq AllDisturbances
    /\ NoRes \notin Resources

VARIABLES
    row,        \* ShopifySyncState: [locked, lapsed, failures] per resource
    queue,      \* waiting jobs: [todo |-> resources, stalled |-> redelivered]
    wk,         \* what each worker process is doing
    req,        \* what each request is doing
    faults,     \* worker deaths and thrown errors so far
    \* History variables: the code keeps neither.
    attempts,   \* runs that took the lease, or failed for want of credentials
    broken      \* the lease was taken from a worker that still runs

vars == <<row, queue, wk, req, faults, attempts, broken>>

WorkerPC == {"idle", "failAllRead", "failAllWrite", "next", "acquire", "reread",
             "takeover", "log", "page", "complete", "finish", "failRead", "failWrite"}
TryPC == {"page", "complete", "finish"}
\* Synchronising the resource.  From "finish" on the lease has been given back,
\* and the catch block only writes the row.
InsidePC == {"log", "page", "complete"}

Job == [todo : SUBSET Resources, stalled : BOOLEAN]
IdleWorker == [pc |-> "idle", job |-> [todo |-> {}, stalled |-> FALSE],
               left |-> {}, res |-> NoRes, pages |-> 0, seen |-> 0]

CheckPC == {"read", "relRead", "relWrite", "free", "busy"}
IdleRequest == [pc |-> "idle", kind |-> "status", todo |-> {},
                check |-> [r \in Resources |-> "free"],
                seen |-> [r \in Resources |-> 0]]

Init ==
    /\ row = [r \in Resources |-> [locked |-> FALSE, lapsed |-> FALSE, failures |-> 0]]
    /\ queue = <<>>
    /\ wk = [w \in Workers |-> IdleWorker]
    /\ req = [q \in Requests |-> IdleRequest]
    /\ faults = 0
    /\ attempts = [r \in Resources |-> 0]
    /\ broken = [r \in Resources |-> FALSE]

(***************************************************************************)
(* Writes to the lease row.                                                *)
(***************************************************************************)
OneMore(n) == IF n < MaxFailures THEN n + 1 ELSE MaxFailures

MutLockedNot(s) == [s EXCEPT !.lapsed = FALSE]
Locked(s) == [s EXCEPT !.locked = TRUE, !.lapsed = FALSE]
Released(s, failures) == [locked |-> FALSE, lapsed |-> FALSE, failures |-> failures]

\* The two questions the code asks of a row before it takes the lease.
MutFreeAlways(r) == TRUE
Free(r) == ~row[r].locked
MutStaleAnyAge(r) == row[r].locked
MutStaleNever(r) == FALSE
Stale(r) == row[r].locked /\ row[r].lapsed

\* w has taken the lease of r and is still synchronising it.
Inside(w, r) == wk[w].res = r /\ wk[w].pc \in InsidePC
OthersInside(r, w) == \E v \in Workers \ {w} : Inside(v, r)
SomeInside(r) == \E v \in Workers : Inside(v, r)

(***************************************************************************)
(* Requests.  isRunning is called for every requested resource at once     *)
(* (Promise.all), so each resource has its own place in the check.         *)
(***************************************************************************)
StartRequest(q, kind, todo) ==
    /\ req[q].pc = "idle"
    /\ req' = [req EXCEPT ![q] =
                 [pc |-> "check", kind |-> kind, todo |-> todo,
                  check |-> [r \in Resources |-> IF r \in todo THEN "read" ELSE "free"],
                  seen |-> [r \in Resources |-> 0]]]
    /\ UNCHANGED <<row, queue, wk, faults, attempts, broken>>

\* isRunning, the read: a lapsed lease is not running but must be released.
CheckRead(q, r) ==
    /\ req[q].pc = "check" /\ req[q].check[r] = "read"
    /\ req' = [req EXCEPT ![q].check[r] =
                 IF Free(r) THEN "free" ELSE IF Stale(r) THEN "relRead" ELSE "busy"]
    /\ UNCHANGED <<row, queue, wk, faults, attempts, broken>>

\* releaseLock reads consecutiveFailures ...
StaleRead(q, r) ==
    /\ req[q].pc = "check" /\ req[q].check[r] = "relRead"
    /\ req' = [req EXCEPT ![q] = [@ EXCEPT !.check[r] = "relWrite", !.seen[r] = row[r].failures]]
    /\ UNCHANGED <<row, queue, wk, faults, attempts, broken>>

\* ... and writes it back plus one, whoever holds the lease by now.
StaleRelease(q, r) ==
    /\ req[q].pc = "check" /\ req[q].check[r] = "relWrite"
    /\ row' = [row EXCEPT ![r] = Released(@, OneMore(req[q].seen[r]))]
    /\ req' = [req EXCEPT ![q] = [@ EXCEPT !.check[r] = "free", !.seen[r] = 0]]
    /\ broken' = [broken EXCEPT ![r] = SomeInside(r)]
    /\ UNCHANGED <<queue, wk, faults, attempts>>

\* A running resource is a 409 for a trigger; a status poll only reports it.
EndCheck(q) ==
    /\ req[q].pc = "check"
    /\ \A r \in Resources : req[q].check[r] \in {"free", "busy"}
    /\ LET running == \E r \in Resources : req[q].check[r] = "busy" IN
       req' = IF running \/ req[q].kind = "status"
              THEN [req EXCEPT ![q] = IdleRequest]
              ELSE [req EXCEPT ![q].pc = IF req[q].kind = "initial" THEN "reset" ELSE "enqueue"]
    /\ UNCHANGED <<row, queue, wk, faults, attempts, broken>>

\* state.reset clears the row, lease included, with no condition on it.
Reset(q) ==
    /\ req[q].pc = "reset"
    /\ row' = [r \in Resources |-> IF r \in req[q].todo THEN Released(row[r], 0) ELSE row[r]]
    /\ attempts' = [r \in Resources |-> IF r \in req[q].todo THEN 0 ELSE attempts[r]]
    /\ broken' = [r \in Resources |-> IF r \in req[q].todo THEN SomeInside(r) ELSE broken[r]]
    /\ req' = [req EXCEPT ![q].pc = "enqueue"]
    /\ UNCHANGED <<queue, wk, faults>>

Enqueue(q) ==
    /\ req[q].pc = "enqueue"
    /\ Len(queue) < MaxQueue
    /\ queue' = Append(queue, [todo |-> req[q].todo, stalled |-> FALSE])
    /\ req' = [req EXCEPT ![q] = IdleRequest]
    /\ UNCHANGED <<row, wk, faults, attempts, broken>>

(***************************************************************************)
(* Workers: processInitialSync and processResource.                        *)
(***************************************************************************)
\* resolveCredentials decides between the run and failing every resource.
TakeJob(w) ==
    /\ wk[w].pc = "idle" /\ queue # <<>>
    /\ queue' = Tail(queue)
    /\ \E pc \in {"next"} \cup (IF "credentials" \in Disturbances THEN {"failAllRead"} ELSE {}) :
         wk' = [wk EXCEPT ![w] = [IdleWorker EXCEPT !.pc = pc, !.job = Head(queue),
                                                    !.left = Head(queue).todo]]
    /\ UNCHANGED <<row, req, faults, attempts, broken>>

\* The resources of a job are visited in some order; none left ends the job.
EndJob(w) ==
    /\ wk[w].pc \in {"next", "failAllRead"} /\ wk[w].left = {}
    /\ wk' = [wk EXCEPT ![w] = IdleWorker]
    /\ UNCHANGED <<row, queue, req, faults, attempts, broken>>

\* failResource -> markFailed: read, then write without looking at the lease.
MarkFailedRead(w) ==
    /\ wk[w].pc = "failAllRead"
    /\ \E r \in wk[w].left :
         wk' = [wk EXCEPT ![w] = [@ EXCEPT !.pc = "failAllWrite", !.res = r, !.left = wk[w].left \ {r},
                                            !.seen = row[r].failures]]
    /\ UNCHANGED <<row, queue, req, faults, attempts, broken>>

MarkFailedWrite(w) ==
    /\ wk[w].pc = "failAllWrite"
    /\ LET r == wk[w].res IN
       /\ row' = [row EXCEPT ![r] = Released(@, OneMore(wk[w].seen))]
       /\ attempts' = [attempts EXCEPT ![r] = OneMore(@)]
       /\ broken' = [broken EXCEPT ![r] = OthersInside(r, w)]
       /\ wk' = [wk EXCEPT ![w] = [@ EXCEPT !.pc = "failAllRead", !.res = NoRes, !.seen = 0]]
    /\ UNCHANGED <<queue, req, faults>>

\* shouldSkip: a resource with MaxFailures failures is skipped.
NextResource(w) ==
    /\ wk[w].pc = "next"
    /\ \E r \in wk[w].left :
         wk' = IF row[r].failures >= MaxFailures
               THEN [wk EXCEPT ![w].left = @ \ {r}]
               ELSE [wk EXCEPT ![w].pc = "acquire", ![w].res = r, ![w].left = @ \ {r}]
    /\ UNCHANGED <<row, queue, req, faults, attempts, broken>>

\* acquireLock, the conditional update: one statement, atomic in the database.
Acquire(w) ==
    /\ wk[w].pc = "acquire"
    /\ LET r == wk[w].res IN
       IF Free(r)
       THEN /\ row' = [row EXCEPT ![r] = Locked(@)]
            /\ wk' = [wk EXCEPT ![w].pc = "log", ![w].pages = 0]
            /\ attempts' = [attempts EXCEPT ![r] = OneMore(@)]
       ELSE /\ wk' = [wk EXCEPT ![w].pc = "reread"]
            /\ UNCHANGED <<row, attempts>>
    /\ UNCHANGED <<queue, req, faults, broken>>

\* acquireLock, the second read: only a lapsed lease may be taken over.
Reread(w) ==
    /\ wk[w].pc = "reread"
    /\ LET r == wk[w].res IN
       wk' = IF Stale(r)
             THEN [wk EXCEPT ![w].pc = "takeover"]
             ELSE [wk EXCEPT ![w].pc = "next", ![w].res = NoRes]
    /\ UNCHANGED <<row, queue, req, faults, attempts, broken>>

\* acquireLock, the takeover: an update whose WHERE names the resource only.
TakeOver(w) ==
    /\ wk[w].pc = "takeover"
    /\ LET r == wk[w].res IN
       /\ row' = [row EXCEPT ![r] = Locked(@)]
       /\ attempts' = [attempts EXCEPT ![r] = OneMore(@)]
       /\ broken' = [broken EXCEPT ![r] = OthersInside(r, w)]
    /\ wk' = [wk EXCEPT ![w].pc = "log", ![w].pages = 0]
    /\ UNCHANGED <<queue, req, faults>>

\* The log row turns 'running'; this write stands before the try block.
LogRunning(w) ==
    /\ wk[w].pc = "log"
    /\ wk' = [wk EXCEPT ![w].pc = "page"]
    /\ UNCHANGED <<row, queue, req, faults, attempts, broken>>

\* A page is fetched, persisted, and updateCursor renews the lease -- of
\* whoever holds it.  A null cursor ends the loop.
Page(w) ==
    /\ wk[w].pc = "page" /\ wk[w].pages < MaxPages
    /\ row' = [row EXCEPT ![wk[w].res].lapsed = FALSE]
    /\ \E pc \in IF wk[w].pages + 1 = MaxPages THEN {"complete"} ELSE {"page", "complete"} :
         wk' = [wk EXCEPT ![w].pc = pc, ![w].pages = @ + 1]
    /\ UNCHANGED <<queue, req, faults, attempts, broken>>

\* Any await of the try block may throw into the catch block: those of the
\* loop, of complete, and of finishLog after complete has released the lease.
Fail(w) ==
    /\ wk[w].pc \in {"page", "complete"} \cup (IF "log" \in Disturbances THEN {"finish"} ELSE {})
    /\ wk' = [wk EXCEPT ![w].pc = "failRead"]
    /\ broken' = [broken EXCEPT ![wk[w].res] = @ /\ OthersInside(wk[w].res, w)]
    /\ UNCHANGED <<row, queue, req, faults, attempts>>

\* releaseLock(r, 'failed'): read, then write without looking at the lease.
FailRead(w) ==
    /\ wk[w].pc = "failRead"
    /\ wk' = [wk EXCEPT ![w].pc = "failWrite", ![w].seen = row[wk[w].res].failures]
    /\ UNCHANGED <<row, queue, req, faults, attempts, broken>>

FailRelease(w) ==
    /\ wk[w].pc = "failWrite"
    /\ LET r == wk[w].res IN
       /\ row' = [row EXCEPT ![r] = Released(@, OneMore(wk[w].seen))]
       /\ broken' = [broken EXCEPT ![r] = OthersInside(r, w)]
    /\ wk' = [wk EXCEPT ![w] = [@ EXCEPT !.pc = "next", !.res = NoRes, !.pages = 0, !.seen = 0]]
    /\ UNCHANGED <<queue, req, faults, attempts>>

\* complete, ending in releaseLock(r, 'completed'), which zeroes the failures.
Complete(w) ==
    /\ wk[w].pc = "complete"
    /\ LET r == wk[w].res IN
       /\ row' = [row EXCEPT ![r] = Released(@, 0)]
       /\ broken' = [broken EXCEPT ![r] = OthersInside(r, w)]
    /\ wk' = [wk EXCEPT ![w].pc = "finish", ![w].pages = 0]
    /\ UNCHANGED <<queue, req, faults, attempts>>

\* finishLog of a completed resource: on to the next one.
Finish(w) ==
    /\ wk[w].pc = "finish"
    /\ wk' = [wk EXCEPT ![w].pc = "next", ![w].res = NoRes]
    /\ UNCHANGED <<row, queue, req, faults, attempts, broken>>

(***************************************************************************)
(* The environment: a worker process dies and BullMQ redelivers its stalled*)
(* job once; a database call outside the try block throws, which ends a job*)
(* for good (attempts: 1) or a request with a 500; a lease lapses.         *)
(***************************************************************************)
Stopped(w) ==
    /\ wk[w].pc # "idle" /\ faults < MaxFaults
    /\ faults' = faults + 1
    /\ wk' = [wk EXCEPT ![w] = IdleWorker]
    /\ broken' = [r \in Resources |-> broken[r] /\ (Inside(w, r) => OthersInside(r, w))]

Crash(w) ==
    /\ Stopped(w)
    /\ queue' = IF wk[w].job.stalled THEN queue
                ELSE <<[wk[w].job EXCEPT !.stalled = TRUE]>> \o queue
    /\ UNCHANGED <<row, req, attempts>>

Abort(w) ==
    /\ wk[w].pc \notin TryPC
    /\ Stopped(w)
    /\ UNCHANGED <<row, queue, req, attempts>>

AbortRequest(q) ==
    /\ req[q].pc # "idle" /\ faults < MaxFaults
    /\ faults' = faults + 1
    /\ req' = [req EXCEPT ![q] = IdleRequest]
    /\ UNCHANGED <<row, queue, wk, attempts, broken>>

Lapse(r) ==
    /\ "slow" \in Disturbances \/ ("dead" \in Disturbances /\ ~SomeInside(r))
    /\ row[r].locked /\ ~row[r].lapsed
    /\ row' = [row EXCEPT ![r].lapsed = TRUE]
    /\ UNCHANGED <<queue, wk, req, faults, attempts, broken>>

RequestStep(q) ==
    \/ \E r \in Resources : CheckRead(q, r) \/ StaleRead(q, r) \/ StaleRelease(q, r)
    \/ EndCheck(q) \/ Reset(q) \/ Enqueue(q)

WorkerStep(w) ==
    \/ TakeJob(w) \/ EndJob(w) \/ MarkFailedRead(w) \/ MarkFailedWrite(w)
    \/ NextResource(w) \/ Acquire(w) \/ Reread(w) \/ TakeOver(w)
    \/ LogRunning(w) \/ Page(w) \/ Complete(w) \/ Finish(w)
    \/ Fail(w) \/ FailRead(w) \/ FailRelease(w)

Next ==
    \/ \E q \in Requests, kind \in Kinds, todo \in (SUBSET Resources) \ {{}} :
         StartRequest(q, kind, todo)
    \/ \E q \in Requests : RequestStep(q) \/ AbortRequest(q)
    \/ \E w \in Workers : WorkerStep(w) \/ Crash(w) \/ Abort(w)
    \/ \E r \in Resources : Lapse(r)

Spec == Init /\ [][Next]_vars

(***************************************************************************)
(* Fairness.  Node runs a started handler to its end, BullMQ hands a       *)
(* waiting job to an idle worker, the clock moves, and the rolling backfill*)
(* scheduler keeps asking for every resource.  Nobody promises a crash, a  *)
(* failure or an operator.                                                 *)
(***************************************************************************)
Fairness ==
    /\ \A w \in Workers : WF_vars(WorkerStep(w))
    /\ \A q \in Requests : WF_vars(RequestStep(q))
    /\ \A q \in Requests : WF_vars(StartRequest(q, "rolling", Resources))
    /\ \A r \in Resources : WF_vars(Lapse(r))

FairSpec == Spec /\ Fairness

(***************************************************************************)
(* Properties.                                                             *)
(***************************************************************************)
RowType == [locked : BOOLEAN, lapsed : BOOLEAN, failures : 0..MaxFailures]
WorkerType == [pc : WorkerPC, job : Job, left : SUBSET Resources, res : Resources \cup {NoRes},
               pages : 0..MaxPages, seen : 0..MaxFailures]
RequestType == [pc : {"idle", "check", "reset", "enqueue"}, kind : AllKinds,
                todo : SUBSET Resources, check : [Resources -> CheckPC],
                seen : [Resources -> 0..MaxFailures]]

TypeOK ==
    /\ row \in [Resources -> RowType]
    /\ queue \in Seq(Job)
    /\ wk \in [Workers -> WorkerType]
    /\ req \in [Requests -> RequestType]
    /\ faults \in 0..MaxFaults
    /\ attempts \in [Resources -> 0..MaxFailures]
    /\ broken \in [Resources -> BOOLEAN]

\* Two workers synchronise one resource only after its lease was taken from a
\* worker that still ran (`broken`); and nobody synchronises it without a lease
\* in force otherwise.  acquireLock's conditional update is what this is about.
LeaseExclusive ==
    \A r \in Resources : ~broken[r] =>
        /\ \A v, w \in Workers : Inside(v, r) /\ Inside(w, r) => v = w
        /\ SomeInside(r) => row[r].locked

\* A resource is synchronised by one worker at a time.  The lease of a dead
\* worker is not part of it: that one only keeps others out.
OneWorkerPerResource ==
    \A r \in Resources : \A v, w \in Workers : Inside(v, r) /\ Inside(w, r) => v = w

\* A lease left behind by a dead worker or an aborted job does not keep its
\* resource locked for ever: isRunning of a later request, or acquireLock of a
\* later job, frees or takes it over.
StaleLeaseRecovered == \A r \in Resources : row[r].locked ~> ~row[r].locked

\* "5 consecutive failure": a resource never counts more failures than it had
\* runs since its last reset.
FailuresHadRuns == \A r \in Resources : row[r].failures <= attempts[r]

=============================================================================
