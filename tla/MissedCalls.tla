------------------------------ MODULE MissedCalls ------------------------------
(***************************************************************************)
(* Aircall events of one inbound call, and what becomes of it when it is   *)
(* missed.  receiveWebhook stores an event in the inbox and queues a job;  *)
(* the ingest worker's processInboxRow upserts the event, reads the call's *)
(* row and writes it back changed (mirrorCall).  The rolling backfill does *)
(* the same, inline, with the call as Aircall's API shows it.              *)
(* reconcileMissedCalls, hourly, lists the missed calls, resolves those    *)
(* that were answered or called back and otherwise fires the missed-call   *)
(* trigger and marks the call confirmed.                                   *)
(* Left out: tenants and tokens, the call's status (shown, never asked),   *)
(* timestamps but their order, the customer's timeline, transcripts        *)
(* (TranscriptFlow), the triggers of events that are not about a missed    *)
(* call (WorkflowExecution), calls of more than a hundred events (of which *)
(* a resolution asks for a hundred).  A trigger makes one task per event.  *)
(* Ghosts: raced, together, unheard.  Bounds: MaxTries is the ingest job's *)
(* attempts, MaxFaults bounds errors and deaths.                           *)
(* Definitions named Mut... are seeded faults, not the code's behaviour.   *)
(***************************************************************************)
EXTENDS Naturals, FiniteSets

CONSTANTS Webhooks,     \* the events Aircall sends, each in an inbox row of its own
          Poll,         \* the event and inbox row of the backfill
          Kind,         \* what an event says of the call (see Says)
          Missing,      \* the events the reconciliation accepts as a missed one
          Workers, Poller, Runs,
          Limit,        \* the calls one reconciliation looks at, oldest first
          MaxTries, MaxFaults

Events == Webhooks \cup {Poll}
Ingesters == Workers \cup {Poller}

ASSUME CallAssumption ==
    /\ Poll \notin Webhooks /\ Poller \notin Workers
    /\ Kind \in [Events -> {"nothing", "missed", "answered", "outcome"}]
    /\ Missing \subseteq {e \in Events : Kind[e] = "missed"}
    /\ Limit \in Nat \ {0} /\ MaxTries \in Nat \ {0} /\ MaxFaults \in Nat

VARIABLES
    outcome,    \* what happened: the call was "answered" or "missed"
    inbox,      \* table aircall_webhook_inbox: the status of a row
    receiving,  \* webhooks whose request is under way
    job,        \* the ingest job of a webhook
    event,      \* table aircall_call_events
    call,       \* the call's row
    at,         \* runs of processInboxRow
    run,        \* runs of reconcileMissedCalls
    task,       \* the staff task of a missed-call event
    callback,   \* whether an outbound call to the caller was mirrored
    ahead,      \* calls missed earlier that are listed before this one
    faults,
    raced,      \* ghost: an event was mirrored from a row read before the answer
    together,   \* ghost: a reconciliation started beside another
    unheard     \* ghost: events whose trigger failed

ghosts == <<raced, together, unheard>>
vars == <<outcome, inbox, receiving, job, event, call, at, run, task, callback, ahead, faults,
          ghosts>>

NoCall == [answered |-> FALSE, missed |-> FALSE, resolved |-> FALSE, rec |-> "none"]
NoJob == [state |-> "none", tries |-> 0]
Rest == [pc |-> "idle", row |-> Poll, seen |-> NoCall]
NoRun == [pc |-> "idle", seen |-> NoCall, why |-> "none", ids |-> {}, on |-> Poll]

Init ==
    /\ outcome \in {"answered", "missed"}
    /\ inbox = [e \in Events |-> "none"]
    /\ receiving = {}
    /\ job = [e \in Webhooks |-> NoJob]
    /\ event = {}
    /\ call = NoCall
    /\ at = [p \in Ingesters |-> Rest]
    /\ run = [r \in Runs |-> NoRun]
    /\ task = [e \in Missing |-> "none"]
    /\ callback = FALSE
    /\ ahead \in 0..Limit
    /\ faults = MaxFaults
    /\ raced = FALSE /\ together = FALSE /\ unheard = {}

Fault == faults > 0 /\ faults' = faults - 1

\* the end of a call, and the poll, tell the outcome; an answer needs one
MutSays(e) == IF Kind[e] = "outcome" THEN "nothing" ELSE Kind[e]
Says(e) == IF Kind[e] = "outcome" THEN outcome ELSE Kind[e]
Occurs(e) == Kind[e] = "answered" => outcome = "answered"

-----------------------------------------------------------------------------
(* receiveWebhook: a row that could not be queued is accepted all the same. *)

Calm == UNCHANGED <<outcome, event, call, at, run, task, callback, ahead, ghosts>>

Receive(e) ==
    /\ inbox[e] = "none" /\ Occurs(e)
    /\ inbox' = [inbox EXCEPT ![e] = "received"]
    /\ receiving' = receiving \cup {e}
    /\ UNCHANGED <<job, faults>> /\ Calm

Verify(e) ==
    /\ e \in receiving /\ inbox[e] = "received"
    /\ inbox' = [inbox EXCEPT ![e] = "verified"]
    /\ UNCHANGED <<receiving, job, faults>> /\ Calm

QueueIngest(e) ==
    /\ e \in receiving /\ inbox[e] = "verified"
    /\ receiving' = receiving \ {e}
    /\ job' = [job EXCEPT ![e] = [state |-> "waiting", tries |-> 0]]
    /\ UNCHANGED <<inbox, faults>> /\ Calm

\* an error or a death: the row stays as it is, and no job takes it up (if
\* Aircall repeats the event, that is a row and an event of its own)
ReceiveFails(e) ==
    /\ e \in receiving
    /\ Fault
    /\ receiving' = receiving \ {e}
    /\ UNCHANGED <<inbox, job>> /\ Calm

-----------------------------------------------------------------------------
(* processInboxRow.                                                        *)

Still == UNCHANGED <<outcome, receiving, run, task, callback, ahead>>
Go(p, from, to) == at[p].pc = from /\ at' = [at EXCEPT ![p].pc = to]
Begin(p, e) == at[p] = Rest /\ at' = [at EXCEPT ![p] = [pc |-> "event", row |-> e, seen |-> NoCall]]

TakeJob(p, e) ==
    /\ p \in Workers
    /\ job[e].state = "waiting"
    /\ job' = [job EXCEPT ![e].state = "active"]
    /\ Begin(p, e)
    /\ UNCHANGED <<inbox, event, call, faults, ghosts>> /\ Still

\* the backfill stores a row of its own; a call with a transcript is skipped
PollCall ==
    /\ Begin(Poller, Poll)
    /\ inbox' = [inbox EXCEPT ![Poll] = "verified"]
    /\ UNCHANGED <<job, event, call, faults, ghosts>> /\ Still

StoreEvent(p) ==
    /\ Go(p, "event", "read")
    /\ event' = event \cup {at[p].row}
    /\ UNCHANGED <<inbox, job, call, faults, ghosts>> /\ Still

ReadCall(p) ==
    /\ at[p].pc = "read"
    /\ at' = [at EXCEPT ![p].pc = "write", ![p].seen = call]
    /\ UNCHANGED <<inbox, job, event, call, faults, ghosts>> /\ Still

MutIsAnswered(seen, says) == says = "answered"
IsAnswered(seen, says) == seen.answered \/ says = "answered"

IsMissed(seen, says) == says = "missed" /\ ~IsAnswered(seen, says)

\* the upsert of the call's row, of which the event leaves some fields alone
Mirrored(seen, says) ==
    [answered |-> call.answered \/ says = "answered",
     missed |-> IF IsAnswered(seen, says) THEN FALSE ELSE call.missed \/ IsMissed(seen, says),
     resolved |-> call.resolved \/ IsAnswered(seen, says),
     rec |-> IF IsAnswered(seen, says) THEN "answered"
             ELSE IF IsMissed(seen, says) THEN "pending" ELSE call.rec]

Open == {e \in Missing : task[e] = "open"}

MirrorCall(p) ==
    LET says == Says(at[p].row)
    IN  /\ Go(p, "write", "mark")
        /\ call' = Mirrored(at[p].seen, says)
        /\ raced' = (raced \/ (call.answered /\ ~at[p].seen.answered /\ says # "answered"))
        /\ UNCHANGED <<inbox, job, event, faults, together, unheard>> /\ Still

\* what the end of a run means for its job; the backfill has none
JobOf(p, end) == IF at[p].row = Poll THEN job ELSE [job EXCEPT ![at[p].row] = end]

MarkProcessed(p) ==
    /\ at[p].pc = "mark"
    /\ at' = [at EXCEPT ![p] = Rest]
    /\ inbox' = [inbox EXCEPT ![at[p].row] = "processed"]
    /\ job' = JobOf(p, [state |-> "over", tries |-> 0])
    /\ UNCHANGED <<event, call, faults, ghosts>> /\ Still

Retried(e) == [state |-> IF job[e].tries + 1 < MaxTries THEN "waiting" ELSE "over",
               tries |-> job[e].tries + 1]

\* dispatch_error: the row is rejected, and a job tries it again
IngestThrows(p) ==
    /\ at[p].pc # "idle"
    /\ Fault
    /\ at' = [at EXCEPT ![p] = Rest]
    /\ inbox' = [inbox EXCEPT ![at[p].row] = "rejected"]
    /\ job' = IF at[p].row = Poll THEN job ELSE JobOf(p, Retried(at[p].row))
    /\ UNCHANGED <<event, call, ghosts>> /\ Still

\* the process dies; BullMQ hands its job out again
IngestDies(p) ==
    /\ at[p].pc # "idle"
    /\ Fault
    /\ at' = [at EXCEPT ![p] = Rest]
    /\ job' = IF at[p].row = Poll THEN job
              ELSE JobOf(p, [job[at[p].row] EXCEPT !.state = "waiting"])
    /\ UNCHANGED <<inbox, event, call, ghosts>> /\ Still

IngestStep(p) == StoreEvent(p) \/ ReadCall(p) \/ MirrorCall(p) \/ MarkProcessed(p)

-----------------------------------------------------------------------------
(* reconcileMissedCalls.                                                   *)

Others == UNCHANGED <<outcome, inbox, receiving, job, event, at, callback, ahead, raced>>

MutEligible(c) == c.missed /\ c.rec \in {"pending", "confirmed"}
Eligible(c) == c.missed /\ ~c.resolved /\ c.rec \in {"pending", "confirmed"}

ListMissed(r) ==
    /\ run[r] = NoRun
    /\ Eligible(call) /\ ahead < Limit
    /\ run' = [run EXCEPT ![r].pc = "decide", ![r].seen = call]
    /\ together' = (together \/ \E q \in Runs : run[q].pc # "idle")
    /\ UNCHANGED <<call, task, faults, unheard>> /\ Others

DecideMissed(r) ==
    LET seen == run[r].seen
        why == IF seen.answered THEN "answered" ELSE IF callback THEN "callback" ELSE "none"
    IN  /\ run[r].pc = "decide"
        /\ \/ /\ why # "none"
              /\ run' = [run EXCEPT ![r].pc = "ids", ![r].why = why]
           \/ /\ why = "none" /\ seen.rec = "confirmed"
              /\ run' = [run EXCEPT ![r] = NoRun]
           \/ /\ why = "none" /\ seen.rec # "confirmed"
              /\ run' = [run EXCEPT ![r].pc = "find"]
        /\ UNCHANGED <<call, task, faults, together, unheard>> /\ Others

\* the latest event that says so, if there is one
FindMissedEvent(r) ==
    /\ run[r].pc = "find"
    /\ \/ /\ event \cap Missing = {}
          /\ run' = [run EXCEPT ![r] = NoRun]
       \/ \E e \in event \cap Missing :
             run' = [run EXCEPT ![r].pc = "fire", ![r].on = e]
    /\ UNCHANGED <<call, task, faults, together, unheard>> /\ Others

\* A trigger makes the task of its event once; what an earlier failure left
\* behind may keep it from doing so.  Its errors are swallowed.
FireMissed(r) ==
    LET e == run[r].on
    IN  /\ run[r].pc = "fire"
        /\ run' = [run EXCEPT ![r].pc = "confirm"]
        /\ \/ /\ task' = [task EXCEPT ![e] = IF task[e] = "none" THEN "open" ELSE task[e]]
              /\ UNCHANGED <<faults, unheard>>
           \/ /\ e \in unheard
              /\ UNCHANGED <<task, faults, unheard>>
           \/ /\ Fault
              /\ unheard' = unheard \cup {e}
              /\ UNCHANGED task
        /\ UNCHANGED <<call, together>> /\ Others

Confirm(r) ==
    /\ run[r].pc = "confirm"
    /\ run' = [run EXCEPT ![r] = NoRun]
    /\ call' = [call EXCEPT !.rec = "confirmed"]
    /\ UNCHANGED <<task, faults, together, unheard>> /\ Others

\* resolveMissedCall: the events are read first, then one transaction
MutReadEvents(r) ==
    /\ run[r].pc = "ids"
    /\ \E e \in event : run' = [run EXCEPT ![r].pc = "resolve", ![r].ids = {e}]
    /\ UNCHANGED <<call, task, faults, together, unheard>> /\ Others

ReadEvents(r) ==
    /\ run[r].pc = "ids"
    /\ run' = [run EXCEPT ![r].pc = "resolve", ![r].ids = event]
    /\ UNCHANGED <<call, task, faults, together, unheard>> /\ Others

Resolve(r) ==
    /\ run[r].pc = "resolve"
    /\ run' = [run EXCEPT ![r] = NoRun]
    /\ call' = [call EXCEPT !.missed = FALSE, !.resolved = TRUE, !.rec = run[r].why]
    /\ task' = [e \in Missing |-> IF e \in Open \cap run[r].ids THEN "closed" ELSE task[e]]
    /\ UNCHANGED <<faults, together, unheard>> /\ Others

\* an error or a death ends the run; the job or the next hour starts another
RunFails(r) ==
    /\ run[r].pc # "idle"
    /\ Fault
    /\ run' = [run EXCEPT ![r] = NoRun]
    /\ UNCHANGED <<call, task, together, unheard>> /\ Others

RunStep(r) ==
    \/ DecideMissed(r) \/ FindMissedEvent(r) \/ FireMissed(r) \/ Confirm(r)
    \/ ReadEvents(r) \/ Resolve(r)

\* an outbound call to the caller, later than the missed one, is mirrored
CallBack ==
    /\ ~callback /\ call.missed
    /\ callback' = TRUE
    /\ UNCHANGED <<outcome, inbox, receiving, job, event, call, at, run, task, ahead, faults,
                   ghosts>>

\* A confirmed call stays in the listing until somebody calls back.
EarlierCallBack ==
    /\ ahead > 0
    /\ ahead' = ahead - 1
    /\ UNCHANGED <<outcome, inbox, receiving, job, event, call, at, run, task, callback, faults,
                   ghosts>>

Next ==
    \/ \E e \in Webhooks : Receive(e) \/ Verify(e) \/ QueueIngest(e) \/ ReceiveFails(e)
    \/ \E p \in Workers, e \in Webhooks : TakeJob(p, e)
    \/ PollCall \/ CallBack \/ EarlierCallBack
    \/ \E p \in Ingesters : IngestStep(p) \/ IngestThrows(p) \/ IngestDies(p)
    \/ \E r \in Runs : ListMissed(r) \/ RunStep(r) \/ RunFails(r)

Spec == Init /\ [][Next]_vars

\* Started work goes on, the backfill comes round to a call without a
\* transcript, and a reconciliation every hour finds what is eligible then.
FairSpec ==
    /\ Spec
    /\ \A p \in Ingesters : WF_vars(IngestStep(p))
    /\ \A r \in Runs : WF_vars(RunStep(r)) /\ WF_vars(ListMissed(r))
    /\ outcome = "missed" => WF_vars(PollCall)

-----------------------------------------------------------------------------
(* Properties.                                                             *)

CallType == [answered : BOOLEAN, missed : BOOLEAN, resolved : BOOLEAN,
             rec : {"none", "pending", "confirmed", "answered", "callback"}]

JobType == [state : {"none", "waiting", "active", "over"}, tries : Nat]
AtType == [pc : {"idle", "event", "read", "write", "mark"}, row : Events, seen : CallType]
RunType == [pc : {"idle", "decide", "find", "fire", "confirm", "ids", "resolve"},
            seen : CallType, why : {"none", "answered", "callback"}, ids : SUBSET Events,
            on : Events]

TypeOK ==
    /\ outcome \in {"answered", "missed"}
    /\ inbox \in [Events -> {"none", "received", "verified", "processed", "rejected"}]
    /\ receiving \subseteq Webhooks
    /\ job \in [Webhooks -> JobType]
    /\ event \subseteq Events
    /\ call \in CallType
    /\ at \in [Ingesters -> AtType]
    /\ run \in [Runs -> RunType]
    /\ \A r \in Runs : run[r].pc \in {"fire", "confirm"} => run[r].on \in Missing
    /\ task \in [Missing -> {"none", "open", "closed"}]
    /\ callback \in BOOLEAN /\ ahead \in 0..Limit /\ faults \in 0..MaxFaults
    /\ raced \in BOOLEAN /\ together \in BOOLEAN /\ unheard \subseteq Missing

\* A call that somebody answered is not shown as missed, in whatever order its
\* events arrive, unless an event was mirrored from a row read before the
\* answer (aircall-ingest.service.ts:310-330).
AnsweredNotMissed == call.answered /\ call.missed => raced

\* A call resolved because somebody called back leaves no task open, whatever
\* the order of its events, failed runs and missed events stored late.  (An
\* answer that is mirrored closes no task, and a reconciliation beside another
\* may open a task after that other resolved the call.)  The code it is about:
\* aircall-ingest.service.ts:403-466 and 497-560.
CallbackClosesTask == call.resolved /\ ~call.answered => Open = {} \/ together

AtRest == \A r \in Runs : run[r].pc = "idle"

\* A call that was resolved, with no run at work on it, is never taken up
\* again, although the backfill marks it missed and pending anew
\* (aircall-ingest.service.ts:386, 407-414).
ResolvedIsQuiet ==
    [][call.resolved /\ AtRest => /\ call'.resolved
                                  /\ \A r \in Runs : run'[r].pc = "idle"
                                  /\ task' = task]_vars

\* A missed call whose missed event was stored is chased: a task is made for
\* it or it is called back, unless the trigger failed.  That holds through
\* lost jobs and dead runs because the backfill makes the call pending again.
\* It takes fewer than Limit earlier calls that nobody calls back: with more,
\* the call is not listed (aircall-ingest.service.ts:403-466,
\* aircall.service.ts:742-770).
MissedIsChased ==
    (outcome = "missed" /\ event \cap Missing # {} /\ ahead < Limit)
        ~> (unheard # {} \/ call.resolved \/ \E e \in Missing : task[e] # "none")
=============================================================================
