----------------------------- MODULE MailCampaign -----------------------------
(***************************************************************************)
(* A mail campaign: staff approve, pause, cancel or queue it by hand, a    *)
(* delayed BullMQ job queues it at its time.  queueCampaign reads the      *)
(* members of the frozen snapshot with their contacts once, then mails     *)
(* them one by one, and only at the end writes the status, without a       *)
(* condition and without an idempotency key for the mails.  Composed with  *)
(* MailSuppression, which decides who is reachable.                        *)
(* A job is known by its id: adding one whose id exists is ignored, also   *)
(* while that job is active or kept as failed (BullMQ).                    *)
(* Left out: the daily cap of the tenant, the send strategy, approval      *)
(* thresholds, the moment a job arrives before its time; of what becomes   *)
(* of a mail, all but whether it counts against the cap.                   *)
(* Ghosts: lost, overlapped, racing, revived.  Bounds: MaxChanges (what    *)
(* staff and the clock do), MaxFaults, LaterJobs.                          *)
(***************************************************************************)
EXTENDS MailSuppression, Sequences

CONSTANTS Workers, Staff, Members, Cap, Attempts, LaterJobs, MaxChanges

ASSUME CampaignAssumption ==
    /\ Members \in Seq(Contacts)
    /\ Cap \in Nat \ {0} /\ Attempts \in Nat \ {0} /\ MaxChanges \in Nat
    /\ Workers \cap Staff = {} /\ "due" \notin LaterJobs
    /\ None \notin {"due"} \cup LaterJobs

Actors == Workers \cup Staff
Jobs == {"due"} \cup LaterJobs

VARIABLES
    status,      \* mail_campaigns.status
    scheduled,   \* whether the campaign has a scheduledAt
    job,         \* the delayed jobs of the campaign, by id
    enabled, quiet,   \* the send controls and the quiet hours
    act,         \* calls of the service: by staff or by a job
    mailed,      \* marketing deliveries of a contact within the day
    gone,        \* how many of them are failed or skipped by now
    changes,
    lost,        \* ghost: the campaign's job is known to be gone
    overlapped,  \* ghost: contacts two calls were about to mail at once
    racing,      \* ghost: a call was at work when the campaign was stopped
    revived      \* ghost: contacts with a mail that failed and was tried again

campaignVars == <<status, scheduled, job, enabled, quiet, act, mailed, gone,
                  changes, lost, overlapped, racing, revived>>
vars == <<suppVars, campaignVars>>

NoJob == [state |-> "none", tries |-> 0]
Off == [pc |-> "idle", job |-> None, reach |-> {}, next |-> 1]

Init ==
    /\ SuppInit
    /\ status = "draft" /\ scheduled \in BOOLEAN
    /\ job = [j \in Jobs |-> NoJob]
    /\ enabled = TRUE /\ quiet = FALSE
    /\ act = [x \in Actors |-> Off]
    /\ mailed = [c \in Contacts |-> 0] /\ gone = [c \in Contacts |-> 0]
    /\ changes = MaxChanges
    /\ lost = FALSE /\ overlapped = {} /\ racing = FALSE /\ revived = {}

Change == changes > 0 /\ changes' = changes - 1
Fault == faults > 0 /\ faults' = faults - 1
SameSupp == UNCHANGED <<sendable, consent, supp, latest, clerk, requests, barred, torn>>

Step(x, from, to) ==
    /\ act[x].pc = from
    /\ act' = [act EXCEPT ![x] = IF to = "idle" THEN Off ELSE [act[x] EXCEPT !.pc = to]]

Add(j) == IF job[j].state = "none" THEN [job EXCEPT ![j] = [state |-> "waiting", tries |-> 0]]
          ELSE job
\* the add was ignored, and the job that has the id will not run again
Swallowed(j) == job[j].state \in {"active", "failed"}

-----------------------------------------------------------------------------
(* Staff.                                                                  *)

Closed == {"queued_disabled", "sent", "completed", "canceled", "archived"}
MutMayChange == status \notin {"queued_disabled", "sent", "completed", "archived"}
MayChange == status \notin Closed

Begin(x, pc) ==
    /\ x \in Staff /\ act[x] = Off
    /\ Change
    /\ act' = [act EXCEPT ![x] = [Off EXCEPT !.pc = pc]]
    /\ UNCHANGED <<status, scheduled, job, enabled, quiet, mailed, lost, overlapped, racing, gone, revived, suppVars>>

\* the campaign is read and found open: approve, pause and cancel
BeginChange(x) == MayChange /\ \E pc \in {"approve", "pause", "cancel"} : Begin(x, pc)
BeginQueue(x) == Begin(x, "require")

Approve(x) ==
    /\ Step(x, "approve", IF scheduled THEN "reread" ELSE "idle")
    /\ status' = IF scheduled THEN "scheduled" ELSE "approved"
    /\ racing' = FALSE
    /\ UNCHANGED <<scheduled, job, enabled, quiet, mailed, changes, lost, overlapped, gone, revived>>
    /\ UNCHANGED suppVars

\* the row is read again, and another call may have changed its status
Reread(x) ==
    /\ Step(x, "reread", IF status = "scheduled" THEN "enqueue" ELSE "idle")
    /\ UNCHANGED <<status, scheduled, job, enabled, quiet, mailed, changes, lost, overlapped, racing, gone, revived>>
    /\ UNCHANGED suppVars

Enqueue(x) ==
    /\ Step(x, "enqueue", "idle")
    /\ job' = Add("due")
    /\ lost' = Swallowed("due")
    /\ UNCHANGED <<status, scheduled, enabled, quiet, mailed, changes, overlapped, racing, gone, revived>>
    /\ UNCHANGED suppVars

Working(x) == act[x].pc # "idle"

Stop(x) ==
    /\ \/ Step(x, "pause", "idle") /\ status' = "paused"
       \/ Step(x, "cancel", "idle") /\ status' = "canceled"
    /\ racing' = (\E y \in Actors \ {x} : Working(y))
    /\ UNCHANGED <<scheduled, job, enabled, quiet, mailed, changes, lost, overlapped, gone, revived>>
    /\ UNCHANGED suppVars

-----------------------------------------------------------------------------
(* processScheduledCampaign: the worker's job.                             *)

TakeJob(x, j) ==
    /\ x \in Workers /\ act[x] = Off
    /\ job[j].state = "waiting"
    /\ j \in LaterJobs => ~quiet
    /\ job' = [job EXCEPT ![j].state = "active"]
    /\ act' = [act EXCEPT ![x] = [Off EXCEPT !.pc = "check", !.job = j]]
    /\ UNCHANGED <<status, scheduled, enabled, quiet, mailed, changes, lost, overlapped, racing, gone, revived>>
    /\ UNCHANGED suppVars

\* a job that returns is removed
Finished(x) == IF act[x].job = None THEN job ELSE [job EXCEPT ![act[x].job] = NoJob]

StillDue == status = "scheduled"

CheckStatus(x) ==
    /\ Step(x, "check", IF StillDue THEN "hours" ELSE "idle")
    /\ job' = IF StillDue THEN job ELSE Finished(x)
    /\ UNCHANGED <<status, scheduled, enabled, quiet, mailed, changes, lost, overlapped, racing, gone, revived>>
    /\ UNCHANGED suppVars

MutPostponed(x, j) == Finished(x)
Postponed(x, j) == [Finished(x) EXCEPT ![j] = [state |-> "waiting", tries |-> 0]]

\* in quiet hours the campaign is queued again under another id
CheckHours(x) ==
    /\ \/ ~quiet /\ Step(x, "hours", "require") /\ UNCHANGED job
       \/ /\ quiet /\ Step(x, "hours", "idle")
          /\ \E j \in LaterJobs :
                /\ job[j] = NoJob
                /\ job' = Postponed(x, j)
    /\ UNCHANGED <<status, scheduled, enabled, quiet, mailed, changes, lost, overlapped, racing, gone, revived>>
    /\ UNCHANGED suppVars

-----------------------------------------------------------------------------
(* queueCampaign, by hand or from the job.                                 *)

\* what an error means: a job is tried again or kept as failed
Failed(x) ==
    LET j == act[x].job
        tries == job[j].tries + 1
    IN  IF j = None THEN job
        ELSE [job EXCEPT ![j] = [state |-> IF tries < Attempts THEN "waiting" ELSE "failed",
                                 tries |-> tries]]

Fails(x, from) ==
    /\ Step(x, from, "idle")
    /\ job' = Failed(x)
    /\ lost' = (lost \/ \E j \in Jobs : job'[j].state = "failed")

MutMaySend == status \notin {"draft", "sending"}
MaySend == status \in {"approved", "scheduled"}

Require(x) ==
    /\ \/ MaySend /\ Step(x, "require", "members") /\ UNCHANGED <<job, lost>>
       \/ ~MaySend /\ Fails(x, "require")
    /\ UNCHANGED <<status, scheduled, enabled, quiet, mailed, changes, overlapped, racing, gone, revived>>
    /\ UNCHANGED suppVars

ReadMembers(x) ==
    /\ act[x].pc = "members"
    /\ act' = [act EXCEPT ![x].pc = "settings", ![x].reach = {c \in Contacts : Reachable(c)}]
    /\ UNCHANGED <<status, scheduled, job, enabled, quiet, mailed, changes, lost, overlapped, racing, gone, revived>>
    /\ UNCHANGED suppVars

ReadSettings(x) ==
    /\ \/ enabled /\ ~quiet /\ Step(x, "settings", "cap") /\ UNCHANGED <<job, lost>>
       \/ ~(enabled /\ ~quiet) /\ Fails(x, "settings")
    /\ UNCHANGED <<status, scheduled, enabled, quiet, mailed, changes, overlapped, racing, gone, revived>>
    /\ UNCHANGED suppVars

More(x) == act[x].next <= Len(Members)
Member(x) == Members[act[x].next]
Onward(x) == act' = [act EXCEPT ![x].pc = "cap", ![x].next = @ + 1]

\* countMarketingDeliveriesForRecipientSince
Counted(c) == mailed[c] - gone[c]

MutUnderCap(c) == TRUE
UnderCap(c) == Counted(c) < Cap

\* a member who may be mailed and is under the frequency cap
CheckMember(x) ==
    /\ act[x].pc = "cap" /\ More(x)
    /\ IF Member(x) \in act[x].reach /\ UnderCap(Member(x))
       THEN /\ Step(x, "cap", "mail")
            /\ overlapped' = overlapped \cup
                  {c \in {Member(x)} : \E y \in Actors \ {x} : act[y].pc = "mail" /\ Member(y) = c}
       ELSE Onward(x) /\ UNCHANGED overlapped
    /\ UNCHANGED <<status, scheduled, job, enabled, quiet, mailed, changes, lost, racing, gone, revived>>
    /\ UNCHANGED suppVars

\* sendTransactional, up to the stored delivery
Mail(x) ==
    /\ act[x].pc = "mail"
    /\ mailed' = [mailed EXCEPT ![Member(x)] = @ + 1]
    /\ Onward(x)
    /\ UNCHANGED <<status, scheduled, job, enabled, quiet, changes, lost, overlapped, racing, gone, revived>>
    /\ UNCHANGED suppVars

MarkSending(x) ==
    /\ act[x].pc = "cap" /\ ~More(x)
    /\ Step(x, "cap", "idle")
    /\ status' = "sending"
    /\ job' = Finished(x)
    /\ UNCHANGED <<scheduled, enabled, quiet, mailed, changes, lost, overlapped, racing, gone, revived>>
    /\ UNCHANGED suppVars

\* reconcileCampaignDeliveryStats, once every delivery is final
Reconcile ==
    /\ status = "sending"
    /\ status' = "completed"
    /\ UNCHANGED <<scheduled, job, enabled, quiet, act, mailed, changes, lost, overlapped, racing, gone, revived>>
    /\ UNCHANGED suppVars

SameCampaign ==
    UNCHANGED <<status, scheduled, job, enabled, quiet, act, mailed, changes, lost, overlapped, racing>>

\* What becomes of a mail, as far as it counts: it fails, or a retry marks it
\* as sending again (MailDelivery).
MailFails(c) ==
    /\ Counted(c) > 0
    /\ Fault
    /\ gone' = [gone EXCEPT ![c] = @ + 1]
    /\ SameCampaign /\ SameSupp /\ UNCHANGED revived

MailRetried(c) ==
    /\ gone[c] > 0
    /\ gone' = [gone EXCEPT ![c] = @ - 1]
    /\ revived' = revived \cup {c}
    /\ SameCampaign /\ UNCHANGED suppVars

-----------------------------------------------------------------------------
(* Errors, deaths, the send controls and the clock.                        *)

\* An error of a query, or of the queue while a job is added.
Throws(x) ==
    /\ Fault
    /\ \E pc \in {"approve", "pause", "cancel", "reread", "enqueue", "check", "hours", "require",
                  "members", "settings", "cap", "mail"} :
          /\ Step(x, pc, "idle")
          /\ job' = Failed(x)
          /\ lost' = (lost \/ pc \in {"reread", "enqueue"} \/ \E j \in Jobs : job'[j].state = "failed")
    /\ UNCHANGED <<status, scheduled, enabled, quiet, mailed, changes, overlapped, racing, gone, revived>>
    /\ SameSupp

\* The process dies; BullMQ hands its job out again.
Dies(x) ==
    /\ Working(x)
    /\ Fault
    /\ act' = [act EXCEPT ![x] = Off]
    /\ job' = IF act[x].job = None THEN job
              ELSE [job EXCEPT ![act[x].job].state = "waiting"]
    /\ lost' = (lost \/ act[x].pc \in {"reread", "enqueue"})
    /\ UNCHANGED <<status, scheduled, enabled, quiet, mailed, changes, overlapped, racing, gone, revived>>
    /\ SameSupp

PatchControls ==
    /\ Change
    /\ enabled' = ~enabled
    /\ UNCHANGED <<status, scheduled, job, quiet, act, mailed, lost, overlapped, racing, gone, revived, suppVars>>

QuietBegins ==
    /\ ~quiet /\ Change
    /\ quiet' = TRUE
    /\ UNCHANGED <<status, scheduled, job, enabled, act, mailed, lost, overlapped, racing, gone, revived, suppVars>>

QuietEnds ==
    /\ quiet /\ quiet' = FALSE
    /\ UNCHANGED <<status, scheduled, job, enabled, act, mailed, changes, lost, overlapped, racing, gone, revived, suppVars>>

ActStep(x) ==
    \/ Approve(x) \/ Reread(x) \/ Enqueue(x) \/ Stop(x) \/ CheckStatus(x) \/ CheckHours(x)
    \/ Require(x) \/ ReadMembers(x) \/ ReadSettings(x) \/ CheckMember(x) \/ Mail(x) \/ MarkSending(x)

Next ==
    \/ \E x \in Staff : BeginChange(x) \/ BeginQueue(x)
    \/ \E x \in Workers, j \in Jobs : TakeJob(x, j)
    \/ \E x \in Actors : ActStep(x) \/ Throws(x) \/ Dies(x)
    \/ \E c \in Contacts : MailFails(c) \/ MailRetried(c)
    \/ Reconcile \/ PatchControls \/ QuietBegins \/ QuietEnds
    \/ SuppNext /\ UNCHANGED campaignVars

Spec == Init /\ [][Next]_vars

-----------------------------------------------------------------------------
(* Properties.                                                             *)

TypeOK ==
    /\ SuppTypeOK
    /\ status \in {"draft", "scheduled", "approved", "paused", "canceled", "sending", "completed"}
    /\ scheduled \in BOOLEAN
    /\ job \in [Jobs -> [state : {"none", "waiting", "active", "failed"}, tries : 0..Attempts]]
    /\ enabled \in BOOLEAN /\ quiet \in BOOLEAN
    /\ act \in [Actors -> [pc : {"idle", "approve", "pause", "cancel", "reread", "enqueue", "check",
                                 "hours", "require", "members", "settings", "cap", "mail"},
                           job : Jobs \cup {None}, reach : SUBSET Contacts,
                           next : 1..Len(Members) + 1]]
    /\ mailed \in [Contacts -> Nat] /\ gone \in [Contacts -> Nat]
    /\ changes \in 0..MaxChanges
    /\ lost \in BOOLEAN /\ overlapped \subseteq Contacts /\ racing \in BOOLEAN
    /\ revived \subseteq Contacts

\* No one has more mails than the frequency cap, however often a campaign is
\* tried again, resumed or queued by hand, unless two calls were about to mail
\* the same contact at once, or a mail that had failed, and so did not count,
\* was tried again (mail-marketing.service.ts:1237, 1279).
CapUnlessOverlapped ==
    \A c \in Contacts : Counted(c) > Cap => c \in overlapped \cup revived

\* A scheduled campaign has a job that will take it up, or an approval that is
\* about to add one, unless that job is known to be gone: its attempts are
\* spent, its addition failed, or was ignored because its id was taken
\* (mail-marketing.service.ts:1082, 2191).
ScheduledHasJob ==
    status = "scheduled" =>
        \/ lost
        \/ \E j \in Jobs : job[j].state = "waiting"
        \/ \E x \in Actors : act[x].pc \in {"reread", "enqueue", "check", "hours", "require",
                                            "members", "settings", "cap", "mail"}

\* A campaign that was stopped with no call at work stays silent: nobody is
\* mailed until staff approve it, and a canceled one is never approved
\* (mail-marketing.service.ts:1057, 1100, 1173).
StoppedIsSilent ==
    [][~racing /\ status \in {"paused", "canceled"}
         => /\ mailed' = mailed
            /\ status' = status \/ (status = "paused" /\ status' # "sending")]_vars
=============================================================================
