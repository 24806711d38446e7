----------------------------- MODULE MailDelivery -----------------------------
(***************************************************************************)
(* Transactional mail: MailService.sendTransactional stores a delivery     *)
(* under an idempotency key and queues one job for it; the outbound        *)
(* worker, an administrator's retry and the retry of a dead letter all run *)
(* deliverQueued, which reads the row, asks the send controls, marks it    *)
(* sending, calls the provider and records the result.  Every write is an  *)
(* update without a condition.  One action per database, queue or provider *)
(* round trip.                                                             *)
(* A mail stands for its idempotency key, its delivery row and its job.    *)
(* Left out: the content, the choice among providers (they behave alike),  *)
(* the inline mode without Redis, a second dead letter of one delivery;    *)
(* recordDlq is one action.                                                *)
(* Ghosts: accepted, unrecorded, doubt.  Bounds: MaxTries is the job's     *)
(* attempts, MaxFaults bounds errors and deaths, MaxManual what            *)
(* administrators do.                                                      *)
(* Definitions named Mut... are seeded faults, not the code's behaviour.   *)
(***************************************************************************)
EXTENDS Naturals, FiniteSets

CONSTANTS Mails, Callers, Workers, Admins, None, MaxTries, MaxFaults, MaxManual

ASSUME MailAssumption ==
    /\ None \notin Mails
    /\ Workers \cap Admins = {}
    /\ IsFiniteSet(Workers) /\ IsFiniteSet(Admins)
    /\ MaxTries \in Nat \ {0} /\ MaxFaults \in Nat /\ MaxManual \in Nat

Senders == Workers \cup Admins

VARIABLES
    delivery,    \* table mail_deliveries: the status, "none" is no row
    job,         \* the BullMQ job of a mail
    dlq,         \* table mail_dlq: the status of a mail's row
    settings,    \* what the send controls say: "on", "disabled" or "category"
    post,        \* calls of sendTransactional
    at,          \* runs of deliverQueued
    faults, manual,
    accepted,    \* ghost: how often the provider took the mail
    unrecorded,  \* ghost: mails whose queueing or last failure went unrecorded
    doubt        \* ghost: how often a mail's success was lost, overwritten or run beside

ghosts == <<accepted, unrecorded, doubt>>
mailVars == <<delivery, job, dlq, settings, post, at, faults, manual, ghosts>>

Quit == [pc |-> "idle", mail |-> None]
Rest == [pc |-> "idle", mail |-> None, via |-> "job"]

MailInit ==
    /\ delivery = [m \in Mails |-> "none"]
    /\ job = [m \in Mails |-> [state |-> "none", tries |-> 0]]
    /\ dlq = [m \in Mails |-> "none"]
    /\ settings = "on"
    /\ post = [c \in Callers |-> Quit]
    /\ at = [s \in Senders |-> Rest]
    /\ faults = MaxFaults /\ manual = MaxManual
    /\ accepted = [m \in Mails |-> 0]
    /\ unrecorded = {} /\ doubt = [m \in Mails |-> 0]

Fault == faults > 0 /\ faults' = faults - 1
ByHand == manual > 0 /\ manual' = manual - 1

Doubted(m, cause) == doubt' = IF cause THEN [doubt EXCEPT ![m] = @ + 1] ELSE doubt
unsure == {m \in Mails : doubt[m] > 0}

-----------------------------------------------------------------------------
(* sendTransactional with an idempotency key.                              *)

Busy(m) == {s \in Senders : at[s].mail = m}

PostStep(c, from, to) ==
    /\ post[c].pc = from
    /\ post' = [post EXCEPT ![c].pc = to]
    /\ UNCHANGED <<settings, at, manual, accepted>>

BeginSend(c, m) ==
    /\ post[c].pc = "idle"
    /\ post' = [post EXCEPT ![c] = [pc |-> "find", mail |-> m]]
    /\ UNCHANGED <<delivery, job, dlq, settings, at, faults, manual, ghosts>>

FindKey(c) ==
    /\ PostStep(c, "find", IF delivery[post[c].mail] = "none" THEN "create" ELSE "returned")
    /\ UNCHANGED <<delivery, job, dlq, faults, unrecorded, doubt>>

MutTaken(m) == FALSE
Taken(m) == delivery[m] # "none"

\* the delivery and its key in one transaction; the loser finds the winner's
CreateDelivery(c) ==
    LET m == post[c].mail
    IN  /\ PostStep(c, "create", IF Taken(m) THEN "returned" ELSE "queue")
        /\ delivery' = IF Taken(m) THEN delivery ELSE [delivery EXCEPT ![m] = "queued"]
        /\ UNCHANGED <<job, dlq, faults, unrecorded, doubt>>

QueueMail(c) ==
    /\ PostStep(c, "queue", "returned")
    /\ job' = [job EXCEPT ![post[c].mail] = [state |-> "waiting", tries |-> 0]]
    /\ UNCHANGED <<delivery, dlq, faults, unrecorded, doubt>>

\* the queue refuses: the failure is recorded and the call returns all the same
QueueFails(c) ==
    /\ Fault
    /\ PostStep(c, "queue", "unqueued")
    /\ UNCHANGED <<delivery, job, dlq, unrecorded, doubt>>

MarkUnqueued(c) ==
    /\ PostStep(c, "unqueued", "undead")
    /\ delivery' = [delivery EXCEPT ![post[c].mail] = "failed"]
    /\ LET m == post[c].mail IN Doubted(m, Busy(m) # {} \/ accepted[m] > 0)
    /\ UNCHANGED <<job, dlq, faults, unrecorded>>

RecordUnqueued(c) ==
    /\ PostStep(c, "undead", "returned")
    /\ dlq' = [dlq EXCEPT ![post[c].mail] = "pending"]
    /\ UNCHANGED <<delivery, job, faults, unrecorded, doubt>>

Uncertain(c) == IF post[c].pc \in {"queue", "unqueued", "undead"} THEN {post[c].mail} ELSE {}

\* a query throws outside the handler of the queue's error
SendThrows(c) ==
    /\ Fault
    /\ \E pc \in {"find", "create", "unqueued", "undead"} : PostStep(c, pc, "thrown")
    /\ unrecorded' = unrecorded \cup Uncertain(c)
    /\ UNCHANGED <<delivery, job, dlq, doubt>>

SendStep(c) ==
    \/ FindKey(c) \/ CreateDelivery(c) \/ QueueMail(c) \/ MarkUnqueued(c) \/ RecordUnqueued(c)

-----------------------------------------------------------------------------
(* deliverQueued, run by the worker ("job"), by retryDelivery ("retry") or *)
(* by retryDlq ("dlq").                                                    *)

Start(s, m, via) ==
    /\ at[s] = Rest
    /\ at' = [at EXCEPT ![s] = [pc |-> "read", mail |-> m, via |-> via]]
    /\ Doubted(m, Busy(m) # {})
    /\ UNCHANGED <<delivery, settings, post, faults, accepted, unrecorded>>

TakeJob(s, m) ==
    /\ s \in Workers
    /\ job[m].state = "waiting"
    /\ job' = [job EXCEPT ![m].state = "active"]
    /\ Start(s, m, "job")
    /\ UNCHANGED <<dlq, manual>>

RetryDelivery(s, m) ==
    /\ s \in Admins
    /\ delivery[m] # "none"
    /\ ByHand
    /\ Start(s, m, "retry")
    /\ UNCHANGED <<job, dlq>>

RetryDlq(s, m) ==
    /\ s \in Admins
    /\ dlq[m] # "none"
    /\ ByHand
    /\ dlq' = [dlq EXCEPT ![m] = "retrying"]
    /\ Start(s, m, "dlq")
    /\ UNCHANGED job

DiscardDlq(m) ==
    /\ dlq[m] # "none"
    /\ ByHand
    /\ dlq' = [dlq EXCEPT ![m] = "discarded"]
    /\ UNCHANGED <<delivery, job, settings, post, at, faults, ghosts>>

\* an administrator changes the send controls
PatchSettings ==
    /\ ByHand
    /\ \E v \in {"on", "disabled", "category"} \ {settings} : settings' = v
    /\ UNCHANGED <<delivery, job, dlq, post, at, faults, ghosts>>

Go(s, from, to) == at[s].pc = from /\ at' = [at EXCEPT ![s].pc = to]

\* what the end of deliverQueued means to whoever ran it
OnReturn(s) ==
    LET m == at[s].mail
    IN  /\ job' = IF at[s].via = "job" THEN [job EXCEPT ![m].state = "over"] ELSE job
        /\ dlq' = IF at[s].via = "dlq" THEN [dlq EXCEPT ![m] = "resolved"] ELSE dlq

Tries(m) == job[m].tries + 1

MutDeadLettered(s, dead) == at[s].via = "dlq"
DeadLettered(s, dead) == dead \/ at[s].via = "dlq"

OnThrow(s, dead) ==
    LET m == at[s].mail
    IN  /\ job' = IF at[s].via = "job"
                  THEN [job EXCEPT ![m] = [state |-> IF Tries(m) < MaxTries THEN "waiting" ELSE "over",
                                           tries |-> Tries(m)]]
                  ELSE job
        /\ dlq' = IF DeadLettered(s, dead) THEN [dlq EXCEPT ![m] = "pending"] ELSE dlq

MutAlreadySent(m) == FALSE
AlreadySent(m) == delivery[m] = "sent"

ReadDelivery(s) ==
    /\ Go(s, "read", IF AlreadySent(at[s].mail) THEN "return" ELSE "decide")
    /\ UNCHANGED <<delivery, job, dlq, settings, post, faults, manual, ghosts>>

\* evaluateDeliverySendDecision, for a mail that is not critical
Decide(s) ==
    /\ Go(s, "decide", CASE settings = "on" -> "mark"
                         [] settings = "disabled" -> "disable"
                         [] OTHER -> "skip")
    /\ UNCHANGED <<delivery, job, dlq, settings, post, faults, manual, ghosts>>

HoldBack(s) ==
    /\ \/ /\ Go(s, "disable", "return")
          /\ delivery' = [delivery EXCEPT ![at[s].mail] = "queued_disabled"]
       \/ /\ Go(s, "skip", "return")
          /\ delivery' = [delivery EXCEPT ![at[s].mail] = "skipped"]
    /\ UNCHANGED <<job, dlq, settings, post, faults, manual, ghosts>>

MarkSending(s) ==
    /\ Go(s, "mark", "send")
    /\ delivery' = [delivery EXCEPT ![at[s].mail] = "sending"]
    /\ UNCHANGED <<job, dlq, settings, post, faults, manual, ghosts>>

\* no provider has a key configured
NoProvider(s) ==
    /\ Go(s, "send", "skip")
    /\ UNCHANGED <<delivery, job, dlq, settings, post, faults, manual, ghosts>>

\* The provider takes the mail, or refuses it, or takes it and the answer is
\* lost.
Provider(s) ==
    LET m == at[s].mail
        took == accepted' = [accepted EXCEPT ![m] = @ + 1]
    IN  /\ \/ Go(s, "send", "sent") /\ took /\ UNCHANGED <<faults, doubt>>
           \/ Go(s, "send", "fail") /\ UNCHANGED <<accepted, faults, doubt>>
           \/ Go(s, "send", "fail") /\ took /\ Fault /\ Doubted(m, TRUE)
        /\ UNCHANGED <<delivery, job, dlq, settings, post, manual, unrecorded>>

MarkSent(s) ==
    /\ Go(s, "sent", "return")
    /\ delivery' = [delivery EXCEPT ![at[s].mail] = "sent"]
    /\ UNCHANGED <<job, dlq, settings, post, faults, manual, ghosts>>

Failing(m) == [delivery EXCEPT ![m] = "failed"]

MarkFailed(s) ==
    /\ Go(s, "fail", "dead")
    /\ delivery' = Failing(at[s].mail)
    /\ UNCHANGED <<job, dlq, settings, post, faults, manual, ghosts>>

\* recordDlq and the error thrown on
RecordDlq(s) ==
    /\ at[s].pc = "dead"
    /\ at' = [at EXCEPT ![s] = Rest]
    /\ OnThrow(s, TRUE)
    /\ unrecorded' = unrecorded \ {at[s].mail}
    /\ UNCHANGED <<delivery, settings, post, faults, manual, accepted, doubt>>

Return(s) ==
    /\ at[s].pc = "return"
    /\ at' = [at EXCEPT ![s] = Rest]
    /\ OnReturn(s)
    /\ UNCHANGED <<delivery, settings, post, faults, manual, ghosts>>

\* A query throws outside the try of the provider's call, which ends before
\* markSent is awaited: the error reaches the job, the administrator, or
\* retryDlq, whose own update of the letter may fail as well.
DeliverThrows(s) ==
    /\ at[s].pc # "idle"
    /\ Fault
    /\ at' = [at EXCEPT ![s] = Rest]
    /\ \/ OnThrow(s, FALSE)
       \/ at[s].via = "dlq" /\ UNCHANGED <<job, dlq>>
    /\ unrecorded' = unrecorded \cup {at[s].mail}
    /\ Doubted(at[s].mail, at[s].pc = "sent")
    /\ UNCHANGED <<delivery, settings, post, manual, accepted>>

\* The process dies; BullMQ hands its job out again.
Die(s) ==
    LET m == at[s].mail
    IN  /\ at[s].pc # "idle"
        /\ Fault
        /\ at' = [at EXCEPT ![s] = Rest]
        /\ job' = IF at[s].via = "job" THEN [job EXCEPT ![m].state = "waiting"] ELSE job
        /\ Doubted(m, at[s].pc = "sent")
        /\ unrecorded' = unrecorded \cup {m}
        /\ UNCHANGED <<delivery, dlq, settings, post, manual, accepted>>

DeliverStep(s) ==
    \/ ReadDelivery(s) \/ Decide(s) \/ HoldBack(s) \/ MarkSending(s) \/ NoProvider(s)
    \/ Provider(s) \/ MarkSent(s) \/ MarkFailed(s) \/ RecordDlq(s) \/ Return(s)

Administer ==
    \/ \E s \in Admins, m \in Mails : RetryDelivery(s, m) \/ RetryDlq(s, m)
    \/ \E m \in Mails : DiscardDlq(m)
    \/ PatchSettings

MailNext ==
    \/ \E c \in Callers : SendStep(c) \/ QueueFails(c) \/ SendThrows(c)
    \/ \E s \in Senders : DeliverStep(s) \/ DeliverThrows(s) \/ Die(s)
    \/ \E s \in Workers, m \in Mails : TakeJob(s, m)
    \/ Administer

-----------------------------------------------------------------------------
(* Properties.                                                             *)

Statuses == {"none", "queued", "sending", "sent", "failed", "skipped", "queued_disabled"}
PostPcs == {"idle", "find", "create", "queue", "unqueued", "undead", "returned", "thrown"}
SendPcs == {"idle", "read", "decide", "disable", "skip", "mark", "send", "sent", "fail",
            "dead", "return"}

MailTypeOK ==
    /\ delivery \in [Mails -> Statuses]
    /\ job \in [Mails -> [state : {"none", "waiting", "active", "over"}, tries : 0..MaxTries]]
    /\ dlq \in [Mails -> {"none", "pending", "retrying", "resolved", "discarded"}]
    /\ settings \in {"on", "disabled", "category"}
    /\ post \in [Callers -> [pc : PostPcs, mail : Mails \cup {None}]]
    /\ at \in [Senders -> [pc : SendPcs, mail : Mails \cup {None}, via : {"job", "retry", "dlq"}]]
    /\ faults \in 0..MaxFaults /\ manual \in 0..MaxManual
    /\ accepted \in [Mails -> Nat]
    /\ unrecorded \subseteq Mails /\ doubt \in [Mails -> Nat]

Posting(m) == {c \in Callers : post[c].mail = m /\ post[c].pc \in {"queue", "unqueued", "undead"}}
Pending(m) == \/ job[m].state \in {"waiting", "active"}
              \/ Busy(m) # {}
              \/ Posting(m) # {}

\* what is left of a mail whose storing ended: its job, a recorded failure,
\* or the call that is about to queue it
Accounted(m) == \/ job[m].state # "none"
                \/ delivery[m] # "none" /\ (dlq[m] # "none" \/ m \in unrecorded)
                \/ Posting(m) # {}

\* A stored mail that never went out and that nobody works on is held back by
\* the send controls or an open dead letter, unless recording its last
\* failure failed as well (mail.service.ts:2187-2190).
NoMailVanishes ==
    \A m \in Mails :
        delivery[m] # "none" /\ accepted[m] = 0 /\ ~Pending(m) /\ m \notin unrecorded
            => \/ delivery[m] \in {"skipped", "queued_disabled"}
               \/ dlq[m] \in {"pending", "retrying", "discarded"}
               \/ dlq[m] = "resolved" /\ m \in unsure

\* A mail goes out once, and once more at most for each time that its success
\* was in doubt: an answer or a record that was lost, a status overwritten
\* over a success, a second run beside the first.  However many retries, late
\* jobs and dead letters there are, one doubt excuses one mail
\* (mail.service.ts:2109-2194).
SentOncePerDoubt == \A m \in Mails : accepted[m] <= 1 + doubt[m]
=============================================================================
