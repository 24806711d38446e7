------------------------------ MODULE MailEvents ------------------------------
(***************************************************************************)
(* Provider events: receiveResendWebhook and receivePostmarkWebhook look   *)
(* for the event, read the delivery it is about, store the event under a   *)
(* unique key, write the delivery's status and event tally from the row    *)
(* they read, suppress the recipient of a bounce and mark the event        *)
(* processed.  Composed with MailDelivery, whose workers write the same    *)
(* row.  The provider sends an event until it is answered, and again.      *)
(* Left out: signatures, events that match no delivery, the queries that   *)
(* suppress a recipient (MailSuppression), opens and clicks, which only    *)
(* count.                                                                  *)
(* Ghosts: applied, beside, cut.  Bounds: Events; sending an event again   *)
(* counts as a fault.                                                      *)
(***************************************************************************)
EXTENDS MailDelivery

CONSTANTS Events, Hooks

ASSUME EventAssumption == None \notin Events

VARIABLES
    report,    \* what the provider reports, and whether it still owes it
    stored,    \* table mail_provider_events: "none", "stored" or "processed"
    tally,     \* mail_deliveries.metadata.providerEvents of a mail
    blocked,   \* mails whose recipient was suppressed
    request,      \* requests of the provider
    applied,   \* ghost: how often an event was written to its delivery
    beside,    \* ghost: mails two requests had read at once
    cut        \* ghost: events stored by a request that ended early

eventVars == <<report, stored, tally, blocked, request, applied, beside, cut>>
mailEventVars == <<mailVars, eventVars>>

Silent == [kind |-> "none", mail |-> None, owed |-> "no"]
NoRequest == [pc |-> "idle", event |-> None, read |-> {}]

EventInit ==
    /\ MailInit
    /\ report = [e \in Events |-> Silent]
    /\ stored = [e \in Events |-> "none"]
    /\ tally = [m \in Mails |-> {}]
    /\ blocked = {}
    /\ request = [h \in Hooks |-> NoRequest]
    /\ applied = [e \in Events |-> 0]
    /\ beside = {} /\ cut = {}

Event(h) == request[h].event
MailOf(h) == report[Event(h)].mail
RequestTo(h, from, to) == request[h].pc = from /\ request' = [request EXCEPT ![h].pc = to]
Owe(e, v) == report' = [report EXCEPT ![e].owed = v]

-----------------------------------------------------------------------------
(* The provider.                                                           *)

\* it reports what became of a mail it took
Report(e, m) ==
    /\ report[e] = Silent
    /\ accepted[m] > 0
    /\ \E k \in {"delivered", "bounced"} :
          report' = [report EXCEPT ![e] = [kind |-> k, mail |-> m, owed |-> "due"]]
    /\ UNCHANGED <<mailVars, stored, tally, blocked, request, applied, beside, cut>>

SendEvent(h, e) ==
    /\ request[h] = NoRequest
    /\ report[e].owed = "due"
    /\ Owe(e, "sent")
    /\ request' = [request EXCEPT ![h] = [pc |-> "find", event |-> e, read |-> {}]]
    /\ UNCHANGED <<mailVars, stored, tally, blocked, applied, beside, cut>>

\* it gives up waiting for an answer, or sends again what was answered
SendEventAgain(e) ==
    /\ report[e].owed \in {"sent", "answered"}
    /\ Fault
    /\ Owe(e, "due")
    /\ UNCHANGED <<delivery, job, dlq, settings, post, at, manual, ghosts,
                   stored, tally, blocked, request, applied, beside, cut>>

\* nobody hears an answer the provider no longer waits for
Reply(h, v) ==
    /\ request' = [request EXCEPT ![h] = NoRequest]
    /\ IF report[Event(h)].owed = "sent" THEN Owe(Event(h), v) ELSE UNCHANGED report

-----------------------------------------------------------------------------
(* receiveResendWebhook.                                                   *)

FindEvent(h) ==
    /\ request[h].pc = "find"
    /\ IF stored[Event(h)] = "none" THEN RequestTo(h, "find", "resolve") /\ UNCHANGED report
       ELSE Reply(h, "answered")
    /\ UNCHANGED <<mailVars, stored, tally, blocked, applied, beside, cut>>

ResolveDelivery(h) ==
    /\ request[h].pc = "resolve"
    /\ request' = [request EXCEPT ![h].pc = "create", ![h].read = tally[MailOf(h)]]
    /\ beside' = beside \cup
          {m \in {MailOf(h)} : \E g \in Hooks \ {h} : request[g].pc \in {"create", "apply"} /\ MailOf(g) = m}
    /\ UNCHANGED <<mailVars, report, stored, tally, blocked, applied, cut>>

MutUnstored(e) == TRUE
Unstored(e) == stored[e] = "none"

CreateEvent(h) ==
    /\ request[h].pc = "create"
    /\ IF Unstored(Event(h))
       THEN /\ stored' = [stored EXCEPT ![Event(h)] = "stored"]
            /\ RequestTo(h, "create", "apply")
            /\ UNCHANGED report
       ELSE Reply(h, "answered") /\ UNCHANGED stored
    /\ UNCHANGED <<mailVars, tally, blocked, applied, beside, cut>>

StatusAfter(kind) == IF kind = "delivered" THEN "sent" ELSE "failed"

MutTallied(h) == {Event(h)}
Tallied(h) == request[h].read \cup {Event(h)}

ApplyEvent(h) ==
    LET e == Event(h)
        m == MailOf(h)
        bounced == report[e].kind = "bounced"
    IN  /\ RequestTo(h, "apply", IF bounced THEN "block" ELSE "finish")
        /\ delivery' = [delivery EXCEPT ![m] = StatusAfter(report[e].kind)]
        /\ tally' = [tally EXCEPT ![m] = Tallied(h)]
        /\ applied' = [applied EXCEPT ![e] = @ + 1]
        /\ Doubted(m, bounced)
        /\ UNCHANGED <<job, dlq, settings, post, at, faults, manual, accepted, unrecorded,
                       report, stored, blocked, beside, cut>>

BlockRecipient(h) ==
    /\ RequestTo(h, "block", "finish")
    /\ blocked' = blocked \cup {MailOf(h)}
    /\ UNCHANGED <<mailVars, report, stored, tally, applied, beside, cut>>

FinishEvent(h) ==
    /\ request[h].pc = "finish"
    /\ stored' = [stored EXCEPT ![Event(h)] = "processed"]
    /\ Reply(h, "answered")
    /\ UNCHANGED <<mailVars, tally, blocked, applied, beside, cut>>

\* an error of a query, or the death of the process
EndsEarly(h) ==
    /\ request[h].pc # "idle"
    /\ Fault
    /\ Reply(h, "due")
    /\ cut' = cut \cup {e \in {Event(h)} : request[h].pc \in {"apply", "block", "finish"}}
    /\ UNCHANGED <<delivery, job, dlq, settings, post, at, manual, ghosts,
                   stored, tally, blocked, applied, beside>>

EventStep(h) ==
    \/ FindEvent(h) \/ ResolveDelivery(h) \/ CreateEvent(h) \/ ApplyEvent(h)
    \/ BlockRecipient(h) \/ FinishEvent(h)

EventNext ==
    \/ \E e \in Events, m \in Mails : Report(e, m)
    \/ \E h \in Hooks, e \in Events : SendEvent(h, e)
    \/ \E e \in Events : SendEventAgain(e)
    \/ \E h \in Hooks : EventStep(h) \/ EndsEarly(h)
    \/ (MailNext \/ \E c \in Callers, m \in Mails : BeginSend(c, m)) /\ UNCHANGED eventVars

EventSpec == EventInit /\ [][EventNext]_mailEventVars

-----------------------------------------------------------------------------
(* Properties.                                                             *)

EventTypeOK ==
    /\ MailTypeOK
    /\ report \in [Events -> [kind : {"none", "delivered", "bounced"}, mail : Mails \cup {None},
                              owed : {"no", "due", "sent", "answered"}]]
    /\ stored \in [Events -> {"none", "stored", "processed"}]
    /\ tally \in [Mails -> SUBSET Events] /\ blocked \subseteq Mails
    /\ request \in [Hooks -> [pc : {"idle", "find", "resolve", "create", "apply", "block", "finish"},
                           event : Events \cup {None}, read : SUBSET Events]]
    /\ applied \in [Events -> Nat] /\ beside \subseteq Mails /\ cut \subseteq Events

\* An event reaches its delivery once, however often it is sent, and an event
\* that was stored is applied by the request that stored it or, after its
\* error or death, not at all: the repetition is answered as a duplicate
\* (mail.service.ts:852-863, 886-899).
AppliedOnce ==
    \A e \in Events :
        /\ applied[e] <= 1
        /\ stored[e] # "none" /\ applied[e] = 0
              => e \in cut \/ \E h \in Hooks : request[h].pc = "apply" /\ Event(h) = e

\* The events a delivery lists are those applied to it, except that of two
\* requests that had read it at once one is forgotten
\* (mail.service.ts:2678-2698).
TallyComplete ==
    \A e \in Events : applied[e] > 0 =>
        e \in tally[report[e].mail] \/ report[e].mail \in beside
=============================================================================
