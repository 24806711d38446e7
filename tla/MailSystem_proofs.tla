-------------------------- MODULE MailSystem_proofs --------------------------
(***************************************************************************)
(* The two compositions with the mail layer.                               *)
(* MailEvents: NoMailVanishes, SentOncePerDoubt, AppliedOnce and           *)
(* TallyComplete for any mails, callers, workers, administrators, events   *)
(* and requests and any number of faults.                                  *)
(* WebhookInbox: ClaimedOnce and ProcessedMeansDone for any webhooks,      *)
(* mails, requests and workers and any impatience of Shopify.              *)
(* In both MailInv speaks for the mail layer: a delivery that has a row is *)
(* accounted for, and a call that returned left one; EventInv and InboxInv *)
(* speak for the requests: which of them has read or stored what.          *)
(***************************************************************************)
EXTENDS MailEvents, WebhookInbox, MailDelivery_proofs

-----------------------------------------------------------------------------
(* The provider's events.                                                  *)

ReportType == {Silent} \cup [kind : {"delivered", "bounced"}, mail : Mails,
                             owed : {"due", "sent", "answered"}]
RequestType == {NoRequest} \cup [pc : {"find", "resolve", "create", "apply", "block", "finish"},
                           event : Events, read : SUBSET Events]

EventsTyped ==
    /\ report \in [Events -> ReportType]
    /\ stored \in [Events -> {"none", "stored", "processed"}]
    /\ tally \in [Mails -> SUBSET Events]
    /\ request \in [Hooks -> RequestType]
    /\ applied \in [Events -> Nat]

\* The provider reports on a mail it took, and a request is about a report.
Reported ==
    /\ \A e \in Events : report[e] # Silent => accepted[report[e].mail] > 0
    /\ \A h \in Hooks : request[h].pc # "idle" => report[Event(h)] # Silent
    /\ \A e \in Events : stored[e] # "none" => report[e] # Silent

\* The request that stored an event is the only one that will apply it.
StoredHolds ==
    /\ \A e \in Events : stored[e] = "none" => applied[e] = 0
    /\ \A h \in Hooks : request[h].pc \in {"apply", "block", "finish"} => stored[Event(h)] # "none"
    /\ \A h \in Hooks : request[h].pc = "apply" =>
           /\ applied[Event(h)] = 0
           /\ \A g \in Hooks : request[g].pc = "apply" /\ Event(g) = Event(h) => g = h

\* Between its read and its write a request knows the whole tally of its mail,
\* unless another one is there too.
Reading(h) == request[h].pc \in {"create", "apply"}
ReadHolds ==
    /\ \A h \in Hooks : Reading(h) => tally[MailOf(h)] \subseteq request[h].read \/ MailOf(h) \in beside
    /\ \A h, g \in Hooks : Reading(h) /\ Reading(g) /\ g # h /\ MailOf(g) = MailOf(h)
                               => MailOf(h) \in beside

EventInv == EventsTyped /\ Reported /\ StoredHolds /\ ReadHolds /\ AppliedOnce /\ TallyComplete

MailEventInv == MailInv /\ EventInv

-----------------------------------------------------------------------------
LEMMA NoneIdle == NoRequest.pc = "idle" /\ Silent.owed = "no"
BY DEF NoRequest, Silent

LEMMA RequestTyped ==
  ASSUME MailEventInv, NEW h \in Hooks, request[h].pc # "idle"
  PROVE  /\ request[h] \in [pc : {"find", "resolve", "create", "apply", "block", "finish"},
                         event : Events, read : SUBSET Events]
         /\ Event(h) \in Events
         /\ report[Event(h)] \in [kind : {"delivered", "bounced"}, mail : Mails,
                                  owed : {"due", "sent", "answered"}]
         /\ MailOf(h) \in Mails
         /\ accepted[MailOf(h)] > 0
<1>1. request[h] \in [pc : {"find", "resolve", "create", "apply", "block", "finish"},
                   event : Events, read : SUBSET Events]
  BY NoneIdle DEF MailEventInv, EventInv, EventsTyped, RequestType
<1>2. Event(h) \in Events
  BY <1>1 DEF Event
<1>3. report[Event(h)] # Silent
  BY DEF MailEventInv, EventInv, Reported
<1>4. report[Event(h)] \in [kind : {"delivered", "bounced"}, mail : Mails,
                            owed : {"due", "sent", "answered"}]
  BY <1>2, <1>3 DEF MailEventInv, EventInv, EventsTyped, ReportType
<1>5. accepted[MailOf(h)] > 0
  BY <1>2, <1>3 DEF MailEventInv, EventInv, Reported, MailOf
<1>6. QED BY <1>1, <1>2, <1>4, <1>5 DEF MailOf

LEMMA EventsStart == EventInit => MailEventInv
<1> SUFFICES ASSUME EventInit PROVE MailEventInv
  OBVIOUS
<1>1. MailInv
  BY InitHolds DEF EventInit
<1>2. EventsTyped
  BY DEF EventInit, EventsTyped, ReportType, RequestType
<1>3. Reported /\ StoredHolds /\ ReadHolds
  BY NoneIdle DEF EventInit, Reported, StoredHolds, ReadHolds, Reading
<1>4. AppliedOnce /\ TallyComplete
  BY DEF EventInit, AppliedOnce, TallyComplete
<1>5. QED BY <1>1, <1>2, <1>3, <1>4 DEF MailEventInv, EventInv

\* The write of an event leaves the mail layer's promises alone.
LEMMA ApplyMail ==
  ASSUME MailInv, NEW m \in Mails, accepted[m] > 0, NEW v \in {"sent", "failed"},
         delivery' = [delivery EXCEPT ![m] = v],
         doubt' \in [Mails -> Nat],
         unsure \subseteq unsure', v = "failed" => m \in unsure',
         UNCHANGED <<job, dlq, post, at, accepted, unrecorded>>
  PROVE  MailInv'
<1>1. /\ delivery'[m] = v /\ (\A n \in Mails \ {m} : delivery'[n] = delivery[n])
      /\ delivery' \in [Mails -> Statuses]
  BY DEF MailInv, Typed, Statuses
<1>2. delivery[m] # "none"
  BY DEF MailInv, QueueHolds
<1>3. Typed'
  BY <1>1 DEF MailInv, Typed
<1>4. QueueHolds'
  BY <1>1, <1>2 DEF MailInv, QueueHolds
<1>5. RunHolds'
  BY <1>1 DEF MailInv, RunHolds
<1>6. SendHolds'
  BY <1>1 DEF MailInv, SendHolds, PastRead, Held
<1>7. \A n \in Mails : Carried(n) => Carried(n)'
  BY DEF Carried, Posting
<1>8. Kept'
  BY <1>1, <1>2, <1>7, KeptKeeps DEF MailInv, Typed
<1>9. AllAccounted'
  BY <1>1, <1>2 DEF MailInv, AllAccounted, Accounted, Posting
<1>10. QED BY <1>3, <1>4, <1>5, <1>6, <1>8, <1>9 DEF MailInv

\* The mail layer's steps leave the requests' promises alone.
LEMMA MailEventKeeps ==
  ASSUME MailEventInv, UNCHANGED eventVars, \A m \in Mails : accepted[m] > 0 => accepted'[m] > 0
  PROVE  EventInv'
<1>1. \A e \in Events : report[e] # Silent => report[e].mail \in Mails
  BY DEF MailEventInv, EventInv, EventsTyped, ReportType
<1>2. Reported'
  BY <1>1 DEF eventVars, MailEventInv, EventInv, Reported, Event
<1>3. QED BY <1>2 DEF eventVars, MailEventInv, EventInv, EventsTyped, StoredHolds, ReadHolds, Reading,
          AppliedOnce, TallyComplete, Event, MailOf

-----------------------------------------------------------------------------
\* What the provider still owes says nothing of the report itself.
SameReports ==
    /\ report' \in [Events -> ReportType]
    /\ \A e \in Events : /\ (report'[e] = Silent) <=> (report[e] = Silent)
                         /\ report'[e].mail = report[e].mail

LEMMA OweSame ==
  ASSUME EventsTyped, NEW e \in Events, report[e].owed # "no", NEW v \in {"due", "sent", "answered"},
         Owe(e, v)
  PROVE  SameReports
<1>1. report[e] \in [kind : {"delivered", "bounced"}, mail : Mails, owed : {"due", "sent", "answered"}]
  BY NoneIdle DEF EventsTyped, ReportType
<1>2. report \in [Events -> ReportType]
  BY DEF EventsTyped
<1>3. report' = [report EXCEPT ![e].owed = v]
  BY DEF Owe
<1>4. /\ report'[e] = [report[e] EXCEPT !.owed = v]
      /\ \A d \in Events \ {e} : report'[d] = report[d]
  BY <1>2, <1>3
<1>5. /\ [report[e] EXCEPT !.owed = v] \in [kind : {"delivered", "bounced"}, mail : Mails,
                                            owed : {"due", "sent", "answered"}]
      /\ [report[e] EXCEPT !.owed = v].mail = report[e].mail
      /\ [report[e] EXCEPT !.owed = v].owed # "no"
  BY <1>1
<1>6. report'[e] # Silent /\ report[e] # Silent
  BY <1>1, <1>4, <1>5, NoneIdle
<1>7. report' \in [Events -> ReportType]
  BY <1>2, <1>3, <1>4, <1>5 DEF ReportType
<1>8. QED BY <1>4, <1>5, <1>6, <1>7 DEF SameReports

LEMMA Unowed ==
  ASSUME MailEventInv, UNCHANGED report
  PROVE  SameReports
BY DEF MailEventInv, EventInv, EventsTyped, SameReports

LEMMA ReplyDoes ==
  ASSUME MailEventInv, NEW h \in Hooks, request[h].pc # "idle", NEW v \in {"due", "answered"}, Reply(h, v)
  PROVE  /\ SameReports
         /\ request' \in [Hooks -> RequestType]
         /\ request'[h] = NoRequest /\ \A g \in Hooks \ {h} : request'[g] = request[g]
<1>1. Event(h) \in Events
  BY RequestTyped
<1>2. SameReports
  <2>1. CASE report[Event(h)].owed = "sent"
    BY <1>1, <2>1, OweSame DEF MailEventInv, EventInv, Reply
  <2>2. CASE report[Event(h)].owed # "sent"
    BY <2>2, Unowed DEF Reply
  <2>3. QED BY <2>1, <2>2
<1>3. request' = [request EXCEPT ![h] = NoRequest] /\ request \in [Hooks -> RequestType]
  BY DEF Reply, MailEventInv, EventInv, EventsTyped
<1>4. QED BY <1>2, <1>3 DEF RequestType

LEMMA RequestToDoes ==
  ASSUME MailEventInv, NEW h \in Hooks, NEW from, from # "idle",
         NEW to \in {"resolve", "create", "apply", "block", "finish"}, RequestTo(h, from, to)
  PROVE  /\ request' \in [Hooks -> RequestType]
         /\ request[h].pc = from
         /\ request'[h].pc = to /\ request'[h].event = request[h].event /\ request'[h].read = request[h].read
         /\ \A g \in Hooks \ {h} : request'[g] = request[g]
<1>1. request[h].pc = from /\ request' = [request EXCEPT ![h].pc = to]
  BY DEF RequestTo
<1>2. request[h] \in [pc : {"find", "resolve", "create", "apply", "block", "finish"},
                   event : Events, read : SUBSET Events]
  BY <1>1, RequestTyped
<1>3. request \in [Hooks -> RequestType]
  BY DEF MailEventInv, EventInv, EventsTyped
<1>4. request'[h] = [request[h] EXCEPT !.pc = to] /\ \A g \in Hooks \ {h} : request'[g] = request[g]
  BY <1>1, <1>3
<1>5. [request[h] EXCEPT !.pc = to] \in [pc : {"find", "resolve", "create", "apply", "block", "finish"},
                                      event : Events, read : SUBSET Events]
  BY <1>2
<1>6. request'[h].pc = to /\ request'[h].event = request[h].event /\ request'[h].read = request[h].read
  BY <1>2, <1>4
<1>7. request' \in [Hooks -> RequestType]
  BY <1>1, <1>3, <1>4, <1>5 DEF RequestType
<1>8. QED BY <1>1, <1>4, <1>6, <1>7

\* A request that ends, having stored nothing it did not apply or cut.
LEMMA EndRequestKeeps ==
  ASSUME MailEventInv, NEW h \in Hooks, request[h].pc # "idle",
         SameReports, request' \in [Hooks -> RequestType],
         request'[h] = NoRequest, \A g \in Hooks \ {h} : request'[g] = request[g],
         stored' \in [Events -> {"none", "stored", "processed"}],
         \A e \in Events : stored'[e] = "none" <=> stored[e] = "none",
         cut \subseteq cut', request[h].pc = "apply" => Event(h) \in cut',
         UNCHANGED <<accepted, tally, applied, beside>>
  PROVE  EventInv'
<1>1. EventsTyped'
  BY DEF MailEventInv, EventInv, EventsTyped, SameReports
<1>2. \A g \in Hooks : request'[g].pc # "idle" =>
          /\ g # h /\ request'[g] = request[g] /\ request[g].event \in Events
          /\ report[request[g].event] # Silent
  BY RequestTyped, NoneIdle DEF MailEventInv, EventInv, Reported, Event
<1>3. Reported'
  BY <1>2 DEF MailEventInv, EventInv, Reported, SameReports, Event
<1>4. StoredHolds'
  BY <1>2 DEF MailEventInv, EventInv, StoredHolds, Event
<1>5. ReadHolds'
  <2>1. \A g \in Hooks : request'[g].pc # "idle" => report'[request'[g].event].mail = report[request[g].event].mail
    BY <1>2 DEF SameReports
  <2>2. QED BY <1>2, <2>1 DEF MailEventInv, EventInv, ReadHolds, Reading, Event, MailOf
<1>6. AppliedOnce'
  BY DEF MailEventInv, EventInv, AppliedOnce, Event
<1>7. TallyComplete'
  BY DEF MailEventInv, EventInv, TallyComplete, SameReports
<1>8. QED BY <1>1, <1>3, <1>4, <1>5, <1>6, <1>7 DEF EventInv

-----------------------------------------------------------------------------
LEMMA ReportKeeps ==
  ASSUME MailEventInv, NEW e \in Events, NEW m \in Mails, Report(e, m)
  PROVE  MailEventInv'
<1>1. PICK k \in {"delivered", "bounced"} :
         report' = [report EXCEPT ![e] = [kind |-> k, mail |-> m, owed |-> "due"]]
  BY DEF Report
<1>2. /\ report[e] = Silent /\ accepted[m] > 0
      /\ UNCHANGED <<mailVars, stored, tally, blocked, request, applied, beside, cut>>
  BY DEF Report
<1>3. /\ report'[e].mail = m /\ (\A d \in Events \ {e} : report'[d] = report[d])
      /\ report'[e].owed = "due"
      /\ report' \in [Events -> ReportType]
  BY <1>1 DEF MailEventInv, EventInv, EventsTyped, ReportType
<1>4. stored[e] = "none" /\ applied[e] = 0
  BY <1>2 DEF MailEventInv, EventInv, Reported, StoredHolds
<1>5. \A h \in Hooks : request[h].pc # "idle" => Event(h) \in Events \ {e}
  BY <1>2, RequestTyped DEF MailEventInv, EventInv, Reported
<1>6. EventsTyped'
  BY <1>2, <1>3 DEF MailEventInv, EventInv, EventsTyped
<1>7. Reported'
  BY <1>2, <1>3, <1>4, <1>5, NoneIdle DEF mailVars, ghosts, MailEventInv, EventInv, Reported, Event
<1>8. StoredHolds' /\ AppliedOnce'
  BY <1>2 DEF MailEventInv, EventInv, StoredHolds, AppliedOnce, Event
<1>9. ReadHolds'
  BY <1>2, <1>3, <1>5 DEF MailEventInv, EventInv, ReadHolds, Reading, Event, MailOf
<1>10. TallyComplete'
  BY <1>2, <1>3, <1>4 DEF MailEventInv, EventInv, TallyComplete
<1>11. MailInv'
  BY <1>2, QuietKeeps DEF MailEventInv, mailVars
<1>12. QED BY <1>6, <1>7, <1>8, <1>9, <1>10, <1>11 DEF MailEventInv, EventInv

\* What changes only what is owed.
LEMMA AgainKeeps ==
  ASSUME MailEventInv, NEW e \in Events, SendEventAgain(e)
  PROVE  MailEventInv'
<1>1. SameReports
  BY OweSame DEF SendEventAgain, MailEventInv, EventInv
<1>2. UNCHANGED <<delivery, job, dlq, post, at, ghosts, stored, tally, request, applied, beside, cut>>
  BY DEF SendEventAgain
<1>3. MailInv'
  BY <1>2, QuietKeeps DEF MailEventInv
<1>4. EventsTyped' /\ StoredHolds' /\ AppliedOnce'
  BY <1>1, <1>2 DEF MailEventInv, EventInv, EventsTyped, SameReports, StoredHolds, AppliedOnce, Event
<1>5. \A h \in Hooks : request[h].pc # "idle" => request[h].event \in Events
  BY RequestTyped DEF Event
<1>6. Reported'
  BY <1>1, <1>2, <1>5 DEF ghosts, MailEventInv, EventInv, Reported, SameReports, Event
<1>7. ReadHolds'
  BY <1>1, <1>2, <1>5 DEF MailEventInv, EventInv, ReadHolds, Reading, SameReports, Event, MailOf
<1>8. TallyComplete'
  BY <1>1, <1>2 DEF MailEventInv, EventInv, TallyComplete, SameReports
<1>9. QED BY <1>3, <1>4, <1>6, <1>7, <1>8 DEF MailEventInv, EventInv

LEMMA SendEventKeeps ==
  ASSUME MailEventInv, NEW h \in Hooks, NEW e \in Events, SendEvent(h, e)
  PROVE  MailEventInv'
<1> DEFINE new == [pc |-> "find", event |-> e, read |-> {}]
<1>1. /\ request[h] = NoRequest /\ report[e].owed = "due"
      /\ request' = [request EXCEPT ![h] = new]
      /\ UNCHANGED <<mailVars, stored, tally, applied, beside, cut>>
  BY DEF SendEvent
<1>2. SameReports /\ report[e] # Silent
  BY <1>1, OweSame, NoneIdle DEF SendEvent, MailEventInv, EventInv
<1>3. /\ request'[h] = new /\ (\A g \in Hooks \ {h} : request'[g] = request[g])
      /\ request' \in [Hooks -> RequestType]
  BY <1>1 DEF MailEventInv, EventInv, EventsTyped, RequestType
<1>4. MailInv'
  BY <1>1, QuietKeeps DEF MailEventInv, mailVars
<1>5. EventsTyped'
  BY <1>1, <1>2, <1>3 DEF MailEventInv, EventInv, EventsTyped, SameReports
<1>6. \A g \in Hooks : request[g].pc # "idle" => request[g].event \in Events
  BY RequestTyped DEF Event
<1>7. Reported'
  BY <1>1, <1>2, <1>3, <1>6 DEF mailVars, ghosts, MailEventInv, EventInv, Reported, SameReports, Event
<1>8. StoredHolds'
  BY <1>1, <1>3 DEF MailEventInv, EventInv, StoredHolds, Event
<1>9. ReadHolds'
  BY <1>1, <1>2, <1>3, <1>6 DEF MailEventInv, EventInv, ReadHolds, Reading, SameReports, Event, MailOf
<1>10. AppliedOnce'
  BY <1>1, <1>3, NoneIdle DEF MailEventInv, EventInv, AppliedOnce, Event
<1>11. TallyComplete'
  BY <1>1, <1>2 DEF MailEventInv, EventInv, TallyComplete, SameReports
<1>12. QED BY <1>4, <1>5, <1>7, <1>8, <1>9, <1>10, <1>11 DEF MailEventInv, EventInv

\* The answers: to a repetition, at the end and to an error.
LEMMA ReplyKeeps ==
  ASSUME MailEventInv, NEW h \in Hooks,
         \/ FindEvent(h) /\ stored[Event(h)] # "none"
         \/ CreateEvent(h) /\ ~Unstored(Event(h))
         \/ FinishEvent(h)
         \/ EndsEarly(h)
  PROVE  MailEventInv'
<1>1. PICK v \in {"due", "answered"} : Reply(h, v) /\ request[h].pc # "idle"
  BY DEF FindEvent, CreateEvent, FinishEvent, EndsEarly
<1>2. UNCHANGED <<delivery, job, dlq, post, at, ghosts, tally, applied, beside>>
  BY DEF FindEvent, CreateEvent, FinishEvent, EndsEarly, mailVars
<1>3. /\ SameReports /\ request' \in [Hooks -> RequestType]
      /\ request'[h] = NoRequest /\ \A g \in Hooks \ {h} : request'[g] = request[g]
  BY <1>1, ReplyDoes
<1>4. Event(h) \in Events /\ stored \in [Events -> {"none", "stored", "processed"}]
  BY <1>1, RequestTyped DEF MailEventInv, EventInv, EventsTyped
<1>5. /\ stored' \in [Events -> {"none", "stored", "processed"}]
      /\ \A e \in Events : stored'[e] = "none" <=> stored[e] = "none"
  <2>1. CASE FinishEvent(h)
    <3>1. stored[Event(h)] # "none" /\ stored' = [stored EXCEPT ![Event(h)] = "processed"]
      BY <2>1 DEF FinishEvent, MailEventInv, EventInv, StoredHolds
    <3>2. QED BY <1>4, <3>1
  <2>2. CASE ~FinishEvent(h)
    BY <2>2, <1>4 DEF FindEvent, CreateEvent, EndsEarly
  <2>3. QED BY <2>1, <2>2
<1>6. cut \subseteq cut' /\ (request[h].pc = "apply" => Event(h) \in cut')
  BY DEF FindEvent, CreateEvent, FinishEvent, EndsEarly
<1>7. MailInv'
  BY <1>2, QuietKeeps DEF MailEventInv
<1>8. EventInv'
  BY <1>1, <1>2, <1>3, <1>5, <1>6, EndRequestKeeps DEF ghosts
<1>9. QED BY <1>7, <1>8 DEF MailEventInv

\* A request moves on: where it stands afterwards is for each step to account
\* for.
LEMMA OnwardKeeps ==
  ASSUME MailEventInv, NEW h \in Hooks, request[h].pc # "idle",
         request' \in [Hooks -> RequestType], request'[h].pc # "idle", request'[h].event = request[h].event,
         \A g \in Hooks \ {h} : request'[g] = request[g],
         UNCHANGED <<accepted, report>>
  PROVE  Reported' <=> \A e \in Events : stored'[e] # "none" => report[e] # Silent
BY DEF MailEventInv, EventInv, Reported, Event

LEMMA FindKeepsEvent ==
  ASSUME MailEventInv, NEW h \in Hooks, FindEvent(h), stored[Event(h)] = "none"
  PROVE  MailEventInv'
<1>1. /\ RequestTo(h, "find", "resolve")
      /\ UNCHANGED <<mailVars, report, stored, tally, applied, beside, cut>>
  BY DEF FindEvent
<1>2. /\ request' \in [Hooks -> RequestType] /\ request[h].pc = "find"
      /\ request'[h].pc = "resolve" /\ request'[h].event = request[h].event
      /\ \A g \in Hooks \ {h} : request'[g] = request[g]
  BY <1>1, RequestToDoes
<1>3. MailInv'
  BY <1>1, QuietKeeps DEF MailEventInv, mailVars
<1>4. EventsTyped' /\ TallyComplete'
  BY <1>1, <1>2 DEF MailEventInv, EventInv, EventsTyped, TallyComplete
<1>5. Reported'
  BY <1>1, <1>2, OnwardKeeps DEF mailVars, ghosts, MailEventInv, EventInv, Reported
<1>6. StoredHolds'
  BY <1>1, <1>2 DEF MailEventInv, EventInv, StoredHolds, Event
<1>7. ReadHolds'
  BY <1>1, <1>2 DEF MailEventInv, EventInv, ReadHolds, Reading, Event, MailOf
<1>8. AppliedOnce'
  BY <1>1, <1>2 DEF MailEventInv, EventInv, AppliedOnce, Event
<1>9. QED BY <1>3, <1>4, <1>5, <1>6, <1>7, <1>8 DEF MailEventInv, EventInv

LEMMA ResolveKeeps ==
  ASSUME MailEventInv, NEW h \in Hooks, ResolveDelivery(h)
  PROVE  MailEventInv'
<1>1. /\ request[h].pc = "resolve"
      /\ request' = [request EXCEPT ![h].pc = "create", ![h].read = tally[MailOf(h)]]
      /\ UNCHANGED <<mailVars, report, stored, tally, applied, cut>>
  BY DEF ResolveDelivery
<1>2. /\ request[h] \in [pc : {"find", "resolve", "create", "apply", "block", "finish"},
                      event : Events, read : SUBSET Events]
      /\ MailOf(h) \in Mails
  BY <1>1, RequestTyped
<1>3. tally[MailOf(h)] \in SUBSET Events /\ request \in [Hooks -> RequestType]
  BY <1>2 DEF MailEventInv, EventInv, EventsTyped
<1> DEFINE new == [request[h] EXCEPT !.pc = "create", !.read = tally[MailOf(h)]]
<1>4. /\ new \in [pc : {"find", "resolve", "create", "apply", "block", "finish"},
                  event : Events, read : SUBSET Events]
      /\ new.pc = "create" /\ new.event = request[h].event /\ new.read = tally[MailOf(h)]
  BY <1>2, <1>3
<1>5. request'[h] = new /\ \A g \in Hooks \ {h} : request'[g] = request[g]
  BY <1>1, <1>3
<1>6. request' \in [Hooks -> RequestType]
  BY <1>1, <1>3, <1>4, <1>5 DEF RequestType
<1> HIDE DEF new
<1>at. /\ request[h].pc = "resolve" /\ request'[h].pc = "create" /\ request'[h].event = request[h].event
       /\ \A g \in Hooks \ {h} : request'[g] = request[g]
       /\ UNCHANGED <<stored, applied, cut>>
  BY <1>1, <1>4, <1>5
<1>7. MailInv'
  BY <1>1, QuietKeeps DEF MailEventInv, mailVars
<1>8. EventsTyped'
  BY <1>1, <1>6 DEF MailEventInv, EventInv, EventsTyped
<1>9. beside \subseteq beside'
  BY DEF ResolveDelivery
<1>10. TallyComplete'
  BY <1>1, <1>9 DEF MailEventInv, EventInv, TallyComplete
<1>11. Reported'
  BY <1>1, <1>4, <1>5, <1>6, OnwardKeeps DEF mailVars, ghosts, MailEventInv, EventInv, Reported
<1>12. StoredHolds'
  BY <1>at DEF MailEventInv, EventInv, StoredHolds, Event
<1>13. AppliedOnce'
  BY <1>at DEF MailEventInv, EventInv, AppliedOnce, Event
<1>14. ReadHolds'
  <2>1. MailOf(h)' = MailOf(h) /\ \A g \in Hooks \ {h} : MailOf(g)' = MailOf(g) /\ Reading(g)' = Reading(g)
    BY <1>1, <1>4, <1>5 DEF MailOf, Event, Reading
  <2>2. \A g \in Hooks \ {h} : Reading(g) /\ MailOf(g) = MailOf(h) => MailOf(h) \in beside'
    BY DEF ResolveDelivery, Reading
  <2>3. \A g \in Hooks : Reading(g)' => tally'[MailOf(g)'] \subseteq request'[g].read \/ MailOf(g)' \in beside'
    BY <1>1, <1>4, <1>5, <1>9, <2>1 DEF MailEventInv, EventInv, ReadHolds, MailOf, Event
  <2>4. \A f, g \in Hooks : Reading(f)' /\ Reading(g)' /\ g # f /\ MailOf(g)' = MailOf(f)'
                                => MailOf(f)' \in beside'
    BY <1>9, <2>1, <2>2 DEF MailEventInv, EventInv, ReadHolds
  <2>5. QED BY <2>3, <2>4 DEF ReadHolds
<1>15. QED BY <1>7, <1>8, <1>10, <1>11, <1>12, <1>13, <1>14 DEF MailEventInv, EventInv

LEMMA CreateEventKeeps ==
  ASSUME MailEventInv, NEW h \in Hooks, CreateEvent(h), Unstored(Event(h))
  PROVE  MailEventInv'
<1>1. /\ RequestTo(h, "create", "apply")
      /\ stored[Event(h)] = "none"
      /\ stored' = [stored EXCEPT ![Event(h)] = "stored"]
      /\ UNCHANGED <<mailVars, report, tally, applied, beside, cut>>
  BY DEF CreateEvent, Unstored
<1>2. /\ request' \in [Hooks -> RequestType] /\ request[h].pc = "create"
      /\ request'[h].pc = "apply" /\ request'[h].event = request[h].event /\ request'[h].read = request[h].read
      /\ \A g \in Hooks \ {h} : request'[g] = request[g]
  BY <1>1, RequestToDoes
<1>3. PICK e \in Events : e = Event(h)
  BY <1>2, RequestTyped
<1>4. /\ stored'[e] = "stored" /\ (\A d \in Events \ {e} : stored'[d] = stored[d])
      /\ stored' \in [Events -> {"none", "stored", "processed"}]
      /\ report[e] # Silent /\ applied[e] = 0
  BY <1>1, <1>2, <1>3 DEF MailEventInv, EventInv, EventsTyped, Reported, StoredHolds
<1>5. \A g \in Hooks : request[g].pc \in {"apply", "block", "finish"} => Event(g) \in Events \ {e}
  BY <1>1, <1>3, RequestTyped DEF MailEventInv, EventInv, StoredHolds
<1>6. MailInv'
  BY <1>1, QuietKeeps DEF MailEventInv, mailVars
<1>7. EventsTyped' /\ TallyComplete'
  BY <1>1, <1>2, <1>4 DEF MailEventInv, EventInv, EventsTyped, TallyComplete
<1>8. Reported'
  BY <1>1, <1>2, <1>4, OnwardKeeps DEF mailVars, ghosts, MailEventInv, EventInv, Reported
<1>9. StoredHolds'
  BY <1>1, <1>2, <1>3, <1>4, <1>5 DEF MailEventInv, EventInv, StoredHolds, Event
<1>10. ReadHolds'
  BY <1>1, <1>2 DEF MailEventInv, EventInv, ReadHolds, Reading, Event, MailOf
<1>11. AppliedOnce'
  BY <1>1, <1>2, <1>3, <1>4 DEF MailEventInv, EventInv, AppliedOnce, Event
<1>12. QED BY <1>6, <1>7, <1>8, <1>9, <1>10, <1>11 DEF MailEventInv, EventInv

LEMMA ApplyKeeps ==
  ASSUME MailEventInv, NEW h \in Hooks, ApplyEvent(h)
  PROVE  MailEventInv'
<1>1. PICK to \in {"block", "finish"} : RequestTo(h, "apply", to)
  BY DEF ApplyEvent
<1>2. /\ request' \in [Hooks -> RequestType] /\ request[h].pc = "apply"
      /\ request'[h].pc = to /\ request'[h].event = request[h].event
      /\ \A g \in Hooks \ {h} : request'[g] = request[g]
  BY <1>1, RequestToDoes
<1>3. PICK e \in Events, m \in Mails : e = Event(h) /\ m = MailOf(h)
  BY <1>2, RequestTyped
<1>4. /\ tally' = [tally EXCEPT ![m] = request[h].read \cup {e}]
      /\ applied' = [applied EXCEPT ![e] = applied[e] + 1]
      /\ UNCHANGED <<job, dlq, post, at, accepted, unrecorded, report, stored, beside, cut>>
  BY <1>3 DEF ApplyEvent, Tallied
<1>5. MailInv'
  <2>1. /\ accepted[m] > 0
        /\ delivery' = [delivery EXCEPT ![m] = StatusAfter(report[e].kind)]
        /\ report[e].kind \in {"delivered", "bounced"}
        /\ Doubted(m, report[e].kind = "bounced")
    BY <1>2, <1>3, RequestTyped DEF ApplyEvent
  <2>2. /\ StatusAfter(report[e].kind) \in {"sent", "failed"}
        /\ StatusAfter(report[e].kind) = "failed" => m \in unsure'
        /\ unsure \subseteq unsure' /\ doubt' \in [Mails -> Nat]
    <3>1. Typed
      BY DEF MailEventInv, MailInv
    <3>2. /\ report[e].kind = "bounced" => m \in unsure'
          /\ unsure \subseteq unsure' /\ doubt' \in [Mails -> Nat]
      BY <2>1, <3>1, DoubtedAdds
    <3>3. QED BY <2>1, <3>2 DEF StatusAfter
  <2>3. QED BY <1>4, <2>1, <2>2, ApplyMail DEF MailEventInv
<1>6. /\ request[h].read \in SUBSET Events
      /\ applied[e] = 0 /\ stored[e] # "none" /\ report[e].mail = m
      /\ \A g \in Hooks : request[g].pc = "apply" /\ Event(g) = e => g = h
      /\ applied \in [Events -> Nat] /\ tally \in [Mails -> SUBSET Events]
  BY <1>2, <1>3, RequestTyped DEF MailEventInv, EventInv, StoredHolds, EventsTyped, MailOf
<1>7. /\ applied'[e] = 1 /\ (\A d \in Events \ {e} : applied'[d] = applied[d])
      /\ tally'[m] = request[h].read \cup {e} /\ (\A n \in Mails \ {m} : tally'[n] = tally[n])
      /\ applied' \in [Events -> Nat] /\ tally' \in [Mails -> SUBSET Events]
  BY <1>4, <1>6
<1>8. EventsTyped'
  BY <1>2, <1>4, <1>7 DEF MailEventInv, EventInv, EventsTyped
<1>9. Reported'
  BY <1>2, <1>4, OnwardKeeps DEF MailEventInv, EventInv, Reported
<1>10. StoredHolds'
  <2>1. \A g \in Hooks : request'[g].pc = "apply" => g # h /\ request'[g] = request[g] /\ Event(g) \in Events \ {e}
    BY <1>2, <1>6, RequestTyped
  <2>2. QED BY <1>2, <1>3, <1>4, <1>6, <1>7, <2>1 DEF MailEventInv, EventInv, StoredHolds, Event
<1>11. AppliedOnce'
  BY <1>2, <1>3, <1>4, <1>6, <1>7 DEF MailEventInv, EventInv, AppliedOnce, Event
<1>12. \A g \in Hooks : /\ Reading(g)' => g # h /\ Reading(g) /\ request'[g] = request[g] /\ MailOf(g) \in Mails
                        /\ MailOf(g)' = MailOf(g)
  BY <1>2, <1>4, RequestTyped DEF Reading, MailOf, Event
<1>13. \A g \in Hooks \ {h} : Reading(g) /\ MailOf(g) = m => m \in beside
  BY <1>2, <1>3 DEF MailEventInv, EventInv, ReadHolds, Reading
<1>14. ReadHolds'
  <2>1. \A g \in Hooks : Reading(g)' => tally'[MailOf(g)'] \subseteq request'[g].read \/ MailOf(g)' \in beside'
    BY <1>4, <1>7, <1>12, <1>13 DEF MailEventInv, EventInv, ReadHolds
  <2>2. \A f, g \in Hooks : Reading(f)' /\ Reading(g)' /\ g # f /\ MailOf(g)' = MailOf(f)'
                                => MailOf(f)' \in beside'
    BY <1>4, <1>12 DEF MailEventInv, EventInv, ReadHolds
  <2>3. QED BY <2>1, <2>2 DEF ReadHolds
<1>15. TallyComplete'
  <2>1. tally[m] \subseteq request[h].read \/ m \in beside
    BY <1>2, <1>3 DEF MailEventInv, EventInv, ReadHolds, Reading
  <2>2. ASSUME NEW d \in Events, applied'[d] > 0
        PROVE  d \in tally'[report[d].mail] \/ report[d].mail \in beside
    <3>1. CASE d = e
      BY <1>6, <1>7, <3>1
    <3>2. CASE d # e
      <4>1. d \in tally[report[d].mail] \/ report[d].mail \in beside
        BY <1>7, <2>2, <3>2 DEF MailEventInv, EventInv, TallyComplete
      <4>2. report[d] # Silent
        BY <1>7, <2>2, <3>2 DEF MailEventInv, EventInv, StoredHolds, Reported
      <4>3. report[d].mail \in Mails
        BY <4>2 DEF MailEventInv, EventInv, EventsTyped, ReportType
      <4>4. QED BY <1>7, <2>1, <4>1, <4>3
    <3>3. QED BY <3>1, <3>2
  <2>3. QED BY <1>4, <2>2 DEF TallyComplete
<1>16. QED BY <1>5, <1>8, <1>9, <1>10, <1>11, <1>14, <1>15 DEF MailEventInv, EventInv

LEMMA BlockKeeps ==
  ASSUME MailEventInv, NEW h \in Hooks, BlockRecipient(h)
  PROVE  MailEventInv'
<1>1. /\ RequestTo(h, "block", "finish")
      /\ UNCHANGED <<mailVars, report, stored, tally, applied, beside, cut>>
  BY DEF BlockRecipient
<1>2. /\ request' \in [Hooks -> RequestType] /\ request[h].pc = "block"
      /\ request'[h].pc = "finish" /\ request'[h].event = request[h].event
      /\ \A g \in Hooks \ {h} : request'[g] = request[g]
  BY <1>1, RequestToDoes
<1>3. MailInv'
  BY <1>1, QuietKeeps DEF MailEventInv, mailVars
<1>4. EventsTyped' /\ TallyComplete'
  BY <1>1, <1>2 DEF MailEventInv, EventInv, EventsTyped, TallyComplete
<1>5. Reported'
  BY <1>1, <1>2, OnwardKeeps DEF mailVars, ghosts, MailEventInv, EventInv, Reported
<1>6. StoredHolds'
  BY <1>1, <1>2 DEF MailEventInv, EventInv, StoredHolds, Event
<1>7. ReadHolds'
  BY <1>1, <1>2 DEF MailEventInv, EventInv, ReadHolds, Reading, Event, MailOf
<1>8. AppliedOnce'
  BY <1>1, <1>2 DEF MailEventInv, EventInv, AppliedOnce, Event
<1>9. QED BY <1>3, <1>4, <1>5, <1>6, <1>7, <1>8 DEF MailEventInv, EventInv

-----------------------------------------------------------------------------
\* A step is one of the mail layer's or one about the events.
LEMMA EventsKeep == MailEventInv /\ [EventNext]_mailEventVars => MailEventInv'
<1> SUFFICES ASSUME MailEventInv, [EventNext]_mailEventVars PROVE MailEventInv'
  OBVIOUS
<1>1. ASSUME MailNext, UNCHANGED eventVars PROVE MailEventInv'
  <2>1. MailInv' /\ \A m \in Mails : accepted[m] > 0 => accepted'[m] > 0
    BY <1>1, MailKeeps, AcceptedStays DEF MailEventInv
  <2>2. QED BY <1>1, <2>1, MailEventKeeps DEF MailEventInv
<1>2. ASSUME NEW c \in Callers, NEW m \in Mails, BeginSend(c, m), UNCHANGED eventVars
      PROVE  MailEventInv'
  <2>1. MailInv' /\ UNCHANGED accepted
    BY <1>2, BeginKeeps DEF MailEventInv, BeginSend, ghosts
  <2>2. QED BY <1>2, <2>1, MailEventKeeps DEF MailEventInv
<1>3. ASSUME UNCHANGED mailEventVars PROVE MailEventInv'
  <2>1. MailInv' /\ UNCHANGED accepted
    BY <1>3, QuietKeeps DEF MailEventInv, mailEventVars, mailVars, ghosts
  <2>2. QED BY <1>3, <2>1, MailEventKeeps DEF MailEventInv, mailEventVars
<1>4. ASSUME NEW h \in Hooks, EventStep(h) \/ EndsEarly(h) PROVE MailEventInv'
  BY <1>4, ReplyKeeps, FindKeepsEvent, ResolveKeeps, CreateEventKeeps, ApplyKeeps, BlockKeeps
     DEF EventStep
<1>5. QED BY <1>1, <1>2, <1>3, <1>4, ReportKeeps, SendEventKeeps, AgainKeeps DEF EventNext

\* An event that marks a mail sent adds none, and a bounce is a doubt.
LEMMA ApplyDoubts ==
  ASSUME MailEventInv, MailEventInv', Doubts, NEW h \in Hooks, ApplyEvent(h)
  PROVE  Doubts'
<1>1. request[h].pc = "apply"
  BY DEF ApplyEvent, RequestTo
<1>2. PICK e \in Events, m \in Mails : e = Event(h) /\ m = MailOf(h)
  BY <1>1, RequestTyped
<1>3. /\ delivery' = [delivery EXCEPT ![m] = StatusAfter(report[e].kind)]
      /\ Doubted(m, report[e].kind = "bounced")
      /\ report[e].kind \in {"delivered", "bounced"}
      /\ UNCHANGED <<at, accepted>> /\ Typed /\ Typed'
  BY <1>1, <1>2, RequestTyped DEF ApplyEvent, MailEventInv, MailInv
<1>4. /\ doubt'[m] = IF report[e].kind = "bounced" THEN doubt[m] + 1 ELSE doubt[m]
      /\ \A n \in Mails \ {m} : doubt'[n] = doubt[n]
  BY <1>3, DoubtedAdds
<1>5. report[e].kind # "bounced" => StatusAfter(report[e].kind) = "sent"
  BY <1>3 DEF StatusAfter
<1>6. QED BY <1>3, <1>4, <1>5, WriteDoubts

LEMMA EventsDoubt ==
  MailEventInv /\ MailEventInv' /\ Doubts /\ [EventNext]_mailEventVars => Doubts'
<1> SUFFICES ASSUME MailEventInv, MailEventInv', Doubts, [EventNext]_mailEventVars PROVE Doubts'
  OBVIOUS
<1>1. MailNext => Doubts'
  BY DoubtsKeep DEF MailEventInv
<1>2. (\E c \in Callers, m \in Mails : BeginSend(c, m)) => Doubts'
  BY SameDoubts DEF BeginSend, ghosts
<1>3. UNCHANGED mailEventVars => Doubts'
  BY SameDoubts DEF mailEventVars, mailVars, ghosts
<1>4. (\E e \in Events, m \in Mails : Report(e, m)) => Doubts'
  BY SameDoubts DEF Report, mailVars, ghosts
<1>5. (\E h \in Hooks, e \in Events : SendEvent(h, e)) => Doubts'
  BY SameDoubts DEF SendEvent, mailVars, ghosts
<1>6. (\E e \in Events : SendEventAgain(e)) => Doubts'
  BY SameDoubts DEF SendEventAgain, ghosts
<1>7. ASSUME NEW h \in Hooks, EventStep(h) \/ EndsEarly(h) PROVE Doubts'
  <2>1. ApplyEvent(h) \/ UNCHANGED <<delivery, at, accepted, doubt>>
    BY <1>7 DEF EventStep, FindEvent, ResolveDelivery, CreateEvent, BlockRecipient,
       FinishEvent, EndsEarly, mailVars, ghosts
  <2>2. QED BY <2>1, ApplyDoubts, SameDoubts
<1>8. QED BY <1>1, <1>2, <1>3, <1>4, <1>5, <1>6, <1>7 DEF EventNext

LEMMA EventsAlways == EventSpec => []MailEventInv
<1>1. EventInit => MailEventInv
  BY EventsStart
<1>2. MailEventInv /\ [EventNext]_mailEventVars => MailEventInv'
  BY EventsKeep
<1>3. QED BY <1>1, <1>2, PTL DEF EventSpec

\* A stored mail that never went out and that nobody works on is held back or
\* has an open dead letter, but for the named losses: with any number of
\* callers, workers, administrators and events about it.
THEOREM VanishesNever == EventSpec => []NoMailVanishes
<1>1. MailEventInv => NoMailVanishes
  BY NothingVanishes DEF MailEventInv
<1>2. QED BY <1>1, EventsAlways, PTL

\* An event is applied once, by the request that stored it or not at all.
THEOREM OnceHolds == EventSpec => []AppliedOnce
<1>1. MailEventInv => AppliedOnce
  BY DEF MailEventInv, EventInv
<1>2. QED BY <1>1, EventsAlways, PTL

\* An applied event is forgotten only beside another request about its mail.
THEOREM TallyHolds == EventSpec => []TallyComplete
<1>1. MailEventInv => TallyComplete
  BY DEF MailEventInv, EventInv
<1>2. QED BY <1>1, EventsAlways, PTL

\* Each mail that goes out beyond the first is owed to a doubt of its own:
\* with any number of workers, administrators, faults, retries and events.
THEOREM ResendHolds == EventSpec => []SentOncePerDoubt
<1>1. EventInit => Doubts
  BY DoubtsInit DEF EventInit
<1>2. MailEventInv /\ MailEventInv' /\ Doubts /\ [EventNext]_mailEventVars => Doubts'
  BY EventsDoubt
<1>3. Doubts => SentOncePerDoubt
  BY DoubtsMean
<1>4. QED BY <1>1, <1>2, <1>3, EventsAlways, PTL DEF EventSpec

-----------------------------------------------------------------------------
(* Shopify's webhooks.                                                     *)

HookType == {NoHook} \cup [pc : {"find", "create", "claim", "ingest", "mail", "mailing", "fail"},
                           web : Webhooks, next : Nat \ {0}, heard : BOOLEAN]

InboxTyped ==
    /\ inbox \in [Webhooks -> {"none", "received", "processing", "processed", "failed"}]
    /\ hook \in [Callers -> HookType]

Stored(w, n) == \A i \in 1..Len(MailsOf[w]) : i < n => delivery[MailsOf[w][i]] # "none"

Unsent(c) == hook[c].pc \in {"find", "create", "claim", "ingest"}

\* A request has stored the mails before the one it is at.
Progress ==
    \A c \in Callers :
        /\ Unsent(c) => hook[c].next = 1
        /\ hook[c].pc \in {"mail", "mailing"} => Web(c) \in orders /\ Stored(Web(c), hook[c].next)
        /\ hook[c].pc = "mailing" => /\ hook[c].next <= Len(MailsOf[Web(c)])
                                     /\ post[c].pc # "idle"
                                     /\ post[c].mail = MailsOf[Web(c)][hook[c].next]

Processed ==
    \A w \in Webhooks : inbox[w] = "processed" =>
        w \in orders /\ Stored(w, Len(MailsOf[w]) + 1)

InboxInv == InboxTyped /\ ClaimedOnce /\ Progress /\ Processed

IInv == MailInv /\ InboxInv

-----------------------------------------------------------------------------
\* The mail layer never deletes a row, and a call keeps its mail.
LEMMA RowsStay ==
  ASSUME MailInv, MailNext, NEW m \in Mails, delivery[m] # "none"
  PROVE  delivery'[m] # "none"
<1>t. delivery \in [Mails -> Statuses]
  BY DEF MailInv, Typed
<1>w. ASSUME NEW n, NEW v \in {"queued", "failed", "sending", "sent", "skipped", "queued_disabled"},
             delivery' = [delivery EXCEPT ![n] = v]
      PROVE  delivery'[m] # "none"
  BY <1>t, <1>w
<1>1. ASSUME NEW c \in Callers, SendStep(c) \/ QueueFails(c) \/ SendThrows(c)
      PROVE  delivery'[m] # "none"
  BY <1>1, <1>w DEF SendStep, FindKey, CreateDelivery, QueueMail, MarkUnqueued, RecordUnqueued,
     QueueFails, SendThrows
<1>2. ASSUME NEW s \in Senders, DeliverStep(s) \/ DeliverThrows(s) \/ Die(s)
      PROVE  delivery'[m] # "none"
  BY <1>2, <1>w DEF DeliverStep, ReadDelivery, Decide, HoldBack, MarkSending, NoProvider, Provider,
     MarkSent, MarkFailed, Failing, RecordDlq, Return, DeliverThrows, Die
<1>3. ASSUME NEW s \in Workers, NEW n \in Mails, TakeJob(s, n) PROVE delivery'[m] # "none"
  BY <1>3 DEF TakeJob, Start
<1>4. Administer => delivery' = delivery
  BY DEF Administer, RetryDelivery, RetryDlq, DiscardDlq, PatchSettings, Start
<1>5. QED BY <1>1, <1>2, <1>3, <1>4 DEF MailNext

LEMMA CallsStay ==
  ASSUME MailInv, MailNext, NEW c \in Callers, post[c].pc # "idle"
  PROVE  post'[c].pc # "idle" /\ post'[c].mail = post[c].mail
<1>t. post \in [Callers -> PostType] /\ post[c] \in [pc : PostPcs \ {"idle"}, mail : Mails]
  BY RestIsIdle DEF MailInv, Typed, PostType
<1>w. ASSUME NEW d \in Callers, NEW from, NEW to \in PostPcs \ {"idle"}, PostStep(d, from, to)
      PROVE  post'[c].pc # "idle" /\ post'[c].mail = post[c].mail
  BY <1>t, <1>w DEF PostStep
<1>1. ASSUME NEW d \in Callers, SendStep(d) \/ QueueFails(d) \/ SendThrows(d)
      PROVE  \E from, to \in PostPcs \ {"idle"} : PostStep(d, from, to)
  BY <1>1 DEF SendStep, FindKey, CreateDelivery, QueueMail, MarkUnqueued, RecordUnqueued,
     QueueFails, SendThrows, PostPcs
<1>2. ASSUME NEW s \in Senders, DeliverStep(s) \/ DeliverThrows(s) \/ Die(s) PROVE UNCHANGED post
  BY <1>2 DEF DeliverStep, ReadDelivery, Decide, HoldBack, MarkSending, NoProvider, Provider,
     MarkSent, MarkFailed, RecordDlq, Return, DeliverThrows, Die
<1>3. ASSUME NEW s \in Workers, NEW n \in Mails, TakeJob(s, n) PROVE UNCHANGED post
  BY <1>3 DEF TakeJob, Start
<1>4. Administer => UNCHANGED post
  BY DEF Administer, RetryDelivery, RetryDlq, DiscardDlq, PatchSettings, Start
<1>5. QED BY <1>1, <1>2, <1>3, <1>4, <1>w DEF MailNext

LEMMA IdleHook == NoHook.pc = "idle"
BY DEF NoHook

LEMMA HookTyped ==
  ASSUME IInv, NEW c \in Callers, hook[c].pc # "idle"
  PROVE  /\ hook[c] \in [pc : {"find", "create", "claim", "ingest", "mail", "mailing", "fail"},
                         web : Webhooks, next : Nat \ {0}, heard : BOOLEAN]
         /\ Web(c) \in Webhooks
         /\ MailsOf[Web(c)] \in Seq(Mails)
BY IdleHook, InboxAssumption DEF IInv, InboxInv, InboxTyped, HookType, Web

LEMMA MailOfType ==
  ASSUME NEW w \in Webhooks, NEW i \in 1..Len(MailsOf[w])
  PROVE  MailsOf[w][i] \in Mails
BY InboxAssumption

LEMMA InitInv == Init => IInv
<1> SUFFICES ASSUME Init PROVE IInv
  OBVIOUS
<1>1. MailInv
  BY InitHolds DEF Init
<1>2. InboxTyped /\ ClaimedOnce /\ Progress /\ Processed
  BY IdleHook DEF Init, InboxTyped, HookType, ClaimedOnce, Owning, Progress, Unsent, Processed
<1>3. QED BY <1>1, <1>2 DEF IInv, InboxInv

\* The mail layer moves, or a request begins a mail; the requests and their
\* rows stay.
LEMMA MailMoves ==
  ASSUME IInv, MailNext \/ UNCHANGED mailVars, UNCHANGED <<inbox, hook, orders>>
  PROVE  IInv'
<1>1. MailInv'
  BY MailKeeps, QuietKeeps DEF IInv, mailVars
<1>2. \A m \in Mails : delivery[m] # "none" => delivery'[m] # "none"
  BY RowsStay DEF IInv, mailVars
<1>3. \A c \in Callers : post[c].pc # "idle" => post'[c].pc # "idle" /\ post'[c].mail = post[c].mail
  BY CallsStay DEF IInv, mailVars
<1>4. ASSUME NEW w \in Webhooks, NEW n, Stored(w, n) PROVE Stored(w, n)'
  BY <1>2, <1>4, MailOfType DEF Stored
<1>5. InboxTyped' /\ ClaimedOnce'
  BY DEF IInv, InboxInv, InboxTyped, ClaimedOnce, Owning, Web
<1>6. Progress'
  <2>1. ASSUME NEW c \in Callers, hook[c].pc \in {"mail", "mailing"}
        PROVE  Web(c) \in orders /\ Stored(Web(c), hook[c].next)'
    BY <1>4, <2>1, HookTyped DEF IInv, InboxInv, Progress, Stored, Web
  <2>2. QED BY <1>3, <2>1 DEF IInv, InboxInv, Progress, Unsent, Web
<1>7. Processed'
  BY <1>4 DEF IInv, InboxInv, Processed
<1>8. QED BY <1>1, <1>5, <1>6, <1>7 DEF IInv, InboxInv

\* One request moves: what it owes to the others and to its row.
LEMMA RequestMoves ==
  ASSUME IInv, MailInv', NEW c \in Callers, UNCHANGED delivery,
         \A d \in Callers \ {c} : hook'[d] = hook[d] /\ post'[d] = post[d],
         hook' \in [Callers -> HookType],
         inbox' \in [Webhooks -> {"none", "received", "processing", "processed", "failed"}],
         orders \subseteq orders',
         \A w \in Webhooks : \/ inbox'[w] = inbox[w]
                             \/ inbox[w] # "processing"
                             \/ Owning(c) /\ w = Web(c),
         Owning(c)' => /\ inbox'[Web(c)'] = "processing"
                       /\ \A d \in Callers \ {c} : Owning(d) => Web(d) # Web(c)',
         Unsent(c)' => hook'[c].next = 1,
         hook'[c].pc \in {"mail", "mailing"} =>
             Web(c)' \in orders' /\ Stored(Web(c)', hook'[c].next),
         hook'[c].pc = "mailing" => /\ hook'[c].next <= Len(MailsOf[Web(c)'])
                                    /\ post'[c].pc # "idle"
                                    /\ post'[c].mail = MailsOf[Web(c)'][hook'[c].next],
         \A w \in Webhooks : inbox'[w] = "processed" =>
             inbox[w] = "processed" \/ (w \in orders' /\ Stored(w, Len(MailsOf[w]) + 1))
  PROVE  IInv'
<1>1. InboxTyped'
  BY DEF InboxTyped
<1>2. \A d \in Callers \ {c} : /\ Owning(d)' = Owning(d) /\ Web(d)' = Web(d)
                               /\ Owning(d) => Web(d) \in Webhooks
  BY HookTyped DEF Owning, Web
<1>3. ClaimedOnce'
  <2>1. ASSUME NEW d \in Callers \ {c}, Owning(d) PROVE inbox'[Web(d)] = "processing"
    <3>1. inbox[Web(d)] = "processing" /\ (Owning(c) => Web(c) # Web(d))
      BY <2>1 DEF IInv, InboxInv, ClaimedOnce
    <3>2. QED BY <1>2, <2>1, <3>1
  <2>2. \A d, e \in Callers \ {c} : Owning(d) /\ Owning(e) /\ d # e => Web(d) # Web(e)
    BY DEF IInv, InboxInv, ClaimedOnce
  <2>3. ASSUME NEW d \in Callers, Owning(d)'
        PROVE  inbox'[Web(d)'] = "processing" /\ \A e \in Callers \ {d} : Owning(e)' => Web(e)' # Web(d)'
    <3>1. CASE d = c
      BY <1>2, <2>3, <3>1
    <3>2. CASE d # c
      BY <1>2, <2>1, <2>2, <2>3, <3>2
    <3>3. QED BY <3>1, <3>2
  <2>4. QED BY <2>3 DEF ClaimedOnce
<1>4. ASSUME NEW w, NEW n PROVE Stored(w, n)' = Stored(w, n)
  BY DEF Stored
<1>5. Progress'
  <2>1. \A d \in Callers \ {c} :
          /\ Unsent(d)' => hook'[d].next = 1
          /\ hook'[d].pc \in {"mail", "mailing"} => Web(d)' \in orders' /\ Stored(Web(d)', hook'[d].next)
          /\ hook'[d].pc = "mailing" => /\ hook'[d].next <= Len(MailsOf[Web(d)'])
                                        /\ post'[d].pc # "idle"
                                        /\ post'[d].mail = MailsOf[Web(d)'][hook'[d].next]
    BY <1>2 DEF IInv, InboxInv, Progress, Unsent
  <2>2. \A d \in Callers :
          /\ Unsent(d)' => hook'[d].next = 1
          /\ hook'[d].pc \in {"mail", "mailing"} => Web(d)' \in orders' /\ Stored(Web(d)', hook'[d].next)
          /\ hook'[d].pc = "mailing" => /\ hook'[d].next <= Len(MailsOf[Web(d)'])
                                        /\ post'[d].pc # "idle"
                                        /\ post'[d].mail = MailsOf[Web(d)'][hook'[d].next]
    BY <2>1
  <2>3. QED BY <2>2 DEF Progress, Unsent, Stored, Web
<1>6. Processed'
  <2>1. \A w \in Webhooks : inbox'[w] = "processed" => w \in orders' /\ Stored(w, Len(MailsOf[w]) + 1)
    BY DEF IInv, InboxInv, Processed
  <2>2. QED BY <2>1, <1>4 DEF Processed
<1>7. QED BY <1>1, <1>3, <1>5, <1>6 DEF IInv, InboxInv

LEMMA HookStepDoes ==
  ASSUME IInv, NEW c \in Callers, NEW from, from # "idle",
         NEW to \in {"find", "create", "claim", "ingest", "mail", "mailing", "fail"},
         HookStep(c, from, to)
  PROVE  /\ hook' \in [Callers -> HookType]
         /\ hook[c].pc = from /\ Web(c) \in Webhooks
         /\ hook'[c].pc = to /\ Web(c)' = Web(c) /\ hook'[c].next = hook[c].next
         /\ \A d \in Callers \ {c} : hook'[d] = hook[d]
<1>1. hook[c].pc = from /\ hook' = [hook EXCEPT ![c].pc = to]
  BY DEF HookStep
<1>2. /\ hook[c] \in [pc : {"find", "create", "claim", "ingest", "mail", "mailing", "fail"},
                      web : Webhooks, next : Nat \ {0}, heard : BOOLEAN]
      /\ Web(c) \in Webhooks
  BY <1>1, HookTyped
<1>3. hook \in [Callers -> HookType]
  BY DEF IInv, InboxInv, InboxTyped
<1>4. hook'[c] = [hook[c] EXCEPT !.pc = to] /\ \A d \in Callers \ {c} : hook'[d] = hook[d]
  BY <1>1, <1>3
<1>5. [hook[c] EXCEPT !.pc = to] \in [pc : {"find", "create", "claim", "ingest", "mail", "mailing", "fail"},
                                      web : Webhooks, next : Nat \ {0}, heard : BOOLEAN]
  BY <1>2
<1>6. hook'[c].pc = to /\ hook'[c].web = hook[c].web /\ hook'[c].next = hook[c].next
  BY <1>2, <1>4
<1>7. hook' \in [Callers -> HookType]
  BY <1>1, <1>3, <1>4, <1>5 DEF HookType
<1>8. QED BY <1>1, <1>2, <1>4, <1>6, <1>7 DEF Web

LEMMA AnswerDoes ==
  ASSUME IInv, NEW c \in Callers, NEW ok, Answer(c, ok)
  PROVE  /\ hook' \in [Callers -> HookType]
         /\ hook'[c] = NoHook
         /\ \A d \in Callers \ {c} : hook'[d] = hook[d]
         /\ ~Owning(c)' /\ ~Unsent(c)'
<1>1. hook' = [hook EXCEPT ![c] = NoHook] /\ hook \in [Callers -> HookType]
  BY DEF Answer, IInv, InboxInv, InboxTyped
<1>2. QED BY <1>1, IdleHook DEF HookType, Owning, Unsent

\* Steps before the claim, and answers that leave the row as it is.
LEMMA EarlyKeeps ==
  ASSUME IInv, NEW c \in Callers,
         \/ \E w \in Webhooks : Deliver(c, w)
         \/ Impatience(c) \/ FindRow(c) \/ CreateRow(c)
  PROVE  IInv'
<1>m. /\ UNCHANGED mailVars /\ UNCHANGED orders
      /\ MailInv'
  <2>1. UNCHANGED mailVars /\ UNCHANGED orders
    BY DEF Deliver, Impatience, FindRow, CreateRow
  <2>2. QED BY <2>1, QuietKeeps DEF IInv, mailVars
<1>i. inbox \in [Webhooks -> {"none", "received", "processing", "processed", "failed"}]
  BY DEF IInv, InboxInv, InboxTyped
<1>1. ASSUME NEW w \in Webhooks, Deliver(c, w) PROVE IInv'
  <2> DEFINE new == [pc |-> "find", web |-> w, next |-> 1, heard |-> TRUE]
  <2>1. /\ hook' = [hook EXCEPT ![c] = new] /\ hook \in [Callers -> HookType] /\ new \in HookType
        /\ UNCHANGED inbox
    BY <1>1 DEF Deliver, IInv, InboxInv, InboxTyped, HookType
  <2>2. /\ hook' \in [Callers -> HookType] /\ hook'[c].pc = "find" /\ hook'[c].next = 1
        /\ \A d \in Callers \ {c} : hook'[d] = hook[d]
    BY <2>1
  <2>3. QED BY <1>m, <1>i, <2>1, <2>2, RequestMoves DEF Owning, Unsent, mailVars
<1>2. CASE Impatience(c)
  <2>1. /\ hook[c].heard /\ hook' = [hook EXCEPT ![c].heard = FALSE]
        /\ hook \in [Callers -> HookType] /\ UNCHANGED inbox
    BY <1>2 DEF Impatience, IInv, InboxInv, InboxTyped
  <2>2. hook[c] \in [pc : {"find", "create", "claim", "ingest", "mail", "mailing", "fail"},
                     web : Webhooks, next : Nat \ {0}, heard : BOOLEAN]
    BY <2>1 DEF HookType, NoHook
  <2> DEFINE new == [hook[c] EXCEPT !.heard = FALSE]
  <2>3. /\ new \in [pc : {"find", "create", "claim", "ingest", "mail", "mailing", "fail"},
                    web : Webhooks, next : Nat \ {0}, heard : BOOLEAN]
        /\ new.pc = hook[c].pc /\ new.web = hook[c].web /\ new.next = hook[c].next
    BY <2>2
  <2>4. hook'[c] = new /\ \A d \in Callers \ {c} : hook'[d] = hook[d]
    BY <2>1
  <2>5. hook' \in [Callers -> HookType]
    BY <2>1, <2>3, <2>4 DEF HookType
  <2> HIDE DEF new
  <2>6. hook'[c].pc = hook[c].pc /\ Web(c)' = Web(c) /\ hook'[c].next = hook[c].next
    BY <2>3, <2>4 DEF Web
  <2>7. UNCHANGED <<delivery, post>>
    BY <1>m DEF mailVars
  <2>8. /\ Owning(c) => /\ inbox[Web(c)] = "processing"
                        /\ \A d \in Callers \ {c} : Owning(d) => Web(d) # Web(c)
        /\ Unsent(c) => hook[c].next = 1
        /\ hook[c].pc \in {"mail", "mailing"} => Web(c) \in orders /\ Stored(Web(c), hook[c].next)
        /\ hook[c].pc = "mailing" => /\ hook[c].next <= Len(MailsOf[Web(c)])
                                     /\ post[c].pc # "idle"
                                     /\ post[c].mail = MailsOf[Web(c)][hook[c].next]
    BY DEF IInv, InboxInv, ClaimedOnce, Progress
  <2>9. Owning(c)' = Owning(c) /\ Unsent(c)' = Unsent(c)
    BY <2>6 DEF Owning, Unsent
  <2>10. QED BY <1>m, <1>i, <2>1, <2>4, <2>5, <2>6, <2>7, <2>8, <2>9, RequestMoves
<1>3. CASE FindRow(c)
  <2>1. PICK to \in {"create", "claim"} : HookStep(c, "find", to)
    BY <1>3 DEF FindRow
  <2>2. /\ hook' \in [Callers -> HookType] /\ hook'[c].pc = to /\ hook'[c].next = 1
        /\ \A d \in Callers \ {c} : hook'[d] = hook[d]
    BY <2>1, HookStepDoes DEF IInv, InboxInv, Progress, Unsent
  <2>3. UNCHANGED inbox
    BY <1>3 DEF FindRow
  <2>4. QED BY <1>m, <1>i, <2>2, <2>3, RequestMoves DEF Owning, Unsent, mailVars
<1>4. CASE CreateRow(c)
  <2>1. /\ hook' \in [Callers -> HookType] /\ hook'[c].pc = "claim" /\ Web(c) \in Webhooks
        /\ hook'[c].next = 1
        /\ \A d \in Callers \ {c} : hook'[d] = hook[d]
    BY <1>4, HookStepDoes DEF CreateRow, IInv, InboxInv, Progress, Unsent
  <2>2. inbox' = [inbox EXCEPT ![Web(c)] = IF inbox[Web(c)] = "none" THEN "received" ELSE inbox[Web(c)]]
    BY <1>4 DEF CreateRow
  <2>3. /\ inbox' \in [Webhooks -> {"none", "received", "processing", "processed", "failed"}]
        /\ \A w \in Webhooks : inbox'[w] = inbox[w] \/ (inbox[w] = "none" /\ inbox'[w] = "received")
    BY <1>i, <2>1, <2>2
  <2>4. QED BY <1>m, <2>1, <2>3, RequestMoves DEF Owning, Unsent, mailVars
<1>5. QED BY <1>1, <1>2, <1>3, <1>4

LEMMA ClaimKeeps ==
  ASSUME IInv, NEW c \in Callers, ClaimRow(c)
  PROVE  IInv'
<1>m. /\ UNCHANGED mailVars /\ UNCHANGED <<delivery, post, orders>>
      /\ MailInv'
  <2>1. UNCHANGED mailVars /\ UNCHANGED orders
    BY DEF ClaimRow
  <2>2. QED BY <2>1, QuietKeeps DEF IInv, mailVars
<1>i. inbox \in [Webhooks -> {"none", "received", "processing", "processed", "failed"}]
  BY DEF IInv, InboxInv, InboxTyped
<1>1. CASE Claimable(Web(c))
  <2>1. /\ HookStep(c, "claim", "ingest")
        /\ inbox' = [inbox EXCEPT ![Web(c)] = "processing"]
    BY <1>1 DEF ClaimRow
  <2>2. /\ hook' \in [Callers -> HookType] /\ hook'[c].pc = "ingest" /\ Web(c) \in Webhooks
        /\ Web(c)' = Web(c) /\ hook'[c].next = 1
        /\ \A d \in Callers \ {c} : hook'[d] = hook[d]
    BY <2>1, HookStepDoes DEF IInv, InboxInv, Progress, Unsent
  <2>3. /\ inbox' \in [Webhooks -> {"none", "received", "processing", "processed", "failed"}]
        /\ inbox'[Web(c)] = "processing" /\ inbox[Web(c)] \in {"received", "failed"}
        /\ \A w \in Webhooks \ {Web(c)} : inbox'[w] = inbox[w]
    BY <1>i, <1>1, <2>1, <2>2 DEF Claimable
  <2>4. \A d \in Callers \ {c} : Owning(d) => Web(d) # Web(c)
    BY <2>3 DEF IInv, InboxInv, ClaimedOnce
  <2>5. QED BY <1>m, <2>2, <2>3, <2>4, RequestMoves
<1>2. CASE ~Claimable(Web(c))
  <2>1. Answer(c, TRUE) /\ UNCHANGED inbox
    BY <1>2 DEF ClaimRow
  <2>2. QED BY <1>m, <1>i, <2>1, AnswerDoes, IdleHook, RequestMoves
<1>3. QED BY <1>1, <1>2

LEMMA IngestKeeps ==
  ASSUME IInv, NEW c \in Callers, IngestOrder(c)
  PROVE  IInv'
<1>1. /\ HookStep(c, "ingest", "mail") /\ orders' = orders \cup {Web(c)}
      /\ UNCHANGED mailVars /\ UNCHANGED <<delivery, post, inbox>>
  BY DEF IngestOrder, mailVars
<1>2. /\ hook' \in [Callers -> HookType] /\ hook[c].pc = "ingest" /\ hook'[c].pc = "mail"
      /\ Web(c) \in Webhooks /\ Web(c)' = Web(c) /\ hook'[c].next = hook[c].next
      /\ \A d \in Callers \ {c} : hook'[d] = hook[d]
  BY <1>1, HookStepDoes
<1>3. MailInv'
  BY <1>1, QuietKeeps DEF IInv, mailVars
<1>4. /\ inbox[Web(c)] = "processing" /\ \A d \in Callers \ {c} : Owning(d) => Web(d) # Web(c)
      /\ inbox \in [Webhooks -> {"none", "received", "processing", "processed", "failed"}]
  BY <1>2 DEF IInv, InboxInv, InboxTyped, ClaimedOnce, Owning
<1>5. Stored(Web(c), hook[c].next)
  <2>1. hook[c].next = 1
    BY <1>2 DEF IInv, InboxInv, Progress, Unsent
  <2>2. \A i \in 1..Len(MailsOf[Web(c)]) : ~(i < 1)
    OBVIOUS
  <2>3. QED BY <2>1, <2>2 DEF Stored
<1>6. QED BY <1>1, <1>2, <1>3, <1>4, <1>5, RequestMoves DEF Unsent

LEMMA SendKeepsHook ==
  ASSUME IInv, NEW c \in Callers, SendMail(c)
  PROVE  IInv'
<1>1. /\ HookStep(c, "mail", "mailing") /\ HasMore(c)
      /\ BeginSend(c, MailsOf[Web(c)][hook[c].next])
      /\ UNCHANGED <<inbox, orders>>
  BY DEF SendMail
<1>2. /\ hook' \in [Callers -> HookType] /\ hook[c].pc = "mail" /\ hook'[c].pc = "mailing"
      /\ Web(c) \in Webhooks /\ Web(c)' = Web(c) /\ hook'[c].next = hook[c].next
      /\ \A d \in Callers \ {c} : hook'[d] = hook[d]
  BY <1>1, HookStepDoes
<1>3. hook[c].next \in 1..Len(MailsOf[Web(c)])
  <2>1. hook[c].next \in Nat \ {0} /\ Len(MailsOf[Web(c)]) \in Nat
    BY <1>2, HookTyped
  <2>2. QED BY <1>1, <2>1 DEF HasMore
<1>4. PICK m \in Mails : m = MailsOf[Web(c)][hook[c].next]
  BY <1>2, <1>3, MailOfType
<1>5. MailInv'
  BY <1>1, <1>4, BeginKeeps DEF IInv
<1>6. /\ UNCHANGED delivery
      /\ post' = [post EXCEPT ![c] = [pc |-> "find", mail |-> m]] /\ post \in [Callers -> PostType]
  BY <1>1, <1>4 DEF BeginSend, IInv, MailInv, Typed
<1>7. post'[c].pc = "find" /\ post'[c].mail = m /\ \A d \in Callers \ {c} : post'[d] = post[d]
  BY <1>6
<1>8. /\ inbox[Web(c)] = "processing" /\ \A d \in Callers \ {c} : Owning(d) => Web(d) # Web(c)
      /\ inbox \in [Webhooks -> {"none", "received", "processing", "processed", "failed"}]
      /\ Web(c) \in orders /\ Stored(Web(c), hook[c].next)
  BY <1>2 DEF IInv, InboxInv, InboxTyped, ClaimedOnce, Owning, Progress
<1>9. hook'[c].next <= Len(MailsOf[Web(c)'])
  BY <1>2, <1>3
<1>10. QED BY <1>1, <1>2, <1>4, <1>5, <1>6, <1>7, <1>8, <1>9, RequestMoves DEF Unsent

LEMMA EndMailKeeps ==
  ASSUME IInv, NEW c \in Callers, EndMail(c)
  PROVE  IInv'
<1> DEFINE to == IF post[c].pc = "returned" THEN "mail" ELSE "fail"
           new == [hook[c] EXCEPT !.pc = to, !.next = hook[c].next + 1]
<1>1. /\ hook[c].pc = "mailing" /\ post[c].pc \in {"returned", "thrown"}
      /\ post' = [post EXCEPT ![c] = Quit]
      /\ hook' = [hook EXCEPT ![c].pc = to, ![c].next = hook[c].next + 1]
      /\ UNCHANGED <<delivery, job, dlq, at, ghosts, inbox, orders>>
  BY DEF EndMail
<1>2. /\ hook[c] \in [pc : {"find", "create", "claim", "ingest", "mail", "mailing", "fail"},
                      web : Webhooks, next : Nat \ {0}, heard : BOOLEAN]
      /\ Web(c) \in Webhooks
      /\ hook \in [Callers -> HookType] /\ post \in [Callers -> PostType]
      /\ MailsOf[Web(c)] \in Seq(Mails)
  BY <1>1, HookTyped DEF IInv, InboxInv, InboxTyped, MailInv, Typed
<1>3. /\ new \in [pc : {"find", "create", "claim", "ingest", "mail", "mailing", "fail"},
                  web : Webhooks, next : Nat \ {0}, heard : BOOLEAN]
      /\ new.pc = to /\ new.web = hook[c].web /\ new.next = hook[c].next + 1
  <2>1. to \in {"mail", "fail"}
    OBVIOUS
  <2>2. hook[c].next + 1 \in Nat \ {0}
    BY <1>2
  <2> HIDE DEF to
  <2>3. QED BY <1>2, <2>1, <2>2
<1>4. hook'[c] = new /\ \A d \in Callers \ {c} : hook'[d] = hook[d]
  BY <1>1, <1>2
<1>5. hook' \in [Callers -> HookType]
  BY <1>1, <1>2, <1>3, <1>4 DEF HookType
<1>6. hook'[c].pc = to /\ Web(c)' = Web(c) /\ hook'[c].next = hook[c].next + 1
  BY <1>3, <1>4 DEF Web
<1> HIDE DEF new
<1>7. MailInv'
  <2>1. Uncertain(c) = {}
    BY <1>1 DEF Uncertain
  <2>2. QED BY <1>1, <2>1, DropKeeps DEF IInv, ghosts
<1>8. \A d \in Callers \ {c} : post'[d] = post[d]
  BY <1>1, <1>2
<1>9. /\ inbox[Web(c)] = "processing" /\ \A d \in Callers \ {c} : Owning(d) => Web(d) # Web(c)
      /\ inbox \in [Webhooks -> {"none", "received", "processing", "processed", "failed"}]
      /\ Web(c) \in orders /\ Stored(Web(c), hook[c].next)
      /\ post[c].mail = MailsOf[Web(c)][hook[c].next]
  BY <1>1 DEF IInv, InboxInv, InboxTyped, ClaimedOnce, Owning, Progress
<1>10. to = "mail" => Stored(Web(c), hook[c].next + 1)
  <2> SUFFICES ASSUME to = "mail", NEW i \in 1..Len(MailsOf[Web(c)]), i < hook[c].next + 1
               PROVE  delivery[MailsOf[Web(c)][i]] # "none"
    BY DEF Stored
  <2>1. post[c].pc = "returned"
    OBVIOUS
  <2>2. delivery[post[c].mail] # "none"
    BY <2>1 DEF IInv, MailInv, QueueHolds
  <2>3. hook[c].next \in Nat /\ i \in Nat
    BY <1>2
  <2>4. CASE i = hook[c].next
    BY <1>9, <2>2, <2>4
  <2>5. CASE i < hook[c].next
    BY <1>9, <2>5 DEF Stored
  <2>6. QED BY <2>3, <2>4, <2>5
<1>11. to \in {"mail", "fail"}
  OBVIOUS
<1> HIDE DEF to
<1>12. QED BY <1>1, <1>5, <1>4, <1>6, <1>7, <1>8, <1>9, <1>10, <1>11, RequestMoves DEF Unsent

\* The ends of a request: its row is written only while it owns it.
LEMMA RowKeeps ==
  ASSUME IInv, NEW c \in Callers, MarkProcessed(c) \/ FailRow(c)
  PROVE  IInv'
<1>1. PICK v \in {"processed", "failed"}, ok \in BOOLEAN :
         /\ Answer(c, ok)
         /\ inbox' = [inbox EXCEPT ![Web(c)] = v]
         /\ v = "processed" => hook[c].pc = "mail" /\ ~HasMore(c)
         /\ v = "failed" => hook[c].pc = "fail"
  BY DEF MarkProcessed, FailRow, FailedStatus
<1>2. UNCHANGED mailVars /\ UNCHANGED <<delivery, post, orders>>
  BY DEF MarkProcessed, FailRow, mailVars
<1>3. MailInv'
  BY <1>2, QuietKeeps DEF IInv, mailVars
<1>4. /\ hook' \in [Callers -> HookType] /\ hook'[c] = NoHook
      /\ ~Owning(c)' /\ ~Unsent(c)'
      /\ \A d \in Callers \ {c} : hook'[d] = hook[d]
  BY <1>1, AnswerDoes
<1>5. Owning(c) /\ Web(c) \in Webhooks
  BY <1>1, HookTyped DEF Owning
<1>6. inbox \in [Webhooks -> {"none", "received", "processing", "processed", "failed"}]
  BY DEF IInv, InboxInv, InboxTyped
<1>7. /\ inbox' \in [Webhooks -> {"none", "received", "processing", "processed", "failed"}]
      /\ inbox'[Web(c)] = v /\ \A w \in Webhooks \ {Web(c)} : inbox'[w] = inbox[w]
  BY <1>1, <1>5, <1>6
<1>8. v = "processed" => Web(c) \in orders /\ Stored(Web(c), Len(MailsOf[Web(c)]) + 1)
  <2> SUFFICES ASSUME v = "processed"
               PROVE  Web(c) \in orders /\ Stored(Web(c), Len(MailsOf[Web(c)]) + 1)
    OBVIOUS
  <2>1. Web(c) \in orders /\ Stored(Web(c), hook[c].next)
    BY <1>1 DEF IInv, InboxInv, Progress
  <2>2. hook[c].next \in Nat /\ Len(MailsOf[Web(c)]) \in Nat /\ hook[c].next > Len(MailsOf[Web(c)])
    <3>1. hook[c].next \in Nat /\ Len(MailsOf[Web(c)]) \in Nat
      BY <1>1, HookTyped
    <3>2. QED BY <1>1, <3>1 DEF HasMore
  <2>3. \A i \in 1..Len(MailsOf[Web(c)]) : i < hook[c].next
    BY <2>2
  <2>4. QED BY <2>1, <2>3 DEF Stored
<1>9. QED BY <1>2, <1>3, <1>4, <1>5, <1>7, <1>8, IdleHook, RequestMoves

LEMMA ThrowsKeeps ==
  ASSUME IInv, NEW c \in Callers, HookThrows(c)
  PROVE  IInv'
<1>1. UNCHANGED <<delivery, job, dlq, post, at, ghosts, inbox, orders>>
  BY DEF HookThrows, Idle
<1>2. MailInv'
  BY <1>1, QuietKeeps DEF IInv
<1>3. inbox \in [Webhooks -> {"none", "received", "processing", "processed", "failed"}]
  BY DEF IInv, InboxInv, InboxTyped
<1>4. CASE Answer(c, FALSE)
  BY <1>1, <1>2, <1>3, <1>4, AnswerDoes, IdleHook, RequestMoves
<1>5. ASSUME NEW from \in {"ingest", "mail"}, HookStep(c, from, "fail") PROVE IInv'
  <2>1. /\ hook' \in [Callers -> HookType] /\ hook[c].pc = from /\ hook'[c].pc = "fail"
        /\ Web(c)' = Web(c)
        /\ \A d \in Callers \ {c} : hook'[d] = hook[d]
    BY <1>5, HookStepDoes
  <2>2. inbox[Web(c)] = "processing" /\ \A d \in Callers \ {c} : Owning(d) => Web(d) # Web(c)
    BY <2>1 DEF IInv, InboxInv, ClaimedOnce, Owning
  <2>3. QED BY <1>1, <1>2, <1>3, <2>1, <2>2, RequestMoves DEF Unsent
<1>6. QED BY <1>4, <1>5 DEF HookThrows

LEMMA DiesKeeps ==
  ASSUME IInv, NEW c \in Callers, HookDies(c)
  PROVE  IInv'
<1>1. /\ Answer(c, FALSE)
      /\ post' = [post EXCEPT ![c] = Quit] /\ unrecorded' = unrecorded \cup Uncertain(c)
      /\ UNCHANGED <<delivery, job, dlq, at, accepted, doubt, inbox, orders>>
  BY DEF HookDies
<1>2. MailInv'
  BY <1>1, DropKeeps DEF IInv
<1>3. \A d \in Callers \ {c} : post'[d] = post[d]
  BY <1>1 DEF IInv, MailInv, Typed
<1>4. inbox \in [Webhooks -> {"none", "received", "processing", "processed", "failed"}]
  BY DEF IInv, InboxInv, InboxTyped
<1>5. QED BY <1>1, <1>2, <1>3, <1>4, AnswerDoes, IdleHook, RequestMoves

LEMMA Steps == IInv /\ [Next]_vars => IInv'
<1> SUFFICES ASSUME IInv, [Next]_vars PROVE IInv'
  OBVIOUS
<1>1. ASSUME NEW c \in Callers, Impatience(c) \/ HandlerStep(c) \/ HookThrows(c) \/ HookDies(c)
      PROVE  IInv'
  BY <1>1, EarlyKeeps, ClaimKeeps, IngestKeeps, SendKeepsHook, EndMailKeeps, RowKeeps,
     ThrowsKeeps, DiesKeeps DEF HandlerStep
<1>2. ASSUME NEW c \in Callers, NEW w \in Webhooks, Deliver(c, w) PROVE IInv'
  BY <1>2, EarlyKeeps
<1>3. ASSUME NEW w \in Webhooks, SendAgain(w) PROVE IInv'
  BY <1>3, MailMoves DEF SendAgain
<1>4. CASE InMail
  BY <1>4, MailMoves DEF InMail
<1>5. CASE UNCHANGED vars
  BY <1>5, MailMoves DEF vars
<1>6. QED BY <1>1, <1>2, <1>3, <1>4, <1>5 DEF Next

LEMMA Inductive == Spec => []IInv
<1>1. Init => IInv
  BY InitInv
<1>2. IInv /\ [Next]_vars => IInv'
  BY Steps
<1>3. QED BY <1>1, <1>2, PTL DEF Spec

\* A webhook is processed by one request at a time, and while it is, its row
\* says so.
THEOREM ClaimHolds == Spec => []ClaimedOnce
<1>1. IInv => ClaimedOnce
  BY DEF IInv, InboxInv
<1>2. QED BY <1>1, Inductive, PTL

\* A processed webhook has its order and its mails are queued or recorded as
\* failed, whichever request stored them.
THEOREM DoneHolds == Spec => []ProcessedMeansDone
<1>1. IInv => ProcessedMeansDone
  <2> SUFFICES ASSUME IInv, NEW w \in Webhooks, inbox[w] = "processed"
               PROVE  w \in orders /\ \A i \in 1..Len(MailsOf[w]) : Accounted(MailsOf[w][i])
    BY DEF ProcessedMeansDone
  <2>1. w \in orders /\ Stored(w, Len(MailsOf[w]) + 1)
    BY DEF IInv, InboxInv, Processed
  <2>2. Len(MailsOf[w]) \in Nat
    BY InboxAssumption
  <2>3. \A i \in 1..Len(MailsOf[w]) : delivery[MailsOf[w][i]] # "none"
    BY <2>1, <2>2 DEF Stored
  <2>4. QED BY <2>1, <2>3, MailOfType DEF IInv, MailInv, AllAccounted
<1>2. QED BY <1>1, Inductive, PTL
=============================================================================
