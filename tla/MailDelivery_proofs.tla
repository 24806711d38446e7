------------------------- MODULE MailDelivery_proofs -------------------------
(***************************************************************************)
(* What every step of the mail layer keeps, for any mails, callers,        *)
(* workers and administrators and any number of faults.  MailDelivery is   *)
(* a part of MailEvents and of WebhookInbox: the invariant is stated and   *)
(* its preservation proved here, once, and the theorems about each         *)
(* composition are in its own module.                                      *)
(***************************************************************************)
EXTENDS MailDelivery, FiniteSetTheorems, TLAPS

PostType == {Quit} \cup [pc : PostPcs \ {"idle"}, mail : Mails]
AtType == {Rest} \cup [pc : SendPcs \ {"idle"}, mail : Mails, via : {"job", "retry", "dlq"}]
JobType == [state : {"none", "waiting", "active", "over"}, tries : Nat]

Typed ==
    /\ delivery \in [Mails -> Statuses]
    /\ job \in [Mails -> JobType]
    /\ dlq \in [Mails -> {"none", "pending", "retrying", "resolved", "discarded"}]
    /\ post \in [Callers -> PostType]
    /\ at \in [Senders -> AtType]
    /\ accepted \in [Mails -> Nat]
    /\ doubt \in [Mails -> Nat]

\* A mail is queued by the one call that stored it, and has a row before
\* anything else of it exists.
QueueHolds ==
    /\ \A c \in Callers : post[c].pc \in {"queue", "unqueued", "undead", "returned"}
                              => delivery[post[c].mail] # "none"
    /\ \A c \in Callers : post[c].pc = "queue" =>
           /\ job[post[c].mail].state = "none"
           /\ \A d \in Callers : post[d].pc = "queue" /\ post[d].mail = post[c].mail => d = c
    /\ \A m \in Mails : delivery[m] = "none" =>
           job[m].state = "none" /\ dlq[m] = "none" /\ accepted[m] = 0

\* A job has one run; of two runs about one mail the ghost knows.
RunHolds ==
    /\ \A s \in Senders : at[s].pc # "idle" => delivery[at[s].mail] # "none"
    /\ \A s \in Senders : at[s].pc # "idle" /\ at[s].via = "job" =>
           /\ job[at[s].mail].state = "active"
           /\ \A t \in Senders : at[t].pc # "idle" /\ at[t].via = "job"
                                     /\ at[t].mail = at[s].mail => t = s
    /\ \A s, t \in Senders : at[s].pc # "idle" /\ s # t /\ at[s].mail = at[t].mail
                                 => at[s].mail \in unsure

Held(m) == delivery[m] \in {"skipped", "queued_disabled"}
PastRead(s) == at[s].pc \in {"decide", "disable", "skip", "mark", "send", "fail", "dead"}

\* What a run of deliverQueued may rely on past its read and at its end.
SendHolds ==
    /\ \A s \in Senders : at[s].pc = "sent" => accepted[at[s].mail] > 0
    /\ \A s \in Senders : PastRead(s) /\ accepted[at[s].mail] > 0 => at[s].mail \in unsure
    /\ \A s \in Senders : at[s].pc = "return" =>
           accepted[at[s].mail] > 0 \/ Held(at[s].mail) \/ at[s].mail \in unsure
    /\ \A m \in Mails : delivery[m] = "sent" => accepted[m] > 0
    /\ \A m \in Mails : accepted[m] > 0 =>
           \/ m \in unsure
           \/ delivery[m] = "sent"
           \/ \E s \in Senders : at[s].mail = m /\ at[s].pc = "sent"

Settled(m) == \/ Held(m)
              \/ dlq[m] \in {"pending", "retrying", "discarded"}
              \/ dlq[m] = "resolved" /\ m \in unsure

\* Somebody will still do something about the mail: a run that is about to
\* return will not.
Carried(m) == \/ job[m].state = "waiting"
              \/ Posting(m) # {}
              \/ \E s \in Senders : at[s].mail = m /\ at[s].pc # "return"

Kept == \A m \in Mails :
    delivery[m] # "none" /\ accepted[m] = 0 /\ m \notin unrecorded => Settled(m) \/ Carried(m)

AllAccounted == \A m \in Mails : delivery[m] # "none" => Accounted(m)

MailInv == Typed /\ QueueHolds /\ RunHolds /\ SendHolds /\ Kept /\ AllAccounted

-----------------------------------------------------------------------------
LEMMA RestIsIdle == Quit.pc = "idle" /\ Quit.mail = None /\ Rest.pc = "idle" /\ Rest.mail = None
BY DEF Quit, Rest

\* A doubt about a mail stays, and adds to those it has.
LEMMA DoubtedAdds ==
  ASSUME Typed, NEW m \in Mails, NEW cause \in BOOLEAN, Doubted(m, cause)
  PROVE  /\ doubt' \in [Mails -> Nat]
         /\ \A n \in Mails \ {m} : doubt'[n] = doubt[n]
         /\ doubt'[m] = IF cause THEN doubt[m] + 1 ELSE doubt[m]
         /\ unsure \subseteq unsure'
         /\ cause => m \in unsure'
<1>1. doubt \in [Mails -> Nat]
  BY DEF Typed
<1>2. /\ doubt' \in [Mails -> Nat]
      /\ \A n \in Mails \ {m} : doubt'[n] = doubt[n]
      /\ doubt'[m] = IF cause THEN doubt[m] + 1 ELSE doubt[m]
  <2>1. CASE cause
    BY <1>1, <2>1 DEF Doubted
  <2>2. CASE ~cause
    BY <1>1, <2>2 DEF Doubted
  <2>3. QED BY <2>1, <2>2
<1>3. \A n \in Mails : doubt[n] > 0 => doubt'[n] > 0
  BY <1>1, <1>2
<1>4. cause => doubt'[m] > 0
  BY <1>1, <1>2
<1>5. QED BY <1>2, <1>3, <1>4 DEF unsure

LEMMA InitHolds == MailInit => MailInv
<1> SUFFICES ASSUME MailInit PROVE MailInv
  OBVIOUS
<1>1. Typed
  BY DEF MailInit, Typed, PostType, AtType, JobType, Statuses
<1>2. QueueHolds /\ RunHolds /\ SendHolds
  BY DEF MailInit, QueueHolds, RunHolds, SendHolds, PastRead, Quit, Rest
<1>3. Kept /\ AllAccounted
  BY DEF MailInit, Kept, AllAccounted
<1>4. QED BY <1>1, <1>2, <1>3 DEF MailInv

\* A call of sendTransactional is about a mail and moves alone.
LEMMA PostDoes ==
  ASSUME Typed, NEW c \in Callers, post[c].pc # "idle", NEW from,
         NEW to \in PostPcs \ {"idle"}, PostStep(c, from, to)
  PROVE  /\ post' \in [Callers -> PostType]
         /\ post[c].mail \in Mails /\ post[c].pc = from
         /\ post'[c].pc = to /\ post'[c].mail = post[c].mail
         /\ \A d \in Callers \ {c} : post'[d] = post[d]
<1>1. post[c] \in [pc : PostPcs \ {"idle"}, mail : Mails]
  BY RestIsIdle DEF Typed, PostType
<1>2. /\ post' = [post EXCEPT ![c].pc = to]
      /\ post[c].pc = from
      /\ post \in [Callers -> PostType]
  BY DEF PostStep, Typed
<1>3. [post[c] EXCEPT !.pc = to] \in [pc : PostPcs \ {"idle"}, mail : Mails]
  BY <1>1
<1>4. post'[c] = [post[c] EXCEPT !.pc = to]
  BY <1>2
<1>5. post'[c].pc = to /\ post'[c].mail = post[c].mail
  BY <1>1, <1>4
<1>6. \A d \in Callers \ {c} : post'[d] = post[d]
  BY <1>2
<1>7. post' \in [Callers -> PostType]
  BY <1>2, <1>3 DEF PostType
<1>8. QED BY <1>1, <1>2, <1>5, <1>6, <1>7

\* So does a run of deliverQueued.
LEMMA GoDoes ==
  ASSUME Typed, NEW s \in Senders, at[s].pc # "idle", NEW from,
         NEW to \in SendPcs \ {"idle"}, Go(s, from, to)
  PROVE  /\ at' \in [Senders -> AtType]
         /\ at[s].mail \in Mails /\ at[s].pc = from
         /\ at'[s].pc = to /\ at'[s].mail = at[s].mail /\ at'[s].via = at[s].via
         /\ \A t \in Senders \ {s} : at'[t] = at[t]
<1>1. at[s] \in [pc : SendPcs \ {"idle"}, mail : Mails, via : {"job", "retry", "dlq"}]
  BY RestIsIdle DEF Typed, AtType
<1>2. /\ at' = [at EXCEPT ![s].pc = to]
      /\ at[s].pc = from
      /\ at \in [Senders -> AtType]
  BY DEF Go, Typed
<1>3. [at[s] EXCEPT !.pc = to] \in [pc : SendPcs \ {"idle"}, mail : Mails, via : {"job", "retry", "dlq"}]
  BY <1>1
<1>4. at'[s] = [at[s] EXCEPT !.pc = to]
  BY <1>2
<1>5. at'[s].pc = to /\ at'[s].mail = at[s].mail /\ at'[s].via = at[s].via
  BY <1>1, <1>4
<1>6. \A t \in Senders \ {s} : at'[t] = at[t]
  BY <1>2
<1>7. at' \in [Senders -> AtType]
  BY <1>2, <1>3 DEF AtType
<1>8. QED BY <1>1, <1>2, <1>5, <1>6, <1>7

\* The invariant reads nothing else.
LEMMA QuietKeeps ==
  ASSUME MailInv, UNCHANGED <<delivery, job, dlq, post, at, ghosts>>
  PROVE  MailInv'
BY DEF MailInv, Typed, QueueHolds, RunHolds, SendHolds, Kept, AllAccounted, Settled, Carried,
       Held, PastRead, Accounted, Posting, ghosts, unsure

-----------------------------------------------------------------------------
(* sendTransactional.                                                      *)

LEMMA BeginKeeps ==
  ASSUME MailInv, NEW c \in Callers, NEW m \in Mails, BeginSend(c, m)
  PROVE  MailInv'
<1> DEFINE new == [pc |-> "find", mail |-> m]
<1>1. /\ post' = [post EXCEPT ![c] = new]
      /\ post[c].pc = "idle"
      /\ post \in [Callers -> PostType]
      /\ new \in PostType
      /\ UNCHANGED <<delivery, job, dlq, at, accepted, unrecorded, doubt>>
  BY DEF BeginSend, MailInv, Typed, PostType, PostPcs, ghosts
<1>2. post'[c].pc = "find" /\ \A d \in Callers \ {c} : post'[d] = post[d]
  BY <1>1
<1>3. Typed'
  BY <1>1 DEF MailInv, Typed
<1>4. QueueHolds'
  BY <1>1, <1>2 DEF MailInv, QueueHolds
<1>5. RunHolds' /\ SendHolds'
  BY <1>1 DEF MailInv, RunHolds, SendHolds, PastRead, Held, unsure
<1>6. \A n \in Mails : Posting(n)' = Posting(n)
  BY <1>1, <1>2 DEF Posting
<1>7. Kept' /\ AllAccounted'
  BY <1>1, <1>6 DEF MailInv, Kept, AllAccounted, Settled, Carried, Held, Accounted, unsure
<1>8. QED BY <1>3, <1>4, <1>5, <1>7 DEF MailInv

LEMMA FindKeeps ==
  ASSUME MailInv, NEW c \in Callers, FindKey(c)
  PROVE  MailInv'
<1> DEFINE to == IF delivery[post[c].mail] = "none" THEN "create" ELSE "returned"
<1>1. /\ post' \in [Callers -> PostType]
      /\ post[c].mail \in Mails /\ post[c].pc = "find"
      /\ post'[c].pc = to /\ post'[c].mail = post[c].mail
      /\ \A d \in Callers \ {c} : post'[d] = post[d]
  <2>1. PostStep(c, "find", to) /\ to \in PostPcs \ {"idle"}
    BY DEF FindKey, PostPcs
  <2>2. post[c].pc # "idle"
    BY <2>1 DEF PostStep
  <2>3. QED BY <2>1, <2>2, PostDoes DEF MailInv
<1>2. UNCHANGED <<delivery, job, dlq, at, accepted, unrecorded, doubt>>
  BY DEF FindKey, PostStep
<1>3. Typed'
  BY <1>1, <1>2 DEF MailInv, Typed
<1>4. QueueHolds'
  BY <1>1, <1>2 DEF MailInv, QueueHolds
<1>5. RunHolds' /\ SendHolds'
  BY <1>2 DEF MailInv, RunHolds, SendHolds, PastRead, Held, unsure
<1>6. \A n \in Mails : Posting(n)' = Posting(n)
  BY <1>1, <1>2 DEF Posting
<1>7. Kept' /\ AllAccounted'
  BY <1>2, <1>6 DEF MailInv, Kept, AllAccounted, Settled, Carried, Held, Accounted, unsure
<1>8. QED BY <1>3, <1>4, <1>5, <1>7 DEF MailInv
LEMMA CreateKeeps ==
  ASSUME MailInv, NEW c \in Callers, CreateDelivery(c)
  PROVE  MailInv'
<1> DEFINE m == post[c].mail
           to == IF Taken(m) THEN "returned" ELSE "queue"
<1>1. /\ post' \in [Callers -> PostType]
      /\ m \in Mails /\ post[c].pc = "create"
      /\ post'[c].pc = to /\ post'[c].mail = m
      /\ \A d \in Callers \ {c} : post'[d] = post[d]
  <2>1. PostStep(c, "create", to) /\ to \in PostPcs \ {"idle"}
    BY DEF CreateDelivery, PostPcs
  <2>2. post[c].pc # "idle"
    BY <2>1 DEF PostStep
  <2>3. QED BY <2>1, <2>2, PostDoes DEF MailInv
<1>2. UNCHANGED <<job, dlq, at, accepted, unrecorded, doubt>>
  BY DEF CreateDelivery, PostStep
<1>3. CASE Taken(m)
  <2>1. delivery[m] # "none" /\ delivery' = delivery /\ post'[c].pc = "returned"
    BY <1>1, <1>3 DEF CreateDelivery, Taken
  <2>2. Typed'
    BY <1>1, <1>2, <2>1 DEF MailInv, Typed
  <2>3. QueueHolds'
    BY <1>1, <1>2, <2>1 DEF MailInv, QueueHolds
  <2>4. RunHolds' /\ SendHolds'
    BY <1>2, <2>1 DEF MailInv, RunHolds, SendHolds, PastRead, Held, unsure
  <2>5. \A n \in Mails : Posting(n)' = Posting(n)
    BY <1>1, <2>1 DEF Posting
  <2>6. Kept' /\ AllAccounted'
    BY <1>2, <2>1, <2>5 DEF MailInv, Kept, AllAccounted, Settled, Carried, Held, Accounted, unsure
  <2>7. QED BY <2>2, <2>3, <2>4, <2>6 DEF MailInv
<1>4. CASE ~Taken(m)
  <2>1. /\ delivery[m] = "none" /\ post'[c].pc = "queue"
        /\ delivery' = [delivery EXCEPT ![m] = "queued"]
    BY <1>1, <1>4 DEF CreateDelivery, Taken
  <2>2. /\ delivery'[m] = "queued"
        /\ \A n \in Mails \ {m} : delivery'[n] = delivery[n]
        /\ delivery' \in [Mails -> Statuses]
    BY <1>1, <2>1 DEF MailInv, Typed, Statuses
  <2>3. Typed'
    BY <1>1, <1>2, <2>2 DEF MailInv, Typed
  <2>4. QueueHolds'
    <3>1. job[m].state = "none"
      BY <1>1, <2>1 DEF MailInv, QueueHolds
    <3>2. \A d \in Callers : post[d].pc = "queue" => post[d].mail # m
      BY <2>1 DEF MailInv, QueueHolds
    <3>3. \A d \in Callers : post[d].pc \in {"queue", "unqueued", "undead", "returned"} => post[d].mail \in Mails
      BY RestIsIdle DEF MailInv, Typed, PostType
    <3>4. QED BY <1>1, <1>2, <2>1, <2>2, <3>1, <3>2, <3>3 DEF MailInv, QueueHolds
  <2>5. \A s \in Senders : at[s].pc # "idle" => at[s].mail \in Mails \ {m}
    BY <2>1, RestIsIdle DEF MailInv, Typed, AtType, RunHolds
  <2>6. RunHolds'
    BY <1>2, <2>2, <2>5 DEF MailInv, RunHolds, unsure
  <2>7. SendHolds'
    <3>1. accepted[m] = 0
      BY <1>1, <2>1 DEF MailInv, QueueHolds
    <3>2. QED BY <1>1, <1>2, <2>2, <2>5, <3>1 DEF MailInv, SendHolds, PastRead, Held, unsure
  <2>8. c \in Posting(m)' /\ \A n \in Mails \ {m} : Posting(n)' = Posting(n)
    BY <1>1, <2>1 DEF Posting
  <2>9. Kept' /\ AllAccounted'
    BY <1>1, <1>2, <2>2, <2>8 DEF MailInv, Kept, AllAccounted, Settled, Carried, Held, Accounted, unsure
  <2>10. QED BY <2>3, <2>4, <2>6, <2>7, <2>9 DEF MailInv
<1>5. QED BY <1>3, <1>4

LEMMA QueueKeeps ==
  ASSUME MailInv, NEW c \in Callers, QueueMail(c)
  PROVE  MailInv'
<1> DEFINE m == post[c].mail
           new == [state |-> "waiting", tries |-> 0]
<1>1. /\ post' \in [Callers -> PostType]
      /\ m \in Mails /\ post[c].pc = "queue"
      /\ post'[c].pc = "returned" /\ post'[c].mail = m
      /\ \A d \in Callers \ {c} : post'[d] = post[d]
  <2>1. PostStep(c, "queue", "returned") /\ "returned" \in PostPcs \ {"idle"}
    BY DEF QueueMail, PostPcs
  <2>2. post[c].pc # "idle"
    BY <2>1 DEF PostStep
  <2>3. QED BY <2>1, <2>2, PostDoes DEF MailInv
<1>2. UNCHANGED <<delivery, dlq, at, accepted, unrecorded, doubt>>
  BY DEF QueueMail, PostStep
<1>3. /\ job'[m] = new
      /\ \A n \in Mails \ {m} : job'[n] = job[n]
      /\ job' \in [Mails -> JobType]
  BY <1>1 DEF QueueMail, MailInv, Typed, JobType
<1>4. Typed'
  BY <1>1, <1>2, <1>3 DEF MailInv, Typed
<1>5. \A d \in Callers \ {c} : post[d].pc = "queue" => post[d].mail \in Mails \ {m}
  BY <1>1, RestIsIdle DEF MailInv, Typed, PostType, QueueHolds
<1>6. QueueHolds'
  BY <1>1, <1>2, <1>3, <1>5 DEF MailInv, QueueHolds
<1>7. job[m].state = "none"
  BY <1>1 DEF MailInv, QueueHolds
<1>8. \A s \in Senders : at[s].pc # "idle" /\ at[s].via = "job" => at[s].mail \in Mails \ {m}
  BY <1>7, RestIsIdle DEF MailInv, Typed, AtType, RunHolds
<1>9. RunHolds' /\ SendHolds'
  BY <1>2, <1>3, <1>8 DEF MailInv, RunHolds, SendHolds, PastRead, Held, unsure
<1>10. \A n \in Mails \ {m} : Posting(n)' = Posting(n)
  BY <1>1 DEF Posting
<1>11. Kept' /\ AllAccounted'
  BY <1>1, <1>2, <1>3, <1>10 DEF MailInv, Kept, AllAccounted, Settled, Carried, Held, Accounted, unsure
<1>12. QED BY <1>4, <1>6, <1>9, <1>11 DEF MailInv

\* The steps after the queue refused a job, and what throws before and after.
LEMMA UnqueuedKeeps ==
  ASSUME MailInv, NEW c \in Callers,
         QueueFails(c) \/ MarkUnqueued(c) \/ RecordUnqueued(c) \/ SendThrows(c)
  PROVE  MailInv'
<1> DEFINE m == post[c].mail
<1>mv. ASSUME NEW from, NEW to \in {"returned", "unqueued", "undead", "thrown"},
              PostStep(c, from, to), from # "idle"
       PROVE  /\ post' \in [Callers -> PostType]
              /\ m \in Mails /\ post[c].pc = from
              /\ post'[c].pc = to /\ post'[c].mail = m
              /\ \A d \in Callers \ {c} : post'[d] = post[d]
              /\ UNCHANGED <<at, accepted>>
  <2>1. to \in PostPcs \ {"idle"} /\ post[c].pc # "idle"
    BY <1>mv DEF PostPcs, PostStep
  <2>2. UNCHANGED <<at, accepted>>
    BY <1>mv DEF PostStep
  <2>3. QED BY <1>mv, <2>1, <2>2, PostDoes DEF MailInv
<1>1. CASE QueueFails(c)
  <2>1. PostStep(c, "queue", "unqueued") /\ UNCHANGED <<delivery, job, dlq, unrecorded, doubt>>
    BY <1>1 DEF QueueFails
  <2>2. Typed'
    BY <2>1, <1>mv DEF MailInv, Typed
  <2>3. QueueHolds'
    BY <2>1, <1>mv DEF MailInv, QueueHolds
  <2>4. RunHolds' /\ SendHolds'
    BY <2>1, <1>mv DEF MailInv, RunHolds, SendHolds, PastRead, Held, unsure
  <2>5. \A n \in Mails : Posting(n)' = Posting(n)
    BY <2>1, <1>mv DEF Posting
  <2>6. Kept' /\ AllAccounted'
    BY <2>1, <2>5, <1>mv DEF MailInv, Kept, AllAccounted, Settled, Carried, Held, Accounted, unsure
  <2>7. QED BY <2>2, <2>3, <2>4, <2>6 DEF MailInv
<1>2. CASE MarkUnqueued(c)
  <2>1. /\ PostStep(c, "unqueued", "undead")
        /\ delivery' = [delivery EXCEPT ![m] = "failed"]
        /\ UNCHANGED <<job, dlq, unrecorded>>
    BY <1>2 DEF MarkUnqueued
  <2>2. /\ unsure \subseteq unsure' /\ doubt' \in [Mails -> Nat]
        /\ accepted[m] > 0 => m \in unsure'
        /\ \A s \in Senders : at[s].mail = m => m \in unsure'
    <3>1. Typed /\ m \in Mails /\ Doubted(m, Busy(m) # {} \/ accepted[m] > 0)
      BY <1>2, <2>1, <1>mv DEF MarkUnqueued, MailInv
    <3>2. QED BY <3>1, DoubtedAdds DEF Busy
  <2>3. /\ delivery'[m] = "failed" /\ \A n \in Mails \ {m} : delivery'[n] = delivery[n]
        /\ delivery' \in [Mails -> Statuses]
    BY <2>1, <1>mv DEF MailInv, Typed, Statuses
  <2>4. Typed'
    BY <2>1, <2>2, <2>3, <1>mv DEF MailInv, Typed
  <2>5. QueueHolds'
    BY <2>1, <2>3, <1>mv DEF MailInv, QueueHolds
  <2>6. RunHolds'
    BY <2>1, <2>2, <2>3, <1>mv DEF MailInv, RunHolds
  <2>7. SendHolds'
    BY <2>1, <2>2, <2>3, <1>mv DEF MailInv, SendHolds, PastRead, Held
  <2>8. c \in Posting(m)' /\ \A n \in Mails : Posting(n)' = Posting(n)
    BY <2>1, <1>mv DEF Posting
  <2>9. Kept' /\ AllAccounted'
    BY <2>1, <2>2, <2>3, <2>8, <1>mv DEF MailInv, Kept, AllAccounted, Settled, Carried, Held, Accounted
  <2>10. QED BY <2>4, <2>5, <2>6, <2>7, <2>9 DEF MailInv
<1>3. CASE RecordUnqueued(c)
  <2>1. /\ PostStep(c, "undead", "returned")
        /\ dlq' = [dlq EXCEPT ![m] = "pending"]
        /\ UNCHANGED <<delivery, job, unrecorded, doubt>>
    BY <1>3 DEF RecordUnqueued
  <2>2. /\ dlq'[m] = "pending" /\ \A n \in Mails \ {m} : dlq'[n] = dlq[n]
        /\ dlq' \in [Mails -> {"none", "pending", "retrying", "resolved", "discarded"}]
        /\ delivery[m] # "none"
    BY <2>1, <1>mv DEF MailInv, Typed, QueueHolds
  <2>3. Typed'
    BY <2>1, <2>2, <1>mv DEF MailInv, Typed
  <2>4. QueueHolds'
    BY <2>1, <2>2, <1>mv DEF MailInv, QueueHolds
  <2>5. RunHolds' /\ SendHolds'
    BY <2>1, <1>mv DEF MailInv, RunHolds, SendHolds, PastRead, Held, unsure
  <2>6. \A n \in Mails \ {m} : Posting(n)' = Posting(n)
    BY <2>1, <1>mv DEF Posting
  <2>7. Kept' /\ AllAccounted'
    BY <2>1, <2>2, <2>6, <1>mv DEF MailInv, Kept, AllAccounted, Settled, Carried, Held, Accounted, unsure
  <2>8. QED BY <2>3, <2>4, <2>5, <2>7 DEF MailInv
<1>4. CASE SendThrows(c)
  <2>1. PICK pc \in {"find", "create", "unqueued", "undead"} : PostStep(c, pc, "thrown")
    BY <1>4 DEF SendThrows
  <2>2. /\ unrecorded' = unrecorded \cup Uncertain(c)
        /\ UNCHANGED <<delivery, job, dlq, doubt>>
    BY <1>4 DEF SendThrows
  <2>3. pc \in {"unqueued", "undead"} => delivery[m] # "none" /\ m \in unrecorded'
    BY <2>1, <2>2, <1>mv DEF Uncertain, MailInv, QueueHolds
  <2>4. Typed'
    BY <2>1, <2>2, <1>mv DEF MailInv, Typed
  <2>5. QueueHolds'
    BY <2>1, <2>2, <1>mv DEF MailInv, QueueHolds
  <2>6. RunHolds' /\ SendHolds'
    BY <2>1, <2>2, <1>mv DEF MailInv, RunHolds, SendHolds, PastRead, Held, unsure
  <2>7. \A n \in Mails : n # m \/ pc \in {"find", "create"} => Posting(n)' = Posting(n)
    BY <2>1, <1>mv DEF Posting
  <2>8. Kept' /\ AllAccounted'
    BY <2>1, <2>2, <2>3, <2>7, <1>mv DEF MailInv, Kept, AllAccounted, Settled, Carried, Held, Accounted, unsure
  <2>9. QED BY <2>4, <2>5, <2>6, <2>8 DEF MailInv
<1>5. QED BY <1>1, <1>2, <1>3, <1>4

\* A composition may end a call: what the mail is owed is noted.
LEMMA DropKeeps ==
  ASSUME MailInv, NEW c \in Callers,
         post' = [post EXCEPT ![c] = Quit],
         unrecorded' = unrecorded \cup Uncertain(c),
         UNCHANGED <<delivery, job, dlq, at, accepted, doubt>>
  PROVE  MailInv'
<1>1. /\ post' \in [Callers -> PostType]
      /\ post'[c] = Quit
      /\ \A d \in Callers \ {c} : post'[d] = post[d]
  BY DEF MailInv, Typed, PostType
<1>2. Typed'
  BY <1>1 DEF MailInv, Typed
<1>3. QueueHolds'
  BY <1>1 DEF MailInv, QueueHolds, Quit
<1>4. RunHolds' /\ SendHolds'
  BY DEF MailInv, RunHolds, SendHolds, PastRead, Held, unsure
<1>5. \A n \in Mails : c \notin Posting(n) => Posting(n)' = Posting(n)
  BY <1>1 DEF Posting, Quit
<1>6. \A n \in Mails : c \in Posting(n) => n \in unrecorded'
  BY DEF Posting, Uncertain
<1>7. Kept'
  BY <1>5, <1>6 DEF MailInv, Kept, Settled, Carried, Held, unsure
<1>8. \A n \in Mails : delivery'[n] # "none" => Accounted(n)'
  <2> SUFFICES ASSUME NEW n \in Mails, delivery'[n] # "none" PROVE Accounted(n)'
    OBVIOUS
  <2>1. CASE c \in Posting(n)
    <3>1. dlq'[n] # "none" \/ n \in unrecorded'
      BY <1>6, <2>1
    <3>2. QED BY <3>1 DEF Accounted
  <2>2. CASE c \notin Posting(n)
    BY <2>2, <1>5 DEF MailInv, AllAccounted, Accounted
  <2>3. QED BY <2>1, <2>2
<1>9. AllAccounted'
  BY <1>8 DEF AllAccounted
<1>10. QED BY <1>2, <1>3, <1>4, <1>7, <1>9 DEF MailInv

-----------------------------------------------------------------------------
(* deliverQueued.                                                          *)

LEMMA RunTyped ==
  ASSUME Typed, NEW s \in Senders, at[s].pc # "idle"
  PROVE  /\ at[s] \in [pc : SendPcs \ {"idle"}, mail : Mails, via : {"job", "retry", "dlq"}]
         /\ at[s].mail \in Mails
BY RestIsIdle DEF Typed, AtType

\* A run begins: one that is alone with its mail or of which the ghost knows.
LEMMA StartKeeps ==
  ASSUME MailInv, NEW s \in Senders, NEW m \in Mails, NEW via \in {"job", "retry", "dlq"},
         Start(s, m, via),
         delivery[m] # "none",
         via = "job" => /\ job[m].state = "waiting"
                        /\ job' = [job EXCEPT ![m].state = "active"],
         via # "job" => job' = job,
         via = "dlq" => dlq' = [dlq EXCEPT ![m] = "retrying"],
         via # "dlq" => dlq' = dlq
  PROVE  MailInv'
<1> DEFINE new == [pc |-> "read", mail |-> m, via |-> via]
<1>1. /\ at[s] = Rest
      /\ at' = [at EXCEPT ![s] = new]
      /\ at \in [Senders -> AtType]
      /\ new \in AtType
      /\ UNCHANGED <<delivery, post, accepted, unrecorded>>
  BY DEF Start, MailInv, Typed, AtType, SendPcs
<1>2. at'[s] = new /\ (\A t \in Senders \ {s} : at'[t] = at[t]) /\ at' \in [Senders -> AtType]
  BY <1>1
<1>3. /\ unsure \subseteq unsure' /\ doubt' \in [Mails -> Nat]
      /\ \A t \in Senders : at[t].mail = m => m \in unsure'
  <2>1. Typed /\ Doubted(m, Busy(m) # {})
    BY DEF Start, MailInv
  <2>2. QED BY <2>1, DoubtedAdds DEF Busy
<1>4. /\ job' \in [Mails -> JobType]
      /\ \A n \in Mails \ {m} : job'[n] = job[n]
      /\ job'[m].state = IF via = "job" THEN "active" ELSE job[m].state
  BY DEF MailInv, Typed, JobType
<1>5. /\ dlq' \in [Mails -> {"none", "pending", "retrying", "resolved", "discarded"}]
      /\ \A n \in Mails \ {m} : dlq'[n] = dlq[n]
      /\ dlq'[m] = IF via = "dlq" THEN "retrying" ELSE dlq[m]
  BY DEF MailInv, Typed
<1>6. Typed'
  BY <1>1, <1>2, <1>3, <1>4, <1>5 DEF MailInv, Typed
<1>7. QueueHolds'
  <2>1. \A c \in Callers : post[c].pc = "queue" => post[c].mail \in Mails
    BY RestIsIdle DEF MailInv, Typed, PostType
  <2>2. \A c \in Callers : post[c].pc = "queue" => job'[post[c].mail].state = "none"
    BY <1>4, <2>1 DEF MailInv, QueueHolds
  <2>3. QED BY <1>1, <1>4, <1>5, <2>2 DEF MailInv, QueueHolds
<1>8. \A t \in Senders : at[t].pc # "idle" /\ at[t].mail = m /\ at[t].via = "job" => job[m].state = "active"
  BY DEF MailInv, RunHolds
<1>9. \A t \in Senders : at[t].pc # "idle" => at[t].mail \in Mails
  BY RunTyped DEF MailInv
<1>10. RunHolds'
  <2>1. \A t \in Senders : at'[t].pc # "idle" => delivery'[at'[t].mail] # "none"
    BY <1>1, <1>2 DEF MailInv, RunHolds
  <2>2. \A t \in Senders : at'[t].pc # "idle" /\ at'[t].via = "job" => job'[at'[t].mail].state = "active"
    BY <1>2, <1>4, <1>9 DEF MailInv, RunHolds
  <2>3. \A t, u \in Senders : at'[t].pc # "idle" /\ at'[t].via = "job" /\ at'[u].pc # "idle"
                                  /\ at'[u].via = "job" /\ at'[u].mail = at'[t].mail => u = t
    BY <1>2, <1>8 DEF MailInv, RunHolds
  <2>4. \A t, u \in Senders : at'[t].pc # "idle" /\ t # u /\ at'[t].mail = at'[u].mail
                                  => at'[t].mail \in unsure'
    BY <1>2, <1>3 DEF MailInv, RunHolds
  <2>5. QED BY <2>1, <2>2, <2>3, <2>4 DEF RunHolds
<1>11. SendHolds'
  BY <1>1, <1>2, <1>3, RestIsIdle DEF MailInv, SendHolds, PastRead, Held
<1>12. \A n \in Mails : Posting(n)' = Posting(n)
  BY <1>1 DEF Posting
<1>13. Kept'
  <2>1. Carried(m)'
    BY <1>2 DEF Carried
  <2>2. \A n \in Mails \ {m} : (Settled(n) => Settled(n)') /\ (Carried(n) => Carried(n)')
    BY <1>1, <1>2, <1>3, <1>4, <1>5, <1>12, RestIsIdle, MailAssumption DEF Settled, Carried, Held
  <2>3. QED BY <1>1, <2>1, <2>2 DEF MailInv, Kept
<1>14. AllAccounted'
  BY <1>1, <1>4, <1>5, <1>12 DEF MailInv, AllAccounted, Accounted
<1>15. QED BY <1>6, <1>7, <1>10, <1>11, <1>13, <1>14 DEF MailInv

LEMMA TakeKeeps ==
  ASSUME MailInv, NEW s \in Workers, NEW m \in Mails, TakeJob(s, m)
  PROVE  MailInv'
<1>1. delivery[m] # "none"
  BY DEF TakeJob, MailInv, QueueHolds
<1>2. s \in Senders
  BY DEF Senders
<1>3. QED BY <1>1, <1>2, StartKeeps DEF TakeJob

LEMMA AdminKeeps ==
  ASSUME MailInv, Administer
  PROVE  MailInv'
<1>1. ASSUME NEW s \in Admins, NEW m \in Mails, RetryDelivery(s, m) PROVE MailInv'
  <2>1. s \in Senders
    BY DEF Senders
  <2>2. QED BY <1>1, <2>1, StartKeeps DEF RetryDelivery
<1>2. ASSUME NEW s \in Admins, NEW m \in Mails, RetryDlq(s, m) PROVE MailInv'
  <2>1. s \in Senders
    BY DEF Senders
  <2>2. delivery[m] # "none"
    BY <1>2 DEF RetryDlq, MailInv, QueueHolds
  <2>3. QED BY <1>2, <2>1, <2>2, StartKeeps DEF RetryDlq
<1>3. ASSUME NEW m \in Mails, DiscardDlq(m) PROVE MailInv'
  <2>1. /\ dlq[m] # "none"
        /\ dlq' = [dlq EXCEPT ![m] = "discarded"]
        /\ UNCHANGED <<delivery, job, post, at, accepted, unrecorded, doubt>>
    BY <1>3 DEF DiscardDlq, ghosts
  <2>2. /\ dlq' \in [Mails -> {"none", "pending", "retrying", "resolved", "discarded"}]
        /\ dlq'[m] = "discarded" /\ \A n \in Mails \ {m} : dlq'[n] = dlq[n]
    BY <2>1 DEF MailInv, Typed
  <2>3. Typed' /\ QueueHolds'
    BY <2>1, <2>2 DEF MailInv, Typed, QueueHolds
  <2>4. RunHolds' /\ SendHolds'
    BY <2>1 DEF MailInv, RunHolds, SendHolds, PastRead, Held, unsure
  <2>5. Kept' /\ AllAccounted'
    BY <2>1, <2>2 DEF MailInv, Kept, AllAccounted, Settled, Carried, Held, Accounted, Posting, unsure
  <2>6. QED BY <2>3, <2>4, <2>5 DEF MailInv
<1>4. ASSUME PatchSettings PROVE MailInv'
  BY <1>4, QuietKeeps DEF PatchSettings
<1>5. QED BY <1>1, <1>2, <1>3, <1>4 DEF Administer

\* Where a run goes when it neither ends nor writes but for its mail's row.
LEMMA MoveTyped ==
  ASSUME MailInv, NEW s \in Senders, NEW from, from # "idle",
         NEW to \in SendPcs \ {"idle"}, Go(s, from, to)
  PROVE  /\ at' \in [Senders -> AtType]
         /\ at[s].mail \in Mails /\ at[s].pc = from /\ at[s].pc # "idle"
         /\ at'[s].pc = to /\ at'[s].mail = at[s].mail /\ at'[s].via = at[s].via
         /\ \A t \in Senders \ {s} : at'[t] = at[t]
<1>1. at[s].pc # "idle"
  BY DEF Go
<1>2. QED BY <1>1, GoDoes DEF MailInv

\* A run that moves keeps what concerns the queue and the other runs.
LEMMA MoveKeeps ==
  ASSUME MailInv, NEW s \in Senders, NEW from, from # "idle",
         NEW to \in SendPcs \ {"idle"}, Go(s, from, to),
         delivery' \in [Mails -> Statuses],
         \A n \in Mails \ {at[s].mail} : delivery'[n] = delivery[n],
         delivery'[at[s].mail] # "none",
         accepted' \in [Mails -> Nat],
         \A n \in Mails \ {at[s].mail} : accepted'[n] = accepted[n],
         doubt' \in [Mails -> Nat], unsure \subseteq unsure',
         UNCHANGED <<job, dlq, post, unrecorded>>
  PROVE  /\ Typed' /\ QueueHolds' /\ RunHolds' /\ AllAccounted'
         /\ \A n \in Mails : Posting(n)' = Posting(n)
         /\ \A n \in Mails \ {at[s].mail} : Carried(n) => Carried(n)'
         /\ to # "return" => Carried(at[s].mail)'
<1>1. /\ at' \in [Senders -> AtType]
      /\ at[s].mail \in Mails /\ at[s].pc # "idle"
      /\ at'[s].pc = to /\ at'[s].mail = at[s].mail /\ at'[s].via = at[s].via
      /\ \A t \in Senders \ {s} : at'[t] = at[t]
  BY MoveTyped
<1> DEFINE m == at[s].mail
<1>2. delivery[m] # "none"
  BY <1>1 DEF MailInv, RunHolds
<1>3. Typed'
  BY <1>1 DEF MailInv, Typed
<1>4. QueueHolds'
  <2>1. \A c \in Callers : post[c].pc # "idle" => post[c].mail \in Mails
    BY RestIsIdle DEF MailInv, Typed, PostType
  <2>2. \A n \in Mails : delivery'[n] = "none" => n # m /\ delivery[n] = "none"
    OBVIOUS
  <2>3. \A n \in Mails : delivery'[n] = "none" => accepted'[n] = 0
    BY <2>2 DEF MailInv, QueueHolds
  <2>4. QED BY <2>1, <2>2, <2>3 DEF MailInv, QueueHolds
<1>5. RunHolds'
  <2>1. \A t \in Senders : /\ (at'[t].pc # "idle") = (at[t].pc # "idle")
                           /\ at'[t].mail = at[t].mail /\ at'[t].via = at[t].via
    BY <1>1
  <2>2. \A t \in Senders : at'[t].pc # "idle" => delivery'[at'[t].mail] # "none"
    <3>1. \A t \in Senders : at[t].pc # "idle" => at[t].mail \in Mails
      BY RunTyped DEF MailInv
    <3>2. QED BY <1>1, <2>1, <3>1 DEF MailInv, RunHolds
  <2>3. QED BY <2>1, <2>2 DEF MailInv, RunHolds
<1>6. \A n \in Mails : Posting(n)' = Posting(n)
  BY DEF Posting
<1>7. AllAccounted'
  BY <1>1, <1>2, <1>6 DEF MailInv, AllAccounted, Accounted
<1>8. \A n \in Mails \ {m} : Carried(n) => Carried(n)'
  BY <1>1, <1>6 DEF Carried
<1>9. to # "return" => Carried(m)'
  BY <1>1 DEF Carried
<1>10. QED BY <1>3, <1>4, <1>5, <1>6, <1>7, <1>8, <1>9

\* For the rows of other mails nothing changes.
LEMMA SettledKeeps ==
  ASSUME NEW n \in Mails, delivery'[n] = delivery[n], dlq'[n] = dlq[n],
         unsure \subseteq unsure', Settled(n)
  PROVE  Settled(n)'
BY DEF Settled, Held

\* What a step of a run owes to SendHolds and Kept concerns its own mail: the
\* ghost knows of every other run about it.
LEMMA SendKeeps ==
  ASSUME MailInv, NEW s \in Senders, at[s].pc # "idle", NEW m \in Mails, at[s].mail = m,
         \A t \in Senders \ {s} : at'[t] = at[t],
         at'[s].pc = "idle" \/ at'[s].mail = m,
         \A n \in Mails \ {m} : delivery'[n] = delivery[n] /\ accepted'[n] = accepted[n],
         accepted[m] > 0 => accepted'[m] > 0,
         unsure \subseteq unsure',
         at'[s].pc = "sent" => accepted'[m] > 0,
         PastRead(s)' /\ accepted'[m] > 0 => m \in unsure',
         at'[s].pc = "return" => accepted'[m] > 0 \/ Held(m)' \/ m \in unsure',
         delivery'[m] = "sent" => accepted'[m] > 0,
         accepted'[m] > 0 => \/ m \in unsure' \/ delivery'[m] = "sent" \/ at'[s].pc = "sent"
  PROVE  SendHolds'
<1>1. \A t \in Senders \ {s} : at[t].mail = m => m \in unsure'
  BY DEF MailInv, RunHolds
<1>2. \A t \in Senders : at[t].pc # "idle" => at[t].mail \in Mails
  BY RunTyped DEF MailInv
<1>3. \A t \in Senders : at'[t].pc = "sent" => accepted'[at'[t].mail] > 0
  BY <1>2 DEF MailInv, SendHolds
<1>4. \A t \in Senders : PastRead(t)' /\ accepted'[at'[t].mail] > 0 => at'[t].mail \in unsure'
  BY <1>1, <1>2 DEF MailInv, SendHolds, PastRead
<1>5. ASSUME NEW t \in Senders, at'[t].pc = "return"
      PROVE  accepted'[at'[t].mail] > 0 \/ Held(at[t].mail)' \/ at'[t].mail \in unsure'
  <2>1. CASE t = s
    BY <2>1, <1>5 DEF Held
  <2>2. CASE t # s /\ at[t].mail = m
    BY <2>2, <1>1
  <2>3. CASE t # s /\ at[t].mail # m
    <3>1. at'[t] = at[t] /\ at[t].mail \in Mails \ {m} /\ at[t].pc = "return"
      BY <2>3, <1>2, <1>5
    <3>2. accepted[at[t].mail] > 0 \/ Held(at[t].mail) \/ at[t].mail \in unsure
      BY <3>1 DEF MailInv, SendHolds
    <3>3. QED BY <3>1, <3>2 DEF Held
  <2>4. QED BY <2>1, <2>2, <2>3
<1>6. \A n \in Mails : delivery'[n] = "sent" => accepted'[n] > 0
  BY DEF MailInv, SendHolds
<1>7. ASSUME NEW n \in Mails, accepted'[n] > 0
      PROVE  \/ n \in unsure' \/ delivery'[n] = "sent"
             \/ \E t \in Senders : at'[t].mail = n /\ at'[t].pc = "sent"
  <2>1. CASE n = m
    BY <2>1, <1>7
  <2>2. CASE n # m
    <3>1. \/ n \in unsure \/ delivery[n] = "sent"
          \/ \E t \in Senders : at[t].mail = n /\ at[t].pc = "sent"
      BY <2>2, <1>7 DEF MailInv, SendHolds
    <3>2. \A t \in Senders : at[t].mail = n => at'[t] = at[t]
      BY <2>2
    <3>3. QED BY <2>2, <3>1, <3>2
  <2>3. QED BY <2>1, <2>2
<1>8. QED BY <1>3, <1>4, <1>5, <1>6, <1>7 DEF SendHolds, PastRead, Held

LEMMA KeptKeeps ==
  ASSUME MailInv, NEW m \in Mails, accepted' \in [Mails -> Nat], delivery[m] # "none",
         \A n \in Mails \ {m} : /\ delivery'[n] = delivery[n] /\ accepted'[n] = accepted[n]
                                /\ dlq'[n] = dlq[n] /\ (n \in unrecorded => n \in unrecorded')
                                /\ (Carried(n) => Carried(n)'),
         unsure \subseteq unsure',
         accepted'[m] > 0 \/ m \in unrecorded' \/ Settled(m)' \/ Carried(m)'
  PROVE  Kept'
<1> SUFFICES ASSUME NEW n \in Mails, delivery'[n] # "none", accepted'[n] = 0, n \notin unrecorded'
             PROVE  Settled(n)' \/ Carried(n)'
  BY DEF Kept
<1>1. CASE n = m
  BY <1>1
<1>2. CASE n # m
  <2>1. Settled(n) \/ Carried(n)
    BY <1>2 DEF MailInv, Kept
  <2>2. Settled(n) => Settled(n)'
    BY <1>2, SettledKeeps
  <2>3. QED BY <1>2, <2>1, <2>2
<1>3. QED BY <1>1, <1>2

LEMMA ReadKeeps ==
  ASSUME MailInv, NEW s \in Senders, ReadDelivery(s)
  PROVE  MailInv'
<1> DEFINE m == at[s].mail
           to == IF AlreadySent(m) THEN "return" ELSE "decide"
<1>1. Go(s, "read", to) /\ to \in SendPcs \ {"idle"}
  BY DEF ReadDelivery, SendPcs
<1>2. UNCHANGED <<delivery, job, dlq, post, accepted, unrecorded, doubt>>
  BY DEF ReadDelivery, ghosts
<1>u. unsure' = unsure
  BY <1>2 DEF unsure
<1>3. /\ m \in Mails /\ at[s].pc = "read"
      /\ at'[s].pc = to /\ at'[s].mail = m
      /\ \A t \in Senders \ {s} : at'[t] = at[t]
  BY <1>1, MoveTyped
<1>4. delivery[m] # "none"
  BY <1>3 DEF MailInv, RunHolds
<1>5. /\ Typed' /\ QueueHolds' /\ RunHolds' /\ AllAccounted'
      /\ \A n \in Mails \ {m} : Carried(n) => Carried(n)'
      /\ to # "return" => Carried(m)'
  BY <1>1, <1>2, <1>u, <1>4, MoveKeeps DEF MailInv, Typed
<1>6. to = "return" => accepted[m] > 0
  BY <1>3 DEF AlreadySent, MailInv, SendHolds
<1>7. accepted[m] > 0 /\ to # "return" => m \in unsure
  <2> SUFFICES ASSUME accepted[m] > 0, delivery[m] # "sent" PROVE m \in unsure
    BY DEF AlreadySent
  <2>1. m \in unsure \/ \E t \in Senders : at[t].mail = m /\ at[t].pc = "sent"
    BY <1>3 DEF MailInv, SendHolds
  <2>2. QED BY <1>3, <2>1 DEF MailInv, RunHolds
<1>8. SendHolds'
  <2>1. delivery[m] = "sent" => accepted[m] > 0
    BY <1>3 DEF MailInv, SendHolds
  <2>2. accepted[m] > 0 => m \in unsure \/ delivery[m] = "sent"
    BY <1>7 DEF AlreadySent
  <2>3. QED BY <1>2, <1>u, <1>3, <1>6, <1>7, <2>1, <2>2, SendKeeps DEF PastRead
<1>9. Kept'
  <2>1. accepted'[m] > 0 \/ Carried(m)'
    BY <1>2, <1>u, <1>5, <1>6
  <2>2. QED BY <1>2, <1>u, <1>3, <1>4, <1>5, <2>1, KeptKeeps DEF MailInv, Typed
<1>10. QED BY <1>5, <1>8, <1>9 DEF MailInv

\* Decisions, the marks before and after the provider and what it does.
LEMMA DecideKeeps ==
  ASSUME MailInv, NEW s \in Senders, Decide(s) \/ NoProvider(s)
  PROVE  MailInv'
<1> DEFINE m == at[s].mail
<1>1. PICK from \in {"decide", "send"}, to \in {"mark", "disable", "skip"} : Go(s, from, to)
  BY DEF Decide, NoProvider
<1>2. UNCHANGED <<delivery, job, dlq, post, accepted, unrecorded, doubt>>
  BY DEF Decide, NoProvider, ghosts
<1>u. unsure' = unsure
  BY <1>2 DEF unsure
<1>3. /\ m \in Mails /\ at[s].pc = from
      /\ at'[s].pc = to /\ at'[s].mail = m
      /\ \A t \in Senders \ {s} : at'[t] = at[t]
      /\ to \in SendPcs \ {"idle"} /\ from # "idle"
  <2>1. to \in SendPcs \ {"idle"} /\ from # "idle"
    BY DEF SendPcs
  <2>2. QED BY <1>1, <2>1, MoveTyped
<1>4. delivery[m] # "none"
  BY <1>3 DEF MailInv, RunHolds
<1>5. /\ Typed' /\ QueueHolds' /\ RunHolds' /\ AllAccounted'
      /\ \A n \in Mails : Carried(n) => Carried(n)'
  BY <1>1, <1>2, <1>u, <1>3, <1>4, MoveKeeps DEF MailInv, Typed
<1>6. SendHolds'
  BY <1>2, <1>u, <1>3 DEF MailInv, SendHolds, PastRead, Held
<1>7. Kept'
  BY <1>2, <1>u, <1>5, SettledKeeps DEF MailInv, Kept
<1>8. QED BY <1>5, <1>6, <1>7 DEF MailInv

LEMMA HoldKeeps ==
  ASSUME MailInv, NEW s \in Senders, HoldBack(s)
  PROVE  MailInv'
<1> DEFINE m == at[s].mail
<1>1. PICK from \in {"disable", "skip"} : Go(s, from, "return")
  BY DEF HoldBack
<1>2. UNCHANGED <<job, dlq, post, accepted, unrecorded, doubt>>
  BY DEF HoldBack, ghosts
<1>u. unsure' = unsure
  BY <1>2 DEF unsure
<1>3. /\ m \in Mails /\ at[s].pc = from
      /\ at'[s].pc = "return" /\ at'[s].mail = m
      /\ \A t \in Senders \ {s} : at'[t] = at[t]
      /\ "return" \in SendPcs \ {"idle"} /\ from # "idle"
  <2>1. "return" \in SendPcs \ {"idle"} /\ from # "idle"
    BY DEF SendPcs
  <2>2. QED BY <1>1, <2>1, MoveTyped
<1>4. /\ delivery' \in [Mails -> Statuses]
      /\ \A n \in Mails \ {m} : delivery'[n] = delivery[n]
      /\ Held(m)' /\ delivery'[m] \notin {"none", "sent"}
  BY <1>3 DEF HoldBack, MailInv, Typed, Statuses, Held
<1>5. /\ Typed' /\ QueueHolds' /\ RunHolds' /\ AllAccounted'
      /\ \A n \in Mails \ {m} : Carried(n) => Carried(n)'
  BY <1>1, <1>2, <1>u, <1>3, <1>4, MoveKeeps DEF MailInv, Typed
<1>6. accepted[m] > 0 => m \in unsure
  BY <1>3 DEF MailInv, SendHolds, PastRead
<1>7. SendHolds'
  BY <1>2, <1>u, <1>3, <1>4, <1>6, SendKeeps DEF PastRead
<1>8. Kept'
  <2>1. Settled(m)' /\ delivery[m] # "none"
    BY <1>3, <1>4 DEF Settled, MailInv, RunHolds
  <2>2. QED BY <1>2, <1>u, <1>3, <1>4, <1>5, <2>1, KeptKeeps DEF MailInv, Typed
<1>9. QED BY <1>5, <1>7, <1>8 DEF MailInv

\* MarkSending and MarkFailed: the mail is not marked sent any more.
LEMMA MarkKeeps ==
  ASSUME MailInv, NEW s \in Senders, MarkSending(s) \/ MarkFailed(s)
  PROVE  MailInv'
<1> DEFINE m == at[s].mail
<1>1. PICK from \in {"mark", "fail"}, to \in {"send", "dead"} : Go(s, from, to)
  BY DEF MarkSending, MarkFailed
<1>2. UNCHANGED <<job, dlq, post, accepted, unrecorded, doubt>>
  BY DEF MarkSending, MarkFailed, ghosts
<1>u. unsure' = unsure
  BY <1>2 DEF unsure
<1>3. /\ m \in Mails /\ at[s].pc = from
      /\ at'[s].pc = to /\ at'[s].mail = m
      /\ \A t \in Senders \ {s} : at'[t] = at[t]
      /\ to \in SendPcs \ {"idle"} /\ from # "idle"
  <2>1. to \in SendPcs \ {"idle"} /\ from # "idle"
    BY DEF SendPcs
  <2>2. QED BY <1>1, <2>1, MoveTyped
<1>4. /\ delivery' \in [Mails -> Statuses]
      /\ \A n \in Mails \ {m} : delivery'[n] = delivery[n]
      /\ delivery'[m] \notin {"none", "sent"}
  BY <1>3 DEF MarkSending, MarkFailed, Failing, MailInv, Typed, Statuses
<1>5. /\ Typed' /\ QueueHolds' /\ RunHolds' /\ AllAccounted'
      /\ \A n \in Mails \ {m} : Carried(n) => Carried(n)'
      /\ Carried(m)'
  BY <1>1, <1>2, <1>u, <1>3, <1>4, MoveKeeps DEF MailInv, Typed
<1>6. accepted[m] > 0 => m \in unsure
  BY <1>3 DEF MailInv, SendHolds, PastRead
<1>7. SendHolds'
  BY <1>2, <1>u, <1>3, <1>4, <1>6, SendKeeps DEF PastRead
<1>8. Kept'
  <2>1. delivery[m] # "none"
    BY <1>3 DEF MailInv, RunHolds
  <2>2. QED BY <1>2, <1>u, <1>3, <1>4, <1>5, <2>1, KeptKeeps DEF MailInv, Typed
<1>9. QED BY <1>5, <1>7, <1>8 DEF MailInv

LEMMA ProviderKeeps ==
  ASSUME MailInv, NEW s \in Senders, Provider(s)
  PROVE  MailInv'
<1> DEFINE m == at[s].mail
<1>1. PICK to \in {"sent", "fail"} :
         /\ Go(s, "send", to)
         /\ \/ to = "sent" /\ accepted' = [accepted EXCEPT ![m] = accepted[m] + 1] /\ doubt' = doubt
            \/ to = "fail" /\ accepted' = accepted /\ doubt' = doubt
            \/ /\ to = "fail" /\ accepted' = [accepted EXCEPT ![m] = accepted[m] + 1]
               /\ Doubted(m, TRUE)
  BY DEF Provider
<1>2. UNCHANGED <<delivery, job, dlq, post, unrecorded>>
  BY DEF Provider
<1>3. /\ m \in Mails /\ at[s].pc = "send"
      /\ at'[s].pc = to /\ at'[s].mail = m
      /\ \A t \in Senders \ {s} : at'[t] = at[t]
      /\ to \in SendPcs \ {"idle"} /\ "send" # "idle"
  <2>1. to \in SendPcs \ {"idle"} /\ "send" # "idle"
    BY DEF SendPcs
  <2>2. QED BY <1>1, <2>1, MoveTyped
<1>4. /\ delivery[m] # "none"
      /\ accepted[m] > 0 => m \in unsure
      /\ delivery[m] = "sent" => accepted[m] > 0
      /\ accepted \in [Mails -> Nat]
  BY <1>3 DEF MailInv, RunHolds, SendHolds, PastRead, Typed
<1>5. /\ accepted' \in [Mails -> Nat]
      /\ \A n \in Mails \ {m} : accepted'[n] = accepted[n]
      /\ accepted[m] > 0 => accepted'[m] > 0
      /\ doubt' \in [Mails -> Nat] /\ unsure \subseteq unsure'
      /\ to = "sent" => accepted'[m] > 0
      /\ to = "fail" /\ accepted'[m] > 0 => m \in unsure'
  <2>1. CASE accepted' = [accepted EXCEPT ![m] = accepted[m] + 1] /\ to = "sent" /\ doubt' = doubt
    <3>1. doubt' \in [Mails -> Nat] /\ unsure' = unsure
      BY <2>1 DEF unsure, MailInv, Typed
    <3>2. QED BY <2>1, <3>1, <1>3, <1>4
  <2>2. CASE accepted' = accepted /\ to = "fail" /\ doubt' = doubt
    <3>1. doubt' \in [Mails -> Nat] /\ unsure' = unsure
      BY <2>2 DEF unsure, MailInv, Typed
    <3>2. QED BY <2>2, <3>1, <1>3, <1>4
  <2>3. CASE accepted' = [accepted EXCEPT ![m] = accepted[m] + 1] /\ Doubted(m, TRUE) /\ to = "fail"
    <3>1. doubt' \in [Mails -> Nat] /\ unsure \subseteq unsure' /\ m \in unsure'
      BY <2>3, <1>3, DoubtedAdds DEF MailInv
    <3>2. QED BY <2>3, <3>1, <1>3, <1>4
  <2>4. QED BY <1>1, <2>1, <2>2, <2>3
<1>6. /\ Typed' /\ QueueHolds' /\ RunHolds' /\ AllAccounted'
      /\ \A n \in Mails \ {m} : Carried(n) => Carried(n)'
      /\ Carried(m)'
  BY <1>1, <1>2, <1>3, <1>4, <1>5, MoveKeeps DEF MailInv, Typed
<1>7. SendHolds'
  BY <1>2, <1>3, <1>4, <1>5, SendKeeps DEF PastRead
<1>8. Kept'
  BY <1>2, <1>3, <1>4, <1>5, <1>6, KeptKeeps
<1>9. QED BY <1>6, <1>7, <1>8 DEF MailInv

LEMMA SentKeeps ==
  ASSUME MailInv, NEW s \in Senders, MarkSent(s)
  PROVE  MailInv'
<1> DEFINE m == at[s].mail
<1>1. /\ Go(s, "sent", "return")
      /\ delivery' = [delivery EXCEPT ![m] = "sent"]
      /\ UNCHANGED <<job, dlq, post, accepted, unrecorded, doubt>>
  BY DEF MarkSent, ghosts
<1>2. /\ unsure' = unsure
      /\ doubt' \in [Mails -> Nat]
  BY <1>1 DEF unsure, MailInv, Typed
<1>3. /\ m \in Mails /\ at[s].pc = "sent"
      /\ at'[s].pc = "return" /\ at'[s].mail = m
      /\ \A t \in Senders \ {s} : at'[t] = at[t]
      /\ "return" \in SendPcs \ {"idle"} /\ "sent" # "idle"
  <2>1. "return" \in SendPcs \ {"idle"} /\ "sent" # "idle"
    BY DEF SendPcs
  <2>2. QED BY <1>1, <2>1, MoveTyped
<1>4. /\ delivery[m] # "none"
      /\ accepted[m] > 0
      /\ accepted \in [Mails -> Nat] /\ delivery \in [Mails -> Statuses]
  BY <1>3 DEF MailInv, RunHolds, SendHolds, Typed
<1>5. /\ delivery' \in [Mails -> Statuses]
      /\ \A n \in Mails \ {m} : delivery'[n] = delivery[n]
      /\ delivery'[m] = "sent"
  BY <1>1, <1>3, <1>4 DEF Statuses
<1>6. /\ Typed' /\ QueueHolds' /\ RunHolds' /\ AllAccounted'
      /\ \A n \in Mails \ {m} : Carried(n) => Carried(n)'
  BY <1>1, <1>2, <1>3, <1>4, <1>5, MoveKeeps
<1>7. SendHolds'
  BY <1>1, <1>2, <1>3, <1>4, <1>5, SendKeeps DEF PastRead
<1>8. Kept'
  BY <1>1, <1>2, <1>3, <1>4, <1>5, <1>6, KeptKeeps
<1>9. QED BY <1>6, <1>7, <1>8 DEF MailInv

\* The end of a run, whichever it is: its job, its dead letter and the ghost
\* account for the mail.
LEMMA EndKeeps ==
  ASSUME MailInv, NEW s \in Senders, at[s].pc # "idle", NEW m \in Mails, at[s].mail = m,
         at' = [at EXCEPT ![s] = Rest],
         job' \in [Mails -> JobType], \A n \in Mails \ {m} : job'[n] = job[n],
         at[s].via # "job" => job' = job,
         dlq' \in [Mails -> {"none", "pending", "retrying", "resolved", "discarded"}],
         \A n \in Mails \ {m} : dlq'[n] = dlq[n],
         dlq[m] # "none" => dlq'[m] # "none",
         job[m].state # "none" => job'[m].state # "none",
         m \in unrecorded => dlq'[m] # "none" \/ m \in unrecorded',
         \A n \in Mails \ {m} : n \in unrecorded => n \in unrecorded',
         doubt' \in [Mails -> Nat], unsure \subseteq unsure',
         at[s].pc = "sent" => delivery[m] = "sent" \/ m \in unsure',
         UNCHANGED <<delivery, post, accepted>>,
         accepted[m] > 0 \/ m \in unrecorded' \/ Settled(m)' \/ Carried(m)'
  PROVE  MailInv'
<1>1. /\ at'[s] = Rest /\ (\A t \in Senders \ {s} : at'[t] = at[t])
      /\ at' \in [Senders -> AtType]
  BY DEF MailInv, Typed, AtType
<1>2. delivery[m] # "none"
  BY DEF MailInv, RunHolds
<1>3. Typed'
  BY <1>1 DEF MailInv, Typed
<1>4. QueueHolds'
  <2>1. \A c \in Callers : post[c].pc = "queue" => post[c].mail \in Mails
    BY RestIsIdle DEF MailInv, Typed, PostType
  <2>2. at[s].via = "job" => job[m].state = "active"
    BY DEF MailInv, RunHolds
  <2>3. \A c \in Callers : post[c].pc = "queue" => job'[post[c].mail].state = "none"
    BY <2>1, <2>2 DEF MailInv, QueueHolds
  <2>4. \A n \in Mails : delivery'[n] = "none" => job'[n].state = "none" /\ dlq'[n] = "none" /\ accepted'[n] = 0
    BY <1>2 DEF MailInv, QueueHolds
  <2>5. QED BY <2>3, <2>4 DEF MailInv, QueueHolds
<1>5. \A t \in Senders : at'[t].pc # "idle" => t # s /\ at'[t] = at[t] /\ at[t].mail \in Mails
  BY <1>1, RunTyped, RestIsIdle DEF MailInv
<1>6. RunHolds'
  <2>1. ASSUME NEW t \in Senders, at'[t].pc # "idle", at'[t].via = "job"
        PROVE  job'[at'[t].mail].state = "active"
    <3>1. t # s /\ at'[t] = at[t] /\ at[t].mail \in Mails /\ job[at[t].mail].state = "active"
      BY <1>5, <2>1 DEF MailInv, RunHolds
    <3>2. CASE at[t].mail = m
      <4>1. at[s].via # "job"
        BY <2>1, <3>1, <3>2 DEF MailInv, RunHolds
      <4>2. QED BY <3>1, <4>1
    <3>3. CASE at[t].mail # m
      BY <3>1, <3>3
    <3>4. QED BY <3>2, <3>3
  <2>2. \A t, u \in Senders : at'[t].pc # "idle" /\ t # u /\ at'[t].mail = at'[u].mail
                                  => at'[t].mail \in unsure'
    <3>1. ASSUME NEW t \in Senders, NEW u \in Senders, at'[t].pc # "idle", t # u, at'[t].mail = at'[u].mail
          PROVE  at'[t].mail \in unsure'
      <4>1. u # s
        BY <1>1, <1>5, <3>1, RestIsIdle, MailAssumption
      <4>2. QED BY <1>1, <1>5, <3>1, <4>1 DEF MailInv, RunHolds
    <3>2. QED BY <3>1
  <2>3. QED BY <1>5, <2>1, <2>2 DEF MailInv, RunHolds
<1>7. SendHolds'
  <2>1. /\ delivery[m] = "sent" => accepted[m] > 0
        /\ accepted[m] > 0 => m \in unsure' \/ delivery[m] = "sent"
    <3>1. \A t \in Senders \ {s} : at[t].mail = m => m \in unsure'
      BY DEF MailInv, RunHolds
    <3>2. QED BY <3>1 DEF MailInv, SendHolds
  <2>2. ~PastRead(s)' /\ at'[s].pc = "idle"
    BY <1>1, RestIsIdle DEF PastRead
  <2>3. QED BY <1>1, <2>1, <2>2, SendKeeps
<1>8. \A n \in Mails : Posting(n)' = Posting(n)
  BY DEF Posting
<1>9. Kept'
  <2>1. \A n \in Mails \ {m} : Carried(n) => Carried(n)'
    BY <1>1, <1>8 DEF Carried
  <2>2. QED BY <1>2, <2>1, KeptKeeps DEF MailInv, Typed
<1>10. AllAccounted'
  BY <1>2, <1>8 DEF MailInv, AllAccounted, Accounted
<1>11. QED BY <1>3, <1>4, <1>6, <1>7, <1>9, <1>10 DEF MailInv

LEMMA ThrowKeeps ==
  ASSUME MailInv, NEW s \in Senders, RecordDlq(s) \/ DeliverThrows(s)
  PROVE  MailInv'
<1>m. PICK m : m = at[s].mail
  OBVIOUS
<1>2. /\ at[s].pc # "idle"
      /\ at' = [at EXCEPT ![s] = Rest]
      /\ UNCHANGED <<delivery, post, accepted>>
  BY DEF RecordDlq, DeliverThrows
<1>3. m \in Mails
  BY <1>2, <1>m, RunTyped DEF MailInv
<1>1. PICK d \in BOOLEAN :
         /\ OnThrow(s, d) \/ (~d /\ at[s].via = "dlq" /\ UNCHANGED <<job, dlq>>)
         /\ d => unrecorded' = unrecorded \ {m}
         /\ ~d => unrecorded' = unrecorded \cup {m}
         /\ (d /\ at[s].pc = "dead" /\ doubt' = doubt) \/ (~d /\ Doubted(m, at[s].pc = "sent"))
  <2>1. CASE RecordDlq(s)
    BY <2>1, <1>m DEF RecordDlq
  <2>2. CASE DeliverThrows(s)
    BY <2>2, <1>m DEF DeliverThrows
  <2>3. QED BY <2>1, <2>2
<1>u. /\ doubt' \in [Mails -> Nat] /\ unsure \subseteq unsure'
      /\ at[s].pc = "sent" => m \in unsure'
  <2>1. Typed
    BY DEF MailInv
  <2>2. CASE Doubted(m, at[s].pc = "sent")
    BY <2>1, <2>2, <1>3, DoubtedAdds
  <2>3. CASE at[s].pc = "dead" /\ doubt' = doubt
    BY <2>1, <2>3 DEF Typed, unsure
  <2>4. QED BY <1>1, <2>2, <2>3
<1>4. /\ job \in [Mails -> JobType]
      /\ dlq \in [Mails -> {"none", "pending", "retrying", "resolved", "discarded"}]
  BY DEF MailInv, Typed
<1>5. /\ job' \in [Mails -> JobType] /\ (\A n \in Mails \ {m} : job'[n] = job[n])
      /\ at[s].via # "job" => job' = job
      /\ job[m].state # "none" => job'[m].state # "none"
  <2>1. CASE at[s].via # "job"
    BY <2>1, <1>1, <1>4 DEF OnThrow
  <2>2. CASE at[s].via = "job"
    <3> DEFINE new == [state |-> IF Tries(m) < MaxTries THEN "waiting" ELSE "over", tries |-> Tries(m)]
    <3>1. new \in JobType /\ new.state # "none"
      BY <1>3, <1>4 DEF JobType, Tries
    <3>2. job' = [job EXCEPT ![m] = new]
      BY <2>2, <1>1, <1>m DEF OnThrow
    <3> HIDE DEF new
    <3>3. QED BY <2>2, <3>1, <3>2, <1>3, <1>4
  <2>3. QED BY <2>1, <2>2
<1>6. /\ dlq' \in [Mails -> {"none", "pending", "retrying", "resolved", "discarded"}]
      /\ \A n \in Mails \ {m} : dlq'[n] = dlq[n]
      /\ dlq[m] # "none" => dlq'[m] # "none"
      /\ d => dlq'[m] = "pending"
  <2>1. dlq' = dlq \/ dlq' = [dlq EXCEPT ![m] = "pending"]
    BY <1>1, <1>m DEF OnThrow
  <2>2. d => dlq' = [dlq EXCEPT ![m] = "pending"]
    BY <1>1, <1>m DEF OnThrow, DeadLettered
  <2>3. QED BY <2>1, <2>2, <1>3, <1>4
<1>7. m \in unrecorded' \/ dlq'[m] = "pending"
  BY <1>1, <1>6
<1>8. m \in unrecorded' \/ Settled(m)'
  BY <1>7 DEF Settled
<1>9. /\ m \in unrecorded => dlq'[m] # "none" \/ m \in unrecorded'
      /\ \A n \in Mails \ {m} : n \in unrecorded => n \in unrecorded'
  BY <1>1, <1>7
<1>10. QED BY <1>2, <1>3, <1>5, <1>6, <1>8, <1>9, <1>m, <1>u, EndKeeps

LEMMA ReturnKeeps ==
  ASSUME MailInv, NEW s \in Senders, Return(s)
  PROVE  MailInv'
<1>m. PICK m : m = at[s].mail
  OBVIOUS
<1>1. /\ at[s].pc = "return"
      /\ at' = [at EXCEPT ![s] = Rest]
      /\ OnReturn(s)
      /\ UNCHANGED <<delivery, post, accepted, unrecorded, doubt>>
  BY DEF Return, ghosts
<1>2. m \in Mails
  BY <1>1, <1>m, RunTyped DEF MailInv
<1>3. /\ job \in [Mails -> JobType]
      /\ dlq \in [Mails -> {"none", "pending", "retrying", "resolved", "discarded"}]
  BY DEF MailInv, Typed
<1>4. /\ job' \in [Mails -> JobType] /\ (\A n \in Mails \ {m} : job'[n] = job[n])
      /\ at[s].via # "job" => job' = job
      /\ at[s].via = "job" => job'[m].state = "over"
  BY <1>1, <1>2, <1>3, <1>m DEF OnReturn, JobType
<1>5. /\ dlq' \in [Mails -> {"none", "pending", "retrying", "resolved", "discarded"}]
      /\ \A n \in Mails \ {m} : dlq'[n] = dlq[n]
      /\ at[s].via = "dlq" => dlq'[m] = "resolved"
      /\ at[s].via # "dlq" => dlq' = dlq
  BY <1>1, <1>2, <1>3, <1>m DEF OnReturn
<1>6. accepted[m] > 0 \/ Held(m) \/ m \in unsure
  BY <1>1, <1>m DEF MailInv, SendHolds
<1>7. accepted[m] > 0 \/ m \in unrecorded' \/ Settled(m)' \/ Carried(m)'
  <2>1. CASE Held(m)
    BY <2>1, <1>1 DEF Settled, Held
  <2>2. CASE m \in unsure /\ at[s].via = "dlq"
    BY <2>2, <1>1, <1>5 DEF Settled, unsure
  <2>3. CASE at[s].via # "dlq"
    <3>1. accepted[m] = 0 /\ m \notin unrecorded => Settled(m) \/ Carried(m)
      BY <1>1, <1>2, <1>m DEF MailInv, Kept, RunHolds
    <3>2. Settled(m) => Settled(m)'
      BY <1>1, <1>5, <2>3 DEF Settled, Held, unsure
    <3>3. Carried(m) => Carried(m)'
      <4>1. at[s].via = "job" => job[m].state = "active"
        BY <1>1, <1>m DEF MailInv, RunHolds
      <4>2. Posting(m)' = Posting(m)
        BY <1>1 DEF Posting
      <4>3. ASSUME NEW t \in Senders, at[t].mail = m, at[t].pc # "return"
            PROVE  at'[t] = at[t]
        BY <1>1, <4>3 DEF MailInv, Typed
      <4>4. QED BY <1>4, <4>1, <4>2, <4>3 DEF Carried
    <3>4. accepted[m] \in Nat
      BY <1>2 DEF MailInv, Typed
    <3>5. QED BY <1>1, <3>1, <3>2, <3>3, <3>4
  <2>4. QED BY <1>6, <2>1, <2>2, <2>3
<1>8. /\ job[m].state # "none" => job'[m].state # "none"
      /\ dlq[m] # "none" => dlq'[m] # "none"
  BY <1>4, <1>5
<1>9. at[s].pc \notin {"idle", "sent"}
  BY <1>1
<1>u. unsure' = unsure /\ doubt' \in [Mails -> Nat]
  BY <1>1 DEF unsure, MailInv, Typed
<1>10. QED BY <1>1, <1>2, <1>4, <1>5, <1>7, <1>8, <1>9, <1>m, <1>u, EndKeeps

LEMMA DieKeeps ==
  ASSUME MailInv, NEW s \in Senders, Die(s)
  PROVE  MailInv'
<1> DEFINE m == at[s].mail
<1>1. /\ at[s].pc # "idle"
      /\ at' = [at EXCEPT ![s] = Rest]
      /\ m \in unrecorded' /\ unrecorded \subseteq unrecorded'
      /\ Doubted(m, at[s].pc = "sent")
      /\ UNCHANGED <<delivery, dlq, post, accepted>>
  BY DEF Die
<1>2. m \in Mails
  BY <1>1, RunTyped DEF MailInv
<1>u. /\ doubt' \in [Mails -> Nat] /\ unsure \subseteq unsure'
      /\ at[s].pc = "sent" => m \in unsure'
  BY <1>1, <1>2, DoubtedAdds DEF MailInv
<1>3. /\ job \in [Mails -> JobType]
      /\ dlq \in [Mails -> {"none", "pending", "retrying", "resolved", "discarded"}]
  BY DEF MailInv, Typed
<1>4. /\ job' \in [Mails -> JobType] /\ (\A n \in Mails \ {m} : job'[n] = job[n])
      /\ at[s].via # "job" => job' = job
      /\ job[m].state # "none" => job'[m].state # "none"
  BY <1>2, <1>3 DEF Die, JobType
<1>5. QED BY <1>1, <1>2, <1>3, <1>4, <1>u, EndKeeps

\* No step of the mail layer leaves the invariant.
THEOREM MailKeeps == MailInv /\ MailNext => MailInv'
<1> SUFFICES ASSUME MailInv, MailNext PROVE MailInv'
  OBVIOUS
<1>1. ASSUME NEW c \in Callers, SendStep(c) \/ QueueFails(c) \/ SendThrows(c) PROVE MailInv'
  BY <1>1, FindKeeps, CreateKeeps, QueueKeeps, UnqueuedKeeps DEF SendStep
<1>2. ASSUME NEW s \in Senders, DeliverStep(s) \/ DeliverThrows(s) \/ Die(s) PROVE MailInv'
  BY <1>2, ReadKeeps, DecideKeeps, HoldKeeps, MarkKeeps, ProviderKeeps, SentKeeps, ThrowKeeps,
     ReturnKeeps, DieKeeps DEF DeliverStep
<1>3. QED BY <1>1, <1>2, TakeKeeps, AdminKeeps DEF MailNext

\* What the invariant is for: no mail vanishes.
THEOREM NothingVanishes == MailInv => NoMailVanishes
<1> SUFFICES ASSUME MailInv, NEW m \in Mails, delivery[m] # "none", accepted[m] = 0,
                    ~Pending(m), m \notin unrecorded
             PROVE  Settled(m)
  BY DEF NoMailVanishes, Settled, Held
<1>1. Settled(m) \/ Carried(m)
  BY DEF MailInv, Kept
<1>2. ~Carried(m)
  BY DEF Pending, Carried, Busy
<1>3. QED BY <1>1, <1>2

\* The provider takes a mail in one step only, and what it took stays taken.
LEMMA AcceptedStays ==
  ASSUME MailInv, MailNext, NEW m \in Mails, accepted[m] > 0
  PROVE  accepted'[m] > 0
<1>1. ASSUME NEW c \in Callers, SendStep(c) \/ QueueFails(c) \/ SendThrows(c) PROVE UNCHANGED accepted
  BY <1>1 DEF SendStep, FindKey, CreateDelivery, QueueMail, MarkUnqueued, RecordUnqueued,
     QueueFails, SendThrows, PostStep
<1>2. ASSUME NEW s \in Senders, DeliverStep(s) \/ DeliverThrows(s) \/ Die(s)
      PROVE  Provider(s) \/ UNCHANGED accepted
  BY <1>2 DEF DeliverStep, ReadDelivery, Decide, HoldBack, MarkSending, NoProvider, MarkSent,
     MarkFailed, RecordDlq, Return, DeliverThrows, Die, ghosts
<1>3. ASSUME NEW s \in Workers, NEW n \in Mails, TakeJob(s, n) PROVE UNCHANGED accepted
  BY <1>3 DEF TakeJob, Start
<1>4. Administer => UNCHANGED accepted
  BY DEF Administer, RetryDelivery, RetryDlq, DiscardDlq, PatchSettings, Start, ghosts
<1>5. UNCHANGED accepted \/ \E s \in Senders : Provider(s)
  BY <1>1, <1>2, <1>3, <1>4 DEF MailNext
<1>6. ASSUME NEW s \in Senders, Provider(s)
      PROVE  \/ UNCHANGED accepted
             \/ accepted' = [accepted EXCEPT ![at[s].mail] = accepted[at[s].mail] + 1]
  BY <1>6 DEF Provider
<1>7. accepted \in [Mails -> Nat]
  BY DEF MailInv, Typed
<1>8. QED BY <1>5, <1>6, <1>7

-----------------------------------------------------------------------------
(* How often a mail goes out.  A run that has not ended may yet send its   *)
(* mail, so that it counts as one that went out until it is over; a row    *)
(* marked sent stops those that have not read it.                          *)

Trying(m) == {s \in Senders : at[s].mail = m /\ at[s].pc \notin {"idle", "sent", "return"}}
MayAdd(m) == Cardinality(Trying(m))
Past(m) == \E s \in Senders : at[s].mail = m /\ PastRead(s)
Sending(m) == \E s \in Senders : at[s].mail = m /\ at[s].pc = "sent"

DoubtFor(m) ==
    /\ delivery[m] # "sent" \/ Past(m) => accepted[m] + MayAdd(m) <= 1 + doubt[m]
    /\ accepted[m] + MayAdd(m) <= 2 + doubt[m]
    /\ accepted[m] <= 1 + doubt[m]
    /\ delivery[m] # "sent" /\ ~Sending(m) => accepted[m] <= doubt[m]

Doubts == \A m \in Mails : DoubtFor(m)

LEMMA DoubtsInit == MailInit => Doubts
<1> SUFFICES ASSUME MailInit, NEW m \in Mails PROVE DoubtFor(m)
  BY DEF Doubts
<1>1. Trying(m) = {} /\ ~Past(m) /\ ~Sending(m)
  BY DEF MailInit, Trying, Past, PastRead, Sending, Rest
<1>2. MayAdd(m) = 0
  BY <1>1, FS_EmptySet DEF MayAdd
<1>3. accepted[m] = 0 /\ doubt[m] = 0
  BY DEF MailInit
<1>4. QED BY <1>1, <1>2, <1>3 DEF DoubtFor

LEMMA FiniteTrying ==
  ASSUME NEW T, T \subseteq Senders
  PROVE  IsFiniteSet(T) /\ Cardinality(T) \in Nat
<1>1. IsFiniteSet(Senders)
  BY MailAssumption, FS_Union DEF Senders
<1>2. IsFiniteSet(T)
  BY <1>1, FS_Subset
<1>3. QED BY <1>2, FS_CardinalityType

\* The step of one run changes how many may add a mail by that run only.
LEMMA Counting ==
  ASSUME NEW s \in Senders, NEW m \in Mails, \A t \in Senders \ {s} : at'[t] = at[t]
  PROVE  /\ MayAdd(m) \in Nat /\ MayAdd(m)' \in Nat
         /\ s \in Trying(m) => MayAdd(m) >= 1
         /\ MayAdd(m)' = MayAdd(m) + (IF s \in Trying(m)' THEN 1 ELSE 0)
                                   - (IF s \in Trying(m) THEN 1 ELSE 0)
<1> DEFINE now == Trying(m)
           then == Trying(m)'
<1>1. now \subseteq Senders /\ then \subseteq Senders
  BY DEF Trying
<1>2. /\ IsFiniteSet(now) /\ Cardinality(now) \in Nat
      /\ IsFiniteSet(then) /\ Cardinality(then) \in Nat
  BY <1>1, FiniteTrying
<1>3. now \ {s} = then \ {s}
  BY DEF Trying
<1>4. /\ Cardinality(now \ {s}) = IF s \in now THEN Cardinality(now) - 1 ELSE Cardinality(now)
      /\ Cardinality(then \ {s}) = IF s \in then THEN Cardinality(then) - 1 ELSE Cardinality(then)
  BY <1>2, FS_RemoveElement
<1>5. MayAdd(m) = Cardinality(now) /\ MayAdd(m)' = Cardinality(then)
  BY DEF MayAdd
<1>6. s \in now => Cardinality(now) # 0
  BY <1>2, FS_EmptySet
<1> HIDE DEF now, then
<1>7. /\ s \in now => MayAdd(m) >= 1
      /\ MayAdd(m)' = MayAdd(m) + (IF s \in then THEN 1 ELSE 0) - (IF s \in now THEN 1 ELSE 0)
  BY <1>2, <1>3, <1>4, <1>5, <1>6
<1>8. QED BY <1>2, <1>5, <1>7 DEF now, then

\* Who is not about a mail does not count for it.
LEMMA OthersDoubt ==
  ASSUME NEW s \in Senders, NEW m \in Mails, DoubtFor(m),
         \A t \in Senders \ {s} : at'[t] = at[t],
         at[s].mail # m, at'[s].mail # m,
         delivery'[m] = delivery[m], accepted'[m] = accepted[m], doubt'[m] = doubt[m]
  PROVE  DoubtFor(m)'
<1>1. Trying(m)' = Trying(m) /\ (Past(m)' <=> Past(m)) /\ (Sending(m)' <=> Sending(m))
  BY DEF Trying, Past, PastRead, Sending
<1>2. MayAdd(m)' = MayAdd(m)
  BY <1>1 DEF MayAdd
<1>3. QED BY <1>1, <1>2 DEF DoubtFor

\* A step of a run, of what it may do to the counts of its mail.
LEMMA RunDoubt ==
  ASSUME MailInv, MailInv', NEW s \in Senders, NEW m \in Mails, at[s].mail = m, at[s].pc # "idle",
         DoubtFor(m),
         \A t \in Senders \ {s} : at'[t] = at[t],
         at'[s].pc = "idle" \/ at'[s].mail = m,
         doubt'[m] = doubt[m] \/ doubt'[m] = doubt[m] + 1,
         \/ /\ accepted'[m] = accepted[m]
            /\ at'[s].pc \in {"idle", "return"}
            /\ at[s].pc # "sent"
            /\ delivery'[m] = delivery[m] \/ (PastRead(s) /\ delivery'[m] # "sent")
         \/ /\ accepted'[m] = accepted[m]
            /\ at[s].pc = "sent"
            /\ \/ at'[s].pc = "return" /\ delivery'[m] = "sent"
               \/ at'[s].pc = "idle" /\ delivery'[m] = delivery[m] /\ doubt'[m] = doubt[m] + 1
         \/ /\ accepted'[m] = accepted[m]
            /\ PastRead(s) \/ (at[s].pc = "read" /\ delivery[m] # "sent")
            /\ PastRead(s)'
            /\ delivery'[m] = delivery[m] \/ delivery'[m] # "sent"
         \/ /\ PastRead(s) /\ delivery'[m] = delivery[m]
            /\ accepted'[m] = accepted[m] + 1
            /\ at'[s].pc = "sent" \/ (PastRead(s)' /\ doubt'[m] = doubt[m] + 1)
  PROVE  DoubtFor(m)'
<1>1. /\ accepted[m] \in Nat /\ doubt[m] \in Nat /\ accepted'[m] \in Nat /\ doubt'[m] \in Nat
      /\ at[s].pc \in SendPcs /\ at'[s].pc \in SendPcs
  BY DEF MailInv, Typed, AtType, Rest, SendPcs
<1>2. /\ MayAdd(m) \in Nat /\ MayAdd(m)' \in Nat
      /\ s \in Trying(m) => MayAdd(m) >= 1
      /\ MayAdd(m)' = MayAdd(m) + (IF s \in Trying(m)' THEN 1 ELSE 0)
                                - (IF s \in Trying(m) THEN 1 ELSE 0)
  BY Counting
<1>3. /\ s \in Trying(m) <=> at[s].pc \notin {"sent", "return"}
      /\ s \in Trying(m)' <=> at'[s].pc \notin {"idle", "sent", "return"}
  BY DEF Trying
<1>4. /\ PastRead(s) => Past(m) /\ s \in Trying(m)
      /\ PastRead(s)' => Past(m)' /\ s \in Trying(m)'
      /\ Past(m)' => Past(m) \/ PastRead(s)'
      /\ at[s].pc = "sent" => Sending(m)
      /\ at'[s].pc = "sent" => Sending(m)'
      /\ Sending(m) => Sending(m)' \/ at[s].pc = "sent"
  BY DEF Past, PastRead, Sending, Trying
<1>5. /\ delivery[m] # "sent" \/ Past(m) => accepted[m] + MayAdd(m) <= 1 + doubt[m]
      /\ accepted[m] + MayAdd(m) <= 2 + doubt[m]
      /\ accepted[m] <= 1 + doubt[m]
      /\ delivery[m] # "sent" /\ ~Sending(m) => accepted[m] <= doubt[m]
  BY DEF DoubtFor
<1>6. /\ delivery'[m] # "sent" \/ Past(m)' => accepted'[m] + MayAdd(m)' <= 1 + doubt'[m]
      /\ accepted'[m] + MayAdd(m)' <= 2 + doubt'[m]
      /\ accepted'[m] <= 1 + doubt'[m]
      /\ delivery'[m] # "sent" /\ ~Sending(m)' => accepted'[m] <= doubt'[m]
  <2>1. CASE /\ accepted'[m] = accepted[m]
             /\ at'[s].pc \in {"idle", "return"}
             /\ at[s].pc # "sent"
             /\ delivery'[m] = delivery[m] \/ (PastRead(s) /\ delivery'[m] # "sent")
    <3>1. ~PastRead(s)' /\ s \notin Trying(m)' /\ (PastRead(s) => s \in Trying(m))
      BY <2>1, <1>3 DEF PastRead
    <3>2. MayAdd(m)' <= MayAdd(m)
      BY <3>1, <1>2
    <3>3. PastRead(s) => accepted[m] <= doubt[m]
      BY <1>1, <1>2, <1>4, <1>5
    <3>4. QED BY <2>1, <3>1, <3>2, <3>3, <1>1, <1>2, <1>4, <1>5
  <2>2. CASE /\ accepted'[m] = accepted[m]
             /\ at[s].pc = "sent"
             /\ \/ at'[s].pc = "return" /\ delivery'[m] = "sent"
                \/ at'[s].pc = "idle" /\ delivery'[m] = delivery[m] /\ doubt'[m] = doubt[m] + 1
    <3>1. MayAdd(m)' = MayAdd(m) /\ ~PastRead(s)'
      BY <2>2, <1>2, <1>3 DEF PastRead
    <3>2. QED BY <2>2, <3>1, <1>1, <1>2, <1>4, <1>5
  <2>3. CASE /\ accepted'[m] = accepted[m]
             /\ PastRead(s) \/ (at[s].pc = "read" /\ delivery[m] # "sent")
             /\ PastRead(s)'
             /\ delivery'[m] = delivery[m] \/ delivery'[m] # "sent"
    <3>1. accepted[m] + MayAdd(m) <= 1 + doubt[m]
      BY <2>3, <1>4, <1>5
    <3>2. s \in Trying(m)
      BY <2>3, <1>3 DEF PastRead
    <3>3. MayAdd(m)' = MayAdd(m) /\ MayAdd(m) >= 1
      BY <3>2, <2>3, <1>2, <1>4
    <3>4. QED BY <2>3, <3>1, <3>3, <1>1, <1>2
  <2>4. CASE /\ PastRead(s) /\ delivery'[m] = delivery[m]
             /\ accepted'[m] = accepted[m] + 1
             /\ at'[s].pc = "sent" \/ (PastRead(s)' /\ doubt'[m] = doubt[m] + 1)
    <3>1. accepted[m] + MayAdd(m) <= 1 + doubt[m] /\ MayAdd(m) >= 1
      BY <2>4, <1>2, <1>4, <1>5
    <3>2. CASE at'[s].pc = "sent"
      <4>1. MayAdd(m)' = MayAdd(m) - 1 /\ Sending(m)'
        BY <3>2, <2>4, <1>2, <1>3, <1>4
      <4>2. QED BY <2>4, <3>1, <4>1, <1>1, <1>2
    <3>3. CASE PastRead(s)' /\ doubt'[m] = doubt[m] + 1
      <4>1. MayAdd(m)' = MayAdd(m)
        BY <3>3, <2>4, <1>2, <1>4
      <4>2. QED BY <2>4, <3>1, <3>3, <4>1, <1>1, <1>2
    <3>4. QED BY <2>4, <3>2, <3>3
  <2>5. QED BY <2>1, <2>2, <2>3, <2>4
<1>7. QED BY <1>6 DEF DoubtFor

\* The same for all mails: what a step does to one, and nothing to the others.
LEMMA RunDoubts ==
  ASSUME MailInv, MailInv', Doubts, NEW s \in Senders, NEW m \in Mails, at[s].mail = m,
         at[s].pc # "idle",
         \A t \in Senders \ {s} : at'[t] = at[t],
         (at'[s].pc = "idle" /\ at'[s].mail = None) \/ at'[s].mail = m,
         \A n \in Mails \ {m} : delivery'[n] = delivery[n] /\ accepted'[n] = accepted[n]
                                    /\ doubt'[n] = doubt[n],
         DoubtFor(m)'
  PROVE  Doubts'
<1> SUFFICES ASSUME NEW n \in Mails, n # m PROVE DoubtFor(n)'
  BY DEF Doubts
<1>1. at[s].mail # n /\ at'[s].mail # n
  BY MailAssumption
<1>2. QED BY <1>1, OthersDoubt DEF Doubts

LEMMA MoveDoubts ==
  ASSUME MailInv, MailInv', Doubts, NEW s \in Senders,
         DeliverStep(s) \/ DeliverThrows(s) \/ Die(s)
  PROVE  Doubts'
<1>m. PICK m : m = at[s].mail
  OBVIOUS
<1>1. at[s].pc # "idle"
  BY DEF DeliverStep, ReadDelivery, Decide, HoldBack, MarkSending, NoProvider, Provider, MarkSent,
     MarkFailed, RecordDlq, Return, DeliverThrows, Die, Go
<1>2. /\ m \in Mails /\ at[s].pc \in SendPcs
      /\ at \in [Senders -> AtType] /\ accepted \in [Mails -> Nat] /\ doubt \in [Mails -> Nat]
      /\ delivery \in [Mails -> Statuses] /\ Typed
      /\ DoubtFor(m)
  <2>1. m \in Mails
    BY <1>1, <1>m, RunTyped DEF MailInv
  <2>2. QED BY <1>1, <1>m, <2>1, RunTyped DEF MailInv, Typed, Doubts
<1>mv. ASSUME NEW from, from # "idle", NEW to \in SendPcs \ {"idle"}, Go(s, from, to)
       PROVE  /\ at[s].pc = from /\ at'[s].pc = to /\ at'[s].mail = m
              /\ \A t \in Senders \ {s} : at'[t] = at[t]
  BY <1>mv, <1>m, MoveTyped
<1>end. ASSUME at' = [at EXCEPT ![s] = Rest]
        PROVE  /\ at'[s].pc = "idle" /\ at'[s].mail = None
               /\ \A t \in Senders \ {s} : at'[t] = at[t]
  BY <1>2, <1>end, RestIsIdle
<1>3. CASE ReadDelivery(s)
  <2>1. /\ Go(s, "read", IF AlreadySent(m) THEN "return" ELSE "decide")
        /\ UNCHANGED <<delivery, accepted, doubt>>
    BY <1>3, <1>m DEF ReadDelivery, ghosts
  <2>2. /\ at[s].pc = "read" /\ at'[s].mail = m
        /\ at'[s].pc = IF AlreadySent(m) THEN "return" ELSE "decide"
        /\ \A t \in Senders \ {s} : at'[t] = at[t]
    BY <2>1, <1>mv DEF SendPcs
  <2>3. DoubtFor(m)'
    <3>1. CASE AlreadySent(m)
      BY <3>1, <2>1, <2>2, <1>1, <1>2, <1>m, RunDoubt
    <3>2. CASE ~AlreadySent(m)
      <4>1. delivery[m] # "sent" /\ PastRead(s)'
        BY <3>2, <2>2 DEF AlreadySent, PastRead
      <4>2. QED BY <4>1, <2>1, <2>2, <1>1, <1>2, <1>m, RunDoubt
    <3>3. QED BY <3>1, <3>2
  <2>4. QED BY <2>1, <2>2, <2>3, <1>1, <1>2, <1>m, RunDoubts
<1>4. ASSUME Decide(s) \/ MarkSending(s) \/ NoProvider(s) \/ MarkFailed(s) PROVE Doubts'
  <2>1. PICK from \in {"decide", "mark", "send", "fail"},
             to \in {"mark", "disable", "skip", "send", "dead"} : Go(s, from, to)
    BY <1>4 DEF Decide, MarkSending, NoProvider, MarkFailed
  <2>2. /\ at[s].pc = from /\ at'[s].pc = to /\ at'[s].mail = m
        /\ \A t \in Senders \ {s} : at'[t] = at[t]
    BY <2>1, <1>mv DEF SendPcs
  <2>3. /\ UNCHANGED <<accepted, doubt>>
        /\ \A n \in Mails \ {m} : delivery'[n] = delivery[n]
        /\ delivery'[m] = delivery[m] \/ delivery'[m] # "sent"
    BY <1>2, <1>4, <1>m DEF Decide, MarkSending, NoProvider, MarkFailed, Failing, ghosts
  <2>4. PastRead(s) /\ PastRead(s)'
    BY <2>2 DEF PastRead
  <2>5. DoubtFor(m)'
    BY <2>2, <2>3, <2>4, <1>1, <1>2, <1>m, RunDoubt
  <2>6. QED BY <2>2, <2>3, <2>5, <1>1, <1>2, <1>m, RunDoubts
<1>5. CASE HoldBack(s)
  <2>1. PICK from \in {"disable", "skip"} : Go(s, from, "return")
    BY <1>5 DEF HoldBack
  <2>2. /\ at[s].pc = from /\ at'[s].pc = "return" /\ at'[s].mail = m
        /\ \A t \in Senders \ {s} : at'[t] = at[t]
    BY <2>1, <1>mv DEF SendPcs
  <2>3. /\ UNCHANGED <<accepted, doubt>>
        /\ \A n \in Mails \ {m} : delivery'[n] = delivery[n]
        /\ delivery'[m] # "sent"
    BY <1>2, <1>5, <1>m DEF HoldBack, ghosts
  <2>4. PastRead(s)
    BY <2>2 DEF PastRead
  <2>5. DoubtFor(m)'
    BY <2>2, <2>3, <2>4, <1>1, <1>2, <1>m, RunDoubt
  <2>6. QED BY <2>2, <2>3, <2>5, <1>1, <1>2, <1>m, RunDoubts
<1>6. CASE Provider(s)
  <2>1. /\ UNCHANGED delivery
        /\ \/ Go(s, "send", "sent") /\ accepted' = [accepted EXCEPT ![m] = accepted[m] + 1] /\ doubt' = doubt
           \/ Go(s, "send", "fail") /\ accepted' = accepted /\ doubt' = doubt
           \/ /\ Go(s, "send", "fail") /\ accepted' = [accepted EXCEPT ![m] = accepted[m] + 1]
              /\ Doubted(m, TRUE)
    BY <1>6, <1>m DEF Provider
  <2>2. CASE Go(s, "send", "sent") /\ accepted' = [accepted EXCEPT ![m] = accepted[m] + 1] /\ doubt' = doubt
    <3>1. /\ at[s].pc = "send" /\ at'[s].pc = "sent" /\ at'[s].mail = m
          /\ \A t \in Senders \ {s} : at'[t] = at[t]
      BY <2>2, <1>mv DEF SendPcs
    <3>2. /\ accepted'[m] = accepted[m] + 1 /\ PastRead(s)
          /\ \A n \in Mails \ {m} : accepted'[n] = accepted[n]
      BY <2>2, <3>1, <1>2 DEF PastRead
    <3>3. DoubtFor(m)'
      BY <2>1, <2>2, <3>1, <3>2, <1>1, <1>2, <1>m, RunDoubt
    <3>4. QED BY <2>1, <2>2, <3>1, <3>2, <3>3, <1>1, <1>2, <1>m, RunDoubts
  <2>3. CASE Go(s, "send", "fail") /\ accepted' = accepted /\ doubt' = doubt
    <3>1. /\ at[s].pc = "send" /\ at'[s].pc = "fail" /\ at'[s].mail = m
          /\ \A t \in Senders \ {s} : at'[t] = at[t]
      BY <2>3, <1>mv DEF SendPcs
    <3>2. PastRead(s) /\ PastRead(s)'
      BY <3>1 DEF PastRead
    <3>3. DoubtFor(m)'
      BY <2>1, <2>3, <3>1, <3>2, <1>1, <1>2, <1>m, RunDoubt
    <3>4. QED BY <2>1, <2>3, <3>1, <3>3, <1>1, <1>2, <1>m, RunDoubts
  <2>4. CASE /\ Go(s, "send", "fail") /\ accepted' = [accepted EXCEPT ![m] = accepted[m] + 1]
             /\ Doubted(m, TRUE)
    <3>1. /\ at[s].pc = "send" /\ at'[s].pc = "fail" /\ at'[s].mail = m
          /\ \A t \in Senders \ {s} : at'[t] = at[t]
      BY <2>4, <1>mv DEF SendPcs
    <3>2. /\ accepted'[m] = accepted[m] + 1 /\ PastRead(s) /\ PastRead(s)'
          /\ \A n \in Mails \ {m} : accepted'[n] = accepted[n]
      BY <2>4, <3>1, <1>2 DEF PastRead
    <3>3. doubt'[m] = doubt[m] + 1 /\ \A n \in Mails \ {m} : doubt'[n] = doubt[n]
      BY <2>4, <1>2, DoubtedAdds
    <3>4. DoubtFor(m)'
      BY <2>1, <3>1, <3>2, <3>3, <1>1, <1>2, <1>m, RunDoubt
    <3>5. QED BY <2>1, <3>1, <3>2, <3>3, <3>4, <1>1, <1>2, <1>m, RunDoubts
  <2>5. QED BY <2>1, <2>2, <2>3, <2>4
<1>7. CASE MarkSent(s)
  <2>1. /\ Go(s, "sent", "return") /\ UNCHANGED <<accepted, doubt>>
        /\ delivery' = [delivery EXCEPT ![m] = "sent"]
    BY <1>7, <1>m DEF MarkSent, ghosts
  <2>2. /\ at[s].pc = "sent" /\ at'[s].pc = "return" /\ at'[s].mail = m
        /\ \A t \in Senders \ {s} : at'[t] = at[t]
    BY <2>1, <1>mv DEF SendPcs
  <2>3. delivery'[m] = "sent" /\ \A n \in Mails \ {m} : delivery'[n] = delivery[n]
    BY <2>1, <1>2
  <2>4. DoubtFor(m)'
    BY <2>1, <2>2, <2>3, <1>1, <1>2, <1>m, RunDoubt
  <2>5. QED BY <2>1, <2>2, <2>3, <2>4, <1>1, <1>2, <1>m, RunDoubts
<1>8. ASSUME RecordDlq(s) \/ Return(s) \/ DeliverThrows(s) \/ Die(s) PROVE Doubts'
  <2>1. /\ at' = [at EXCEPT ![s] = Rest] /\ UNCHANGED <<delivery, accepted>>
        /\ (doubt' = doubt /\ at[s].pc # "sent") \/ Doubted(m, at[s].pc = "sent")
    BY <1>8, <1>m DEF RecordDlq, Return, DeliverThrows, Die, ghosts
  <2>2. /\ at'[s].pc = "idle" /\ at'[s].mail = None
        /\ \A t \in Senders \ {s} : at'[t] = at[t]
    BY <2>1, <1>end
  <2>3. /\ doubt'[m] = IF at[s].pc = "sent" THEN doubt[m] + 1 ELSE doubt[m]
        /\ \A n \in Mails \ {m} : doubt'[n] = doubt[n]
    BY <2>1, <1>2, DoubtedAdds
  <2>4. DoubtFor(m)'
    BY <2>1, <2>2, <2>3, <1>1, <1>2, <1>m, RunDoubt
  <2>5. QED BY <2>1, <2>2, <2>3, <2>4, <1>1, <1>2, <1>m, RunDoubts
<1>9. QED BY <1>3, <1>4, <1>5, <1>6, <1>7, <1>8 DEF DeliverStep

\* A run that begins is alone with its mail, or is a doubt of its own.
LEMMA StartDoubts ==
  ASSUME MailInv, Doubts, NEW s \in Senders, NEW m \in Mails, NEW via, Start(s, m, via)
  PROVE  Doubts'
<1>1. /\ at[s] = Rest /\ at' = [at EXCEPT ![s] = [pc |-> "read", mail |-> m, via |-> via]]
      /\ UNCHANGED <<delivery, accepted>> /\ Doubted(m, Busy(m) # {})
      /\ at \in [Senders -> AtType] /\ Typed
      /\ accepted[m] \in Nat /\ doubt[m] \in Nat /\ DoubtFor(m)
  BY DEF Start, MailInv, Typed, Doubts
<1>2. /\ at'[s].pc = "read" /\ at'[s].mail = m
      /\ \A t \in Senders \ {s} : at'[t] = at[t]
  BY <1>1
<1>3. /\ doubt'[m] = IF Busy(m) # {} THEN doubt[m] + 1 ELSE doubt[m]
      /\ \A n \in Mails \ {m} : doubt'[n] = doubt[n]
  BY <1>1, DoubtedAdds
<1>4. /\ MayAdd(m) \in Nat /\ MayAdd(m)' = MayAdd(m) + 1
  <2>1. s \notin Trying(m) /\ s \in Trying(m)'
    BY <1>1, <1>2, RestIsIdle DEF Trying
  <2>2. QED BY <2>1, <1>2, Counting
<1>5. (Past(m)' <=> Past(m)) /\ (Sending(m)' <=> Sending(m))
  BY <1>1, <1>2, RestIsIdle DEF Past, PastRead, Sending
<1>6. Busy(m) = {} => ~Past(m) /\ ~Sending(m) /\ MayAdd(m) = 0
  <2>1. Busy(m) = {} => ~Past(m) /\ ~Sending(m) /\ Trying(m) = {}
    BY DEF Busy, Past, Sending, Trying
  <2>2. QED BY <2>1, FS_EmptySet DEF MayAdd
<1>7. DoubtFor(m)'
  <2>1. CASE Busy(m) = {}
    BY <2>1, <1>1, <1>3, <1>4, <1>5, <1>6 DEF DoubtFor
  <2>2. CASE Busy(m) # {}
    BY <2>2, <1>1, <1>3, <1>4, <1>5 DEF DoubtFor
  <2>3. QED BY <2>1, <2>2
<1>8. ASSUME NEW n \in Mails, n # m PROVE DoubtFor(n)'
  <2>1. at[s].mail # n /\ at'[s].mail # n
    BY <1>1, <1>2, <1>8, RestIsIdle, MailAssumption
  <2>2. QED BY <2>1, <1>1, <1>2, <1>3, <1>8, OthersDoubt DEF Doubts
<1>9. QED BY <1>7, <1>8 DEF Doubts

\* A write of the row beside the runs: over a success it is a doubt.
LEMMA WriteDoubts ==
  ASSUME Typed, Typed', Doubts, NEW m \in Mails, NEW v, UNCHANGED <<at, accepted>>,
         delivery' = [delivery EXCEPT ![m] = v],
         \A n \in Mails \ {m} : doubt'[n] = doubt[n],
         \/ doubt'[m] = doubt[m] + 1
         \/ doubt'[m] = doubt[m] /\ (v = "sent" \/ (accepted[m] = 0 /\ Busy(m) = {}))
  PROVE  Doubts'
<1>1. \A n \in Mails : /\ MayAdd(n)' = MayAdd(n) /\ (Past(n)' <=> Past(n))
                       /\ (Sending(n)' <=> Sending(n))
  BY DEF MayAdd, Trying, Past, PastRead, Sending
<1>2. \A n \in Mails : delivery'[n] = IF n = m THEN v ELSE delivery[n]
  BY DEF Typed
<1>3. \A n \in Mails \ {m} : DoubtFor(n)'
  BY <1>1, <1>2 DEF DoubtFor, Doubts
<1>4. accepted[m] \in Nat /\ doubt[m] \in Nat /\ MayAdd(m) \in Nat
  <2>1. MayAdd(m) \in Nat
    BY FiniteTrying DEF MayAdd, Trying
  <2>2. QED BY <2>1 DEF Typed
<1>5. Busy(m) = {} => MayAdd(m) = 0
  <2>1. Busy(m) = {} => Trying(m) = {}
    BY DEF Busy, Trying
  <2>2. QED BY <2>1, FS_EmptySet DEF MayAdd
<1>6. DoubtFor(m)'
  <2>1. CASE doubt'[m] = doubt[m] + 1
    BY <2>1, <1>1, <1>2, <1>4 DEF DoubtFor, Doubts
  <2>2. CASE doubt'[m] = doubt[m] /\ v = "sent"
    BY <2>2, <1>1, <1>2, <1>4 DEF DoubtFor, Doubts
  <2>3. CASE doubt'[m] = doubt[m] /\ accepted[m] = 0 /\ Busy(m) = {}
    BY <2>3, <1>1, <1>2, <1>4, <1>5 DEF DoubtFor, Doubts
  <2>4. QED BY <2>1, <2>2, <2>3
<1>7. QED BY <1>3, <1>6 DEF Doubts

LEMMA SameDoubts ==
  ASSUME Doubts, UNCHANGED <<delivery, at, accepted, doubt>>
  PROVE  Doubts'
BY DEF Doubts, DoubtFor, MayAdd, Trying, Past, PastRead, Sending

\* In any composition, each mail beyond the first is owed to a doubt of its
\* own.
THEOREM DoubtsKeep == MailInv /\ MailInv' /\ Doubts /\ MailNext => Doubts'
<1> SUFFICES ASSUME MailInv, MailInv', Doubts, MailNext PROVE Doubts'
  OBVIOUS
<1>1. ASSUME NEW c \in Callers, SendStep(c) \/ QueueFails(c) \/ SendThrows(c) PROVE Doubts'
  <2>1. CASE FindKey(c) \/ QueueMail(c) \/ RecordUnqueued(c) \/ QueueFails(c) \/ SendThrows(c)
    <3>1. UNCHANGED <<delivery, at, accepted, doubt>>
      BY <2>1 DEF FindKey, QueueMail, RecordUnqueued, QueueFails, SendThrows, PostStep
    <3>2. QED BY <3>1, SameDoubts
  <2>2. CASE CreateDelivery(c)
    <3> DEFINE m == post[c].mail
    <3>1. UNCHANGED <<at, accepted, doubt>>
      BY <2>2 DEF CreateDelivery, PostStep
    <3>2. CASE delivery' = delivery
      BY <3>1, <3>2, SameDoubts
    <3>3. CASE delivery' # delivery
      <4>1. delivery[m] = "none" /\ delivery' = [delivery EXCEPT ![m] = "queued"]
        BY <2>2, <3>3 DEF CreateDelivery, Taken
      <4>2. m \in Mails
        BY <2>2, RestIsIdle DEF CreateDelivery, PostStep, MailInv, Typed, PostType
      <4>3. accepted[m] = 0
        BY <4>1, <4>2 DEF MailInv, QueueHolds
      <4>4. Busy(m) = {}
        BY <4>1, <4>2, RunTyped, RestIsIdle, MailAssumption DEF Busy, MailInv, Typed, AtType, RunHolds
      <4>5. QED BY <3>1, <4>1, <4>2, <4>3, <4>4, WriteDoubts DEF MailInv
    <3>4. QED BY <3>2, <3>3
  <2>3. CASE MarkUnqueued(c)
    <3> DEFINE m == post[c].mail
    <3>1. /\ UNCHANGED <<at, accepted>> /\ delivery' = [delivery EXCEPT ![m] = "failed"]
          /\ Doubted(m, Busy(m) # {} \/ accepted[m] > 0)
      BY <2>3 DEF MarkUnqueued, PostStep
    <3>2. m \in Mails /\ Typed /\ Typed' /\ accepted[m] \in Nat
      BY <2>3, RestIsIdle DEF MarkUnqueued, PostStep, MailInv, Typed, PostType
    <3>3. /\ \A n \in Mails \ {m} : doubt'[n] = doubt[n]
          /\ doubt'[m] = doubt[m] + 1 \/ (doubt'[m] = doubt[m] /\ accepted[m] = 0 /\ Busy(m) = {})
      <4> DEFINE cause == Busy(m) # {} \/ accepted[m] > 0
      <4>1. /\ \A n \in Mails \ {m} : doubt'[n] = doubt[n]
            /\ doubt'[m] = IF cause THEN doubt[m] + 1 ELSE doubt[m]
        BY <3>1, <3>2, DoubtedAdds
      <4>2. ~cause => accepted[m] = 0 /\ Busy(m) = {}
        BY <3>2
      <4> HIDE DEF cause
      <4>3. QED BY <4>1, <4>2
    <3>4. QED BY <3>1, <3>2, <3>3, WriteDoubts
  <2>4. QED BY <1>1, <2>1, <2>2, <2>3 DEF SendStep
<1>2. ASSUME NEW s \in Senders, DeliverStep(s) \/ DeliverThrows(s) \/ Die(s) PROVE Doubts'
  BY <1>2, MoveDoubts
<1>3. ASSUME NEW s \in Workers, NEW m \in Mails, TakeJob(s, m) PROVE Doubts'
  BY <1>3, StartDoubts DEF TakeJob, Senders
<1>4. ASSUME Administer PROVE Doubts'
  <2>1. ASSUME NEW s \in Admins, NEW m \in Mails, RetryDelivery(s, m) \/ RetryDlq(s, m) PROVE Doubts'
    BY <2>1, StartDoubts DEF RetryDelivery, RetryDlq, Senders
  <2>2. ASSUME NEW m \in Mails, DiscardDlq(m) \/ PatchSettings PROVE Doubts'
    BY <2>2, SameDoubts DEF DiscardDlq, PatchSettings, ghosts
  <2>3. PatchSettings => Doubts'
    BY SameDoubts DEF PatchSettings, ghosts
  <2>4. QED BY <1>4, <2>1, <2>2, <2>3 DEF Administer
<1>5. QED BY <1>1, <1>2, <1>3, <1>4 DEF MailNext

\* What that says of the mails that went out.
THEOREM DoubtsMean == Doubts => SentOncePerDoubt
BY DEF Doubts, DoubtFor, SentOncePerDoubt
=============================================================================
