----------------------------- MODULE WebhookInbox -----------------------------
(***************************************************************************)
(* Shopify order webhooks: ShopifyWebhookIngestService stores each webhook *)
(* under its dedupe key, claims it with a conditional update, upserts the  *)
(* order, sends the mails it calls for and marks it processed.  Composed   *)
(* with MailDelivery: a request that comes to a mail calls                 *)
(* sendTransactional and goes on when that returns.                        *)
(* Shopify sends a webhook until it gets a 200, may stop waiting for an    *)
(* answer and send again, and may send again what was answered.            *)
(* Left out: signatures, the mapping of an order into its row, topics      *)
(* beyond the mails they lead to.                                          *)
(* Ghosts: orders, early, orphaned.  MaxRepeats bounds Shopify's           *)
(* impatience.                                                             *)
(***************************************************************************)
EXTENDS MailDelivery, Sequences

CONSTANTS Webhooks,   \* dedupe keys
          MailsOf,    \* the mails a webhook calls for, in order
          MaxRepeats

ASSUME InboxAssumption ==
    /\ None \notin Webhooks
    /\ MailsOf \in [Webhooks -> Seq(Mails)]
    /\ MaxRepeats \in Nat

VARIABLES
    inbox,     \* table shopify_webhook_inbox: the status of a row
    hook,      \* requests of Shopify
    owed,      \* what Shopify still has to do: "due", "sent" or "answered"
    repeats,
    orders,    \* ghost: webhooks whose order was upserted
    early,     \* ghost: answered as a duplicate of a request still at work
    orphaned   \* ghost: left processing by a death or a failed update

vars == <<mailVars, inbox, hook, owed, repeats, orders, early, orphaned>>

NoHook == [pc |-> "idle", web |-> None, next |-> 1, heard |-> FALSE]

Init ==
    /\ MailInit
    /\ inbox = [w \in Webhooks |-> "none"]
    /\ hook = [c \in Callers |-> NoHook]
    /\ owed = [w \in Webhooks |-> "due"]
    /\ repeats = MaxRepeats
    /\ orders = {} /\ early = {} /\ orphaned = {}

Web(c) == hook[c].web
HookStep(c, from, to) ==
    /\ hook[c].pc = from
    /\ hook' = [hook EXCEPT ![c].pc = to]

-----------------------------------------------------------------------------
(* Shopify.                                                                *)

Deliver(c, w) ==
    /\ hook[c] = NoHook
    /\ owed[w] = "due"
    /\ hook' = [hook EXCEPT ![c] = [pc |-> "find", web |-> w, next |-> 1, heard |-> TRUE]]
    /\ owed' = [owed EXCEPT ![w] = "sent"]
    /\ UNCHANGED <<mailVars, inbox, repeats, orders, early, orphaned>>

\* Shopify stops waiting for the answer and will send the webhook again.
Impatience(c) ==
    /\ hook[c].heard
    /\ repeats > 0 /\ repeats' = repeats - 1
    /\ hook' = [hook EXCEPT ![c].heard = FALSE]
    /\ owed' = [owed EXCEPT ![Web(c)] = "due"]
    /\ UNCHANGED <<mailVars, inbox, orders, early, orphaned>>

SendAgain(w) ==
    /\ owed[w] = "answered"
    /\ repeats > 0 /\ repeats' = repeats - 1
    /\ owed' = [owed EXCEPT ![w] = "due"]
    /\ UNCHANGED <<mailVars, inbox, hook, orders, early, orphaned>>

\* The request ends with a 200 or an error, which nobody may hear any more.
Answer(c, ok) ==
    /\ hook' = [hook EXCEPT ![c] = NoHook]
    /\ owed' = IF hook[c].heard
               THEN [owed EXCEPT ![Web(c)] = IF ok THEN "answered" ELSE "due"]
               ELSE owed

-----------------------------------------------------------------------------
(* processVerifiedWebhook.                                                 *)

FindRow(c) ==
    /\ HookStep(c, "find", IF inbox[Web(c)] = "none" THEN "create" ELSE "claim")
    /\ UNCHANGED <<mailVars, inbox, owed, repeats, orders, early, orphaned>>

\* the loser of the unique key reads the winner's row
CreateRow(c) ==
    /\ HookStep(c, "create", "claim")
    /\ inbox' = [inbox EXCEPT ![Web(c)] = IF @ = "none" THEN "received" ELSE @]
    /\ UNCHANGED <<mailVars, owed, repeats, orders, early, orphaned>>

MutClaimable(w) == inbox[w] # "processed"
Claimable(w) == inbox[w] \in {"received", "failed"}

ClaimRow(c) ==
    LET w == Web(c)
    IN  /\ hook[c].pc = "claim"
        /\ IF Claimable(w)
           THEN /\ HookStep(c, "claim", "ingest")
                /\ inbox' = [inbox EXCEPT ![w] = "processing"]
                /\ UNCHANGED <<owed, early>>
           ELSE /\ Answer(c, TRUE)
                /\ early' = early \cup IF inbox[w] = "processing" THEN {w} ELSE {}
                /\ UNCHANGED inbox
        /\ UNCHANGED <<mailVars, repeats, orders, orphaned>>

IngestOrder(c) ==
    /\ HookStep(c, "ingest", "mail")
    /\ orders' = orders \cup {Web(c)}
    /\ UNCHANGED <<mailVars, inbox, owed, repeats, early, orphaned>>

MutHasMore(c) == hook[c].next < Len(MailsOf[Web(c)])
HasMore(c) == hook[c].next <= Len(MailsOf[Web(c)])

SendMail(c) ==
    /\ HookStep(c, "mail", "mailing")
    /\ HasMore(c)
    /\ BeginSend(c, MailsOf[Web(c)][hook[c].next])
    /\ UNCHANGED <<inbox, owed, repeats, orders, early, orphaned>>

EndMail(c) ==
    /\ hook[c].pc = "mailing"
    /\ post[c].pc \in {"returned", "thrown"}
    /\ post' = [post EXCEPT ![c] = Quit]
    /\ hook' = [hook EXCEPT ![c].pc = IF post[c].pc = "returned" THEN "mail" ELSE "fail",
                            ![c].next = @ + 1]
    /\ UNCHANGED <<delivery, job, dlq, settings, at, faults, manual, ghosts,
                   inbox, owed, repeats, orders, early, orphaned>>

MarkProcessed(c) ==
    /\ hook[c].pc = "mail" /\ ~HasMore(c)
    /\ inbox' = [inbox EXCEPT ![Web(c)] = "processed"]
    /\ Answer(c, TRUE)
    /\ UNCHANGED <<mailVars, repeats, orders, early, orphaned>>

MutFailedStatus == "processing"
FailedStatus == "failed"

FailRow(c) ==
    /\ hook[c].pc = "fail"
    /\ inbox' = [inbox EXCEPT ![Web(c)] = FailedStatus]
    /\ Answer(c, FALSE)
    /\ UNCHANGED <<mailVars, repeats, orders, early, orphaned>>

Idle == <<delivery, job, dlq, settings, post, at, manual, ghosts>>

\* A query throws: before the claim and in the handler of an error the
\* request fails, in between its row does.
HookThrows(c) ==
    /\ Fault
    /\ \/ /\ hook[c].pc \in {"find", "create", "claim", "fail"}
          /\ Answer(c, FALSE)
          /\ orphaned' = orphaned \cup IF hook[c].pc = "fail" THEN {Web(c)} ELSE {}
       \/ /\ \/ HookStep(c, "ingest", "fail")
             \/ HookStep(c, "mail", "fail") /\ ~HasMore(c)
          /\ UNCHANGED <<owed, orphaned>>
    /\ UNCHANGED <<Idle, inbox, repeats, orders, early>>

\* The process of a request dies, in or outside sendTransactional.
HookDies(c) ==
    /\ hook[c].pc # "idle"
    /\ Fault
    /\ Answer(c, FALSE)
    /\ post' = [post EXCEPT ![c] = Quit]
    /\ unrecorded' = unrecorded \cup Uncertain(c)
    /\ orphaned' = orphaned \cup
          IF hook[c].pc \in {"ingest", "mail", "mailing", "fail"} THEN {Web(c)} ELSE {}
    /\ UNCHANGED <<delivery, job, dlq, settings, at, manual, accepted, doubt,
                   inbox, repeats, orders, early>>

HandlerStep(c) ==
    \/ FindRow(c) \/ CreateRow(c) \/ ClaimRow(c) \/ IngestOrder(c) \/ SendMail(c)
    \/ EndMail(c) \/ MarkProcessed(c) \/ FailRow(c)

InMail == MailNext /\ UNCHANGED <<inbox, hook, owed, repeats, orders, early, orphaned>>

Next ==
    \/ \E c \in Callers, w \in Webhooks : Deliver(c, w)
    \/ \E c \in Callers : Impatience(c) \/ HandlerStep(c) \/ HookThrows(c) \/ HookDies(c)
    \/ \E w \in Webhooks : SendAgain(w)
    \/ InMail

Spec == Init /\ [][Next]_vars

\* A started request goes on, and Shopify sends what it owes when a process
\* is free to take it.
FairSpec ==
    /\ Spec
    /\ \A c \in Callers :
          /\ WF_vars(HandlerStep(c))
          /\ WF_vars(SendStep(c) /\ UNCHANGED <<inbox, hook, owed, repeats, orders, early, orphaned>>)
    /\ \A w \in Webhooks : SF_vars(\E c \in Callers : Deliver(c, w))

-----------------------------------------------------------------------------
(* Properties.                                                             *)

TypeOK ==
    /\ MailTypeOK
    /\ inbox \in [Webhooks -> {"none", "received", "processing", "processed", "failed"}]
    /\ hook \in [Callers -> [pc : {"idle", "find", "create", "claim", "ingest", "mail",
                                   "mailing", "fail"},
                             web : Webhooks \cup {None}, next : Nat, heard : BOOLEAN]]
    /\ owed \in [Webhooks -> {"due", "sent", "answered"}]
    /\ repeats \in 0..MaxRepeats
    /\ orders \subseteq Webhooks /\ early \subseteq Webhooks /\ orphaned \subseteq Webhooks

Owning(c) == hook[c].pc \in {"ingest", "mail", "mailing", "fail"}

\* A webhook is processed by one request at a time, and while it is, its row
\* says so (shopify-webhook-ingest.service.ts:113).
ClaimedOnce ==
    \A c \in Callers : Owning(c) =>
        /\ inbox[Web(c)] = "processing"
        /\ \A d \in Callers \ {c} : Owning(d) => Web(d) # Web(c)

\* A processed webhook has its order, and each of its mails is queued, about
\* to be queued by another webhook's request, or a recorded failure.
ProcessedMeansDone ==
    \A w \in Webhooks : inbox[w] = "processed" =>
        /\ w \in orders
        /\ \A i \in 1..Len(MailsOf[w]) : Accounted(MailsOf[w][i])

\* The row failed after a second request was answered as its duplicate, so
\* that Shopify has nothing left to send.
Abandoned(w) == w \in early /\ inbox[w] = "failed" /\ owed[w] = "answered"

\* Every webhook ends processed, unless it is abandoned so or a death (or an
\* error while its failure is recorded) left its row processing for good
\* (shopify-webhook-ingest.service.ts:107-147).
WebhookSettles ==
    \A w \in Webhooks : <>(inbox[w] = "processed" \/ Abandoned(w) \/ w \in orphaned)
=============================================================================
