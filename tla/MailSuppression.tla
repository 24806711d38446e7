---------------------------- MODULE MailSuppression ----------------------------
(***************************************************************************)
(* Who may be mailed.  A contact is reachable for marketing when its       *)
(* isSendable flag is set, it has not unsubscribed and no active           *)
(* suppression row concerns it.  Staff add and lift suppressions, provider *)
(* events suppress, recipients unsubscribe, staff record a consent or name *)
(* a contact in a manual audience.  Each of these is several queries       *)
(* without a transaction or a lock: one action per query.                  *)
(* Left out: the creation of a contact (the contacts of a frozen audience  *)
(* exist), expiry dates, suppressions of one campaign, flow or template,   *)
(* or of a category that is not marketing: they concern no such mail.      *)
(* Ghosts: barred, torn.  Bounds: Rows, MaxRequests.                       *)
(* Definitions named Mut... are seeded faults, not the code's behaviour.   *)
(***************************************************************************)
EXTENDS Naturals, FiniteSets

CONSTANTS Contacts, Rows, Clerks, None, MaxRequests, MaxFaults

ASSUME SuppressionAssumption ==
    /\ None \notin Rows \cup Contacts
    /\ MaxRequests \in Nat /\ MaxFaults \in Nat

VARIABLES
    sendable,    \* mail_contacts.isSendable
    consent,     \* table mail_consent_states, category marketing
    supp,        \* table mail_suppressions
    latest,      \* the row of a contact and a scope that was updated last
    clerk,       \* requests: what they do, to whom, where they are
    requests, faults,
    barred,      \* ghost: contacts suppressed or unsubscribed, not lifted since
    torn         \* ghost: contacts a request died on

Scopes == {"global", "marketing"}
Free == [contact |-> None, scope |-> "global", active |-> FALSE]
Away == [op |-> "none", pc |-> "idle", contact |-> None, row |-> None]

suppVars == <<sendable, consent, supp, latest, clerk, requests, faults, barred, torn>>

SuppInit ==
    /\ sendable = [c \in Contacts |-> TRUE]
    /\ consent = [c \in Contacts |-> "unknown"]
    /\ supp = [r \in Rows |-> Free]
    /\ latest = [c \in Contacts |-> [s \in Scopes |-> None]]
    /\ clerk = [k \in Clerks |-> Away]
    /\ requests = MaxRequests /\ faults = MaxFaults
    /\ barred = [c \in Contacts |-> {}]
    /\ torn = {}

RowsOf(c, scope) == {r \in Rows : supp[r].contact = c /\ supp[r].scope = scope}
ActiveOf(c, scope) == {r \in RowsOf(c, scope) : supp[r].active}

MutReachable(c) == sendable[c] /\ consent[c] # "unsubscribed"
Reachable(c) ==
    /\ sendable[c]
    /\ consent[c] # "unsubscribed"
    /\ \A scope \in Scopes : ActiveOf(c, scope) = {}

Request == requests > 0 /\ requests' = requests - 1
At(k, op, pc) == clerk[k].op = op /\ clerk[k].pc = pc
Goto(k, pc) == clerk' = [clerk EXCEPT ![k].pc = pc]
Done(k) == clerk' = [clerk EXCEPT ![k] = Away]

Ask(k, op, pc, c, r) ==
    /\ clerk[k] = Away
    /\ Request
    /\ clerk' = [clerk EXCEPT ![k] = [op |-> op, pc |-> pc, contact |-> c, row |-> r]]
    /\ UNCHANGED <<sendable, consent, supp, latest, faults, barred, torn>>

AskAdd(k, c) == Ask(k, "add", "start", c, None)
\* staff suppress a contact for the category: its flag stays as it is
AskBlock(k, c) == Ask(k, "block", "look", c, None)
AskBounce(k, c) == Ask(k, "bounce", "start", c, None)
AskOptOut(k, c) == Ask(k, "optout", "start", c, None)
AskLift(k, r) == supp[r] # Free /\ Ask(k, "lift", "start", supp[r].contact, r)

-----------------------------------------------------------------------------
(* A suppression is written: first the flag or the consent, then the row,  *)
(* the one it finds or a new one.                                          *)

ScopeOf(k) == IF clerk[k].op \in {"optout", "block"} THEN "marketing" ELSE "global"

ClearFlag(k) ==
    /\ At(k, "add", "start") \/ At(k, "bounce", "start")
    /\ sendable' = [sendable EXCEPT ![clerk[k].contact] = FALSE]
    /\ Goto(k, "look")
    /\ UNCHANGED <<consent, supp, latest, requests, faults, barred, torn>>

RecordOptOut(k) ==
    /\ At(k, "optout", "start")
    /\ consent' = [consent EXCEPT ![clerk[k].contact] = "unsubscribed"]
    /\ Goto(k, "look")
    /\ UNCHANGED <<sendable, supp, latest, requests, faults, barred, torn>>

\* staff look for an active row, the others for the one updated last
Found(k) ==
    LET c == clerk[k].contact
        active == ActiveOf(c, ScopeOf(k))
    IN  IF clerk[k].op \notin {"add", "block"} THEN {latest[c][ScopeOf(k)]}
        ELSE IF active # {} THEN active ELSE {None}

LookForRow(k) ==
    /\ clerk[k].pc = "look"
    /\ \E r \in Found(k) : clerk' = [clerk EXCEPT ![k].row = r, ![k].pc = "write"]
    /\ UNCHANGED <<sendable, consent, supp, latest, requests, faults, barred, torn>>

Written(k, r) == [contact |-> clerk[k].contact, scope |-> ScopeOf(k), active |-> TRUE]

\* the row it found, or a new one
Target(k) == IF clerk[k].row # None THEN {clerk[k].row} ELSE {r \in Rows : supp[r] = Free}

WriteRow(k) ==
    LET c == clerk[k].contact
    IN  /\ clerk[k].pc = "write"
        /\ \E r \in Target(k) :
              /\ supp' = [supp EXCEPT ![r] = Written(k, r)]
              /\ latest' = [latest EXCEPT ![c] = [latest[c] EXCEPT ![ScopeOf(k)] = r]]
        /\ barred' = [barred EXCEPT ![c] = barred[c] \cup {ScopeOf(k)}]
        /\ Done(k)
        /\ UNCHANGED <<sendable, consent, requests, faults, torn>>

-----------------------------------------------------------------------------
(* unsuppress: the row is switched off, then the other active rows are     *)
(* counted, then the flag is set.                                          *)

SwitchOff(k) ==
    LET c == clerk[k].contact
        r == clerk[k].row
    IN  /\ At(k, "lift", "start")
        /\ supp' = [supp EXCEPT ![r].active = FALSE]
        /\ latest' = [latest EXCEPT ![c] = [latest[c] EXCEPT ![supp[r].scope] = r]]
        /\ barred' = [barred EXCEPT ![c] = barred[c] \ {supp[r].scope}]
        /\ IF supp[r].scope = "global" THEN Goto(k, "count") ELSE Done(k)
        /\ UNCHANGED <<sendable, consent, requests, faults, torn>>

MutOthers(k) == RowsOf(clerk[k].contact, "global")
Others(k) == ActiveOf(clerk[k].contact, "global") \ {clerk[k].row}

CountOthers(k) ==
    /\ At(k, "lift", "count")
    /\ IF Others(k) = {} THEN Goto(k, "flag") ELSE Done(k)
    /\ UNCHANGED <<sendable, consent, supp, latest, requests, faults, barred, torn>>

SetFlag(k) ==
    /\ At(k, "lift", "flag")
    /\ sendable' = [sendable EXCEPT ![clerk[k].contact] = TRUE]
    /\ Done(k)
    /\ UNCHANGED <<consent, supp, latest, requests, faults, barred, torn>>

-----------------------------------------------------------------------------
(* Requests of one query, and death.                                       *)

\* updateContactConsent: staff record that the contact subscribed
RecordConsent(c) ==
    /\ Request
    /\ consent[c] = "unsubscribed"
    /\ consent' = [consent EXCEPT ![c] = "subscribed"]
    /\ UNCHANGED <<sendable, supp, latest, clerk, faults, barred, torn>>

\* ensureManualAudienceContacts
NameInAudience(c) ==
    /\ Request
    /\ sendable' = [sendable EXCEPT ![c] = TRUE]
    /\ UNCHANGED <<consent, supp, latest, clerk, faults, barred, torn>>

ClerkDies(k) ==
    /\ clerk[k].pc # "idle"
    /\ faults > 0 /\ faults' = faults - 1
    /\ torn' = torn \cup {clerk[k].contact}
    /\ Done(k)
    /\ UNCHANGED <<sendable, consent, supp, latest, requests, barred>>

ClerkStep(k) ==
    \/ ClearFlag(k) \/ RecordOptOut(k) \/ LookForRow(k) \/ WriteRow(k)
    \/ SwitchOff(k) \/ CountOthers(k) \/ SetFlag(k)

SuppNext ==
    \/ \E k \in Clerks, c \in Contacts : AskAdd(k, c) \/ AskBlock(k, c) \/ AskBounce(k, c)
                                         \/ AskOptOut(k, c)
    \/ \E k \in Clerks, r \in Rows : AskLift(k, r)
    \/ \E k \in Clerks : ClerkStep(k) \/ ClerkDies(k)
    \/ \E c \in Contacts : RecordConsent(c) \/ NameInAudience(c)

-----------------------------------------------------------------------------
(* Properties.                                                             *)

SuppTypeOK ==
    /\ sendable \in [Contacts -> BOOLEAN]
    /\ consent \in [Contacts -> {"unknown", "subscribed", "unsubscribed"}]
    /\ supp \in [Rows -> [contact : Contacts \cup {None}, scope : Scopes, active : BOOLEAN]]
    /\ latest \in [Contacts -> [Scopes -> Rows \cup {None}]]
    /\ clerk \in [Clerks -> [op : {"none", "add", "block", "bounce", "optout", "lift"},
                             pc : {"idle", "start", "look", "write", "count", "flag"},
                             contact : Contacts \cup {None}, row : Rows \cup {None}]]
    /\ requests \in 0..MaxRequests /\ faults \in 0..MaxFaults
    /\ barred \in [Contacts -> SUBSET Scopes] /\ torn \subseteq Contacts

\* A contact whose suppression or unsubscription was completed is unreachable
\* until staff lift a row of it, in whatever order the queries of these and of
\* other requests run: the flag alone is lost to a late unsuppress or a manual
\* audience (mail.service.ts:526-549, 2721-2793).
BarredIsUnreachable == \A c \in Contacts : barred[c] # {} => ~Reachable(c)

\* With no global suppression left and no request at work or dead on it, a
\* contact's flag is set again: no order of suppressing and lifting leaves a
\* contact blocked for no reason staff can see or lift.
LiftedIsSendable ==
    \A c \in Contacts :
        /\ ActiveOf(c, "global") = {}
        /\ c \notin torn
        /\ \A k \in Clerks : clerk[k].contact # c
        => sendable[c]
=============================================================================
