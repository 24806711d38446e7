------------------------- MODULE StaffWorkLifecycle -------------------------
(***************************************************************************)
(* The life of staff work items of one operational intent.  Signals        *)
(* (workflow events) go through StaffWorkService.continueOrCreate: one     *)
(* READ COMMITTED transaction that takes an advisory lock per identity,    *)
(* looks for a replay, then for an active item of the customer, then for   *)
(* active items of the contact, and commits.  Staff record call outcomes   *)
(* from a row read before their transaction, and move, archive, schedule   *)
(* or link items, all without those locks.                                 *)
(* A call's statements are separate steps; its writes appear together, at  *)
(* its commit, and carry values computed from the rows it had read.        *)
(* Abstractions.  Times are small numbers, 0 for null; texts, priorities,  *)
(* comments and pins are left out; in_progress and pending_resolve are     *)
(* "open", resolved and transferred "closed".                              *)
(* Ghosts: torn, staffed.  Bounds: MaxMoves staff actions and rolled back  *)
(* transactions, and Items enough for every creation.                      *)
(* Definitions named Mut... are seeded faults, not the code's behaviour.   *)
(***************************************************************************)
EXTENDS Naturals, FiniteSets, FiniteSetsExt

CONSTANTS Items, Events, Calls, Requests, Customers, Keys, None,
          EventCustomer,  \* the customer an event resolved to, or None
          EventKeys,      \* phone and e-mail keys an event carries
          CustomerKeys,   \* the customer's own phone and e-mail keys
          EventAt,        \* when the event occurred
          Assigned,       \* the events whose rule assigns a member
          LockRank,       \* the sort order of lock keys
          MaxMoves

Locks == ({"customer"} \X Customers) \cup ({"contact"} \X Keys)

ASSUME LifecycleAssumption ==
    /\ IsFiniteSet(Items) /\ IsFiniteSet(Events) /\ IsFiniteSet(Calls) /\ IsFiniteSet(Requests)
    /\ None \notin Items \cup Events \cup Customers
    /\ EventCustomer \in [Events -> Customers \cup {None}]
    /\ EventKeys \in [Events -> SUBSET Keys]
    /\ CustomerKeys \in [Customers -> SUBSET Keys]
    /\ EventAt \in [Events -> Nat \ {0}]
    /\ Assigned \subseteq Events
    /\ LockRank \in [Locks -> Nat]
    /\ \A l, m \in Locks : LockRank[l] = LockRank[m] => l = m
    /\ MaxMoves \in Nat
    /\ Cardinality(Items) >= Cardinality(Events) + MaxMoves

VARIABLES
    item,     \* table staff_work_items
    occ,      \* occurrence row of an event: the item it counts for, or None
    outcome,  \* outcome row of a request: the item it is on, or None
    policy,   \* customers with a do-not-call policy
    call,     \* signal calls in flight
    staff,    \* outcome requests in flight
    moves,    \* staff actions and rolled back transactions left
    torn,     \* ghost: items whose row may have left their history (see Tear)
    staffed   \* ghost: items opened or linked without the locks

tables == <<item, occ, outcome, policy>>
vars == <<item, occ, outcome, policy, call, staff, moves, torn, staffed>>

Row == [state : {"free", "open", "closed"}, queue : {"follow_up", "scheduled", "archive"},
        cust : Customers \cup {None}, keys : SUBSET Keys, count : Nat, last : Nat,
        owned : BOOLEAN, into : Items \cup {None}]

NoRow == [state |-> "free", queue |-> "archive", cust |-> None, keys |-> {},
          count |-> 0, last |-> 0, owned |-> FALSE, into |-> None]

Idle == [pc |-> "idle", event |-> None, held |-> {}, target |-> None,
         seen |-> [i \in Items |-> NoRow]]

At(w, pc, held, target, seen) ==
    [pc |-> pc, event |-> call[w].event, held |-> held, target |-> target, seen |-> seen]

Unread == [pc |-> "idle", on |-> None, row |-> NoRow]

Init ==
    /\ item = [i \in Items |-> NoRow]
    /\ occ = [e \in Events |-> None]
    /\ outcome = [r \in Requests |-> None]
    /\ policy = {}
    /\ call = [w \in Calls |-> Idle]
    /\ staff = [r \in Requests |-> Unread]
    /\ moves = MaxMoves
    /\ torn = {}
    /\ staffed = {}

-----------------------------------------------------------------------------
(* The identities of a signal and their locks.                             *)

KeysOf(e) == EventKeys[e] \cup
             IF EventCustomer[e] = None THEN {} ELSE CustomerKeys[EventCustomer[e]]

MutLocksOf(e) == {<<"contact", k>> : k \in KeysOf(e)}
LocksOf(e) == {<<"contact", k>> : k \in KeysOf(e)} \cup
              {<<"customer", c>> : c \in {EventCustomer[e]} \cap Customers}

MutNextLock(w, l) == l \in LocksOf(call[w].event) \ call[w].held
NextLock(w, l) ==
    /\ l \in LocksOf(call[w].event) \ call[w].held
    /\ \A m \in LocksOf(call[w].event) \ call[w].held : LockRank[l] <= LockRank[m]

Active(i) == item[i].state = "open"
NewItem == CHOOSE i \in Items : item[i].state = "free"
Found(w) == {i \in Items : call[w].seen[i] # NoRow}

\* orderBy lastSignalAt desc: an item that has had no signal sorts first
Newest(S) == {i \in S : \A j \in S :
                 item[i].last = 0 \/ (item[j].last # 0 /\ item[j].last <= item[i].last)}

-----------------------------------------------------------------------------
(* continueOrCreate.                                                       *)

Begin(w, e) ==
    /\ call[w].pc = "idle"
    /\ LocksOf(e) # {}
    /\ call' = [call EXCEPT ![w] = [pc |-> "lock", event |-> e, held |-> Idle.held,
                                   target |-> Idle.target, seen |-> Idle.seen]]
    /\ UNCHANGED <<tables, staff, moves, staffed>>

Available(l) == \A v \in Calls : l \notin call[v].held

MutReplayed(e) == FALSE
Replayed(e) == occ[e] # None

\* pg_advisory_xact_lock, one lock key after the other
Acquire(w) ==
    /\ call[w].pc = "lock"
    /\ \E l \in Locks :
          /\ NextLock(w, l)
          /\ Available(l)
          /\ LET held == call[w].held \cup {l}
             IN  call' = [call EXCEPT ![w] =
                     At(w, IF LocksOf(call[w].event) \subseteq held THEN "replay" ELSE "lock",
                        held, None, Idle.seen)]
    /\ UNCHANGED <<tables, staff, moves, staffed>>

\* the occurrence lookup; a replay ends the transaction and frees the locks
CheckReplay(w) ==
    /\ call[w].pc = "replay"
    /\ call' = [call EXCEPT ![w] =
          IF Replayed(call[w].event) THEN Idle
          ELSE At(w, "customer", call[w].held, None, Idle.seen)]
    /\ UNCHANGED <<tables, staff, moves, staffed>>

FindCustomerItem(w) ==
    LET c == EventCustomer[call[w].event]
        mine == {i \in Items : Active(i) /\ c # None /\ item[i].cust = c}
    IN  /\ call[w].pc = "customer"
        /\ \E t \in IF mine = {} THEN {None} ELSE Newest(mine) :
              call' = [call EXCEPT ![w] =
                  At(w, "contact", call[w].held, t,
                     [i \in Items |-> IF i = t THEN item[i] ELSE NoRow])]
        /\ UNCHANGED <<tables, staff, moves, staffed>>

MutContactItems(e) == {i \in Items : item[i].state # "free" /\ item[i].cust = None
                                     /\ item[i].keys \cap KeysOf(e) # {}}
ContactItems(e) == {i \in Items : Active(i) /\ item[i].cust = None
                                  /\ item[i].keys \cap KeysOf(e) # {}}

FindContactItems(w) ==
    LET theirs == ContactItems(call[w].event)
    IN  /\ call[w].pc = "contact"
        /\ \E t \in IF call[w].target # None THEN {call[w].target}
                    ELSE IF theirs = {} THEN {None} ELSE Newest(theirs) :
              call' = [call EXCEPT ![w] =
                  At(w, "commit", call[w].held, t,
                     [i \in Items |-> IF i \in theirs /\ i # call[w].target
                                     THEN item[i] ELSE call[w].seen[i]])]
        /\ UNCHANGED <<tables, staff, moves, staffed>>

-----------------------------------------------------------------------------
(* The commit: open an item, or continue one and merge the others into it. *)

OpenedRow(e) ==
    [state |-> "open", queue |-> "follow_up", cust |-> EventCustomer[e], keys |-> KeysOf(e),
     count |-> 1, last |-> EventAt[e], owned |-> e \in Assigned, into |-> None]

LastSignal(rows, S) == Max({rows[i].last : i \in S})
MutCountOf(rows, S, t) == rows[t].count + 1
CountOf(rows, S, t) == MapThenSumSet(LAMBDA i : rows[i].count, S) + 1

CustomerOf(w, t) == IF EventCustomer[call[w].event] = None
                    THEN call[w].seen[t].cust ELSE EventCustomer[call[w].event]

\* the update of the continued item; only the latest signal reopens it
ContinuedRow(w, t) ==
    LET e == call[w].event
        rows == call[w].seen
        last == LastSignal(rows, Found(w))
        kept == [item[t] EXCEPT
                   !.cust = CustomerOf(w, t),
                   !.keys = KeysOf(e) \cup UNION {rows[i].keys : i \in Found(w)},
                   !.count = CountOf(rows, Found(w), t),
                   !.last = Max({last, EventAt[e]}),
                   !.owned = (e \in Assigned /\ EventAt[e] >= last)
                             \/ \E i \in Found(w) : rows[i].owned]
    IN  IF EventAt[e] >= last
        THEN [kept EXCEPT !.state = "open", !.queue = "follow_up"] ELSE kept

\* provisional_identity_merged
MutMergedRow(i, t) == [item[i] EXCEPT !.state = "merged", !.queue = "archive", !.into = t]
MergedRow(i, t) == [item[i] EXCEPT !.state = "closed", !.queue = "archive", !.into = t]

MutMovedTo(i, t, S) == i
MovedTo(i, t, S) == IF i \in S THEN t ELSE i

Continue(w, t) ==
    LET e == call[w].event
        merged == Found(w) \ {t}
    IN  /\ item' = [i \in Items |-> IF i = t THEN ContinuedRow(w, t)
                                   ELSE IF i \in merged THEN MergedRow(i, t) ELSE item[i]]
        /\ occ' = [f \in Events |-> IF f = e THEN t ELSE MovedTo(occ[f], t, merged)]
        /\ outcome' = [r \in Requests |-> MovedTo(outcome[r], t, merged)]

OpenItem(w) ==
    /\ item' = [item EXCEPT ![NewItem] = OpenedRow(call[w].event)]
    /\ occ' = [occ EXCEPT ![call[w].event] = NewItem]
    /\ UNCHANGED outcome

Commit(w) ==
    /\ call[w].pc = "commit"
    /\ occ[call[w].event] = None          \* unique (tenant, source event)
    /\ IF call[w].target = None THEN OpenItem(w) ELSE Continue(w, call[w].target)
    /\ call' = [call EXCEPT ![w] = Idle]
    /\ UNCHANGED <<policy, staff, moves, staffed>>

\* a timeout, a crash or a violated constraint rolls the transaction back
Abort(w) ==
    /\ call[w].pc # "idle"
    /\ moves > 0
    /\ moves' = moves - 1
    /\ call' = [call EXCEPT ![w] = Idle]
    /\ UNCHANGED <<tables, staff, staffed>>

-----------------------------------------------------------------------------
(* recordOutcome: no_answer and the like are "later", do_not_call is       *)
(* "refused", order_placed, not_interested, wrong_number are "final", the  *)
(* rest "stay".  A request that was already recorded changes nothing.      *)

Kinds == {"later", "stay", "final", "refused", "completed"}

Plan(k) == CASE k = "later" -> [state |-> "open", queue |-> "scheduled"]
             [] k = "stay" -> [state |-> "open", queue |-> "follow_up"]
             [] OTHER -> [state |-> "closed", queue |-> "archive"]

ReadRow(r, i) ==
    /\ staff[r].pc = "idle"
    /\ item[i].state # "free"
    /\ moves > 0
    /\ moves' = moves - 1
    /\ staff' = [staff EXCEPT ![r] = [pc |-> "read", on |-> i, row |-> item[i]]]
    /\ UNCHANGED <<tables, call, staffed>>

Reappears(row, k) == k = "completed" /\ row.cust # None /\ row.owned

\* completion_reappearance, a copy of the row that was read
ReappearingRow(row) == [row EXCEPT !.state = "open", !.queue = "scheduled", !.count = 0,
                                   !.last = 0]

Planned(i, k) == [item[i] EXCEPT !.state = Plan(k).state, !.queue = Plan(k).queue]

RecordOutcome(r, k) ==
    LET i == staff[r].on
        written == [item EXCEPT ![i] = Planned(i, k)]
        reopened == IF Active(i) \/ Plan(k).state = "closed" THEN {} ELSE {i}
    IN  /\ staff[r].pc = "read"
        /\ outcome' = [outcome EXCEPT ![r] = i]
        /\ IF Reappears(staff[r].row, k)
           THEN /\ item' = [written EXCEPT ![NewItem] = ReappearingRow(staff[r].row)]
                /\ staffed' = staffed \cup {NewItem}
           ELSE item' = written /\ staffed' = staffed \cup reopened
        /\ policy' = policy \cup IF k = "refused"
                                 THEN {staff[r].row.cust} \cap Customers ELSE {}
        /\ staff' = [staff EXCEPT ![r] = [Unread EXCEPT !.pc = "done"]]
        /\ UNCHANGED <<occ, call, moves>>

-----------------------------------------------------------------------------
(* The other staff writes of an item, and the creations without a signal.  *)

StaffAct(i, row) ==
    /\ moves > 0
    /\ moves' = moves - 1
    /\ item' = [item EXCEPT ![i] = row]
    /\ UNCHANGED <<occ, outcome, policy, call, staff>>

\* moveQueueCard
MoveCard(i) ==
    /\ item[i].state # "free"
    /\ \/ /\ StaffAct(i, [item[i] EXCEPT !.state = "open", !.queue = "follow_up"])
          /\ staffed' = staffed \cup IF Active(i) THEN {} ELSE {i}
       \/ /\ StaffAct(i, [item[i] EXCEPT !.state = "closed", !.queue = "archive"])
          /\ UNCHANGED staffed

\* scheduleTaskFollowUp reopens a closed item
ScheduleFollowUp(i) ==
    /\ item[i].state # "free"
    /\ StaffAct(i, [item[i] EXCEPT !.state = "open", !.queue = "scheduled"])
    /\ staffed' = staffed \cup IF Active(i) THEN {} ELSE {i}

\* archiveDailyCall leaves the status as it is
ArchiveDailyCall(i) ==
    /\ item[i].state # "free"
    /\ StaffAct(i, [item[i] EXCEPT !.queue = "archive"])
    /\ UNCHANGED staffed

\* linkTaskCustomer does not ask whether the task has a customer
LinkCustomer(i, c) ==
    /\ item[i].state # "free"
    /\ StaffAct(i, [item[i] EXCEPT !.cust = c])
    /\ staffed' = staffed \cup {i}

\* create: a deferred action, a priority dial or a reviewed transcript
CreateItem(c) ==
    /\ StaffAct(NewItem, [NoRow EXCEPT !.state = "open", !.queue = "follow_up",
                                 !.cust = c, !.owned = TRUE])
    /\ staffed' = staffed \cup {NewItem}

-----------------------------------------------------------------------------
\* An item is torn once two signals had read it at once, once it is active
\* again after having been merged away, or once a torn item is merged into it.
Overlap == {i \in Items : \E v, w \in Calls : v # w /\ i \in Found(v) /\ i \in Found(w)}
Revived == {i \in Items : Active(i) /\ item[i].into # None}
Tear == torn' = torn \cup Overlap' \cup Revived' \cup ({item'[i].into : i \in torn} \cap Items)

Signal(w) ==
    \/ \E e \in Events : Begin(w, e)
    \/ Acquire(w) \/ CheckReplay(w) \/ FindCustomerItem(w) \/ FindContactItems(w)
    \/ Commit(w) \/ Abort(w)

Outcome(r) == (\E i \in Items : ReadRow(r, i)) \/ (\E k \in Kinds : RecordOutcome(r, k))

Next ==
    /\ \/ \E w \in Calls : Signal(w)
       \/ \E r \in Requests : Outcome(r)
       \/ \E i \in Items : MoveCard(i) \/ ScheduleFollowUp(i) \/ ArchiveDailyCall(i)
       \/ \E i \in Items, c \in Customers : LinkCustomer(i, c)
       \/ \E c \in Customers : CreateItem(c)
    /\ Tear

Spec == Init /\ [][Next]_vars

-----------------------------------------------------------------------------
(* Properties.                                                             *)

CallType == [pc : {"idle", "lock", "replay", "customer", "contact", "commit"},
             event : Events \cup {None}, held : SUBSET Locks,
             target : Items \cup {None}, seen : [Items -> Row]]

TypeOK ==
    /\ item \in [Items -> Row]
    /\ occ \in [Events -> Items \cup {None}]
    /\ outcome \in [Requests -> Items \cup {None}]
    /\ policy \subseteq Customers
    /\ call \in [Calls -> CallType]
    /\ staff \in [Requests -> [pc : {"idle", "read", "done"}, on : Items \cup {None},
                               row : Row]]
    /\ moves \in 0..MaxMoves
    /\ torn \subseteq Items /\ staffed \subseteq Items

Locked(w) == call[w].pc \in {"replay", "customer", "contact", "commit"}

\* Two signals that share an identity never read or write items at the same
\* time: a signal finds its item as no other signal of that identity is
\* changing it (staff-work.service.ts:182).
LocksExclude ==
    \A v, w \in Calls :
        v # w /\ Locked(v) /\ Locked(w)
            => LocksOf(call[v].event) \cap LocksOf(call[w].event) = {}

Occurrences(i) == {e \in Events : occ[e] = i}

\* An item counts the signals it holds, with those of the items merged into
\* it, and knows its latest, unless it is torn.  Replays and aborts count
\* nothing; staff never change it.
SignalsHonest ==
    \A i \in Items \ torn :
        /\ item[i].into = None => item[i].count = Cardinality(Occurrences(i))
        /\ Occurrences(i) # {} => item[i].last = Max({EventAt[e] : e \in Occurrences(i)})

\* A merged item has handed over its whole history, unless it is torn.
MergedIsEmpty == \A i \in Items \ torn : item[i].into # None => Occurrences(i) = {}

\* A merged item is active again only if staff reopen it (they may have read
\* it before the merge), or a signal without a common identity had read it.
MergedStaysClosed ==
    [][\A i \in Items : item[i].into # None /\ ~Active(i) /\ item'[i].state = "open"
                          => i \in torn \cup staffed']_vars

\* Signals never start a second active item for one customer: of two active
\* items of a customer at least one was opened or linked by staff, by a
\* creation without a signal, or is torn.
OneLifecycle ==
    \A i, j \in Items :
        i # j /\ Active(i) /\ Active(j) /\ item[i].cust # None /\ item[i].cust = item[j].cust
            => {i, j} \cap (staffed \cup torn) # {}

\* The second delivery of an event waits for the first and finds its
\* occurrence: the unique constraint never has to stop it.
CountedOnce == \A w \in Calls : call[w].pc = "commit" => occ[call[w].event] = None

\* Locks are taken in one order, so signals never wait for one another in a
\* circle: of the signals in flight one is not waiting for a lock.
Waiting(w) == /\ call[w].pc = "lock"
              /\ \A l \in Locks : NextLock(w, l) => ~Available(l)
NoCircle == (\E w \in Calls : call[w].pc # "idle")
               => \E w \in Calls : call[w].pc # "idle" /\ ~Waiting(w)
=============================================================================
