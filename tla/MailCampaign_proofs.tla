------------------------- MODULE MailCampaign_proofs -------------------------
(***************************************************************************)
(* BarredIsUnreachable, LiftedIsSendable, CapUnlessOverlapped,             *)
(* ScheduledHasJob and StoppedIsSilent for any contacts, suppression rows, *)
(* requests, workers and employees, any snapshot of members, cap, number   *)
(* of attempts, changes and faults.  SuppInv speaks for MailSuppression,   *)
(* CampaignInv for the calls and jobs of the campaign.                     *)
(***************************************************************************)
EXTENDS MailCampaign, Integers, TLAPS

-----------------------------------------------------------------------------
(* The invariant of the suppressions.                                      *)

RowType == {Free} \cup [contact : Contacts, scope : Scopes, active : BOOLEAN]
Writers == {"add", "block", "bounce", "optout"}
ScopeFor(op) == IF op \in {"optout", "block"} THEN "marketing" ELSE "global"
ClerkType ==
    {Away} \cup [op : Writers, pc : {"start", "look", "write"}, contact : Contacts,
                 row : Rows \cup {None}]
           \cup [op : {"lift"}, pc : {"start", "count", "flag"}, contact : Contacts, row : Rows]

SuppTyped ==
    /\ sendable \in [Contacts -> BOOLEAN]
    /\ supp \in [Rows -> RowType]
    /\ latest \in [Contacts -> [Scopes -> Rows \cup {None}]]
    /\ clerk \in [Clerks -> ClerkType]
    /\ barred \in [Contacts -> SUBSET Scopes]

\* A row keeps its contact and its scope, so a request that found a row, now
\* or through latest, writes what it looked for.
Concerns(r, c, s) == supp[r].contact = c /\ supp[r].scope = s
RowsKept ==
    /\ \A c \in Contacts, s \in Scopes : latest[c][s] # None => Concerns(latest[c][s], c, s)
    /\ \A k \in Clerks : clerk[k].op \in Writers /\ clerk[k].row # None
           => Concerns(clerk[k].row, clerk[k].contact, ScopeOf(k))
    /\ \A k \in Clerks : clerk[k].op = "lift" => supp[clerk[k].row].contact = clerk[k].contact
    /\ \A k \in Clerks : clerk[k].op = "lift" /\ clerk[k].pc # "start"
           => supp[clerk[k].row].scope = "global"

\* What bars a contact is an active row of the scope that was suppressed.
BarredByRow == \A c \in Contacts : \A s \in barred[c] : ActiveOf(c, s) # {}

\* A cleared flag is owed to a row, or to a request that is about to write one
\* or to count them and set the flag again.
Owes(k, c) ==
    /\ clerk[k].contact = c
    /\ \/ clerk[k].op \in {"add", "bounce"} /\ clerk[k].pc \in {"look", "write"}
       \/ clerk[k].op = "lift" /\ clerk[k].pc \in {"count", "flag"}
FlagOwed ==
    \A c \in Contacts :
        \/ sendable[c] \/ c \in torn
        \/ ActiveOf(c, "global") # {}
        \/ \E k \in Clerks : Owes(k, c)

SuppInv == SuppTyped /\ RowsKept /\ BarredByRow /\ FlagOwed

-----------------------------------------------------------------------------
(* The invariant of the campaign.                                          *)

QueuePcs == {"members", "settings", "cap", "mail"}
JobPcs == {"check", "hours", "require"} \cup QueuePcs
AddPcs == {"reread", "enqueue"}
Pcs == {"idle", "approve", "pause", "cancel"} \cup AddPcs \cup JobPcs

Typed ==
    /\ job \in [Jobs -> [state : {"none", "waiting", "active", "failed"}, tries : Nat]]
    /\ act \in [Actors -> [pc : Pcs, job : Jobs \cup {None}, reach : SUBSET Contacts,
                           next : Nat \ {0}]]
    /\ mailed \in [Contacts -> Nat] /\ gone \in [Contacts -> Nat]
    /\ lost \in BOOLEAN /\ racing \in BOOLEAN

\* A job is run by one call at a time.
JobHolds ==
    /\ \A x \in Actors : act[x].job # None
           => act[x].pc \in JobPcs /\ job[act[x].job].state = "active"
    /\ \A x, y \in Actors : act[x].job # None /\ act[x].job = act[y].job => x = y

\* A scheduled campaign has a waiting job, a call about to add one, or a call
\* that runs one: what an employee queues by hand is no promise.
Carried ==
    status = "scheduled" =>
        \/ lost
        \/ \E j \in Jobs : job[j].state = "waiting"
        \/ \E x \in Actors : act[x].pc \in AddPcs \/ act[x].job # None

\* The calls about to mail one contact, and what is left of its cap for them.
AtMail(x, c) == act[x].pc = "mail" /\ Member(x) = c
CapHolds ==
    /\ \A x \in Actors : act[x].pc = "mail" => act[x].next <= Len(Members)
    /\ \A c \in Contacts : gone[c] <= mailed[c]
    /\ \A c \in Contacts : c \notin overlapped =>
           \A x, y \in Actors : AtMail(x, c) /\ AtMail(y, c) => x = y
    /\ \A c \in Contacts : c \notin overlapped \cup revived =>
           /\ Counted(c) <= Cap
           /\ \A x \in Actors : AtMail(x, c) => Counted(c) < Cap

\* While a stopped campaign is not raced no call is past the status it read.
Silent ==
    ~racing =>
        /\ status = "paused" => \A x \in Actors : act[x].pc \notin QueuePcs
        /\ status = "canceled" =>
              \A x \in Actors : act[x].pc \notin QueuePcs \cup {"approve", "pause", "cancel"}

CampaignInv == Typed /\ JobHolds /\ Carried /\ CapHolds /\ Silent

-----------------------------------------------------------------------------
(* The suppressions keep their invariant.                                  *)

\* What a request that is under way carries.
LEMMA ClerkShape ==
    ASSUME SuppTyped, NEW k \in Clerks, clerk[k].pc # "idle"
    PROVE  /\ clerk[k].contact \in Contacts
           /\ clerk[k].row \in Rows \cup {None}
           /\ \/ clerk[k].op \in Writers /\ clerk[k].pc \in {"start", "look", "write"}
              \/ /\ clerk[k].op = "lift" /\ clerk[k].pc \in {"start", "count", "flag"}
                 /\ clerk[k].row \in Rows
           /\ ScopeOf(k) \in Scopes
BY DEF SuppTyped, ClerkType, Away, ScopeOf, Scopes, Writers

\* A step that only moves one request keeps the invariant if what the request
\* carries fits its rows, and if no flag was owed by it alone.
LEMMA ClerkMoves ==
    ASSUME SuppInv, NEW k \in Clerks, NEW new \in ClerkType,
           clerk' = [clerk EXCEPT ![k] = new],
           UNCHANGED <<sendable, supp, latest, barred, torn>>,
           new.op \in Writers /\ new.row # None =>
               Concerns(new.row, new.contact, ScopeFor(new.op)),
           new.op = "lift" => supp[new.row].contact = new.contact,
           new.op = "lift" /\ new.pc # "start" => supp[new.row].scope = "global",
           \A c \in Contacts : Owes(k, c) /\ ~Owes(k, c)' => ActiveOf(c, "global") # {}
    PROVE  SuppInv'
<1>1. clerk'[k] = new /\ \A l \in Clerks \ {k} : clerk'[l] = clerk[l]
  BY DEF SuppInv, SuppTyped
<1>2. SuppTyped'
  BY DEF SuppInv, SuppTyped
<1>3. RowsKept'
  BY <1>1 DEF SuppInv, RowsKept, Concerns, ScopeOf, ScopeFor
<1>4. BarredByRow'
  BY DEF SuppInv, BarredByRow, ActiveOf, RowsOf
<1>5. FlagOwed'
  <2>1. \A l \in Clerks \ {k}, c \in Contacts : Owes(l, c) => Owes(l, c)'
    BY <1>1 DEF Owes
  <2>2. \A c \in Contacts : ActiveOf(c, "global")' = ActiveOf(c, "global")
    BY DEF ActiveOf, RowsOf
  <2> QED BY <2>1, <2>2 DEF SuppInv, FlagOwed
<1> QED BY <1>2, <1>3, <1>4, <1>5 DEF SuppInv

LEMMA AskKeeps ==
    ASSUME SuppInv, NEW k \in Clerks,
           \/ \E c \in Contacts : AskAdd(k, c) \/ AskBlock(k, c) \/ AskBounce(k, c)
                                   \/ AskOptOut(k, c)
           \/ \E r \in Rows : AskLift(k, r)
    PROVE  SuppInv'
<1>1. PICK op \in Writers \cup {"lift"}, pc \in {"start", "look"}, c \in Contacts,
           r \in Rows \cup {None} :
          /\ Ask(k, op, pc, c, r)
          /\ op \in Writers => r = None
          /\ op \in {"add", "bounce", "lift"} => pc = "start"
          /\ op = "lift" => r \in Rows /\ supp[r].contact = c
  BY DEF AskAdd, AskBlock, AskBounce, AskOptOut, AskLift, SuppInv, SuppTyped, RowType, Writers
<1> DEFINE new == [op |-> op, pc |-> pc, contact |-> c, row |-> r]
<1>2. new \in ClerkType /\ clerk' = [clerk EXCEPT ![k] = new]
  BY <1>1 DEF ClerkType, Ask, Writers
<1>3. \A d \in Contacts : ~Owes(k, d)
  BY <1>1 DEF Ask, Away, Owes
<1>4. new.op = op /\ new.pc = pc /\ new.row = r /\ new.contact = c
  OBVIOUS
<1> HIDE DEF new
<1> QED BY <1>1, <1>2, <1>3, <1>4, ClerkMoves DEF Ask

LEMMA ClearFlagKeeps ==
    ASSUME SuppInv, NEW k \in Clerks, ClearFlag(k)
    PROVE  SuppInv'
<1>1. /\ clerk[k].contact \in Contacts /\ clerk[k].op \in {"add", "bounce"}
      /\ clerk[k].pc = "start" /\ clerk' = [clerk EXCEPT ![k].pc = "look"]
  BY ClerkShape DEF SuppInv, ClearFlag, At, Goto
<1>2. /\ clerk'[k] = [clerk[k] EXCEPT !.pc = "look"]
      /\ \A l \in Clerks \ {k} : clerk'[l] = clerk[l]
  BY <1>1 DEF SuppInv, SuppTyped
<1>3. SuppTyped'
  <2>0. clerk[k] \in [op : Writers, pc : {"start", "look", "write"}, contact : Contacts,
                       row : Rows \cup {None}]
    BY <1>1 DEF SuppInv, SuppTyped, ClerkType, Writers, Away
  <2>1. [clerk[k] EXCEPT !.pc = "look"] \in ClerkType
    BY <2>0 DEF ClerkType
  <2>2. clerk' \in [Clerks -> ClerkType]
    BY <1>1, <2>1 DEF SuppInv, SuppTyped
  <2> QED BY <2>2 DEF SuppInv, SuppTyped, ClearFlag
<1>4. RowsKept'
  BY <1>1, <1>2 DEF SuppInv, RowsKept, Concerns, ScopeOf, ClearFlag, SuppTyped, ClerkType, Writers, Away
<1>5. BarredByRow'
  BY DEF SuppInv, BarredByRow, ActiveOf, RowsOf, ClearFlag
<1>6. FlagOwed'
  <2>1. \A c : c = clerk[k].contact => Owes(k, c)'
    BY <1>1, <1>2 DEF Owes, SuppInv, SuppTyped, ClerkType, Away
  <2>2. \A l \in Clerks \ {k}, c \in Contacts : Owes(l, c) => Owes(l, c)'
    BY <1>2 DEF Owes
  <2>3. \A c \in Contacts \ {clerk[k].contact} : sendable'[c] = sendable[c] /\ ~Owes(k, c)
    BY DEF ClearFlag, SuppInv, SuppTyped, Owes
  <2>4. \A c \in Contacts : ActiveOf(c, "global")' = ActiveOf(c, "global")
    BY DEF ActiveOf, RowsOf, ClearFlag
  <2>5. torn' = torn /\ FlagOwed
    BY DEF ClearFlag, SuppInv
  <2>6. ASSUME NEW c \in Contacts
        PROVE  \/ sendable'[c] \/ c \in torn' \/ ActiveOf(c, "global")' # {}
               \/ \E l \in Clerks : Owes(l, c)'
    <3>1. CASE c = clerk[k].contact
      BY <2>1, <3>1
    <3>2. CASE c # clerk[k].contact
      BY <2>2, <2>3, <2>4, <2>5, <3>2 DEF FlagOwed
    <3> QED BY <3>1, <3>2
  <2> QED BY <2>6 DEF FlagOwed
<1> QED BY <1>3, <1>4, <1>5, <1>6 DEF SuppInv

LEMMA RecordOptOutKeeps ==
    ASSUME SuppInv, NEW k \in Clerks, RecordOptOut(k)
    PROVE  SuppInv'
<1> DEFINE new == [clerk[k] EXCEPT !.pc = "look"]
<1>1. clerk[k].op = "optout" /\ clerk[k].pc = "start" /\ clerk' = [clerk EXCEPT ![k] = new]
  BY DEF RecordOptOut, At, Goto
<1>2. new \in ClerkType
  BY <1>1 DEF SuppInv, SuppTyped, ClerkType, Away, Writers
<1>3. new.op = "optout" /\ new.row = clerk[k].row /\ new.contact = clerk[k].contact
  BY <1>1 DEF SuppInv, SuppTyped, ClerkType, Away, Writers
<1>4. new.row # None => Concerns(new.row, new.contact, "marketing")
  BY <1>1, <1>3 DEF SuppInv, RowsKept, ScopeOf, Writers
<1>5. \A c \in Contacts : ~Owes(k, c)
  BY <1>1 DEF Owes
<1> HIDE DEF new
<1> QED BY <1>1, <1>2, <1>3, <1>4, <1>5, ClerkMoves DEF RecordOptOut, ScopeFor

\* Whatever a request looks for concerns its contact and its scope.
LEMMA FoundFits ==
    ASSUME SuppInv, NEW k \in Clerks, clerk[k].op \in Writers, clerk[k].pc = "look",
           NEW r \in Found(k)
    PROVE  r \in Rows \cup {None} /\ (r # None => Concerns(r, clerk[k].contact, ScopeOf(k)))
<1>1. clerk[k].contact \in Contacts /\ ScopeOf(k) \in Scopes
  BY ClerkShape DEF SuppInv
<1>2. CASE clerk[k].op \in {"add", "block"}
  BY <1>1, <1>2 DEF Found, ActiveOf, RowsOf, Concerns
<1>3. CASE clerk[k].op \notin {"add", "block"}
  BY <1>1, <1>3 DEF Found, SuppInv, SuppTyped, RowsKept
<1> QED BY <1>2, <1>3

LEMMA LookForRowKeeps ==
    ASSUME SuppInv, NEW k \in Clerks, LookForRow(k)
    PROVE  SuppInv'
<1>1. PICK r \in Found(k) : clerk' = [clerk EXCEPT ![k].row = r, ![k].pc = "write"]
  BY DEF LookForRow
<1>2. clerk[k].op \in Writers /\ clerk[k].pc = "look"
  BY DEF LookForRow, Writers, SuppInv, SuppTyped, ClerkType, Away
<1>3. r \in Rows \cup {None} /\ (r # None => Concerns(r, clerk[k].contact, ScopeOf(k)))
  BY <1>2, FoundFits
<1> DEFINE new == [op |-> clerk[k].op, pc |-> "write", contact |-> clerk[k].contact, row |-> r]
<1>4. clerk' = [clerk EXCEPT ![k] = new]
  BY <1>1, <1>2 DEF SuppInv, SuppTyped, ClerkType, Away, Writers
<1>5. new \in ClerkType
  BY <1>2, <1>3, ClerkShape DEF SuppInv, ClerkType
<1>6. clerk'[k] = new
  BY <1>4 DEF SuppInv, SuppTyped
<1>7. \A c \in Contacts : Owes(k, c) => Owes(k, c)'
  BY <1>2, <1>6 DEF Owes
<1> QED BY <1>2, <1>3, <1>4, <1>5, <1>7, ClerkMoves DEF LookForRow, ScopeOf, ScopeFor, Writers

LEMMA CountOthersKeeps ==
    ASSUME SuppInv, NEW k \in Clerks, CountOthers(k)
    PROVE  SuppInv'
<1>1. clerk[k].op = "lift" /\ clerk[k].pc = "count"
  BY DEF CountOthers, At
<1>2. CASE Others(k) = {}
  <2> DEFINE new == [clerk[k] EXCEPT !.pc = "flag"]
  <2>1. clerk' = [clerk EXCEPT ![k] = new]
    BY <1>2 DEF CountOthers, Goto
  <2> clerk[k] \in [op : {"lift"}, pc : {"start", "count", "flag"}, contact : Contacts, row : Rows]
    BY <1>1 DEF SuppInv, SuppTyped, ClerkType, Away, Writers
  <2>2. /\ new \in ClerkType /\ new.op = "lift" /\ new.row = clerk[k].row
        /\ new.contact = clerk[k].contact
    BY DEF ClerkType
  <2>3. \A c \in Contacts : Owes(k, c) => Owes(k, c)'
    BY <1>1, <2>1 DEF Owes, SuppInv, SuppTyped, ClerkType, Away
  <2>4. supp[new.row].contact = new.contact /\ supp[new.row].scope = "global"
    BY <1>1, <2>2 DEF SuppInv, RowsKept
  <2> HIDE DEF new
  <2> QED BY <2>1, <2>2, <2>3, <2>4, ClerkMoves DEF CountOthers, Writers
<1>3. CASE Others(k) # {}
  <2>1. clerk' = [clerk EXCEPT ![k] = Away] /\ Away \in ClerkType
    BY <1>3 DEF CountOthers, Done, ClerkType
  <2>2. \A c \in Contacts : Owes(k, c) => ActiveOf(c, "global") # {}
    BY <1>3 DEF Others, Owes
  <2> QED BY <2>1, <2>2, ClerkMoves DEF CountOthers, Away, Writers
<1> QED BY <1>2, <1>3

LEMMA SetFlagKeeps ==
    ASSUME SuppInv, NEW k \in Clerks, SetFlag(k)
    PROVE  SuppInv'
<1>1. /\ clerk[k].contact \in Contacts /\ clerk' = [clerk EXCEPT ![k] = Away]
      /\ sendable' = [sendable EXCEPT ![clerk[k].contact] = TRUE]
  BY ClerkShape DEF SuppInv, SetFlag, At, Done
<1>2. clerk'[k] = Away /\ \A l \in Clerks \ {k} : clerk'[l] = clerk[l]
  BY <1>1 DEF SuppInv, SuppTyped
<1>3. SuppTyped'
  BY <1>1 DEF SuppInv, SuppTyped, SetFlag, ClerkType
<1>4. RowsKept'
  BY <1>2 DEF SuppInv, RowsKept, Concerns, ScopeOf, SetFlag, Away, Writers
<1>5. BarredByRow'
  BY DEF SuppInv, BarredByRow, ActiveOf, RowsOf, SetFlag
<1>6. FlagOwed'
  <2>1. \A l \in Clerks \ {k}, c \in Contacts : Owes(l, c) => Owes(l, c)'
    BY <1>2 DEF Owes
  <2>2. sendable'[clerk[k].contact]
    BY <1>1 DEF SuppInv, SuppTyped
  <2>3. \A c \in Contacts \ {clerk[k].contact} : sendable'[c] = sendable[c] /\ ~Owes(k, c)
    BY <1>1 DEF SuppInv, SuppTyped, Owes
  <2>4. \A c \in Contacts : ActiveOf(c, "global")' = ActiveOf(c, "global")
    BY DEF ActiveOf, RowsOf, SetFlag
  <2> QED BY <2>1, <2>2, <2>3, <2>4 DEF SuppInv, FlagOwed, SetFlag
<1> QED BY <1>3, <1>4, <1>5, <1>6 DEF SuppInv

LEMMA ClerkDiesKeeps ==
    ASSUME SuppInv, NEW k \in Clerks, ClerkDies(k)
    PROVE  SuppInv'
<1>1. clerk' = [clerk EXCEPT ![k] = Away]
  BY DEF ClerkDies, Done
<1>2. clerk'[k] = Away /\ \A l \in Clerks \ {k} : clerk'[l] = clerk[l]
  BY <1>1 DEF SuppInv, SuppTyped
<1>3. SuppTyped'
  BY <1>1 DEF SuppInv, SuppTyped, ClerkDies, ClerkType
<1>4. RowsKept'
  BY <1>2 DEF SuppInv, RowsKept, Concerns, ScopeOf, ClerkDies, Away, Writers
<1>5. BarredByRow'
  BY DEF SuppInv, BarredByRow, ActiveOf, RowsOf, ClerkDies
<1>6. FlagOwed'
  <2>1. \A l \in Clerks \ {k}, c \in Contacts : Owes(l, c) => Owes(l, c)'
    BY <1>2 DEF Owes
  <2>2. \A c \in Contacts : Owes(k, c) => c \in torn'
    BY DEF ClerkDies, Owes
  <2>3. \A c \in Contacts : ActiveOf(c, "global")' = ActiveOf(c, "global")
    BY DEF ActiveOf, RowsOf, ClerkDies
  <2> QED BY <2>1, <2>2, <2>3 DEF SuppInv, FlagOwed, ClerkDies
<1> QED BY <1>3, <1>4, <1>5, <1>6 DEF SuppInv

\* A written row is new, or the one the request found: either way it keeps its
\* contact and scope, and the rows of others are left alone.
LEMMA TargetFits ==
    ASSUME SuppInv, NEW k \in Clerks, clerk[k].pc = "write", NEW r \in Target(k)
    PROVE  /\ r \in Rows /\ clerk[k].op \in Writers
           /\ supp[r] = Free \/ Concerns(r, clerk[k].contact, ScopeOf(k))
<1>1. clerk[k].op \in Writers /\ clerk[k].row \in Rows \cup {None}
  BY ClerkShape DEF SuppInv
<1>2. CASE clerk[k].row # None
  BY <1>1, <1>2 DEF Target, SuppInv, RowsKept
<1>3. CASE clerk[k].row = None
  BY <1>1, <1>3 DEF Target
<1> QED BY <1>2, <1>3

LEMMA WriteRowKeeps ==
    ASSUME SuppInv, NEW k \in Clerks, WriteRow(k)
    PROVE  SuppInv'
<1>0. PICK c \in Contacts, s \in Scopes : c = clerk[k].contact /\ s = ScopeOf(k)
  BY ClerkShape DEF SuppInv, WriteRow
<1>1. PICK r \in Target(k) :
          /\ supp' = [supp EXCEPT ![r] = Written(k, r)]
          /\ latest' = [latest EXCEPT ![c] = [latest[c] EXCEPT ![s] = r]]
  BY <1>0 DEF WriteRow
<1>2. clerk[k].pc = "write"
  BY DEF WriteRow
<1>3. r \in Rows /\ clerk[k].op \in Writers /\ (supp[r] = Free \/ Concerns(r, c, s))
  BY <1>0, <1>1, <1>2, TargetFits
<1>4. /\ clerk'[k] = Away
      /\ \A l \in Clerks \ {k} : clerk'[l] = clerk[l]
      /\ clerk' \in [Clerks -> ClerkType]
  BY DEF WriteRow, Done, SuppInv, SuppTyped, ClerkType
<1>5. /\ supp'[r] = [contact |-> c, scope |-> s, active |-> TRUE]
      /\ \A q \in Rows \ {r} : supp'[q] = supp[q]
      /\ supp' \in [Rows -> RowType]
  BY <1>0, <1>1, <1>3 DEF Written, SuppInv, SuppTyped, RowType
<1>6. barred' = [barred EXCEPT ![c] = barred[c] \cup {s}] /\ UNCHANGED <<sendable, torn>>
  BY <1>0 DEF WriteRow
<1>7. \A q \in Rows, d \in Contacts, z \in Scopes : Concerns(q, d, z) => Concerns(q, d, z)'
  BY <1>3, <1>5, SuppressionAssumption DEF Concerns, Free
<1>8. Concerns(r, c, s)'
  BY <1>5 DEF Concerns
<1>9. \A d \in Contacts, z \in Scopes : ActiveOf(d, z) # {} => ActiveOf(d, z)' # {}
  <2>1. \A q \in Rows, d \in Contacts, z \in Scopes : q \in ActiveOf(d, z) => q \in ActiveOf(d, z)'
    BY <1>3, <1>5, <1>7 DEF ActiveOf, RowsOf, Concerns
  <2>2. \A d, z : ActiveOf(d, z) \subseteq Rows
    BY DEF ActiveOf, RowsOf
  <2> QED BY <2>1, <2>2
<1>10. ActiveOf(c, s)' # {}
  BY <1>3, <1>5 DEF ActiveOf, RowsOf
<1>11. SuppTyped'
  BY <1>1, <1>2, <1>3, <1>4, <1>5, <1>6 DEF SuppInv, SuppTyped
<1>12. RowsKept'
  <2>1. \A d \in Contacts, z \in Scopes :
            latest'[d][z] = latest[d][z] \/ (d = c /\ z = s /\ latest'[d][z] = r)
    BY <1>0, <1>1 DEF SuppInv, SuppTyped
  <2>2. ASSUME NEW d \in Contacts, NEW z \in Scopes, latest'[d][z] # None
        PROVE  supp'[latest'[d][z]].contact = d /\ supp'[latest'[d][z]].scope = z
    <3>1. PICK q \in Rows : q = latest'[d][z]
      BY <1>11, <2>2 DEF SuppTyped
    <3>2. Concerns(q, d, z)'
      BY <1>7, <1>8, <2>1, <2>2, <3>1 DEF SuppInv, RowsKept
    <3> QED BY <3>1, <3>2 DEF Concerns
  <2>3. ASSUME NEW l \in Clerks, clerk'[l].op \in Writers /\ clerk'[l].row # None
        PROVE  /\ supp'[clerk'[l].row].contact = clerk'[l].contact
               /\ supp'[clerk'[l].row].scope = ScopeOf(l)'
    <3>1. l # k
      BY <1>4, <2>3 DEF Away, Writers
    <3>2. ScopeOf(l)' = ScopeOf(l) /\ clerk'[l] = clerk[l] /\ clerk[l].pc # "idle"
      BY <1>4, <2>3, <3>1 DEF ScopeOf, SuppInv, SuppTyped, ClerkType, Away, Writers
    <3>3. PICK q \in Rows, d \in Contacts, z \in Scopes :
              q = clerk[l].row /\ d = clerk[l].contact /\ z = ScopeOf(l)
      BY <2>3, <3>2, ClerkShape DEF SuppInv
    <3>4. Concerns(q, d, z)'
      BY <1>7, <2>3, <3>2, <3>3 DEF SuppInv, RowsKept
    <3> QED BY <3>2, <3>3, <3>4 DEF Concerns
  <2>4. ASSUME NEW l \in Clerks, clerk'[l].op = "lift"
        PROVE  /\ supp'[clerk'[l].row].contact = clerk'[l].contact
               /\ clerk'[l].pc # "start" => supp'[clerk'[l].row].scope = "global"
    <3>1. l # k
      BY <1>4, <2>4 DEF Away
    <3>2. /\ clerk[l].op = "lift" /\ clerk[l].pc # "idle" /\ clerk'[l] = clerk[l]
          /\ clerk[l].row \in Rows /\ clerk[l].contact \in Contacts
          /\ supp[clerk[l].row].contact = clerk[l].contact
          /\ clerk[l].pc # "start" => supp[clerk[l].row].scope = "global"
      BY <1>4, <2>4, <3>1 DEF SuppInv, SuppTyped, ClerkType, Away, Writers, RowsKept
    <3>3. PICK q \in Rows, d \in Contacts, z \in Scopes :
              /\ q = clerk[l].row /\ d = clerk[l].contact /\ Concerns(q, d, z)
              /\ clerk[l].pc # "start" => z = "global"
      <4>1. supp[clerk[l].row].scope \in Scopes
        BY <3>2 DEF SuppInv, SuppTyped, RowType, Free, Scopes
      <4> QED BY <3>2, <4>1 DEF Concerns
    <3>4. Concerns(q, d, z)'
      BY <1>7, <3>3
    <3> QED BY <3>2, <3>3, <3>4 DEF Concerns
  <2> QED BY <2>2, <2>3, <2>4 DEF RowsKept, Concerns
<1>13. BarredByRow'
  <2>1. \A d \in Contacts : \A z \in barred'[d] : z \in barred[d] \/ (d = c /\ z = s)
    BY <1>6 DEF SuppInv, SuppTyped
  <2>2. \A d \in Contacts : barred[d] \subseteq Scopes
    BY DEF SuppInv, SuppTyped
  <2> QED BY <1>9, <1>10, <1>11, <2>1, <2>2 DEF SuppInv, BarredByRow, SuppTyped
<1>14. FlagOwed'
  <2>1. \A l \in Clerks \ {k}, d \in Contacts : Owes(l, d) => Owes(l, d)'
    BY <1>4 DEF Owes
  <2>2. \A d \in Contacts : Owes(k, d) => d = c /\ s = "global"
    BY <1>0, <1>2 DEF Owes, ScopeOf
  <2>3. "global" \in Scopes
    BY DEF Scopes
  <2> QED BY <1>6, <1>9, <1>10, <2>1, <2>2, <2>3 DEF SuppInv, FlagOwed
<1> QED BY <1>11, <1>12, <1>13, <1>14 DEF SuppInv

LEMMA SwitchOffKeeps ==
    ASSUME SuppInv, NEW k \in Clerks, SwitchOff(k)
    PROVE  SuppInv'
<1>1. /\ clerk[k].op = "lift" /\ clerk[k].pc = "start"
      /\ clerk[k] \in [op : {"lift"}, pc : {"start", "count", "flag"}, contact : Contacts, row : Rows]
  BY DEF SwitchOff, At, SuppInv, SuppTyped, ClerkType, Away, Writers
<1>2. PICK c \in Contacts, r \in Rows, z \in Scopes :
          c = clerk[k].contact /\ r = clerk[k].row /\ Concerns(r, c, z)
  <2>1. supp[clerk[k].row].contact = clerk[k].contact /\ supp[clerk[k].row].scope \in Scopes
    BY <1>1 DEF SuppInv, SuppTyped, RowsKept, RowType, Free, Scopes
  <2> QED BY <1>1, <2>1 DEF Concerns
<1>3. /\ supp' = [supp EXCEPT ![r].active = FALSE]
      /\ latest' = [latest EXCEPT ![c] = [latest[c] EXCEPT ![z] = r]]
      /\ barred' = [barred EXCEPT ![c] = barred[c] \ {z}]
      /\ UNCHANGED <<sendable, torn>>
  BY <1>2 DEF SwitchOff, Concerns
<1>4. /\ clerk'[k] = IF z = "global" THEN [clerk[k] EXCEPT !.pc = "count"] ELSE Away
      /\ \A l \in Clerks \ {k} : clerk'[l] = clerk[l]
      /\ clerk' \in [Clerks -> ClerkType]
  <2>1. [clerk[k] EXCEPT !.pc = "count"] \in ClerkType /\ Away \in ClerkType
    BY <1>1 DEF ClerkType
  <2>2. clerk' = [clerk EXCEPT ![k] = IF z = "global" THEN [clerk[k] EXCEPT !.pc = "count"] ELSE Away]
    BY <1>1, <1>2 DEF SwitchOff, Goto, Done, Concerns, SuppInv, SuppTyped
  <2> QED BY <2>1, <2>2 DEF SuppInv, SuppTyped
<1>5. /\ supp' \in [Rows -> RowType]
      /\ \A q \in Rows \ {r} : supp'[q] = supp[q]
      /\ supp'[r].contact = c /\ supp'[r].scope = z
  <2>1. supp[r] \in [contact : Contacts, scope : Scopes, active : BOOLEAN]
    BY <1>2, SuppressionAssumption DEF SuppInv, SuppTyped, RowType, Free, Concerns
  <2>2. [supp[r] EXCEPT !.active = FALSE] \in RowType
    BY <2>1 DEF RowType
  <2>3. supp' = [supp EXCEPT ![r] = [supp[r] EXCEPT !.active = FALSE]]
    BY <1>3
  <2> QED BY <1>2, <2>1, <2>2, <2>3 DEF SuppInv, SuppTyped, Concerns
<1>6. \A q \in Rows, d \in Contacts, y \in Scopes : Concerns(q, d, y) => Concerns(q, d, y)'
  BY <1>2, <1>5 DEF Concerns
<1>7. \A d \in Contacts, y \in Scopes : d # c \/ y # z => ActiveOf(d, y)' = ActiveOf(d, y)
  <2>1. \A d \in Contacts, y \in Scopes, q \in Rows :
            d # c \/ y # z => (q \in ActiveOf(d, y)' <=> q \in ActiveOf(d, y))
    BY <1>2, <1>5 DEF ActiveOf, RowsOf, Concerns
  <2>2. \A d, y : ActiveOf(d, y) \subseteq Rows /\ ActiveOf(d, y)' \subseteq Rows
    BY DEF ActiveOf, RowsOf
  <2> QED BY <2>1, <2>2
<1>8. SuppTyped'
  BY <1>3, <1>4, <1>5 DEF SuppInv, SuppTyped
<1>9. RowsKept'
  <2>1. ASSUME NEW d \in Contacts, NEW y \in Scopes, latest'[d][y] # None
        PROVE  supp'[latest'[d][y]].contact = d /\ supp'[latest'[d][y]].scope = y
    <3>1. PICK q \in Rows : q = latest'[d][y]
      BY <1>8, <2>1 DEF SuppTyped
    <3>2. latest'[d][y] = latest[d][y] \/ (d = c /\ y = z /\ q = r)
      BY <1>3, <3>1 DEF SuppInv, SuppTyped
    <3>3. Concerns(q, d, y)
      BY <1>2, <2>1, <3>1, <3>2 DEF SuppInv, RowsKept
    <3>4. Concerns(q, d, y)'
      BY <1>6, <3>3
    <3> QED BY <3>1, <3>4 DEF Concerns
  <2>2. ASSUME NEW l \in Clerks, clerk'[l].op \in Writers /\ clerk'[l].row # None
        PROVE  /\ supp'[clerk'[l].row].contact = clerk'[l].contact
               /\ supp'[clerk'[l].row].scope = ScopeOf(l)'
    <3>1. l # k
      BY <1>1, <1>4, <2>2 DEF Away, Writers
    <3>2. ScopeOf(l)' = ScopeOf(l) /\ clerk'[l] = clerk[l] /\ clerk[l].pc # "idle"
      BY <1>4, <2>2, <3>1 DEF ScopeOf, SuppInv, SuppTyped, ClerkType, Away, Writers
    <3>3. PICK q \in Rows, d \in Contacts, y \in Scopes :
              q = clerk[l].row /\ d = clerk[l].contact /\ y = ScopeOf(l)
      BY <2>2, <3>2, ClerkShape DEF SuppInv
    <3>4. Concerns(q, d, y)'
      BY <1>6, <2>2, <3>2, <3>3 DEF SuppInv, RowsKept
    <3> QED BY <3>2, <3>3, <3>4 DEF Concerns
  <2>3. ASSUME NEW l \in Clerks, clerk'[l].op = "lift"
        PROVE  /\ supp'[clerk'[l].row].contact = clerk'[l].contact
               /\ clerk'[l].pc # "start" => supp'[clerk'[l].row].scope = "global"
    <3>1. CASE l = k
      BY <1>1, <1>2, <1>4, <1>5, <2>3, <3>1 DEF Away
    <3>2. CASE l # k
      <4>1. /\ clerk[l].op = "lift" /\ clerk[l].pc # "idle" /\ clerk'[l] = clerk[l]
            /\ clerk[l].row \in Rows /\ clerk[l].contact \in Contacts
            /\ supp[clerk[l].row].contact = clerk[l].contact
            /\ clerk[l].pc # "start" => supp[clerk[l].row].scope = "global"
        BY <1>4, <2>3, <3>2 DEF SuppInv, SuppTyped, ClerkType, Away, Writers, RowsKept
      <4> QED BY <1>2, <1>5, <4>1 DEF Concerns
    <3> QED BY <3>1, <3>2
  <2> QED BY <2>1, <2>2, <2>3 DEF RowsKept, Concerns
<1>10. BarredByRow'
  <2>1. \A d \in Contacts : \A y \in barred'[d] : y \in barred[d] /\ y \in Scopes /\ (d # c \/ y # z)
    BY <1>3 DEF SuppInv, SuppTyped
  <2> QED BY <1>7, <2>1 DEF SuppInv, BarredByRow
<1>11. FlagOwed'
  <2>1. \A l \in Clerks \ {k}, d \in Contacts : Owes(l, d) => Owes(l, d)'
    BY <1>4 DEF Owes
  <2>2. \A d \in Contacts : ~Owes(k, d)
    BY <1>1 DEF Owes
  <2>3. z = "global" => Owes(k, c)'
    BY <1>1, <1>2, <1>4 DEF Owes
  <2>4. "global" \in Scopes
    BY DEF Scopes
  <2> QED BY <1>3, <1>7, <2>1, <2>2, <2>3, <2>4 DEF SuppInv, FlagOwed
<1> QED BY <1>8, <1>9, <1>10, <1>11 DEF SuppInv

LEMMA NameInAudienceKeeps ==
    ASSUME SuppInv, NEW c \in Contacts, NameInAudience(c)
    PROVE  SuppInv'
<1>1. SuppTyped'
  BY DEF SuppInv, SuppTyped, NameInAudience
<1>2. RowsKept'
  BY DEF SuppInv, RowsKept, Concerns, ScopeOf, NameInAudience
<1>3. BarredByRow'
  BY DEF SuppInv, BarredByRow, ActiveOf, RowsOf, NameInAudience
<1>4. FlagOwed'
  BY DEF SuppInv, SuppTyped, FlagOwed, ActiveOf, RowsOf, Owes, NameInAudience
<1> QED BY <1>1, <1>2, <1>3, <1>4 DEF SuppInv

\* A step that leaves the flags, the rows, the requests and the ghosts alone
\* keeps their invariant.
LEMMA SuppStutters ==
    ASSUME SuppInv, UNCHANGED <<sendable, supp, latest, clerk, barred, torn>>
    PROVE  SuppInv'
BY DEF SuppInv, SuppTyped, RowsKept, Concerns, ScopeOf, BarredByRow, ActiveOf, RowsOf, FlagOwed, Owes

LEMMA SuppKeeps ==
    ASSUME SuppInv, SuppNext
    PROVE  SuppInv'
<1>1. CASE \E k \in Clerks : \/ \E c \in Contacts : AskAdd(k, c) \/ AskBlock(k, c) \/ AskBounce(k, c)
                                                     \/ AskOptOut(k, c)
                             \/ \E r \in Rows : AskLift(k, r)
  BY <1>1, AskKeeps
<1>2. CASE \E k \in Clerks : ClerkStep(k) \/ ClerkDies(k)
  BY <1>2, ClearFlagKeeps, RecordOptOutKeeps, LookForRowKeeps, WriteRowKeeps, SwitchOffKeeps,
     CountOthersKeeps, SetFlagKeeps, ClerkDiesKeeps DEF ClerkStep
<1>3. CASE \E c \in Contacts : RecordConsent(c)
  BY <1>3, SuppStutters DEF RecordConsent
<1>4. CASE \E c \in Contacts : NameInAudience(c)
  BY <1>4, NameInAudienceKeeps
<1> QED BY <1>1, <1>2, <1>3, <1>4 DEF SuppNext

LEMMA SuppStarts == SuppInit => SuppInv
<1> SUFFICES ASSUME SuppInit PROVE SuppInv
  OBVIOUS
<1>1. SuppTyped
  BY DEF SuppInit, SuppTyped, RowType, ClerkType, Scopes
<1>2. RowsKept
  BY DEF SuppInit, RowsKept, Away, Writers
<1>3. BarredByRow /\ FlagOwed
  BY DEF SuppInit, BarredByRow, FlagOwed
<1> QED BY <1>1, <1>2, <1>3 DEF SuppInv

-----------------------------------------------------------------------------
(* The campaign keeps its invariant.                                       *)

\* Where a step of a call leads, and what it leaves alone.
LEMMA StepMoves ==
    ASSUME Typed, NEW x \in Actors, NEW from, NEW to \in Pcs, Step(x, from, to)
    PROVE  /\ act' \in [Actors -> [pc : Pcs, job : Jobs \cup {None}, reach : SUBSET Contacts,
                                   next : Nat \ {0}]]
           /\ act[x].pc = from /\ act'[x].pc = to
           /\ act'[x].job = IF to = "idle" THEN None ELSE act[x].job
           /\ to # "idle" => act'[x].next = act[x].next
           /\ \A y \in Actors \ {x} : act'[y] = act[y]
<1>1. act[x] \in [pc : Pcs, job : Jobs \cup {None}, reach : SUBSET Contacts, next : Nat \ {0}]
  BY DEF Typed
<1>2. Off \in [pc : Pcs, job : Jobs \cup {None}, reach : SUBSET Contacts, next : Nat \ {0}]
  BY DEF Off, Pcs, AddPcs
<1>3. [act[x] EXCEPT !.pc = to] \in [pc : Pcs, job : Jobs \cup {None}, reach : SUBSET Contacts,
                                    next : Nat \ {0}]
  BY <1>1
<1>4. act' = [act EXCEPT ![x] = IF to = "idle" THEN Off ELSE [act[x] EXCEPT !.pc = to]]
  BY DEF Step
<1>5. act'[x] = IF to = "idle" THEN Off ELSE [act[x] EXCEPT !.pc = to]
  BY <1>4 DEF Typed
<1> QED BY <1>1, <1>2, <1>3, <1>4, <1>5 DEF Typed, Off, Step

\* Nobody else is about to mail.
LEMMA CapStays ==
    ASSUME CapHolds, UNCHANGED <<mailed, gone, overlapped, revived>>,
           \A x \in Actors : act'[x].pc = "mail" => act[x].pc = "mail" /\ act'[x].next = act[x].next
    PROVE  CapHolds'
<1>1. \A x \in Actors, c \in Contacts : AtMail(x, c)' => AtMail(x, c)
  BY DEF AtMail, Member
<1>2. \A c \in Contacts : Counted(c)' = Counted(c)
  BY DEF Counted
<1> QED BY <1>1, <1>2 DEF CapHolds

\* Nobody else mails or changes a campaign that is stopped.
LEMMA SilentStays ==
    ASSUME Silent, UNCHANGED <<status, racing>>,
           \A x \in Actors : act'[x].pc \in QueuePcs =>
               act[x].pc \in QueuePcs \/ status \notin {"paused", "canceled"},
           \A x \in Actors : act'[x].pc \in {"approve", "pause", "cancel"} =>
               act[x].pc \in {"approve", "pause", "cancel"} \/ status # "canceled"
    PROVE  Silent'
BY DEF Silent

\* A call that goes on from one query to the next.
LEMMA CallGoesOn ==
    ASSUME CampaignInv, NEW x \in Actors, NEW from, NEW to \in JobPcs, Step(x, from, to),
           to # "mail", to \in QueuePcs => from \in QueuePcs \/ status = "scheduled" \/ status = "approved",
           from \notin AddPcs,
           UNCHANGED <<status, job, mailed, gone, lost, overlapped, racing, revived>>
    PROVE  CampaignInv'
<1>1. /\ Typed' /\ act[x].pc = from /\ act'[x].pc = to /\ act'[x].job = act[x].job
      /\ \A y \in Actors \ {x} : act'[y] = act[y]
  BY StepMoves DEF CampaignInv, Typed, JobPcs, AddPcs, QueuePcs, Pcs
<1>2. JobHolds'
  BY <1>1 DEF CampaignInv, JobHolds
<1>3. Carried'
  BY <1>1 DEF CampaignInv, Carried
<1>4. CapHolds'
  BY <1>1, CapStays DEF CampaignInv
<1>5. Silent'
  BY <1>1, SilentStays DEF CampaignInv, JobPcs, AddPcs, QueuePcs
<1> QED BY <1>1, <1>2, <1>3, <1>4, <1>5 DEF CampaignInv

\* A call that ends gives up its job, whatever becomes of that.
LEMMA CallEnds ==
    ASSUME CampaignInv, NEW x \in Actors, act' = [act EXCEPT ![x] = Off],
           UNCHANGED <<mailed, gone, overlapped, revived>>,
           lost' \in BOOLEAN, racing' \in BOOLEAN,
           job' \in [Jobs -> [state : {"none", "waiting", "active", "failed"}, tries : Nat]],
           \A j \in Jobs \ {act[x].job} : job[j].state = "active" => job'[j].state = "active"
    PROVE  /\ Typed' /\ JobHolds' /\ CapHolds'
           /\ act'[x] = Off /\ \A y \in Actors \ {x} : act'[y] = act[y]
           /\ UNCHANGED <<status, racing>> => Silent'
<1>1. /\ act'[x] = Off /\ \A y \in Actors \ {x} : act'[y] = act[y]
  BY DEF CampaignInv, Typed
<1>2. Typed'
  <2>1. Off \in [pc : Pcs, job : Jobs \cup {None}, reach : SUBSET Contacts, next : Nat \ {0}]
    BY DEF Off, Pcs, AddPcs
  <2> QED BY <2>1 DEF CampaignInv, Typed
<1>3. JobHolds'
  <2>1. \A y \in Actors : act'[y].job # None => y # x /\ act'[y] = act[y] /\ act[y].job \in Jobs
    BY <1>1 DEF Off, CampaignInv, Typed
  <2> QED BY <2>1 DEF CampaignInv, JobHolds
<1>4. CapHolds'
  BY <1>1, CapStays DEF CampaignInv, Off
<1>5. UNCHANGED <<status, racing>> => Silent'
  BY <1>1, SilentStays DEF CampaignInv, Off, QueuePcs
<1> QED BY <1>1, <1>2, <1>3, <1>4, <1>5

LEMMA EndsIsOff ==
    ASSUME NEW x \in Actors, NEW from, Step(x, from, "idle")
    PROVE  act[x].pc = from /\ act' = [act EXCEPT ![x] = Off]
BY DEF Step

JobsType == [Jobs -> [state : {"none", "waiting", "active", "failed"}, tries : Nat]]

\* What an error, and what a return makes of the job of a call.
LEMMA FailedJob ==
    ASSUME CampaignInv, NEW x \in Actors, job' = Failed(x)
    PROVE  /\ job' \in JobsType
           /\ \A j \in Jobs \ {act[x].job} : job'[j] = job[j]
           /\ act[x].job # None => job'[act[x].job].state \in {"waiting", "failed"}
           /\ act[x].job \in Jobs \cup {None}
<1>1. act[x].job \in Jobs \cup {None} /\ job \in JobsType
  BY DEF CampaignInv, Typed, JobsType
<1>2. CASE act[x].job = None
  BY <1>1, <1>2 DEF Failed
<1>3. CASE act[x].job # None
  <2> DEFINE j == act[x].job
             new == [state |-> IF job[j].tries + 1 < Attempts THEN "waiting" ELSE "failed",
                     tries |-> job[j].tries + 1]
  <2>1. j \in Jobs /\ job[j].tries \in Nat
    BY <1>1, <1>3 DEF JobsType
  <2>2. new \in [state : {"none", "waiting", "active", "failed"}, tries : Nat]
    BY <2>1
  <2>3. job' = [job EXCEPT ![j] = new]
    BY <1>3 DEF Failed
  <2>4. new.state \in {"waiting", "failed"}
    OBVIOUS
  <2> HIDE DEF new
  <2> QED BY <1>1, <2>1, <2>2, <2>3, <2>4 DEF JobsType
<1> QED BY <1>2, <1>3

LEMMA FinishedJob ==
    ASSUME CampaignInv, NEW x \in Actors
    PROVE  /\ Finished(x) \in JobsType
           /\ \A j \in Jobs \ {act[x].job} : Finished(x)[j] = job[j]
BY DEF CampaignInv, Typed, Finished, NoJob, JobsType

LEMMA FailsKeeps ==
    ASSUME CampaignInv, NEW x \in Actors, NEW from \in Pcs \ AddPcs, Fails(x, from),
           UNCHANGED <<status, mailed, gone, overlapped, racing, revived>>
    PROVE  CampaignInv'
<1>1. act[x].pc = from /\ act' = [act EXCEPT ![x] = Off]
  BY EndsIsOff DEF Fails
<1>2. /\ job' \in JobsType
      /\ \A j \in Jobs \ {act[x].job} : job'[j] = job[j]
      /\ act[x].job # None => act[x].job \in Jobs /\ job'[act[x].job].state \in {"waiting", "failed"}
  BY FailedJob DEF Fails
<1>3. lost' = (lost \/ \E j \in Jobs : job'[j].state = "failed") /\ lost \in BOOLEAN
  BY DEF Fails, CampaignInv, Typed
<1>4. /\ Typed' /\ JobHolds' /\ CapHolds' /\ Silent'
      /\ act'[x] = Off /\ \A y \in Actors \ {x} : act'[y] = act[y]
  BY <1>1, <1>2, <1>3, CallEnds DEF JobsType, CampaignInv, Typed
<1>5. Carried'
  <2> SUFFICES ASSUME status = "scheduled", ~lost'
               PROVE  \/ \E j \in Jobs : job'[j].state = "waiting"
                      \/ \E y \in Actors : act'[y].pc \in AddPcs \/ act'[y].job # None
    BY DEF Carried
  <2>1. CASE act[x].job # None
    BY <1>2, <1>3, <2>1
  <2>2. CASE act[x].job = None
    <3>1. \A j \in Jobs : job'[j] = job[j]
      BY <1>2, <2>2, CampaignAssumption DEF Jobs
    <3>2. Carried /\ ~lost
      BY <1>3 DEF CampaignInv
    <3> QED BY <1>1, <1>4, <2>2, <3>1, <3>2 DEF Carried
  <2> QED BY <2>1, <2>2
<1> QED BY <1>4, <1>5 DEF CampaignInv

LEMMA BeginKeeps ==
    ASSUME CampaignInv, NEW x \in Staff, BeginChange(x) \/ BeginQueue(x)
    PROVE  CampaignInv'
<1>1. PICK pc \in {"approve", "pause", "cancel", "require"} :
          /\ Begin(x, pc)
          /\ pc # "require" => status # "canceled"
  BY DEF BeginChange, BeginQueue, MayChange, Closed
<1> DEFINE new == [pc |-> pc, job |-> None, reach |-> {}, next |-> 1]
<1>2. act[x] = Off /\ act' = [act EXCEPT ![x] = new]
  <2>1. [Off EXCEPT !.pc = pc] = new
    BY DEF Off
  <2> QED BY <1>1, <2>1 DEF Begin
<1>3. /\ x \in Actors /\ act'[x] = new
      /\ \A y \in Actors \ {x} : act'[y] = act[y]
  BY <1>2 DEF CampaignInv, Typed, Actors
<1>4. UNCHANGED <<status, job, mailed, gone, lost, overlapped, racing, revived>>
  BY <1>1 DEF Begin
<1>5. Typed'
  <2>1. new \in [pc : Pcs, job : Jobs \cup {None}, reach : SUBSET Contacts, next : Nat \ {0}]
    BY DEF Pcs, JobPcs
  <2> QED BY <1>2, <1>4, <2>1 DEF CampaignInv, Typed
<1>6. JobHolds' /\ Carried'
  BY <1>2, <1>3, <1>4 DEF CampaignInv, JobHolds, Carried, Off, AddPcs
<1>7. CapHolds'
  BY <1>3, <1>4, CapStays DEF CampaignInv
<1>8. Silent'
  BY <1>1, <1>3, <1>4, SilentStays DEF CampaignInv, QueuePcs
<1> QED BY <1>5, <1>6, <1>7, <1>8 DEF CampaignInv

LEMMA ApproveKeeps ==
    ASSUME CampaignInv, NEW x \in Actors, Approve(x)
    PROVE  CampaignInv'
<1> DEFINE to == IF scheduled THEN "reread" ELSE "idle"
<1>1. /\ Typed' /\ act[x].pc = "approve" /\ act'[x].pc = to /\ act'[x].job = None
      /\ \A y \in Actors \ {x} : act'[y] = act[y]
  <2>1. to \in Pcs
    BY DEF Pcs, AddPcs
  <2>2. act[x].job = None
    BY DEF Approve, Step, CampaignInv, JobHolds, JobPcs, AddPcs, QueuePcs
  <2> QED BY <2>1, <2>2, StepMoves DEF Approve, CampaignInv, Typed
<1>2. JobHolds'
  BY <1>1 DEF CampaignInv, JobHolds, Approve
<1>3. Carried'
  BY <1>1 DEF Carried, Approve, AddPcs
<1>4. CapHolds'
  BY <1>1, CapStays DEF CampaignInv, Approve
<1>5. Silent'
  BY DEF Silent, Approve
<1> QED BY <1>1, <1>2, <1>3, <1>4, <1>5 DEF CampaignInv

\* A free slot of an actor has no job, and no job is called None.
LEMMA StaffHasNoJob ==
    ASSUME CampaignInv, NEW x \in Actors, act[x].pc \notin JobPcs
    PROVE  act[x].job = None
BY DEF CampaignInv, JobHolds

LEMMA RereadKeeps ==
    ASSUME CampaignInv, NEW x \in Actors, Reread(x)
    PROVE  CampaignInv'
<1>1. act[x].pc = "reread" /\ act[x].job = None
  BY StaffHasNoJob DEF Reread, Step, JobPcs, AddPcs, QueuePcs
<1>2. CASE status = "scheduled"
  <2>1. Step(x, "reread", "enqueue")
    BY <1>2 DEF Reread
  <2>2. /\ Typed' /\ act'[x].pc = "enqueue" /\ act'[x].job = None
        /\ \A y \in Actors \ {x} : act'[y] = act[y]
    BY <1>1, <2>1, StepMoves DEF Reread, CampaignInv, Typed, Pcs, AddPcs
  <2>3. JobHolds' /\ Carried'
    BY <2>2 DEF CampaignInv, JobHolds, Carried, AddPcs, Reread
  <2>4. CapHolds' /\ Silent'
    BY <1>2, <2>2, CapStays, SilentStays DEF CampaignInv, Reread, QueuePcs
  <2> QED BY <2>2, <2>3, <2>4 DEF CampaignInv
<1>3. CASE status # "scheduled"
  <2>1. act' = [act EXCEPT ![x] = Off]
    BY <1>3, EndsIsOff DEF Reread
  <2>2. Typed' /\ JobHolds' /\ CapHolds' /\ Silent'
    BY <2>1, CallEnds DEF Reread, CampaignInv, Typed
  <2>3. Carried'
    BY <1>3 DEF Carried, Reread
  <2> QED BY <2>2, <2>3 DEF CampaignInv
<1> QED BY <1>2, <1>3

LEMMA EnqueueKeeps ==
    ASSUME CampaignInv, NEW x \in Actors, Enqueue(x)
    PROVE  CampaignInv'
<1>1. act[x].pc = "enqueue" /\ act' = [act EXCEPT ![x] = Off] /\ act[x].job = None
  BY EndsIsOff, StaffHasNoJob DEF Enqueue, JobPcs, AddPcs, QueuePcs
<1>2. /\ job' \in JobsType /\ lost' \in BOOLEAN
      /\ \A j \in Jobs : job[j].state # "none" => job'[j] = job[j]
      /\ job["due"].state = "none" => job'["due"].state = "waiting"
  BY DEF Enqueue, Add, Swallowed, CampaignInv, Typed, JobsType, Jobs
<1>3. Typed' /\ JobHolds' /\ CapHolds' /\ Silent'
  BY <1>1, <1>2, CallEnds DEF JobsType, CampaignInv, Typed, Enqueue
<1>4. Carried'
  <2>1. "due" \in Jobs /\ job["due"].state \in {"none", "waiting", "active", "failed"}
    BY DEF Jobs, CampaignInv, Typed
  <2>2. lost' \/ job'["due"].state = "waiting"
    BY <1>2, <2>1 DEF Enqueue, Swallowed
  <2> QED BY <2>1, <2>2 DEF Carried
<1> QED BY <1>3, <1>4 DEF CampaignInv

LEMMA StopKeeps ==
    ASSUME CampaignInv, NEW x \in Actors, Stop(x)
    PROVE  CampaignInv'
<1>1. /\ act' = [act EXCEPT ![x] = Off] /\ status' \in {"paused", "canceled"}
      /\ act[x].pc \in {"pause", "cancel"}
  BY EndsIsOff DEF Stop
<1>2. /\ UNCHANGED <<job, mailed, gone, lost, overlapped, revived>>
      /\ racing' = (\E y \in Actors \ {x} : act[y].pc # "idle")
  BY DEF Stop, Working
<1>3. /\ Typed' /\ JobHolds' /\ CapHolds'
      /\ act'[x] = Off /\ \A y \in Actors \ {x} : act'[y] = act[y]
  BY <1>1, <1>2, CallEnds DEF CampaignInv, Typed
<1>4. Carried'
  BY <1>1 DEF Carried
<1>5. Silent'
  BY <1>2, <1>3 DEF Silent, Off, QueuePcs
<1> QED BY <1>3, <1>4, <1>5 DEF CampaignInv

LEMMA TakeJobKeeps ==
    ASSUME CampaignInv, NEW x \in Workers, NEW j \in Jobs, TakeJob(x, j)
    PROVE  CampaignInv'
<1> DEFINE new == [Off EXCEPT !.pc = "check", !.job = j]
<1>0. /\ new \in [pc : Pcs, job : Jobs \cup {None}, reach : SUBSET Contacts, next : Nat \ {0}]
      /\ new.pc = "check" /\ new.job = j
  <2>1. Off \in [pc : Pcs, job : Jobs \cup {None}, reach : SUBSET Contacts, next : Nat \ {0}]
    BY DEF Off, Pcs, AddPcs
  <2> QED BY <2>1 DEF Pcs, JobPcs
<1> HIDE DEF new
<1>1. /\ act[x] = Off /\ act' = [act EXCEPT ![x] = new] /\ job[j].state = "waiting"
      /\ job' = [job EXCEPT ![j].state = "active"]
      /\ UNCHANGED <<status, mailed, gone, lost, overlapped, racing, revived>>
  BY DEF TakeJob, new
<1>2. /\ x \in Actors /\ act'[x] = new
      /\ \A y \in Actors \ {x} : act'[y] = act[y]
      /\ job'[j].state = "active" /\ \A i \in Jobs \ {j} : job'[i] = job[i]
      /\ job' \in JobsType
  BY <1>1 DEF CampaignInv, Typed, Actors, JobsType
<1>3. Typed'
  BY <1>0, <1>1, <1>2 DEF CampaignInv, Typed, JobsType
<1>4. \A y \in Actors : act[y].job # j
  BY <1>1, CampaignAssumption DEF CampaignInv, JobHolds, Jobs
<1>5. JobHolds'
  <2>1. \A y \in Actors : act[y].job \in Jobs \cup {None}
    BY DEF CampaignInv, Typed
  <2> QED BY <1>0, <1>2, <1>4, <2>1 DEF CampaignInv, JobHolds, JobPcs
<1>6. Carried'
  BY <1>0, <1>2, CampaignAssumption DEF Carried, Jobs
<1>7. CapHolds'
  BY <1>0, <1>1, <1>2, CapStays DEF CampaignInv
<1>8. Silent'
  BY <1>0, <1>1, <1>2, SilentStays DEF CampaignInv, QueuePcs
<1> QED BY <1>3, <1>5, <1>6, <1>7, <1>8 DEF CampaignInv

LEMMA CheckStatusKeeps ==
    ASSUME CampaignInv, NEW x \in Actors, CheckStatus(x)
    PROVE  CampaignInv'
<1>1. CASE StillDue
  BY <1>1, CallGoesOn DEF CheckStatus, StillDue, JobPcs, AddPcs, QueuePcs
<1>2. CASE ~StillDue
  <2>1. act' = [act EXCEPT ![x] = Off] /\ job' = Finished(x)
    BY <1>2, EndsIsOff DEF CheckStatus
  <2>2. Typed' /\ JobHolds' /\ CapHolds' /\ Silent'
    <3>1. job' \in JobsType /\ \A j \in Jobs \ {act[x].job} : job'[j] = job[j]
      BY <2>1, FinishedJob
    <3> QED BY <2>1, <3>1, CallEnds DEF JobsType, CampaignInv, Typed, CheckStatus
  <2>3. Carried'
    BY <1>2 DEF Carried, StillDue, CheckStatus
  <2> QED BY <2>2, <2>3 DEF CampaignInv
<1> QED BY <1>1, <1>2

LEMMA CheckHoursKeeps ==
    ASSUME CampaignInv, NEW x \in Actors, CheckHours(x)
    PROVE  CampaignInv'
<1>1. CASE ~quiet
  BY <1>1, CallGoesOn DEF CheckHours, JobPcs, AddPcs, QueuePcs
<1>2. CASE quiet
  <2>1. PICK j \in LaterJobs : job[j] = NoJob /\ job' = Postponed(x, j)
    BY <1>2 DEF CheckHours
  <2>2. act[x].pc = "hours" /\ act' = [act EXCEPT ![x] = Off]
    BY <1>2, EndsIsOff DEF CheckHours
  <2>3. /\ job' \in JobsType /\ j \in Jobs /\ job'[j].state = "waiting"
        /\ \A i \in Jobs \ {act[x].job} : job[i].state = "active" => job'[i].state = "active"
    <3>1. [state |-> "waiting", tries |-> 0] \in
             [state : {"none", "waiting", "active", "failed"}, tries : Nat]
      OBVIOUS
    <3>2. j \in Jobs /\ job[j].state = "none"
      BY <2>1 DEF Jobs, NoJob
    <3> QED BY <2>1, <3>1, <3>2, FinishedJob DEF Postponed, JobsType
  <2>4. Typed' /\ JobHolds' /\ CapHolds' /\ Silent'
    BY <2>2, <2>3, CallEnds DEF JobsType, CampaignInv, Typed, CheckHours
  <2>5. Carried'
    BY <2>3 DEF Carried
  <2> QED BY <2>4, <2>5 DEF CampaignInv
<1> QED BY <1>1, <1>2

LEMMA RequireKeeps ==
    ASSUME CampaignInv, NEW x \in Actors, Require(x)
    PROVE  CampaignInv'
<1>1. CASE MaySend
  BY <1>1, CallGoesOn DEF Require, MaySend, JobPcs, AddPcs, QueuePcs
<1>2. CASE ~MaySend
  BY <1>2, FailsKeeps DEF Require, Pcs, JobPcs, AddPcs
<1> QED BY <1>1, <1>2

LEMMA ReadMembersKeeps ==
    ASSUME CampaignInv, NEW x \in Actors, ReadMembers(x)
    PROVE  CampaignInv'
<1>1. PICK reach \in SUBSET Contacts :
          act' = [act EXCEPT ![x].pc = "settings", ![x].reach = reach]
  BY DEF ReadMembers
<1> DEFINE new == [act[x] EXCEPT !.pc = "settings", !.reach = reach]
<1>2. /\ act' = [act EXCEPT ![x] = new] /\ act[x].pc = "members"
      /\ act[x] \in [pc : Pcs, job : Jobs \cup {None}, reach : SUBSET Contacts, next : Nat \ {0}]
  BY <1>1 DEF ReadMembers, CampaignInv, Typed
<1>3. /\ new \in [pc : Pcs, job : Jobs \cup {None}, reach : SUBSET Contacts, next : Nat \ {0}]
      /\ new.pc = "settings" /\ new.job = act[x].job
  BY <1>2 DEF Pcs, JobPcs, AddPcs, QueuePcs
<1> HIDE DEF new
<1>4. act'[x] = new /\ \A y \in Actors \ {x} : act'[y] = act[y]
  BY <1>2 DEF CampaignInv, Typed
<1>5. UNCHANGED <<status, job, mailed, gone, lost, overlapped, racing, revived>>
  BY DEF ReadMembers
<1>6. Typed'
  BY <1>2, <1>3, <1>5 DEF CampaignInv, Typed
<1>7. JobHolds' /\ Carried'
  BY <1>2, <1>3, <1>4, <1>5 DEF CampaignInv, JobHolds, Carried, JobPcs, AddPcs, QueuePcs
<1>8. CapHolds'
  BY <1>3, <1>4, <1>5, CapStays DEF CampaignInv
<1>9. Silent'
  BY <1>2, <1>3, <1>4, <1>5, SilentStays DEF CampaignInv, QueuePcs
<1> QED BY <1>6, <1>7, <1>8, <1>9 DEF CampaignInv

LEMMA ReadSettingsKeeps ==
    ASSUME CampaignInv, NEW x \in Actors, ReadSettings(x)
    PROVE  CampaignInv'
<1>1. CASE enabled /\ ~quiet
  BY <1>1, CallGoesOn DEF ReadSettings, JobPcs, AddPcs, QueuePcs
<1>2. CASE ~(enabled /\ ~quiet)
  BY <1>2, FailsKeeps DEF ReadSettings, Pcs, JobPcs, AddPcs, QueuePcs
<1> QED BY <1>1, <1>2

LEMMA MarkSendingKeeps ==
    ASSUME CampaignInv, NEW x \in Actors, MarkSending(x)
    PROVE  CampaignInv'
<1>1. act' = [act EXCEPT ![x] = Off] /\ job' = Finished(x) /\ status' = "sending"
  BY EndsIsOff DEF MarkSending
<1>2. Typed' /\ JobHolds' /\ CapHolds'
  <2>1. job' \in JobsType /\ \A j \in Jobs \ {act[x].job} : job'[j] = job[j]
    BY <1>1, FinishedJob
  <2> QED BY <1>1, <2>1, CallEnds DEF JobsType, CampaignInv, Typed, MarkSending
<1>3. Carried' /\ Silent'
  BY <1>1 DEF Carried, Silent
<1> QED BY <1>2, <1>3 DEF CampaignInv

LEMMA ThrowsKeeps ==
    ASSUME CampaignInv, NEW x \in Actors, Throws(x)
    PROVE  CampaignInv'
<1>1. PICK pc \in Pcs :
          /\ Step(x, pc, "idle")
          /\ job' = Failed(x)
          /\ lost' = (lost \/ pc \in AddPcs \/ \E j \in Jobs : job'[j].state = "failed")
  BY DEF Throws, Pcs, JobPcs, AddPcs, QueuePcs
<1>2. UNCHANGED <<status, mailed, gone, overlapped, racing, revived>>
  BY DEF Throws
<1>3. CASE pc \notin AddPcs
  BY <1>1, <1>2, <1>3, FailsKeeps DEF Fails
<1>4. CASE pc \in AddPcs
  <2>1. act' = [act EXCEPT ![x] = Off] /\ lost'
    BY <1>1, <1>4, EndsIsOff
  <2>2. Typed' /\ JobHolds' /\ CapHolds' /\ Silent'
    BY <1>1, <1>2, <2>1, FailedJob, CallEnds DEF JobsType, CampaignInv, Typed
  <2>3. Carried'
    BY <2>1 DEF Carried
  <2> QED BY <2>2, <2>3 DEF CampaignInv
<1> QED BY <1>3, <1>4

LEMMA DiesKeeps ==
    ASSUME CampaignInv, NEW x \in Actors, Dies(x)
    PROVE  CampaignInv'
<1>1. /\ act' = [act EXCEPT ![x] = Off] /\ lost' = (lost \/ act[x].pc \in AddPcs)
      /\ UNCHANGED <<status, mailed, gone, overlapped, racing, revived>>
  BY DEF Dies, AddPcs
<1>2. /\ job' \in JobsType /\ \A j \in Jobs \ {act[x].job} : job'[j] = job[j]
      /\ act[x].job # None => act[x].job \in Jobs /\ job'[act[x].job].state = "waiting"
      /\ act[x].job = None => job' = job
  BY DEF Dies, CampaignInv, Typed, JobsType
<1>3. /\ Typed' /\ JobHolds' /\ CapHolds' /\ Silent'
      /\ act'[x] = Off /\ \A y \in Actors \ {x} : act'[y] = act[y]
  BY <1>1, <1>2, CallEnds DEF JobsType, CampaignInv, Typed
<1>4. Carried'
  <2>1. CASE act[x].job # None
    BY <1>2, <2>1 DEF Carried
  <2>2. CASE act[x].job = None
    BY <1>1, <1>2, <1>3, <2>2 DEF CampaignInv, Carried, Typed
  <2> QED BY <2>1, <2>2
<1> QED BY <1>3, <1>4 DEF CampaignInv

\* The call goes on to the next member.
LEMMA OnwardMoves ==
    ASSUME CampaignInv, NEW x \in Actors, Onward(x)
    PROVE  /\ act' \in [Actors -> [pc : Pcs, job : Jobs \cup {None}, reach : SUBSET Contacts,
                                   next : Nat \ {0}]]
           /\ act'[x].pc = "cap" /\ act'[x].job = act[x].job
           /\ \A y \in Actors \ {x} : act'[y] = act[y]
<1> DEFINE new == [act[x] EXCEPT !.pc = "cap", !.next = act[x].next + 1]
<1>1. /\ act' = [act EXCEPT ![x] = new]
      /\ act[x] \in [pc : Pcs, job : Jobs \cup {None}, reach : SUBSET Contacts, next : Nat \ {0}]
  BY DEF Onward, CampaignInv, Typed
<1>2. /\ new \in [pc : Pcs, job : Jobs \cup {None}, reach : SUBSET Contacts, next : Nat \ {0}]
      /\ new.pc = "cap" /\ new.job = act[x].job
  <2>1. act[x].next + 1 \in Nat \ {0}
    BY <1>1
  <2>2. "cap" \in Pcs
    BY DEF Pcs, JobPcs, AddPcs, QueuePcs
  <2> QED BY <1>1, <2>1, <2>2
<1> HIDE DEF new
<1> QED BY <1>1, <1>2 DEF CampaignInv, Typed

LEMMA OnwardKeeps ==
    ASSUME CampaignInv, NEW x \in Actors, Onward(x), act[x].pc = "cap",
           UNCHANGED <<status, job, mailed, gone, lost, overlapped, racing, revived>>
    PROVE  CampaignInv'
<1>1. /\ act' \in [Actors -> [pc : Pcs, job : Jobs \cup {None}, reach : SUBSET Contacts,
                              next : Nat \ {0}]]
      /\ act'[x].pc = "cap" /\ act'[x].job = act[x].job
      /\ \A y \in Actors \ {x} : act'[y] = act[y]
  BY OnwardMoves
<1>2. Typed'
  BY <1>1 DEF CampaignInv, Typed
<1>3. JobHolds' /\ Carried'
  BY <1>1 DEF CampaignInv, JobHolds, Carried, JobPcs, AddPcs, QueuePcs
<1>4. CapHolds'
  BY <1>1, CapStays DEF CampaignInv
<1>5. Silent'
  BY <1>1, SilentStays DEF CampaignInv, QueuePcs
<1> QED BY <1>2, <1>3, <1>4, <1>5 DEF CampaignInv

LEMMA CheckMemberKeeps ==
    ASSUME CampaignInv, NEW x \in Actors, CheckMember(x)
    PROVE  CampaignInv'
<1>1. CASE ~(Member(x) \in act[x].reach /\ UnderCap(Member(x)))
  <2>1. Onward(x) /\ UNCHANGED overlapped /\ act[x].pc = "cap"
    BY <1>1 DEF CheckMember
  <2> QED BY <2>1, OnwardKeeps DEF CheckMember
<1>2. CASE Member(x) \in act[x].reach /\ UnderCap(Member(x))
  <2>1. PICK c \in Contacts : c = Member(x)
    BY <1>2 DEF CampaignInv, Typed
  <2>2. /\ Step(x, "cap", "mail") /\ UnderCap(c)
        /\ overlapped' = overlapped \cup
              {d \in {c} : \E y \in Actors \ {x} : act[y].pc = "mail" /\ Member(y) = d}
        /\ UNCHANGED <<status, job, mailed, gone, lost, racing, revived>>
    BY <1>2, <2>1 DEF CheckMember
  <2>3. /\ Typed' /\ act[x].pc = "cap" /\ act'[x].pc = "mail" /\ act'[x].job = act[x].job
        /\ act'[x].next = act[x].next
        /\ \A y \in Actors \ {x} : act'[y] = act[y]
    BY <2>2, StepMoves DEF CampaignInv, Typed, Pcs, JobPcs, AddPcs, QueuePcs
  <2>4. JobHolds' /\ Carried'
    BY <2>2, <2>3 DEF CampaignInv, JobHolds, Carried, JobPcs, AddPcs, QueuePcs
  <2>5. Silent'
    BY <2>2, <2>3, SilentStays DEF CampaignInv, QueuePcs
  <2>6. CapHolds'
    <3>1. \A y \in Actors, d \in Contacts : AtMail(y, d)' <=> AtMail(y, d) \/ (y = x /\ d = c)
      BY <2>1, <2>3 DEF AtMail, Member
    <3>2. \A d \in Contacts : Counted(d)' = Counted(d)
      BY <2>2 DEF Counted
    <3>3. Counted(c) < Cap
      BY <2>2 DEF UnderCap
    <3>4. \A y \in Actors \ {x} : AtMail(y, c) => c \in overlapped'
      BY <2>2 DEF AtMail
    <3>5. act[x].next <= Len(Members)
      BY DEF CheckMember, More
    <3>6. \A y \in Actors : act'[y].pc = "mail" => act'[y].next <= Len(Members)
      BY <2>3, <3>5 DEF CampaignInv, CapHolds
    <3>7. ASSUME NEW d \in Contacts, d \notin overlapped'
          PROVE  \A y, z \in Actors : AtMail(y, d)' /\ AtMail(z, d)' => y = z
      BY <2>2, <3>1, <3>4, <3>7 DEF CampaignInv, CapHolds
    <3>8. ASSUME NEW d \in Contacts, d \notin overlapped' \cup revived'
          PROVE  /\ Counted(d)' <= Cap
                 /\ \A y \in Actors : AtMail(y, d)' => Counted(d)' < Cap
      BY <2>2, <3>1, <3>2, <3>3, <3>8 DEF CampaignInv, CapHolds
    <3> QED BY <2>2, <3>6, <3>7, <3>8 DEF CampaignInv, CapHolds
  <2> QED BY <2>3, <2>4, <2>5, <2>6 DEF CampaignInv
<1> QED BY <1>1, <1>2

LEMMA MailKeepsCap ==
    ASSUME CampaignInv, NEW x \in Actors, Mail(x)
    PROVE  CampaignInv'
<1>1. act[x].pc = "mail" /\ act[x].next \in 1..Len(Members)
  BY DEF Mail, CampaignInv, CapHolds, Typed
<1>2. PICK c \in Contacts : c = Member(x)
  BY <1>1, CampaignAssumption DEF Member
<1>3. /\ Onward(x) /\ mailed' = [mailed EXCEPT ![c] = mailed[c] + 1]
      /\ UNCHANGED <<status, job, gone, lost, overlapped, racing, revived>>
  BY <1>2 DEF Mail
<1>4. /\ act' \in [Actors -> [pc : Pcs, job : Jobs \cup {None}, reach : SUBSET Contacts,
                              next : Nat \ {0}]]
      /\ act'[x].pc = "cap" /\ act'[x].job = act[x].job
      /\ \A y \in Actors \ {x} : act'[y] = act[y]
  BY <1>3, OnwardMoves DEF CampaignInv
<1>5. Typed'
  BY <1>3, <1>4 DEF CampaignInv, Typed
<1>6. JobHolds' /\ Carried'
  BY <1>1, <1>3, <1>4 DEF CampaignInv, JobHolds, Carried, JobPcs, AddPcs, QueuePcs
<1>7. Silent'
  BY <1>1, <1>3, <1>4, SilentStays DEF CampaignInv, QueuePcs
<1>8. CapHolds'
  <2>1. \A y \in Actors, d \in Contacts : AtMail(y, d)' => AtMail(y, d) /\ y # x
    BY <1>4 DEF AtMail, Member
  <2>2. AtMail(x, c)
    BY <1>1, <1>2 DEF AtMail
  <2>3. /\ \A d \in Contacts : d # c => Counted(d)' = Counted(d)
        /\ Counted(c)' = Counted(c) + 1 /\ Counted(c) \in Int
    <3>1. \A d \in Contacts : mailed[d] \in Nat /\ gone[d] \in Nat
      BY DEF CampaignInv, Typed
    <3>2. mailed'[c] = mailed[c] + 1 /\ \A d \in Contacts : d # c => mailed'[d] = mailed[d]
      BY <1>3 DEF CampaignInv, Typed
    <3> QED BY <1>3, <3>1, <3>2 DEF Counted
  <2>4. \A y \in Actors : act'[y].pc = "mail" => act'[y].next <= Len(Members)
    BY <1>4 DEF CampaignInv, CapHolds
  <2>5. \A d \in Contacts : gone'[d] <= mailed'[d]
    BY <1>3 DEF CampaignInv, CapHolds, Typed
  <2>6. ASSUME NEW d \in Contacts, d \notin overlapped' \cup revived'
        PROVE  /\ Counted(d)' <= Cap
               /\ \A y \in Actors : AtMail(y, d)' => Counted(d)' < Cap
    <3>1. CASE d = c
      <4>1. Counted(c) < Cap /\ \A y \in Actors : ~AtMail(y, c)'
        BY <1>3, <2>1, <2>2, <2>6, <3>1 DEF CampaignInv, CapHolds
      <4> QED BY <2>3, <3>1, <4>1, CampaignAssumption
    <3>2. CASE d # c
      BY <1>3, <2>1, <2>3, <2>6, <3>2 DEF CampaignInv, CapHolds
    <3> QED BY <3>1, <3>2
  <2> QED BY <1>3, <2>1, <2>4, <2>5, <2>6 DEF CampaignInv, CapHolds
<1> QED BY <1>5, <1>6, <1>7, <1>8 DEF CampaignInv

LEMMA DeliveriesKeep ==
    ASSUME CampaignInv, NEW c \in Contacts, MailFails(c) \/ MailRetried(c)
    PROVE  CampaignInv'
<1>1. /\ UNCHANGED <<status, job, act, mailed, lost, overlapped, racing>>
      /\ \A d \in Contacts \ {c} : gone'[d] = gone[d]
      /\ gone' \in [Contacts -> Nat]
  BY DEF MailFails, MailRetried, SameCampaign, Counted, CampaignInv, Typed
<1>2. \A x \in Actors, d \in Contacts : AtMail(x, d)' <=> AtMail(x, d)
  BY <1>1 DEF AtMail, Member
<1>3. \/ gone'[c] = gone[c] + 1 /\ gone[c] < mailed[c] /\ revived' = revived
      \/ gone'[c] = gone[c] - 1 /\ revived' = revived \cup {c}
  BY DEF MailFails, MailRetried, Counted, CampaignInv, Typed
<1>4. Typed' /\ JobHolds' /\ Carried' /\ Silent'
  BY <1>1 DEF CampaignInv, Typed, JobHolds, Carried, Silent
<1>5. CapHolds'
  <2>1. \A d \in Contacts : gone'[d] <= mailed'[d]
    <3>1. \A d \in Contacts : mailed[d] \in Nat /\ gone[d] \in Nat /\ gone[d] <= mailed[d]
      BY DEF CampaignInv, CapHolds, Typed
    <3>2. gone'[c] <= mailed[c]
      BY <1>3, <3>1
    <3> QED BY <1>1, <3>1, <3>2
  <2>2. ASSUME NEW d \in Contacts, d \notin overlapped' \cup revived'
        PROVE  Counted(d)' <= Counted(d) /\ Counted(d)' \in Int /\ Counted(d) \in Int
    BY <1>1, <1>3, <2>2 DEF Counted, CampaignInv, Typed
  <2>3. ASSUME NEW d \in Contacts, d \notin overlapped' \cup revived'
        PROVE  /\ Counted(d)' <= Cap
               /\ \A y \in Actors : AtMail(y, d)' => Counted(d)' < Cap
    <3>1. d \notin overlapped \cup revived
      BY <1>1, <1>3, <2>3
    <3> QED BY <1>2, <2>2, <2>3, <3>1, CampaignAssumption DEF CampaignInv, CapHolds
  <2> QED BY <1>1, <1>2, <2>1, <2>3 DEF CampaignInv, CapHolds
<1> QED BY <1>4, <1>5 DEF CampaignInv

LEMMA ActStepKeeps ==
    ASSUME CampaignInv, NEW x \in Actors, ActStep(x)
    PROVE  CampaignInv'
BY ApproveKeeps, RereadKeeps, EnqueueKeeps, StopKeeps, CheckStatusKeeps, CheckHoursKeeps,
   RequireKeeps, ReadMembersKeeps, ReadSettingsKeeps, CheckMemberKeeps, MailKeepsCap, MarkSendingKeeps DEF ActStep

LEMMA CampaignStutters ==
    ASSUME CampaignInv,
           UNCHANGED <<job, act, mailed, gone, lost, overlapped, racing, revived>>,
           status' = status \/ status' = "completed"
    PROVE  CampaignInv'
BY DEF CampaignInv, Typed, JobHolds, Carried, CapHolds, AtMail, Member, Counted, Silent

LEMMA CampaignKeeps ==
    ASSUME CampaignInv, [Next]_vars
    PROVE  CampaignInv'
<1>1. CASE \E x \in Staff : BeginChange(x) \/ BeginQueue(x)
  BY <1>1, BeginKeeps
<1>2. CASE \E x \in Workers, j \in Jobs : TakeJob(x, j)
  BY <1>2, TakeJobKeeps
<1>3. CASE \E x \in Actors : ActStep(x) \/ Throws(x) \/ Dies(x)
  BY <1>3, ActStepKeeps, ThrowsKeeps, DiesKeeps
<1>4. CASE \E c \in Contacts : MailFails(c) \/ MailRetried(c)
  BY <1>4, DeliveriesKeep
<1>5. CASE Reconcile \/ PatchControls \/ QuietBegins \/ QuietEnds
  BY <1>5, CampaignStutters DEF Reconcile, PatchControls, QuietBegins, QuietEnds
<1>6. CASE (SuppNext /\ UNCHANGED campaignVars) \/ UNCHANGED vars
  BY <1>6, CampaignStutters DEF campaignVars, vars
<1> QED BY <1>1, <1>2, <1>3, <1>4, <1>5, <1>6 DEF Next

LEMMA CampaignStarts == Init => CampaignInv
<1> SUFFICES ASSUME Init PROVE CampaignInv
  OBVIOUS
<1> DEFINE Held == [state : {"none", "waiting", "active", "failed"}, tries : Nat]
           Calls == [pc : Pcs, job : Jobs \cup {None}, reach : SUBSET Contacts, next : Nat \ {0}]
<1>a. NoJob \in Held /\ Off \in Calls
  BY DEF NoJob, Off, Pcs
<1>b. job \in [Jobs -> Held] /\ act \in [Actors -> Calls]
  <2> HIDE DEF Held, Calls
  <2> QED BY <1>a DEF Init
<1>1. Typed
  BY <1>b DEF Init, Typed
<1>2. JobHolds /\ Carried /\ Silent
  BY DEF Init, JobHolds, Carried, Silent, Off
<1>3. CapHolds
  BY CampaignAssumption DEF Init, CapHolds, AtMail, Counted, Off
<1> QED BY <1>1, <1>2, <1>3 DEF CampaignInv

-----------------------------------------------------------------------------
(* Both together.                                                          *)

\* No step of the campaign touches the suppressions.
LEMMA SuppAlways ==
    ASSUME SuppInv, [Next]_vars
    PROVE  SuppInv'
<1>1. CASE SuppNext
  BY <1>1, SuppKeeps
<1>2. CASE UNCHANGED <<sendable, supp, latest, clerk, barred, torn>>
  BY <1>2, SuppStutters
<1>3. SuppNext \/ UNCHANGED <<sendable, supp, latest, clerk, barred, torn>>
  <2>1. ASSUME NEW x \in Actors, ActStep(x) \/ Throws(x) \/ Dies(x)
        PROVE  UNCHANGED <<sendable, supp, latest, clerk, barred, torn>>
    BY <2>1 DEF ActStep, Approve, Reread, Enqueue, Stop, CheckStatus, CheckHours, Require, ReadMembers,
       ReadSettings, CheckMember, Mail, MarkSending, Throws, Dies, SameSupp, suppVars
  <2> QED BY <2>1 DEF Next, BeginChange, BeginQueue, Begin, TakeJob, MailFails, MailRetried,
          Reconcile, PatchControls, QuietBegins, QuietEnds, SameSupp, suppVars, vars
<1> QED BY <1>1, <1>2, <1>3

\* The two invariants hold together: the campaign reads the suppressions.
THEOREM InvAlways == Spec => [](SuppInv /\ CampaignInv)
<1>1. Init => SuppInv /\ CampaignInv
  BY SuppStarts, CampaignStarts DEF Init
<1>2. SuppInv /\ CampaignInv /\ [Next]_vars => (SuppInv /\ CampaignInv)'
  BY SuppAlways, CampaignKeeps
<1> QED BY <1>1, <1>2, PTL DEF Spec

\* In whatever order the queries of suppressions, unsubscriptions and their
\* lifting run, a contact that is barred cannot be mailed by a campaign: an
\* active row concerns it, whatever has become of its flag.
THEOREM BarredHolds == Spec => []BarredIsUnreachable
<1>1. SuppInv => BarredIsUnreachable
  BY DEF SuppInv, SuppTyped, BarredByRow, BarredIsUnreachable, Reachable
<1> QED BY <1>1, InvAlways, PTL

\* A contact nobody suppresses any more can be mailed again: its flag is not
\* left cleared by the order in which requests ran.
THEOREM LiftedHolds == Spec => []LiftedIsSendable
<1>1. SuppInv => LiftedIsSendable
  BY DEF SuppInv, FlagOwed, Owes, LiftedIsSendable
<1> QED BY <1>1, InvAlways, PTL

\* Calls that are tried again, resumed or made by hand keep the frequency cap
\* unless they overlap or a failed mail comes back.
THEOREM CapHoldsAlways == Spec => []CapUnlessOverlapped
<1>1. CampaignInv => CapUnlessOverlapped
  BY CampaignAssumption DEF CampaignInv, Typed, CapHolds, CapUnlessOverlapped, Counted
<1> QED BY <1>1, InvAlways, PTL

\* A scheduled campaign is taken up, unless its job is known to be lost.
THEOREM ScheduledHolds == Spec => []ScheduledHasJob
<1>1. CampaignInv => ScheduledHasJob
  BY DEF CampaignInv, JobHolds, Carried, ScheduledHasJob, JobPcs, AddPcs, QueuePcs
<1> QED BY <1>1, InvAlways, PTL

\* A campaign stopped with no call at work mails nobody and is not marked as
\* being sent: no call that read an earlier status is left to do so.
THEOREM StoppedStaysSilent == Spec => StoppedIsSilent
<1> DEFINE Kept == /\ mailed' = mailed
                   /\ status' = status \/ (status = "paused" /\ status' # "sending")
<1>1. ASSUME CampaignInv, [Next]_vars, ~racing, status \in {"paused", "canceled"}
      PROVE  Kept
  <2>1. \A x \in Actors : act[x].pc \notin {"cap", "mail"}
    BY <1>1 DEF CampaignInv, Silent, QueuePcs
  <2>2. status = "canceled" => \A x \in Actors : act[x].pc \notin {"approve", "pause", "cancel"}
    BY <1>1 DEF CampaignInv, Silent
  <2>3. ASSUME NEW x \in Actors, ActStep(x) \/ Throws(x) \/ Dies(x)
        PROVE  Kept
    <3>1. CASE Approve(x)
      BY <1>1, <2>2, <3>1 DEF Approve, Step
    <3>2. CASE Stop(x)
      BY <1>1, <2>2, <3>2 DEF Stop, Step
    <3>3. CASE Mail(x) \/ MarkSending(x)
      BY <2>1, <3>3 DEF Mail, MarkSending
    <3>4. CASE UNCHANGED <<status, mailed>>
      BY <3>4
    <3> QED BY <2>3, <3>1, <3>2, <3>3, <3>4 DEF ActStep, Reread, Enqueue, CheckStatus, CheckHours,
            Require, ReadMembers, ReadSettings, CheckMember, Throws, Dies
  <2>4. CASE Reconcile
    BY <1>1, <2>4 DEF Reconcile
  <2>5. CASE UNCHANGED <<status, mailed>>
    BY <2>5
  <2> QED BY <1>1, <2>3, <2>4, <2>5 DEF Next, BeginChange, BeginQueue, Begin, TakeJob,
          MailFails, MailRetried, SameCampaign, PatchControls, QuietBegins, QuietEnds,
          campaignVars, vars
<1>2. CampaignInv /\ [Next]_vars
        => [~racing /\ status \in {"paused", "canceled"}
              => /\ mailed' = mailed
                 /\ status' = status \/ (status = "paused" /\ status' # "sending")]_vars
  BY <1>1
<1> QED BY <1>2, InvAlways, PTL DEF Spec, StoppedIsSilent
=============================================================================
