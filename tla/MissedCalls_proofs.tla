-------------------------- MODULE MissedCalls_proofs --------------------------
(***************************************************************************)
(* Types, AnsweredNotMissed, CallbackClosesTask and ResolvedIsQuiet, for   *)
(* every set of events, workers and reconciliations, every Limit and any   *)
(* number of errors and deaths.  AnsweredNotMissed is inductive with the   *)
(* types.  CallbackClosesTask is not: that a resolution sees every task to *)
(* be closed rests on what is known at each step of the run before it      *)
(* (Solo), and on no ingest knowing of an answer the row does not show     *)
(* (Shown).                                                                *)
(***************************************************************************)
EXTENDS MissedCalls, TLAPS

LEMMA PollIsEvent == Poll \in Events /\ Poller \in Ingesters
BY DEF Events, Ingesters

LEMMA NoCallType == NoCall \in CallType
BY DEF NoCall, CallType

LEMMA RestType == Rest \in AtType
BY PollIsEvent, NoCallType DEF Rest, AtType

LEMMA NoRunType == NoRun \in RunType
BY PollIsEvent, NoCallType DEF NoRun, RunType

LEMMA NoJobType == NoJob \in JobType
BY DEF NoJob, JobType

LEMMA InitType == Init => TypeOK
<1> SUFFICES ASSUME Init PROVE TypeOK
  OBVIOUS
<1>1. at \in [Ingesters -> AtType]
  BY RestType DEF Init
<1>2. run \in [Runs -> RunType]
  BY NoRunType DEF Init
<1>3. job \in [Webhooks -> JobType]
  BY NoJobType DEF Init
<1>4. \A r \in Runs : run[r].pc \notin {"fire", "confirm"}
  BY DEF Init, NoRun
<1>5. /\ outcome \in {"answered", "missed"}
      /\ inbox \in [Events -> {"none", "received", "verified", "processed", "rejected"}]
      /\ receiving \subseteq Webhooks /\ event \subseteq Events
      /\ task \in [Missing -> {"none", "open", "closed"}]
      /\ unheard \subseteq Missing
  BY DEF Init
<1>6. call \in CallType /\ callback \in BOOLEAN /\ raced \in BOOLEAN /\ together \in BOOLEAN
  BY NoCallType DEF Init
<1>7. ahead \in 0..Limit /\ faults \in 0..MaxFaults
  BY CallAssumption DEF Init
<1>8. QED BY <1>1, <1>2, <1>3, <1>4, <1>5, <1>6, <1>7 DEF TypeOK

\* The upsert writes a row of the call's type.
LEMMA MirroredType ==
  ASSUME call \in CallType, NEW seen \in CallType, NEW says
  PROVE  Mirrored(seen, says) \in CallType
<1>1. /\ (call.answered \/ says = "answered") \in BOOLEAN
      /\ (IF IsAnswered(seen, says) THEN FALSE ELSE call.missed \/ IsMissed(seen, says)) \in BOOLEAN
      /\ (call.resolved \/ IsAnswered(seen, says)) \in BOOLEAN
  BY DEF CallType, IsAnswered, IsMissed
<1>2. (IF IsAnswered(seen, says) THEN "answered"
       ELSE IF IsMissed(seen, says) THEN "pending" ELSE call.rec)
         \in {"none", "pending", "confirmed", "answered", "callback"}
  BY DEF CallType
<1>3. QED BY <1>1, <1>2 DEF Mirrored, CallType

\* What a step of the ingest leaves alone keeps its type.
LEMMA GoType ==
  ASSUME TypeOK, NEW p \in Ingesters, NEW from,
         NEW to \in {"idle", "event", "read", "write", "mark"}, Go(p, from, to)
  PROVE  at' \in [Ingesters -> AtType]
<1>1. at \in [Ingesters -> AtType]
  BY DEF TypeOK
<1>2. [at[p] EXCEPT !.pc = to] \in AtType
  BY <1>1 DEF AtType
<1>3. at' = [at EXCEPT ![p] = [at[p] EXCEPT !.pc = to]]
  BY <1>1 DEF Go
<1>4. QED BY <1>1, <1>2, <1>3

LEMMA JobOfType ==
  ASSUME TypeOK, NEW p \in Ingesters, NEW end \in JobType
  PROVE  JobOf(p, end) \in [Webhooks -> JobType]
<1>1. job \in [Webhooks -> JobType]
  BY DEF TypeOK
<1>2. QED BY <1>1 DEF JobOf

LEMMA FaultType == TypeOK /\ Fault => faults' \in 0..MaxFaults
BY CallAssumption DEF TypeOK, Fault

LEMMA ReceiveType ==
  ASSUME TypeOK, NEW e \in Webhooks,
         Receive(e) \/ Verify(e) \/ QueueIngest(e) \/ ReceiveFails(e)
  PROVE  TypeOK'
<1> USE DEF TypeOK, Calm, ghosts
<1>e. e \in Events
  BY DEF Events
<1>1. CASE Receive(e)
  BY <1>1, <1>e DEF Receive
<1>2. CASE Verify(e)
  BY <1>2, <1>e DEF Verify
<1>3. CASE QueueIngest(e)
  <2>1. [state |-> "waiting", tries |-> 0] \in JobType
    BY DEF JobType
  <2>2. job' \in [Webhooks -> JobType]
    BY <1>3, <2>1 DEF QueueIngest
  <2>3. QED BY <1>3, <2>2 DEF QueueIngest
<1>4. CASE ReceiveFails(e)
  BY <1>4, FaultType DEF ReceiveFails
<1>5. QED BY <1>1, <1>2, <1>3, <1>4

LEMMA TakeType ==
  ASSUME TypeOK, NEW p \in Workers, NEW e \in Webhooks, TakeJob(p, e)
  PROVE  TypeOK'
<1>1. job' \in [Webhooks -> JobType]
  BY DEF TakeJob, TypeOK, JobType
<1>2. [pc |-> "event", row |-> e, seen |-> NoCall] \in AtType
  BY NoCallType DEF AtType, Events
<1>3. at' \in [Ingesters -> AtType]
  BY <1>2 DEF TakeJob, Begin, TypeOK
<1>4. QED BY <1>1, <1>3 DEF TakeJob, Still, ghosts, TypeOK

LEMMA PollType == ASSUME TypeOK, PollCall PROVE TypeOK'
<1>1. [pc |-> "event", row |-> Poll, seen |-> NoCall] \in AtType
  BY NoCallType, PollIsEvent DEF AtType
<1>2. at' \in [Ingesters -> AtType]
  BY <1>1 DEF PollCall, Begin, TypeOK
<1>3. QED BY <1>2, PollIsEvent DEF PollCall, Still, ghosts, TypeOK

LEMMA IngestType ==
  ASSUME TypeOK, NEW p \in Ingesters, IngestStep(p) \/ IngestThrows(p) \/ IngestDies(p)
  PROVE  TypeOK'
<1>at. at \in [Ingesters -> AtType] /\ at[p].row \in Events /\ at[p].seen \in CallType
  BY DEF TypeOK, AtType
<1>job. job \in [Webhooks -> JobType]
  BY DEF TypeOK
<1>rest. [at EXCEPT ![p] = Rest] \in [Ingesters -> AtType]
  BY <1>at, RestType
<1>1. CASE StoreEvent(p)
  <2>1. at' \in [Ingesters -> AtType]
    BY <1>1, GoType DEF StoreEvent
  <2>2. QED BY <1>1, <2>1, <1>at DEF StoreEvent, Still, ghosts, TypeOK
<1>2. CASE ReadCall(p)
  <2>1. at' \in [Ingesters -> AtType]
    BY <1>2, <1>at DEF ReadCall, TypeOK, AtType
  <2>2. QED BY <1>2, <2>1 DEF ReadCall, Still, ghosts, TypeOK
<1>3. CASE MirrorCall(p)
  <2>1. at' \in [Ingesters -> AtType]
    BY <1>3, GoType DEF MirrorCall
  <2>2. call' \in CallType
    BY <1>3, <1>at, MirroredType DEF MirrorCall, TypeOK
  <2>3. raced' \in BOOLEAN
    BY <1>3 DEF MirrorCall, TypeOK
  <2>4. QED BY <1>3, <2>1, <2>2, <2>3 DEF MirrorCall, Still, TypeOK
<1>4. CASE MarkProcessed(p)
  <2>1. [state |-> "over", tries |-> 0] \in JobType
    BY DEF JobType
  <2>2. job' \in [Webhooks -> JobType]
    BY <1>4, <2>1, JobOfType DEF MarkProcessed
  <2>3. inbox' \in [Events -> {"none", "received", "verified", "processed", "rejected"}]
    BY <1>4, <1>at DEF MarkProcessed, TypeOK
  <2>4. QED BY <1>4, <1>rest, <2>2, <2>3 DEF MarkProcessed, Still, ghosts, TypeOK
<1>5. CASE IngestThrows(p)
  <2>1. at[p].row = Poll => job' = job
    BY <1>5 DEF IngestThrows
  <2>2. ASSUME at[p].row # Poll PROVE job' \in [Webhooks -> JobType]
    <3>1. at[p].row \in Webhooks
      BY <2>2, <1>at DEF Events
    <3>2. Retried(at[p].row) \in JobType
      BY <3>1, <1>job DEF Retried, JobType
    <3>3. QED BY <1>5, <2>2, <3>2, JobOfType DEF IngestThrows
  <2>3. job' \in [Webhooks -> JobType]
    BY <2>1, <2>2, <1>job
  <2>4. inbox' \in [Events -> {"none", "received", "verified", "processed", "rejected"}]
    BY <1>5, <1>at DEF IngestThrows, TypeOK
  <2>5. QED BY <1>5, <1>rest, <2>3, <2>4, FaultType DEF IngestThrows, Still, ghosts, TypeOK
<1>6. CASE IngestDies(p)
  <2>1. at[p].row = Poll => job' = job
    BY <1>6 DEF IngestDies
  <2>2. ASSUME at[p].row # Poll PROVE job' \in [Webhooks -> JobType]
    <3>1. at[p].row \in Webhooks
      BY <2>2, <1>at DEF Events
    <3>2. [job[at[p].row] EXCEPT !.state = "waiting"] \in JobType
      BY <3>1, <1>job DEF JobType
    <3>3. QED BY <1>6, <2>2, <3>2, JobOfType DEF IngestDies
  <2>3. job' \in [Webhooks -> JobType]
    BY <2>1, <2>2, <1>job
  <2>4. QED BY <1>6, <1>rest, <2>3, FaultType DEF IngestDies, Still, ghosts, TypeOK
<1>7. QED BY <1>1, <1>2, <1>3, <1>4, <1>5, <1>6 DEF IngestStep

LEMMA RunType1 ==
  ASSUME TypeOK, NEW r \in Runs,
         ListMissed(r) \/ DecideMissed(r) \/ FindMissedEvent(r) \/ ReadEvents(r) \/ RunFails(r)
  PROVE  TypeOK'
<1>run. /\ run \in [Runs -> RunType]
        /\ \A q \in Runs : run[q].pc \in {"fire", "confirm"} => run[q].on \in Missing
  BY DEF TypeOK
<1>over. /\ [run EXCEPT ![r] = NoRun] \in [Runs -> RunType]
         /\ NoRun.pc = "idle"
  BY <1>run, NoRunType DEF NoRun
<1>keep. ASSUME /\ run' \in [Runs -> RunType]
                /\ \A q \in Runs : run'[q].pc \in {"fire", "confirm"} => run'[q].on \in Missing,
                UNCHANGED <<call, task, unheard>>, together' \in BOOLEAN,
                faults' \in 0..MaxFaults, Others
         PROVE  TypeOK'
  BY <1>keep DEF TypeOK, Others
<1>1. CASE ListMissed(r)
  <2>1. run' = [run EXCEPT ![r].pc = "decide", ![r].seen = call]
    BY <1>1 DEF ListMissed
  <2>2. run' \in [Runs -> RunType] /\ run'[r].pc = "decide"
    <3>1. call \in CallType
      BY DEF TypeOK
    <3>2. QED BY <2>1, <3>1, <1>run DEF RunType
  <2>3. QED BY <1>1, <1>run, <1>keep, <2>1, <2>2 DEF ListMissed, TypeOK
<1>2. CASE DecideMissed(r)
  <2>1. \/ run' = [run EXCEPT ![r] = NoRun]
        \/ run' = [run EXCEPT ![r].pc = "find"]
        \/ \E why \in {"answered", "callback"} : run' = [run EXCEPT ![r].pc = "ids", ![r].why = why]
    BY <1>2 DEF DecideMissed
  <2>2. run' \in [Runs -> RunType] /\ run'[r].pc \in {"idle", "find", "ids"}
    BY <2>1, <1>run, <1>over DEF RunType
  <2>3. \A q \in Runs \ {r} : run'[q] = run[q]
    BY <2>1, <1>run
  <2>4. QED BY <1>2, <1>run, <1>keep, <2>2, <2>3 DEF DecideMissed, TypeOK
<1>3. CASE FindMissedEvent(r)
  <2>1. \/ run' = [run EXCEPT ![r] = NoRun]
        \/ \E e \in Missing \cap Events : run' = [run EXCEPT ![r].pc = "fire", ![r].on = e]
    BY <1>3, CallAssumption DEF FindMissedEvent
  <2>2. run' \in [Runs -> RunType] /\ (run'[r].pc = "idle" \/ run'[r].on \in Missing)
    BY <2>1, <1>run, <1>over DEF RunType
  <2>3. \A q \in Runs \ {r} : run'[q] = run[q]
    BY <2>1, <1>run
  <2>4. QED BY <1>3, <1>run, <1>keep, <2>2, <2>3 DEF FindMissedEvent, TypeOK
<1>4. CASE ReadEvents(r)
  <2>1. run' = [run EXCEPT ![r].pc = "resolve", ![r].ids = event]
    BY <1>4 DEF ReadEvents
  <2>2. run' \in [Runs -> RunType] /\ run'[r].pc = "resolve"
    <3>1. event \in SUBSET Events
      BY DEF TypeOK
    <3>2. [run[r] EXCEPT !.pc = "resolve", !.ids = event] \in RunType
      BY <3>1, <1>run DEF RunType
    <3>3. run'[r] = [run[r] EXCEPT !.pc = "resolve", !.ids = event]
      BY <2>1, <1>run
    <3>4. run' = [q \in Runs |-> IF q = r THEN run'[r] ELSE run[q]]
      BY <2>1, <1>run
    <3>5. run'[r].pc = "resolve"
      BY <3>3, <1>run DEF RunType
    <3>6. QED BY <3>2, <3>3, <3>4, <3>5, <1>run
  <2>3. QED BY <1>4, <1>run, <1>keep, <2>1, <2>2 DEF ReadEvents, TypeOK
<1>5. CASE RunFails(r)
  <2>1. faults' \in 0..MaxFaults
    BY <1>5, FaultType DEF RunFails
  <2>2. together' \in BOOLEAN
    BY <1>5 DEF RunFails, TypeOK
  <2>3. QED BY <1>5, <1>run, <1>over, <1>keep, <2>1, <2>2 DEF RunFails
<1>6. QED BY <1>1, <1>2, <1>3, <1>4, <1>5

LEMMA RunType2 ==
  ASSUME TypeOK, NEW r \in Runs, FireMissed(r) \/ Confirm(r) \/ Resolve(r)
  PROVE  TypeOK'
<1>run. /\ run \in [Runs -> RunType]
        /\ \A q \in Runs : run[q].pc \in {"fire", "confirm"} => run[q].on \in Missing
  BY DEF TypeOK
<1>over. /\ [run EXCEPT ![r] = NoRun] \in [Runs -> RunType]
         /\ NoRun.pc = "idle"
  BY <1>run, NoRunType DEF NoRun
<1>1. CASE FireMissed(r)
  <2>1. run[r].on \in Missing
    BY <1>1, <1>run DEF FireMissed
  <2>2. run' = [run EXCEPT ![r].pc = "confirm"]
    BY <1>1 DEF FireMissed
  <2>3. run' \in [Runs -> RunType] /\ run'[r].on = run[r].on
    BY <2>2, <1>run DEF RunType
  <2>4. task' \in [Missing -> {"none", "open", "closed"}]
    BY <1>1, <2>1 DEF FireMissed, TypeOK
  <2>5. unheard' \subseteq Missing
    BY <1>1, <2>1 DEF FireMissed, TypeOK
  <2>6. faults' \in 0..MaxFaults
    BY <1>1, FaultType DEF FireMissed, TypeOK
  <2>7. \A q \in Runs \ {r} : run'[q] = run[q]
    BY <2>2, <1>run
  <2>8. \A q \in Runs : run'[q].pc \in {"fire", "confirm"} => run'[q].on \in Missing
    BY <1>run, <2>1, <2>3, <2>7
  <2>9. QED BY <1>1, <2>3, <2>4, <2>5, <2>6, <2>8 DEF FireMissed, Others, TypeOK
<1>2. CASE Confirm(r)
  <2>1. call' \in CallType
    BY <1>2 DEF Confirm, TypeOK, CallType
  <2>2. QED BY <1>2, <1>run, <1>over, <2>1 DEF Confirm, Others, TypeOK
<1>3. CASE Resolve(r)
  <2>1. call' \in CallType
    BY <1>3, <1>run DEF Resolve, TypeOK, CallType, RunType
  <2>2. task' \in [Missing -> {"none", "open", "closed"}]
    BY <1>3 DEF Resolve, TypeOK
  <2>3. QED BY <1>3, <1>run, <1>over, <2>1, <2>2 DEF Resolve, Others, TypeOK
<1>4. QED BY <1>1, <1>2, <1>3

LEMMA TypeStep == TypeOK /\ [Next]_vars => TypeOK'
<1> SUFFICES ASSUME TypeOK, [Next]_vars PROVE TypeOK'
  OBVIOUS
<1>1. ASSUME CallBack \/ EarlierCallBack PROVE TypeOK'
  <2>1. callback' \in BOOLEAN
    BY <1>1 DEF CallBack, EarlierCallBack, TypeOK
  <2>2. ahead' \in 0..Limit
    BY <1>1, CallAssumption DEF CallBack, EarlierCallBack, TypeOK
  <2>3. QED BY <1>1, <2>1, <2>2 DEF CallBack, EarlierCallBack, ghosts, TypeOK
<1>2. ASSUME UNCHANGED vars PROVE TypeOK'
  BY <1>2 DEF vars, ghosts, TypeOK
<1>3. QED BY <1>1, <1>2, ReceiveType, TakeType, PollType, IngestType, RunType1, RunType2
      DEF Next, RunStep

\* Every variable keeps its type.
THEOREM TypeCorrect == Spec => []TypeOK
<1>1. Init => TypeOK
  BY InitType
<1>2. TypeOK /\ [Next]_vars => TypeOK'
  BY TypeStep
<1>3. QED BY <1>1, <1>2, PTL DEF Spec

-----------------------------------------------------------------------------
\* Only the mirroring and the reconciliation write the call's row and its task.
LEMMA Writers ==
  ASSUME [Next]_vars
  PROVE  \/ UNCHANGED <<call, task, raced>>
         \/ \E p \in Ingesters : MirrorCall(p)
         \/ \E r \in Runs : FireMissed(r) \/ Confirm(r) \/ Resolve(r)
<1> USE DEF ghosts, Calm, Still, Others
<1> DEFINE Same == UNCHANGED <<call, task, raced>>
<1>1. ASSUME NEW e \in Webhooks, Receive(e) \/ Verify(e) \/ QueueIngest(e) \/ ReceiveFails(e)
      PROVE  Same
  BY <1>1 DEF Receive, Verify, QueueIngest, ReceiveFails
<1>2. ASSUME NEW p \in Workers, NEW e \in Webhooks, TakeJob(p, e) PROVE Same
  BY <1>2 DEF TakeJob
<1>3. ASSUME PollCall \/ CallBack \/ EarlierCallBack PROVE Same
  BY <1>3 DEF PollCall, CallBack, EarlierCallBack
<1>4. ASSUME NEW p \in Ingesters, IngestStep(p) \/ IngestThrows(p) \/ IngestDies(p)
      PROVE  MirrorCall(p) \/ Same
  BY <1>4 DEF IngestStep, StoreEvent, ReadCall, MarkProcessed, IngestThrows, IngestDies
<1>5. ASSUME NEW r \in Runs, ListMissed(r) \/ RunStep(r) \/ RunFails(r)
      PROVE  FireMissed(r) \/ Confirm(r) \/ Resolve(r) \/ Same
  BY <1>5 DEF RunStep, ListMissed, DecideMissed, FindMissedEvent, ReadEvents, RunFails
<1>6. ASSUME UNCHANGED vars PROVE Same
  BY <1>6 DEF vars
<1> HIDE DEF Same
<1>7. Same \/ (\E p \in Ingesters : MirrorCall(p))
           \/ (\E r \in Runs : FireMissed(r) \/ Confirm(r) \/ Resolve(r))
  BY <1>1, <1>2, <1>3, <1>4, <1>5, <1>6 DEF Next
<1>8. QED BY <1>7 DEF Same

\* An answered call is not shown as missed but by a mirroring from a row read
\* before the answer, in every order of any number of events.
THEOREM AnsweredHolds == Spec => []AnsweredNotMissed
<1>1. Init => AnsweredNotMissed
  BY DEF Init, NoCall, AnsweredNotMissed
<1>2. TypeOK /\ AnsweredNotMissed /\ [Next]_vars => AnsweredNotMissed'
  <2> SUFFICES ASSUME TypeOK, AnsweredNotMissed, [Next]_vars PROVE AnsweredNotMissed'
    OBVIOUS
  <2>1. CASE UNCHANGED <<call, task, raced>>
    BY <2>1 DEF AnsweredNotMissed
  <2>2. ASSUME NEW p \in Ingesters, MirrorCall(p) PROVE AnsweredNotMissed'
    <3> DEFINE seen == at[p].seen
               says == Says(at[p].row)
    <3>1. /\ call' = Mirrored(seen, says)
          /\ raced' = (raced \/ (call.answered /\ ~seen.answered /\ says # "answered"))
      BY <2>2 DEF MirrorCall
    <3> HIDE DEF seen, says
    <3>2. /\ call'.answered = (call.answered \/ says = "answered")
          /\ call'.missed => ~IsAnswered(seen, says)
      BY <3>1 DEF Mirrored
    <3>3. QED BY <3>1, <3>2 DEF AnsweredNotMissed, IsAnswered
  <2>3. ASSUME NEW r \in Runs, FireMissed(r) \/ Confirm(r) \/ Resolve(r)
        PROVE  AnsweredNotMissed'
    BY <2>3 DEF FireMissed, Confirm, Resolve, Others, TypeOK, CallType, AnsweredNotMissed
  <2>4. QED BY <2>1, <2>2, <2>3, Writers
<1>3. QED BY <1>1, <1>2, TypeCorrect, PTL DEF Spec

-----------------------------------------------------------------------------
\* An ingest that read an answer read it from the row, which still shows it.
Shown == \A p \in Ingesters : at[p].seen.answered => call.answered

LEMMA ShownStep == ASSUME TypeOK, Shown, [Next]_vars PROVE Shown'
<1>at. at \in [Ingesters -> AtType] /\ ~Rest.seen.answered /\ ~NoCall.answered
  BY DEF TypeOK, Rest, NoCall
<1>1. call.answered => call'.answered
  <2>1. ASSUME NEW p \in Ingesters, MirrorCall(p), call.answered PROVE call'.answered
    BY <2>1 DEF MirrorCall, Mirrored
  <2>2. ASSUME NEW r \in Runs, FireMissed(r) \/ Confirm(r) \/ Resolve(r)
        PROVE  call'.answered = call.answered
    BY <2>2 DEF FireMissed, Confirm, Resolve, TypeOK, CallType
  <2>3. QED BY <2>1, <2>2, Writers
<1>2. \A p \in Ingesters :
         at'[p].seen = at[p].seen \/ ~at'[p].seen.answered \/ at'[p].seen = call
  <2> DEFINE Fresh == \A p \in Ingesters :
               at'[p].seen = at[p].seen \/ ~at'[p].seen.answered \/ at'[p].seen = call
  <2>1. ASSUME at' = at PROVE Fresh
    BY <2>1
  <2>2. ASSUME NEW p \in Ingesters, NEW a, at' = [at EXCEPT ![p] = a],
               a.seen = at[p].seen \/ ~a.seen.answered \/ a.seen = call
        PROVE  Fresh
    BY <2>2, <1>at
  <2> HIDE DEF Fresh
  <2>3. ASSUME NEW p \in Workers, NEW e \in Webhooks, TakeJob(p, e) PROVE Fresh
    BY <2>3, <2>2, <1>at DEF TakeJob, Begin, Ingesters
  <2>4. ASSUME PollCall PROVE Fresh
    BY <2>4, <2>2, <1>at, PollIsEvent DEF PollCall, Begin
  <2>5. ASSUME NEW p \in Ingesters, StoreEvent(p) \/ MirrorCall(p) PROVE Fresh
    <3>1. PICK to : at' = [at EXCEPT ![p] = [at[p] EXCEPT !.pc = to]]
      BY <2>5, <1>at DEF StoreEvent, MirrorCall, Go
    <3>2. [at[p] EXCEPT !.pc = to].seen = at[p].seen
      BY <1>at DEF AtType
    <3>3. QED BY <3>1, <3>2, <2>2
  <2>6. ASSUME NEW p \in Ingesters, ReadCall(p) PROVE Fresh
    <3>1. at' = [at EXCEPT ![p] = [at[p] EXCEPT !.pc = "write", !.seen = call]]
      BY <2>6, <1>at DEF ReadCall
    <3>2. [at[p] EXCEPT !.pc = "write", !.seen = call].seen = call
      BY <1>at DEF AtType
    <3>3. QED BY <3>1, <3>2, <2>2
  <2>7. ASSUME NEW p \in Ingesters, MarkProcessed(p) \/ IngestThrows(p) \/ IngestDies(p)
        PROVE  Fresh
    BY <2>7, <2>2, <1>at DEF MarkProcessed, IngestThrows, IngestDies
  <2>8. ASSUME NEW e \in Webhooks, Receive(e) \/ Verify(e) \/ QueueIngest(e) \/ ReceiveFails(e)
        PROVE  Fresh
    BY <2>8, <2>1 DEF Receive, Verify, QueueIngest, ReceiveFails, Calm
  <2>9. ASSUME NEW r \in Runs, ListMissed(r) \/ RunStep(r) \/ RunFails(r) PROVE Fresh
    BY <2>9, <2>1 DEF ListMissed, RunStep, RunFails, DecideMissed, FindMissedEvent, FireMissed,
                      Confirm, ReadEvents, Resolve, Others
  <2>10. ASSUME CallBack \/ EarlierCallBack \/ UNCHANGED vars PROVE Fresh
    BY <2>10, <2>1 DEF CallBack, EarlierCallBack, vars
  <2>11. Fresh
    BY <2>3, <2>4, <2>5, <2>6, <2>7, <2>8, <2>9, <2>10 DEF Next, IngestStep
  <2>12. QED BY <2>11 DEF Fresh
<1>3. QED BY <1>1, <1>2 DEF Shown

\* As long as no two reconciliations met: one is at work, every open task is of
\* a stored event, a run that resolves has read the event of every open task,
\* and after a resolution by a callback nothing is open and nobody at work.
Idle(r) == run[r].pc = "idle"
OneRun == \A r, q \in Runs : ~Idle(r) /\ ~Idle(q) => r = q
TasksStored == Open \subseteq event
FiresStored == \A r \in Runs : run[r].pc = "fire" => run[r].on \in event
SeesOpen == \A r \in Runs : run[r].pc = "resolve" => Open \subseteq run[r].ids
CalledBack == call.resolved /\ ~call.answered => Open = {} /\ \A r \in Runs : Idle(r)
Solo == ~together => OneRun /\ TasksStored /\ FiresStored /\ SeesOpen /\ CalledBack

LEMMA SoloMirror ==
  ASSUME TypeOK, Shown, Solo, NEW p \in Ingesters, MirrorCall(p) PROVE Solo'
<1>1. UNCHANGED <<run, task, event, together>> /\ Open' = Open
  BY DEF MirrorCall, Still, Open
<1>2. ASSUME call'.resolved, ~call'.answered PROVE call.resolved /\ ~call.answered
  <2> DEFINE seen == at[p].seen
             says == Says(at[p].row)
  <2>1. call' = Mirrored(seen, says) /\ (seen.answered => call.answered)
    BY DEF MirrorCall, Shown
  <2> HIDE DEF seen, says
  <2>2. QED BY <1>2, <2>1 DEF Mirrored, IsAnswered
<1>3. QED BY <1>1, <1>2 DEF Solo, OneRun, TasksStored, FiresStored, SeesOpen, CalledBack, Idle

\* A reconciliation at work, with no other, has an unresolved or answered call.
LEMMA SoloRun ==
  ASSUME TypeOK, Solo, NEW r \in Runs, RunStep(r) PROVE Solo'
<1> SUFFICES ASSUME ~together
             PROVE  OneRun' /\ TasksStored' /\ FiresStored' /\ SeesOpen' /\ CalledBack'
  <2>1. together' = together
    BY DEF RunStep, DecideMissed, FindMissedEvent, FireMissed, Confirm, ReadEvents, Resolve
  <2>2. QED BY <2>1 DEF Solo
<1>run. run \in [Runs -> RunType] /\ task \in [Missing -> {"none", "open", "closed"}]
  BY DEF TypeOK
<1>at. ~Idle(r)
  BY DEF Idle, RunStep, DecideMissed, FindMissedEvent, FireMissed, Confirm, ReadEvents, Resolve
<1>solo. OneRun /\ TasksStored /\ FiresStored /\ SeesOpen /\ CalledBack
  BY DEF Solo
<1>live. ~(call.resolved /\ ~call.answered)
  BY <1>solo, <1>at DEF CalledBack
<1>rest. \A q \in Runs \ {r} : run[q].pc = "idle" /\ run'[q] = run[q]
  <2>1. \A q \in Runs \ {r} : run'[q] = run[q]
    BY <1>run DEF RunStep, DecideMissed, FindMissedEvent, FireMissed, Confirm, ReadEvents, Resolve
  <2>2. QED BY <2>1, <1>solo, <1>at DEF OneRun, Idle
<1>one. OneRun'
  BY <1>rest DEF OneRun, Idle
<1>event. event' = event
  BY DEF RunStep, DecideMissed, FindMissedEvent, FireMissed, Confirm, ReadEvents, Resolve, Others
<1>1. CASE DecideMissed(r) \/ FindMissedEvent(r) \/ ReadEvents(r)
  <2>1. call' = call /\ Open' = Open
    BY <1>1 DEF DecideMissed, FindMissedEvent, ReadEvents, Open
  <2>2. run'[r].pc = "fire" => run'[r].on \in event
    BY <1>1, <1>run DEF DecideMissed, FindMissedEvent, ReadEvents, RunType, NoRun
  <2>3. run'[r].pc = "resolve" => run'[r].ids = event
    BY <1>1, <1>run DEF DecideMissed, FindMissedEvent, ReadEvents, RunType, NoRun
  <2>4. QED BY <2>1, <2>2, <2>3, <1>live, <1>solo, <1>rest, <1>one, <1>event
            DEF TasksStored, FiresStored, SeesOpen, CalledBack
<1>2. CASE FireMissed(r)
  <2>1. call' = call /\ run'[r].pc = "confirm"
    BY <1>2, <1>run DEF FireMissed, RunType
  <2>2. run[r].on \in event
    BY <1>2, <1>solo DEF FireMissed, FiresStored
  <2>3. Open' \subseteq Open \cup {run[r].on}
    BY <1>2, <1>run DEF FireMissed, Open
  <2>4. QED BY <2>1, <2>2, <2>3, <1>live, <1>solo, <1>rest, <1>one, <1>event
            DEF TasksStored, FiresStored, SeesOpen, CalledBack
<1>3. CASE Confirm(r)
  <2>1. /\ call'.resolved = call.resolved /\ call'.answered = call.answered
        /\ Open' = Open /\ run'[r].pc = "idle"
    BY <1>3, <1>run DEF Confirm, Open, NoRun, TypeOK, CallType
  <2>2. QED BY <2>1, <1>live, <1>solo, <1>rest, <1>one, <1>event
            DEF TasksStored, FiresStored, SeesOpen, CalledBack
<1>4. CASE Resolve(r)
  <2>1. Open \subseteq run[r].ids
    BY <1>4, <1>solo DEF Resolve, SeesOpen
  <2>2. Open' = {}
    BY <1>4, <2>1, <1>run DEF Resolve, Open
  <2>3. run'[r].pc = "idle"
    BY <1>4, <1>run DEF Resolve, NoRun
  <2>4. QED BY <2>2, <2>3, <1>rest, <1>one DEF TasksStored, FiresStored, SeesOpen, CalledBack, Idle
<1>5. QED BY <1>1, <1>2, <1>3, <1>4 DEF RunStep

LEMMA SoloStarts ==
  ASSUME TypeOK, Solo, NEW r \in Runs, ListMissed(r) \/ RunFails(r) PROVE Solo'
<1>run. run \in [Runs -> RunType]
  BY DEF TypeOK
<1>same. UNCHANGED <<call, task, event>> /\ Open' = Open
  BY DEF ListMissed, RunFails, Others, Open
<1>1. CASE ListMissed(r)
  <2>0. SUFFICES ASSUME ~together' PROVE Solo'
    BY DEF Solo
  <2>1. ~together /\ (\A q \in Runs : run[q].pc = "idle") /\ ~call.resolved
    BY <1>1, <2>0 DEF ListMissed, Eligible
  <2>2. run'[r].pc = "decide" /\ \A q \in Runs \ {r} : run'[q] = run[q]
    BY <1>1, <1>run DEF ListMissed, RunType
  <2>3. QED BY <1>same, <2>1, <2>2
            DEF Solo, OneRun, TasksStored, FiresStored, SeesOpen, CalledBack, Idle
<1>2. CASE RunFails(r)
  <2>1. run'[r].pc = "idle" /\ together' = together
    BY <1>2, <1>run DEF RunFails, NoRun
  <2>2. \A q \in Runs \ {r} : run'[q] = run[q]
    BY <1>2, <1>run DEF RunFails
  <2>3. QED BY <1>same, <2>1, <2>2
            DEF Solo, OneRun, TasksStored, FiresStored, SeesOpen, CalledBack, Idle
<1>3. QED BY <1>1, <1>2

LEMMA SoloStep == ASSUME TypeOK, Shown, Solo, [Next]_vars PROVE Solo'
<1> DEFINE Aside == UNCHANGED <<call, task, run, together>> /\ event \subseteq event'
<1>aside. ASSUME Aside PROVE Solo'
  BY <1>aside DEF Solo, OneRun, TasksStored, FiresStored, SeesOpen, CalledBack, Idle, Open
<1> USE DEF ghosts, Calm, Still
<1>1. ASSUME NEW e \in Webhooks, Receive(e) \/ Verify(e) \/ QueueIngest(e) \/ ReceiveFails(e)
      PROVE  Aside
  BY <1>1 DEF Receive, Verify, QueueIngest, ReceiveFails
<1>2. ASSUME NEW p \in Workers, NEW e \in Webhooks, TakeJob(p, e) PROVE Aside
  BY <1>2 DEF TakeJob
<1>3. ASSUME PollCall \/ CallBack \/ EarlierCallBack \/ UNCHANGED vars PROVE Aside
  BY <1>3 DEF PollCall, CallBack, EarlierCallBack, vars
<1>4. ASSUME NEW p \in Ingesters, IngestStep(p) \/ IngestThrows(p) \/ IngestDies(p)
      PROVE  MirrorCall(p) \/ Aside
  BY <1>4 DEF IngestStep, StoreEvent, ReadCall, MarkProcessed, IngestThrows, IngestDies
<1> HIDE DEF Aside
<1>5. QED BY <1>aside, <1>1, <1>2, <1>3, <1>4, SoloMirror, SoloRun, SoloStarts DEF Next

\* Whatever the order of events, failures and late missed events, a call
\* resolved by a callback has no open task, unless two reconciliations met.
THEOREM TasksHold == Spec => []CallbackClosesTask
<1>1. Init => Shown /\ Solo
  BY DEF Init, Shown, Solo, Rest, NoCall, NoRun, OneRun, TasksStored, FiresStored, SeesOpen,
         CalledBack, Idle, Open
<1>2. TypeOK /\ Shown /\ Solo /\ [Next]_vars => (Shown /\ Solo)'
  BY ShownStep, SoloStep
<1>3. Solo => CallbackClosesTask
  BY DEF Solo, CalledBack, CallbackClosesTask
<1>4. QED BY <1>1, <1>2, <1>3, TypeCorrect, PTL DEF Spec

-----------------------------------------------------------------------------
\* No event, poll, error or death brings a resolved call back to the hourly
\* reconciliation.
THEOREM QuietHolds == Spec => ResolvedIsQuiet
<1>1. ASSUME [Next]_vars, call.resolved, AtRest
      PROVE  /\ call'.resolved
             /\ \A r \in Runs : run'[r].pc = "idle"
             /\ task' = task
  <2>1. ASSUME NEW r \in Runs PROVE ~ListMissed(r) /\ ~RunStep(r) /\ ~RunFails(r)
    BY <1>1 DEF AtRest, ListMissed, Eligible, RunStep, RunFails, DecideMissed, FindMissedEvent,
                FireMissed, Confirm, ReadEvents, Resolve
  <2>2. UNCHANGED <<run, task>>
    <3> USE DEF ghosts, Calm, Still
    <3>1. ASSUME NEW e \in Webhooks,
                 Receive(e) \/ Verify(e) \/ QueueIngest(e) \/ ReceiveFails(e)
          PROVE  UNCHANGED <<run, task>>
      BY <3>1 DEF Receive, Verify, QueueIngest, ReceiveFails
    <3>2. ASSUME NEW p \in Workers, NEW e \in Webhooks, TakeJob(p, e)
          PROVE  UNCHANGED <<run, task>>
      BY <3>2 DEF TakeJob
    <3>3. ASSUME PollCall \/ CallBack \/ EarlierCallBack PROVE UNCHANGED <<run, task>>
      BY <3>3 DEF PollCall, CallBack, EarlierCallBack
    <3>4. ASSUME NEW p \in Ingesters, IngestStep(p) \/ IngestThrows(p) \/ IngestDies(p)
          PROVE  UNCHANGED <<run, task>>
      BY <3>4 DEF IngestStep, StoreEvent, ReadCall, MirrorCall, MarkProcessed, IngestThrows,
                  IngestDies
    <3>5. ASSUME UNCHANGED vars PROVE UNCHANGED <<run, task>>
      BY <3>5 DEF vars
    <3>6. QED BY <1>1, <2>1, <3>1, <3>2, <3>3, <3>4, <3>5 DEF Next
  <2>3. call'.resolved
    <3>1. ASSUME NEW p \in Ingesters, MirrorCall(p) PROVE call'.resolved
      BY <1>1, <3>1 DEF MirrorCall, Mirrored
    <3>2. QED BY <1>1, <2>1, <3>1, Writers DEF RunStep
  <2>4. QED BY <1>1, <2>2, <2>3 DEF AtRest
<1>2. QED BY <1>1, PTL DEF Spec, ResolvedIsQuiet
=============================================================================
