---------------------- MODULE StaffWorkLifecycle_proofs ----------------------
(***************************************************************************)
(* The staff work items, for every set of items, events, identities and    *)
(* calls, in layers that use the ones before:                              *)
(*   IInv       locks exclude, an event is counted once;                   *)
(*   Base       types, a free row for every item that may be opened, and   *)
(*              a call aims at an item it has read;                        *)
(*   Reads      the rows a call has read are current, or the item is torn; *)
(*   Honest     an item that is not torn counts the signals it holds;      *)
(*   Lifecycle  signals start no second active item of a customer;         *)
(*   Ranked     locks are taken by rank.                                   *)
(***************************************************************************)
EXTENDS StaffWorkLifecycle, FiniteSetTheorems, WellFoundedInduction, NaturalsInduction, TLAPS

-----------------------------------------------------------------------------
(* Finite sets: minimal elements, greatest numbers, sums.  They stand in   *)
(* for induction: a least counterexample is a set, not an operator.        *)

LEMMA FiniteMinimal ==
  ASSUME NEW S, IsFiniteSet(S), NEW B, B \subseteq SUBSET S, B # {}
  PROVE  \E T \in B : \A U \in B : U \subseteq T => U = T
<1>1. B \subseteq FiniteSubsetsOf(S)
  BY FS_Subset DEF FiniteSubsetsOf
<1>2. IsWellFoundedOn(StrictSubsetOrdering(S), FiniteSubsetsOf(S))
  BY FS_StrictSubsetOrderingWellFounded
<1>3. PICK T \in B : \A U \in B : ~(<<U, T>> \in StrictSubsetOrdering(S))
  BY <1>1, <1>2, WFMin
<1>4. ASSUME NEW U \in B, U \subseteq T PROVE U = T
  BY <1>3, <1>4 DEF StrictSubsetOrdering
<1> QED BY <1>4

LEMMA LeastNat ==
  ASSUME NEW S, S \subseteq Nat, S # {}
  PROVE  \E n \in S : \A m \in S : n <= m
<1>1. PICK n \in S : \A m \in S : ~(<<m, n>> \in OpToRel(<, Nat))
  BY NatLessThanWellFounded, WFMin
<1>2. \A m \in S : ~(m < n)
  BY <1>1 DEF OpToRel
<1> QED BY <1>2

LEMMA HasGreatest ==
  ASSUME NEW S, IsFiniteSet(S)
  PROVE  S \subseteq Nat /\ S # {} => \E n \in S : \A m \in S : m <= n
<1> DEFINE Bounded(T) == \E n \in T : \A m \in T : m <= n
           B == {T \in SUBSET S : T \subseteq Nat /\ T # {} /\ ~Bounded(T)}
<1>1. ASSUME B # {} PROVE FALSE
  <2>1. B \subseteq SUBSET S
    OBVIOUS
  <2>2. PICK T \in B : \A U \in B : U \subseteq T => U = T
    <3> HIDE DEF B
    <3> QED BY <1>1, <2>1, FiniteMinimal
  <2>3. PICK x \in T : TRUE
    OBVIOUS
  <2>4. T \ {x} \notin B
    BY <2>2, <2>3
  <2>5. CASE T = {x}
    BY <2>5
  <2>6. CASE T \ {x} # {}
    <3>1. PICK n \in T \ {x} : \A m \in T \ {x} : m <= n
      BY <2>4, <2>6
    <3>2. CASE x <= n
      BY <3>1, <3>2
    <3>3. CASE n <= x
      BY <3>1, <3>3
    <3> QED BY <3>1, <3>2, <3>3
  <2> QED BY <2>5, <2>6
<1> QED BY <1>1

LEMMA MaxOf ==
  ASSUME NEW S, IsFiniteSet(S), S \subseteq Nat, S # {}
  PROVE  Max(S) \in S /\ \A m \in S : m <= Max(S)
<1>1. \E x \in S : \A y \in S : y <= x
  BY HasGreatest
<1>2. \E x \in S : \A y \in S : x >= y
  BY <1>1
<1> QED BY <1>2 DEF Max

\* What is in a set and bounds it is its greatest element.
LEMMA MaxIs ==
  ASSUME NEW S, S \subseteq Nat, NEW n \in S, \A m \in S : m <= n
  PROVE  Max(S) = n
<1>1. n \in S /\ \A m \in S : n >= m
  OBVIOUS
<1>2. Max(S) \in S /\ \A m \in S : Max(S) >= m
  BY <1>1 DEF Max
<1>3. Max(S) <= n /\ Max(S) >= n /\ Max(S) \in Nat /\ n \in Nat
  BY <1>2
<1> QED BY <1>3

LEMMA ImageIsFinite ==
  ASSUME NEW S, IsFiniteSet(S), NEW f
  PROVE  IsFiniteSet({f[x] : x \in S})
<1> DEFINE g == [x \in S |-> f[x]]
           T == {f[x] : x \in S}
<1>1. g \in Surjection(S, T)
  BY DEF Surjection
<1> HIDE DEF g, T
<1>2. IsFiniteSet(T)
  BY <1>1, FS_Surjection
<1> QED BY <1>2 DEF T

SumCount(rows, S) == MapThenSumSet(LAMBDA i : rows[i].count, S)

\* A sum is what a function of the subsets says that adds one row at a time.
LEMMA SumIs ==
  ASSUME NEW rows, NEW S, IsFiniteSet(S), NEW h,
         \A i \in S : rows[i].count \in Nat, h \in [SUBSET S -> Nat], h[{}] = 0,
         \A T \in SUBSET S : \A x \in T : h[T] = rows[x].count + h[T \ {x}]
  PROVE  SumCount(rows, S) = h[S]
<1> DEFINE Pick(T) == CHOOSE x \in T : TRUE
           Body(g) == [T \in SUBSET S |-> IF T = {} THEN 0
                                          ELSE rows[Pick(T)].count + g[T \ {Pick(T)}]]
<1>1. h = Body(h)
  OBVIOUS
<1>2. PICK k : k = Body(k) /\ SumCount(rows, S) = k[S]
  BY <1>1 DEF SumCount, MapThenSumSet, MapThenFoldSet
<1> DEFINE B == {T \in SUBSET S : k[T] # h[T]}
<1>3. ASSUME B # {} PROVE FALSE
  <2>0. B \subseteq SUBSET S
    OBVIOUS
  <2>1. PICK T \in B : \A U \in B : U \subseteq T => U = T
    <3> HIDE DEF B
    <3> QED BY <1>3, <2>0, FiniteMinimal
  <2>2. T # {}
    BY <1>1, <1>2, <2>1
  <2>3. Pick(T) \in T
    BY <2>2
  <2>4. T \ {Pick(T)} \notin B
    BY <2>1, <2>3
  <2> QED BY <1>1, <1>2, <2>1, <2>2, <2>3, <2>4
<1> QED BY <1>2, <1>3

\* The sum of natural numbers is one: it counts the units below each of them.
LEMMA SumType ==
  ASSUME NEW rows, NEW S, IsFiniteSet(S), \A i \in S : rows[i].count \in Nat
  PROVE  SumCount(rows, S) \in Nat
<1> DEFINE Units(x) == {<<x, k>> : k \in 1..rows[x].count}
           All(T) == UNION {Units(x) : x \in T}
           h == [T \in SUBSET S |-> Cardinality(All(T))]
<1>1. \A x \in S : IsFiniteSet(Units(x)) /\ Cardinality(Units(x)) = rows[x].count
  <2> SUFFICES ASSUME NEW x \in S
               PROVE  IsFiniteSet(Units(x)) /\ Cardinality(Units(x)) = rows[x].count
    OBVIOUS
  <2>1. IsFiniteSet(1..rows[x].count) /\ Cardinality(1..rows[x].count) = rows[x].count
    <3>1. ASSUME NEW n \in Nat PROVE IsFiniteSet(1..n) /\ Cardinality(1..n) = n
      BY FS_Interval, 1 \in Int, n \in Int
    <3> QED BY <3>1
  <2>2. [k \in 1..rows[x].count |-> <<x, k>>] \in Bijection(1..rows[x].count, Units(x))
    BY DEF Bijection, Injection, Surjection, IsInjective
  <2> HIDE DEF Units
  <2> QED BY <2>1, <2>2, FS_Bijection DEF ExistsBijection
<1>2. \A T \in SUBSET S : \A x \in T :
         All(T) = Units(x) \cup All(T \ {x}) /\ Units(x) \cap All(T \ {x}) = {}
  OBVIOUS
<1>3. \A T \in SUBSET S : IsFiniteSet(All(T))
  <2> DEFINE B == {T \in SUBSET S : ~IsFiniteSet(All(T))}
  <2>1. ASSUME B # {} PROVE FALSE
    <3>0. B \subseteq SUBSET S
      OBVIOUS
    <3>1. PICK T \in B : \A U \in B : U \subseteq T => U = T
      <4> HIDE DEF B
      <4> QED BY <2>1, <3>0, FiniteMinimal
    <3>2. T # {}
      <4>1. All({}) = {}
        OBVIOUS
      <4> HIDE DEF All
      <4> QED BY <4>1, <3>1, FS_EmptySet
    <3>3. PICK x \in T : TRUE
      BY <3>2
    <3>4. IsFiniteSet(All(T \ {x}))
      <4> HIDE DEF All
      <4> QED BY <3>1, <3>3
    <3>5. T \in SUBSET S /\ ~IsFiniteSet(All(T)) /\ x \in S
      BY <3>1, <3>3
    <3>6. All(T) = Units(x) \cup All(T \ {x}) /\ IsFiniteSet(Units(x))
      BY <1>1, <1>2, <3>3, <3>5
    <3> HIDE DEF All, Units, B
    <3> QED BY <3>4, <3>5, <3>6, FS_Union
  <2> QED BY <2>1
<1>4. h[{}] = 0
  <2>1. All({}) = {}
    OBVIOUS
  <2> HIDE DEF All
  <2> QED BY <2>1, FS_EmptySet
<1>5. ASSUME NEW T \in SUBSET S, NEW x \in T PROVE h[T] = rows[x].count + h[T \ {x}]
  <2> HIDE DEF Units, All
  <2>1. IsFiniteSet(Units(x)) /\ IsFiniteSet(All(T \ {x})) /\ T \ {x} \in SUBSET S
    BY <1>1, <1>3
  <2>2. All(T) = Units(x) \cup All(T \ {x}) /\ Units(x) \cap All(T \ {x}) = {}
    BY <1>2
  <2>3. Cardinality(All(T)) = Cardinality(Units(x)) + Cardinality(All(T \ {x})) - Cardinality({})
    BY <2>1, <2>2, FS_Union
  <2>4. /\ Cardinality({}) = 0 /\ Cardinality(Units(x)) \in Nat
        /\ Cardinality(All(T \ {x})) \in Nat
    BY <2>1, FS_EmptySet, FS_CardinalityType
  <2>5. Cardinality(All(T)) = Cardinality(Units(x)) + Cardinality(All(T \ {x}))
    BY <2>3, <2>4
  <2> QED BY <1>1, <2>1, <2>5
<1>6. h \in [SUBSET S -> Nat]
  <2> HIDE DEF All
  <2> QED BY <1>3, FS_CardinalityType
<1> HIDE DEF h
<1>7. SumCount(rows, S) = h[S]
  BY <1>4, <1>5, <1>6, SumIs
<1> QED BY <1>6, <1>7

-----------------------------------------------------------------------------
(* Locks.                                                                  *)

Late(c) == c.pc \in {"customer", "contact", "commit"}
Past(c) == c.pc \in {"replay", "customer", "contact", "commit"}

\* The fields of a call, whatever the rows it has read.
Shape(c) == c = [pc |-> c.pc, event |-> c.event, held |-> c.held,
                 target |-> c.target, seen |-> c.seen]

\* A call in flight has locks to take, and past its locks it holds them all.
Own(c) == /\ Shape(c)
          /\ c.pc # "idle" => c.event \in Events /\ LocksOf(c.event) # {}
          /\ Past(c) => LocksOf(c.event) \subseteq c.held

Functions == call = [w \in Calls |-> call[w]] /\ occ = [e \in Events |-> occ[e]]
Owns == \A w \in Calls : Own(call[w])
Apart == \A v, w \in Calls : v # w => call[v].held \cap call[w].held = {}
Uncounted == \A w \in Calls : Late(call[w]) => occ[call[w].event] = None

IInv == Functions /\ Owns /\ Apart /\ Uncounted

-----------------------------------------------------------------------------
LEMMA IdleOwns == Own(Idle) /\ Idle.held = {} /\ ~Late(Idle) /\ Idle.pc = "idle"
  BY DEF Own, Shape, Past, Late, Idle

\* No two calls past their locks share a lock, so none shares an event.
LEMMA Exclude ==
  ASSUME IInv, NEW v \in Calls, NEW w \in Calls, v # w, Past(call[v]), Past(call[w])
  PROVE  /\ LocksOf(call[v].event) \cap LocksOf(call[w].event) = {}
         /\ call[v].event # call[w].event
<1>1. LocksOf(call[v].event) \subseteq call[v].held /\ LocksOf(call[v].event) # {}
  BY DEF IInv, Owns, Own, Past
<1>2. LocksOf(call[w].event) \subseteq call[w].held
  BY DEF IInv, Owns, Own
<1>3. call[v].held \cap call[w].held = {}
  BY DEF IInv, Apart
<1> QED
  BY <1>1, <1>2, <1>3

\* A step of one call keeps the invariant if its new record is in order, its
\* locks were free, and what other calls may commit stays uncounted.
LEMMA CallKeeps ==
  ASSUME IInv, NEW w \in Calls, NEW c,
         call' = [call EXCEPT ![w] = c], Own(c),
         occ' = [e \in Events |-> occ'[e]],
         \A v \in Calls : v # w => call[v].held \cap c.held = {},
         Late(c) => occ'[c.event] = None,
         \A v \in Calls : v # w /\ Late(call[v]) => occ'[call[v].event] = None
  PROVE  IInv'
<1>1. call'[w] = c /\ \A v \in Calls : v # w => call'[v] = call[v]
  BY DEF IInv, Functions
<1>2. Functions'
  BY DEF IInv, Functions
<1>3. Owns'
  <2> SUFFICES ASSUME NEW v \in Calls PROVE Own(call'[v])
    BY DEF Owns
  <2>1. CASE v = w
    BY <1>1, <2>1
  <2>2. CASE v # w
    BY <1>1, <2>2 DEF IInv, Owns
  <2> QED
    BY <2>1, <2>2
<1>4. Apart'
  <2> SUFFICES ASSUME NEW u \in Calls, NEW v \in Calls, u # v
               PROVE  call'[u].held \cap call'[v].held = {}
    BY DEF Apart
  <2>1. CASE u = w
    BY <1>1, <2>1
  <2>2. CASE v = w
    BY <1>1, <2>2
  <2>3. CASE u # w /\ v # w
    BY <1>1, <2>3 DEF IInv, Apart
  <2> QED
    BY <2>1, <2>2, <2>3
<1>5. Uncounted'
  <2> SUFFICES ASSUME NEW v \in Calls, Late(call'[v]) PROVE occ'[call'[v].event] = None
    BY DEF Uncounted
  <2>1. CASE v = w
    BY <1>1, <2>1
  <2>2. CASE v # w
    BY <1>1, <2>2
  <2> QED
    BY <2>1, <2>2
<1> QED
  BY <1>2, <1>3, <1>4, <1>5 DEF IInv

\* A step that leaves the occurrences and takes no lock only has to show that
\* its own record is in order.
LEMMA QuietKeeps ==
  ASSUME IInv, NEW w \in Calls, NEW c,
         call' = [call EXCEPT ![w] = c], Own(c), UNCHANGED occ,
         c.held \subseteq call[w].held, Late(c) => occ[c.event] = None
  PROVE  IInv'
<1>1. \A v \in Calls : v # w => call[v].held \cap c.held = {}
  BY DEF IInv, Apart
<1>2. \A v \in Calls : Late(call[v]) => occ[call[v].event] = None
  BY DEF IInv, Uncounted
<1>3. occ' = [e \in Events |-> occ'[e]]
  BY DEF IInv, Functions
<1> QED
  BY <1>1, <1>2, <1>3, CallKeeps

\* The record of a call that moves on within its transaction.
LEMMA Moved ==
  ASSUME IInv, NEW w \in Calls, NEW p, NEW t, NEW s, p # "idle", Past(call[w]),
         Late(call[w]) \/ occ[call[w].event] = None,
         NEW c, c = [pc |-> p, event |-> call[w].event, held |-> call[w].held,
                     target |-> t, seen |-> s]
  PROVE  /\ Own(c) /\ c.held = call[w].held /\ c.event = call[w].event
         /\ occ[c.event] = None
<1>1. Own(call[w]) /\ (Late(call[w]) => occ[call[w].event] = None)
  BY DEF IInv, Owns, Uncounted
<1> QED
  BY <1>1 DEF Own, Shape, Past

-----------------------------------------------------------------------------
LEMMA BeginKeeps == ASSUME IInv, NEW w \in Calls, NEW e \in Events, Begin(w, e) PROVE IInv'
<1> DEFINE c == [pc |-> "lock", event |-> e, held |-> Idle.held,
                 target |-> Idle.target, seen |-> Idle.seen]
<1>1. Own(c) /\ c.held = {} /\ ~Late(c)
  BY DEF Begin, Own, Shape, Past, Late, Idle
<1>2. call' = [call EXCEPT ![w] = c] /\ UNCHANGED occ
  BY DEF Begin, tables
<1> QED
  BY <1>1, <1>2, QuietKeeps

LEMMA AcquireKeeps == ASSUME IInv, NEW w \in Calls, Acquire(w) PROVE IInv'
<1>1. PICK l \in Locks :
        /\ \A v \in Calls : l \notin call[v].held
        /\ call' = [call EXCEPT ![w] =
              At(w, IF LocksOf(call[w].event) \subseteq call[w].held \cup {l}
                    THEN "replay" ELSE "lock", call[w].held \cup {l}, None, Idle.seen)]
  BY DEF Acquire, Available
<1> DEFINE c == At(w, IF LocksOf(call[w].event) \subseteq call[w].held \cup {l}
                      THEN "replay" ELSE "lock", call[w].held \cup {l}, None, Idle.seen)
<1>2. Own(call[w]) /\ call[w].pc = "lock"
  BY DEF Acquire, IInv, Owns
<1>3. /\ Shape(c) /\ c.event = call[w].event /\ c.held = call[w].held \cup {l}
      /\ c.pc \in {"replay", "lock"}
      /\ c.pc = "replay" => LocksOf(call[w].event) \subseteq call[w].held \cup {l}
  BY DEF At, Shape
<1>4. Own(c) /\ ~Late(c)
  BY <1>2, <1>3 DEF Own, Past, Late
<1>5. UNCHANGED occ
  BY DEF Acquire, tables
<1>6. \A v \in Calls : v # w => call[v].held \cap c.held = {}
  BY <1>1, <1>3 DEF IInv, Apart
<1>7. /\ \A v \in Calls : Late(call[v]) => occ'[call[v].event] = None
      /\ occ' = [e \in Events |-> occ'[e]]
  BY <1>5 DEF IInv, Functions, Uncounted
<1>8. call' = [call EXCEPT ![w] = c]
  BY <1>1
<1> HIDE DEF c
<1> QED
  BY <1>4, <1>6, <1>7, <1>8, CallKeeps

LEMMA CheckReplayKeeps == ASSUME IInv, NEW w \in Calls, CheckReplay(w) PROVE IInv'
<1>1. call[w].pc = "replay" /\ Past(call[w]) /\ Own(call[w]) /\ UNCHANGED occ
  BY DEF CheckReplay, tables, Past, IInv, Owns
<1>2. CASE occ[call[w].event] # None
  <2>1. call' = [call EXCEPT ![w] = Idle]
    BY <1>2 DEF CheckReplay, Replayed
  <2> QED
    BY <1>1, <2>1, IdleOwns, QuietKeeps
<1>3. CASE occ[call[w].event] = None
  <2> DEFINE c == At(w, "customer", call[w].held, None, Idle.seen)
  <2>1. call' = [call EXCEPT ![w] = c]
    BY <1>3 DEF CheckReplay, Replayed
  <2>2. c = [pc |-> "customer", event |-> call[w].event, held |-> call[w].held,
             target |-> None, seen |-> Idle.seen]
    BY DEF At
  <2> HIDE DEF c
  <2>3. Own(c) /\ c.held = call[w].held /\ occ[c.event] = None
    BY <1>1, <1>3, <2>2, Moved
  <2> QED
    BY <1>1, <2>1, <2>3, QuietKeeps
<1> QED
  BY <1>2, <1>3

\* Both look-ups replace the target and the rows read, and go on.
LEMMA LookupKeeps ==
  ASSUME IInv, NEW w \in Calls, Late(call[w]), NEW p, p # "idle", NEW t, NEW s,
         call' = [call EXCEPT ![w] = At(w, p, call[w].held, t, s)], UNCHANGED occ
  PROVE  IInv'
<1> DEFINE c == At(w, p, call[w].held, t, s)
<1>1. Past(call[w])
  BY DEF Late, Past
<1>2. c = [pc |-> p, event |-> call[w].event, held |-> call[w].held, target |-> t, seen |-> s]
  BY DEF At
<1>3. call' = [call EXCEPT ![w] = c]
  OBVIOUS
<1> HIDE DEF c
<1>4. Own(c) /\ c.held = call[w].held /\ occ[c.event] = None
  BY <1>1, <1>2, Moved
<1> QED
  BY <1>3, <1>4, QuietKeeps

LEMMA FindCustomerItemKeeps == ASSUME IInv, NEW w \in Calls, FindCustomerItem(w) PROVE IInv'
<1>1. Late(call[w]) /\ UNCHANGED occ
  BY DEF FindCustomerItem, Late, tables
<1>2. PICK t : call' = [call EXCEPT ![w] =
         At(w, "contact", call[w].held, t, [i \in Items |-> IF i = t THEN item[i] ELSE NoRow])]
  BY DEF FindCustomerItem
<1> QED
  BY <1>1, <1>2, LookupKeeps

LEMMA FindContactItemsKeeps == ASSUME IInv, NEW w \in Calls, FindContactItems(w) PROVE IInv'
<1>1. Late(call[w]) /\ UNCHANGED occ
  BY DEF FindContactItems, Late, tables
<1>2. PICK t, s : call' = [call EXCEPT ![w] = At(w, "commit", call[w].held, t, s)]
  BY DEF FindContactItems
<1> QED
  BY <1>1, <1>2, LookupKeeps

\* A commit counts its own event only, which no other call past its locks has.
LEMMA CommitKeeps == ASSUME IInv, NEW w \in Calls, Commit(w) PROVE IInv'
<1>1. Past(call[w]) /\ call[w].event \in Events
  BY DEF Commit, Past, IInv, Owns, Own
<1>2. call' = [call EXCEPT ![w] = Idle]
  BY DEF Commit
<1>3. \A v \in Calls : v # w /\ Late(call[v]) =>
         /\ call[v].event \in Events /\ call[v].event # call[w].event
         /\ occ[call[v].event] = None
  BY <1>1, Exclude DEF Late, Past, IInv, Owns, Own, Uncounted
<1>4. /\ occ' = [e \in Events |-> occ'[e]]
      /\ \A e \in Events : e # call[w].event /\ occ[e] = None => occ'[e] = None
  <2>1. CASE call[w].target = None
    <3>1. occ' = [occ EXCEPT ![call[w].event] = NewItem]
      BY <2>1 DEF Commit, OpenItem
    <3> QED
      BY <1>1, <3>1 DEF IInv, Functions
  <2>2. CASE call[w].target # None
    <3> DEFINE t == call[w].target
               merged == Found(w) \ {t}
    <3>1. occ' = [e \in Events |-> IF e = call[w].event THEN t ELSE MovedTo(occ[e], t, merged)]
      BY <2>2 DEF Commit, Continue
    <3>2. None \notin merged
      BY LifecycleAssumption DEF Found
    <3> QED
      BY <3>1, <3>2 DEF MovedTo
  <2> QED
    BY <2>1, <2>2
<1>5. \A v \in Calls : v # w /\ Late(call[v]) => occ'[call[v].event] = None
  BY <1>3, <1>4
<1>6. \A v \in Calls : v # w => call[v].held \cap Idle.held = {}
  BY IdleOwns
<1> QED
  BY <1>2, <1>4, <1>5, <1>6, IdleOwns, CallKeeps

LEMMA AbortKeeps == ASSUME IInv, NEW w \in Calls, Abort(w) PROVE IInv'
<1>1. call' = [call EXCEPT ![w] = Idle] /\ UNCHANGED occ
  BY DEF Abort, tables
<1> QED
  BY <1>1, IdleOwns, QuietKeeps

\* Staff never touch a signal in flight nor an occurrence.
LEMMA StaffKeeps == ASSUME IInv, UNCHANGED <<call, occ>> PROVE IInv'
  BY DEF IInv, Functions, Owns, Apart, Uncounted, Own, Shape, Past, Late

LEMMA StaffLeaves ==
  ASSUME \/ \E r \in Requests : Outcome(r)
         \/ \E i \in Items : MoveCard(i) \/ ScheduleFollowUp(i) \/ ArchiveDailyCall(i)
         \/ \E i \in Items, c \in Customers : LinkCustomer(i, c)
         \/ \E c \in Customers : CreateItem(c)
  PROVE  UNCHANGED <<call, occ>>
  BY DEF Outcome, ReadRow, RecordOutcome, MoveCard, ScheduleFollowUp, ArchiveDailyCall,
         LinkCustomer, CreateItem, StaffAct, tables

-----------------------------------------------------------------------------
LEMMA InitOwns == Init => IInv
  BY IdleOwns DEF Init, IInv, Functions, Owns, Apart, Uncounted

\* The strengthened invariant holds of the specification.
LEMMA Inductive == Spec => []IInv
<1>1. Init => IInv
  BY InitOwns
<1>2. IInv /\ [Next]_vars => IInv'
  <2> SUFFICES ASSUME IInv, [Next]_vars PROVE IInv'
    OBVIOUS
  <2>1. ASSUME NEW w \in Calls, Signal(w) PROVE IInv'
    BY <2>1, BeginKeeps, AcquireKeeps, CheckReplayKeeps, FindCustomerItemKeeps,
       FindContactItemsKeeps, CommitKeeps, AbortKeeps DEF Signal
  <2>2. CASE UNCHANGED vars
    BY <2>2, StaffKeeps DEF vars
  <2> QED
    BY <2>1, <2>2, StaffLeaves, StaffKeeps DEF Next
<1> QED
  BY <1>1, <1>2, PTL DEF Spec

\* Signals that share an identity never look up or write items together.
THEOREM Exclusion == Spec => []LocksExclude
<1>1. IInv => LocksExclude
  BY Exclude DEF LocksExclude, Locked, Past
<1> QED
  BY <1>1, Inductive, PTL

\* No signal reaches its commit after its event has been counted.
THEOREM Once == Spec => []CountedOnce
<1>1. IInv => CountedOnce
  BY DEF IInv, Uncounted, CountedOnce, Late
<1> QED
  BY <1>1, Inductive, PTL

-----------------------------------------------------------------------------
(* Types, and the room for new items.                                      *)

Used == {i \in Items : item[i].state # "free"}
Unheard == {e \in Events : occ[e] = None}
Readers == {r \in Requests : staff[r].pc = "read"}
Budget == Cardinality(Unheard) + Cardinality(Readers) + moves

\* Every item that may still be opened finds a free one: it is owed to an
\* uncounted event, to a request that has read its row, or to a move.
Room ==
    /\ Cardinality(Used) + Budget <= Cardinality(Items)
    /\ \A i \in Items \ Used : item[i] = NoRow
    /\ \A e \in Events \ Unheard : occ[e] \in Used
    /\ \A r \in Readers : staff[r].on \in Used

\* A call has read the item it will continue, and no row of a free one.
Aimed ==
    \A w \in Calls : /\ call[w].target # None => call[w].target \in Found(w)
                     /\ Found(w) \subseteq Used

Base == TypeOK /\ Room /\ Aimed

LEMMA Sizes ==
  ASSUME Base
  PROVE  /\ IsFiniteSet(Used) /\ IsFiniteSet(Unheard) /\ IsFiniteSet(Readers)
         /\ Cardinality(Used) \in Nat /\ Cardinality(Unheard) \in Nat
         /\ Cardinality(Readers) \in Nat /\ Cardinality(Items) \in Nat /\ moves \in Nat
<1>1. Used \in SUBSET Items /\ Unheard \in SUBSET Events /\ Readers \in SUBSET Requests
  BY DEF Used, Unheard, Readers
<1>2. IsFiniteSet(Used) /\ IsFiniteSet(Unheard) /\ IsFiniteSet(Readers)
  BY <1>1, LifecycleAssumption, FS_Subset
<1>3. moves \in Nat
  BY LifecycleAssumption DEF Base, TypeOK
<1> QED BY <1>2, <1>3, LifecycleAssumption, FS_CardinalityType

\* While something may still open an item there is a free one to take.
LEMMA NewItemIsFree ==
  ASSUME Base, Budget > 0
  PROVE  NewItem \in Items \ Used /\ item[NewItem] = NoRow
<1>1. Used # Items
  BY Sizes DEF Base, Room, Budget
<1>2. \E i \in Items : item[i].state = "free"
  BY <1>1 DEF Used
<1>3. NewItem \in Items /\ item[NewItem].state = "free"
  BY <1>2 DEF NewItem
<1> QED BY <1>3 DEF Base, Room, Used

LEMMA OneMore ==
  ASSUME NEW S, IsFiniteSet(S), NEW x, NEW T \in SUBSET (S \cup {x})
  PROVE  IsFiniteSet(T) /\ Cardinality(T) \in Nat /\ Cardinality(T) <= Cardinality(S) + 1
<1>1. /\ IsFiniteSet(S \cup {x}) /\ Cardinality(S) \in Nat
      /\ Cardinality(S \cup {x}) \in {Cardinality(S), Cardinality(S) + 1}
  BY FS_AddElement, FS_CardinalityType
<1>2. IsFiniteSet(T) /\ Cardinality(T) <= Cardinality(S \cup {x})
  BY <1>1, FS_Subset
<1>3. Cardinality(T) \in Nat
  BY <1>2, FS_CardinalityType
<1> QED BY <1>1, <1>2, <1>3

\* Taking an element out makes a set smaller by one.
LEMMA OneLess ==
  ASSUME NEW S, IsFiniteSet(S), NEW x \in S
  PROVE  Cardinality(S \ {x}) = Cardinality(S) - 1 /\ Cardinality(S) \in Nat \ {0}
         /\ Cardinality(S \ {x}) \in Nat
BY FS_RemoveElement, FS_CardinalityType, FS_EmptySet

-----------------------------------------------------------------------------
LEMMA NoRowIsRow == NoRow \in Row /\ NoRow.state = "free" /\ NoRow.into = None
                    /\ NoRow.count = 0 /\ NoRow.last = 0
BY DEF NoRow, Row

LEMMA IdleType == /\ Idle \in CallType /\ Idle.target = None /\ Idle.pc = "idle"
                  /\ Idle.seen = [i \in Items |-> NoRow] /\ Idle.held = {}
BY NoRowIsRow DEF Idle, CallType

LEMMA AtType ==
  ASSUME NEW w \in Calls, call[w].event \in Events \cup {None},
         NEW p \in {"idle", "lock", "replay", "customer", "contact", "commit"},
         NEW h \in SUBSET Locks, NEW t \in Items \cup {None}, NEW s \in [Items -> Row]
  PROVE  /\ At(w, p, h, t, s) \in CallType
         /\ At(w, p, h, t, s).pc = p /\ At(w, p, h, t, s).held = h
         /\ At(w, p, h, t, s).target = t /\ At(w, p, h, t, s).seen = s
         /\ At(w, p, h, t, s).event = call[w].event
BY DEF At, CallType

-----------------------------------------------------------------------------
(* The writes of staff.                                                    *)

StaffStep ==
    \/ \E r \in Requests : Outcome(r)
    \/ \E i \in Items : MoveCard(i) \/ ScheduleFollowUp(i) \/ ArchiveDailyCall(i)
    \/ \E i \in Items, c \in Customers : LinkCustomer(i, c)
    \/ \E c \in Customers : CreateItem(c)

\* A row that staff wrote: its history is the same, and it is active for a
\* customer only if it was, or by staff.
Rewrites(i) ==
    /\ item[i].state # "free" /\ item'[i].state # "free"
    /\ item'[i].into = item[i].into /\ item'[i].count = item[i].count
    /\ item'[i].last = item[i].last
    /\ item'[i].state = "open" /\ i \notin staffed' =>
           item[i].state = "open" /\ item'[i].cust = item[i].cust

\* A row that staff opened, which holds no signal.
Opens(i) ==
    /\ item[i] = NoRow
    /\ item'[i].state = "open" /\ item'[i].count = 0 /\ item'[i].last = 0
    /\ i \in staffed'

Writes == /\ item' \in [Items -> Row]
          /\ staffed \subseteq staffed' /\ staffed' \subseteq Items
          /\ \A i \in Items : item'[i] = item[i] \/ Rewrites(i) \/ Opens(i)

\* What only one item's row takes part in.
LEMMA OneWrite ==
  ASSUME Base, NEW i \in Items, NEW row \in Row, item' = [item EXCEPT ![i] = row],
         staffed \subseteq staffed', staffed' \subseteq Items,
         \/ /\ item[i].state # "free" /\ row.state # "free"
            /\ row.into = item[i].into /\ row.count = item[i].count /\ row.last = item[i].last
            /\ row.state = "open" /\ i \notin staffed' =>
                   item[i].state = "open" /\ row.cust = item[i].cust
         \/ /\ item[i] = NoRow /\ row.state = "open" /\ row.count = 0 /\ row.last = 0
            /\ i \in staffed'
  PROVE  Writes
<1>1. item \in [Items -> Row]
  BY DEF Base, TypeOK
<1>2. item'[i] = row /\ (\A j \in Items \ {i} : item'[j] = item[j]) /\ item' \in [Items -> Row]
  BY <1>1
<1>3. Rewrites(i) \/ Opens(i)
  BY <1>2 DEF Rewrites, Opens
<1> QED BY <1>2, <1>3 DEF Writes

LEMMA MoveWrites == ASSUME Base, NEW i \in Items, MoveCard(i) \/ ScheduleFollowUp(i) PROVE Writes
<1>1. PICK s \in {"open", "closed"}, q \in {"follow_up", "scheduled", "archive"} :
        /\ item' = [item EXCEPT ![i] = [item[i] EXCEPT !.state = s, !.queue = q]]
        /\ item[i].state # "free"
        /\ \/ s = "closed" /\ staffed' = staffed
           \/ s = "open" /\ staffed' = staffed \cup IF Active(i) THEN {} ELSE {i}
  <2>1. CASE MoveCard(i)
    <3>1. CASE /\ item' = [item EXCEPT ![i] = [item[i] EXCEPT !.state = "open", !.queue = "follow_up"]]
               /\ staffed' = staffed \cup IF Active(i) THEN {} ELSE {i}
      BY <2>1, <3>1 DEF MoveCard
    <3>2. CASE /\ item' = [item EXCEPT ![i] = [item[i] EXCEPT !.state = "closed", !.queue = "archive"]]
               /\ staffed' = staffed
      BY <2>1, <3>2 DEF MoveCard
    <3> QED BY <2>1, <3>1, <3>2 DEF MoveCard, StaffAct
  <2>2. CASE ScheduleFollowUp(i)
    BY <2>2 DEF ScheduleFollowUp, StaffAct
  <2> QED BY <2>1, <2>2
<1> DEFINE new == [item[i] EXCEPT !.state = s, !.queue = q]
<1>2. item[i] \in Row /\ staffed \subseteq Items
  BY DEF Base, TypeOK
<1>3. /\ new \in Row /\ new.state = s /\ new.cust = item[i].cust
      /\ new.into = item[i].into /\ new.count = item[i].count /\ new.last = item[i].last
  BY <1>1, <1>2 DEF Row
<1>4. item' = [item EXCEPT ![i] = new]
  BY <1>1
<1> HIDE DEF new
<1> QED BY <1>1, <1>2, <1>3, <1>4, OneWrite DEF Active

LEMMA ArchiveWrites ==
  ASSUME Base, NEW i \in Items,
         ArchiveDailyCall(i) \/ \E c \in Customers : LinkCustomer(i, c)
  PROVE  Writes
<1>1. item[i] \in Row /\ staffed \subseteq Items
  BY DEF Base, TypeOK
<1>2. CASE ArchiveDailyCall(i)
  <2> DEFINE new == [item[i] EXCEPT !.queue = "archive"]
  <2>1. /\ new \in Row /\ new.state = item[i].state /\ new.cust = item[i].cust
        /\ new.into = item[i].into /\ new.count = item[i].count /\ new.last = item[i].last
    BY <1>1 DEF Row
  <2>2. item' = [item EXCEPT ![i] = new] /\ staffed' = staffed /\ item[i].state # "free"
    BY <1>2 DEF ArchiveDailyCall, StaffAct
  <2> HIDE DEF new
  <2> QED BY <1>1, <2>1, <2>2, OneWrite
<1>3. ASSUME NEW c \in Customers, LinkCustomer(i, c) PROVE Writes
  <2> DEFINE new == [item[i] EXCEPT !.cust = c]
  <2>1. /\ new \in Row /\ new.state = item[i].state
        /\ new.into = item[i].into /\ new.count = item[i].count /\ new.last = item[i].last
    BY <1>1 DEF Row
  <2>2. /\ item' = [item EXCEPT ![i] = new] /\ staffed' = staffed \cup {i}
        /\ item[i].state # "free"
    BY <1>3 DEF LinkCustomer, StaffAct
  <2> HIDE DEF new
  <2> QED BY <1>1, <2>1, <2>2, OneWrite
<1> QED BY <1>2, <1>3

LEMMA CreateWrites == ASSUME Base, NEW c \in Customers, CreateItem(c) PROVE Writes
<1> DEFINE new == [NoRow EXCEPT !.state = "open", !.queue = "follow_up", !.cust = c, !.owned = TRUE]
<1>1. new \in Row /\ new.state = "open" /\ new.count = 0 /\ new.last = 0
  BY DEF NoRow, Row
<1>2. item' = [item EXCEPT ![NewItem] = new] /\ staffed' = staffed \cup {NewItem} /\ moves > 0
  BY DEF CreateItem, StaffAct
<1>3. NewItem \in Items /\ item[NewItem] = NoRow
  BY <1>2, Sizes, NewItemIsFree DEF Budget
<1>4. staffed \subseteq Items
  BY DEF Base, TypeOK
<1> HIDE DEF new
<1> QED BY <1>1, <1>2, <1>3, <1>4, OneWrite

LEMMA OutcomeWrites ==
  ASSUME Base, NEW r \in Requests, NEW k \in Kinds, RecordOutcome(r, k)
  PROVE  Writes
<1> DEFINE i == staff[r].on
           row == [item[i] EXCEPT !.state = Plan(k).state, !.queue = Plan(k).queue]
           written == [item EXCEPT ![i] = row]
           reopened == IF Active(i) \/ Plan(k).state = "closed" THEN {} ELSE {i}
           copy == ReappearingRow(staff[r].row)
<1>1. i \in Items /\ item[i] \in Row /\ item[i].state # "free" /\ staffed \subseteq Items
      /\ item \in [Items -> Row] /\ staff[r].row \in Row /\ r \in Readers
  BY DEF RecordOutcome, Base, TypeOK, Room, Readers, Used
<1>2. Plan(k).state \in {"open", "closed"} /\ Plan(k).queue \in {"follow_up", "scheduled", "archive"}
  BY DEF Plan, Kinds
<1>3. /\ row \in Row /\ row.state = Plan(k).state /\ row.cust = item[i].cust
      /\ row.into = item[i].into /\ row.count = item[i].count /\ row.last = item[i].last
  BY <1>1, <1>2 DEF Row
<1>4. CASE ~Reappears(staff[r].row, k)
  <2>1. item' = written /\ staffed' = staffed \cup reopened
    BY <1>4 DEF RecordOutcome, Planned
  <2> HIDE DEF row
  <2> QED BY <1>1, <1>2, <1>3, <2>1, OneWrite DEF Active
<1>5. CASE Reappears(staff[r].row, k)
  <2>1. item' = [written EXCEPT ![NewItem] = copy] /\ staffed' = staffed \cup {NewItem}
    BY <1>5 DEF RecordOutcome, Planned
  <2>2. Budget > 0
    <3>1. Cardinality(Readers) # 0
      BY <1>1, Sizes, FS_EmptySet
    <3> QED BY <3>1, Sizes DEF Budget
  <2>3. NewItem \in Items /\ NewItem # i /\ item[NewItem] = NoRow
    BY <1>1, <2>2, NewItemIsFree DEF Used
  <2>4. copy \in Row /\ copy.state = "open" /\ copy.count = 0 /\ copy.last = 0
    BY <1>1 DEF ReappearingRow, Row
  <2>5. Plan(k).state = "closed"
    BY <1>5 DEF Reappears, Plan, Kinds
  <2> HIDE DEF row, copy
  <2>6. /\ item' \in [Items -> Row] /\ item'[i] = row /\ item'[NewItem] = copy
        /\ \A j \in Items \ {i, NewItem} : item'[j] = item[j]
    BY <1>1, <1>3, <2>1, <2>3, <2>4
  <2>7. Rewrites(i) /\ Opens(NewItem)
    BY <1>1, <1>3, <2>1, <2>3, <2>4, <2>5, <2>6 DEF Rewrites, Opens
  <2> QED BY <1>1, <2>1, <2>3, <2>6, <2>7 DEF Writes
<1> QED BY <1>4, <1>5

LEMMA StaffWrites ==
  ASSUME Base, StaffStep
  PROVE  Writes /\ UNCHANGED <<call, occ>>
<1>1. UNCHANGED <<call, occ>>
  BY StaffLeaves DEF StaffStep
<1>2. ASSUME NEW r \in Requests, NEW i \in Items, ReadRow(r, i) PROVE Writes
  BY <1>2 DEF ReadRow, tables, Writes, Base, TypeOK
<1> QED BY <1>1, <1>2, OutcomeWrites, MoveWrites, ArchiveWrites, CreateWrites DEF StaffStep, Outcome

-----------------------------------------------------------------------------
(* Types and room are kept.                                                *)

LEMMA RoomLeft ==
  ASSUME Base, NEW x, Used' \in SUBSET (Used \cup {x}), Budget' = Budget - 1
  PROVE  Cardinality(Used') + Budget' <= Cardinality(Items)
<1>1. Cardinality(Used') \in Nat /\ Cardinality(Used') <= Cardinality(Used) + 1
  BY Sizes, OneMore
<1>2. Cardinality(Used) + Budget <= Cardinality(Items) /\ Budget \in Nat
  BY Sizes DEF Base, Room, Budget
<1> QED BY <1>1, <1>2, Sizes

\* What staff wrote leaves the rows, the calls and the occurrences in order.
LEMMA WritesKeepRows ==
  ASSUME Base, Writes, UNCHANGED <<call, occ>>
  PROVE  /\ Used \subseteq Used' /\ (\A i \in Items \ Used' : item'[i] = NoRow)
         /\ (\A e \in Events \ Unheard' : occ'[e] \in Used') /\ Unheard' = Unheard
         /\ Aimed'
<1>1. Used \subseteq Used' /\ \A i \in Items \ Used' : item'[i] = NoRow
  BY NoRowIsRow DEF Base, Room, Writes, Rewrites, Opens, Used
<1>2. Unheard' = Unheard
  BY DEF Unheard
<1>3. Aimed'
  BY <1>1 DEF Base, Aimed, Found
<1> QED BY <1>1, <1>2, <1>3 DEF Base, Room

\* A step of staff spends a move, or the read of a request, for what it opens.
LEMMA StaffRoom ==
  ASSUME Base, StaffStep
  PROVE  Room' /\ staff' \in [Requests -> [pc : {"idle", "read", "done"}, on : Items \cup {None},
                                            row : Row]]
         /\ moves' \in 0..MaxMoves
<1> DEFINE Typed == staff' \in [Requests -> [pc : {"idle", "read", "done"}, on : Items \cup {None},
                                              row : Row]]
<1>w. Writes /\ UNCHANGED <<call, occ>>
  BY StaffWrites
<1>k. /\ Used \subseteq Used' /\ (\A i \in Items \ Used' : item'[i] = NoRow)
      /\ (\A e \in Events \ Unheard' : occ'[e] \in Used') /\ Unheard' = Unheard
  BY <1>w, WritesKeepRows
<1>r. Readers \subseteq Requests
  BY DEF Readers
<1>t. /\ staff \in [Requests -> [pc : {"idle", "read", "done"}, on : Items \cup {None}, row : Row]]
      /\ moves \in 0..MaxMoves /\ MaxMoves \in Nat /\ item \in [Items -> Row]
  BY LifecycleAssumption DEF Base, TypeOK
<1>1. ASSUME NEW r \in Requests, NEW i \in Items, ReadRow(r, i)
      PROVE  Room' /\ Typed /\ moves' \in 0..MaxMoves
  <2>1. /\ staff[r].pc = "idle" /\ item[i].state # "free" /\ moves > 0 /\ moves' = moves - 1
        /\ staff' = [staff EXCEPT ![r] = [pc |-> "read", on |-> i, row |-> item[i]]]
        /\ item' = item
    BY <1>1 DEF ReadRow, tables
  <2>2. Typed /\ staff'[r].pc = "read" /\ staff'[r].on = i
        /\ \A q \in Requests \ {r} : staff'[q] = staff[q]
    BY <1>t, <2>1
  <2>3. Used' = Used /\ i \in Used
    BY <2>1 DEF Used
  <2>4. Readers' = Readers \cup {r} /\ r \notin Readers
    BY <2>1, <2>2 DEF Readers
  <2>5. Cardinality(Readers') = Cardinality(Readers) + 1
    BY <2>4, Sizes, FS_AddElement
  <2>6. Budget' = Budget
    BY <1>k, <2>1, <2>5, Sizes DEF Budget
  <2>7. \A q \in Readers' : staff'[q].on \in Used'
    BY <1>r, <2>2, <2>3, <2>4 DEF Base, Room
  <2> QED BY <1>k, <1>t, <2>1, <2>2, <2>3, <2>6, <2>7 DEF Base, Room
<1>2. ASSUME NEW r \in Requests, NEW k \in Kinds, RecordOutcome(r, k)
      PROVE  Room' /\ Typed /\ moves' \in 0..MaxMoves
  <2>1. /\ staff[r].pc = "read" /\ moves' = moves
        /\ staff' = [staff EXCEPT ![r] = [Unread EXCEPT !.pc = "done"]]
        /\ \A i \in Items : i \notin {staff[r].on, NewItem} => item'[i] = item[i]
    BY <1>2, <1>t DEF RecordOutcome
  <2>2. [Unread EXCEPT !.pc = "done"] = [pc |-> "done", on |-> None, row |-> NoRow]
    BY DEF Unread
  <2>3. Typed /\ staff'[r].pc = "done" /\ \A q \in Requests \ {r} : staff'[q] = staff[q]
    BY <1>t, <2>1, <2>2, NoRowIsRow
  <2>4. Readers' = Readers \ {r} /\ r \in Readers
    BY <2>1, <2>3 DEF Readers
  <2>5. staff[r].on \in Used
    BY <2>4 DEF Base, Room
  <2>6. Used' \in SUBSET (Used \cup {NewItem})
    BY <2>1, <2>5 DEF Used
  <2>7. Cardinality(Readers') = Cardinality(Readers) - 1
    BY <2>4, Sizes, OneLess
  <2>8. Budget' = Budget - 1
    BY <1>k, <2>1, <2>7, Sizes DEF Budget
  <2>9. \A q \in Readers' : staff'[q].on \in Used'
    BY <1>k, <1>r, <2>3, <2>4 DEF Base, Room
  <2>10. Cardinality(Used') + Budget' <= Cardinality(Items)
    BY <2>6, <2>8, RoomLeft
  <2> QED BY <1>k, <1>t, <2>1, <2>3, <2>9, <2>10 DEF Room
<1>3. ASSUME NEW i, NEW row, StaffAct(i, row)
      PROVE  Room' /\ Typed /\ moves' \in 0..MaxMoves
  <2>1. /\ moves > 0 /\ moves' = moves - 1 /\ staff' = staff
        /\ \A j \in Items : j # i => item'[j] = item[j]
    BY <1>3, <1>t DEF StaffAct
  <2>2. Used' \in SUBSET (Used \cup {i})
    BY <2>1 DEF Used
  <2>3. Readers' = Readers
    BY <2>1 DEF Readers
  <2>4. Budget' = Budget - 1
    BY <1>k, <2>1, <2>3, Sizes DEF Budget
  <2>5. \A q \in Readers' : staff'[q].on \in Used'
    BY <1>k, <2>1, <2>3 DEF Base, Room
  <2>6. Cardinality(Used') + Budget' <= Cardinality(Items)
    BY <2>2, <2>4, RoomLeft
  <2> QED BY <1>k, <1>t, <2>1, <2>5, <2>6 DEF Room
<1> QED BY <1>1, <1>2, <1>3 DEF StaffStep, Outcome, MoveCard, ScheduleFollowUp, ArchiveDailyCall,
        LinkCustomer, CreateItem

LEMMA StaffKeepsBase ==
  ASSUME Base, StaffStep, torn' \subseteq Items
  PROVE  Base'
<1>1. Writes /\ UNCHANGED <<call, occ>> /\ Aimed'
  BY StaffWrites, WritesKeepRows
<1>2. Room' /\ staff' \in [Requests -> [pc : {"idle", "read", "done"}, on : Items \cup {None},
                                         row : Row]]
            /\ moves' \in 0..MaxMoves
  BY StaffRoom
<1>3. outcome' \in [Requests -> Items \cup {None}] /\ policy' \subseteq Customers
  <2>1. ASSUME NEW r \in Requests, NEW k \in Kinds, RecordOutcome(r, k)
        PROVE  outcome' \in [Requests -> Items \cup {None}] /\ policy' \subseteq Customers
    BY <2>1 DEF RecordOutcome, Base, TypeOK
  <2> QED BY <2>1 DEF StaffStep, Outcome, ReadRow, MoveCard, ScheduleFollowUp, ArchiveDailyCall,
          LinkCustomer, CreateItem, StaffAct, tables, Base, TypeOK
<1> QED BY <1>1, <1>2, <1>3 DEF Writes, Base, TypeOK

\* A call that moves without a commit: it has read what it aims at.
LEMMA CallKeepsBase ==
  ASSUME Base, NEW w \in Calls, NEW c \in CallType, call' = [call EXCEPT ![w] = c],
         UNCHANGED <<tables, staff, staffed>>, moves' \in 0..moves, torn' \subseteq Items,
         c.target # None => c.seen[c.target] # NoRow,
         \A i \in Items : c.seen[i] # NoRow => i \in Used
  PROVE  Base'
<1>1. UNCHANGED <<item, occ, outcome, policy, staff, staffed>>
  BY DEF tables
<1>2. call' \in [Calls -> CallType] /\ call'[w] = c /\ \A v \in Calls \ {w} : call'[v] = call[v]
  BY DEF Base, TypeOK
<1>3. moves' \in 0..MaxMoves /\ moves' <= moves /\ moves' \in Nat
  BY LifecycleAssumption DEF Base, TypeOK
<1>4. TypeOK'
  BY <1>1, <1>2, <1>3 DEF Base, TypeOK
<1>5. Used' = Used /\ Unheard' = Unheard /\ Readers' = Readers
  BY <1>1 DEF Used, Unheard, Readers
<1>6. Room'
  <2>1. Budget' <= Budget /\ Budget' \in Nat /\ Budget \in Nat
    BY <1>3, <1>5, Sizes DEF Budget
  <2> QED BY <1>1, <1>5, <2>1, Sizes DEF Base, Room
<1>7. Aimed'
  <2>1. ASSUME NEW v \in Calls
        PROVE  /\ call'[v].target # None => call'[v].target \in Found(v)'
               /\ Found(v)' \subseteq Used
    <3>1. CASE v = w
      <4>1. c.target \in Items \cup {None}
        BY DEF CallType
      <4> QED BY <1>2, <3>1, <4>1 DEF Found
    <3>2. CASE v # w
      BY <1>2, <3>2 DEF Base, Aimed, Found
    <3> QED BY <3>1, <3>2
  <2> QED BY <1>5, <2>1 DEF Aimed
<1> QED BY <1>4, <1>6, <1>7 DEF Base

\* A call at rest, or on its way to the look-ups, has read nothing.
Resting(c) == /\ c.target = None /\ c.seen = [i \in Items |-> NoRow]
              /\ c.pc \notin {"contact", "commit"}

LEMMA RestKeepsBase ==
  ASSUME Base, NEW w \in Calls, NEW c \in CallType, call' = [call EXCEPT ![w] = c], Resting(c),
         UNCHANGED <<tables, staff, staffed>>, moves' \in 0..moves, torn' \subseteq Items
  PROVE  Base'
BY CallKeepsBase DEF Resting

\* The steps of a call that leave it at rest.
LEMMA Rests ==
  ASSUME IInv, Base, NEW w \in Calls,
         (\E e \in Events : Begin(w, e)) \/ Acquire(w) \/ CheckReplay(w) \/ Abort(w)
  PROVE  /\ \E c \in CallType : call' = [call EXCEPT ![w] = c] /\ Resting(c)
         /\ UNCHANGED <<tables, staff, staffed>> /\ moves' \in 0..moves
<1>1. call[w] \in CallType /\ moves \in Nat
  BY LifecycleAssumption DEF Base, TypeOK
<1>2. call[w].event \in Events \cup {None} /\ call[w].held \in SUBSET Locks
  BY <1>1 DEF CallType
<1>n. Idle.seen \in [Items -> Row]
  BY IdleType, NoRowIsRow
<1>3. ASSUME NEW e \in Events, Begin(w, e)
      PROVE  \E c \in CallType : call' = [call EXCEPT ![w] = c] /\ Resting(c)
  <2> DEFINE c == [pc |-> "lock", event |-> e, held |-> Idle.held,
                   target |-> Idle.target, seen |-> Idle.seen]
  <2>1. c \in CallType /\ Resting(c)
    BY IdleType, <1>n DEF CallType, Resting
  <2>2. call' = [call EXCEPT ![w] = c]
    BY <1>3 DEF Begin
  <2> HIDE DEF c
  <2> QED BY <2>1, <2>2
<1>4. ASSUME Acquire(w)
      PROVE  \E c \in CallType : call' = [call EXCEPT ![w] = c] /\ Resting(c)
  <2>1. PICK p \in {"replay", "lock"}, h \in SUBSET Locks :
          call' = [call EXCEPT ![w] = At(w, p, h, None, Idle.seen)]
    BY <1>2, <1>4 DEF Acquire
  <2>2. At(w, p, h, None, Idle.seen) \in CallType /\ Resting(At(w, p, h, None, Idle.seen))
    BY <1>2, <1>n, <2>1, IdleType, AtType DEF Resting
  <2> QED BY <2>1, <2>2
<1>5. Idle \in CallType /\ Resting(Idle)
  BY IdleType DEF Resting
<1>6. ASSUME CheckReplay(w)
      PROVE  \E c \in CallType : call' = [call EXCEPT ![w] = c] /\ Resting(c)
  <2>1. \/ call' = [call EXCEPT ![w] = Idle]
        \/ call' = [call EXCEPT ![w] = At(w, "customer", call[w].held, None, Idle.seen)]
    BY <1>6 DEF CheckReplay
  <2>2. /\ At(w, "customer", call[w].held, None, Idle.seen) \in CallType
        /\ Resting(At(w, "customer", call[w].held, None, Idle.seen))
    BY <1>2, <1>n, IdleType, AtType DEF Resting
  <2> QED BY <1>5, <2>1, <2>2
<1>7. ASSUME Abort(w)
      PROVE  \E c \in CallType : call' = [call EXCEPT ![w] = c] /\ Resting(c)
  BY <1>5, <1>7 DEF Abort
<1>8. UNCHANGED <<tables, staff, staffed>> /\ moves' \in 0..moves
  BY <1>1 DEF Begin, Acquire, CheckReplay, Abort
<1> QED BY <1>3, <1>4, <1>6, <1>7, <1>8

\* The look-ups: a call aims at an item it has just read, and reads rows of
\* items that exist.
Looks(w, p, t, s) ==
    /\ t \in Items \cup {None} /\ s \in [Items -> Row]
    /\ p \in {"contact", "commit"}
    /\ call' = [call EXCEPT ![w] = At(w, p, call[w].held, t, s)]
    /\ t # None => s[t] # NoRow
    /\ \A i \in Items : s[i] # NoRow => (Active(i) /\ s[i] = item[i]) \/ s[i] = call[w].seen[i]
    /\ UNCHANGED <<tables, staff, moves, staffed>>

LEMMA CustomerLooks ==
  ASSUME Base, NEW w \in Calls, FindCustomerItem(w)
  PROVE  \E t : \E s : /\ Looks(w, "contact", t, s)
                       /\ s = [i \in Items |-> IF i = t THEN item[i] ELSE NoRow]
                       /\ LET c == EventCustomer[call[w].event]
                              mine == {i \in Items : Active(i) /\ c # None /\ item[i].cust = c}
                          IN  IF mine = {} THEN t = None ELSE t \in mine
<1> DEFINE c == EventCustomer[call[w].event]
           mine == {i \in Items : Active(i) /\ c # None /\ item[i].cust = c}
<1>1. PICK t \in IF mine = {} THEN {None} ELSE Newest(mine) :
        call' = [call EXCEPT ![w] = At(w, "contact", call[w].held, t,
                                      [i \in Items |-> IF i = t THEN item[i] ELSE NoRow])]
  BY DEF FindCustomerItem
<1>2. IF mine = {} THEN t = None ELSE t \in mine
  BY <1>1 DEF Newest
<1> DEFINE s == [i \in Items |-> IF i = t THEN item[i] ELSE NoRow]
<1>3. \A i \in Items : Active(i) => item[i] # NoRow
  BY NoRowIsRow DEF Active
<1>4. s \in [Items -> Row] /\ t \in Items \cup {None} /\ (t # None => s[t] # NoRow)
  BY <1>2, <1>3, NoRowIsRow DEF Base, TypeOK
<1>5. \A i \in Items : s[i] # NoRow => Active(i) /\ s[i] = item[i]
  BY <1>2, LifecycleAssumption
<1>6. Looks(w, "contact", t, s)
  BY <1>1, <1>4, <1>5 DEF FindCustomerItem, Looks
<1> QED BY <1>2, <1>6

LEMMA ContactLooks ==
  ASSUME Base, NEW w \in Calls, FindContactItems(w)
  PROVE  \E t : \E s : /\ Looks(w, "commit", t, s)
                       /\ \A i \in Items : call[w].seen[i] # NoRow => s[i] # NoRow
                       /\ IF call[w].target # None
                          THEN t = call[w].target /\ s[t] = call[w].seen[t]
                          ELSE t # None => item[t].cust = None /\ s[t] = item[t]
<1> DEFINE theirs == ContactItems(call[w].event)
           s == [i \in Items |-> IF i \in theirs /\ i # call[w].target
                                 THEN item[i] ELSE call[w].seen[i]]
<1>1. PICK t \in IF call[w].target # None THEN {call[w].target}
                 ELSE IF theirs = {} THEN {None} ELSE Newest(theirs) :
        call' = [call EXCEPT ![w] = At(w, "commit", call[w].held, t, s)]
  BY DEF FindContactItems
<1>2. /\ call[w].target # None => t = call[w].target
      /\ call[w].target = None => t = None \/ t \in theirs
  BY <1>1 DEF Newest
<1>3. \A i \in theirs : i \in Items /\ Active(i) /\ item[i].cust = None /\ item[i] # NoRow
  BY NoRowIsRow DEF ContactItems, Active
<1>4. /\ item \in [Items -> Row] /\ call[w].seen \in [Items -> Row]
      /\ call[w].target \in Items \cup {None}
      /\ call[w].target # None => call[w].seen[call[w].target] # NoRow
  BY DEF Base, TypeOK, CallType, Aimed, Found
<1> HIDE DEF theirs
<1>5. s \in [Items -> Row] /\ t \in Items \cup {None}
  BY <1>2, <1>3, <1>4
<1>6. t # None => s[t] # NoRow
  BY <1>2, <1>3, <1>4, <1>5
<1>7. \A i \in Items : s[i] # NoRow => (Active(i) /\ s[i] = item[i]) \/ s[i] = call[w].seen[i]
  BY <1>3
<1>8. \A i \in Items : call[w].seen[i] # NoRow => s[i] # NoRow
  BY <1>3
<1>s. call[w].target # None => s[t] = call[w].seen[t]
  BY <1>2, <1>5
<1>9. call[w].target = None /\ t # None => item[t].cust = None /\ s[t] = item[t]
  BY <1>2, <1>3, <1>5, LifecycleAssumption
<1>10. Looks(w, "commit", t, s)
  BY <1>1, <1>5, <1>6, <1>7 DEF FindContactItems, Looks
<1> QED BY <1>2, <1>8, <1>s, <1>9, <1>10

LEMMA LooksKeepsBase ==
  ASSUME IInv, Base, NEW w \in Calls, NEW p, NEW t, NEW s, Looks(w, p, t, s), torn' \subseteq Items
  PROVE  Base'
<1> DEFINE c == At(w, p, call[w].held, t, s)
<1>1. /\ call[w].held \in SUBSET Locks /\ call[w].event \in Events \cup {None} /\ moves \in Nat
      /\ call[w].seen \in [Items -> Row]
  BY LifecycleAssumption DEF Base, TypeOK, CallType
<1>2. c \in CallType /\ c.target = t /\ c.seen = s
  BY <1>1, AtType DEF Looks
<1>3. \A i \in Items : s[i] # NoRow => i \in Used
  BY DEF Looks, Active, Used, Base, Aimed, Found
<1>4. call' = [call EXCEPT ![w] = c] /\ UNCHANGED <<tables, staff, staffed>> /\ moves' \in 0..moves
  BY <1>1 DEF Looks
<1>5. t # None => s[t] # NoRow
  BY DEF Looks
<1> HIDE DEF c
<1> QED BY <1>2, <1>3, <1>4, <1>5, CallKeepsBase

-----------------------------------------------------------------------------
(* The commit.                                                             *)

LEMMA FoundIsFinite ==
  ASSUME Base, NEW w \in Calls
  PROVE  /\ IsFiniteSet(Found(w)) /\ Found(w) \subseteq Items
         /\ \A i \in Found(w) : call[w].seen[i] \in Row
<1>1. Found(w) \in SUBSET Items
  BY DEF Found
<1>2. call[w].seen \in [Items -> Row]
  BY DEF Base, TypeOK, CallType
<1> QED BY <1>1, <1>2, LifecycleAssumption, FS_Subset

\* The latest signal of the rows a call has read.
LEMMA LastSignalOf ==
  ASSUME Base, NEW w \in Calls, Found(w) # {}
  PROVE  LET last == LastSignal(call[w].seen, Found(w))
         IN  /\ last \in Nat /\ \E i \in Found(w) : call[w].seen[i].last = last
             /\ \A i \in Found(w) : call[w].seen[i].last <= last
<1> DEFINE L == {call[w].seen[i].last : i \in Found(w)}
<1>1. IsFiniteSet(L)
  <2> DEFINE f == [i \in Found(w) |-> call[w].seen[i].last]
  <2>1. L = {f[i] : i \in Found(w)}
    OBVIOUS
  <2> HIDE DEF f, L
  <2> QED BY <2>1, FoundIsFinite, ImageIsFinite
<1>2. L \subseteq Nat /\ L # {}
  BY FoundIsFinite DEF Row
<1>3. LastSignal(call[w].seen, Found(w)) = Max(L)
  BY DEF LastSignal
<1>4. Max(L) \in L /\ \A m \in L : m <= Max(L)
  <2> HIDE DEF L
  <2> QED BY <1>1, <1>2, MaxOf
<1> QED BY <1>2, <1>3, <1>4

\* The row a continued item gets.
LEMMA ContinuedRowIs ==
  ASSUME IInv, Base, NEW w \in Calls, call[w].pc = "commit", NEW t, t = call[w].target, t # None
  PROVE  /\ t \in Items /\ ContinuedRow(w, t) \in Row /\ ContinuedRow(w, t).state # "free"
         /\ ContinuedRow(w, t).into = item[t].into
         /\ ContinuedRow(w, t).count = SumCount(call[w].seen, Found(w)) + 1
         /\ ContinuedRow(w, t).last = Max({LastSignal(call[w].seen, Found(w)), EventAt[call[w].event]})
         /\ ContinuedRow(w, t).cust = CustomerOf(w, t)
<1> DEFINE e == call[w].event
           rows == call[w].seen
           last == LastSignal(rows, Found(w))
<1>1. /\ t \in Found(w) /\ t \in Items /\ item[t] \in Row /\ t \in Used /\ rows[t] \in Row
      /\ item[t].state # "free"
  BY FoundIsFinite DEF Base, TypeOK, Aimed, Used
<1>2. e \in Events
  BY DEF IInv, Owns, Own
<1>3. last \in Nat /\ EventAt[e] \in Nat
  BY <1>1, <1>2, LastSignalOf, LifecycleAssumption
<1>4. CustomerOf(w, t) \in Customers \cup {None}
  BY <1>1, <1>2, LifecycleAssumption DEF CustomerOf, Row
<1>5. KeysOf(e) \cup UNION {rows[i].keys : i \in Found(w)} \in SUBSET Keys
  BY <1>2, FoundIsFinite, LifecycleAssumption DEF KeysOf, Row
<1>6. CountOf(rows, Found(w), t) = SumCount(rows, Found(w)) + 1
  BY DEF CountOf, SumCount
<1>7. SumCount(rows, Found(w)) \in Nat
  BY FoundIsFinite, SumType DEF Row
<1>8. Max({last, EventAt[e]}) \in Nat
  <2>1. CASE last <= EventAt[e]
    BY <1>3, <2>1, MaxIs
  <2>2. CASE EventAt[e] <= last
    BY <1>3, <2>2, MaxIs
  <2> QED BY <1>3, <2>1, <2>2
<1> DEFINE cust == CustomerOf(w, t)
           keys == KeysOf(e) \cup UNION {rows[i].keys : i \in Found(w)}
           count == CountOf(rows, Found(w), t)
           latest == Max({last, EventAt[e]})
           owned == (e \in Assigned /\ EventAt[e] >= last) \/ \E i \in Found(w) : rows[i].owned
           kept == [item[t] EXCEPT !.cust = cust, !.keys = keys, !.count = count,
                                   !.last = latest, !.owned = owned]
<1>9. ContinuedRow(w, t) = IF EventAt[e] >= last
                           THEN [kept EXCEPT !.state = "open", !.queue = "follow_up"] ELSE kept
  BY DEF ContinuedRow
<1>10. cust \in Customers \cup {None} /\ keys \in SUBSET Keys /\ count \in Nat /\ latest \in Nat
       /\ owned \in BOOLEAN
  BY <1>4, <1>5, <1>6, <1>7, <1>8, FoundIsFinite DEF Row
<1> HIDE DEF cust, keys, count, latest, owned
<1>11. /\ kept \in Row /\ kept.state # "free" /\ kept.into = item[t].into /\ kept.count = count
       /\ kept.last = latest /\ kept.cust = cust
  BY <1>1, <1>10 DEF Row
<1> HIDE DEF kept
<1>12. /\ ContinuedRow(w, t) \in Row /\ ContinuedRow(w, t).state # "free"
       /\ ContinuedRow(w, t).into = kept.into /\ ContinuedRow(w, t).count = kept.count
       /\ ContinuedRow(w, t).last = kept.last /\ ContinuedRow(w, t).cust = kept.cust
  BY <1>9, <1>11 DEF Row
<1> QED BY <1>1, <1>6, <1>11, <1>12 DEF cust, count, latest

\* A commit that opens an item takes a free one for its event.
Opened(w, n) ==
    /\ n \in Items \ Used /\ item[n] = NoRow
    /\ item' = [item EXCEPT ![n] = OpenedRow(call[w].event)]
    /\ occ' = [occ EXCEPT ![call[w].event] = n]

\* A commit that continues an item merges the others it had found into it.
Continued(w, t) ==
    /\ t \in Found(w) /\ Found(w) \subseteq Used
    /\ item'[t] = ContinuedRow(w, t)
    /\ \A i \in Found(w) \ {t} : item'[i] = MergedRow(i, t)
    /\ \A i \in Items \ Found(w) : item'[i] = item[i]
    /\ \A f \in Events : occ'[f] = IF f = call[w].event \/ occ[f] \in Found(w) THEN t ELSE occ[f]

LEMMA OpenedRowIs ==
  ASSUME NEW e \in Events
  PROVE  /\ OpenedRow(e) \in Row /\ OpenedRow(e).state = "open" /\ OpenedRow(e).into = None
         /\ OpenedRow(e).cust = EventCustomer[e] /\ OpenedRow(e).count = 1
         /\ OpenedRow(e).last = EventAt[e]
<1>1. KeysOf(e) \in SUBSET Keys /\ EventCustomer[e] \in Customers \cup {None} /\ EventAt[e] \in Nat
  BY LifecycleAssumption DEF KeysOf
<1> QED BY <1>1 DEF OpenedRow, Row

LEMMA MergedRowIs ==
  ASSUME Base, NEW i \in Items, NEW t \in Items
  PROVE  /\ MergedRow(i, t) \in Row /\ MergedRow(i, t).state = "closed"
         /\ MergedRow(i, t).into = t
<1>1. item[i] \in Row
  BY DEF Base, TypeOK
<1> QED BY <1>1 DEF MergedRow, Row

LEMMA Commits ==
  ASSUME IInv, Base, NEW w \in Calls, Commit(w)
  PROVE  /\ call[w].event \in Events /\ occ[call[w].event] = None
         /\ call' = [call EXCEPT ![w] = Idle] /\ UNCHANGED <<policy, staff, moves, staffed>>
         /\ item' \in [Items -> Row] /\ occ' \in [Events -> Items \cup {None}]
         /\ outcome' \in [Requests -> Items \cup {None}]
         /\ \/ call[w].target = None /\ \E n \in Items : Opened(w, n)
            \/ call[w].target # None /\ Continued(w, call[w].target)
<1> DEFINE e == call[w].event
           t == call[w].target
<1>1. /\ e \in Events /\ occ[e] = None /\ call' = [call EXCEPT ![w] = Idle]
      /\ UNCHANGED <<policy, staff, moves, staffed>>
  BY DEF Commit, IInv, Owns, Own
<1>2. /\ item \in [Items -> Row] /\ occ \in [Events -> Items \cup {None}]
      /\ outcome \in [Requests -> Items \cup {None}]
  BY DEF Base, TypeOK
<1>3. CASE t = None
  <2>1. Budget > 0
    <3>1. Cardinality(Unheard) # 0
      BY <1>1, Sizes, FS_EmptySet DEF Unheard
    <3> QED BY <3>1, Sizes DEF Budget
  <2>2. NewItem \in Items \ Used /\ item[NewItem] = NoRow
    BY <2>1, NewItemIsFree
  <2>3. /\ item' = [item EXCEPT ![NewItem] = OpenedRow(e)] /\ occ' = [occ EXCEPT ![e] = NewItem]
        /\ outcome' = outcome
    BY <1>3 DEF Commit, OpenItem
  <2>4. Opened(w, NewItem)
    BY <2>2, <2>3 DEF Opened
  <2>5. item' \in [Items -> Row] /\ occ' \in [Events -> Items \cup {None}]
    BY <1>1, <1>2, <2>2, <2>3, OpenedRowIs
  <2> QED BY <1>1, <1>2, <1>3, <2>2, <2>3, <2>4, <2>5
<1>4. CASE t # None
  <2>1. /\ item' = [i \in Items |-> IF i = t THEN ContinuedRow(w, t)
                                   ELSE IF i \in Found(w) \ {t} THEN MergedRow(i, t) ELSE item[i]]
        /\ occ' = [f \in Events |-> IF f = e THEN t ELSE MovedTo(occ[f], t, Found(w) \ {t})]
        /\ outcome' = [r \in Requests |-> MovedTo(outcome[r], t, Found(w) \ {t})]
    BY <1>4 DEF Commit, Continue
  <2>2. t \in Found(w) /\ t \in Items /\ Found(w) \subseteq Used /\ Found(w) \subseteq Items
    BY <1>4, FoundIsFinite DEF Base, Aimed
  <2>3. ContinuedRow(w, t) \in Row /\ \A i \in Items : MergedRow(i, t) \in Row
    <3>1. call[w].pc = "commit"
      BY DEF Commit
    <3> QED BY <1>4, <2>2, <3>1, ContinuedRowIs, MergedRowIs
  <2>4. Continued(w, t)
    BY <2>1, <2>2 DEF Continued, MovedTo
  <2>5. /\ item' \in [Items -> Row] /\ occ' \in [Events -> Items \cup {None}]
        /\ outcome' \in [Requests -> Items \cup {None}]
    BY <1>2, <2>1, <2>2, <2>3 DEF MovedTo
  <2> QED BY <1>1, <1>4, <2>4, <2>5
<1> QED BY <1>3, <1>4

LEMMA CommitKeepsBase ==
  ASSUME IInv, Base, NEW w \in Calls, Commit(w), torn' \subseteq Items
  PROVE  Base'
<1> DEFINE e == call[w].event
           t == call[w].target
<1>1. /\ e \in Events /\ occ[e] = None
      /\ call' = [call EXCEPT ![w] = Idle] /\ UNCHANGED <<policy, staff, moves, staffed>>
      /\ item' \in [Items -> Row] /\ occ' \in [Events -> Items \cup {None}]
      /\ outcome' \in [Requests -> Items \cup {None}]
      /\ \/ t = None /\ \E n \in Items : Opened(w, n)
         \/ t # None /\ Continued(w, t)
  BY Commits
<1>2. /\ call' \in [Calls -> CallType] /\ call'[w] = Idle
      /\ \A v \in Calls \ {w} : call'[v] = call[v]
  BY <1>1, IdleType DEF Base, TypeOK
<1>3. TypeOK'
  BY <1>1, <1>2 DEF Base, TypeOK
<1>4. item \in [Items -> Row] /\ occ \in [Events -> Items \cup {None}]
  BY DEF Base, TypeOK
<1>5. \E x \in Items : /\ Used \subseteq Used' /\ Used' \in SUBSET (Used \cup {x}) /\ x \in Used'
                       /\ occ'[e] = x
                       /\ \A f \in Events : f # e => (occ'[f] = occ[f] \/ (occ[f] # None /\ occ'[f] = x))
                       /\ \A i \in Items \ {x} : item'[i].state = "free" => item'[i] = item[i]
  <2>1. ASSUME NEW n \in Items, Opened(w, n)
        PROVE  /\ Used' = Used \cup {n} /\ occ'[e] = n
               /\ \A f \in Events : f # e => occ'[f] = occ[f]
               /\ \A i \in Items \ {n} : item'[i] = item[i]
    <3>1. item'[n].state = "open" /\ \A i \in Items \ {n} : item'[i] = item[i]
      BY <1>1, <1>4, <2>1, OpenedRowIs DEF Opened
    <3>2. Used' = Used \cup {n}
      BY <3>1 DEF Used
    <3> QED BY <1>1, <1>4, <2>1, <3>1, <3>2 DEF Opened
  <2>2. ASSUME t # None, Continued(w, t)
        PROVE  /\ t \in Items /\ Used' = Used /\ t \in Used /\ occ'[e] = t
               /\ \A f \in Events : f # e => (occ'[f] = occ[f] \/ (occ[f] # None /\ occ'[f] = t))
               /\ \A i \in Items : item'[i].state = "free" => item'[i] = item[i]
    <3>1. t \in Items /\ t \in Used /\ Found(w) \subseteq Used /\ t \in Found(w)
      BY <2>2, FoundIsFinite DEF Continued
    <3>2. \A i \in Found(w) : item'[i].state # "free"
      <4>1. call[w].pc = "commit"
        BY DEF Commit
      <4>2. ContinuedRow(w, t).state # "free"
        BY <2>2, <4>1, ContinuedRowIs
      <4>t. item'[t].state # "free"
        BY <2>2, <4>2 DEF Continued
      <4>3. \A i \in Found(w) \ {t} : item'[i].state # "free"
        BY <2>2, <3>1, FoundIsFinite, MergedRowIs DEF Continued
      <4> QED BY <4>t, <4>3
    <3>3. \A i \in Items \ Found(w) : item'[i] = item[i]
      BY <2>2 DEF Continued
    <3>4. Used' = Used
      BY <3>1, <3>2, <3>3 DEF Used
    <3>5. None \notin Found(w)
      BY FoundIsFinite, LifecycleAssumption
    <3>6. \A f \in Events : occ'[f] = IF f = e \/ occ[f] \in Found(w) THEN t ELSE occ[f]
      BY <2>2 DEF Continued
    <3>7. occ'[e] = t /\ \A f \in Events : f # e => (occ'[f] = occ[f] \/ (occ[f] # None /\ occ'[f] = t))
      <4>1. e \in Events
        BY <1>1
      <4> HIDE DEF e, t
      <4> QED BY <3>5, <3>6, <4>1
    <3>8. \A i \in Items : item'[i].state = "free" => item'[i] = item[i]
      BY <3>2, <3>3
    <3> QED BY <3>1, <3>4, <3>7, <3>8
  <2>3. CASE t # None
    BY <1>1, <2>2, <2>3
  <2>4. CASE t = None
    <3>1. PICK n \in Items : Opened(w, n)
      BY <1>1, <2>4
    <3>2. /\ Used' = Used \cup {n} /\ occ'[e] = n
          /\ \A f \in Events : f # e => occ'[f] = occ[f]
          /\ \A i \in Items \ {n} : item'[i] = item[i]
      BY <2>1, <3>1
    <3> HIDE DEF e
    <3> QED BY <3>1, <3>2
  <2> QED BY <2>3, <2>4
<1>6. PICK x \in Items :
                       /\ Used \subseteq Used' /\ Used' \in SUBSET (Used \cup {x}) /\ x \in Used'
                       /\ occ'[e] = x
                       /\ \A f \in Events : f # e => (occ'[f] = occ[f] \/ (occ[f] # None /\ occ'[f] = x))
                       /\ \A i \in Items \ {x} : item'[i].state = "free" => item'[i] = item[i]
  BY <1>5
<1>7. Unheard' = Unheard \ {e} /\ e \in Unheard
  BY <1>1, <1>6, LifecycleAssumption DEF Unheard
<1>8. Readers' = Readers
  BY <1>1 DEF Readers
<1>9. Budget' = Budget - 1
  BY <1>1, <1>7, <1>8, Sizes, OneLess DEF Budget
<1>10. Room'
  <2>1. Cardinality(Used') + Budget' <= Cardinality(Items)
    BY <1>6, <1>9, RoomLeft
  <2>2. \A i \in Items \ Used' : item'[i] = NoRow
    <3> SUFFICES ASSUME NEW i \in Items \ Used' PROVE item'[i] = NoRow
      OBVIOUS
    <3>1. item'[i].state = "free" /\ i # x /\ i \in Items \ Used
      BY <1>6 DEF Used
    <3>2. item[i] = NoRow
      BY <3>1 DEF Base, Room
    <3>3. item'[i] = item[i]
      BY <1>6, <3>1
    <3> QED BY <3>2, <3>3
  <2>3. \A f \in Events \ Unheard' : occ'[f] \in Used'
    BY <1>6, <1>7 DEF Base, Room, Unheard
  <2>4. \A r \in Readers' : staff'[r].on \in Used'
    BY <1>1, <1>6, <1>8 DEF Base, Room
  <2> QED BY <2>1, <2>2, <2>3, <2>4 DEF Room
<1>11. Aimed'
  <2>1. ASSUME NEW v \in Calls
        PROVE  /\ call'[v].target # None => call'[v].target \in Found(v)'
               /\ Found(v)' \subseteq Used'
    <3>1. CASE v = w
      BY <1>2, <3>1, IdleType DEF Found
    <3>2. CASE v # w
      BY <1>2, <1>6, <3>2 DEF Base, Aimed, Found
    <3> QED BY <3>1, <3>2
  <2> QED BY <2>1 DEF Aimed
<1> QED BY <1>3, <1>10, <1>11 DEF Base

\* The ghost remembers items only.
LEMMA TornType ==
  ASSUME Tear, torn \subseteq Items
  PROVE  /\ torn \subseteq torn' /\ torn' \subseteq Items
         /\ Overlap' \subseteq torn' /\ Revived' \subseteq torn'
         /\ \A i \in torn : item'[i].into \in Items => item'[i].into \in torn'
<1>1. Overlap' \subseteq Items /\ Revived' \subseteq Items
  BY DEF Overlap, Revived
<1> QED BY <1>1 DEF Tear

LEMMA NextKeepsBase ==
  ASSUME IInv, Base, [Next]_vars
  PROVE  Base'
<1>1. CASE UNCHANGED vars
  BY <1>1 DEF vars, Base, TypeOK, Room, Budget, Used, Unheard, Readers, Aimed, Found
<1>2. ASSUME Next PROVE Base'
  <2>1. torn' \subseteq Items
    BY <1>2, TornType DEF Next, Base, TypeOK
  <2>2. CASE StaffStep
    BY <2>1, <2>2, StaffKeepsBase
  <2>3. ASSUME NEW w \in Calls, Signal(w) PROVE Base'
    <3>1. CASE (\E e \in Events : Begin(w, e)) \/ Acquire(w) \/ CheckReplay(w) \/ Abort(w)
      BY <2>1, <3>1, Rests, RestKeepsBase
    <3>2. CASE FindCustomerItem(w)
      BY <2>1, <3>2, CustomerLooks, LooksKeepsBase
    <3>3. CASE FindContactItems(w)
      BY <2>1, <3>3, ContactLooks, LooksKeepsBase
    <3>4. CASE Commit(w)
      BY <2>1, <3>4, CommitKeepsBase
    <3> QED BY <2>3, <3>1, <3>2, <3>3, <3>4 DEF Signal
  <2> QED BY <1>2, <2>2, <2>3 DEF Next, StaffStep
<1> QED BY <1>1, <1>2

-----------------------------------------------------------------------------
LEMMA InitBase == Init => Base
<1> SUFFICES ASSUME Init PROVE Base
  OBVIOUS
<1>1. TypeOK
  BY NoRowIsRow, IdleType, LifecycleAssumption DEF Init, TypeOK, Unread
<1>2. Used = {} /\ Unheard = Events /\ Readers = {} /\ moves = MaxMoves
  BY DEF Init, Used, Unheard, Readers, NoRow, Unread
<1>3. Cardinality({}) = 0 /\ Cardinality(Events) \in Nat /\ Cardinality(Items) \in Nat
  BY LifecycleAssumption, FS_EmptySet, FS_CardinalityType
<1>4. Cardinality(Used) + Budget <= Cardinality(Items)
  BY <1>2, <1>3, LifecycleAssumption DEF Budget
<1>5. Room
  BY <1>2, <1>4 DEF Room, Init
<1>6. Aimed
  BY IdleType DEF Init, Aimed, Found
<1> QED BY <1>1, <1>5, <1>6 DEF Base

-----------------------------------------------------------------------------
(* Rows that a call has read are as it read them; what an item counts.     *)

Reads ==
    /\ \A w \in Calls : \A i \in Found(w) \ torn :
           /\ item[i].into = None
           /\ item[i].count = call[w].seen[i].count
           /\ item[i].last = call[w].seen[i].last
    /\ Overlap \subseteq torn /\ Revived \subseteq torn

\* The last of an item bounds its signals, and is one of them or 0.
Latest(i) ==
    /\ \A e \in Occurrences(i) : EventAt[e] <= item[i].last
    /\ Occurrences(i) # {} => \E e \in Occurrences(i) : EventAt[e] = item[i].last
    /\ item[i].into = None /\ Occurrences(i) = {} => item[i].last = 0

Honest ==
    \A i \in Items \ torn :
        /\ Latest(i)
        /\ item[i].into = None => item[i].count = Cardinality(Occurrences(i))
        /\ item[i].into # None => Occurrences(i) = {}

\* A step writes items for staff, by a commit, or not at all.
LEMMA Cases ==
  ASSUME IInv, Base, Next
  PROVE  \/ Writes /\ UNCHANGED <<call, occ>>
         \/ \E w \in Calls : Commit(w)
         \/ UNCHANGED <<item, occ, staffed>> /\ \E w \in Calls, c \in CallType :
               call' = [call EXCEPT ![w] = c] /\ Resting(c)
         \/ UNCHANGED <<item, occ, staffed>> /\ \E w \in Calls :
               FindCustomerItem(w) \/ FindContactItems(w)
<1>1. CASE StaffStep
  BY <1>1, StaffWrites
<1>2. ASSUME NEW w \in Calls,
             (\E e \in Events : Begin(w, e)) \/ Acquire(w) \/ CheckReplay(w) \/ Abort(w)
      PROVE  UNCHANGED <<item, occ, staffed>> /\ \E c \in CallType :
               call' = [call EXCEPT ![w] = c] /\ Resting(c)
  BY <1>2, Rests DEF tables
<1>3. ASSUME NEW w \in Calls, FindCustomerItem(w) \/ FindContactItems(w)
      PROVE  UNCHANGED <<item, occ, staffed>>
  BY <1>3 DEF FindCustomerItem, FindContactItems, tables
<1> QED BY <1>1, <1>2, <1>3 DEF Next, StaffStep, Signal

LEMMA TornGrows ==
  ASSUME Base, Next
  PROVE  /\ torn \subseteq torn' /\ torn' \subseteq Items
         /\ Overlap' \subseteq torn' /\ Revived' \subseteq torn'
         /\ \A i \in torn : item'[i].into \in Items => item'[i].into \in torn'
  BY TornType DEF Next, Base, TypeOK

\* A commit leaves the rows that other calls have read, or they are torn.
LEMMA CommitSpares ==
  ASSUME IInv, Base, Reads, NEW w \in Calls, Commit(w), NEW v \in Calls, v # w
  PROVE  \A i \in Found(v) \ torn : item'[i] = item[i]
<1>1. Found(v) \cap Found(w) \subseteq torn
  BY DEF Reads, Overlap, Found
<1>2. CASE call[w].target = None
  <2>1. PICK n \in Items : Opened(w, n)
    BY <1>2, Commits
  <2> QED BY <2>1, FoundIsFinite DEF Opened, Base, TypeOK, Aimed
<1>3. CASE call[w].target # None
  BY <1>1, <1>3, Commits, FoundIsFinite DEF Continued
<1> QED BY <1>2, <1>3

LEMMA ReadsKept == ASSUME IInv, Base, Reads, Next PROVE Reads'
<1> DEFINE Fresh(w) == \A i \in Found(w) \ torn :
                          /\ item[i].into = None
                          /\ item[i].count = call[w].seen[i].count
                          /\ item[i].last = call[w].seen[i].last
<1>1. torn \subseteq torn' /\ Overlap' \subseteq torn' /\ Revived' \subseteq torn'
  BY TornGrows
<1>2. \A w \in Calls : Fresh(w)
  BY DEF Reads
<1>c. call \in [Calls -> CallType]
  BY DEF Base, TypeOK
<1>3. ASSUME NEW v \in Calls, call'[v] = call[v],
             \A i \in Found(v) \ torn : /\ item'[i].into = item[i].into
                                        /\ item'[i].count = item[i].count
                                        /\ item'[i].last = item[i].last
      PROVE  Fresh(v)'
  <2>1. Found(v)' = Found(v)
    BY <1>3 DEF Found
  <2> QED BY <1>1, <1>2, <1>3, <2>1
<1>4. \A v \in Calls : Found(v) \subseteq Used /\ Found(v) \subseteq Items
  BY FoundIsFinite DEF Base, Aimed
<1>5. ASSUME Writes, UNCHANGED <<call, occ>>, NEW v \in Calls PROVE Fresh(v)'
  <2>1. \A i \in Used : item'[i] = item[i] \/ Rewrites(i)
    BY <1>5, NoRowIsRow DEF Writes, Opens, Used
  <2>2. \A i \in Found(v) : /\ item'[i].into = item[i].into
                            /\ item'[i].count = item[i].count
                            /\ item'[i].last = item[i].last
    BY <1>4, <2>1 DEF Rewrites
  <2> QED BY <1>3, <1>5, <2>2
<1>6. ASSUME NEW w \in Calls, Commit(w), NEW v \in Calls PROVE Fresh(v)'
  <2>1. call' = [call EXCEPT ![w] = Idle]
    BY <1>6, Commits
  <2>2. CASE v = w
    <3>1. Found(v)' = {}
      BY <1>c, <2>1, <2>2, IdleType DEF Found
    <3> QED BY <3>1
  <2>3. CASE v # w
    BY <1>c, <1>3, <1>6, <2>1, <2>3, CommitSpares
  <2> QED BY <2>2, <2>3
<1>7. ASSUME UNCHANGED <<item, occ, staffed>>, NEW v \in Calls,
             NEW w \in Calls, NEW c \in CallType, call' = [call EXCEPT ![w] = c],
             \A i \in Items : c.seen[i] # NoRow =>
                 \/ Active(i) /\ c.seen[i] = item[i]
                 \/ c.seen[i] = call[w].seen[i]
      PROVE  Fresh(v)'
  <2>1. CASE v # w
    BY <1>c, <1>3, <1>7, <2>1
  <2>2. CASE v = w
    <3>1. call'[v] = c
      BY <1>c, <1>7, <2>2
    <3> SUFFICES ASSUME NEW i \in Found(v)', i \notin torn'
                 PROVE  /\ item'[i].into = None
                        /\ item'[i].count = c.seen[i].count
                        /\ item'[i].last = c.seen[i].last
      BY <3>1
    <3>2. i \in Items /\ c.seen[i] # NoRow
      BY <3>1 DEF Found
    <3>3. CASE Active(i) /\ c.seen[i] = item[i]
      <4>1. i \notin Revived'
        BY <1>1
      <4> QED BY <1>7, <3>2, <3>3, <4>1 DEF Revived, Active
    <3>4. CASE c.seen[i] = call[w].seen[i]
      <4>1. i \in Found(w) \ torn
        BY <1>1, <3>2, <3>4 DEF Found
      <4> QED BY <1>2, <1>7, <3>4, <4>1
    <3> QED BY <1>7, <3>2, <3>3, <3>4
  <2> QED BY <2>1, <2>2
<1>8. ASSUME UNCHANGED <<item, occ, staffed>>, NEW v \in Calls, NEW w \in Calls,
             FindCustomerItem(w) \/ FindContactItems(w)
      PROVE  Fresh(v)'
  <2>1. PICK p, t, s : Looks(w, p, t, s)
    BY <1>8, CustomerLooks, ContactLooks
  <2> DEFINE c == At(w, p, call[w].held, t, s)
  <2>2. /\ call[w].held \in SUBSET Locks /\ call[w].event \in Events \cup {None}
    BY DEF Base, TypeOK, CallType
  <2>3. c \in CallType /\ c.seen = s /\ call' = [call EXCEPT ![w] = c]
    BY <2>1, <2>2, AtType DEF Looks
  <2>4. \A i \in Items : s[i] # NoRow =>
                 \/ Active(i) /\ s[i] = item[i]
                 \/ s[i] = call[w].seen[i]
    BY <2>1 DEF Looks
  <2> HIDE DEF c, Fresh
  <2> QED BY <1>7, <1>8, <2>3, <2>4
<1>9. ASSUME UNCHANGED <<item, occ, staffed>>, NEW v \in Calls, NEW w \in Calls,
             NEW c \in CallType, call' = [call EXCEPT ![w] = c], Resting(c)
      PROVE  Fresh(v)'
  <2>1. \A i \in Items : c.seen[i] = NoRow
    BY <1>9 DEF Resting
  <2> HIDE DEF Fresh
  <2> QED BY <1>7, <1>9, <2>1
<1>10. \A v \in Calls : Fresh(v)'
  <2> HIDE DEF Fresh
  <2> QED BY <1>5, <1>6, <1>8, <1>9, Cases
<1> QED BY <1>1, <1>10 DEF Reads

LEMMA OccurrencesAreFinite ==
  ASSUME NEW i
  PROVE  IsFiniteSet(Occurrences(i)) /\ Cardinality(Occurrences(i)) \in Nat
<1>1. Occurrences(i) \subseteq Events
  BY DEF Occurrences
<1> QED BY <1>1, LifecycleAssumption, FS_Subset, FS_CardinalityType

\* The counts of items that count honestly add up to the signals they hold.
LEMMA SumOfSignals ==
  ASSUME NEW rows, NEW S \in SUBSET Items,
         \A i \in S : rows[i].count = Cardinality(Occurrences(i))
  PROVE  SumCount(rows, S) = Cardinality(UNION {Occurrences(i) : i \in S})
<1> DEFINE All(T) == UNION {Occurrences(i) : i \in T}
           h == [T \in SUBSET S |-> Cardinality(All(T))]
<1>1. ASSUME NEW T \in SUBSET S PROVE IsFiniteSet(All(T)) /\ Cardinality(All(T)) \in Nat
  <2>1. All(T) \subseteq Events
    BY DEF Occurrences
  <2> HIDE DEF All
  <2> QED BY <2>1, LifecycleAssumption, FS_Subset, FS_CardinalityType
<1>2. h \in [SUBSET S -> Nat]
  BY <1>1
<1>3. h[{}] = 0
  <2>1. All({}) = {}
    OBVIOUS
  <2> HIDE DEF All
  <2> QED BY <2>1, FS_EmptySet
<1>4. ASSUME NEW T \in SUBSET S, NEW x \in T PROVE h[T] = rows[x].count + h[T \ {x}]
  <2>1. All(T) = Occurrences(x) \cup All(T \ {x})
    OBVIOUS
  <2>2. Occurrences(x) \cap All(T \ {x}) = {}
    BY DEF Occurrences
  <2>3. IsFiniteSet(Occurrences(x)) /\ Cardinality(Occurrences(x)) \in Nat
    BY OccurrencesAreFinite
  <2> HIDE DEF All
  <2>4. T \ {x} \in SUBSET S
    OBVIOUS
  <2>5. IsFiniteSet(All(T \ {x})) /\ Cardinality(All(T \ {x})) \in Nat
    BY <1>1, <2>4
  <2>6. Cardinality(All(T)) = Cardinality(Occurrences(x)) + Cardinality(All(T \ {x}))
                                - Cardinality({})
    BY <2>1, <2>2, <2>3, <2>5, FS_Union
  <2>7. Cardinality({}) = 0
    BY FS_EmptySet
  <2>8. rows[x].count = Cardinality(Occurrences(x))
    OBVIOUS
  <2> QED BY <2>3, <2>4, <2>5, <2>6, <2>7, <2>8
<1>5. IsFiniteSet(S) /\ \A i \in S : rows[i].count \in Nat
  BY LifecycleAssumption, FS_Subset, OccurrencesAreFinite
<1>6. h[S] = Cardinality(All(S))
  OBVIOUS
<1> HIDE DEF h, All
<1>7. SumCount(rows, S) = h[S]
  BY <1>2, <1>3, <1>4, <1>5, SumIs
<1> QED BY <1>6, <1>7 DEF All

\* One item's part of Honest.
Sound(i) ==
    /\ Latest(i)
    /\ item[i].into = None => item[i].count = Cardinality(Occurrences(i))
    /\ item[i].into # None => Occurrences(i) = {}

LEMMA SameSound ==
  ASSUME NEW i, Sound(i), Occurrences(i)' = Occurrences(i),
         item'[i].into = item[i].into, item'[i].count = item[i].count,
         item'[i].last = item[i].last
  PROVE  Sound(i)'
BY DEF Sound, Latest

LEMMA HonestWrites == ASSUME Base, Writes, Honest, UNCHANGED occ, torn \subseteq torn' PROVE Honest'
<1> SUFFICES ASSUME NEW i \in Items \ torn' PROVE Sound(i)'
  BY DEF Honest, Sound
<1>1. Sound(i) /\ Occurrences(i)' = Occurrences(i)
  BY DEF Honest, Sound, Occurrences
<1>2. CASE item'[i] = item[i] \/ Rewrites(i)
  BY <1>1, <1>2, SameSound DEF Rewrites
<1>3. CASE Opens(i)
  <2>1. i \notin Used
    BY <1>3, NoRowIsRow DEF Used, Opens
  <2>2. Occurrences(i) = {}
    BY <2>1, LifecycleAssumption DEF Occurrences, Base, Room, Unheard
  <2>3. Cardinality(Occurrences(i)') = 0
    BY <1>1, <2>2, FS_EmptySet
  <2> QED BY <1>1, <1>3, <2>2, <2>3 DEF Opens, Sound, Latest
<1> QED BY <1>2, <1>3 DEF Writes

LEMMA HonestOpens ==
  ASSUME IInv, Base, Honest, NEW w \in Calls, NEW n \in Items, Opened(w, n),
         call[w].event \in Events, occ[call[w].event] = None, torn \subseteq torn'
  PROVE  Honest'
<1> DEFINE e == call[w].event
<1> SUFFICES ASSUME NEW i \in Items \ torn' PROVE Sound(i)'
  BY DEF Honest, Sound
<1>1. item \in [Items -> Row] /\ occ \in [Events -> Items \cup {None}] /\ i # None /\ n # None
  BY LifecycleAssumption DEF Base, TypeOK
<1>2. /\ item'[n] = OpenedRow(e) /\ occ'[e] = n
      /\ \A j \in Items \ {n} : item'[j] = item[j]
      /\ \A f \in Events \ {e} : occ'[f] = occ[f]
  BY <1>1 DEF Opened
<1>3. CASE i # n
  <2>1. Occurrences(i)' = Occurrences(i)
    BY <1>1, <1>2, <1>3 DEF Occurrences
  <2>2. Sound(i)
    BY DEF Honest, Sound
  <2> QED BY <1>2, <1>3, <2>1, <2>2, SameSound
<1>4. CASE i = n
  <2>1. \A f \in Events : occ[f] # n
    BY <1>1 DEF Opened, Base, Room, Unheard
  <2>2. Occurrences(n)' = {e}
    BY <1>2, <2>1 DEF Occurrences
  <2>3. Cardinality({e}) = 1
    BY FS_Singleton
  <2>4. EventAt[e] \in Nat
    BY LifecycleAssumption
  <2>5. item'[n].into = None /\ item'[n].count = 1 /\ item'[n].last = EventAt[e]
    BY <1>2, OpenedRowIs
  <2> HIDE DEF e
  <2>6. Cardinality(Occurrences(n)') = 1 /\ Occurrences(n)' # {}
    BY <2>2, <2>3
  <2>7. Latest(n)'
    BY <2>2, <2>4, <2>5, <2>6 DEF Latest
  <2> QED BY <1>4, <2>5, <2>6, <2>7 DEF Sound
<1> QED BY <1>3, <1>4

\* The continued item holds its signal and those of all the items it found.
LEMMA HonestTarget ==
  ASSUME IInv, Base, Reads, Honest, NEW w \in Calls, call[w].pc = "commit",
         NEW t, t = call[w].target, t # None, Continued(w, t), Found(w) \cap torn = {},
         call[w].event \in Events, occ[call[w].event] = None
  PROVE  Sound(t)'
<1> DEFINE e == call[w].event
           rows == call[w].seen
           before == LastSignal(rows, Found(w))
           All == UNION {Occurrences(i) : i \in Found(w)}
<1>1. t \in Found(w) /\ Found(w) \in SUBSET Items /\ IsFiniteSet(Found(w)) /\ None \notin Items
  BY FoundIsFinite, LifecycleAssumption DEF Continued
<1>2. \A i \in Found(w) : /\ Sound(i) /\ item[i].into = None
                          /\ rows[i].count = item[i].count /\ rows[i].last = item[i].last
  BY <1>1 DEF Honest, Sound, Reads
<1>3. \A i \in Found(w) : rows[i].count = Cardinality(Occurrences(i))
  BY <1>2 DEF Sound
<1>4. SumCount(rows, Found(w)) = Cardinality(All)
  <2> HIDE DEF rows
  <2> QED BY <1>1, <1>3, SumOfSignals
<1>5. /\ item'[t].into = None /\ item'[t].count = Cardinality(All) + 1
      /\ item'[t].last = Max({before, EventAt[e]})
  <2>1. /\ ContinuedRow(w, t).into = item[t].into
        /\ ContinuedRow(w, t).count = SumCount(rows, Found(w)) + 1
        /\ ContinuedRow(w, t).last = Max({before, EventAt[e]})
    BY ContinuedRowIs
  <2>2. item'[t] = ContinuedRow(w, t)
    BY DEF Continued
  <2> HIDE DEF rows, before, e, All
  <2> QED BY <1>1, <1>2, <1>4, <2>1, <2>2
<1>6. Occurrences(t)' = All \cup {e}
  BY <1>1 DEF Occurrences, Continued
<1>7. e \notin All
  BY <1>1 DEF Occurrences
<1>8. Cardinality(Occurrences(t)') = item'[t].count
  <2>1. All \subseteq Events
    BY DEF Occurrences
  <2> HIDE DEF All
  <2>2. IsFiniteSet(All)
    BY <2>1, LifecycleAssumption, FS_Subset
  <2>3. Cardinality(All \cup {e}) = Cardinality(All) + 1
    BY <1>7, <2>2, FS_AddElement
  <2> QED BY <1>5, <1>6, <2>3
<1>9. /\ before \in Nat /\ \E i \in Found(w) : rows[i].last = before
      /\ \A i \in Found(w) : rows[i].last <= before
  BY <1>1, LastSignalOf
<1>10. EventAt[e] \in Nat \ {0}
  BY LifecycleAssumption
<1>11. \A f \in All : EventAt[f] <= before /\ EventAt[f] \in Nat
  <2> SUFFICES ASSUME NEW i \in Found(w), NEW f \in Occurrences(i)
               PROVE  EventAt[f] <= before /\ EventAt[f] \in Nat
    OBVIOUS
  <2>1. EventAt[f] <= rows[i].last /\ rows[i].last <= before /\ f \in Events
    BY <1>2, <1>9 DEF Sound, Latest, Occurrences
  <2>2. EventAt[f] \in Nat /\ rows[i].last \in Nat
    BY <2>1, <1>1, FoundIsFinite, LifecycleAssumption DEF Row
  <2> HIDE DEF before, rows
  <2> QED BY <1>9, <2>1, <2>2
<1>12. before # 0 => \E f \in All : EventAt[f] = before
  <2> SUFFICES ASSUME before # 0 PROVE \E f \in All : EventAt[f] = before
    OBVIOUS
  <2>1. PICK i \in Found(w) : rows[i].last = before
    BY <1>9
  <2>2. Occurrences(i) # {}
    BY <1>2, <2>1 DEF Sound, Latest
  <2>3. \E f \in Occurrences(i) : EventAt[f] = item[i].last
    BY <1>2, <2>2 DEF Sound, Latest
  <2> QED BY <1>2, <2>1, <2>3
<1>13. Latest(t)'
  <2> HIDE DEF before, All, e, rows
  <2>1. CASE EventAt[e] >= before
    <3>1. Max({before, EventAt[e]}) = EventAt[e]
      <4> DEFINE T == {before, EventAt[e]}
      <4>1. T \subseteq Nat /\ EventAt[e] \in T /\ \A m \in T : m <= EventAt[e]
        BY <1>9, <1>10, <2>1
      <4> HIDE DEF T
      <4>2. Max(T) = EventAt[e]
        BY <4>1, MaxIs
      <4> QED BY <4>2 DEF T
    <3>2. \A f \in All \cup {e} : EventAt[f] <= EventAt[e]
      BY <1>9, <1>10, <1>11, <2>1
    <3> QED BY <1>5, <1>6, <3>1, <3>2 DEF Latest
  <2>2. CASE ~(EventAt[e] >= before)
    <3>0. before > EventAt[e] /\ before # 0
      BY <1>9, <1>10, <2>2
    <3>1. Max({before, EventAt[e]}) = before
      <4> DEFINE T == {before, EventAt[e]}
      <4>1. T \subseteq Nat /\ before \in T /\ \A m \in T : m <= before
        BY <1>9, <1>10, <3>0
      <4> HIDE DEF T
      <4>2. Max(T) = before
        BY <4>1, MaxIs
      <4> QED BY <4>2 DEF T
    <3>2. \A f \in All \cup {e} : EventAt[f] <= before
      BY <1>9, <1>10, <1>11, <3>0
    <3>3. \E f \in All : EventAt[f] = before
      BY <1>12, <3>0
    <3> QED BY <1>5, <1>6, <3>1, <3>2, <3>3 DEF Latest
  <2> QED BY <2>1, <2>2
<1> QED BY <1>5, <1>8, <1>13 DEF Sound

LEMMA HonestContinues ==
  ASSUME IInv, Base, Reads, Honest, NEW w \in Calls, call[w].pc = "commit",
         NEW t, t = call[w].target, t # None, Continued(w, t),
         call[w].event \in Events, occ[call[w].event] = None, torn \subseteq torn',
         \A i \in torn : item'[i].into \in Items => item'[i].into \in torn'
  PROVE  Honest'
<1> SUFFICES ASSUME NEW i \in Items \ torn' PROVE Sound(i)'
  BY DEF Honest, Sound
<1>1. t \in Found(w) /\ Found(w) \subseteq Items /\ None \notin Items /\ Sound(i)
  BY FoundIsFinite, LifecycleAssumption DEF Continued, Honest, Sound
<1>2. CASE i \notin Found(w)
  <2>1. Occurrences(i)' = Occurrences(i)
    BY <1>1, <1>2 DEF Occurrences, Continued
  <2> QED BY <1>1, <1>2, <2>1, SameSound DEF Continued
<1>3. CASE i \in Found(w) \ {t}
  <2>1. Occurrences(i)' = {}
    BY <1>1, <1>3 DEF Occurrences, Continued
  <2>2. item'[i].into = t
    BY <1>1, <1>3, MergedRowIs DEF Continued
  <2> QED BY <1>1, <2>1, <2>2 DEF Sound, Latest
<1>4. CASE i = t
  <2>1. \A j \in Found(w) \ {t} : item'[j].into = t
    BY <1>1, MergedRowIs DEF Continued
  <2>2. Found(w) \cap torn = {}
    BY <1>1, <1>4, <2>1
  <2> QED BY <1>4, <2>2, HonestTarget
<1> QED BY <1>2, <1>3, <1>4

LEMMA HonestKept == ASSUME IInv, Base, Reads, Honest, Next PROVE Honest'
<1>1. /\ torn \subseteq torn'
      /\ \A i \in torn : item'[i].into \in Items => item'[i].into \in torn'
  BY TornGrows
<1>2. CASE Writes /\ UNCHANGED <<call, occ>>
  BY <1>1, <1>2, HonestWrites
<1>3. ASSUME NEW w \in Calls, Commit(w) PROVE Honest'
  <2>1. /\ call[w].event \in Events /\ occ[call[w].event] = None
        /\ \/ call[w].target = None /\ \E n \in Items : Opened(w, n)
           \/ call[w].target # None /\ Continued(w, call[w].target)
    BY <1>3, Commits
  <2>2. call[w].pc = "commit"
    BY <1>3 DEF Commit
  <2>3. CASE call[w].target = None
    BY <1>1, <2>1, <2>3, HonestOpens
  <2>4. CASE call[w].target # None
    BY <1>1, <2>1, <2>2, <2>4, HonestContinues
  <2> QED BY <2>3, <2>4
<1>4. CASE UNCHANGED <<item, occ, staffed>>
  BY <1>1, <1>4 DEF Honest, Latest, Occurrences
<1> QED BY <1>2, <1>3, <1>4, Cases

-----------------------------------------------------------------------------
(* One lifecycle for each customer.                                        *)

\* What a signal that has looked for its customer's item may rely on: it
\* aims at that item, or there is none but for staff; a signal of an unknown
\* contact aims at an item without a customer.
Claims(w, j) == /\ Active(j) /\ j \notin staffed \cup torn
                /\ item[j].cust = EventCustomer[call[w].event]
Chooses(w) ==
    /\ EventCustomer[call[w].event] = None =>
          (call[w].target # None => call[w].seen[call[w].target].cust = None)
    /\ EventCustomer[call[w].event] # None =>
          \A j \in Items : Claims(w, j) =>
              call[w].target # None /\ call[w].target \in {j} \cup staffed \cup torn
Chosen == \A w \in Calls : call[w].pc \in {"contact", "commit"} => Chooses(w)

Lifecycle == OneLifecycle /\ Chosen

\* A call that stays as it is keeps what it relies on if no item joins the
\* active ones of its customer.
LEMMA ChoiceStays ==
  ASSUME NEW v \in Calls, Chooses(v), call'[v] = call[v],
         torn \subseteq torn', staffed \subseteq staffed',
         EventCustomer[call[v].event] # None => \A j \in Items : Claims(v, j)' => Claims(v, j)
  PROVE  Chooses(v)'
BY DEF Chooses

LEMMA StaffLifecycle ==
  ASSUME Base, Writes, UNCHANGED <<call, occ>>, Lifecycle, torn \subseteq torn'
  PROVE  Lifecycle'
<1>1. staffed \subseteq staffed' /\ \A i \in Items :
         item'[i].state = "open" /\ i \notin staffed' =>
            item[i].state = "open" /\ item'[i].cust = item[i].cust
  BY DEF Writes, Rewrites, Opens
<1>2. OneLifecycle'
  <2> SUFFICES ASSUME NEW i \in Items, NEW j \in Items, i # j, Active(i)', Active(j)',
                      item'[i].cust # None, item'[i].cust = item'[j].cust,
                      i \notin staffed' \cup torn', j \notin staffed' \cup torn'
               PROVE  FALSE
    BY DEF OneLifecycle
  <2>1. /\ Active(i) /\ Active(j) /\ item[i].cust # None /\ item[i].cust = item[j].cust
        /\ i \notin staffed \cup torn /\ j \notin staffed \cup torn
    BY <1>1 DEF Active
  <2> QED BY <2>1 DEF Lifecycle, OneLifecycle
<1>3. Chosen'
  <2> SUFFICES ASSUME NEW v \in Calls, call[v].pc \in {"contact", "commit"} PROVE Chooses(v)'
    BY DEF Chosen
  <2>1. Chooses(v)
    BY DEF Lifecycle, Chosen
  <2>2. \A j \in Items : Claims(v, j)' => Claims(v, j)
    BY <1>1 DEF Claims, Active
  <2> QED BY <1>1, <2>1, <2>2, ChoiceStays
<1> QED BY <1>2, <1>3 DEF Lifecycle

\* The item a commit of a signal writes and leaves active for a customer is
\* that signal's, and the commit opened it or aimed at it.
LEMMA CommitOwns ==
  ASSUME IInv, Base, Lifecycle, NEW w \in Calls, Commit(w),
         NEW j \in Items, item'[j] # item[j], Active(j)', item'[j].cust # None
  PROVE  /\ item'[j].cust = EventCustomer[call[w].event]
         /\ call[w].target \in {None, j}
<1> DEFINE e == call[w].event
           t == call[w].target
<1>1. e \in Events /\ item \in [Items -> Row]
  BY Commits DEF Base, TypeOK
<1>2. CASE t = None
  <2>1. PICK n \in Items : Opened(w, n)
    BY <1>2, Commits
  <2>2. item'[n] = OpenedRow(e) /\ \A i \in Items \ {n} : item'[i] = item[i]
    BY <1>1, <2>1 DEF Opened
  <2> QED BY <1>1, <1>2, <2>2, OpenedRowIs
<1>3. CASE t # None
  <2>1. Continued(w, t) /\ call[w].pc = "commit"
    BY <1>3, Commits DEF Commit
  <2>2. t \in Items /\ Found(w) \subseteq Items /\ ContinuedRow(w, t).cust = CustomerOf(w, t)
    BY <1>3, <2>1, ContinuedRowIs, FoundIsFinite
  <2>3. \A i \in Found(w) \ {t} : item'[i].state = "closed"
    BY <2>1, <2>2, MergedRowIs DEF Continued
  <2>4. j = t
    BY <2>1, <2>3 DEF Continued, Active
  <2>5. item'[j].cust = CustomerOf(w, t)
    BY <2>1, <2>2, <2>4 DEF Continued
  <2>6. CASE EventCustomer[e] = None
    <3>1. Chooses(w)
      BY <2>1 DEF Lifecycle, Chosen
    <3>2. CustomerOf(w, t) = None
      BY <1>3, <2>6, <3>1 DEF CustomerOf, Chooses
    <3> QED BY <2>5, <3>2
  <2>7. CASE EventCustomer[e] # None
    BY <2>4, <2>5, <2>7 DEF CustomerOf
  <2> QED BY <2>6, <2>7
<1> QED BY <1>2, <1>3

LEMMA CommitLifecycle ==
  ASSUME IInv, Base, Lifecycle, NEW w \in Calls, Commit(w), torn \subseteq torn'
  PROVE  Lifecycle'
<1>1. /\ call' = [call EXCEPT ![w] = Idle] /\ staffed' = staffed /\ call[w].event \in Events
      /\ call \in [Calls -> CallType] /\ call[w].pc = "commit"
  BY Commits DEF Base, TypeOK, Commit
<1>2. call'[w] = Idle /\ \A v \in Calls \ {w} : call'[v] = call[v]
  BY <1>1
<1>3. OneLifecycle'
  <2>1. ASSUME NEW i \in Items, NEW j \in Items, i # j, Active(i)', Active(j)',
               item'[i].cust # None, item'[i].cust = item'[j].cust,
               i \notin staffed \cup torn', j \notin staffed \cup torn'
        PROVE  item'[j] = item[j]
    <3> SUFFICES ASSUME item'[j] # item[j] PROVE FALSE
      OBVIOUS
    <3>1. /\ item'[j].cust = EventCustomer[call[w].event]
          /\ call[w].target \in {None, j}
      BY <2>1, CommitOwns
    <3>2. CASE item'[i] # item[i]
      <4>1. call[w].target \in {None, i}
        BY <2>1, <3>2, CommitOwns
      <4>2. call[w].target = None
        BY <2>1, <3>1, <4>1
      <4>3. PICK n \in Items : Opened(w, n)
        BY <4>2, Commits
      <4>4. \A k \in Items \ {n} : item'[k] = item[k]
        BY <4>3 DEF Opened, Base, TypeOK
      <4> QED BY <2>1, <3>2, <4>4
    <3>3. CASE item'[i] = item[i]
      <4>1. Claims(w, i)
        BY <2>1, <3>1, <3>3 DEF Claims, Active
      <4>2. Chooses(w)
        BY <1>1 DEF Lifecycle, Chosen
      <4>3. call[w].target # None /\ call[w].target \in {i} \cup staffed \cup torn
        BY <2>1, <3>1, <4>1, <4>2 DEF Chooses
      <4> QED BY <2>1, <3>1, <4>3
    <3> QED BY <3>2, <3>3
  <2> SUFFICES ASSUME NEW i \in Items, NEW j \in Items, i # j, Active(i)', Active(j)',
                      item'[i].cust # None, item'[i].cust = item'[j].cust,
                      i \notin staffed \cup torn', j \notin staffed \cup torn'
               PROVE  FALSE
    BY <1>1 DEF OneLifecycle
  <2>2. item'[i] = item[i] /\ item'[j] = item[j]
    BY <2>1
  <2> QED BY <2>2 DEF Lifecycle, OneLifecycle, Active
<1>4. Chosen'
  <2> SUFFICES ASSUME NEW v \in Calls, call'[v].pc \in {"contact", "commit"} PROVE Chooses(v)'
    BY DEF Chosen
  <2>1. v # w /\ call'[v] = call[v]
    BY <1>2, IdleOwns
  <2>2. Chooses(v)
    BY <2>1 DEF Lifecycle, Chosen
  <2>3. ASSUME EventCustomer[call[v].event] # None, NEW j \in Items, Claims(v, j)'
        PROVE  Claims(v, j)
    <3> DEFINE c == EventCustomer[call[v].event]
    <3>1. /\ Active(j)' /\ item'[j].cust = c /\ j \notin staffed \cup torn
      BY <1>1, <2>1, <2>3 DEF Claims
    <3>2. CASE item'[j] = item[j]
      BY <3>1, <3>2 DEF Claims, Active
    <3>3. CASE item'[j] # item[j]
      <4>1. EventCustomer[call[w].event] = c
        BY <2>3, <3>1, <3>3, CommitOwns
      <4>2. Past(call[v]) /\ Past(call[w])
        BY <1>1, <2>1 DEF Past
      <4>3. LocksOf(call[v].event) \cap LocksOf(call[w].event) = {}
        BY <2>1, <4>2, Exclude
      <4>4. call[v].event \in Events
        BY <4>2 DEF IInv, Owns, Own, Past
      <4>5. c \in Customers
        BY <2>3, <4>4, LifecycleAssumption
      <4>6. /\ <<"customer", c>> \in LocksOf(call[v].event)
            /\ <<"customer", c>> \in LocksOf(call[w].event)
        BY <4>1, <4>5 DEF LocksOf
      <4> QED BY <4>3, <4>6
    <3> QED BY <3>2, <3>3
  <2> QED BY <1>1, <2>1, <2>2, <2>3, ChoiceStays
<1> QED BY <1>3, <1>4 DEF Lifecycle

\* A call that moves on without writing.
LEMMA CallLifecycle ==
  ASSUME Base, Lifecycle, UNCHANGED <<item, staffed>>, torn \subseteq torn',
         NEW w \in Calls, NEW c \in CallType, call' = [call EXCEPT ![w] = c],
         c.pc \in {"contact", "commit"} => Chooses(w)'
  PROVE  Lifecycle'
<1>1. call'[w] = c /\ \A v \in Calls \ {w} : call'[v] = call[v]
  BY DEF Base, TypeOK
<1>2. OneLifecycle'
  BY DEF Lifecycle, OneLifecycle, Active
<1>3. Chosen'
  <2> SUFFICES ASSUME NEW v \in Calls, call'[v].pc \in {"contact", "commit"} PROVE Chooses(v)'
    BY DEF Chosen
  <2>1. CASE v = w
    BY <1>1, <2>1
  <2>2. CASE v # w
    <3>1. Chooses(v) /\ call'[v] = call[v]
      BY <1>1, <2>2 DEF Lifecycle, Chosen
    <3>2. \A j \in Items : Claims(v, j)' => Claims(v, j)
      BY <3>1 DEF Claims, Active
    <3> QED BY <3>1, <3>2, ChoiceStays
  <2> QED BY <2>1, <2>2
<1> QED BY <1>2, <1>3 DEF Lifecycle

LEMMA LooksLifecycle ==
  ASSUME IInv, Base, Lifecycle, UNCHANGED <<item, occ, staffed>>, torn \subseteq torn',
         NEW w \in Calls, FindCustomerItem(w) \/ FindContactItems(w)
  PROVE  Lifecycle'
<1> DEFINE cust == EventCustomer[call[w].event]
<1>0. call[w].held \in SUBSET Locks /\ call[w].event \in Events \cup {None}
  BY DEF Base, TypeOK, CallType
<1>1. ASSUME NEW p, NEW t, NEW s, Looks(w, p, t, s)
      PROVE  \E c \in CallType : /\ call' = [call EXCEPT ![w] = c] /\ call'[w] = c
                                 /\ c.target = t /\ c.seen = s /\ c.event = call[w].event
  <2> DEFINE c == At(w, p, call[w].held, t, s)
  <2>1. c \in CallType /\ c.target = t /\ c.seen = s /\ c.event = call[w].event
    BY <1>0, <1>1, AtType DEF Looks
  <2>2. call' = [call EXCEPT ![w] = c]
    BY <1>1 DEF Looks
  <2> HIDE DEF c
  <2> QED BY <2>1, <2>2 DEF Base, TypeOK
<1>2. CASE FindCustomerItem(w)
  <2> DEFINE mine == {i \in Items : Active(i) /\ cust # None /\ item[i].cust = cust}
  <2>1. PICK t, s : /\ Looks(w, "contact", t, s)
                    /\ s = [i \in Items |-> IF i = t THEN item[i] ELSE NoRow]
                    /\ IF mine = {} THEN t = None ELSE t \in mine
    BY <1>2, CustomerLooks
  <2>2. PICK c \in CallType : /\ call' = [call EXCEPT ![w] = c] /\ call'[w] = c
                              /\ c.target = t /\ c.seen = s /\ c.event = call[w].event
    BY <1>1, <2>1
  <2>3. ASSUME cust # None, NEW j \in Items, Claims(w, j)'
        PROVE  t # None /\ t \in {j} \cup staffed' \cup torn'
    <3>1. Active(j) /\ j \notin staffed \cup torn /\ item[j].cust = cust
      BY <2>2, <2>3 DEF Claims, Active
    <3>2. t \in mine
      BY <2>1, <2>3, <3>1
    <3>3. t \in Items /\ Active(t) /\ item[t].cust = cust
      BY <3>2
    <3>4. t # j => t \in staffed \cup torn
      BY <2>3, <3>1, <3>3 DEF Lifecycle, OneLifecycle
    <3> QED BY <3>3, <3>4, LifecycleAssumption
  <2>4. cust = None => t = None
    BY <2>1
  <2>5. Chooses(w)'
    <3> HIDE DEF mine
    <3> QED BY <2>2, <2>3, <2>4 DEF Chooses
  <2> QED BY <2>2, <2>5, CallLifecycle
<1>3. CASE FindContactItems(w)
  <2>1. PICK t, s : /\ Looks(w, "commit", t, s)
                    /\ IF call[w].target # None
                       THEN t = call[w].target /\ s[t] = call[w].seen[t]
                       ELSE t # None => item[t].cust = None /\ s[t] = item[t]
    BY <1>3, ContactLooks
  <2>2. PICK c \in CallType : /\ call' = [call EXCEPT ![w] = c] /\ call'[w] = c
                              /\ c.target = t /\ c.seen = s /\ c.event = call[w].event
    BY <1>1, <2>1
  <2>3. Chooses(w)
    BY <1>3 DEF FindContactItems, Lifecycle, Chosen
  <2>4. ASSUME cust # None, NEW j \in Items, Claims(w, j)'
        PROVE  t # None /\ t \in {j} \cup staffed' \cup torn'
    <3>1. Claims(w, j)
      BY <2>2, <2>4 DEF Claims, Active
    <3>2. call[w].target # None /\ call[w].target \in {j} \cup staffed \cup torn
      BY <2>3, <2>4, <3>1 DEF Chooses
    <3> QED BY <2>1, <3>2
  <2>5. cust = None => (t # None => s[t].cust = None)
    BY <2>1, <2>3 DEF Chooses
  <2>6. Chooses(w)'
    BY <2>2, <2>4, <2>5 DEF Chooses
  <2> QED BY <2>2, <2>6, CallLifecycle
<1> QED BY <1>2, <1>3

LEMMA LifecycleKept == ASSUME IInv, Base, Lifecycle, Next PROVE Lifecycle'
<1>1. torn \subseteq torn'
  BY TornGrows
<1>2. ASSUME UNCHANGED <<item, occ, staffed>>, NEW w \in Calls, NEW c \in CallType,
             call' = [call EXCEPT ![w] = c], Resting(c)
      PROVE  Lifecycle'
  BY <1>1, <1>2, CallLifecycle DEF Resting
<1> QED BY <1>1, <1>2, Cases, StaffLifecycle, CommitLifecycle, LooksLifecycle

-----------------------------------------------------------------------------
(* Locks are taken by rank, and only while some are missing.               *)

Missing(c) == LocksOf(c.event) \ c.held
InOrder(c) ==
    /\ c.pc = "idle" => c.held = {}
    /\ c.pc = "lock" => /\ Missing(c) # {}
                        /\ \A h \in c.held, l \in Missing(c) : LockRank[h] < LockRank[l]
Ranked == \A w \in Calls : InOrder(call[w])

LEMMA LocksAre == ASSUME NEW e \in Events PROVE LocksOf(e) \subseteq Locks
<1>1. KeysOf(e) \subseteq Keys
  BY LifecycleAssumption DEF KeysOf
<1> QED BY <1>1 DEF LocksOf, Locks

LEMMA CallRanked ==
  ASSUME Base, Ranked, NEW w \in Calls, NEW c, call' = [call EXCEPT ![w] = c], InOrder(c)
  PROVE  Ranked'
<1>1. \A v \in Calls : call'[v] = IF v = w THEN c ELSE call[v]
  BY DEF Base, TypeOK
<1> QED BY <1>1 DEF Ranked

LEMMA IdleInOrder == InOrder(Idle)
  BY DEF InOrder, Idle

LEMMA AcquireRanked == ASSUME IInv, Base, Ranked, NEW w \in Calls, Acquire(w) PROVE Ranked'
<1>1. PICK l \in Locks :
        /\ NextLock(w, l)
        /\ call' = [call EXCEPT ![w] =
              At(w, IF LocksOf(call[w].event) \subseteq call[w].held \cup {l}
                    THEN "replay" ELSE "lock", call[w].held \cup {l}, None, Idle.seen)]
  BY DEF Acquire
<1> DEFINE c == At(w, IF LocksOf(call[w].event) \subseteq call[w].held \cup {l}
                      THEN "replay" ELSE "lock", call[w].held \cup {l}, None, Idle.seen)
<1>2. call[w].pc = "lock" /\ call[w].event \in Events /\ call[w].held \subseteq Locks
  BY DEF Acquire, IInv, Owns, Own, Base, TypeOK, CallType
<1>3. /\ c.event = call[w].event /\ c.held = call[w].held \cup {l} /\ c.pc # "idle"
      /\ c.pc = "lock" => ~(LocksOf(call[w].event) \subseteq call[w].held \cup {l})
  BY DEF At
<1>4. InOrder(call[w]) /\ LocksOf(call[w].event) \subseteq Locks
  BY <1>2, LocksAre DEF Ranked
<1>5. ASSUME NEW h \in c.held, NEW m \in Missing(c) PROVE LockRank[h] < LockRank[m]
  <2>1. m \in Missing(call[w]) /\ m # l /\ m \in Locks
    BY <1>3, <1>4 DEF Missing
  <2>2. CASE h \in call[w].held
    BY <1>2, <1>4, <2>1, <2>2 DEF InOrder
  <2>3. CASE h = l
    <3>1. LockRank[l] <= LockRank[m]
      BY <1>1, <2>1 DEF NextLock, Missing
    <3>2. LockRank[l] # LockRank[m] /\ LockRank[l] \in Nat /\ LockRank[m] \in Nat
      BY <2>1, LifecycleAssumption
    <3> QED BY <2>3, <3>1, <3>2
  <2> HIDE DEF c
  <2> QED BY <1>3, <2>2, <2>3
<1>6. c.pc = "lock" => Missing(c) # {}
  BY <1>3 DEF Missing
<1>7. InOrder(c)
  <2> HIDE DEF c
  <2> QED BY <1>3, <1>5, <1>6 DEF InOrder
<1>8. call' = [call EXCEPT ![w] = c]
  BY <1>1
<1> HIDE DEF c
<1> QED BY <1>7, <1>8, CallRanked

LEMMA RankedKept == ASSUME IInv, Base, Ranked, Next PROVE Ranked'
<1>1. CASE UNCHANGED call
  BY <1>1 DEF Ranked
<1>2. ASSUME NEW w \in Calls, NEW e \in Events, Begin(w, e) PROVE Ranked'
  <2> DEFINE c == [pc |-> "lock", event |-> e, held |-> Idle.held,
                   target |-> Idle.target, seen |-> Idle.seen]
  <2>1. InOrder(c)
    BY <1>2, IdleOwns DEF Begin, InOrder, Missing
  <2>2. call' = [call EXCEPT ![w] = c]
    BY <1>2 DEF Begin
  <2> HIDE DEF c
  <2> QED BY <2>1, <2>2, CallRanked
<1>3. ASSUME NEW w \in Calls, NEW p \in {"customer", "contact", "commit"}, NEW t, NEW s,
             call' = [call EXCEPT ![w] = At(w, p, call[w].held, t, s)]
      PROVE  Ranked'
  <2>1. InOrder(At(w, p, call[w].held, t, s))
    BY DEF At, InOrder
  <2> QED BY <1>3, <2>1, CallRanked
<1>4. ASSUME NEW w \in Calls, call' = [call EXCEPT ![w] = Idle] PROVE Ranked'
  BY <1>4, IdleInOrder, CallRanked
<1>5. ASSUME NEW w \in Calls, CheckReplay(w) \/ Abort(w) \/ Commit(w) PROVE Ranked'
  BY <1>3, <1>4, <1>5 DEF CheckReplay, Abort, Commit
<1>6. ASSUME NEW w \in Calls, FindCustomerItem(w) \/ FindContactItems(w) PROVE Ranked'
  BY <1>3, <1>6 DEF FindCustomerItem, FindContactItems
<1>7. CASE StaffStep
  BY <1>1, <1>7, StaffWrites
<1> QED BY <1>2, <1>5, <1>6, <1>7, AcquireRanked DEF Next, StaffStep, Signal

\* Of the calls in flight, the one whose next lock has the greatest rank waits
\* for no other: what holds that lock is in flight, and past it or waiting for
\* a greater one.
LEMMA SomeoneGoesOn == ASSUME IInv, Base, Ranked PROVE NoCircle
<1> DEFINE Flying == {w \in Calls : call[w].pc # "idle"}
<1> SUFFICES ASSUME Flying # {}, \A w \in Flying : Waiting(w) PROVE FALSE
  BY DEF NoCircle
<1>1. \A w \in Flying : /\ call[w].pc = "lock" /\ InOrder(call[w])
                        /\ call[w].event \in Events
  BY DEF Waiting, Ranked, IInv, Owns, Own
<1>2. ASSUME NEW w \in Flying PROVE \E l \in Locks : NextLock(w, l)
  <2> DEFINE M == Missing(call[w])
             R == {LockRank[l] : l \in M}
  <2>1. M # {} /\ M \subseteq Locks
    BY <1>1, LocksAre DEF InOrder, Missing
  <2>2. R \subseteq Nat /\ R # {}
    BY <2>1, LifecycleAssumption
  <2>3. PICK n \in R : \A m \in R : n <= m
    <3> HIDE DEF R
    <3> QED BY <2>2, LeastNat
  <2>4. PICK l \in M : LockRank[l] = n
    BY <2>3
  <2>5. \A m \in M : LockRank[l] <= LockRank[m]
    BY <2>3, <2>4
  <2> QED BY <2>1, <2>4, <2>5 DEF NextLock, Missing
<1> DEFINE Wanted == [w \in Flying |-> CHOOSE l \in Locks : NextLock(w, l)]
           Rank == [w \in Flying |-> LockRank[Wanted[w]]]
           Ranks == {Rank[w] : w \in Flying}
<1>3. \A w \in Flying : Wanted[w] \in Locks /\ NextLock(w, Wanted[w])
  BY <1>2
<1>4. IsFiniteSet(Flying)
  <2>1. Flying \subseteq Calls
    OBVIOUS
  <2> HIDE DEF Flying
  <2> QED BY <2>1, LifecycleAssumption, FS_Subset
<1>5. IsFiniteSet(Ranks) /\ Ranks # {}
  <2> HIDE DEF Rank, Flying
  <2> QED BY <1>4, ImageIsFinite
<1>r. \A w \in Flying : Rank[w] = LockRank[Wanted[w]]
  <2> HIDE DEF Wanted, Flying
  <2> QED OBVIOUS
<1>6. Ranks \subseteq Nat
  <2>1. \A l \in Locks : LockRank[l] \in Nat
    BY LifecycleAssumption
  <2> HIDE DEF Wanted, Flying, Rank
  <2> QED BY <1>3, <1>r, <2>1
<1>7. PICK w \in Flying : \A v \in Flying : Rank[v] <= Rank[w]
  <2>1. Max(Ranks) \in Ranks /\ \A m \in Ranks : m <= Max(Ranks)
    <3> HIDE DEF Ranks
    <3> QED BY <1>5, <1>6, MaxOf
  <2> HIDE DEF Rank, Flying
  <2> QED BY <2>1
<1>8. PICK v \in Calls : Wanted[w] \in call[v].held
  BY <1>3 DEF Waiting, Available
<1>9. v \in Flying
  BY <1>8 DEF Ranked, InOrder
<1>10. LockRank[Wanted[w]] < LockRank[Wanted[v]]
  <2>1. Wanted[v] \in Missing(call[v])
    BY <1>3, <1>9 DEF NextLock, Missing
  <2>2. call[v].pc = "lock" /\ InOrder(call[v])
    BY <1>1, <1>9
  <2> HIDE DEF Wanted, Flying
  <2> QED BY <1>8, <2>1, <2>2 DEF InOrder
<1>11. Rank[w] < Rank[v] /\ Rank[v] <= Rank[w]
  <2> HIDE DEF Wanted, Flying, Rank
  <2> QED BY <1>7, <1>9, <1>10, <1>r
<1>12. Rank[w] \in Nat /\ Rank[v] \in Nat
  BY <1>6, <1>9
<1> HIDE DEF Rank
<1> QED BY <1>11, <1>12

-----------------------------------------------------------------------------
(* The invariant, and what follows from it.                                *)

FullInv == IInv /\ Base /\ Reads /\ Honest /\ Lifecycle /\ Ranked

LEMMA InitFull == Init => FullInv
<1> SUFFICES ASSUME Init PROVE FullInv
  OBVIOUS
<1>1. IInv
  BY InitOwns
<1>2. \A w \in Calls : Found(w) = {} /\ call[w] = Idle
  BY IdleType DEF Init, Found
<1>3. \A i \in Items : item[i].state = "free" /\ item[i].into = None
                       /\ item[i].count = 0 /\ item[i].last = 0
  BY DEF Init, NoRow
<1>4. Reads
  BY <1>2, <1>3 DEF Reads, Overlap, Revived, Active
<1>5. \A i \in Items : Occurrences(i) = {}
  BY LifecycleAssumption DEF Init, Occurrences
<1>6. Honest
  <2>1. \A i \in Items : Cardinality(Occurrences(i)) = 0
    BY <1>5, FS_EmptySet
  <2> QED BY <1>3, <1>5, <2>1 DEF Honest, Latest
<1>7. Lifecycle
  BY <1>2, <1>3, IdleOwns DEF Lifecycle, OneLifecycle, Chosen, Active
<1>8. Ranked
  BY <1>2, IdleInOrder DEF Ranked
<1> QED BY <1>1, <1>4, <1>6, <1>7, <1>8, InitBase DEF FullInv

LEMMA StuttersKeep == ASSUME FullInv, UNCHANGED vars PROVE (Reads /\ Honest /\ Lifecycle /\ Ranked)'
<1>1. Reads'
  BY DEF vars, FullInv, Reads, Found, Overlap, Revived, Active
<1>2. Honest'
  BY DEF vars, FullInv, Honest, Latest, Occurrences
<1>3. Lifecycle'
  BY DEF vars, FullInv, Lifecycle, OneLifecycle, Chosen, Chooses, Claims, Active
<1>4. Ranked'
  BY DEF vars, FullInv, Ranked
<1> QED BY <1>1, <1>2, <1>3, <1>4

LEMMA FullInvAlways == Spec => []FullInv
<1>1. IInv /\ FullInv /\ [Next]_vars => FullInv' \/ ~IInv'
  <2> SUFFICES ASSUME IInv, FullInv, [Next]_vars, IInv' PROVE FullInv'
    OBVIOUS
  <2>1. Base'
    BY NextKeepsBase DEF FullInv
  <2>2. CASE Next
    BY <2>1, <2>2, ReadsKept, HonestKept, LifecycleKept, RankedKept DEF FullInv
  <2>3. CASE UNCHANGED vars
    BY <2>1, <2>3, StuttersKeep DEF FullInv
  <2> QED BY <2>2, <2>3
<1> QED BY <1>1, InitFull, Inductive, PTL DEF Spec

\* The tables, the calls and the ghosts stay in their types: in particular
\* there is always a free row for the item a step opens.
THEOREM TypesHold == Spec => []TypeOK
<1>1. FullInv => TypeOK
  BY DEF FullInv, Base
<1> QED BY <1>1, FullInvAlways, PTL

\* An item that is not torn counts exactly the signals it holds, and knows
\* the latest of them.
THEOREM HonestAlways == Spec => []SignalsHonest
<1>1. FullInv => SignalsHonest
  <2> SUFFICES ASSUME FullInv, NEW i \in Items \ torn, Occurrences(i) # {}
               PROVE  item[i].last = Max({EventAt[e] : e \in Occurrences(i)})
    BY DEF SignalsHonest, FullInv, Honest
  <2> DEFINE S == {EventAt[e] : e \in Occurrences(i)}
  <2>1. Occurrences(i) \subseteq Events /\ Latest(i)
    BY DEF Occurrences, FullInv, Honest
  <2>2. S \subseteq Nat /\ item[i].last \in S /\ \A m \in S : m <= item[i].last
    BY <2>1, LifecycleAssumption DEF Latest
  <2> HIDE DEF S
  <2>3. Max(S) = item[i].last
    BY <2>2, MaxIs
  <2> QED BY <2>3 DEF S
<1> QED BY <1>1, FullInvAlways, PTL

\* A merged item that is not torn keeps no occurrence.
THEOREM EmptyAlways == Spec => []MergedIsEmpty
<1>1. FullInv => MergedIsEmpty
  BY DEF FullInv, Honest, MergedIsEmpty
<1> QED BY <1>1, FullInvAlways, PTL

\* Signals open no second active item for a customer.
THEOREM OneAlways == Spec => []OneLifecycle
<1>1. FullInv => OneLifecycle
  BY DEF FullInv, Lifecycle
<1> QED BY <1>1, FullInvAlways, PTL

\* Signals never wait for one another in a circle.
THEOREM NoCircleAlways == Spec => []NoCircle
<1>1. FullInv => NoCircle
  BY SomeoneGoesOn DEF FullInv
<1> QED BY <1>1, FullInvAlways, PTL

\* Only staff, or signals without a common identity, reopen a merged item.
THEOREM ClosedStays == Spec => MergedStaysClosed
<1>1. ASSUME FullInv, Next
      PROVE  \A i \in Items : item[i].into # None /\ ~Active(i) /\ item'[i].state = "open"
                                => i \in torn \cup staffed'
  <2> SUFFICES ASSUME NEW i \in Items, item[i].into # None, item[i].state # "open",
                      item'[i].state = "open", i \notin torn, i \notin staffed'
               PROVE  FALSE
    BY DEF Active
  <2>0. IInv /\ Base /\ Reads
    BY <1>1 DEF FullInv
  <2>1. CASE Writes
    BY <2>1 DEF Writes, Rewrites, Opens
  <2>2. ASSUME NEW w \in Calls, Commit(w) PROVE FALSE
    <3>1. CASE call[w].target = None
      <4>1. PICK n \in Items : Opened(w, n)
        BY <2>0, <2>2, <3>1, Commits
      <4>2. item[n] = NoRow /\ \A j \in Items \ {n} : item'[j] = item[j]
        BY <2>0, <4>1 DEF Opened, Base, TypeOK
      <4>3. NoRow.into = None
        BY DEF NoRow
      <4> QED BY <4>2, <4>3
    <3>2. CASE call[w].target # None
      <4>1. Continued(w, call[w].target)
        BY <2>0, <2>2, <3>2, Commits
      <4>2. i \in Found(w)
        BY <4>1 DEF Continued
      <4> QED BY <2>0, <4>2 DEF Reads
    <3> QED BY <3>1, <3>2
  <2>3. CASE UNCHANGED <<item, occ, staffed>>
    BY <2>3
  <2> QED BY <1>1, <2>0, <2>1, <2>2, <2>3, Cases
<1>2. FullInv /\ [Next]_vars =>
        [\A i \in Items : item[i].into # None /\ ~Active(i) /\ item'[i].state = "open"
                             => i \in torn \cup staffed']_vars
  BY <1>1
<1> QED BY <1>2, FullInvAlways, PTL DEF Spec, MergedStaysClosed
=============================================================================
