-------------------------- MODULE RepoLockProofs ---------------------------
(***************************************************************************)
(* Proofs about RepoLock, for every set of lanes and every number of calls.*)
(*                                                                         *)
(* The inductive invariant IInv joins TypeOK, LaneOrder and                *)
(* StateReportExact.  They need each other: `queued` stays in its type     *)
(* because it counts the waiting calls, and `holder` names the only        *)
(* running call because LaneOrder lets a call in only when every earlier   *)
(* one has left.                                                           *)
(***************************************************************************)
EXTENDS RepoLock, FiniteSetTheorems, TLAPS

HolderExact == \A k \in Keys : \A n \in Tickets : call[k][n] = "running" <=> holder[k] = n
QueuedExact == \A k \in Keys : queued[k] = Cardinality(In(k, "waiting"))

IInv == TypeOK /\ LaneOrder /\ HolderExact /\ QueuedExact

-----------------------------------------------------------------------------
\* A set of calls is finite and has at most MaxCalls members.
LEMMA TicketSets ==
  ASSUME NEW S \in SUBSET Tickets
  PROVE  IsFiniteSet(S) /\ Cardinality(S) \in Promises
<1>1. IsFiniteSet(Tickets) /\ Cardinality(Tickets) = MaxCalls
  BY FS_Interval, MaxCallsAssumption DEF Tickets
<1>2. IsFiniteSet(S) /\ Cardinality(S) <= MaxCalls
  BY <1>1, FS_Subset
<1>3. Cardinality(S) \in Nat
  BY <1>2, FS_CardinalityType
<1> QED
  BY <1>2, <1>3, MaxCallsAssumption DEF Promises

\* The count of waiting calls follows the call that starts or stops waiting.
LEMMA WaitingGrows ==
  ASSUME TypeOK, QueuedExact, NEW k \in Keys, NEW n \in Tickets,
         call[k][n] # "waiting",
         call' = [call EXCEPT ![k][n] = "waiting"],
         queued' = [queued EXCEPT ![k] = @ + 1]
  PROVE  QueuedExact' /\ queued' \in [Keys -> Promises]
<1>1. In(k, "waiting") \in SUBSET Tickets /\ n \notin In(k, "waiting")
  BY DEF In
<1>2. In(k, "waiting")' = In(k, "waiting") \cup {n}
  BY DEF In, TypeOK
<1>3. Cardinality(In(k, "waiting"))' = queued[k] + 1
  BY <1>1, <1>2, TicketSets, FS_AddElement DEF QueuedExact
<1>4. \A j \in Keys \ {k} : In(j, "waiting")' = In(j, "waiting")
  BY DEF In, TypeOK
<1>5. QueuedExact'
  BY <1>3, <1>4 DEF QueuedExact, TypeOK
<1>6. \A j \in Keys : In(j, "waiting")' \in SUBSET Tickets
  BY DEF In
<1> QED
  BY <1>5, <1>6, TicketSets DEF QueuedExact, TypeOK

LEMMA WaitingShrinks ==
  ASSUME TypeOK, QueuedExact, NEW k \in Keys, NEW n \in Tickets, NEW state \in CallState,
         call[k][n] = "waiting", state # "waiting",
         call' = [call EXCEPT ![k][n] = state],
         queued' = [queued EXCEPT ![k] = @ - 1]
  PROVE  QueuedExact' /\ queued' \in [Keys -> Promises]
<1>1. In(k, "waiting") \in SUBSET Tickets /\ n \in In(k, "waiting")
  BY DEF In
<1>2. In(k, "waiting")' = In(k, "waiting") \ {n}
  BY DEF In, TypeOK
<1>3. Cardinality(In(k, "waiting"))' = queued[k] - 1
  BY <1>1, <1>2, TicketSets, FS_RemoveElement DEF QueuedExact
<1>4. \A j \in Keys \ {k} : In(j, "waiting")' = In(j, "waiting")
  BY DEF In, TypeOK
<1>5. QueuedExact'
  BY <1>3, <1>4 DEF QueuedExact, TypeOK
<1>6. \A j \in Keys : In(j, "waiting")' \in SUBSET Tickets
  BY DEF In
<1> QED
  BY <1>5, <1>6, TicketSets DEF QueuedExact, TypeOK

\* A call that was not waiting and is not waiting now leaves the count alone.
LEMMA WaitingSame ==
  ASSUME TypeOK, QueuedExact, NEW k \in Keys, NEW n \in Tickets,
         call[k][n] # "waiting",
         call' = [call EXCEPT ![k][n] = "left"],
         queued' = queued
  PROVE  QueuedExact'
<1>1. \A j \in Keys : In(j, "waiting")' = In(j, "waiting")
  BY DEF In, TypeOK
<1> QED
  BY <1>1 DEF QueuedExact

-----------------------------------------------------------------------------
LEMMA InitIInv == Init => IInv
<1> SUFFICES ASSUME Init PROVE IInv
  OBVIOUS
<1>1. TypeOK /\ LaneOrder /\ HolderExact
  BY MaxCallsAssumption
  DEF Init, TypeOK, LaneOrder, HolderExact, Tickets, Promises, CallState, NoHolder
<1>2. \A k \in Keys : In(k, "waiting") = {}
  BY DEF Init, In
<1> QED
  BY <1>1, <1>2, FS_EmptySet DEF IInv, QueuedExact, Init

LEMMA RequestIInv ==
  ASSUME IInv, NEW k \in Keys, NEW forever \in BOOLEAN, Request(k, forever)
  PROVE  IInv'
<1> DEFINE n == tail[k] + 1
<1>1. n \in Tickets /\ call[k][n] = "none"
  BY MaxCallsAssumption DEF IInv, TypeOK, LaneOrder, Request, Tickets, Promises
<1>2. QueuedExact' /\ queued' \in [Keys -> Promises]
  BY <1>1, WaitingGrows DEF IInv, Request
<1>3. TypeOK'
  BY <1>1, <1>2, MaxCallsAssumption DEF IInv, TypeOK, Request, CallState, Tickets, Promises
<1>4. LaneOrder'
  BY <1>1, MaxCallsAssumption DEF IInv, TypeOK, LaneOrder, Request, Tickets, Promises
<1>5. HolderExact'
  BY <1>1, MaxCallsAssumption DEF IInv, TypeOK, HolderExact, Request, Tickets
<1> QED
  BY <1>2, <1>3, <1>4, <1>5 DEF IInv

LEMMA AcquireIInv ==
  ASSUME IInv, NEW k \in Keys, NEW n \in Tickets, Acquire(k, n)
  PROVE  IInv'
<1>1. call[k][n] = "waiting" /\ n - 1 \in resolved[k]
  BY DEF Acquire, CanAcquire
<1>2. QueuedExact' /\ queued' \in [Keys -> Promises]
  BY <1>1, WaitingShrinks DEF IInv, Acquire, CallState
<1>3. TypeOK'
  BY <1>2, MaxCallsAssumption DEF IInv, TypeOK, Acquire, CallState, Tickets, Promises
<1>4. LaneOrder'
  BY <1>1, MaxCallsAssumption DEF IInv, TypeOK, LaneOrder, Acquire, Tickets, Promises
<1>5. \A m \in Tickets : call[k][m] # "running"
  <2> SUFFICES ASSUME NEW m \in Tickets, call[k][m] = "running" PROVE FALSE
    OBVIOUS
  <2>1. m - 1 \in resolved[k] /\ m \notin resolved[k] /\ n \notin resolved[k]
    BY <1>1 DEF IInv, LaneOrder
  <2>2. ~(m <= n - 1) /\ ~(n <= m - 1)
    BY <1>1, <2>1, MaxCallsAssumption DEF IInv, LaneOrder, Tickets
  <2> QED
    BY <1>1, <2>2, MaxCallsAssumption DEF Tickets
<1>6. HolderExact'
  BY <1>5, MaxCallsAssumption DEF IInv, TypeOK, HolderExact, Acquire, Tickets
<1> QED
  BY <1>2, <1>3, <1>4, <1>6 DEF IInv

LEMMA TimeOutIInv ==
  ASSUME IInv, NEW k \in Keys, NEW n \in Tickets, TimeOut(k, n)
  PROVE  IInv'
<1>1. QueuedExact' /\ queued' \in [Keys -> Promises]
  BY WaitingShrinks DEF IInv, TimeOut, CallState
<1>2. TypeOK'
  BY <1>1, MaxCallsAssumption DEF IInv, TypeOK, TimeOut, CallState, Tickets, Promises
<1>3. LaneOrder'
  BY MaxCallsAssumption DEF IInv, TypeOK, LaneOrder, TimeOut, Tickets, Promises
<1>4. HolderExact'
  BY MaxCallsAssumption DEF IInv, TypeOK, HolderExact, TimeOut, Tickets
<1> QED
  BY <1>1, <1>2, <1>3, <1>4 DEF IInv

LEMMA ForwardIInv ==
  ASSUME IInv, NEW k \in Keys, NEW n \in Tickets, Forward(k, n)
  PROVE  IInv'
<1>1. call[k][n] = "abandoned" /\ n - 1 \in resolved[k]
  BY DEF Forward, CanForward
<1>2. QueuedExact'
  BY <1>1, WaitingSame DEF IInv, Forward
<1>3. TypeOK'
  BY MaxCallsAssumption DEF IInv, TypeOK, Forward, CallState, Tickets, Promises
<1>4. LaneOrder'
  BY <1>1, MaxCallsAssumption DEF IInv, TypeOK, LaneOrder, Forward, Tickets, Promises
<1>5. HolderExact'
  BY <1>1, MaxCallsAssumption DEF IInv, TypeOK, HolderExact, Forward, Tickets
<1> QED
  BY <1>2, <1>3, <1>4, <1>5 DEF IInv

LEMMA FinishIInv ==
  ASSUME IInv, NEW k \in Keys, NEW n \in Tickets, Finish(k, n)
  PROVE  IInv'
<1>1. call[k][n] = "running" /\ n - 1 \in resolved[k] /\ holder[k] = n
  BY DEF Finish, IInv, LaneOrder, HolderExact
<1>2. QueuedExact'
  BY <1>1, WaitingSame DEF IInv, Finish
<1>3. TypeOK'
  BY MaxCallsAssumption DEF IInv, TypeOK, Finish, CallState, Tickets, Promises, NoHolder
<1>4. LaneOrder'
  BY <1>1, MaxCallsAssumption DEF IInv, TypeOK, LaneOrder, Finish, Tickets, Promises
<1>5. HolderExact'
  BY <1>1, MaxCallsAssumption DEF IInv, TypeOK, HolderExact, Finish, Tickets, NoHolder
<1> QED
  BY <1>2, <1>3, <1>4, <1>5 DEF IInv

LEMMA NextIInv == IInv /\ [Next]_lockVars => IInv'
<1> SUFFICES ASSUME IInv, [Next]_lockVars PROVE IInv'
  OBVIOUS
<1>1. CASE UNCHANGED lockVars
  BY <1>1 DEF lockVars, IInv, TypeOK, LaneOrder, HolderExact, QueuedExact, In
<1>2. ASSUME NEW k \in Keys, NEW forever \in BOOLEAN, Request(k, forever) PROVE IInv'
  BY <1>2, RequestIInv
<1>3. ASSUME NEW k \in Keys, NEW n \in Tickets, Acquire(k, n) PROVE IInv'
  BY <1>3, AcquireIInv
<1>4. ASSUME NEW k \in Keys, NEW n \in Tickets, TimeOut(k, n) PROVE IInv'
  BY <1>4, TimeOutIInv
<1>5. ASSUME NEW k \in Keys, NEW n \in Tickets, Forward(k, n) PROVE IInv'
  BY <1>5, ForwardIInv
<1>6. ASSUME NEW k \in Keys, NEW n \in Tickets, Finish(k, n) PROVE IInv'
  BY <1>6, FinishIInv
<1> QED
  BY <1>1, <1>2, <1>3, <1>4, <1>5, <1>6 DEF Next

LEMMA Invariance == Spec => []IInv
  BY InitIInv, NextIInv, PTL DEF Spec, SafeSpec

-----------------------------------------------------------------------------
\* withLock keeps its lanes well-formed: no counter runs below zero or past the
\* number of calls, no call is in two places.
THEOREM TypeCorrect == Spec => []TypeOK
<1>1. IInv => TypeOK
  BY DEF IInv
<1> QED
  BY <1>1, Invariance, PTL

\* Promises are resolved from the front of the chain, timed-out calls included.
THEOREM ChainInOrder == Spec => []LaneOrder
<1>1. IInv => LaneOrder
  BY DEF IInv
<1> QED
  BY <1>1, Invariance, PTL

\* Two bodies never run on one repository at once, for any number of repositories
\* and calls and whatever timeouts fire.
THEOREM Exclusion == Spec => []MutualExclusion
<1>1. IInv => MutualExclusion
  BY DEF IInv, HolderExact, MutualExclusion, In
<1> QED
  BY <1>1, Invariance, PTL

\* lockState tells the truth: the holder is the running call and `queued` counts
\* the waiting ones.
THEOREM ReportExact == Spec => []StateReportExact
<1>1. IInv => StateReportExact
  BY DEF IInv, HolderExact, QueuedExact, StateReportExact
<1> QED
  BY <1>1, Invariance, PTL

-----------------------------------------------------------------------------
\* A chain whose resolved promises are a prefix has a front: the first promise
\* that is not resolved.  The prefix 0 .. f - 1 has f members, which names it.
LEMMA FrontOfChain ==
  ASSUME NEW S \in SUBSET Promises, 0 \in S,
         \A n \in S : \A m \in 0 .. n : m \in S,
         NEW t \in Promises, t \notin S
  PROVE  \E f \in Tickets : f <= t /\ f \notin S /\ f - 1 \in S
<1> DEFINE f == Cardinality(S)
<1>1. IsFiniteSet(S) /\ f \in Nat
  <2>1. IsFiniteSet(Promises)
    BY FS_Interval, MaxCallsAssumption DEF Promises
  <2> QED
    BY <2>1, FS_Subset, FS_CardinalityType
<1>2. \A n \in S : n < t
  BY MaxCallsAssumption DEF Promises
<1>3. f \notin S
  <2> SUFFICES ASSUME f \in S PROVE FALSE
    OBVIOUS
  <2>1. 0 .. f \in SUBSET S
    OBVIOUS
  <2>2. Cardinality(0 .. f) = f + 1
    BY <1>1, FS_Interval
  <2> QED
    BY <1>1, <2>1, <2>2, FS_Subset
<1>4. \A n \in S : n <= f - 1
  <2> SUFFICES ASSUME NEW n \in S, ~(n <= f - 1) PROVE FALSE
    OBVIOUS
  <2> QED
    BY <1>1, <1>3, MaxCallsAssumption DEF Promises
<1>5. f # 0
  BY <1>1, FS_EmptySet
<1>6. f - 1 \in S
  <2> SUFFICES ASSUME f - 1 \notin S PROVE FALSE
    OBVIOUS
  <2>1. \A n \in S : n \in 0 .. f - 2
    <3> SUFFICES ASSUME NEW n \in S PROVE n \in 0 .. f - 2
      OBVIOUS
    <3>1. n \in Nat /\ n <= f - 1 /\ n # f - 1
      BY <1>4, MaxCallsAssumption DEF Promises
    <3> HIDE DEF f
    <3> QED
      BY <1>1, <3>1
  <2>2. IsFiniteSet(0 .. f - 2) /\ Cardinality(0 .. f - 2) = f - 1
    <3>1. \A b \in Int : IsFiniteSet(0 .. b) /\ Cardinality(0 .. b) = IF 0 > b THEN 0 ELSE b - 0 + 1
      BY FS_Interval
    <3>2. \A g \in Nat \ {0} : IsFiniteSet(0 .. g - 2) /\ Cardinality(0 .. g - 2) = g - 1
      BY <3>1
    <3> QED
      BY <1>1, <1>5, <3>2
  <2>3. Cardinality(S) <= Cardinality(0 .. f - 2)
    BY <2>1, <2>2, FS_Subset
  <2> QED
    BY <1>1, <2>2, <2>3
<1> QED
  BY <1>1, <1>2, <1>3, <1>5, <1>6, MaxCallsAssumption DEF Promises, Tickets

\* No call times out on a free repository: when a timer fires somebody holds it.
THEOREM GiveUpJustified == Spec => GiveUpOnlyWhenHeld
<1> DEFINE Held == \A k \in Keys : \A n \in Tickets :
             call[k][n] = "waiting" /\ call'[k][n] = "abandoned" => holder[k] # NoHolder
<1>1. IInv /\ [Next]_lockVars => [Held]_lockVars
  <2> SUFFICES ASSUME IInv, Next, NEW k \in Keys, NEW n \in Tickets,
                      call[k][n] = "waiting", call'[k][n] = "abandoned"
               PROVE  holder[k] # NoHolder
    BY DEF lockVars
  <2>1. ASSUME NEW j \in Keys, NEW forever \in BOOLEAN, Request(j, forever) PROVE FALSE
    BY <2>1 DEF IInv, TypeOK, Request
  <2>2. ASSUME NEW j \in Keys, NEW m \in Tickets, ~Drained,
               Acquire(j, m) \/ TimeOut(j, m) \/ Forward(j, m) \/ Finish(j, m)
        PROVE  FALSE
    BY <2>2 DEF IInv, TypeOK, Acquire, TimeOut, Forward, Finish
  <2>3. Drained
    BY <2>1, <2>2 DEF Next
  <2>4. n - 1 \in Promises /\ n - 1 \notin resolved[k]
    BY <2>3, MaxCallsAssumption DEF Drained, CanAcquire, Tickets, Promises
  <2>5. PICK f \in Tickets : f <= n - 1 /\ f \notin resolved[k] /\ f - 1 \in resolved[k]
    BY <2>4, FrontOfChain DEF IInv, TypeOK, LaneOrder
  <2>6. call[k][f] = "running"
    BY <2>3, <2>5, MaxCallsAssumption
    DEF IInv, TypeOK, LaneOrder, Drained, CanAcquire, CanForward, CallState, Tickets, Promises
  <2> QED
    BY <2>6, MaxCallsAssumption DEF IInv, HolderExact, NoHolder, Tickets
<1> QED
  BY <1>1, Invariance, PTL DEF Spec, SafeSpec, GiveUpOnlyWhenHeld

-----------------------------------------------------------------------------
\* Every step of a lane is a step of the lease it implements, or invisible.
LEMMA StepRefines == IInv /\ [Next]_lockVars => [Lease!Next]_(Lease!leaseVars)
<1> DEFINE W == [k \in Keys |-> In(k, "waiting")]
<1> SUFFICES ASSUME IInv, [Next]_lockVars PROVE [Lease!Next]_(Lease!leaseVars)
  OBVIOUS
<1>1. CASE UNCHANGED lockVars
  BY <1>1 DEF lockVars, Lease!leaseVars, In
<1>2. ASSUME NEW k \in Keys, NEW forever \in BOOLEAN, Request(k, forever)
      PROVE  Lease!Ask(k)
  <2>1. tail[k] + 1 \in Tickets /\ tail' = [tail EXCEPT ![k] = @ + 1]
    BY <1>2, MaxCallsAssumption DEF IInv, TypeOK, Request, Tickets, Promises
  <2>2. call' = [call EXCEPT ![k][tail[k] + 1] = "waiting"]
    BY <1>2 DEF Request
  <2>3. W' = [W EXCEPT ![k] = @ \cup {tail[k] + 1}]
    BY <2>1, <2>2 DEF IInv, TypeOK, In
  <2> QED
    BY <1>2, <2>1, <2>3 DEF Lease!Ask, Request
<1>3. ASSUME NEW k \in Keys, NEW n \in Tickets, Acquire(k, n)
      PROVE  n \in W[k] /\ Lease!Grant(k, n)
  <2>1. call[k][n] = "waiting" /\ n - 1 \in resolved[k]
    BY <1>3 DEF Acquire, CanAcquire
  <2>2. \A m \in W[k] : n <= m
    BY <2>1, MaxCallsAssumption DEF IInv, LaneOrder, In, Tickets
  <2>3. holder[k] = 0
    <3> SUFFICES ASSUME holder[k] # 0 PROVE FALSE
      OBVIOUS
    <3>1. holder[k] \in Tickets /\ call[k][holder[k]] = "running"
      BY MaxCallsAssumption DEF IInv, TypeOK, HolderExact, Tickets, Promises
    <3>2. /\ holder[k] - 1 \in resolved[k] /\ holder[k] \notin resolved[k]
          /\ n \notin resolved[k]
      BY <2>1, <3>1 DEF IInv, LaneOrder
    <3> QED
      BY <2>1, <3>1, <3>2, MaxCallsAssumption DEF IInv, LaneOrder, Tickets
  <2>4. W' = [W EXCEPT ![k] = @ \ {n}]
    BY <1>3, <2>1 DEF IInv, TypeOK, Acquire, In
  <2> QED
    BY <1>3, <2>1, <2>2, <2>3, <2>4 DEF Lease!Grant, Acquire, In
<1>4. ASSUME NEW k \in Keys, NEW n \in Tickets, TimeOut(k, n)
      PROVE  n \in W[k] /\ Lease!GiveUp(k, n)
  <2>1. W' = [W EXCEPT ![k] = @ \ {n}]
    BY <1>4 DEF IInv, TypeOK, TimeOut, In
  <2> QED
    BY <1>4, <2>1 DEF Lease!GiveUp, TimeOut, In
<1>5. ASSUME NEW k \in Keys, NEW n \in Tickets, Forward(k, n)
      PROVE  UNCHANGED Lease!leaseVars
  <2>1. W' = W
    BY <1>5 DEF IInv, TypeOK, Forward, CanForward, In
  <2> QED
    BY <1>5, <2>1 DEF Forward, Lease!leaseVars
<1>6. ASSUME NEW k \in Keys, NEW n \in Tickets, Finish(k, n)
      PROVE  Lease!Return(k)
  <2>1. holder[k] = n /\ n # 0
    BY <1>6, MaxCallsAssumption DEF IInv, HolderExact, Finish, Tickets
  <2>2. W' = W
    BY <1>6 DEF IInv, TypeOK, Finish, In
  <2> QED
    BY <1>6, <2>1, <2>2 DEF Finish, Lease!Return, NoHolder
<1> QED
  BY <1>1, <1>2, <1>3, <1>4, <1>5, <1>6 DEF Next, Lease!Next

\* The chain of promises implements the lease: one owner at a time, granted in
\* order of arrival, undisturbed by calls that give up.
THEOREM LaneImplementsLease == Spec => ImplementsLease
<1>1. Init => Lease!Init
  BY DEF Init, Lease!Init, In, NoHolder
<1> QED
  BY <1>1, StepRefines, Invariance, PTL DEF Spec, SafeSpec, ImplementsLease, Lease!Spec
=============================================================================
