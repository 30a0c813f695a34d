----------------------------- MODULE RepoLock ------------------------------
(***************************************************************************)
(* withLock of src/src/lock.ts: the mutex every side-effecting tool and    *)
(* every job takes on its repository.                                      *)
(*                                                                         *)
(* A lane is a chain of promises.  The n-th call on a lane (its "ticket")  *)
(* creates promise n, remembers promise n - 1 as `prev`, and becomes the   *)
(* tail.  Promise 0 is the lane's initial Promise.resolve().  A call runs  *)
(* its body once `prev` is resolved and resolves its own promise when the  *)
(* body settles.  A call whose wait times out leaves `prev.then(release)`  *)
(* behind, so that its promise follows `prev` and nobody is let in early.  *)
(*                                                                         *)
(* JavaScript runs one callback at a time and drains the microtask queue   *)
(* before any timer fires.  Acquire and Forward are microtasks; TimeOut is *)
(* a timer, enabled only when no microtask is pending.                     *)
(***************************************************************************)
EXTENDS Naturals, FiniteSets

CONSTANTS
  Keys,      \* the lane keys (repository roots)
  MaxCalls   \* bound: how many calls a lane sees

ASSUME MaxCallsAssumption == MaxCalls \in Nat

Tickets  == 1 .. MaxCalls
Promises == 0 .. MaxCalls
NoHolder == 0            \* lane.holder = null

VARIABLES
  tail,      \* tail[k]     : lane.tail, as the number of the promise
  holder,    \* holder[k]   : lane.holder, as the ticket that wrote it
  queued,    \* queued[k]   : lane.queued
  resolved,  \* resolved[k] : the promises of the lane that are resolved
  call,      \* call[k][n]  : where ticket n is in withLock
  patient    \* patient[k]  : the tickets that wait for ever (waitMs <= 0)

lockVars == <<tail, holder, queued, resolved, call, patient>>

\* "none": not called yet; "waiting": in waitFor; "running": in the body;
\* "abandoned": timed out, its promise still chained to `prev`; "left": returned
\* or threw, its promise resolved.
CallState == {"none", "waiting", "running", "abandoned", "left"}

TypeOK ==
  /\ tail     \in [Keys -> Promises]
  /\ holder   \in [Keys -> Promises]
  /\ queued   \in [Keys -> Promises]
  /\ resolved \in [Keys -> SUBSET Promises]
  /\ call     \in [Keys -> [Tickets -> CallState]]
  /\ patient  \in [Keys -> SUBSET Tickets]

Init ==
  /\ tail     = [k \in Keys |-> 0]
  /\ holder   = [k \in Keys |-> NoHolder]
  /\ queued   = [k \in Keys |-> 0]
  /\ resolved = [k \in Keys |-> {0}]
  /\ call     = [k \in Keys |-> [n \in Tickets |-> "none"]]
  /\ patient  = [k \in Keys |-> {}]

-----------------------------------------------------------------------------
In(k, state) == {n \in Tickets : call[k][n] = state}

\* Faults for the mutation runs, each a slip one could make in withLock:
\* the catch block does not throw; a free lane is enough to enter the body.
CanAcquireAfterTimeOut(k, n) == call[k][n] \in {"waiting", "abandoned"} /\ n - 1 \in resolved[k]
CanAcquireWhenIdle(k, n)     == call[k][n] = "waiting" /\ holder[k] = NoHolder

\* The continuation of `await waitFor(prev)` is queued.
CanAcquire(k, n) == call[k][n] = "waiting" /\ n - 1 \in resolved[k]

\* Faults: release() at the timeout instead of after `prev`; no release() at all.
CanForwardAtOnce(k, n) == call[k][n] = "abandoned"
CanForwardNever(k, n)  == FALSE

\* The continuation of `prev.then(release, release)` is queued.
CanForward(k, n) == call[k][n] = "abandoned" /\ n - 1 \in resolved[k]

\* Fault: a timer may fire between a release and the continuation it queued.
NotDrained == TRUE

\* No continuation is queued on any lane: the only moment a timer can fire.
Drained == \A k \in Keys : \A n \in Tickets : ~CanAcquire(k, n) /\ ~CanForward(k, n)

\* The synchronous head of withLock, up to its first await.
Request(k, forever) ==
  LET n == tail[k] + 1 IN
  /\ n <= MaxCalls
  /\ tail'    = [tail EXCEPT ![k] = n]
  /\ queued'  = [queued EXCEPT ![k] = @ + 1]
  /\ call'    = [call EXCEPT ![k][n] = "waiting"]
  /\ patient' = [patient EXCEPT ![k] = IF forever THEN @ \cup {n} ELSE @]
  /\ UNCHANGED <<holder, resolved>>

\* `prev` resolved: the call enters the body.
Acquire(k, n) ==
  /\ CanAcquire(k, n)
  /\ queued' = [queued EXCEPT ![k] = @ - 1]
  /\ holder' = [holder EXCEPT ![k] = n]
  /\ call'   = [call EXCEPT ![k][n] = "running"]
  /\ UNCHANGED <<tail, resolved, patient>>

\* Fault: the catch block forgets `queued--`.
TimeOutStillQueued(k, n) ==
  /\ Drained
  /\ call[k][n] = "waiting" /\ n \notin patient[k]
  /\ call' = [call EXCEPT ![k][n] = "abandoned"]
  /\ UNCHANGED <<tail, holder, queued, resolved, patient>>

\* The timer of waitFor: the call throws, its promise is chained to `prev`.
TimeOut(k, n) ==
  /\ Drained
  /\ call[k][n] = "waiting" /\ n \notin patient[k]
  /\ queued' = [queued EXCEPT ![k] = @ - 1]
  /\ call'   = [call EXCEPT ![k][n] = "abandoned"]
  /\ UNCHANGED <<tail, holder, resolved, patient>>

\* `prev.then(release)` left behind by a timed-out call.
Forward(k, n) ==
  /\ CanForward(k, n)
  /\ resolved' = [resolved EXCEPT ![k] = @ \cup {n}]
  /\ call'     = [call EXCEPT ![k][n] = "left"]
  /\ UNCHANGED <<tail, holder, queued, patient>>

\* The body settled, by returning or by throwing: the finally block.
Finish(k, n) ==
  /\ call[k][n] = "running"
  /\ holder'   = [holder EXCEPT ![k] = NoHolder]
  /\ resolved' = [resolved EXCEPT ![k] = @ \cup {n}]
  /\ call'     = [call EXCEPT ![k][n] = "left"]
  /\ UNCHANGED <<tail, queued, patient>>

Next ==
  \E k \in Keys :
    \/ \E forever \in BOOLEAN : Request(k, forever)
    \/ \E n \in Tickets :
         \/ Acquire(k, n)
         \/ TimeOut(k, n)
         \/ Forward(k, n)
         \/ Finish(k, n)

(***************************************************************************)
(* The runtime runs every queued continuation (Acquire, Forward).  Finish  *)
(* is fair because every body ends: run() of exec.ts settles by its own    *)
(* timeout, and a body that never ends is a bug of the body.  Nothing is   *)
(* assumed of Request (a client) nor of TimeOut (a call may be served      *)
(* before its timer).                                                      *)
(***************************************************************************)
Fairness ==
  \A k \in Keys : \A n \in Tickets :
    /\ WF_lockVars(Acquire(k, n))
    /\ WF_lockVars(Forward(k, n))
    /\ WF_lockVars(Finish(k, n))

SafeSpec == Init /\ [][Next]_lockVars
Spec     == SafeSpec /\ Fairness

-----------------------------------------------------------------------------
\* At most one body runs on a repository at a time (lock.ts:1-7), however the
\* waits of the other calls ended.
MutualExclusion ==
  \A k \in Keys : \A m, n \in In(k, "running") : m = n

\* What lockState reports is true: `holder` names the call whose body runs, null
\* when none does, and `queued` counts the calls still waiting, the ones that
\* timed out no longer among them.
StateReportExact ==
  \A k \in Keys :
    /\ \A n \in Tickets : call[k][n] = "running" <=> holder[k] = n
    /\ queued[k] = Cardinality(In(k, "waiting"))

\* The promises of a lane are resolved from the front: a body runs only when
\* every call that came before has left, also those that timed out.
LaneOrder ==
  \A k \in Keys :
    /\ 0 \in resolved[k]
    /\ \A n \in resolved[k] : \A m \in 0 .. n : m \in resolved[k]
    /\ \A n \in Tickets :
         /\ n \in resolved[k] <=> call[k][n] = "left"
         /\ n > tail[k] <=> call[k][n] = "none"
         /\ call[k][n] = "running" => n - 1 \in resolved[k]

\* A call gives up only while another call's body really holds the repository:
\* the error it throws can name a holder (lock.ts:69), and no call is turned away
\* from an idle repository.
GiveUpOnlyWhenHeld ==
  [][\A k \in Keys : \A n \in Tickets :
       call[k][n] = "waiting" /\ call'[k][n] = "abandoned" => holder[k] # NoHolder]_lockVars

\* A call that waits without a limit (a job) is served in the end, although
\* calls ahead of it in the chain may have given up.
PatientServed ==
  \A k \in Keys : \A n \in Tickets :
    call[k][n] = "waiting" /\ n \in patient[k] ~> call[k][n] = "running"

-----------------------------------------------------------------------------
\* The lane implements the lease of RepoLease: one owner, first come first served.
Lease == INSTANCE RepoLease
  WITH asked   <- tail,
       waiting <- [k \in Keys |-> In(k, "waiting")],
       owner   <- holder

\* Every step of the lane is a step of the lease or changes nothing a caller
\* sees: no overtaking, no second owner, giving up disturbs nobody.
ImplementsLease == Lease!Spec
=============================================================================
