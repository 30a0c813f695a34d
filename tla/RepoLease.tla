----------------------------- MODULE RepoLease -----------------------------
(***************************************************************************)
(* What a caller of withLock is promised, with none of the promise         *)
(* plumbing of src/src/lock.ts: a lease per repository, granted to one     *)
(* call at a time, in the order the calls asked for it.  A call that has   *)
(* not been granted the lease may give up; giving up changes nothing for   *)
(* the others.                                                             *)
(*                                                                         *)
(* Calls on one repository are numbered 1, 2, 3, ... in the order they     *)
(* ask.  RepoLock implements this specification.                           *)
(***************************************************************************)
EXTENDS Naturals

CONSTANTS
  Keys       \* the repositories (lane keys)

VARIABLES
  asked,     \* asked[k]   : how many calls have asked for repository k
  waiting,   \* waiting[k] : the calls that asked and were neither granted nor gave up
  owner      \* owner[k]   : the call that has the lease, 0 when it is free

leaseVars == <<asked, waiting, owner>>

Init ==
  /\ asked   = [k \in Keys |-> 0]
  /\ waiting = [k \in Keys |-> {}]
  /\ owner   = [k \in Keys |-> 0]

Ask(k) ==
  /\ asked'   = [asked   EXCEPT ![k] = @ + 1]
  /\ waiting' = [waiting EXCEPT ![k] = @ \cup {asked[k] + 1}]
  /\ UNCHANGED owner

\* The lease goes to the call that has waited longest, and only when it is free.
Grant(k, n) ==
  /\ owner[k] = 0
  /\ n \in waiting[k]
  /\ \A m \in waiting[k] : n <= m
  /\ owner'   = [owner   EXCEPT ![k] = n]
  /\ waiting' = [waiting EXCEPT ![k] = @ \ {n}]
  /\ UNCHANGED asked

GiveUp(k, n) ==
  /\ n \in waiting[k]
  /\ waiting' = [waiting EXCEPT ![k] = @ \ {n}]
  /\ UNCHANGED <<asked, owner>>

Return(k) ==
  /\ owner[k] # 0
  /\ owner' = [owner EXCEPT ![k] = 0]
  /\ UNCHANGED <<asked, waiting>>

Next ==
  \E k \in Keys :
    \/ Ask(k)
    \/ \E n \in waiting[k] : Grant(k, n) \/ GiveUp(k, n)
    \/ Return(k)

Spec == Init /\ [][Next]_leaseVars
=============================================================================
