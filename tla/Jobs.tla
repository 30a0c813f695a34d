-------------------------------- MODULE Jobs --------------------------------
(***************************************************************************)
(* Background jobs, src/src/jobs.ts: every build, test, lint or terminal   *)
(* command is a job that takes its repository's lane (RepoLock), runs a    *)
(* child process under it (ExecRun) and publishes a result that clients    *)
(* poll, wait for, or cancel.  The lane is composed with the job table: a  *)
(* job is one patient call of withLock; other tools take the same lane.    *)
(*                                                                         *)
(* A handler runs to completion, so a step here is a handler up to its     *)
(* next await.  The settling of run() and the code of the job body after   *)
(* `await run(...)` are one step: no other callback runs between them.     *)
(***************************************************************************)
EXTENDS Naturals, FiniteSets

CONSTANTS
  Keys,      \* the lanes: one per repository root
  MaxCalls,  \* bound: calls of withLock per lane
  JobBound,  \* bound: jobs started in all
  MAX_JOBS   \* jobs.ts keeps about this many records

ASSUME JobsAssumption == MaxCalls \in Nat /\ JobBound \in Nat /\ MAX_JOBS \in Nat \ {0}

VARIABLES tail, holder, queued, resolved, call, patient   \* the lanes, see RepoLock

VARIABLES
  seq,        \* jobs started so far; job ids are 1 .. seq
  kept,       \* the ids in the `jobs` map
  at,         \* at[j]        : the lane and ticket of job j
  status,     \* status[j]    : job.status ("none" before the job exists)
  outcome,    \* outcome[j]   : the result fields: what run() returned or why it did not
  cancelled,  \* the jobs whose rec.cancelled is set
  body,       \* body[j]      : "none", "live" (run() unsettled), "returned"
  killed,     \* the jobs whose process was sent the kill
  server      \* "up", "stopping" (a signal arrived), "exited"

lockVars == <<tail, holder, queued, resolved, call, patient>>
jobVars  == <<seq, kept, at, status, outcome, cancelled, body, killed, server>>
vars     == <<tail, holder, queued, resolved, call, patient,
              seq, kept, at, status, outcome, cancelled, body, killed, server>>

Lock == INSTANCE RepoLock

JobIds   == 1 .. JobBound
Started  == 1 .. seq
Outcomes == {"none", "ok", "bad", "threw", "cancelled", "shutdown"}
NoPlace  == [key |-> "none", ticket |-> 0]
Finished(j) == status[j] \in {"done", "failed"}
LaneCall(j) == call[at[j].key][at[j].ticket]
JobAt(k, n) == \E j \in Started : at[j] = [key |-> k, ticket |-> n]

\* A job reads "running" only while its process may run.
JobsTypeOK ==
  /\ Lock!TypeOK
  /\ seq \in 0 .. JobBound /\ kept \in SUBSET Started
  /\ at \in [JobIds -> {NoPlace} \cup [key : Keys, ticket : 1 .. MaxCalls]]
  /\ status \in [JobIds -> {"none", "queued", "running", "done", "failed"}]
  /\ outcome \in [JobIds -> Outcomes]
  /\ cancelled \in SUBSET Started /\ killed \in SUBSET Started
  /\ body \in [JobIds -> {"none", "live", "returned"}]
  /\ \A j \in JobIds : status[j] = "running" => body[j] = "live"
  /\ server \in {"up", "stopping", "exited"}

Init ==
  /\ Lock!Init
  /\ seq = 0 /\ kept = {} /\ cancelled = {} /\ killed = {} /\ server = "up"
  /\ at = [j \in JobIds |-> NoPlace]
  /\ status = [j \in JobIds |-> "none"]
  /\ outcome = [j \in JobIds |-> "none"]
  /\ body = [j \in JobIds |-> "none"]

-----------------------------------------------------------------------------
\* Fault: the oldest records go whatever their status.
PruneOldest(ids) == {j \in ids : Cardinality({i \in ids : i > j}) < MAX_JOBS}

\* prune(): beyond MAX_JOBS records the oldest finished ones are deleted, as many
\* as it takes and no unfinished one.
Prune(ids) ==
  LET over == {j \in ids : Finished(j)} IN
  ids \ {j \in over : Cardinality({i \in over : i < j}) + MAX_JOBS < Cardinality(ids)}

\* startJob: the record, the pruning and the synchronous head of withLock.
StartJob(k) ==
  LET j == seq + 1 IN
  /\ server # "exited" /\ seq < JobBound
  /\ Lock!Request(k, TRUE)
  /\ seq'    = j
  /\ at'     = [at EXCEPT ![j] = [key |-> k, ticket |-> tail[k] + 1]]
  /\ status' = [status EXCEPT ![j] = "queued"]
  /\ kept'   = Prune(kept \cup {j})
  /\ UNCHANGED <<outcome, cancelled, body, killed, server>>

\* Fault: the body does not look at rec.cancelled.
BodyStartBlind(j) ==
  /\ server # "exited" /\ body[j] = "none"
  /\ Lock!Acquire(at[j].key, at[j].ticket)
  /\ status' = [status EXCEPT ![j] = "running"]
  /\ body'   = [body EXCEPT ![j] = "live"]
  /\ UNCHANGED <<seq, kept, at, outcome, cancelled, killed, server>>

\* Fault: a cancelled job never takes its turn in the lane.
BodyStartSkipping(j) ==
  /\ server # "exited" /\ body[j] = "none" /\ j \notin cancelled
  /\ Lock!Acquire(at[j].key, at[j].ticket)
  /\ status' = [status EXCEPT ![j] = "running"]
  /\ body'   = [body EXCEPT ![j] = "live"]
  /\ UNCHANGED <<seq, kept, at, outcome, cancelled, killed, server>>

\* The lane is granted: a job cancelled meanwhile returns at once, another spawns
\* its process or fails to (run() throws).
BodyStart(j) ==
  /\ server # "exited" /\ body[j] = "none"
  /\ Lock!Acquire(at[j].key, at[j].ticket)
  /\ \/ /\ j \in cancelled \/ Finished(j)
        /\ body' = [body EXCEPT ![j] = "returned"]
        /\ UNCHANGED <<status, outcome>>
     \/ /\ j \notin cancelled /\ ~Finished(j)
        /\ \/ /\ status' = [status EXCEPT ![j] = "running"]
              /\ body'   = [body EXCEPT ![j] = "live"]
              /\ UNCHANGED outcome
           \/ /\ status'  = [status EXCEPT ![j] = "failed"]
              /\ outcome' = [outcome EXCEPT ![j] = "threw"]
              /\ body'    = [body EXCEPT ![j] = "returned"]
  /\ UNCHANGED <<seq, kept, at, cancelled, killed, server>>

StatusOf(result) == IF result = "ok" THEN "done" ELSE "failed"

\* Fault: a rejection of run() is dropped.
RunEndsSwallowing(j, result) ==
  /\ server # "exited" /\ body[j] = "live"
  /\ body' = [body EXCEPT ![j] = "returned"]
  /\ IF j \in cancelled \/ result = "threw"
     THEN UNCHANGED <<status, outcome>>
     ELSE /\ status'  = [status EXCEPT ![j] = StatusOf(result)]
          /\ outcome' = [outcome EXCEPT ![j] = result]
  /\ UNCHANGED <<lockVars, seq, kept, at, cancelled, killed, server>>

\* run() settles with an exit code or rejects; a cancelled job keeps its outcome.
RunEnds(j, result) ==
  /\ server # "exited" /\ body[j] = "live"
  /\ body' = [body EXCEPT ![j] = "returned"]
  /\ IF j \in cancelled
     THEN UNCHANGED <<status, outcome>>
     ELSE /\ status'  = [status EXCEPT ![j] = StatusOf(result)]
          /\ outcome' = [outcome EXCEPT ![j] = result]
  /\ UNCHANGED <<lockVars, seq, kept, at, cancelled, killed, server>>

\* Fault: the job body does not await run(); the lane is released at once.
BodyEndEarly(j) ==
  /\ server # "exited" /\ body[j] # "none"
  /\ Lock!Finish(at[j].key, at[j].ticket)
  /\ UNCHANGED jobVars

\* The body's promise settles: withLock releases the lane and rec.done resolves.
BodyEnd(j) ==
  /\ server # "exited" /\ body[j] = "returned"
  /\ Lock!Finish(at[j].key, at[j].ticket)
  /\ UNCHANGED jobVars

\* What cancelJob and killRunningJobs do to a job that is not finished.
Abort(ids, why) ==
  /\ cancelled' = cancelled \cup ids
  /\ killed'    = killed \cup {j \in ids : body[j] = "live"}
  /\ status'    = [j \in JobIds |-> IF j \in ids THEN "failed" ELSE status[j]]
  /\ outcome'   = [j \in JobIds |-> IF j \in ids THEN why ELSE outcome[j]]
  /\ UNCHANGED <<lockVars, seq, kept, at, body>>

\* cancelJob, called by kill_job.
Cancel(j) ==
  /\ server # "exited" /\ j \in kept /\ ~Finished(j)
  /\ Abort({j}, "cancelled")
  /\ UNCHANGED server

\* The first SIGINT or SIGTERM: killRunningJobs, then the HTTP server closes.
Shutdown ==
  /\ server = "up"
  /\ Abort({j \in kept : ~Finished(j)}, "shutdown")
  /\ server' = "stopping"

\* The last connection closed, five seconds passed, or a second signal came.
Exit ==
  /\ server = "stopping"
  /\ server' = "exited"
  /\ UNCHANGED <<lockVars, seq, kept, at, status, outcome, cancelled, body, killed>>

\* Another tool on the same lane, with a limited wait.
ToolRequest(k) ==
  /\ server # "exited"
  /\ Lock!Request(k, FALSE)
  /\ UNCHANGED jobVars

ToolStep(k, n) ==
  /\ server # "exited" /\ ~JobAt(k, n)
  /\ Lock!Acquire(k, n) \/ Lock!TimeOut(k, n) \/ Lock!Forward(k, n) \/ Lock!Finish(k, n)
  /\ UNCHANGED jobVars

Next ==
  \/ \E k \in Keys :
       \/ StartJob(k) \/ ToolRequest(k)
       \/ \E n \in Lock!Tickets : ToolStep(k, n)
  \/ \E j \in Started :
       \/ BodyStart(j) \/ BodyEnd(j) \/ Cancel(j)
       \/ \E result \in {"ok", "bad", "threw"} : RunEnds(j, result)
  \/ Shutdown \/ Exit

(***************************************************************************)
(* Continuations run; run() settles (SpawnedRunSettles of ExecRun); other  *)
(* tools leave the lane.  Clients, signals and the exit are not fair.      *)
(***************************************************************************)
Fairness ==
  /\ \A j \in JobIds :
       /\ WF_vars(j \in Started /\ BodyStart(j))
       /\ WF_vars(j \in Started /\ BodyEnd(j))
       /\ WF_vars(\E result \in {"ok", "bad", "threw"} : RunEnds(j, result))
  /\ \A k \in Keys : \A n \in Lock!Tickets :
       /\ WF_vars(server # "exited" /\ ~JobAt(k, n) /\ Lock!Acquire(k, n) /\ UNCHANGED jobVars)
       /\ WF_vars(server # "exited" /\ ~JobAt(k, n) /\ Lock!Forward(k, n) /\ UNCHANGED jobVars)
       /\ WF_vars(server # "exited" /\ ~JobAt(k, n) /\ Lock!Finish(k, n) /\ UNCHANGED jobVars)

Spec == Init /\ [][Next]_vars /\ Fairness

-----------------------------------------------------------------------------
\* A job that reads done or failed never changes again: neither the process that
\* dies of the cancellation, nor a kill that comes late, rewrites what a client read,
\* and a job cancelled while it waited for the lane does not come to life.
FinalIsFinal ==
  [][\A j \in JobIds : Finished(j) => status'[j] = status[j] /\ outcome'[j] = outcome[j]]_vars

\* While a job's process may run, the job owns its repository and nothing else runs
\* there, no other job and no tool (the reason jobs take the lane at all); and the
\* process is attended: a job that reads as over before its process is gone has sent
\* it the kill.
ProcessAttended ==
  \A j \in Started : body[j] = "live" =>
    /\ Lock!In(at[j].key, "running") = {at[j].ticket}
    /\ Finished(j) => j \in killed

\* A job that is not finished is in reach: pruning never forgets one a client still has
\* to poll or cancel, and rec.done is not resolved yet, whatever the path through the
\* body (result, rejection, refusal to spawn, cancellation before or after the start):
\* whoever awaits rec.done finds the job finished.
UnfinishedInReach == \A j \in Started : ~Finished(j) => j \in kept /\ LaneCall(j) # "left"

\* Every job comes to an end while the server lives, behind whatever tools and
\* jobs are ahead of it in the lane.
EveryJobEnds == \A j \in JobIds : status[j] = "queued" ~> Finished(j) \/ server = "exited"

\* "phai giet cac job dang chay TRUOC khi thoat" (index.ts:149): the server exits
\* only when every job process was sent the kill.
NoJobSurvivesExit == server = "exited" => \A j \in Started : body[j] = "live" => j \in killed
=============================================================================
