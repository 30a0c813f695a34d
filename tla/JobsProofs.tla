----------------------------- MODULE JobsProofs -----------------------------
(***************************************************************************)
(* Theorems about Jobs, for any repositories, any number of jobs and calls *)
(* and any MAX_JOBS.  What the lane guarantees is taken over from          *)
(* RepoLockProofs: every step of Jobs is a step of the lane or leaves it   *)
(* alone.                                                                  *)
(***************************************************************************)
EXTENDS Jobs, TLAPS

Lane == INSTANCE RepoLockProofs

\* The conjuncts of JobsTypeOK about the job table.
TableOK ==
  /\ seq \in 0 .. JobBound /\ kept \in SUBSET Started
  /\ at \in [JobIds -> {NoPlace} \cup [key : Keys, ticket : 1 .. MaxCalls]]
  /\ status \in [JobIds -> {"none", "queued", "running", "done", "failed"}]
  /\ outcome \in [JobIds -> Outcomes]
  /\ cancelled \in SUBSET Started /\ killed \in SUBSET Started
  /\ body \in [JobIds -> {"none", "live", "returned"}]
  /\ server \in {"up", "stopping", "exited"}

\* A job that was started is one patient call of its lane, and no other job's call.
Placed ==
  /\ \A j \in Started :
       /\ at[j] \in [key : Keys, ticket : 1 .. MaxCalls]
       /\ at[j].ticket \in patient[at[j].key]
  /\ \A i, j \in Started : at[i] = at[j] => i = j

\* The body of a job goes with its call: it begins when the lane is granted and the lane
\* is released behind it.
BodyInLane ==
  \A j \in Started :
    /\ LaneCall(j) \in {"waiting", "running", "left"}
    /\ LaneCall(j) = "waiting" <=> body[j] = "none"
    /\ LaneCall(j) = "left" => body[j] = "returned"

\* What the table says of a job goes with its body: nothing before the start, an end when
\* the body has returned, and before that only for a job that was aborted.
StatusOfBody ==
  \A j \in JobIds :
    /\ j > seq => status[j] = "none" /\ body[j] = "none"
    /\ status[j] = "running" => body[j] = "live"
    /\ body[j] = "returned" => Finished(j)
    /\ body[j] = "live" /\ Finished(j) => j \in cancelled /\ j \in killed

\* Only jobs that are over were cancelled.
CancelledOver == \A j \in JobIds : j \in cancelled => Finished(j)

\* Pruning forgets finished jobs only.
UnfinishedKept == \A j \in Started : ~Finished(j) => j \in kept

TableIInv == TableOK /\ Placed /\ BodyInLane /\ StatusOfBody /\ CancelledOver /\ UnfinishedKept

\* The inductive invariant.
IInv == Lane!IInv /\ TableIInv

-----------------------------------------------------------------------------
\* The operators of the lane that Jobs calls are those the theorems of the lane are about.
LEMMA SameLane ==
  /\ Lock!TypeOK <=> Lane!TypeOK
  /\ Lock!Init <=> Lane!Init
  /\ \A k \in Keys : \A forever \in BOOLEAN : Lock!Request(k, forever) <=> Lane!Request(k, forever)
  /\ \A k \in Keys : \A n \in Lock!Tickets :
       /\ n \in Lane!Tickets
       /\ Lock!Acquire(k, n) <=> Lane!Acquire(k, n)
       /\ Lock!TimeOut(k, n) <=> Lane!TimeOut(k, n)
       /\ Lock!Forward(k, n) <=> Lane!Forward(k, n)
       /\ Lock!Finish(k, n)  <=> Lane!Finish(k, n)
  BY DEF Lock!TypeOK, Lane!TypeOK, Lock!Init, Lane!Init, Lock!Request, Lane!Request,
         Lock!Tickets, Lane!Tickets, Lock!Promises, Lane!Promises, Lock!CallState, Lane!CallState,
         Lock!NoHolder, Lane!NoHolder,
         Lock!Acquire, Lane!Acquire, Lock!CanAcquire, Lane!CanAcquire,
         Lock!TimeOut, Lane!TimeOut, Lock!Drained, Lane!Drained,
         Lock!Forward, Lane!Forward, Lock!CanForward, Lane!CanForward, Lock!Finish, Lane!Finish

\* A step of the lane keeps the invariant of the lane.
LEMMA LaneStep == ASSUME Lane!IInv, [Lane!Next]_lockVars PROVE Lane!IInv'
  BY Lane!NextIInv, JobsAssumption DEF lockVars, Lane!lockVars, JobsAssumption

\* What the proofs about the table use of the lane's types.
LEMMA LaneTypes ==
  ASSUME Lane!IInv
  PROVE  /\ call \in [Keys -> [1 .. MaxCalls -> {"none", "waiting", "running", "abandoned", "left"}]]
         /\ patient \in [Keys -> SUBSET (1 .. MaxCalls)] /\ tail \in [Keys -> 0 .. MaxCalls]
         /\ \A k \in Keys : \A n \in 1 .. MaxCalls : n > tail[k] <=> call[k][n] = "none"
         /\ \A k \in Keys : \A m, n \in 1 .. MaxCalls :
              call[k][m] = "running" /\ call[k][n] = "running" => m = n
  BY DEF Lane!IInv, Lane!TypeOK, Lane!LaneOrder, Lane!HolderExact, Lane!Tickets, Lane!Promises, Lane!CallState

LEMMA InitIInv == Init => IInv
<1> SUFFICES ASSUME Init PROVE IInv
  OBVIOUS
<1>1. Lane!IInv
  <2>1. Lane!Init
    BY SameLane DEF Init
  <2> QED
    BY <2>1, Lane!InitIInv, JobsAssumption DEF JobsAssumption
<1>2. TableIInv
  BY JobsAssumption
     DEF Init, TableIInv, TableOK, Placed, BodyInLane, StatusOfBody, CancelledOver, UnfinishedKept, Started, JobIds,
         Outcomes, Finished, JobsAssumption
<1> QED
  BY <1>1, <1>2 DEF IInv

\* A step of somebody else's call leaves what is said of the jobs' calls alone.
LEMMA OtherCall ==
  ASSUME IInv, NEW k \in Keys, NEW n \in 1 .. MaxCalls, ~JobAt(k, n), NEW state,
         call' = [call EXCEPT ![k][n] = state],
         \A i \in Keys : patient[i] \subseteq patient'[i],
         UNCHANGED jobVars
  PROVE  TableIInv'
<1>1. TableIInv /\ Lane!IInv
  BY DEF IInv
<1>2. UNCHANGED <<seq, kept, at, status, outcome, cancelled, body, killed, server>>
  BY DEF jobVars
<1>3. \A j \in Started : at[j] \in [key : Keys, ticket : 1 .. MaxCalls] /\ at[j] # [key |-> k, ticket |-> n]
  BY <1>1 DEF TableIInv, Placed, JobAt
<1>4. \A j \in Started : LaneCall(j)' = LaneCall(j)
  BY <1>1, <1>2, <1>3, LaneTypes DEF LaneCall
<1>5. TableOK'
  BY <1>1, <1>2 DEF TableIInv, TableOK, Started
<1>6. Placed'
  BY <1>1, <1>2 DEF TableIInv, Placed, Started
<1>7. BodyInLane'
  BY <1>1, <1>2, <1>4 DEF TableIInv, BodyInLane, Started
<1>8. StatusOfBody' /\ CancelledOver' /\ UnfinishedKept'
  BY <1>1, <1>2 DEF TableIInv, StatusOfBody, CancelledOver, UnfinishedKept, Finished, Started
<1> QED
  BY <1>5, <1>6, <1>7, <1>8 DEF TableIInv

\* The place a request takes was nobody's.
LEMMA FreshPlace ==
  ASSUME IInv, NEW k \in Keys, NEW forever \in BOOLEAN, Lock!Request(k, forever)
  PROVE  LET n == tail[k] + 1 IN
         /\ n \in 1 .. MaxCalls /\ ~JobAt(k, n)
         /\ call' = [call EXCEPT ![k][n] = "waiting"]
         /\ patient' = [patient EXCEPT ![k] = IF forever THEN @ \cup {n} ELSE @]
<1> DEFINE n == tail[k] + 1
<1>1. /\ n <= MaxCalls /\ call' = [call EXCEPT ![k][n] = "waiting"]
      /\ patient' = [patient EXCEPT ![k] = IF forever THEN @ \cup {n} ELSE @]
  BY DEF Lock!Request
<1>2. n \in 1 .. MaxCalls
  BY <1>1, JobsAssumption, LaneTypes DEF IInv, JobsAssumption
<1>3. call[k][n] = "none"
  BY <1>2, JobsAssumption, LaneTypes DEF IInv, JobsAssumption
<1>4. ~JobAt(k, n)
  <2> SUFFICES ASSUME NEW j \in Started, at[j] = [key |-> k, ticket |-> n] PROVE FALSE
    BY DEF JobAt
  <2>1. LaneCall(j) = "none"
    BY <1>3 DEF LaneCall
  <2> QED
    BY <2>1 DEF IInv, TableIInv, BodyInLane
<1> QED
  BY <1>1, <1>2, <1>4

LEMMA StartJobTable == ASSUME IInv, NEW k \in Keys, StartJob(k) PROVE TableIInv'
<1>1. TableIInv /\ Lane!IInv
  BY DEF IInv
<1>2. PICK j : j = seq + 1
  OBVIOUS
<1>3. PICK n : n = tail[k] + 1
  OBVIOUS
<1>4. /\ n \in 1 .. MaxCalls /\ ~JobAt(k, n)
      /\ call' = [call EXCEPT ![k][n] = "waiting"]
      /\ patient' = [patient EXCEPT ![k] = @ \cup {n}]
  BY <1>3, FreshPlace DEF StartJob
<1>5. /\ seq < JobBound /\ seq' = j
      /\ at' = [at EXCEPT ![j] = [key |-> k, ticket |-> n]]
      /\ status' = [status EXCEPT ![j] = "queued"]
      /\ kept' = Prune(kept \cup {j})
      /\ UNCHANGED <<outcome, cancelled, body, killed, server>>
  BY <1>2, <1>3 DEF StartJob
<1>6. /\ seq \in Nat /\ j \in JobIds /\ j \notin Started /\ Started' = Started \cup {j}
      /\ Started \subseteq JobIds
  BY <1>1, <1>2, <1>5, JobsAssumption DEF TableIInv, TableOK, Started, JobIds, JobsAssumption
<1>7. kept' \subseteq kept \cup {j} /\ \A i \in kept \cup {j} : ~Finished(i) => i \in kept'
  BY <1>5 DEF Prune
<1>8. /\ at' \in [JobIds -> {NoPlace} \cup [key : Keys, ticket : 1 .. MaxCalls]]
      /\ at'[j] = [key |-> k, ticket |-> n] /\ \A i \in Started : at'[i] = at[i]
      /\ status'[j] = "queued" /\ \A i \in JobIds \ {j} : status'[i] = status[i]
  BY <1>1, <1>4, <1>5, <1>6 DEF TableIInv, TableOK
<1>9. status[j] = "none" /\ body[j] \in {"none", "live", "returned"} /\ ~Finished(j)
  BY <1>1, <1>2, <1>6 DEF TableIInv, TableOK, StatusOfBody, Finished
<1>10. body[j] = "none"
  BY <1>1, <1>2, <1>6, <1>9 DEF TableIInv, StatusOfBody, Finished
<1>11. TableOK'
  <2>1. seq' \in 0 .. JobBound
    BY <1>2, <1>5, <1>6, JobsAssumption DEF JobsAssumption
  <2>2. kept' \in SUBSET Started' /\ cancelled' \in SUBSET Started' /\ killed' \in SUBSET Started'
    BY <1>1, <1>5, <1>6, <1>7 DEF TableIInv, TableOK
  <2>3. status' \in [JobIds -> {"none", "queued", "running", "done", "failed"}]
    BY <1>1, <1>5 DEF TableIInv, TableOK
  <2> QED
    BY <1>1, <1>5, <1>8, <2>1, <2>2, <2>3 DEF TableIInv, TableOK
<1>12. \A i \in Started : at[i] \in [key : Keys, ticket : 1 .. MaxCalls] /\ at[i] # [key |-> k, ticket |-> n]
  BY <1>1, <1>4 DEF TableIInv, Placed, JobAt
<1>13. Placed'
  <2>1. \A i \in Keys : patient[i] \subseteq patient'[i]
    BY <1>1, <1>4, LaneTypes
  <2>2. n \in patient'[k]
    BY <1>1, <1>4, LaneTypes
  <2>3. \A i \in Started' : at'[i] \in [key : Keys, ticket : 1 .. MaxCalls] /\ at'[i].ticket \in patient'[at'[i].key]
    BY <1>1, <1>4, <1>6, <1>8, <1>12, <2>1, <2>2 DEF TableIInv, Placed
  <2>4. \A h, i \in Started' : at'[h] = at'[i] => h = i
    BY <1>1, <1>6, <1>8, <1>12 DEF TableIInv, Placed
  <2> QED
    BY <2>3, <2>4 DEF Placed
<1>14. BodyInLane'
  <2>1. \A i \in Started : LaneCall(i)' = LaneCall(i)
    BY <1>1, <1>4, <1>8, <1>12, LaneTypes DEF LaneCall
  <2>2. LaneCall(j)' = "waiting"
    <3>1. call'[k][n] = "waiting"
      BY <1>1, <1>4, LaneTypes
    <3>2. LaneCall(j)' = call'[at'[j].key][at'[j].ticket]
      BY DEF LaneCall
    <3> QED
      BY <1>8, <3>1, <3>2
  <2> QED
    BY <1>1, <1>5, <1>6, <1>10, <2>1, <2>2 DEF TableIInv, BodyInLane
<1>15. StatusOfBody'
  <2>1. \A i \in JobIds \ {j} : i > seq' => i > seq
    BY <1>2, <1>5, <1>6, JobsAssumption DEF JobIds, JobsAssumption
  <2>2. ~(j > seq')
    BY <1>5, <1>6, JobsAssumption DEF JobIds, JobsAssumption
  <2> QED
    BY <1>1, <1>5, <1>8, <1>10, <2>1, <2>2 DEF TableIInv, StatusOfBody, Finished
<1>16. UnfinishedKept'
  <2>1. \A i \in Started : ~Finished(i)' => ~Finished(i)
    BY <1>6, <1>8 DEF Finished
  <2> QED
    BY <1>1, <1>6, <1>7, <1>9, <2>1 DEF TableIInv, UnfinishedKept
<1>17. CancelledOver'
  <2>1. j \notin cancelled
    BY <1>1, <1>6 DEF TableIInv, TableOK
  <2> QED
    BY <1>1, <1>5, <1>8, <2>1 DEF TableIInv, CancelledOver, Finished
<1> QED
  BY <1>11, <1>13, <1>14, <1>15, <1>16, <1>17 DEF TableIInv

\* A step of a job's own call moves no other job's.
LEMMA OwnCall ==
  ASSUME IInv, NEW j \in Started, NEW state, at' = at,
         call' = [call EXCEPT ![at[j].key][at[j].ticket] = state]
  PROVE  LaneCall(j)' = state /\ \A i \in Started \ {j} : LaneCall(i)' = LaneCall(i)
<1>1. TableIInv /\ Lane!IInv
  BY DEF IInv
<1>2. PICK k \in Keys, n \in 1 .. MaxCalls : at[j] = [key |-> k, ticket |-> n]
  BY <1>1 DEF TableIInv, Placed
<1>3. at[j].key = k /\ at[j].ticket = n
  BY <1>2
<1>4. call' = [call EXCEPT ![k][n] = state]
  BY <1>3
<1>5. call'[k][n] = state
  <2>1. call \in [Keys -> [1 .. MaxCalls -> {"none", "waiting", "running", "abandoned", "left"}]]
    BY <1>1, LaneTypes
  <2> QED
    BY <1>4, <2>1
<1>6. \A i \in Started \ {j} : at[i] \in [key : Keys, ticket : 1 .. MaxCalls] /\ at[i] # at[j]
  BY <1>1 DEF TableIInv, Placed
<1>7. \A i \in Started \ {j} : LaneCall(i)' = LaneCall(i)
  BY <1>1, <1>2, <1>4, <1>6, LaneTypes DEF LaneCall
<1>8. LaneCall(j)' = state
  BY <1>3, <1>5 DEF LaneCall
<1> QED
  BY <1>7, <1>8

LEMMA BodyStartTable == ASSUME IInv, NEW j \in Started, BodyStart(j) PROVE TableIInv'
<1>1. TableIInv /\ Lane!IInv /\ j \in JobIds /\ Started \subseteq JobIds
  BY JobsAssumption DEF IInv, TableIInv, TableOK, Started, JobIds, JobsAssumption
<1>2. /\ call' = [call EXCEPT ![at[j].key][at[j].ticket] = "running"] /\ patient' = patient
      /\ body[j] = "none" /\ UNCHANGED <<seq, kept, at, cancelled, killed, server>>
  BY DEF BodyStart, Lock!Acquire
<1>3. LaneCall(j)' = "running" /\ \A i \in Started \ {j} : LaneCall(i)' = LaneCall(i)
  BY <1>2, OwnCall
<1>4. \/ Finished(j) /\ body' = [body EXCEPT ![j] = "returned"] /\ UNCHANGED <<status, outcome>>
      \/ /\ ~Finished(j) /\ UNCHANGED outcome
         /\ status' = [status EXCEPT ![j] = "running"] /\ body' = [body EXCEPT ![j] = "live"]
      \/ /\ status' = [status EXCEPT ![j] = "failed"] /\ outcome' = [outcome EXCEPT ![j] = "threw"]
         /\ body' = [body EXCEPT ![j] = "returned"]
  BY <1>1 DEF BodyStart, TableIInv, CancelledOver
<1>5. TableOK'
  BY <1>1, <1>2, <1>4 DEF TableIInv, TableOK, Outcomes, Started
<1>6. Placed'
  BY <1>1, <1>2 DEF TableIInv, Placed, Started
<1>7. body'[j] # "none" /\ body' \in [JobIds -> {"none", "live", "returned"}]
      /\ \A i \in JobIds \ {j} : body'[i] = body[i] /\ status'[i] = status[i]
  BY <1>1, <1>4 DEF TableIInv, TableOK
<1>8. BodyInLane'
  BY <1>1, <1>2, <1>3, <1>7 DEF TableIInv, BodyInLane, Started
<1>9. /\ status'[j] = "running" => body'[j] = "live"
      /\ body'[j] = "returned" => Finished(j)'
      /\ body'[j] = "live" => ~Finished(j)'
      /\ Finished(j) => Finished(j)'
  BY <1>1, <1>2, <1>4 DEF TableIInv, TableOK, StatusOfBody, Finished
<1>10. StatusOfBody'
  <2>1. ~(j > seq)
    BY <1>1, JobsAssumption DEF TableIInv, TableOK, Started, JobsAssumption
  <2> QED
    BY <1>1, <1>2, <1>7, <1>9, <2>1 DEF TableIInv, StatusOfBody, Finished
<1>11. UnfinishedKept'
  BY <1>1, <1>2, <1>7, <1>9 DEF TableIInv, UnfinishedKept, Finished, Started
<1>12. CancelledOver'
  BY <1>1, <1>2, <1>7, <1>9 DEF TableIInv, CancelledOver, Finished
<1> QED
  BY <1>5, <1>6, <1>8, <1>10, <1>11, <1>12 DEF TableIInv

LEMMA RunEndsTable ==
  ASSUME IInv, NEW j \in Started, NEW result \in {"ok", "bad", "threw"}, RunEnds(j, result)
  PROVE  TableIInv'
<1>1. TableIInv /\ j \in JobIds /\ Started \subseteq JobIds
  BY JobsAssumption DEF IInv, TableIInv, TableOK, Started, JobIds, JobsAssumption
<1>2. /\ body[j] = "live" /\ body' = [body EXCEPT ![j] = "returned"]
      /\ UNCHANGED <<call, patient, seq, kept, at, cancelled, killed, server>>
  BY DEF RunEnds, lockVars
<1>3. \/ j \in cancelled /\ UNCHANGED <<status, outcome>>
      \/ /\ status' = [status EXCEPT ![j] = StatusOf(result)]
         /\ outcome' = [outcome EXCEPT ![j] = result]
  BY DEF RunEnds
<1>4. StatusOf(result) \in {"done", "failed"}
  BY DEF StatusOf
<1>5. body'[j] = "returned" /\ \A i \in JobIds \ {j} : body'[i] = body[i] /\ status'[i] = status[i]
  BY <1>1, <1>2, <1>3 DEF TableIInv, TableOK
<1>6. Finished(j)'
  BY <1>1, <1>3, <1>4 DEF TableIInv, TableOK, CancelledOver, Finished
<1>7. \A i \in Started : LaneCall(i)' = LaneCall(i)
  BY <1>2 DEF LaneCall
<1>8. TableOK'
  BY <1>1, <1>2, <1>3, <1>4 DEF TableIInv, TableOK, Outcomes, Started
<1>9. Placed'
  BY <1>1, <1>2 DEF TableIInv, Placed, Started
<1>10. BodyInLane'
  BY <1>1, <1>2, <1>5, <1>7 DEF TableIInv, BodyInLane, Started
<1>11. StatusOfBody' /\ UnfinishedKept'
  BY <1>1, <1>2, <1>5, <1>6 DEF TableIInv, StatusOfBody, UnfinishedKept, Finished, Started
<1>12. CancelledOver'
  BY <1>1, <1>2, <1>5, <1>6 DEF TableIInv, CancelledOver, Finished
<1> QED
  BY <1>8, <1>9, <1>10, <1>11, <1>12 DEF TableIInv

LEMMA BodyEndTable == ASSUME IInv, NEW j \in Started, BodyEnd(j) PROVE TableIInv'
<1>1. TableIInv
  BY DEF IInv
<1>2. /\ call' = [call EXCEPT ![at[j].key][at[j].ticket] = "left"] /\ patient' = patient
      /\ body[j] = "returned" /\ UNCHANGED <<seq, kept, at, status, outcome, cancelled, body, killed, server>>
  BY DEF BodyEnd, Lock!Finish, jobVars
<1>3. LaneCall(j)' = "left" /\ \A i \in Started \ {j} : LaneCall(i)' = LaneCall(i)
  BY <1>2, OwnCall
<1>4. BodyInLane'
  BY <1>1, <1>2, <1>3 DEF TableIInv, BodyInLane, Started
<1>5. Placed'
  BY <1>1, <1>2 DEF TableIInv, Placed, Started
<1>6. TableOK' /\ StatusOfBody' /\ CancelledOver' /\ UnfinishedKept'
  BY <1>1, <1>2 DEF TableIInv, TableOK, StatusOfBody, CancelledOver, UnfinishedKept, Finished, Started
<1> QED
  BY <1>4, <1>5, <1>6 DEF TableIInv

LEMMA AbortTable ==
  ASSUME IInv, NEW ids \in SUBSET {j \in kept : ~Finished(j)}, NEW why \in {"cancelled", "shutdown"},
         Abort(ids, why), server' \in {"up", "stopping", "exited"}
  PROVE  TableIInv'
<1>1. TableIInv /\ ids \subseteq Started /\ Started \subseteq JobIds
  BY JobsAssumption DEF IInv, TableIInv, TableOK, Started, JobIds, JobsAssumption
<1>2. /\ cancelled' = cancelled \cup ids
      /\ killed' = killed \cup {j \in ids : body[j] = "live"}
      /\ UNCHANGED <<call, patient, seq, kept, at, body>>
  BY DEF Abort, lockVars
<1>3. /\ status' \in [JobIds -> {"none", "queued", "running", "done", "failed"}]
      /\ outcome' \in [JobIds -> Outcomes]
      /\ \A j \in JobIds : status'[j] = IF j \in ids THEN "failed" ELSE status[j]
  BY <1>1 DEF Abort, TableIInv, TableOK, Outcomes
<1>4. TableOK'
  BY <1>1, <1>2, <1>3 DEF TableIInv, TableOK, Started
<1>5. Placed'
  BY <1>1, <1>2 DEF TableIInv, Placed, Started
<1>6. BodyInLane'
  <2>1. \A i \in Started : LaneCall(i)' = LaneCall(i)
    BY <1>2 DEF LaneCall
  <2> QED
    BY <1>1, <1>2, <2>1 DEF TableIInv, BodyInLane, Started
<1>7. \A j \in ids : ~(j > seq)
  BY <1>1, JobsAssumption DEF TableIInv, TableOK, Started, JobsAssumption
<1>8. StatusOfBody'
  BY <1>1, <1>2, <1>3, <1>7 DEF TableIInv, StatusOfBody, Finished
<1>9. CancelledOver' /\ UnfinishedKept'
  BY <1>1, <1>2, <1>3 DEF TableIInv, CancelledOver, UnfinishedKept, Finished, Started
<1> QED
  BY <1>4, <1>5, <1>6, <1>8, <1>9 DEF TableIInv

LEMMA ToolRequestTable == ASSUME IInv, NEW k \in Keys, ToolRequest(k) PROVE TableIInv'
<1>1. Lock!Request(k, FALSE) /\ UNCHANGED jobVars
  BY DEF ToolRequest
<1>2. PICK n : n = tail[k] + 1
  OBVIOUS
<1>3. /\ n \in 1 .. MaxCalls /\ ~JobAt(k, n) /\ call' = [call EXCEPT ![k][n] = "waiting"]
      /\ patient' = [patient EXCEPT ![k] = @]
  BY <1>1, <1>2, FreshPlace
<1>4. \A i \in Keys : patient[i] \subseteq patient'[i]
  BY <1>3, LaneTypes DEF IInv
<1> QED
  BY <1>1, <1>3, <1>4, OtherCall

LEMMA ToolStepTable ==
  ASSUME IInv, NEW k \in Keys, NEW n \in Lock!Tickets, ToolStep(k, n) PROVE TableIInv'
<1>1. PICK state : call' = [call EXCEPT ![k][n] = state]
  BY DEF ToolStep, Lock!Acquire, Lock!TimeOut, Lock!Forward, Lock!Finish
<1>2. n \in 1 .. MaxCalls /\ ~JobAt(k, n) /\ patient' = patient /\ UNCHANGED jobVars
  BY DEF ToolStep, Lock!Acquire, Lock!TimeOut, Lock!Forward, Lock!Finish, Lock!Tickets
<1> QED
  BY <1>1, <1>2, OtherCall

\* Every step of Jobs is a step of the lane, or none.
LEMMA StepOfLane == ASSUME IInv, [Next]_vars PROVE [Lane!Next]_lockVars
<1>t. \A j \in Started : at[j].key \in Keys /\ at[j].ticket \in Lock!Tickets
  BY DEF IInv, TableIInv, Placed, Lock!Tickets
<1>1. ASSUME NEW k \in Keys, NEW forever \in BOOLEAN, Lock!Request(k, forever) PROVE Lane!Next
  BY <1>1, SameLane DEF Lane!Next
<1>2. ASSUME NEW k \in Keys, NEW n \in Lock!Tickets,
             Lock!Acquire(k, n) \/ Lock!TimeOut(k, n) \/ Lock!Forward(k, n) \/ Lock!Finish(k, n)
      PROVE  Lane!Next
  BY <1>2, SameLane DEF Lane!Next
<1>3. ASSUME NEW k \in Keys, StartJob(k) \/ ToolRequest(k) PROVE Lane!Next
  BY <1>1, <1>3 DEF StartJob, ToolRequest
<1>4. ASSUME NEW k \in Keys, NEW n \in Lock!Tickets, ToolStep(k, n) PROVE Lane!Next
  BY <1>2, <1>4 DEF ToolStep
<1>5. ASSUME NEW j \in Started, BodyStart(j) \/ BodyEnd(j) PROVE Lane!Next
  BY <1>t, <1>2, <1>5 DEF BodyStart, BodyEnd
<1>6. ASSUME NEW j \in Started, Cancel(j) \/ \E result \in {"ok", "bad", "threw"} : RunEnds(j, result)
      PROVE  UNCHANGED lockVars
  BY <1>6 DEF Cancel, Abort, RunEnds
<1>7. ASSUME Shutdown \/ Exit \/ UNCHANGED vars PROVE UNCHANGED lockVars
  BY <1>7 DEF Shutdown, Abort, Exit, vars, lockVars
<1> QED
  BY <1>3, <1>4, <1>5, <1>6, <1>7 DEF Next

LEMMA NextIInv == IInv /\ [Next]_vars => IInv'
<1> SUFFICES ASSUME IInv, [Next]_vars PROVE IInv'
  OBVIOUS
<1>t. TableIInv /\ server \in {"up", "stopping", "exited"}
  BY DEF IInv, TableIInv, TableOK
<1>l. Lane!IInv'
  BY StepOfLane, LaneStep DEF IInv
<1> SUFFICES TableIInv'
  BY <1>l DEF IInv
<1>1. ASSUME NEW k \in Keys, StartJob(k) PROVE TableIInv'
  BY <1>1, StartJobTable
<1>2. ASSUME NEW k \in Keys, ToolRequest(k) PROVE TableIInv'
  BY <1>2, ToolRequestTable
<1>3. ASSUME NEW k \in Keys, NEW n \in Lock!Tickets, ToolStep(k, n) PROVE TableIInv'
  BY <1>3, ToolStepTable
<1>4. ASSUME NEW j \in Started, BodyStart(j) PROVE TableIInv'
  BY <1>4, BodyStartTable
<1>5. ASSUME NEW j \in Started, BodyEnd(j) PROVE TableIInv'
  BY <1>5, BodyEndTable
<1>6. ASSUME NEW j \in Started, Cancel(j) PROVE TableIInv'
  <2>1. {j} \in SUBSET {i \in kept : ~Finished(i)} /\ Abort({j}, "cancelled") /\ server' = server
    BY <1>6 DEF Cancel
  <2> QED
    BY <1>t, <2>1, AbortTable
<1>7. ASSUME NEW j \in Started, NEW result \in {"ok", "bad", "threw"}, RunEnds(j, result) PROVE TableIInv'
  BY <1>7, RunEndsTable
<1>8. CASE Shutdown
  BY <1>8, AbortTable DEF Shutdown
<1>9. CASE Exit \/ UNCHANGED vars
  <2>1. UNCHANGED <<call, patient, seq, kept, at, status, outcome, cancelled, body, killed>>
        /\ server' \in {"up", "stopping", "exited"}
    BY <1>t, <1>9 DEF Exit, vars, lockVars
  <2>2. \A i \in Started : LaneCall(i)' = LaneCall(i)
    BY <2>1 DEF LaneCall
  <2>3. TableOK' /\ Placed' /\ BodyInLane'
    BY <1>t, <2>1, <2>2 DEF TableIInv, TableOK, Placed, BodyInLane, Started
  <2>4. StatusOfBody' /\ CancelledOver' /\ UnfinishedKept'
    BY <1>t, <2>1 DEF TableIInv, StatusOfBody, CancelledOver, UnfinishedKept, Finished, Started
  <2> QED
    BY <2>3, <2>4 DEF TableIInv
<1> QED
  BY <1>1, <1>2, <1>3, <1>4, <1>5, <1>6, <1>7, <1>8, <1>9 DEF Next

LEMMA InvariantHolds == Spec => []IInv
  BY InitIInv, NextIInv, PTL DEF Spec

-----------------------------------------------------------------------------
\* The lane and the table keep their types, and a job reads "running" only while its
\* process may run.
THEOREM TypeCorrect == Spec => []JobsTypeOK
<1>1. IInv => JobsTypeOK
  BY SameLane DEF IInv, TableIInv, TableOK, StatusOfBody, JobsTypeOK, Lane!IInv
<1> QED
  BY <1>1, InvariantHolds, PTL

\* A process runs under the lease of its repository and beside nothing else there, and
\* one that a client reads as over was sent the kill.
THEOREM AttendedProcess == Spec => []ProcessAttended
<1>1. ASSUME IInv PROVE ProcessAttended
  <2> SUFFICES ASSUME NEW j \in Started, body[j] = "live"
               PROVE  Lock!In(at[j].key, "running") = {at[j].ticket} /\ (Finished(j) => j \in killed)
    BY DEF ProcessAttended
  <2>1. j \in JobIds /\ TableIInv /\ Lane!IInv
    BY <1>1, JobsAssumption DEF IInv, TableIInv, TableOK, Started, JobIds, JobsAssumption
  <2>2. Finished(j) => j \in killed
    BY <2>1 DEF TableIInv, StatusOfBody
  <2>3. at[j].key \in Keys /\ at[j].ticket \in 1 .. MaxCalls
    BY <2>1 DEF TableIInv, Placed
  <2>4. call[at[j].key][at[j].ticket] = "running"
    BY <2>1 DEF TableIInv, BodyInLane, LaneCall
  <2>5. Lock!In(at[j].key, "running") = {at[j].ticket}
    BY <2>1, <2>3, <2>4, LaneTypes DEF Lock!In, Lock!Tickets
  <2> QED
    BY <2>2, <2>5
<1> QED
  BY <1>1, InvariantHolds, PTL

\* No unfinished job is pruned, nor has left its lane.
THEOREM NothingPruned == Spec => []UnfinishedInReach
<1>1. ASSUME IInv PROVE UnfinishedInReach
  BY <1>1, JobsAssumption
     DEF IInv, TableIInv, TableOK, UnfinishedKept, BodyInLane, StatusOfBody, UnfinishedInReach, Started, JobIds,
         JobsAssumption
<1> QED
  BY <1>1, InvariantHolds, PTL

\* What a client read of a finished job is final.
THEOREM FinishedForGood == Spec => FinalIsFinal
<1> DEFINE Final == \A j \in JobIds : Finished(j) => status'[j] = status[j] /\ outcome'[j] = outcome[j]
<1>1. ASSUME IInv, [Next]_vars PROVE [Final]_vars
  <2> SUFFICES ASSUME Next PROVE Final
    BY <1>1
  <2>t. TableIInv
    BY <1>1 DEF IInv
  <2>1. CASE UNCHANGED <<status, outcome>>
    BY <2>1
  <2>2. ASSUME NEW k \in Keys, StartJob(k) PROVE Final
    <3>1. \A j \in JobIds : Finished(j) => j # seq + 1
      BY <2>t, JobsAssumption DEF TableIInv, TableOK, StatusOfBody, Finished, JobIds, JobsAssumption
    <3> QED
      BY <2>t, <2>2, <3>1 DEF StartJob, TableIInv, TableOK
  <2>3. ASSUME NEW k \in Keys, ToolRequest(k) PROVE Final
    BY <2>3 DEF ToolRequest, jobVars
  <2>4. ASSUME NEW k \in Keys, NEW n \in Lock!Tickets, ToolStep(k, n) PROVE Final
    BY <2>4 DEF ToolStep, jobVars
  <2>5. ASSUME NEW j \in Started, BodyStart(j) PROVE Final
    BY <2>t, <2>5 DEF BodyStart, TableIInv, TableOK
  <2>6. ASSUME NEW j \in Started, BodyEnd(j) PROVE Final
    BY <2>6 DEF BodyEnd, jobVars
  <2>7. ASSUME NEW j \in Started, Cancel(j) PROVE Final
    BY <2>7 DEF Cancel, Abort
  <2>8. ASSUME NEW j \in Started, NEW result \in {"ok", "bad", "threw"}, RunEnds(j, result) PROVE Final
    <3>1. Finished(j) /\ j \in JobIds => j \in cancelled
      BY <2>t, <2>8 DEF RunEnds, TableIInv, StatusOfBody
    <3> QED
      BY <2>t, <2>8, <3>1 DEF RunEnds, TableIInv, TableOK
  <2>9. CASE Shutdown
    BY <2>9 DEF Shutdown, Abort
  <2>10. CASE Exit
    BY <2>10 DEF Exit
  <2> QED
    BY <2>1, <2>2, <2>3, <2>4, <2>5, <2>6, <2>7, <2>8, <2>9, <2>10 DEF Next
<1>2. FinalIsFinal <=> [][Final]_vars
  BY DEF FinalIsFinal
<1> QED
  BY <1>1, <1>2, InvariantHolds, PTL DEF Spec
=============================================================================
