------------------------------ MODULE ExecRun -------------------------------
(***************************************************************************)
(* One call of run() in src/src/exec.ts: a child process, three timers and *)
(* four event handlers race to settle one promise.                         *)
(*                                                                         *)
(* The environment is the operating system: the child may exit at any time *)
(* or never, before or after it was killed; its pipes close when the last  *)
(* process that holds them (a grandchild, perhaps) lets go, or when the    *)
(* server destroys its own ends.  Node emits "close" after "exit" (or      *)
(* after a failed spawn) once the pipes are closed.                        *)
(***************************************************************************)
EXTENDS Integers

CONSTANTS
  MaxOutput,   \* the capture limit, in chunks of output
  MaxSeen      \* bound: chunks of output the child writes

ASSUME OutputAssumption == MaxOutput \in Nat /\ MaxSeen \in Nat

NoCode    == -2                     \* JavaScript's null: no code seen, or ended by a signal
ExitCodes == {0, 1, NoCode}
Pending   == [kind |-> "pending"]
Result    == [kind : {"value"}, code : ExitCodes \cup {-1}, timedOut : BOOLEAN,
              truncated : BOOLEAN, seen : 0 .. MaxSeen]
Rejection == [kind |-> "rejected"]

VARIABLES
  child,      \* the process: not spawned, alive, ended, or never came to life
  exitCode,   \* the code its exit event carried
  pipesOpen,  \* stdout and stderr can still deliver data
  closed,     \* "close" was emitted
  timers,     \* the armed timers: "limit" (timeoutMs), "grace" (1500 ms), "drain" (500 ms)
  timedOut,   \* the flag of the same name
  settled,    \* what the promise settled with
  seen,       \* outputBytesSeen
  captured,   \* capturedBytes
  killing     \* killTree was called: "no", "inTime", or "late" (after the promise settled)

runVars == <<child, exitCode, pipesOpen, closed, timers, timedOut, settled, seen, captured, killing>>

RunTypeOK ==
  /\ child \in {"none", "alive", "ended", "failed"}
  /\ exitCode \in ExitCodes
  /\ pipesOpen \in BOOLEAN /\ closed \in BOOLEAN /\ timedOut \in BOOLEAN
  /\ timers \in SUBSET {"limit", "grace", "drain"}
  /\ settled \in {Pending, Rejection} \cup Result
  /\ seen \in 0 .. MaxSeen /\ captured \in 0 .. MaxOutput
  /\ killing \in {"no", "inTime", "late"}

RunInit ==
  /\ child = "none" /\ exitCode = NoCode /\ pipesOpen = FALSE /\ closed = FALSE
  /\ timers = {} /\ timedOut = FALSE /\ settled = Pending
  /\ seen = 0 /\ captured = 0 /\ killing = "no"

-----------------------------------------------------------------------------
\* Fault: the promise settles and the run timer stays armed.
FinishKeepingTimers(code, late) ==
  IF settled # Pending
  THEN UNCHANGED settled /\ timers' = late
  ELSE /\ settled' = [kind |-> "value", code |-> code, timedOut |-> timedOut,
                      truncated |-> seen > captured, seen |-> seen]
       /\ timers' = late

\* finish(code): the first call settles the promise and disarms the timers it
\* knows of; `late` is what stays armed besides those.
Finish(code, late) ==
  IF settled # Pending
  THEN UNCHANGED settled /\ timers' = late
  ELSE /\ settled' = [kind |-> "value", code |-> code, timedOut |-> timedOut,
                      truncated |-> seen > captured, seen |-> seen]
       /\ timers' = late \ {"limit", "drain"}

\* killTree(p): both pipe ends of the server are destroyed, the group is signalled.
KillTree ==
  /\ pipesOpen' = FALSE
  /\ killing' = IF settled = Pending THEN "inTime" ELSE "late"

\* run() throws before it spawns: empty argv, missing cwd, arguments refused.
Refuse ==
  /\ child = "none" /\ settled = Pending
  /\ settled' = Rejection
  /\ UNCHANGED <<child, exitCode, pipesOpen, closed, timers, timedOut, seen, captured, killing>>

\* The executor of the promise: spawn, handlers, the run timer.
Spawn ==
  /\ child = "none" /\ settled = Pending
  /\ child' = "alive" /\ pipesOpen' = TRUE /\ timers' = {"limit"}
  /\ UNCHANGED <<exitCode, closed, timedOut, settled, seen, captured, killing>>

\* Fault: the limit is compared after the chunk was kept.
CaptureAll(n) == n + 1

\* capture(): output beyond the limit is counted and dropped.
Capture(n) == IF n < MaxOutput THEN n + 1 ELSE n

Data ==
  /\ child \in {"alive", "ended"} /\ pipesOpen /\ seen < MaxSeen
  /\ seen' = seen + 1
  /\ captured' = Capture(captured)
  /\ UNCHANGED <<child, exitCode, pipesOpen, closed, timers, timedOut, settled, killing>>

\* The last holder of the pipes closes them.
PipesEnd ==
  /\ pipesOpen
  /\ pipesOpen' = FALSE
  /\ UNCHANGED <<child, exitCode, closed, timers, timedOut, settled, seen, captured, killing>>

\* "error": the spawn failed.
ErrorEvent ==
  /\ child = "alive" /\ exitCode = NoCode
  /\ child' = "failed" /\ pipesOpen' = FALSE
  /\ IF settled # Pending
     THEN UNCHANGED <<settled, timers>>
     ELSE settled' = Rejection /\ timers' = timers \ {"limit", "drain"}
  /\ UNCHANGED <<exitCode, closed, timedOut, seen, captured, killing>>

\* "exit": the code is kept and the pipes get half a second to drain.
ChildExit(code) ==
  /\ child = "alive"
  /\ child' = "ended" /\ exitCode' = code
  /\ timers' = timers \cup {"drain"}
  /\ UNCHANGED <<pipesOpen, closed, timedOut, settled, seen, captured, killing>>

\* "close".
CloseEvent ==
  /\ child \in {"ended", "failed"} /\ ~pipesOpen /\ ~closed
  /\ closed' = TRUE
  /\ Finish(exitCode, timers)
  /\ UNCHANGED <<child, exitCode, pipesOpen, timedOut, seen, captured, killing>>

\* The time limit: kill the tree, give the events 1.5 s.
LimitTimer ==
  /\ "limit" \in timers
  /\ timedOut' = TRUE
  /\ timers' = (timers \ {"limit"}) \cup {"grace"}
  /\ KillTree
  /\ UNCHANGED <<child, exitCode, closed, settled, seen, captured>>

\* Fault: a code that was never seen counts as zero.
CodeOrZero(code) == IF code = NoCode THEN 0 ELSE code

\* exitCode ?? -1
CodeOrFailure(code) == IF code = NoCode THEN -1 ELSE code

\* 1.5 s after the limit: settle with whatever is known.
GraceTimer ==
  /\ "grace" \in timers
  /\ pipesOpen' = FALSE
  /\ Finish(CodeOrFailure(exitCode), timers \ {"grace"})
  /\ UNCHANGED <<child, exitCode, closed, timedOut, seen, captured, killing>>

\* Fault: nobody waits for a "close" that never comes.
DrainTimerIdle ==
  /\ "drain" \in timers
  /\ timers' = timers \ {"drain", "limit"}
  /\ UNCHANGED <<child, exitCode, pipesOpen, closed, timedOut, settled, seen, captured, killing>>

\* Half a second after "exit": a grandchild still holds the pipes; settle anyway.
DrainTimer ==
  /\ "drain" \in timers
  /\ pipesOpen' = FALSE
  /\ Finish(exitCode, timers \ {"drain"})
  /\ UNCHANGED <<child, exitCode, closed, timedOut, seen, captured, killing>>

\* cancelJob or killRunningJobs through the handle onSpawn published; jobs.ts drops
\* the handle when the promise settles.
Cancel ==
  /\ child # "none" /\ settled = Pending
  /\ KillTree
  /\ UNCHANGED <<child, exitCode, closed, timers, timedOut, settled, seen, captured>>

RunNext ==
  \/ Refuse \/ Spawn \/ Data \/ PipesEnd
  \/ ErrorEvent \/ (\E code \in ExitCodes : ChildExit(code)) \/ CloseEvent
  \/ LimitTimer \/ GraceTimer \/ DrainTimer \/ Cancel

(***************************************************************************)
(* Armed timers fire (the HTTP server keeps the event loop alive, so       *)
(* .unref() changes nothing).  Nothing is assumed of the operating system: *)
(* the child may never exit and the pipes may never close.                 *)
(***************************************************************************)
RunFairness == WF_runVars(LimitTimer) /\ WF_runVars(GraceTimer) /\ WF_runVars(DrainTimer)

RunSpec == RunInit /\ [][RunNext]_runVars /\ RunFairness

-----------------------------------------------------------------------------
\* The promise settles, and so releases the repository, even if the child survives
\* SIGKILL or a grandchild keeps the pipes open for ever.
SpawnedRunSettles == child = "alive" ~> settled # Pending

\* The kill comes in time: a run that ended while its process may still be alive was
\* killed first, so that the repository is not handed on with an unattended child;
\* and once the promise has settled no timer kills, for the pid may belong to another
\* process by then.
KilledInTime ==
  /\ settled # Pending /\ child = "alive" => killing = "inTime" /\ timedOut
  /\ killing # "late"

\* The result is what happened.  Code 0 is the code of a child that exited with 0: no
\* race of a timeout, a signal and a late event turns another end into success.  The
\* report of the output counts every chunk that reached the server, also after the
\* promise settled, and admits the dropped ones.
ResultIsReal ==
  settled.kind = "value" =>
    /\ settled.code = 0 => child = "ended" /\ exitCode = 0
    /\ settled.seen = seen
    /\ settled.truncated <=> seen > MaxOutput
=============================================================================
