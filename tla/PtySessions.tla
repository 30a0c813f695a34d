---------------------------- MODULE PtySessions -----------------------------
(***************************************************************************)
(* The life of interactive terminals, src/src/ptySessions.ts: a table of   *)
(* sessions, each a shell process that ends when it wants, when a client   *)
(* closes it, when the cleanup timer finds it idle or too old, or when the *)
(* server shuts down.  What the terminals print is modelled in PtyBuffer.  *)
(* terminal_start (src/src/tools/pty.ts) starts them under the lane of     *)
(* their one repository and, with PTY_HOLD_LOCK, keeps the lane.           *)
(*                                                                         *)
(* The operating system may report the end of a shell at any time after    *)
(* the start, late, or never; pty.kill() may throw.                        *)
(***************************************************************************)
EXTENDS Naturals, FiniteSets

CONSTANTS
  PTY_MAX_SESSIONS,  \* sessions that may run at once
  RetainFactor,      \* records retained per running session: 4 in the code
  StartBound,        \* bound: sessions started in all
  Clients            \* clients that call terminal_close

ASSUME PtyAssumption ==
  PTY_MAX_SESSIONS \in Nat \ {0} /\ RetainFactor \in Nat \ {0} /\ StartBound \in Nat

Ids         == 1 .. StartBound
MaxRetained == RetainFactor * PTY_MAX_SESSIONS

VARIABLES
  started,   \* sessions started so far; ids are 1 .. started
  sessions,  \* the ids in the `sessions` map
  status,    \* status[s]   : view.status ("none" before the start)
  shell,     \* shell[s]    : the process: "none", "alive", "gone" (its end was reported)
  sigkill,   \* the sessions whose shell was sent SIGKILL by the close timer
  armed,     \* the sessions whose closeTimer is armed
  done,      \* the sessions whose `done` promise is resolved
  closing,   \* closing[c]  : the session client c awaits the end of, 0 for none
  hold,      \* PTY_HOLD_LOCK, set once and for all
  lease      \* the session that keeps the lane, 0 for none

laneVars == <<hold, lease>>
ptyVars == <<started, sessions, status, shell, sigkill, armed, done, closing, laneVars>>

Status == {"none", "running", "closing", "exited", "closed"}
Over   == {"exited", "closed"}
Active(s) == status[s] \in {"running", "closing"}

\* The close timer is armed exactly while a session is closing, and `done` is resolved
\* exactly for the sessions that are over: whoever awaits it (a closing client, the
\* lease of a session) neither returns early nor sleeps through the end.
SessionsTypeOK ==
  /\ started \in 0 .. StartBound
  /\ sessions \in SUBSET (1 .. started)
  /\ status \in [Ids -> Status]
  /\ shell \in [Ids -> {"none", "alive", "gone"}]
  /\ sigkill \in SUBSET Ids
  /\ armed = {s \in Ids : status[s] = "closing"}
  /\ done = {s \in Ids : status[s] \in Over}
  /\ closing \in [Clients -> 0 .. StartBound]
  /\ hold \in BOOLEAN /\ lease \in 0 .. started /\ (lease # 0 => hold)

Init ==
  /\ started = 0 /\ sessions = {} /\ sigkill = {} /\ armed = {} /\ done = {}
  /\ status  = [s \in Ids |-> "none"]
  /\ shell   = [s \in Ids |-> "none"]
  /\ closing = [c \in Clients |-> 0]
  /\ hold \in BOOLEAN /\ lease = 0

-----------------------------------------------------------------------------
\* Fault: any session may go.
PrunesAny(dropped) ==
  /\ dropped \subseteq sessions
  /\ Cardinality(dropped) = IF Cardinality(sessions) < MaxRetained THEN 0 ELSE 1

\* pruneFinished: finished sessions go, least recently used first, until there is
\* room for one more.  The order of use is left open: any of them may be the oldest.
Prunes(dropped) ==
  LET over == {s \in sessions : status[s] \in Over}
      need == IF Cardinality(sessions) < MaxRetained
              THEN 0 ELSE Cardinality(sessions) - MaxRetained + 1
  IN  /\ dropped \subseteq over
      /\ Cardinality(dropped) = IF need < Cardinality(over) THEN need ELSE Cardinality(over)

\* runningCount
RunningCount(ids) == Cardinality({s \in ids : Active(s)})

\* terminalStart, under the lane, and startPtySession.  The pruning stays when the
\* limit or the spawn refuses.
Start ==
  /\ lease = 0 /\ lease' = IF hold THEN started + 1 ELSE 0
  /\ \E dropped \in SUBSET sessions :
       /\ Prunes(dropped)
       /\ RunningCount(sessions \ dropped) < PTY_MAX_SESSIONS /\ started < StartBound
       /\ started'  = started + 1
       /\ sessions' = (sessions \ dropped) \cup {started + 1}
       /\ status'   = [status EXCEPT ![started + 1] = "running"]
       /\ shell'    = [shell EXCEPT ![started + 1] = "alive"]
       /\ UNCHANGED <<sigkill, armed, done, closing, hold>>

StartRefused ==
  /\ lease = 0
  /\ \E dropped \in SUBSET sessions : Prunes(dropped) /\ sessions' = sessions \ dropped
  /\ UNCHANGED <<started, status, shell, sigkill, armed, done, closing, laneVars>>

\* `await waitForPtySession` in the lane.
LeaseEnds ==
  /\ lease # 0 /\ lease \in done
  /\ lease' = 0
  /\ UNCHANGED <<started, sessions, status, shell, sigkill, armed, done, closing, hold>>

\* Fault: onExit does not resolve `done`.
ExitEventSilent(s) ==
  /\ shell[s] = "alive"
  /\ shell'  = [shell EXCEPT ![s] = "gone"]
  /\ armed'  = armed \ {s}
  /\ status' = [status EXCEPT ![s] = IF @ = "closing" THEN "closed" ELSE "exited"]
  /\ UNCHANGED <<started, sessions, sigkill, done, closing, laneVars>>

\* Fault: the exit leaves the close timer armed.
ExitEventTimerLeft(s) ==
  /\ shell[s] = "alive"
  /\ shell'  = [shell EXCEPT ![s] = "gone"]
  /\ status' = [status EXCEPT ![s] = IF @ = "closing" THEN "closed" ELSE "exited"]
  /\ done'   = done \cup {s}
  /\ UNCHANGED <<started, sessions, sigkill, armed, closing, laneVars>>

\* pty.onExit: also after the close timer has given the session up.
ExitEvent(s) ==
  /\ shell[s] = "alive"
  /\ shell'  = [shell EXCEPT ![s] = "gone"]
  /\ armed'  = armed \ {s}
  /\ status' = [status EXCEPT ![s] = IF @ = "closing" THEN "closed" ELSE "exited"]
  /\ done'   = done \cup {s}
  /\ UNCHANGED <<started, sessions, sigkill, closing, laneVars>>

\* The part of closePtySession shared by its callers, for sessions whose pty.kill()
\* succeeds.  When it throws, the status is put back and nothing has changed.
BeginClose(ids) ==
  LET fresh == {s \in ids : status[s] = "running"} IN
  /\ status' = [s \in Ids |-> IF s \in fresh THEN "closing" ELSE status[s]]
  /\ armed'  = armed \cup fresh

\* terminal_close by a client: of a running session, or joining a close under way.
Close(c, s) ==
  /\ closing[c] = 0 /\ s \in sessions /\ Active(s)
  /\ BeginClose({s})
  /\ closing' = [closing EXCEPT ![c] = s]
  /\ UNCHANGED <<started, sessions, shell, sigkill, done, laneVars>>

\* `await rec.done` of closePtySession.
CloseReturns(c) ==
  /\ closing[c] # 0 /\ closing[c] \in done
  /\ closing' = [closing EXCEPT ![c] = 0]
  /\ UNCHANGED <<started, sessions, status, shell, sigkill, armed, done, laneVars>>

\* Five seconds after pty.kill() without an exit event: SIGKILL, and end the session.
CloseTimer(s) ==
  /\ s \in armed
  /\ armed' = armed \ {s}
  /\ IF status[s] # "closing"
     THEN UNCHANGED <<status, sigkill, done>>
     ELSE /\ sigkill' = sigkill \cup {s}
          /\ status'  = [status EXCEPT ![s] = "closed"]
          /\ done'    = done \cup {s}
  /\ UNCHANGED <<started, sessions, shell, closing, laneVars>>

\* One tick of cleanupTimer: idle finished sessions are forgotten, idle or aged
\* running ones are closed.
Cleanup ==
  \E idle \in SUBSET {s \in sessions : status[s] \in Over},
     aged \in SUBSET {s \in sessions : status[s] = "running"} :
    /\ idle \cup aged # {}
    /\ sessions' = sessions \ idle
    /\ BeginClose(aged)
    /\ UNCHANGED <<started, shell, sigkill, done, closing, laneVars>>

\* killAllPtySessions, at shutdown; pty.kill() may throw for some.
KillAll ==
  \E ids \in SUBSET {s \in sessions : status[s] = "running"} :
    /\ ids # {}
    /\ BeginClose(ids)
    /\ UNCHANGED <<started, sessions, shell, sigkill, done, closing, laneVars>>

Next ==
  \/ Start \/ StartRefused \/ LeaseEnds \/ Cleanup \/ KillAll
  \/ \E s \in Ids : ExitEvent(s) \/ CloseTimer(s)
  \/ \E c \in Clients : CloseReturns(c) \/ \E s \in Ids : Close(c, s)

(***************************************************************************)
(* Armed timers fire and continuations run.  Nothing is assumed of the     *)
(* shells: an exit event may never come.                                   *)
(***************************************************************************)
Fairness ==
  /\ \A s \in Ids : WF_ptyVars(CloseTimer(s))
  /\ \A c \in Clients : WF_ptyVars(CloseReturns(c))
  /\ WF_ptyVars(LeaseEnds)

Spec == Init /\ [][Next]_ptyVars /\ Fairness

-----------------------------------------------------------------------------
\* Every shell is accounted for: while its end was not reported, its session can be
\* found and closed, or has been sent SIGKILL; at most PTY_MAX_SESSIONS shells live
\* without SIGKILL, whether or not they are in the table, and the table has at most
\* RetainFactor times as many records.  With PTY_HOLD_LOCK nobody is let into the
\* repository beside such a shell.
Unkilled == {s \in Ids : shell[s] = "alive" /\ s \notin sigkill}
ShellsAccounted ==
  /\ \A s \in Unkilled : s \in sessions /\ Active(s)
  /\ Cardinality(Unkilled) <= PTY_MAX_SESSIONS
  /\ Cardinality(sessions) <= MaxRetained
  /\ hold => \A s \in Unkilled : lease = s

\* terminal_close returns, although the shell may ignore the hang-up and the exit
\* event may never come; and a session that is being closed, or is over, gives the
\* lane back ("instead of deadlocking the repo forever", ptySessions.ts:368).
CloseEnds ==
  /\ \A c \in Clients : closing[c] # 0 ~> closing[c] = 0
  /\ lease \in {s \in Ids : status[s] # "running"} ~> lease = 0
=============================================================================
