---------------------------- MODULE AgentSession ----------------------------
(***************************************************************************)
(* One conversation with the sub-agent, src/src/antigravity/cli.ts: every  *)
(* turn (antigravity_spawn, antigravity_reply) is a process of the CLI     *)
(* whose handlers write into one shared record, and antigravity_stop kills *)
(* the process the record names.                                           *)
(*                                                                         *)
(* The environment is the CLI: it prints its conversation id soon, late or *)
(* never, a result event or none, and its exit and close events are apart. *)
(***************************************************************************)
EXTENDS Naturals, FiniteSets

CONSTANTS
  Callers,     \* clients that start, continue or stop the conversation
  TurnBound    \* bound: processes spawned in all

ASSUME TurnAssumption == TurnBound \in Nat

Turns == 1 .. TurnBound

VARIABLES
  turns,      \* processes spawned so far
  proc,       \* proc[t]  : "none", "alive", "exited", "failed", "closed"
  signalled,  \* the turns whose process was killed by the server
  named,      \* live.id is known
  known,      \* the record is in the `sessions` map
  handle,     \* live.proc, as the turn it belongs to; 0 when it is deleted
  status,     \* live.status
  sawResult,  \* live.sawResult
  at,         \* at[c]    : where caller c is: "idle", "starting", "waiting"
  wiped       \* history: the turns whose handle the close event of another deleted

agentVars == <<turns, proc, signalled, named, known, handle, status, sawResult, at, wiped>>

\* A conversation is registered only under a real id.
TypeOK ==
  /\ turns \in 0 .. TurnBound
  /\ proc \in [Turns -> {"none", "alive", "exited", "failed", "closed"}]
  /\ signalled \in SUBSET (1 .. turns) /\ wiped \in SUBSET (1 .. turns)
  /\ named \in BOOLEAN /\ known \in BOOLEAN /\ sawResult \in BOOLEAN
  /\ known => named
  /\ handle \in 0 .. turns
  /\ status \in {"none", "running", "result", "SUCCESS", "ERROR", "CANCELED"}
  /\ at \in [Callers -> {"idle", "starting", "waiting"}]

Init ==
  /\ turns = 0 /\ proc = [t \in Turns |-> "none"] /\ signalled = {}
  /\ named = FALSE /\ known = FALSE /\ handle = 0
  /\ status = "none" /\ sawResult = FALSE
  /\ at = [c \in Callers |-> "idle"] /\ wiped = {}

-----------------------------------------------------------------------------
\* From the reset of the record to the spawn, and the "error" event that follows at
\* once when the spawn failed.
Spawn ==
  /\ turns < TurnBound
  /\ turns'     = turns + 1
  /\ sawResult' = FALSE
  /\ \/ /\ proc'   = [proc EXCEPT ![turns + 1] = "alive"]
        /\ handle' = turns + 1
        /\ status' = "running"
     \/ /\ proc'   = [proc EXCEPT ![turns + 1] = "failed"]
        /\ handle' = 0
        /\ status' = "ERROR"

\* startRun of a new conversation, up to the wait for its id.
StartNew(c) ==
  /\ at[c] = "idle" /\ turns = 0
  /\ Spawn
  /\ at' = [at EXCEPT ![c] = "starting"]
  /\ UNCHANGED <<signalled, named, known, wiped>>

\* Fault: the conversation is registered before its id is known.
RegisterEarly(c) ==
  /\ at[c] = "starting"
  /\ known' = TRUE
  /\ at' = [at EXCEPT ![c] = "idle"]
  /\ UNCHANGED <<turns, proc, signalled, named, handle, status, sawResult, wiped>>

\* The wait for the id ends: the conversation is registered.
Register(c) ==
  /\ at[c] = "starting" /\ named
  /\ known' = TRUE
  /\ at' = [at EXCEPT ![c] = "idle"]
  /\ UNCHANGED <<turns, proc, signalled, named, handle, status, sawResult, wiped>>

\* Fault: the process that never printed an id is left to itself.
StartFailsLenient(c) ==
  /\ at[c] = "starting" /\ ~named
  /\ at' = [at EXCEPT ![c] = "idle"]
  /\ UNCHANGED <<turns, proc, signalled, named, known, handle, status, sawResult, wiped>>

\* No id before the deadline, or the process is gone: it is killed, the call throws.
StartFails(c) ==
  /\ at[c] = "starting" /\ ~named
  /\ signalled' = signalled \cup {1}
  /\ at' = [at EXCEPT ![c] = "idle"]
  /\ UNCHANGED <<turns, proc, named, known, handle, status, sawResult, wiped>>

\* No process is named, or the one that is has exited or was killed.
MayReply == \A t \in Turns : t = handle => proc[t] # "alive" \/ t \in signalled

\* antigravity_reply finds a turn that still runs and waits up to three seconds.
ReplyWaits(c) ==
  /\ at[c] = "idle" /\ known /\ ~MayReply
  /\ at' = [at EXCEPT ![c] = "waiting"]
  /\ UNCHANGED <<turns, proc, signalled, named, known, handle, status, sawResult, wiped>>

\* antigravity_reply starts the next turn, at once or after a wait.
Reply(c) ==
  /\ at[c] \in {"idle", "waiting"} /\ known /\ MayReply
  /\ Spawn
  /\ at' = [at EXCEPT ![c] = "idle"]
  /\ UNCHANGED <<signalled, named, known, wiped>>

\* The three seconds are over: the call throws.
ReplyRefused(c) ==
  /\ at[c] = "waiting" /\ ~MayReply
  /\ at' = [at EXCEPT ![c] = "idle"]
  /\ UNCHANGED <<turns, proc, signalled, named, known, handle, status, sawResult, wiped>>

\* antigravity_stop.
Stop ==
  /\ known
  /\ signalled' = signalled \cup ({handle} \ {0})
  /\ handle' = 0
  /\ status' = "CANCELED"
  /\ UNCHANGED <<turns, proc, named, known, sawResult, at, wiped>>

-----------------------------------------------------------------------------
\* The first line with the conversation id on stdout of turn t.
InitLine(t) ==
  /\ proc[t] \in {"alive", "exited"} /\ ~named
  /\ named' = TRUE
  /\ UNCHANGED <<turns, proc, signalled, known, handle, status, sawResult, at, wiped>>

\* A result event on stdout of turn t.
ResultLine(t) ==
  /\ proc[t] \in {"alive", "exited"} 
  /\ sawResult' = TRUE /\ status' = "result"
  /\ UNCHANGED <<turns, proc, signalled, named, known, handle, at, wiped>>

\* The process of turn t ends; its pipes may still hold output.
Exit(t) ==
  /\ proc[t] = "alive"
  /\ proc' = [proc EXCEPT ![t] = "exited"]
  /\ UNCHANGED <<turns, signalled, named, known, handle, status, sawResult, at, wiped>>

\* Fault: a turn that ends without a result keeps its status.
CloseQuietly(t) ==
  /\ proc[t] \in {"exited", "failed"}
  /\ proc'   = [proc EXCEPT ![t] = "closed"]
  /\ handle' = 0 /\ wiped' = wiped \cup ({handle} \ {0, t})
  /\ UNCHANGED <<status, turns, signalled, named, known, sawResult, at>>

\* "close" of turn t: whatever turn the record is in by now.
Close(t) ==
  /\ proc[t] \in {"exited", "failed"}
  /\ proc'   = [proc EXCEPT ![t] = "closed"]
  /\ handle' = 0 /\ wiped' = wiped \cup ({handle} \ {0, t})
  /\ IF sawResult THEN UNCHANGED status ELSE status' \in {"SUCCESS", "ERROR"}
  /\ UNCHANGED <<turns, signalled, named, known, sawResult, at>>

Next ==
  \/ \E c \in Callers :
       \/ StartNew(c) \/ Register(c) \/ StartFails(c)
       \/ ReplyWaits(c) \/ Reply(c) \/ ReplyRefused(c)
  \/ Stop
  \/ \E t \in Turns : InitLine(t) \/ ResultLine(t) \/ Exit(t) \/ Close(t)

(***************************************************************************)
(* The processes end (each is started with --print-timeout) and their      *)
(* close events come.  Nothing is assumed of the clients.                  *)
(***************************************************************************)
Fairness == \A t \in Turns : WF_agentVars(Exit(t)) /\ WF_agentVars(Close(t))

Spec == Init /\ [][Next]_agentVars /\ Fairness

-----------------------------------------------------------------------------
\* A live process that the server did not kill is in reach when antigravity_stop would
\* kill it, or when the call that started it is still on its way.
InReach(t) == handle = t /\ (known \/ \E c \in Callers : at[c] = "starting")

\* "hoi thoai ... dang chay - doi no ket thuc luot roi hay gui tiep" (cli.ts:408) and
\* "Dung ngay 1 Sub-agent Antigravity dang chay" (tools/index.ts:182): no agent runs out of
\* reach of the one and unseen by the other.  The code does otherwise: "close" deletes
\* whatever process the record names by then (cli.ts:466).
AgentInReach == \A t \in Turns : proc[t] = "alive" /\ t \notin signalled => InReach(t)

\* That is the one way to lose an agent: whatever is stopped, refused, fails to start,
\* waits or replies meanwhile, a live process that was not killed is in reach unless the
\* close event of another turn came while the record named it.
StrayOnlyByLateClose ==
  \A t \in Turns : proc[t] = "alive" /\ t \notin signalled /\ t \notin wiped => InReach(t)

\* A poller is not left waiting: a conversation that reads "running" stops doing so.
TurnSettles == status = "running" ~> status # "running"
=============================================================================
