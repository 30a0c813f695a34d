------------------------ MODULE AgentSessionProofs -------------------------
(***************************************************************************)
(* Theorems about AgentSession, for any number of clients and of turns.    *)
(***************************************************************************)
EXTENDS AgentSession, TLAPS

Starting(c) == at[c] = "starting"

\* A conversation is started once, by one client, and is not registered meanwhile.
StartedOnce ==
  /\ \A t \in Turns : t > turns => proc[t] = "none"
  /\ known => turns >= 1
  /\ \A c \in Callers : Starting(c) => turns = 1 /\ ~known
  /\ \A c, d \in Callers : Starting(c) /\ Starting(d) => c = d

\* While the start is on its way, or when it succeeded, the process that the record
\* names was not killed.
NamedIsWanted == known \/ (\E c \in Callers : Starting(c)) => handle \notin signalled

\* Types, and who the record belongs to.
Base == TypeOK /\ StartedOnce /\ NamedIsWanted

\* The inductive invariant.
IInv == Base /\ StrayOnlyByLateClose

-----------------------------------------------------------------------------
LEMMA InitBase == Init => Base
<1> SUFFICES ASSUME Init PROVE Base
  OBVIOUS
<1>1. turns = 0 /\ handle = 0 /\ signalled = {} /\ wiped = {} /\ known = FALSE /\ TurnBound \in Nat
  BY TurnAssumption DEF Init, TurnAssumption
<1>2. at \in [Callers -> {"idle", "starting", "waiting"}] /\ \A c \in Callers : ~Starting(c)
  BY DEF Init, Starting
<1>3. proc \in [Turns -> {"none", "alive", "exited", "failed", "closed"}]
      /\ \A t \in Turns : proc[t] = "none"
  BY DEF Init
<1>4. status = "none" /\ sawResult = FALSE /\ named = FALSE
  BY DEF Init
<1>5. TypeOK
  <2>1. turns \in 0 .. TurnBound /\ handle \in 0 .. turns
    BY <1>1
  <2>2. signalled \in SUBSET (1 .. turns) /\ wiped \in SUBSET (1 .. turns)
    BY <1>1
  <2>3. named \in BOOLEAN /\ known \in BOOLEAN /\ sawResult \in BOOLEAN /\ (known => named)
    BY <1>1, <1>4
  <2>4. status \in {"none", "running", "result", "SUCCESS", "ERROR", "CANCELED"}
    BY <1>4
  <2> QED
    BY <1>2, <1>3, <2>1, <2>2, <2>3, <2>4 DEF TypeOK
<1> QED
  BY <1>1, <1>2, <1>3, <1>5 DEF Base, StartedOnce, NamedIsWanted

LEMMA BoundsOfTurns ==
  ASSUME TypeOK PROVE turns \in Nat /\ TurnBound \in Nat /\ handle \in Nat /\ handle <= turns
  BY TurnAssumption DEF TypeOK, TurnAssumption

\* A process is spawned: it is the turn after the last.
LEMMA SpawnStep ==
  ASSUME TypeOK, Spawn
  PROVE  /\ turns' = turns + 1 /\ turns + 1 \in Turns /\ handle' \in {0, turns + 1}
         /\ proc' \in [Turns -> {"none", "alive", "exited", "failed", "closed"}]
         /\ \A t \in Turns : t # turns + 1 => proc'[t] = proc[t]
         /\ proc'[turns + 1] = "alive" => handle' = turns + 1
         /\ status' \in {"running", "ERROR"} /\ sawResult' = FALSE
         /\ handle' \notin signalled
<1>1. turns + 1 \in Turns
  BY BoundsOfTurns DEF Spawn, Turns
<1>2. 0 \notin signalled /\ turns + 1 \notin signalled
  BY BoundsOfTurns DEF TypeOK
<1> QED
  BY <1>1, <1>2 DEF Spawn, TypeOK

LEMMA SpawnBase ==
  ASSUME Base, Spawn, NEW c \in Callers, UNCHANGED <<signalled, named, known, wiped>>,
         \/ StartNew(c)
         \/ known /\ at' = [at EXCEPT ![c] = "idle"]
  PROVE  Base'
<1>1. TypeOK /\ StartedOnce /\ NamedIsWanted
  BY DEF Base
<1>2. TypeOK'
  <2>1. turns' \in 0 .. TurnBound /\ turns <= turns' /\ turns \in Nat /\ turns' \in Nat
        /\ handle' \in 0 .. turns'
    BY <1>1, SpawnStep, BoundsOfTurns DEF Turns
  <2>2. signalled' \in SUBSET (1 .. turns') /\ wiped' \in SUBSET (1 .. turns')
    BY <1>1, <2>1 DEF TypeOK
  <2>3. at' \in [Callers -> {"idle", "starting", "waiting"}]
    BY <1>1 DEF TypeOK, StartNew
  <2>4. proc' \in [Turns -> {"none", "alive", "exited", "failed", "closed"}]
        /\ status' \in {"running", "ERROR"} /\ sawResult' = FALSE
    BY <1>1, SpawnStep
  <2>5. named' \in BOOLEAN /\ known' \in BOOLEAN /\ (known' => named')
    BY <1>1 DEF TypeOK
  <2> QED
    BY <2>1, <2>2, <2>3, <2>4, <2>5 DEF TypeOK
<1>3. at' \in [Callers -> {"idle", "starting", "waiting"}] /\ \A d \in Callers \ {c} : at'[d] = at[d]
  BY <1>1 DEF TypeOK, StartNew
<1>4. \A t \in Turns : t > turns' => proc'[t] = "none"
  BY <1>1, SpawnStep, BoundsOfTurns DEF StartedOnce, Turns
<1>5. CASE StartNew(c)
  <2>1. \A d \in Callers : ~Starting(d)
    BY <1>1, <1>5, BoundsOfTurns DEF StartNew, StartedOnce
  <2>2. ~known
    BY <1>1, <1>5, BoundsOfTurns DEF StartNew, StartedOnce
  <2>3. turns' = 1 /\ ~known' /\ handle' \notin signalled'
    BY <1>1, <1>5, <2>2, SpawnStep DEF StartNew
  <2>4. \A d \in Callers \ {c} : ~Starting(d)'
    BY <1>3, <2>1 DEF Starting
  <2> QED
    BY <1>2, <1>4, <2>3, <2>4 DEF Base, StartedOnce, NamedIsWanted
<1>6. CASE known /\ at' = [at EXCEPT ![c] = "idle"]
  <2>1. \A d \in Callers : ~Starting(d)'
    BY <1>1, <1>6 DEF TypeOK, StartedOnce, Starting
  <2>2. turns' >= 1 /\ handle' \notin signalled'
    BY <1>1, SpawnStep, BoundsOfTurns
  <2> QED
    BY <1>1, <1>2, <1>4, <2>1, <2>2 DEF Base, StartedOnce, NamedIsWanted
<1> QED
  BY <1>5, <1>6

LEMMA CallersBase ==
  ASSUME Base, NEW c \in Callers,
         \/ StartNew(c) \/ Register(c) \/ StartFails(c) \/ ReplyWaits(c) \/ Reply(c) \/ ReplyRefused(c)
  PROVE  Base'
<1>1. TypeOK /\ StartedOnce /\ NamedIsWanted
  BY DEF Base
<1>2. CASE StartNew(c) \/ Reply(c)
  BY <1>2, SpawnBase DEF StartNew, Reply
<1>3. CASE Register(c)
  <2>1. \A d \in Callers : ~Starting(d)'
    BY <1>1, <1>3 DEF Register, TypeOK, StartedOnce, Starting
  <2>2. turns >= 1 /\ handle \notin signalled
    BY <1>1, <1>3 DEF Register, StartedOnce, NamedIsWanted, Starting
  <2>3. TypeOK'
    BY <1>1, <1>3 DEF Register, TypeOK
  <2> QED
    BY <1>1, <1>3, <2>1, <2>2, <2>3 DEF Register, Base, StartedOnce, NamedIsWanted
<1>4. CASE StartFails(c)
  <2>1. \A d \in Callers : ~Starting(d)'
    BY <1>1, <1>4 DEF StartFails, TypeOK, StartedOnce, Starting
  <2>2. turns \in Nat /\ turns >= 1 /\ ~known
    BY <1>1, <1>4, BoundsOfTurns DEF StartFails, StartedOnce, Starting
  <2>3. signalled' \in SUBSET (1 .. turns)
    BY <1>1, <1>4, <2>2 DEF StartFails, TypeOK
  <2>4. TypeOK'
    BY <1>1, <1>4, <2>3 DEF StartFails, TypeOK
  <2> QED
    BY <1>1, <1>4, <2>1, <2>2, <2>4 DEF StartFails, Base, StartedOnce, NamedIsWanted
<1>5. CASE ReplyWaits(c) \/ ReplyRefused(c)
  <2>1. \A d \in Callers : Starting(d)' => Starting(d)
    BY <1>1, <1>5 DEF ReplyWaits, ReplyRefused, TypeOK, Starting
  <2>2. at' \in [Callers -> {"idle", "starting", "waiting"}]
    BY <1>1, <1>5 DEF ReplyWaits, ReplyRefused, TypeOK
  <2>3. UNCHANGED <<turns, proc, signalled, named, known, handle, status, sawResult, wiped>>
    BY <1>5 DEF ReplyWaits, ReplyRefused
  <2>4. TypeOK'
    BY <1>1, <2>2, <2>3 DEF TypeOK
  <2> QED
    BY <1>1, <2>1, <2>3, <2>4 DEF Base, StartedOnce, NamedIsWanted
<1> QED
  BY <1>2, <1>3, <1>4, <1>5

\* What comes from the process, and antigravity_stop.
LEMMA ProcessBase ==
  ASSUME Base, NEW t \in Turns, Stop \/ InitLine(t) \/ ResultLine(t) \/ Exit(t) \/ Close(t) PROVE Base'
<1>1. TypeOK /\ StartedOnce /\ NamedIsWanted
  BY DEF Base
<1>2. turns \in Nat /\ handle \in Nat /\ handle <= turns /\ 0 \notin signalled
  BY <1>1, BoundsOfTurns DEF TypeOK
<1>3. UNCHANGED <<turns, at, known>> /\ \A c \in Callers : Starting(c)' <=> Starting(c)
  BY DEF Stop, InitLine, ResultLine, Exit, Close, Starting
<1>4. CASE Stop
  <2>1. signalled' \in SUBSET (1 .. turns) /\ wiped' = wiped /\ handle' = 0 /\ 0 \notin signalled' /\ 0 \in 0 .. turns
    BY <1>1, <1>2, <1>4 DEF Stop, TypeOK
  <2>2. TypeOK'
    BY <1>1, <1>3, <1>4, <2>1 DEF Stop, TypeOK
  <2> QED
    BY <1>1, <1>3, <1>4, <2>1, <2>2 DEF Stop, Base, StartedOnce, NamedIsWanted
<1>5. CASE InitLine(t) \/ ResultLine(t)
  <2>1. /\ UNCHANGED <<proc, signalled, handle, wiped>> /\ status' \in {status, "result"}
        /\ named' \in {named, TRUE} /\ sawResult' \in {sawResult, TRUE}
    BY <1>5 DEF InitLine, ResultLine
  <2>2. /\ named' \in BOOLEAN /\ sawResult' \in BOOLEAN /\ (known => named')
    <3>1. named \in BOOLEAN /\ sawResult \in BOOLEAN /\ (known => named)
      BY <1>1 DEF TypeOK
    <3> QED
      BY <2>1, <3>1
  <2>3. status' \in {"none", "running", "result", "SUCCESS", "ERROR", "CANCELED"}
    BY <1>1, <2>1 DEF TypeOK
  <2>4. TypeOK'
    BY <1>1, <1>3, <2>1, <2>2, <2>3 DEF TypeOK
  <2> QED
    BY <1>1, <1>3, <2>1, <2>4 DEF Base, StartedOnce, NamedIsWanted
<1>6. CASE Exit(t) \/ Close(t)
  <2>1. proc[t] # "none" /\ \A u \in Turns : u # t => proc'[u] = proc[u]
    BY <1>1, <1>6 DEF Exit, Close, TypeOK
  <2>2. handle' \in {0, handle} /\ handle' \in 0 .. turns /\ signalled' = signalled
    BY <1>1, <1>2, <1>6 DEF Exit, Close, TypeOK
  <2>3. wiped' \in SUBSET (1 .. turns)
    <3>1. wiped' \subseteq wiped \cup ({handle} \ {0})
      BY <1>6 DEF Exit, Close
    <3>2. {handle} \ {0} \subseteq 1 .. turns
      BY <1>2
    <3> QED
      BY <1>1, <3>1, <3>2 DEF TypeOK
  <2>4. proc' \in [Turns -> {"none", "alive", "exited", "failed", "closed"}]
    BY <1>1, <1>6 DEF Exit, Close, TypeOK
  <2>5. status' \in {status, "SUCCESS", "ERROR"} /\ UNCHANGED <<named, sawResult>>
    BY <1>6 DEF Exit, Close
  <2>6. TypeOK'
    BY <1>1, <1>3, <2>2, <2>4, <2>5, <2>3 DEF TypeOK
  <2>7. StartedOnce'
    BY <1>1, <1>3, <2>1 DEF StartedOnce
  <2>8. NamedIsWanted'
    BY <1>1, <1>2, <1>3, <2>2 DEF NamedIsWanted
  <2> QED
    BY <2>6, <2>7, <2>8 DEF Base
<1> QED
  BY <1>4, <1>5, <1>6

LEMMA NextBase == Base /\ [Next]_agentVars => Base'
<1> SUFFICES ASSUME Base, [Next]_agentVars PROVE Base'
  OBVIOUS
<1>1. CASE UNCHANGED agentVars
  BY <1>1 DEF agentVars, Base, TypeOK, StartedOnce, NamedIsWanted, Starting
<1>2. CASE Stop
  <2>1. 1 \in Turns
    BY <1>2, BoundsOfTurns DEF Stop, Base, StartedOnce, Turns, TypeOK
  <2> QED
    BY <1>2, <2>1, ProcessBase
<1> QED
  BY <1>1, <1>2, CallersBase, ProcessBase DEF Next

-----------------------------------------------------------------------------
(* Which processes are in reach. *)

\* A turn begins when no process is in reach: one that is not killed would be the one
\* that MayReply finds alive.
LEMMA SpawnReaches ==
  ASSUME IInv, NEW c \in Callers, StartNew(c) \/ Reply(c) PROVE StrayOnlyByLateClose'
<1>1. TypeOK /\ StartedOnce /\ Spawn /\ UNCHANGED <<signalled, wiped>>
  BY DEF IInv, Base, StartNew, Reply
<1>2. \A t \in Turns : ~(proc[t] = "alive" /\ t \notin signalled /\ t \notin wiped)
  <2> SUFFICES ASSUME NEW t \in Turns, proc[t] = "alive", t \notin signalled, t \notin wiped PROVE FALSE
    OBVIOUS
  <2>1. CASE StartNew(c)
    BY <1>1, <2>1 DEF StartNew, StartedOnce, Turns
  <2>2. CASE Reply(c)
    <3>1. handle = t
      BY DEF IInv, StrayOnlyByLateClose, InReach
    <3> QED
      BY <2>2, <3>1 DEF Reply, MayReply
  <2> QED
    BY <2>1, <2>2
<1>3. known' \/ Starting(c)'
  BY <1>1 DEF StartNew, Reply, Starting, TypeOK
<1> SUFFICES ASSUME NEW t \in Turns, proc'[t] = "alive", t \notin signalled', t \notin wiped' PROVE InReach(t)'
  BY DEF StrayOnlyByLateClose
<1>4. t = turns + 1 /\ handle' = turns + 1
  BY <1>1, <1>2, SpawnStep
<1> QED
  BY <1>3, <1>4 DEF InReach, Starting

\* The other steps bring no process to life.
LEMMA OthersReach ==
  ASSUME IInv, signalled \subseteq signalled', wiped \subseteq wiped',
         \A t \in Turns : proc'[t] = "alive" => proc[t] = "alive",
         \A t \in Turns : proc'[t] = "alive" /\ t \notin signalled' /\ t \notin wiped' /\ handle = t =>
           handle' = handle /\ (known \/ (\E c \in Callers : Starting(c)) => known' \/ \E c \in Callers : Starting(c)')
  PROVE  StrayOnlyByLateClose'
<1> SUFFICES ASSUME NEW t \in Turns, proc'[t] = "alive", t \notin signalled', t \notin wiped' PROVE InReach(t)'
  BY DEF StrayOnlyByLateClose
<1>1. InReach(t)
  BY DEF IInv, StrayOnlyByLateClose
<1>2. handle = t /\ (known \/ \E c \in Callers : Starting(c))
  BY <1>1 DEF InReach, Starting
<1>3. handle' = t /\ (known' \/ \E c \in Callers : Starting(c)')
  BY <1>2
<1> QED
  BY <1>3 DEF InReach, Starting

LEMMA NextIInv == ASSUME IInv, [Next]_agentVars PROVE IInv'
<1>b. Base' /\ Base
  BY NextBase DEF IInv
<1> SUFFICES StrayOnlyByLateClose'
  BY <1>b DEF IInv
<1>t. TypeOK /\ StartedOnce
  BY <1>b DEF Base
<1>1. CASE UNCHANGED agentVars
  BY <1>1 DEF agentVars, IInv, StrayOnlyByLateClose, InReach
<1>2. ASSUME NEW c \in Callers, StartNew(c) \/ Reply(c) PROVE StrayOnlyByLateClose'
  BY <1>2, SpawnReaches
<1>3. ASSUME NEW c \in Callers, Register(c) \/ ReplyWaits(c) \/ ReplyRefused(c) PROVE StrayOnlyByLateClose'
  <2>1. UNCHANGED <<proc, signalled, wiped, handle>>
    BY <1>3 DEF Register, ReplyWaits, ReplyRefused
  <2>2. known \/ (\E d \in Callers : Starting(d)) => known' \/ (\E d \in Callers : Starting(d)')
    BY <1>3, <1>t DEF Register, ReplyWaits, ReplyRefused, Starting, TypeOK
  <2> QED
    BY <2>1, <2>2, OthersReach
\* The start that failed was of the first turn, which is killed.
<1>4. ASSUME NEW c \in Callers, StartFails(c) PROVE StrayOnlyByLateClose'
  <2>1. UNCHANGED <<proc, wiped>> /\ signalled' = signalled \cup {1}
    BY <1>4 DEF StartFails
  <2>2. \A t \in Turns : proc[t] = "alive" => t = 1
    <3>1. turns = 1
      BY <1>4, <1>t DEF StartFails, StartedOnce, Starting
    <3>2. \A t \in Turns : t > turns => proc[t] = "none"
      BY <1>t DEF StartedOnce
    <3> QED
      BY <3>1, <3>2, BoundsOfTurns DEF Turns
  <2> QED
    BY <2>1, <2>2, OthersReach
<1>5. CASE Stop
  <2>1. UNCHANGED <<proc, wiped>> /\ signalled' = signalled \cup ({handle} \ {0})
    BY <1>5 DEF Stop
  <2>2. \A t \in Turns : handle = t => t \in signalled'
    BY <2>1 DEF Turns
  <2> QED
    BY <2>1, <2>2, OthersReach
<1>6. ASSUME NEW t \in Turns, InitLine(t) \/ ResultLine(t) \/ Exit(t) PROVE StrayOnlyByLateClose'
  <2>1. UNCHANGED <<signalled, wiped, handle, known, at>>
    BY <1>6 DEF InitLine, ResultLine, Exit
  <2>2. \A u \in Turns : proc'[u] = "alive" => proc[u] = "alive"
    BY <1>t, <1>6 DEF InitLine, ResultLine, Exit, TypeOK
  <2> QED
    BY <2>1, <2>2, OthersReach DEF Starting
\* A late close event deletes the handle of the turn in reach, which is noted.
<1>7. ASSUME NEW t \in Turns, Close(t) PROVE StrayOnlyByLateClose'
  <2>1. UNCHANGED signalled /\ wiped' = wiped \cup ({handle} \ {0, t})
        /\ \A u \in Turns : proc'[u] = IF u = t THEN "closed" ELSE proc[u]
    BY <1>t, <1>7 DEF Close, TypeOK
  <2>2. \A u \in Turns : proc'[u] = "alive" /\ handle = u => u \in wiped'
    BY <2>1 DEF Turns
  <2>3. \A u \in Turns : proc'[u] = "alive" => proc[u] = "alive"
    BY <2>1
  <2> QED
    BY <2>1, <2>2, <2>3, OthersReach
<1> QED
  BY <1>1, <1>2, <1>3, <1>4, <1>5, <1>6, <1>7 DEF Next

-----------------------------------------------------------------------------
\* The record names a turn that began, and only a conversation with an id is registered
\* (cli.ts keys `sessions` by the conversation id).
THEOREM TypeCorrect == Spec => []TypeOK
<1>1. Base => TypeOK
  BY DEF Base
<1> QED
  BY <1>1, InitBase, NextBase, PTL DEF Spec

\* Whatever clients and processes do, and however late the close events come: a live
\* agent that was not killed is the one antigravity_stop would kill, or still being
\* started, unless the close event of another turn deleted its handle (cli.ts:466).
THEOREM OnlyLateCloseStrays == Spec => []StrayOnlyByLateClose
<1>1. Init => IInv
  BY InitBase DEF Init, IInv, StrayOnlyByLateClose
<1>2. IInv /\ [Next]_agentVars => IInv'
  BY NextIInv
<1>3. IInv => StrayOnlyByLateClose
  BY DEF IInv
<1> QED
  BY <1>1, <1>2, <1>3, PTL DEF Spec

============================================================================
