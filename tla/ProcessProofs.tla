--------------------------- MODULE ProcessProofs ----------------------------
(***************************************************************************)
(* Theorems about the processes the server runs.  PtySessions, the life of *)
(* a terminal: for any limit on sessions, any number of starts and any set *)
(* of clients.  PtyBuffer, its output: for any size of the ring, any limit *)
(* of a read, characters of any width the ring can hold, and an output of  *)
(* any length.  ExecRun, one run of a child process: for any capture limit *)
(* and any amount of output.                                               *)
(***************************************************************************)
EXTENDS PtySessions, PtyBuffer, ExecRun, FiniteSetTheorems, WellFoundedInduction, TLAPS

\* The sessions that were started are those with a status, and only they have a shell.
BornByStart ==
  \A s \in Ids : /\ s <= started <=> status[s] # "none"
                 /\ shell[s] # "none" => s <= started

\* The sessions that take a place in the table while they run.
ActiveIn(ids) == {s \in ids : Active(s)}

\* A shell that was not given up has its place in the table; the places are limited.
Placed ==
  /\ Unkilled \subseteq ActiveIn(sessions)
  /\ Cardinality(ActiveIn(sessions)) <= PTY_MAX_SESSIONS
  /\ Cardinality(sessions) <= MaxRetained

\* With PTY_HOLD_LOCK the one shell that lives keeps the lane.
Alone == hold => \A s \in Unkilled : lease = s

\* The inductive invariant.
IInv == SessionsTypeOK /\ BornByStart /\ Placed /\ Alone

-----------------------------------------------------------------------------
\* The table holds at least as many records as sessions may run.
LEMMA RoomForAll == MaxRetained \in Nat /\ PTY_MAX_SESSIONS <= MaxRetained
<1>1. PTY_MAX_SESSIONS \in Nat \ {0} /\ RetainFactor \in Nat \ {0}
  BY PtyAssumption DEF PtyAssumption
<1>2. \A m \in Nat \ {0}, r \in Nat \ {0} : r * m \in Nat /\ m <= r * m
  BY SMT
<1> QED
  BY <1>1, <1>2 DEF MaxRetained

\* The ids are finitely many, and so is every set of them.
LEMMA FiniteIds == IsFiniteSet(Ids) /\ \A S \in SUBSET Ids : IsFiniteSet(S) /\ Cardinality(S) \in Nat
<1>1. IsFiniteSet(Ids)
  BY PtyAssumption, FS_Interval DEF PtyAssumption, Ids
<1> QED
  BY <1>1, FS_Subset, FS_CardinalityType

LEMMA InitIInv == Init => IInv
<1> SUFFICES ASSUME Init PROVE IInv
  OBVIOUS
<1> USE PtyAssumption DEF PtyAssumption, Init
<1>1. SessionsTypeOK
  BY DEF SessionsTypeOK, Status, Over, Ids
<1>2. BornByStart
  BY DEF BornByStart, Ids
<1>3. Unkilled = {} /\ ActiveIn(sessions) = {} /\ Cardinality({}) = 0
  BY FS_EmptySet DEF Unkilled, ActiveIn
<1>4. Placed
  BY <1>3, RoomForAll DEF Placed
<1>5. Alone
  BY <1>3 DEF Alone
<1> QED
  BY <1>1, <1>2, <1>4, <1>5 DEF IInv

\* A start gives the fresh id its place: one record more, one active session more.
LEMMA StartPlaces ==
  ASSUME IInv, Start
  PROVE  /\ started + 1 \in Ids /\ started' = started + 1
         /\ Unkilled' \subseteq Unkilled \cup {started + 1}
         /\ Placed'
<1>0. PICK n : n = started + 1
  OBVIOUS
<1>1. PICK dropped \in SUBSET sessions :
        /\ Prunes(dropped) /\ RunningCount(sessions \ dropped) < PTY_MAX_SESSIONS
        /\ started < StartBound /\ started' = n /\ sessions' = (sessions \ dropped) \cup {n}
        /\ status' = [status EXCEPT ![n] = "running"] /\ shell' = [shell EXCEPT ![n] = "alive"]
        /\ sigkill' = sigkill
  BY <1>0 DEF Start
<1>2. SessionsTypeOK /\ BornByStart /\ Placed
  BY DEF IInv
<1>3. n \in Ids /\ n \in Nat /\ started \in Nat /\ sessions \subseteq Ids /\ n \notin sessions
  BY <1>0, <1>1, <1>2, PtyAssumption DEF SessionsTypeOK, Ids, PtyAssumption
<1>4. status \in [Ids -> Status] /\ shell \in [Ids -> {"none", "alive", "gone"}]
  BY <1>2 DEF SessionsTypeOK
<1>5. \A s \in Ids \ {n} : status'[s] = status[s] /\ shell'[s] = shell[s] /\ (Active(s)' <=> Active(s))
  BY <1>1, <1>4 DEF Active
<1>6. status'[n] = "running" /\ Active(n)'
  BY <1>1, <1>3, <1>4 DEF Active
<1>7. Unkilled' \subseteq Unkilled \cup {n}
  BY <1>1, <1>5 DEF Unkilled
<1> DEFINE finished == {s \in sessions : status[s] \in Over}
           left == sessions \ dropped
<1>8. dropped \subseteq finished /\ left \subseteq sessions /\ n \notin left
  BY <1>1, <1>3 DEF Prunes
<1>9. IsFiniteSet(left) /\ IsFiniteSet(sessions) /\ IsFiniteSet(finished) /\ IsFiniteSet(dropped)
      /\ IsFiniteSet(ActiveIn(left))
  BY <1>3, <1>8, FiniteIds DEF ActiveIn
<1>10. ActiveIn(left) = ActiveIn(sessions)
  BY <1>8 DEF ActiveIn, Active, Over
<1>11. ActiveIn(sessions)' = ActiveIn(left) \cup {n}
  BY <1>1, <1>3, <1>5, <1>6, <1>8 DEF ActiveIn
<1>12. Cardinality(ActiveIn(left)) < PTY_MAX_SESSIONS
  BY <1>1 DEF RunningCount, ActiveIn
<1>13. Cardinality(ActiveIn(sessions)') <= PTY_MAX_SESSIONS
  <2>1. n \notin ActiveIn(left)
    BY <1>8 DEF ActiveIn
  <2>2. Cardinality(ActiveIn(left) \cup {n}) = Cardinality(ActiveIn(left)) + 1
    BY <2>1, <1>9, FS_AddElement
  <2>3. Cardinality(ActiveIn(left)) \in Nat
    BY <1>9, FS_CardinalityType
  <2> QED
    BY <2>2, <2>3, <1>11, <1>12, PtyAssumption DEF PtyAssumption
<1>14. Unkilled' \subseteq ActiveIn(sessions)'
  BY <1>2, <1>7, <1>10, <1>11 DEF Placed
<1>15. Cardinality(sessions') <= MaxRetained
  <2>1. Cardinality(sessions') = Cardinality(left) + 1
    BY <1>1, <1>8, <1>9, FS_AddElement
  <2>2. Cardinality(left) = Cardinality(sessions) - Cardinality(dropped)
    <3>1. sessions \cap dropped = dropped
      BY <1>8
    <3> QED
      BY <3>1, <1>9, FS_Difference
  <2>3. Cardinality(left) \in Nat /\ Cardinality(sessions) \in Nat /\ Cardinality(finished) \in Nat
        /\ Cardinality(dropped) \in Nat /\ Cardinality(sessions) <= MaxRetained
    BY <1>2, <1>9, FS_CardinalityType DEF Placed
  <2> DEFINE need == IF Cardinality(sessions) < MaxRetained
                     THEN 0 ELSE Cardinality(sessions) - MaxRetained + 1
  <2>4. Cardinality(dropped) = IF need < Cardinality(finished) THEN need ELSE Cardinality(finished)
    BY <1>1 DEF Prunes
  <2>5. CASE Cardinality(sessions) < MaxRetained
    <3>1. Cardinality(left) <= Cardinality(sessions)
      BY <2>2, <2>3
    <3> QED
      BY <3>1, <2>1, <2>3, <2>5, RoomForAll
  <2>6. CASE ~(Cardinality(sessions) < MaxRetained)
    <3>1. Cardinality(finished) # 0
      <4>1. SUFFICES ASSUME Cardinality(finished) = 0 PROVE FALSE
        OBVIOUS
      <4>2. finished = {}
        BY <4>1, <1>9, FS_EmptySet
      <4>3. \A s \in sessions : status[s] \in Status /\ status[s] # "none"
        BY <1>2, <1>3, <1>4 DEF BornByStart, SessionsTypeOK
      <4>4. ActiveIn(sessions) = sessions
        BY <4>2, <4>3 DEF ActiveIn, Active, Over, Status
      <4> QED
        BY <4>4, <1>10, <1>12, <2>3, <2>6, RoomForAll, PtyAssumption DEF PtyAssumption
    <3>2. Cardinality(dropped) >= 1
      BY <3>1, <2>3, <2>4, <2>6, RoomForAll
    <3> QED
      BY <3>2, <2>1, <2>2, <2>3, RoomForAll
  <2> QED
    BY <2>5, <2>6
<1> QED
  BY <1>0, <1>1, <1>3, <1>7, <1>13, <1>14, <1>15 DEF Placed

\* A step that starts no session gives no new place away.
LEMMA PlacesKept ==
  ASSUME IInv, sessions' \subseteq sessions,
         \A s \in Ids : Active(s)' => Active(s),
         \A s \in Unkilled' : s \in sessions' /\ Active(s)'
  PROVE  Placed'
<1>1. SessionsTypeOK /\ Placed /\ sessions \subseteq Ids
  BY PtyAssumption DEF IInv, SessionsTypeOK, Ids, PtyAssumption
<1>2. ActiveIn(sessions)' \subseteq ActiveIn(sessions) /\ ActiveIn(sessions) \subseteq Ids
  BY <1>1 DEF ActiveIn
<1>3. IsFiniteSet(ActiveIn(sessions)) /\ IsFiniteSet(sessions)
  BY <1>1, <1>2, FiniteIds
<1>4. Cardinality(ActiveIn(sessions)') <= Cardinality(ActiveIn(sessions))
      /\ Cardinality(sessions') <= Cardinality(sessions)
  BY <1>2, <1>3, FS_Subset
<1>5. Cardinality(ActiveIn(sessions)') \in Nat /\ Cardinality(ActiveIn(sessions)) \in Nat
      /\ Cardinality(sessions') \in Nat /\ Cardinality(sessions) \in Nat
  BY <1>1, <1>2, FiniteIds
<1>6. Unkilled' \subseteq ActiveIn(sessions)'
  BY DEF ActiveIn
<1>7. Cardinality(ActiveIn(sessions)') <= PTY_MAX_SESSIONS
  BY <1>1, <1>4, <1>5, PtyAssumption DEF Placed, PtyAssumption
<1>8. Cardinality(sessions') <= MaxRetained
  BY <1>1, <1>4, <1>5, RoomForAll DEF Placed
<1> QED
  BY <1>6, <1>7, <1>8 DEF Placed

\* What BeginClose does to the sessions it is given.
LEMMA CloseBegins ==
  ASSUME SessionsTypeOK, NEW ids \in SUBSET sessions, BeginClose(ids)
  PROVE  /\ status' \in [Ids -> Status]
         /\ armed' = {s \in Ids : status'[s] = "closing"}
         /\ \A s \in Ids :
              /\ status'[s] \in Over <=> status[s] \in Over
              /\ status'[s] = "none" <=> status[s] = "none"
              /\ Active(s)' <=> Active(s)
<1>1. sessions \subseteq Ids
  BY PtyAssumption DEF SessionsTypeOK, Ids, PtyAssumption
<1>2. \A s \in Ids :
        /\ status'[s] = IF s \in ids /\ status[s] = "running" THEN "closing" ELSE status[s]
        /\ status[s] \in Status
  BY DEF BeginClose, SessionsTypeOK
<1>3. status' \in [Ids -> Status]
  BY <1>2 DEF BeginClose, Status
<1>4. armed' = armed \cup {s \in ids : status[s] = "running"}
  BY DEF BeginClose
<1>5. armed' = {s \in Ids : status'[s] = "closing"}
  BY <1>1, <1>2, <1>4 DEF SessionsTypeOK
<1> QED
  BY <1>2, <1>3, <1>5 DEF Over, Active

\* A step of one of the three callers of BeginClose.
LEMMA ClosingKeepsIInv ==
  ASSUME IInv, NEW ids \in SUBSET sessions, BeginClose(ids), sessions' \subseteq sessions,
         \A s \in sessions \ sessions' : status[s] \in Over,
         closing' \in [Clients -> 0 .. StartBound],
         UNCHANGED <<started, shell, sigkill, done, laneVars>>
  PROVE  IInv'
<1> USE DEF laneVars
<1>1. SessionsTypeOK /\ BornByStart /\ Placed /\ Alone
  BY DEF IInv
<1>0. /\ status' \in [Ids -> Status] /\ armed' = {s \in Ids : status'[s] = "closing"}
      /\ \A s \in Ids :
           /\ status'[s] \in Over <=> status[s] \in Over
           /\ status'[s] = "none" <=> status[s] = "none"
           /\ Active(s)' <=> Active(s)
  BY <1>1, CloseBegins
<1>2. SessionsTypeOK'
  BY <1>0, <1>1 DEF SessionsTypeOK
<1>3. BornByStart'
  BY <1>0, <1>1 DEF BornByStart
<1>4. Unkilled' = Unkilled
  BY DEF Unkilled
<1>5. \A s \in Ids : Active(s)' <=> Active(s)
  BY <1>0
<1>6. \A s \in Unkilled : s \in sessions /\ Active(s)
  BY <1>1 DEF Placed, ActiveIn
<1>7. \A s \in Unkilled' : s \in sessions' /\ Active(s)'
  BY <1>4, <1>5, <1>6 DEF Active, Over, Unkilled
<1>8. Placed'
  BY <1>5, <1>7, PlacesKept
<1>9. Alone'
  BY <1>1, <1>4 DEF Alone
<1> QED
  BY <1>2, <1>3, <1>8, <1>9 DEF IInv

\* The end of a session, reported by its shell or declared by the close timer.
LEMMA EndingKeepsIInv ==
  ASSUME IInv, NEW s \in Ids, started' = started, sessions' = sessions,
         UNCHANGED <<closing, laneVars>>,
         armed' = armed \ {s}, done' = done \cup {s}, s <= started,
         \E end \in Over : status' = [status EXCEPT ![s] = end],
         \/ shell' = [shell EXCEPT ![s] = "gone"] /\ sigkill' = sigkill
         \/ shell' = shell /\ sigkill' = sigkill \cup {s}
  PROVE  IInv'
<1> USE DEF laneVars
<1>1. SessionsTypeOK /\ BornByStart /\ Placed /\ Alone
  BY DEF IInv
<1>2. status'[s] \in Over /\ status' \in [Ids -> Status]
      /\ \A t \in Ids \ {s} : status'[t] = status[t] /\ shell'[t] = shell[t]
  BY <1>1 DEF SessionsTypeOK, Over, Status
<1>3. SessionsTypeOK'
  <2>1. armed' = {t \in Ids : status'[t] = "closing"}
    BY <1>1, <1>2 DEF SessionsTypeOK, Over
  <2>2. done' = {t \in Ids : status'[t] \in Over}
    BY <1>1, <1>2 DEF SessionsTypeOK
  <2> QED
    BY <1>1, <1>2, <2>1, <2>2 DEF SessionsTypeOK
<1>4. BornByStart'
  BY <1>1, <1>2 DEF BornByStart, Over
<1>5. Unkilled' = Unkilled \ {s}
  BY <1>1, <1>2 DEF Unkilled, SessionsTypeOK
<1>6. \A t \in Ids \ {s} : Active(t)' <=> Active(t)
  BY <1>2 DEF Active
<1>7. ~Active(s)'
  BY <1>2 DEF Active, Over
<1>8. \A t \in Unkilled' : t \in sessions' /\ Active(t)'
  BY <1>1, <1>5, <1>6 DEF Placed, ActiveIn, Unkilled
<1>9. Placed'
  BY <1>6, <1>7, <1>8, PlacesKept
<1>10. Alone'
  BY <1>1, <1>5 DEF Alone
<1> QED
  BY <1>3, <1>4, <1>9, <1>10 DEF IInv

LEMMA NextIInv == IInv /\ [Next]_ptyVars => IInv'
<1> SUFFICES ASSUME IInv, [Next]_ptyVars PROVE IInv'
  OBVIOUS
<1>t. SessionsTypeOK /\ BornByStart /\ Placed /\ Alone
  BY DEF IInv
<1>s. sessions \subseteq Ids
  BY <1>t, PtyAssumption DEF SessionsTypeOK, Ids, PtyAssumption
<1>1. CASE Start
  <2>1. /\ started + 1 \in Ids /\ started' = started + 1 /\ Placed'
        /\ Unkilled' \subseteq Unkilled \cup {started + 1}
    BY <1>1, StartPlaces
  <2>2. PICK n : n = started + 1
    OBVIOUS
  <2>3. /\ status' = [status EXCEPT ![n] = "running"] /\ shell' = [shell EXCEPT ![n] = "alive"]
        /\ sessions' \subseteq sessions \cup {n} /\ UNCHANGED <<sigkill, armed, done, closing, hold>>
        /\ lease = 0 /\ lease' = IF hold THEN n ELSE 0
    BY <1>1, <2>2 DEF Start
  <2>4. status[n] = "none"
    BY <1>t, <2>1, <2>2, PtyAssumption DEF BornByStart, Ids, PtyAssumption, SessionsTypeOK
  <2>5. SessionsTypeOK'
    <3>1. started' \in 0 .. StartBound /\ sessions' \in SUBSET (1 .. started') /\ lease' \in 0 .. started'
      BY <1>t, <2>1, <2>2, <2>3, PtyAssumption DEF SessionsTypeOK, Ids, PtyAssumption
    <3>2. status' \in [Ids -> Status] /\ shell' \in [Ids -> {"none", "alive", "gone"}]
      BY <1>t, <2>3 DEF SessionsTypeOK, Status
    <3>3. armed' = {s \in Ids : status'[s] = "closing"} /\ done' = {s \in Ids : status'[s] \in Over}
      BY <1>t, <2>1, <2>2, <2>3, <2>4 DEF SessionsTypeOK, Over
    <3> QED
      BY <1>t, <2>3, <3>1, <3>2, <3>3 DEF SessionsTypeOK
  <2>6. BornByStart'
    BY <1>t, <2>1, <2>2, <2>3, PtyAssumption DEF BornByStart, SessionsTypeOK, Ids, PtyAssumption
  <2>7. Alone'
    <3>1. hold => Unkilled = {}
      BY <1>t, <2>3, PtyAssumption DEF Alone, Unkilled, Ids, PtyAssumption
    <3> QED
      BY <3>1, <2>1, <2>2, <2>3 DEF Alone
  <2> QED
    BY <2>1, <2>5, <2>6, <2>7 DEF IInv
<1>2. CASE StartRefused
  <2>1. PICK dropped \in SUBSET sessions : Prunes(dropped) /\ sessions' = sessions \ dropped
    BY <1>2 DEF StartRefused
  <2>2. UNCHANGED <<started, status, shell, sigkill, armed, done, closing, hold, lease>>
    BY <1>2 DEF StartRefused, laneVars
  <2>3. Unkilled' = Unkilled /\ \A s \in Ids : Active(s)' <=> Active(s)
    BY <2>2 DEF Unkilled, Active
  <2>4. \A s \in Unkilled : s \in sessions /\ Active(s)
    BY <1>t DEF Placed, ActiveIn
  <2>5. \A s \in Unkilled' : s \in sessions' /\ Active(s)'
    BY <2>1, <2>3, <2>4 DEF Prunes, Active, Over, Unkilled
  <2>6. Placed'
    BY <2>1, <2>3, <2>5, PlacesKept
  <2>7. SessionsTypeOK' /\ BornByStart' /\ Alone'
    BY <1>t, <2>1, <2>2, <2>3 DEF SessionsTypeOK, BornByStart, Alone
  <2> QED
    BY <2>6, <2>7 DEF IInv
<1>3. CASE LeaseEnds
  <2>1. /\ lease # 0 /\ lease \in done /\ lease' = 0
        /\ UNCHANGED <<started, sessions, status, shell, sigkill, armed, done, closing, hold>>
    BY <1>3 DEF LeaseEnds
  <2>2. Unkilled' = Unkilled /\ ActiveIn(sessions)' = ActiveIn(sessions)
    BY <2>1 DEF Unkilled, ActiveIn, Active
  <2>3. SessionsTypeOK' /\ BornByStart' /\ Placed'
    BY <1>t, <2>1, <2>2 DEF SessionsTypeOK, BornByStart, Placed
  <2>4. lease \notin Unkilled
    BY <1>t, <2>1 DEF SessionsTypeOK, Placed, ActiveIn, Active, Over
  <2>5. Alone'
    BY <1>t, <2>1, <2>2, <2>4 DEF Alone
  <2> QED
    BY <2>3, <2>5 DEF IInv
<1>4. CASE Cleanup
  <2>1. PICK idle \in SUBSET {s \in sessions : status[s] \in Over},
             aged \in SUBSET {s \in sessions : status[s] = "running"} :
          /\ sessions' = sessions \ idle /\ BeginClose(aged)
          /\ UNCHANGED <<started, shell, sigkill, done, closing, laneVars>>
    BY <1>4 DEF Cleanup
  <2>2. aged \in SUBSET sessions /\ sessions' \subseteq sessions /\ closing' \in [Clients -> 0 .. StartBound]
        /\ \A s \in sessions \ sessions' : status[s] \in Over
    BY <1>t, <2>1 DEF SessionsTypeOK
  <2> QED
    BY <2>1, <2>2, ClosingKeepsIInv
<1>5. CASE KillAll
  <2>1. PICK ids \in SUBSET {s \in sessions : status[s] = "running"} :
          BeginClose(ids) /\ UNCHANGED <<started, sessions, shell, sigkill, done, closing, laneVars>>
    BY <1>5 DEF KillAll
  <2>2. ids \in SUBSET sessions /\ closing' \in [Clients -> 0 .. StartBound] /\ sessions' = sessions
    BY <1>t, <2>1 DEF SessionsTypeOK
  <2> QED
    BY <2>1, <2>2, ClosingKeepsIInv
<1>6. ASSUME NEW s \in Ids, ExitEvent(s) PROVE IInv'
  <2>1. shell[s] = "alive" /\ s <= started
    BY <1>6, <1>t DEF ExitEvent, BornByStart
  <2>2. \E end \in Over : status' = [status EXCEPT ![s] = end]
    BY <1>6 DEF ExitEvent, Over
  <2> QED
    BY <1>6, <2>1, <2>2, EndingKeepsIInv DEF ExitEvent
<1>7. ASSUME NEW s \in Ids, CloseTimer(s) PROVE IInv'
  <2>1. status[s] = "closing" /\ s <= started
    BY <1>7, <1>t DEF CloseTimer, SessionsTypeOK, BornByStart
  <2>2. \E end \in Over : status' = [status EXCEPT ![s] = end]
    BY <1>7, <2>1 DEF CloseTimer, Over
  <2> QED
    BY <1>7, <2>1, <2>2, EndingKeepsIInv DEF CloseTimer
<1>8. ASSUME NEW c \in Clients, CloseReturns(c) PROVE IInv'
  <2>1. closing' \in [Clients -> 0 .. StartBound]
    BY <1>8, <1>t, PtyAssumption DEF CloseReturns, SessionsTypeOK, PtyAssumption
  <2>2. UNCHANGED <<started, sessions, status, shell, sigkill, armed, done, hold, lease>>
    BY <1>8 DEF CloseReturns, laneVars
  <2>3. Unkilled' = Unkilled /\ ActiveIn(sessions)' = ActiveIn(sessions)
    BY <2>2 DEF Unkilled, ActiveIn, Active
  <2>4. SessionsTypeOK' /\ BornByStart' /\ Placed' /\ Alone'
    BY <1>t, <2>1, <2>2, <2>3 DEF SessionsTypeOK, BornByStart, Placed, Alone
  <2> QED
    BY <2>4 DEF IInv
<1>9. ASSUME NEW c \in Clients, NEW s \in Ids, Close(c, s) PROVE IInv'
  <2>1. closing' \in [Clients -> 0 .. StartBound]
    BY <1>9, <1>t, PtyAssumption DEF Close, SessionsTypeOK, Ids, PtyAssumption
  <2>2. {s} \in SUBSET sessions /\ sessions' = sessions /\ BeginClose({s})
        /\ UNCHANGED <<started, shell, sigkill, done, laneVars>>
    BY <1>9 DEF Close
  <2> QED
    BY <2>1, <2>2, ClosingKeepsIInv
<1>10. CASE UNCHANGED ptyVars
  <2>1. UNCHANGED <<started, sessions, status, shell, sigkill, armed, done, closing, hold, lease>>
    BY <1>10 DEF ptyVars, laneVars
  <2>2. Unkilled' = Unkilled /\ ActiveIn(sessions)' = ActiveIn(sessions)
    BY <2>1 DEF Unkilled, ActiveIn, Active
  <2> QED
    BY <1>t, <2>1, <2>2 DEF IInv, SessionsTypeOK, BornByStart, Placed, Alone
<1> QED
  BY <1>1, <1>2, <1>3, <1>4, <1>5, <1>6, <1>7, <1>8, <1>9, <1>10 DEF Next

\* The limits and the lane follow from the places.
LEMMA PlacesAccount == IInv => ShellsAccounted
<1> SUFFICES ASSUME IInv PROVE ShellsAccounted
  OBVIOUS
<1>1. SessionsTypeOK /\ Placed /\ Alone /\ sessions \subseteq Ids
  BY PtyAssumption DEF IInv, SessionsTypeOK, Ids, PtyAssumption
<1>2. IsFiniteSet(ActiveIn(sessions)) /\ ActiveIn(sessions) \subseteq Ids
  BY <1>1, FiniteIds DEF ActiveIn
<1>3. Cardinality(Unkilled) <= Cardinality(ActiveIn(sessions))
  BY <1>1, <1>2, FS_Subset DEF Placed
<1>4. Cardinality(Unkilled) \in Nat /\ Cardinality(ActiveIn(sessions)) \in Nat
  BY <1>2, FiniteIds DEF Unkilled
<1>5. Cardinality(Unkilled) <= PTY_MAX_SESSIONS
  BY <1>1, <1>3, <1>4, PtyAssumption DEF Placed, PtyAssumption
<1> QED
  BY <1>1, <1>5 DEF ShellsAccounted, Placed, Alone, ActiveIn

LEMMA InvariantHolds == Spec => []IInv
  BY InitIInv, NextIInv, PTL DEF Spec

\* The timer of a session is armed exactly while it is closing, and its promise is
\* resolved exactly when it is over, however exit, close, timer and cleanup meet.
THEOREM TypeCorrect == Spec => []SessionsTypeOK
<1>1. IInv => SessionsTypeOK
  BY DEF IInv
<1> QED
  BY <1>1, InvariantHolds, PTL

\* No shell is lost: one that was not given up can be found and closed, the limits hold
\* whatever is pruned, and with PTY_HOLD_LOCK the lane is handed on behind it only.
THEOREM NoShellLost == Spec => []ShellsAccounted
  BY PlacesAccount, InvariantHolds, PTL

-----------------------------------------------------------------------------
(* The output of a terminal.  Least and greatest elements first: `Min` and `Max` *)
(* choose them, and the well-foundedness of < on Nat says that there is one.     *)

\* A set of naturals that is not empty has a least element.
LEMMA LeastNat ==
  ASSUME NEW T, T \subseteq Nat, T # {}
  PROVE  \E x \in T : \A y \in T : x <= y
<1> DEFINE R == OpToRel(<, Nat)
<1>1. IsWellFoundedOn(R, Nat)
  BY NatLessThanWellFounded
<1>2. PICK x \in T : \A y \in T : ~ (<<y, x>> \in R)
  BY <1>1, WFMin
<1>3. ASSUME NEW y \in T PROVE x <= y
  <2>1. ~ (<<y, x>> \in R)
    BY <1>2
  <2>2. ~ (y < x)
    BY <2>1 DEF OpToRel
  <2> QED BY <2>2
<1> QED BY <1>3

\* Min is the least element.
LEMMA MinOfNats ==
  ASSUME NEW T, T \subseteq Nat, T # {}
  PROVE  Min(T) \in T /\ \A y \in T : Min(T) <= y
BY LeastNat DEF Min

\* Max is the greatest element of a set that has a bound.
LEMMA MaxOfNats ==
  ASSUME NEW T, T \subseteq Nat, T # {}, NEW top \in Nat, \A y \in T : y <= top
  PROVE  Max(T) \in T /\ \A y \in T : Max(T) >= y
<1> DEFINE Below == {top - y : y \in T}
<1>1. Below \subseteq Nat /\ Below # {}
  <2>1. ASSUME NEW y \in T PROVE top - y \in Nat
    BY y \in Nat, y <= top
  <2> QED BY <2>1
<1>2. PICK b \in Below : \A c \in Below : b <= c
  BY <1>1, LeastNat
<1>3. PICK x \in T : b = top - x
  BY <1>2
<1>4. ASSUME NEW y \in T PROVE x >= y
  <2>1. top - x <= top - y
    BY <1>2, <1>3
  <2> QED BY <2>1
<1>5. \E z \in T : \A y \in T : z >= y
  BY <1>4
<1> HIDE DEF Below
<1> QED BY <1>5 DEF Max

\* A character is not empty, begins with no continuation byte and is a sequence.
LEMMA CharFact ==
  ASSUME NEW c \in Chars
  PROVE  /\ c \in Seq({"lead", "cont", "hit"})
         /\ Len(c) \in Nat /\ Len(c) >= 1 /\ c[1] # "cont"
<1>1. CASE c = <<"hit">>
  BY <1>1
<1>2. ASSUME NEW w \in 1 .. MaxWidth, c = [i \in 1 .. w |-> IF i = 1 THEN "lead" ELSE "cont"]
      PROVE  /\ c \in Seq({"lead", "cont", "hit"})
             /\ Len(c) \in Nat /\ Len(c) >= 1 /\ c[1] # "cont"
  <2>1. w \in Nat /\ w >= 1
    BY BufferAssumption
  <2>2. c \in Seq({"lead", "cont", "hit"}) /\ Len(c) = w
    BY <1>2, <2>1
  <2> QED BY <1>2, <2>1, <2>2
<1> QED BY <1>1, <1>2 DEF Chars

\* What is appended begins a character: no cut between two characters is spoilt.
LEMMA AppendFact ==
  ASSUME BufTypeOK, NEW first \in Chars, NEW second \in Chars \cup {<<>>}
  PROVE  LET bytes == stream \o first \o second IN
         /\ bytes \in Seq({"lead", "cont", "hit"})
         /\ Len(bytes) \in Nat /\ Len(bytes) > Len(stream)
         /\ \A c \in 0 .. Len(stream) : Boundary(stream, c) => Boundary(bytes, c)
<1> DEFINE bytes == stream \o first \o second
<1>1. stream \in Seq({"lead", "cont", "hit"}) /\ Len(stream) \in Nat
  BY DEF BufTypeOK
<1>2. /\ first \in Seq({"lead", "cont", "hit"})
      /\ Len(first) \in Nat /\ Len(first) >= 1 /\ first[1] # "cont"
  BY CharFact
<1>3. second \in Seq({"lead", "cont", "hit"}) /\ Len(second) \in Nat
  <2>1. CASE second \in Chars
    BY <2>1, CharFact
  <2>2. CASE second = <<>>
    BY <2>2
  <2> QED BY <2>1, <2>2
<1>4. /\ stream \o first \in Seq({"lead", "cont", "hit"})
      /\ Len(stream \o first) = Len(stream) + Len(first)
  BY <1>1, <1>2
<1>5. /\ bytes \in Seq({"lead", "cont", "hit"})
      /\ Len(bytes) = Len(stream) + Len(first) + Len(second)
  BY <1>1, <1>2, <1>3, <1>4
<1>6. \A i \in 1 .. Len(stream) : bytes[i] = stream[i]
  BY <1>1, <1>2, <1>3, <1>4
<1>7. bytes[Len(stream) + 1] = first[1]
  BY <1>1, <1>2, <1>3, <1>4
<1>8. ASSUME NEW c \in 0 .. Len(stream), Boundary(stream, c)
      PROVE  Boundary(bytes, c)
  BY <1>1, <1>2, <1>6, <1>7, <1>8 DEF Boundary
<1> QED BY <1>1, <1>2, <1>3, <1>5, <1>8

\* appendOutput: the ring moves on to a character, and what is left fits.
LEMMA CutFact ==
  ASSUME BufTypeOK, NEW bytes \in Seq({"lead", "cont", "hit"}),
         Len(bytes) > Len(stream), Boundary(bytes, base)
  PROVE  /\ Cut(bytes) \in base .. Len(bytes)
         /\ Len(bytes) - Cut(bytes) <= PTY_BUFFER_BYTES
         /\ Boundary(bytes, Cut(bytes))
<1> DEFINE Ends == {c \in Len(bytes) - PTY_BUFFER_BYTES .. Len(bytes) : Boundary(bytes, c)}
<1>1. /\ Len(bytes) \in Nat /\ Len(stream) \in Nat
      /\ base \in Nat /\ base <= Len(stream) /\ PTY_BUFFER_BYTES \in Nat
  BY BufferAssumption DEF BufTypeOK
<1>2. CASE ~(Len(bytes) - base > PTY_BUFFER_BYTES)
  BY <1>1, <1>2 DEF Cut
<1>3. CASE Len(bytes) - base > PTY_BUFFER_BYTES
  <2>1. Len(bytes) \in Ends
    BY <1>1, <1>3 DEF Boundary
  <2>2. Ends \subseteq Nat /\ Ends # {}
    BY <1>1, <1>3, <2>1
  <2>3. Min(Ends) \in Ends
    BY <2>2, MinOfNats
  <2>4. Cut(bytes) = Min(Ends)
    BY <1>3 DEF Cut
  <2> QED BY <1>1, <1>3, <2>3, <2>4
<1> QED BY <1>2, <1>3

\* A chunk begins and ends between characters, and is empty at the end only.
LEMMA ChunkFact ==
  ASSUME BufTypeOK, NEW from \in 0 .. Len(stream), NEW limit \in Limits,
         Boundary(stream, from)
  PROVE  /\ ChunkEnd(from, limit) \in from .. Len(stream)
         /\ Boundary(stream, ChunkEnd(from, limit))
         /\ ChunkEnd(from, limit) = from => from = Len(stream)
<1> DEFINE Backs  == {from} \cup {e \in from .. from + limit : e <= Len(stream) /\ Boundary(stream, e)}
           Aheads == {e \in from + 1 .. Len(stream) : Boundary(stream, e)}
<1>1. Len(stream) \in Nat /\ from \in Nat /\ limit \in Nat /\ from <= Len(stream)
  BY BufferAssumption DEF BufTypeOK, Limits
<1>2. Backs \subseteq Nat /\ Backs # {} /\ \A e \in Backs : e <= Len(stream)
  BY <1>1
<1>3. Max(Backs) \in Backs /\ Max(Backs) >= from
  BY <1>1, <1>2, MaxOfNats
<1>4. Max(Backs) \in from .. Len(stream) /\ Boundary(stream, Max(Backs))
  BY <1>1, <1>2, <1>3
<1>5. CASE Max(Backs) > from \/ from = Len(stream)
  <2>1. ChunkEnd(from, limit) = Max(Backs)
    BY <1>5 DEF ChunkEnd
  <2> QED BY <1>1, <1>4, <1>5, <2>1
<1>6. CASE ~(Max(Backs) > from \/ from = Len(stream))
  <2>1. ChunkEnd(from, limit) = Min(Aheads)
    BY <1>6 DEF ChunkEnd
  <2>2. Len(stream) \in Aheads
    BY <1>1, <1>6 DEF Boundary
  <2>3. Aheads \subseteq Nat
    BY <1>1
  <2>4. Min(Aheads) \in Aheads
    BY <2>2, <2>3, MinOfNats
  <2> QED BY <1>1, <2>1, <2>4
<1> QED BY <1>5, <1>6

\* What a read returns.
LEMMA SliceFact ==
  ASSUME BufTypeOK, Boundary(stream, base),
         NEW requested \in 0 .. Len(stream), Boundary(stream, requested), NEW limit \in Limits
  PROVE  LET r == Slice(requested, limit) IN
         /\ r \in Reply
         /\ r.from \in requested .. Len(stream) /\ r.to \in r.from .. Len(stream)
         /\ r.size = r.to - r.from
         /\ Boundary(stream, r.from) /\ Boundary(stream, r.to)
         /\ r.missed <=> r.from > requested
         /\ r.more => r.to > r.from
<1> DEFINE from == IF requested < base THEN base ELSE requested
           end  == ChunkEnd(from, limit)
<1>1. /\ Len(stream) \in Nat /\ Len(stream) <= StreamBound /\ StreamBound \in Nat
      /\ base \in 0 .. Len(stream)
  BY BufferAssumption DEF BufTypeOK, Cursors
<1>2. /\ from \in requested .. Len(stream) /\ Boundary(stream, from)
      /\ requested < base <=> from > requested
  BY <1>1
<1>3. /\ end \in from .. Len(stream) /\ Boundary(stream, end)
      /\ end = from => from = Len(stream)
  BY <1>1, <1>2, ChunkFact
<1> HIDE DEF end
<1>4. from + (end - from) = end
  BY <1>1, <1>2, <1>3
<1>5. Slice(requested, limit) =
        [from |-> from, size |-> end - from, to |-> end, missed |-> requested < base, more |-> end < Len(stream)]
  BY <1>4 DEF Slice, end
<1>6. /\ from \in Cursors /\ end - from \in Cursors /\ end \in Cursors
      /\ (requested < base) \in BOOLEAN /\ (end < Len(stream)) \in BOOLEAN
  BY <1>1, <1>2, <1>3 DEF Cursors
<1>7. Slice(requested, limit) \in Reply
  BY <1>5, <1>6 DEF Reply
<1> DEFINE r == Slice(requested, limit)
<1>8. /\ r.from = from /\ r.size = end - from /\ r.to = end
      /\ r.missed = (requested < base) /\ r.more = (end < Len(stream))
  BY <1>5
<1> HIDE DEF from, r
<1>9. /\ r.missed <=> r.from > requested
      /\ r.more => r.to > r.from
  <2>1. r.from > requested <=> from > requested
    BY <1>8
  <2>2. end < Len(stream) => end > from
    BY <1>1, <1>2, <1>3
  <2>3. r.to > r.from <=> end > from
    BY <1>8
  <2>4. (r.missed <=> requested < base) /\ (r.more <=> end < Len(stream))
    BY <1>8, Zenon
  <2> QED BY <1>2, <2>1, <2>2, <2>3, <2>4
<1>10. /\ r.from \in requested .. Len(stream) /\ r.to \in r.from .. Len(stream)
       /\ r.size = r.to - r.from
       /\ Boundary(stream, r.from) /\ Boundary(stream, r.to)
  BY <1>1, <1>2, <1>3, <1>8
<1> QED BY <1>7, <1>9, <1>10 DEF r

-----------------------------------------------------------------------------
\* The inductive invariant: the client's cursor is between two characters too, and its
\* last reply lies in what was printed.
BufIInv ==
  /\ BufTypeOK /\ OutputFollowed /\ NoLostWakeup
  /\ Boundary(stream, cursor)
  /\ reply.from <= Len(stream) /\ reply.to <= Len(stream)

LEMMA BufInitIInv == BufInit => BufIInv
<1> SUFFICES ASSUME BufInit PROVE BufIInv
  OBVIOUS
<1> USE BufferAssumption DEF BufInit
<1>1. Len(stream) = 0 /\ stream \in Seq({"lead", "cont", "hit"})
  OBVIOUS
<1>2. NoSearch \in [start : Cursors, limit : Limits] /\ reply \in Reply
  BY DEF NoSearch, Cursors, Limits, Reply
<1>3. BufTypeOK
  <2>1. base \in 0 .. Len(stream) /\ Len(stream) - base <= PTY_BUFFER_BYTES /\ Len(stream) \in Cursors
    BY <1>1 DEF Cursors
  <2>2. {cursor, received, skipped} \subseteq 0 .. Len(stream)
    BY <1>1
  <2> QED BY <1>1, <1>2, <2>1, <2>2 DEF BufTypeOK
<1>4. OutputFollowed
  BY <1>1 DEF OutputFollowed, Boundary
<1>5. NoLostWakeup
  BY DEF NoLostWakeup
<1> QED BY <1>1, <1>3, <1>4, <1>5 DEF BufIInv, Boundary

\* The awaited pattern is looked for in what the ring holds and the call asked for.
LEMMA MatchesSame ==
  ASSUME UNCHANGED <<stream, base, search>>
  PROVE  Matches' = Matches
BY DEF Matches, Slice, ChunkEnd, Boundary

\* An append moves the ring, and wakes everyone who sleeps.
LEMMA AppendStep ==
  ASSUME BufIInv, AppendOutput
  PROVE  BufIInv'
<1>1. PICK first \in Chars, second \in Chars \cup {<<>>} :
        /\ Drained /\ Len(stream \o first \o second) <= StreamBound
        /\ stream' = stream \o first \o second
        /\ base' = Cut(stream \o first \o second)
        /\ reader' = Wake(reader) /\ waiter' = Wake(waiter)
        /\ UNCHANGED <<over, cursor, told, skipped, received, reply, search, expired>>
  BY DEF AppendOutput
<1>2. BufTypeOK /\ OutputFollowed /\ Boundary(stream, cursor)
      /\ reply.from <= Len(stream) /\ reply.to <= Len(stream)
  BY DEF BufIInv
<1>3. /\ stream' \in Seq({"lead", "cont", "hit"})
      /\ Len(stream') \in Nat /\ Len(stream') > Len(stream)
      /\ \A c \in 0 .. Len(stream) : Boundary(stream, c) => Boundary(stream', c)
  BY <1>1, <1>2, AppendFact
<1>4. /\ Len(stream) \in Nat /\ base \in 0 .. Len(stream)
      /\ cursor \in 0 .. Len(stream) /\ received \in 0 .. Len(stream) /\ skipped \in 0 .. Len(stream)
      /\ reply \in Reply /\ reply.from \in 0 .. Len(stream) /\ reply.to \in 0 .. Len(stream)
  BY <1>2 DEF BufTypeOK, Reply, Cursors
<1>5. /\ Boundary(stream', base) /\ Boundary(stream', cursor)
      /\ Boundary(stream', reply.from) /\ Boundary(stream', reply.to)
  BY <1>2, <1>3, <1>4 DEF OutputFollowed
<1>6. base' \in base .. Len(stream') /\ Len(stream') - base' <= PTY_BUFFER_BYTES /\ Boundary(stream', base')
  BY <1>1, <1>2, <1>3, <1>5, CutFact
<1>7. BufTypeOK'
  <2>1. Len(stream') \in Cursors' /\ base' \in 0 .. Len(stream')
    BY <1>1, <1>3, <1>4, <1>6, BufferAssumption DEF Cursors
  <2>2. {cursor, received, skipped}' \subseteq 0 .. Len(stream')
    BY <1>1, <1>3, <1>4
  <2>3. /\ reader' \in {"idle", "asleep", "woken"}
        /\ waiter' \in {"none", "woken", "asleep", "matched", "exited", "timeout"}
    BY <1>1, <1>2 DEF Wake, BufTypeOK
  <2> QED BY <1>1, <1>2, <1>3, <1>6, <2>1, <2>2, <2>3 DEF BufTypeOK, Cursors, Limits, Reply
<1>8. OutputFollowed'
  BY <1>1, <1>2, <1>5, <1>6 DEF OutputFollowed
<1>9. NoLostWakeup'
  BY <1>1 DEF NoLostWakeup, Wake
<1>10. Boundary(stream', cursor') /\ reply'.from <= Len(stream') /\ reply'.to <= Len(stream')
  BY <1>1, <1>3, <1>4, <1>5
<1> QED BY <1>7, <1>8, <1>9, <1>10 DEF BufIInv

\* A delivery: the account of the client goes on where its last one ended.
LEMMA DeliverStep ==
  ASSUME BufIInv, NEW limit \in Limits, Deliver(limit)
  PROVE  BufIInv'
<1> DEFINE r == Slice(cursor, limit)
<1>1. BufTypeOK /\ OutputFollowed /\ NoLostWakeup /\ Boundary(stream, cursor)
  BY DEF BufIInv
<1>2. /\ Len(stream) \in Nat /\ Len(stream) \in Cursors /\ base \in 0 .. Len(stream)
      /\ cursor \in 0 .. Len(stream) /\ received \in 0 .. Len(stream) /\ skipped \in 0 .. Len(stream)
      /\ told \in BOOLEAN
  BY <1>1, BufferAssumption DEF BufTypeOK, Cursors
<1>3. /\ r \in Reply
      /\ r.from \in cursor .. Len(stream) /\ r.to \in r.from .. Len(stream)
      /\ r.size = r.to - r.from
      /\ Boundary(stream, r.from) /\ Boundary(stream, r.to)
      /\ r.missed <=> r.from > cursor
      /\ r.more => r.to > r.from
  BY <1>1, <1>2, SliceFact DEF OutputFollowed
<1> HIDE DEF r
<1>4. /\ reply' = r /\ cursor' = r.to
      /\ told' = (told \/ r.missed)
      /\ received' = received + r.size
      /\ skipped' = skipped + (r.from - cursor)
      /\ reader' = "idle"
      /\ UNCHANGED <<stream, base, over, waiter, search, expired>>
  BY DEF Deliver, r, waiterVars
<1>5. received + skipped = cursor /\ (told <=> skipped > 0)
  BY <1>1 DEF OutputFollowed
<1>6. /\ received' + skipped' = cursor'
      /\ received' \in 0 .. Len(stream) /\ skipped' \in 0 .. Len(stream) /\ cursor' \in 0 .. Len(stream)
      /\ skipped' > 0 <=> skipped > 0 \/ r.from > cursor
  <2>1. r.from \in Nat /\ r.to \in Nat /\ r.from >= cursor /\ r.to >= r.from /\ r.to <= Len(stream)
    BY <1>2, <1>3
  <2>2. /\ received' = received + (r.to - r.from) /\ skipped' = skipped + (r.from - cursor)
        /\ cursor' = r.to
    BY <1>3, <1>4
  <2>3. received \in Nat /\ skipped \in Nat /\ cursor \in Nat
    BY <1>2
  <2>4. received' + skipped' = cursor'
    BY <1>5, <2>1, <2>2, <2>3
  <2>5. received' \in Nat /\ skipped' \in Nat /\ cursor' \in Nat
    BY <2>1, <2>2, <2>3
  <2>6. skipped' > 0 <=> (skipped > 0 \/ r.from > cursor)
    BY <2>1, <2>2, <2>3
  <2>7. cursor' <= Len(stream)
    BY <2>1, <2>2
  <2>8. Len(stream) \in Nat
    BY <1>2
  <2>9. ASSUME NEW a \in Nat, NEW b \in Nat, NEW n \in Nat, a + b <= n
        PROVE  a \in 0 .. n /\ b \in 0 .. n
    BY <2>9
  <2>10. received' \in 0 .. Len(stream) /\ skipped' \in 0 .. Len(stream)
    BY <2>4, <2>5, <2>7, <2>8, <2>9
  <2>11. cursor' \in 0 .. Len(stream)
    BY <2>5, <2>7, <2>8
  <2> QED BY <2>4, <2>6, <2>10, <2>11
<1>7. told' \in BOOLEAN /\ (told' <=> skipped' > 0)
  BY <1>2, <1>3, <1>4, <1>5, <1>6 DEF Reply
<1>8. BufTypeOK'
  BY <1>1, <1>3, <1>4, <1>6, <1>7 DEF BufTypeOK, Cursors, Limits, Reply
<1>9. OutputFollowed'
  BY <1>1, <1>3, <1>4, <1>6, <1>7 DEF OutputFollowed, Boundary
<1>10. NoLostWakeup'
  <2>1. Matches' = Matches
    BY <1>4, MatchesSame
  <2> QED BY <1>1, <1>4, <2>1 DEF NoLostWakeup
<1>11. Boundary(stream', cursor') /\ reply'.from <= Len(stream') /\ reply'.to <= Len(stream')
  BY <1>2, <1>3, <1>4
<1> QED BY <1>8, <1>9, <1>10, <1>11 DEF BufIInv

\* A step that leaves the ring and the client's account alone.
LEMMA QuietStep ==
  ASSUME BufIInv, UNCHANGED <<stream, base, cursor, told, skipped, received, reply>>,
         BufTypeOK', NoLostWakeup'
  PROVE  BufIInv'
BY DEF BufIInv, OutputFollowed, Boundary

LEMMA NextBufIInv == BufIInv /\ [BufNext]_bufVars => BufIInv'
<1> SUFFICES ASSUME BufIInv, [BufNext]_bufVars PROVE BufIInv'
  OBVIOUS
<1> USE DEF readerVars, waiterVars
<1>0. BufTypeOK /\ NoLostWakeup
  BY DEF BufIInv
<1>1. CASE AppendOutput
  BY <1>1, AppendStep
<1>2. CASE EndEvent
  <2>1. BufTypeOK'
    BY <1>0, <1>2 DEF EndEvent, BufTypeOK, Wake, Cursors, Limits, Reply
  <2>2. NoLostWakeup'
    BY <1>0, <1>2 DEF EndEvent, NoLostWakeup, Wake
  <2> QED BY <1>2, <2>1, <2>2, QuietStep DEF EndEvent
<1>3. CASE GiveUp
  <2>1. BufTypeOK'
    BY <1>0, <1>3 DEF GiveUp, BufTypeOK, Cursors, Limits, Reply
  <2>2. Matches' = Matches
    BY <1>3, MatchesSame DEF GiveUp
  <2>3. NoLostWakeup'
    BY <1>0, <1>3, <2>2 DEF GiveUp, NoLostWakeup
  <2> QED BY <1>3, <2>1, <2>3, QuietStep DEF GiveUp
<1>4. CASE Read
  BY <1>4, DeliverStep DEF Read
<1>5. CASE Sleep
  <2>1. BufTypeOK'
    BY <1>0, <1>5 DEF Sleep, BufTypeOK, Cursors, Limits, Reply
  <2>2. Matches' = Matches
    BY <1>5, MatchesSame DEF Sleep
  <2>3. NoLostWakeup'
    BY <1>0, <1>5, <2>2 DEF Sleep, NoLostWakeup
  <2> QED BY <1>5, <2>1, <2>3, QuietStep DEF Sleep
<1>6. CASE SleepTimer
  <2>1. BufTypeOK'
    BY <1>0, <1>6 DEF SleepTimer, BufTypeOK, Cursors, Limits, Reply
  <2>2. Matches' = Matches
    BY <1>6, MatchesSame DEF SleepTimer
  <2>3. NoLostWakeup'
    BY <1>0, <1>6, <2>2 DEF SleepTimer, NoLostWakeup
  <2> QED BY <1>6, <2>1, <2>3, QuietStep DEF SleepTimer
<1>7. CASE WokenRead
  BY <1>7, DeliverStep DEF WokenRead
<1>8. CASE WaitFor
  <2>1. PICK start \in {base, cursor}, limit \in Limits : search' = [start |-> start, limit |-> limit]
    BY <1>8 DEF WaitFor
  <2>2. search' \in [start : Cursors, limit : Limits]
    <3>1. start \in Cursors
      BY <1>0, BufferAssumption DEF BufTypeOK, Cursors
    <3> QED BY <2>1, <3>1
  <2>3. BufTypeOK'
    BY <1>0, <1>8, <2>2 DEF WaitFor, BufTypeOK, Cursors, Limits, Reply
  <2>4. NoLostWakeup'
    BY <1>0, <1>8 DEF WaitFor, NoLostWakeup
  <2> QED BY <1>8, <2>3, <2>4, QuietStep DEF WaitFor
<1>9. CASE Try
  <2>1. NoSearch \in [start : Cursors, limit : Limits]
    BY BufferAssumption DEF NoSearch, Cursors, Limits
  <2>2. /\ waiter' \in {"matched", "exited", "timeout", "asleep"}
        /\ waiter' = "asleep" => ~Matches /\ over = "no" /\ search' = search
        /\ search' = search \/ search' = NoSearch
        /\ expired' \in BOOLEAN
        /\ UNCHANGED <<stream, base, over, reader, cursor, told, skipped, received, reply>>
    BY <1>9 DEF Try, Settle
  <2>3. BufTypeOK'
    BY <1>0, <2>1, <2>2 DEF BufTypeOK, Cursors, Limits, Reply
  <2>4. waiter' = "asleep" => ~Matches'
    BY <2>2, MatchesSame
  <2>5. NoLostWakeup'
    BY <1>0, <2>2, <2>4 DEF NoLostWakeup
  <2> QED BY <2>2, <2>3, <2>5, QuietStep
<1>10. CASE Deadline
  <2>1. BufTypeOK'
    BY <1>0, <1>10 DEF Deadline, BufTypeOK, Cursors, Limits, Reply
  <2>2. Matches' = Matches
    BY <1>10, MatchesSame DEF Deadline
  <2>3. NoLostWakeup'
    BY <1>0, <1>10, <2>2 DEF Deadline, NoLostWakeup
  <2> QED BY <1>10, <2>1, <2>3, QuietStep DEF Deadline
<1>11. CASE WaitTimer
  <2>1. BufTypeOK'
    BY <1>0, <1>11 DEF WaitTimer, BufTypeOK, Cursors, Limits, Reply
  <2>2. NoLostWakeup'
    BY <1>0, <1>11 DEF WaitTimer, NoLostWakeup
  <2> QED BY <1>11, <2>1, <2>2, QuietStep DEF WaitTimer
<1>12. CASE UNCHANGED bufVars
  <2>1. BufTypeOK'
    BY <1>0, <1>12 DEF bufVars, BufTypeOK, Cursors, Limits, Reply
  <2>2. Matches' = Matches
    BY <1>12, MatchesSame DEF bufVars
  <2>3. NoLostWakeup'
    BY <1>0, <1>12, <2>2 DEF bufVars, NoLostWakeup
  <2> QED BY <1>12, <2>1, <2>3, QuietStep DEF bufVars
<1> QED
  BY <1>1, <1>2, <1>3, <1>4, <1>5, <1>6, <1>7, <1>8, <1>9, <1>10, <1>11, <1>12 DEF BufNext

LEMMA BufInvariance == BufSpec => []BufIInv
BY BufInitIInv, NextBufIInv, PTL DEF BufSpec

\* The ring never holds more than PTY_BUFFER_BYTES, and no cursor, neither the client's nor
\* one in a reply, points beyond what was printed.
THEOREM BufTypeCorrect == BufSpec => []BufTypeOK
<1>1. BufIInv => BufTypeOK
  BY DEF BufIInv
<1> QED BY <1>1, BufInvariance, PTL

\* A client that follows the output gets all of it, in whole characters, however the ring
\* was cut and the reads were limited: readPtySessionInternal and appendOutput.
THEOREM ClientGetsAll == BufSpec => []OutputFollowed
<1>1. BufIInv => OutputFollowed
  BY DEF BufIInv
<1> QED BY <1>1, BufInvariance, PTL

\* No append and no exit event is slept through: readPtySessionWait and waitForPtyPattern
\* sleep only when there is nothing to read, no match and no reported end.
THEOREM NobodyOversleeps == BufSpec => []NoLostWakeup
<1>1. BufIInv => NoLostWakeup
  BY DEF BufIInv
<1> QED BY <1>1, BufInvariance, PTL

-----------------------------------------------------------------------------
(* One run of a child process. *)

\* Before the spawn there is nothing to time out, to read from or to kill.
NotSpawned == child = "none" => timers = {} /\ ~pipesOpen

\* Codes are those of children that ended, and only they have pipes to drain.
CodesAreReal == (exitCode # NoCode \/ "drain" \in timers) => child = "ended"

\* The grace timer is that of a time limit that killed the child while the promise
\* was pending; no limit is armed behind a promise that settled.
TimersKill ==
  /\ "grace" \in timers => timedOut /\ killing = "inTime"
  /\ settled # Pending => "limit" \notin timers

\* What is kept of the output is its beginning, and nothing comes in behind the result.
Counted ==
  /\ captured = IF seen < MaxOutput THEN seen ELSE MaxOutput
  /\ settled.kind = "value" => ~pipesOpen

\* The inductive invariant.
RunIInv == RunTypeOK /\ NotSpawned /\ CodesAreReal /\ TimersKill /\ Counted /\ KilledInTime /\ ResultIsReal

-----------------------------------------------------------------------------
\* A result is neither pending nor a rejection.
LEMMA KindsDiffer ==
  /\ Pending.kind = "pending" /\ Rejection.kind = "rejected"
  /\ \A r \in Result : r.kind = "value"
  BY DEF Pending, Rejection, Result

\* The first call of finish settles with the state of the moment, a later one does nothing.
LEMMA FinishSettles ==
  ASSUME RunTypeOK, NEW code \in ExitCodes \cup {-1}, NEW late \in SUBSET {"limit", "grace", "drain"},
         Finish(code, late)
  PROVE  /\ settled' \in {Pending, Rejection} \cup Result /\ settled' # Pending
         /\ timers' \subseteq late
         /\ settled # Pending => settled' = settled
         /\ settled = Pending => /\ settled'.code = code /\ settled'.seen = seen
                                 /\ settled'.truncated <=> seen > captured
                                 /\ timers' = late \ {"limit", "drain"}
<1>1. CASE settled # Pending
  BY <1>1 DEF Finish, RunTypeOK
<1>2. CASE settled = Pending
  <2> DEFINE cut == seen > captured
             r == [kind |-> "value", code |-> code, timedOut |-> timedOut, truncated |-> cut, seen |-> seen]
  <2>1. settled' = r /\ timers' = late \ {"limit", "drain"}
    BY <1>2 DEF Finish
  <2>2. cut \in BOOLEAN /\ timedOut \in BOOLEAN /\ seen \in 0 .. MaxSeen
    BY DEF RunTypeOK
  <2>3. r \in Result
    <3> HIDE DEF cut
    <3> QED
      BY <2>2 DEF Result
  <2>4. r # Pending
    BY <2>3, KindsDiffer
  <2>5. r.code = code /\ r.seen = seen /\ (r.truncated <=> seen > captured)
    OBVIOUS
  <2> HIDE DEF r
  <2> QED
    BY <1>2, <2>1, <2>3, <2>4, <2>5
<1> QED
  BY <1>1, <1>2

LEMMA InitRunIInv == RunInit => RunIInv
<1> SUFFICES ASSUME RunInit PROVE RunIInv
  OBVIOUS
<1>1. RunTypeOK
  <2>1. exitCode \in ExitCodes
    BY DEF RunInit, ExitCodes
  <2>2. seen \in 0 .. MaxSeen /\ captured \in 0 .. MaxOutput
    BY OutputAssumption DEF RunInit, OutputAssumption
  <2> QED
    BY <2>1, <2>2 DEF RunInit, RunTypeOK
<1>2. settled = Pending /\ settled.kind # "value"
  BY KindsDiffer DEF RunInit
<1>3. NotSpawned /\ CodesAreReal /\ TimersKill
  BY DEF RunInit, NotSpawned, CodesAreReal, TimersKill
<1>4. Counted
  BY <1>2, OutputAssumption DEF RunInit, Counted, OutputAssumption
<1>5. KilledInTime /\ ResultIsReal
  BY <1>2 DEF RunInit, KilledInTime, ResultIsReal
<1> QED
  BY <1>1, <1>3, <1>4, <1>5 DEF RunIInv

LEMMA NextTypeOK == RunTypeOK /\ [RunNext]_runVars => RunTypeOK'
<1> SUFFICES ASSUME RunTypeOK, [RunNext]_runVars PROVE RunTypeOK'
  OBVIOUS
<1> USE OutputAssumption
<1>c. exitCode \in ExitCodes \cup {-1} /\ CodeOrFailure(exitCode) \in ExitCodes \cup {-1}
  BY DEF RunTypeOK, CodeOrFailure
<1>1. CASE Refuse
  BY <1>1 DEF Refuse, RunTypeOK
<1>2. CASE Spawn
  BY <1>2 DEF Spawn, RunTypeOK
<1>3. CASE Data
  BY <1>3 DEF Data, RunTypeOK, Capture
<1>4. CASE PipesEnd
  BY <1>4 DEF PipesEnd, RunTypeOK
<1>5. CASE ErrorEvent
  BY <1>5 DEF ErrorEvent, RunTypeOK
<1>6. ASSUME NEW code \in ExitCodes, ChildExit(code) PROVE RunTypeOK'
  BY <1>6 DEF ChildExit, RunTypeOK
<1>7. CASE CloseEvent
  <2>1. timers \in SUBSET {"limit", "grace", "drain"} /\ Finish(exitCode, timers)
    BY <1>7 DEF CloseEvent, RunTypeOK
  <2> QED
    BY <1>c, <1>7, <2>1, FinishSettles DEF CloseEvent, RunTypeOK
<1>8. CASE LimitTimer
  BY <1>8 DEF LimitTimer, KillTree, RunTypeOK
<1>9. CASE GraceTimer
  <2>1. timers \ {"grace"} \in SUBSET {"limit", "grace", "drain"} /\ Finish(CodeOrFailure(exitCode), timers \ {"grace"})
    BY <1>9 DEF GraceTimer, RunTypeOK
  <2> QED
    BY <1>c, <1>9, <2>1, FinishSettles DEF GraceTimer, RunTypeOK
<1>10. CASE DrainTimer
  <2>1. timers \ {"drain"} \in SUBSET {"limit", "grace", "drain"} /\ Finish(exitCode, timers \ {"drain"})
    BY <1>10 DEF DrainTimer, RunTypeOK
  <2> QED
    BY <1>c, <1>10, <2>1, FinishSettles DEF DrainTimer, RunTypeOK
<1>11. CASE Cancel
  BY <1>11 DEF Cancel, KillTree, RunTypeOK
<1>12. CASE UNCHANGED runVars
  BY <1>12 DEF runVars, RunTypeOK
<1> QED
  BY <1>1, <1>2, <1>3, <1>4, <1>5, <1>6, <1>7, <1>8, <1>9, <1>10, <1>11, <1>12 DEF RunNext

LEMMA NextRunIInv == RunIInv /\ [RunNext]_runVars => RunIInv'
<1> SUFFICES ASSUME RunIInv, [RunNext]_runVars PROVE RunIInv'
  OBVIOUS
<1>t. RunTypeOK /\ RunTypeOK'
  BY NextTypeOK DEF RunIInv
<1> DEFINE Rest == NotSpawned /\ CodesAreReal /\ TimersKill /\ Counted /\ KilledInTime /\ ResultIsReal
<1>i. Rest
  BY DEF RunIInv
<1> SUFFICES Rest'
  BY <1>t DEF RunIInv
<1> USE OutputAssumption, KindsDiffer DEF NotSpawned, CodesAreReal, TimersKill, Counted, KilledInTime, ResultIsReal
<1>1. CASE Refuse
  BY <1>1, <1>i DEF Refuse
<1>2. CASE Spawn
  BY <1>2, <1>i DEF Spawn
<1>3. CASE Data
  BY <1>3, <1>i, <1>t DEF Data, RunTypeOK, Capture
<1>4. CASE PipesEnd
  BY <1>4, <1>i DEF PipesEnd
<1>5. CASE ErrorEvent
  BY <1>5, <1>i DEF ErrorEvent, NoCode
<1>6. ASSUME NEW code \in ExitCodes, ChildExit(code) PROVE Rest'
  BY <1>6, <1>i DEF ChildExit, NoCode
<1>7. CASE CloseEvent
  <2>1. CloseEvent /\ Finish(exitCode, timers) /\ exitCode \in ExitCodes \cup {-1}
        /\ timers \in SUBSET {"limit", "grace", "drain"}
    BY <1>7, <1>t DEF CloseEvent, RunTypeOK
  <2> QED
    BY <1>i, <1>t, <2>1, FinishSettles DEF CloseEvent, NoCode, RunTypeOK
<1>8. CASE LimitTimer
  BY <1>8, <1>i DEF LimitTimer, KillTree
<1>9. CASE GraceTimer
  <2>1. /\ GraceTimer /\ Finish(CodeOrFailure(exitCode), timers \ {"grace"})
        /\ CodeOrFailure(exitCode) \in ExitCodes \cup {-1}
        /\ timers \ {"grace"} \in SUBSET {"limit", "grace", "drain"}
    BY <1>9, <1>t DEF GraceTimer, CodeOrFailure, RunTypeOK
  <2> QED
    BY <1>i, <1>t, <2>1, FinishSettles DEF GraceTimer, CodeOrFailure, NoCode, RunTypeOK
<1>10. CASE DrainTimer
  <2>1. /\ DrainTimer /\ Finish(exitCode, timers \ {"drain"}) /\ exitCode \in ExitCodes \cup {-1}
        /\ timers \ {"drain"} \in SUBSET {"limit", "grace", "drain"}
    BY <1>10, <1>t DEF DrainTimer, RunTypeOK
  <2> QED
    BY <1>i, <1>t, <2>1, FinishSettles DEF DrainTimer, NoCode, RunTypeOK
<1>11. CASE Cancel
  BY <1>11, <1>i DEF Cancel, KillTree
<1>12. CASE UNCHANGED runVars
  BY <1>12, <1>i DEF runVars
<1> QED
  BY <1>1, <1>2, <1>3, <1>4, <1>5, <1>6, <1>7, <1>8, <1>9, <1>10, <1>11, <1>12 DEF RunNext

LEMMA Invariance == RunSpec => []RunIInv
  BY InitRunIInv, NextRunIInv, PTL DEF RunSpec

\* ExecRun is type correct; in particular it never keeps more output than the limit.
THEOREM RunTypeCorrect == RunSpec => []RunTypeOK
<1>1. RunIInv => RunTypeOK
  BY DEF RunIInv
<1> QED
  BY Invariance, <1>1, PTL

\* A run that settled with its child alive has killed it, and no timer kills later.
THEOREM NoLateKill == RunSpec => []KilledInTime
<1>1. RunIInv => KilledInTime
  BY DEF RunIInv
<1> QED
  BY Invariance, <1>1, PTL

\* Success is the exit code 0 of the child, and the report of its output is exact.
THEOREM RealResult == RunSpec => []ResultIsReal
<1>1. RunIInv => ResultIsReal
  BY DEF RunIInv
<1> QED
  BY Invariance, <1>1, PTL
=============================================================================
