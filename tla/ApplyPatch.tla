----------------------------- MODULE ApplyPatch -----------------------------
(***************************************************************************)
(* The commit of one apply_patch, phase F of src/src/tools/applyPatch.ts:  *)
(* temp files are prepared concurrently, renamed into place in order, the  *)
(* originals of moves and deletes are unlinked, and an error on the way    *)
(* rolls everything back from the snapshots in memory.                     *)
(*                                                                         *)
(* The plan was verified: sources exist, targets do not, no path occurs    *)
(* twice.  Change i owns the path src[i] and, if it is a move, dst[i].     *)
(* Any file operation may fail, the process may die between any two, and   *)
(* the files stay as they are.  The lease keeps the other tools out; an    *)
(* editor that writes the same files meanwhile is not modelled.            *)
(***************************************************************************)
EXTENDS Naturals, FiniteSets

CONSTANTS
  N,       \* the number of changes in the plan
  Workers  \* temp files prepared at a time: 8 in the code

ASSUME PatchAssumption == N \in Nat /\ Workers \in Nat \ {0}

Changes == 1 .. N
Kinds   == {"add", "update", "move", "delete"}
Content == {"none", "old", "new", "torn"}

VARIABLES
  kind,   \* kind[i] : what change i does
  src,    \* src[i]  : the file at the path of change i
  dst,    \* dst[i]  : the file at the destination of a move
  temp,   \* temp[i] : the temp file of change i: "none", "partial", "whole"
  prep,   \* prep[i] : its worker: "pending", "busy", "ok", "failed"
  phase,  \* where the call is; the last four are its ends
  pos,    \* the change the rollback is at
  crash   \* the phase the process died in, "none" while it lives

patchVars == <<kind, src, dst, temp, prep, phase, pos, crash>>

Commit   == {"prepare", "rename", "unlink"}
Rollback == {"cleanup", "restore"}
Ends     == {"done", "undone", "stuck", "crashed"}

Busy == {i \in Changes : prep[i] = "busy"}
Original(i) == IF kind[i] = "add" THEN "none" ELSE "old"

\* No worker is at work once the commit has begun, nor more than the limit before.
TypeOK ==
  /\ kind \in [Changes -> Kinds]
  /\ src \in [Changes -> Content] /\ dst \in [Changes -> Content]
  /\ temp \in [Changes -> {"none", "partial", "whole"}]
  /\ prep \in [Changes -> {"pending", "busy", "ok", "failed"}]
  /\ phase \in Commit \cup Rollback \cup Ends
  /\ pos \in 1 .. N + 1
  /\ crash \in {"none"} \cup Commit \cup Rollback
  /\ Cardinality(Busy) <= (IF phase = "prepare" \/ crash = "prepare" THEN Workers ELSE 0)

Init ==
  /\ kind \in [Changes -> Kinds]
  /\ src = [i \in Changes |-> Original(i)]
  /\ dst = [i \in Changes |-> "none"]
  /\ temp = [i \in Changes |-> "none"]
  /\ prep = [i \in Changes |-> "pending"]
  /\ phase = "prepare" /\ pos = 1 /\ crash = "none"

-----------------------------------------------------------------------------
First(set, i) == i \in set /\ \A j \in set : i <= j

\* A worker of mapLimit takes the next change: its temp file is created, or not.
\* A delete needs none.
BeginTemp(i) ==
  /\ phase = "prepare" /\ Cardinality(Busy) < Workers
  /\ First({j \in Changes : prep[j] = "pending"}, i)
  /\ \/ /\ kind[i] = "delete"
        /\ prep' = [prep EXCEPT ![i] = "ok"]
        /\ UNCHANGED temp
     \/ /\ kind[i] # "delete"
        /\ prep' = [prep EXCEPT ![i] = "busy"]
        /\ temp' = [temp EXCEPT ![i] = "partial"]
     \/ /\ prep' = [prep EXCEPT ![i] = "failed"]
        /\ UNCHANGED temp
  /\ UNCHANGED <<kind, src, dst, phase, pos, crash>>

\* writeFile settles: the temp file is whole, or its write failed half way.
EndTemp(i) ==
  /\ phase = "prepare" /\ prep[i] = "busy"
  /\ \/ /\ prep' = [prep EXCEPT ![i] = "ok"]
        /\ temp' = [temp EXCEPT ![i] = "whole"]
     \/ /\ prep' = [prep EXCEPT ![i] = "failed"]
        /\ UNCHANGED temp
  /\ UNCHANGED <<kind, src, dst, phase, pos, crash>>

\* Fault: the first failure is enough to go on.
PreparedOnFailure ==
  \/ \E i \in Changes : prep[i] = "failed"
  \/ \A i \in Changes : prep[i] = "ok"

\* Every worker of mapLimit is through.
Prepared == \A i \in Changes : prep[i] \in {"ok", "failed"}

EndPrepare ==
  /\ phase = "prepare" /\ Prepared
  /\ phase' = IF \E i \in Changes : prep[i] = "failed" THEN "cleanup" ELSE "rename"
  /\ UNCHANGED <<kind, src, dst, temp, prep, pos, crash>>

Fail ==
  /\ phase' = "cleanup"
  /\ UNCHANGED <<kind, src, dst, temp, prep, pos, crash>>

\* The file of change i that receives the new content becomes `content`.
SetTarget(i, content) ==
  IF kind[i] = "move" THEN dst' = [dst EXCEPT ![i] = content] /\ UNCHANGED src
                      ELSE src' = [src EXCEPT ![i] = content] /\ UNCHANGED dst

\* renameSync of the next temp file.
Rename(i) ==
  /\ phase = "rename" /\ First({j \in Changes : temp[j] = "whole"}, i)
  /\ SetTarget(i, "new")
  /\ temp' = [temp EXCEPT ![i] = "none"]
  /\ UNCHANGED <<kind, prep, phase, pos, crash>>

RenameFails == phase = "rename" /\ (\E i \in Changes : temp[i] = "whole") /\ Fail

\* Fault: the originals go as soon as one file was renamed.
RenamesMayEnd == \E i \in Changes : temp[i] = "none"

\* The loop over the temp files is over.
RenamesOver == \A i \in Changes : temp[i] # "whole"

EndRename ==
  /\ phase = "rename" /\ RenamesOver
  /\ phase' = "unlink"
  /\ UNCHANGED <<kind, src, dst, temp, prep, pos, crash>>

ToUnlink == {i \in Changes : kind[i] \in {"move", "delete"} /\ src[i] # "none"}

\* unlinkSync of the next deleted file or moved original.
Unlink(i) ==
  /\ phase = "unlink" /\ First(ToUnlink, i)
  /\ src' = [src EXCEPT ![i] = "none"]
  /\ UNCHANGED <<kind, dst, temp, prep, phase, pos, crash>>

UnlinkFails == phase = "unlink" /\ ToUnlink # {} /\ Fail

Succeed ==
  /\ phase = "unlink" /\ ToUnlink = {}
  /\ phase' = "done"
  /\ UNCHANGED <<kind, src, dst, temp, prep, pos, crash>>

-----------------------------------------------------------------------------
\* The rollback removes the recorded temp files; an unlink that fails is ignored.
Cleanup ==
  /\ phase = "cleanup"
  /\ \E kept \in SUBSET {i \in Changes : temp[i] = "whole"} :
       temp' = [i \in Changes |-> IF temp[i] = "whole" /\ i \notin kept THEN "none" ELSE temp[i]]
  /\ phase' = "restore"
  /\ UNCHANGED <<kind, src, dst, prep, pos, crash>>

\* writeFileSync of a snapshot truncates the file first.
RestoreBegin(i) ==
  /\ phase = "restore" /\ pos = i /\ kind[i] # "add" /\ src[i] # "torn"
  /\ src' = [src EXCEPT ![i] = "torn"]
  /\ UNCHANGED <<kind, dst, temp, prep, phase, pos, crash>>

\* Fault: the destination of a move stays.
RestoreEndKeepingCopy(i) ==
  /\ phase = "restore" /\ pos = i /\ (kind[i] = "add" \/ src[i] = "torn")
  /\ src' = [src EXCEPT ![i] = Original(i)]
  /\ pos' = i + 1
  /\ UNCHANGED <<kind, dst, temp, prep, phase, crash>>

\* The original is back; an added file or the destination of a move is removed.
RestoreEnd(i) ==
  /\ phase = "restore" /\ pos = i /\ (kind[i] = "add" \/ src[i] = "torn")
  /\ src' = [src EXCEPT ![i] = Original(i)]
  /\ dst' = [dst EXCEPT ![i] = "none"]
  /\ pos' = i + 1
  /\ UNCHANGED <<kind, temp, prep, phase, crash>>

\* A write or an unlink fails: the rest is not restored, and the error says so.
RestoreFails(i) ==
  /\ phase = "restore" /\ pos = i
  /\ \/ UNCHANGED src
     \/ /\ kind[i] = "move" /\ src[i] = "torn"
        /\ src' = [src EXCEPT ![i] = "old"]
  /\ phase' = "stuck"
  /\ UNCHANGED <<kind, dst, temp, prep, pos, crash>>

EndRestore ==
  /\ phase = "restore" /\ pos = N + 1
  /\ phase' = "undone"
  /\ UNCHANGED <<kind, src, dst, temp, prep, pos, crash>>

\* The server dies, for instance at the second Ctrl+C of a shutdown.
Crash ==
  /\ phase \notin Ends
  /\ crash' = phase /\ phase' = "crashed"
  /\ UNCHANGED <<kind, src, dst, temp, prep, pos>>

Next ==
  \/ \E i \in Changes :
       \/ BeginTemp(i) \/ EndTemp(i) \/ Rename(i) \/ Unlink(i)
       \/ RestoreBegin(i) \/ RestoreEnd(i) \/ RestoreFails(i)
  \/ EndPrepare \/ RenameFails \/ EndRename \/ UnlinkFails \/ Succeed
  \/ Cleanup \/ EndRestore \/ Crash

Spec == Init /\ [][Next]_patchVars

-----------------------------------------------------------------------------
Applied(i) ==
  /\ src[i] = IF kind[i] \in {"add", "update"} THEN "new" ELSE "none"
  /\ dst[i] = IF kind[i] = "move" THEN "new" ELSE "none"
Untouched(i) == src[i] = Original(i) /\ dst[i] = "none"

\* The answer of the tool is true: success means the whole plan is on disk and no
\* temp file is left; a failure whose rollback succeeded means every file is as it
\* was, whichever step failed.
AnswerIsTrue ==
  /\ phase = "done" => \A i \in Changes : Applied(i) /\ temp[i] = "none"
  /\ phase = "undone" => \A i \in Changes : Untouched(i)

\* At every moment every file is a whole version, the old or the new one, but for the
\* one file a rollback is just restoring; and a file to be updated always exists.
TornOnlyWhileRestored ==
  \A i \in Changes :
    /\ dst[i] # "torn"
    /\ src[i] = "torn" => i = pos /\ (phase \in {"restore", "stuck"} \/ crash = "restore")
    /\ kind[i] = "update" => src[i] # "none"

\* Until the rollback begins no original was removed before every new file was in
\* place: a moved file exists in one version.
OriginalsLast ==
  phase \in Commit \/ crash \in Commit =>
    \A i \in Changes : kind[i] # "add" /\ src[i] = "none" =>
      \A j \in Changes :
        /\ kind[j] \in {"add", "update"} => src[j] = "new"
        /\ kind[j] = "move" => dst[j] = "new"

\* A crash at any moment, of the commit or of the rollback, loses no text: the files
\* are whole but for the one that was being restored, and originals go last.
CrashLosesNothing == TornOnlyWhileRestored /\ OriginalsLast
=============================================================================
