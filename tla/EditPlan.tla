------------------------------ MODULE EditPlan ------------------------------
(***************************************************************************)
(* From the request to the texts to write: the parser of apply_patch       *)
(* (src/src/patch/parser.ts), the checks of tools/applyPatch.ts before its *)
(* commit, the plan of patch/apply.ts, and the edits of editFile.ts and    *)
(* multiEditFile.ts.  ApplyPatch and CommitFlow say what then happens to   *)
(* the files; here they stay as they are, the caller has the lease.        *)
(***************************************************************************)
EXTENDS TextMatch

CONSTANTS
  Paths, NoPath, NoFile,
  PatchTexts,  \* the texts a file may have when a patch comes
  EditTexts,   \* the texts a file may have when an edit comes
  Lines,       \* the texts of the lines of a patch
  Olds, News,  \* what old_str and new_str may be
  MaxLines,    \* bound: lines of a patch
  MaxEdits,    \* bound: edits of one call; 50 in the code
  MaxFiles,    \* MAX_PATCH_FILES
  MaxHunks     \* MAX_PATCH_HUNKS

ASSUME PlanAssumption ==
  /\ EditTexts \cup Olds \cup News \subseteq {t \in Text : NoLoneCR(t)} /\ <<>> \notin Olds
  /\ NoPath \notin Paths /\ NoFile \notin PatchTexts \cup EditTexts
  /\ {MaxLines, MaxEdits, MaxFiles, MaxHunks} \subseteq Nat

VARIABLES
  files,   \* files[p] : the text of the file, NoFile if there is none
  stage,   \* where the call is; "planned" and "refused" are its ends
  input,   \* the lines of the patch read so far
  ops,     \* operations
  op,      \* currentOp  : empty, or the one operation being read
  hunk,    \* currentHunk: empty, or the one hunk being read
  path,    \* the file being edited
  text,    \* currentText, currentSrc: what the edits made of it so far
  edits,   \* those edits
  plan     \* changes

readVars == <<input, ops, op, hunk>>
editVars == <<path, text, edits>>
planVars == <<files, stage, readVars, editVars, plan>>

Marks   == {" ", "-", "+"}
Body    == [mark : Marks, text : Lines]
Headers == {"*** Add File", "*** Delete File", "*** Update File"}

\* The lines of a patch as the parser tells them apart; "?" begins in no known way.
PatchLine == [head : Headers \cup {"*** Move to"}, path : Paths] \cup [head : {"@@", "", "?"}] \cup Body
Is(l, heads) == "head" \in DOMAIN l /\ l.head \in heads
IsBody(l)    == "mark" \in DOMAIN l

NewOp(l) == [kind |-> l.head, path |-> l.path, to |-> NoPath, lines |-> <<>>, hunks |-> <<>>]
Change(kind, from, to, new) == [kind |-> kind, path |-> from, to |-> to, new |-> new]

Elements(s) == {s[i] : i \in 1 .. Len(s)}

PlanInit ==
  /\ files = [p \in Paths |-> NoFile] /\ stage = "request"
  /\ input = <<>> /\ ops = <<>> /\ op = <<>> /\ hunk = <<>>
  /\ path = NoPath /\ text = <<>> /\ edits = <<>> /\ plan = <<>>

Refuse == stage' = "refused" /\ UNCHANGED <<files, readVars, editVars, plan>>

-----------------------------------------------------------------------------
(* parsePatch: the lines inside the envelope, one by one. *)

InOp(kind) == op # <<>> /\ op[1].kind = kind

\* finishCurrentHunk
WithHunk == IF hunk = <<>> THEN op ELSE <<[op[1] EXCEPT !.hunks = Append(@, hunk[1])]>>

\* Fault: the hunk that is open when an operation ends is forgotten.
FinishedWithoutHunk == ops \o op

\* finishCurrentOp
Finished == ops \o WithHunk

\* An update has a hunk or a destination.
Finishable == InOp("*** Update File") => WithHunk[1].hunks # <<>> \/ op[1].to # NoPath

HunksIn(operations) ==
  LET upTo[i \in 0 .. Len(operations)] == IF i = 0 THEN 0 ELSE upTo[i - 1] + Len(operations[i].hunks)
  IN upTo[Len(operations)]

TotalHunks == HunksIn(Finished)

\* Fault: the operation that is open is not counted.
OpensUncounted(l) == Is(l, Headers) /\ Finishable /\ Len(ops) < MaxFiles

Opens(l)      == Is(l, Headers) /\ Finishable /\ Len(Finished) < MaxFiles
Moves(l)      == Is(l, {"*** Move to"}) /\ InOp("*** Update File") /\ hunk = <<>> /\ op[1].hunks = <<>>
OpensHunk(l)  == Is(l, {"@@"}) /\ InOp("*** Update File") /\ TotalHunks < MaxHunks
InHunk(l)     == IsBody(l) /\ hunk # <<>>
Adds(l)       == IsBody(l) /\ InOp("*** Add File") /\ l.mark = "+"
\* Blank lines between the operations, and all that precedes the hunks of an update.
PassedOver(l) ==
  \/ Is(l, {""}) /\ (op = <<>> \/ InOp("*** Delete File"))
  \/ (Is(l, {"", "?"}) \/ IsBody(l)) /\ InOp("*** Update File") /\ hunk = <<>>

ReadLine(l) ==
  /\ stage = "parse" /\ Len(input) < MaxLines /\ input' = Append(input, l)
  /\ \/ Opens(l) /\ ops' = Finished /\ op' = <<NewOp(l)>> /\ hunk' = <<>>
     \/ Moves(l) /\ op' = <<[op[1] EXCEPT !.to = l.path]>> /\ UNCHANGED <<ops, hunk>>
     \/ OpensHunk(l) /\ op' = WithHunk /\ hunk' = << <<>> >> /\ UNCHANGED ops
     \/ InHunk(l) /\ hunk' = <<Append(hunk[1], l)>> /\ UNCHANGED <<ops, op>>
     \/ Adds(l) /\ op' = <<[op[1] EXCEPT !.lines = Append(@, l.text)]>> /\ UNCHANGED <<ops, hunk>>
     \/ PassedOver(l) /\ UNCHANGED <<ops, op, hunk>>
  /\ UNCHANGED <<files, stage, editVars, plan>>

RefuseLine(l) ==
  /\ stage = "parse" /\ Len(input) < MaxLines
  /\ ~(Opens(l) \/ Moves(l) \/ OpensHunk(l) \/ InHunk(l) \/ Adds(l) \/ PassedOver(l))
  /\ Refuse

\* *** End Patch.  What the working tree is like matters from here on.
EndPatch ==
  /\ stage = "parse" /\ Finishable /\ Finished # <<>>
  /\ ops' = Finished /\ op' = <<>> /\ hunk' = <<>>
  /\ stage' = "claim" /\ files' \in [Paths -> PatchTexts \cup {NoFile}]
  /\ UNCHANGED <<input, editVars, plan>>

RefusePatch == stage = "parse" /\ ~(Finishable /\ Finished # <<>>) /\ Refuse

-----------------------------------------------------------------------------
(* applyPatch before its commit: the paths, the files, the plan. *)

Source(o) == IF o.kind = "*** Add File" THEN {} ELSE {o.path}
Target(o) == IF o.kind = "*** Delete File" THEN {} ELSE IF o.to # NoPath THEN {o.to} ELSE {o.path}

\* Fault: what is deleted or moved away is not claimed.
TargetsApart == \A i, j \in 1 .. Len(ops) : i # j => Target(ops[i]) \cap Target(ops[j]) = {}

\* No two operations share a source, and no two a target.
NoConflict ==
  \A i, j \in 1 .. Len(ops) :
    i # j => Source(ops[i]) \cap Source(ops[j]) = {} /\ Target(ops[i]) \cap Target(ops[j]) = {}

Claim ==
  /\ stage = "claim" /\ NoConflict /\ stage' = "verify"
  /\ UNCHANGED <<files, readVars, editVars, plan>>

\* The snapshots: sources are there, what is added or moved to is not.
Verified(o) ==
  /\ files[o.path] = NoFile <=> o.kind = "*** Add File"
  /\ o.to # NoPath => files[o.to] = NoFile

Verify ==
  /\ stage = "verify" /\ (\A i \in 1 .. Len(ops) : Verified(ops[i])) /\ stage' = "plan"
  /\ UNCHANGED <<files, readVars, editVars, plan>>

\* The paths or the files will not do; or a check fails of which the model does not know:
\* a denied path, a directory, expected_head_sha, expected_files.
RefuseFiles == stage \in {"claim", "verify"} /\ Refuse

Next1 == ops[Len(plan) + 1]   \* the operation to plan

Join(lines, last) ==
  LET upTo[i \in 0 .. Len(lines)] ==
        IF i = 0 THEN <<>> ELSE upTo[i - 1] \o lines[i] \o (IF i < Len(lines) \/ last THEN <<LF>> ELSE <<>>)
  IN upTo[Len(lines)]

PlanAdd ==
  /\ stage = "plan" /\ Len(plan) < Len(ops) /\ Next1.kind = "*** Add File"
  /\ plan' = Append(plan, Change("add", Next1.path, NoPath, FormatTextForWrite(Join(Next1.lines, TRUE), "lf")))
  /\ UNCHANGED <<files, stage, readVars, editVars>>

PlanDelete ==
  /\ stage = "plan" /\ Len(plan) < Len(ops) /\ Next1.kind = "*** Delete File"
  /\ plan' = Append(plan, Change("delete", Next1.path, NoPath, NoFile))
  /\ UNCHANGED <<files, stage, readVars, editVars>>

BeginUpdate ==
  /\ stage = "plan" /\ Len(plan) < Len(ops) /\ Next1.kind = "*** Update File"
  /\ stage' = "hunks" /\ path' = Next1.path /\ text' = files[Next1.path] /\ edits' = <<>>
  /\ UNCHANGED <<files, readVars, plan>>

Block(h, marks) ==
  LET kept == Gathered(h, {i \in 1 .. Len(h) : h[i].mark \in marks})
  IN Join([i \in 1 .. Len(kept) |-> kept[i].text], FALSE)

\* One edit: a text to find, its replacement, and whether it may occur several times.
HunkEdit(h) == [old |-> Block(h, {" ", "-"}), new |-> Block(h, {" ", "+"}), all |-> FALSE]

Selected(e) == FindTextMatches(text, e.old, e.all)
Suffices(found, all) == found # <<>> /\ (all \/ Len(found) = 1)
Accepted(e) == e.old # <<>> /\ Suffices(Selected(e), e.all)

Replace(e) ==
  /\ Accepted(e)
  /\ text' = ApplyReplacements(text, Selected(e), e.new) /\ edits' = Append(edits, e)
  /\ UNCHANGED <<files, stage, readVars, path, plan>>

NextHunk == HunkEdit(Next1.hunks[Len(edits) + 1])
EditHunk == stage = "hunks" /\ Len(edits) < Len(Next1.hunks) /\ Replace(NextHunk)
RefuseHunk == stage = "hunks" /\ Len(edits) < Len(Next1.hunks) /\ ~Accepted(NextHunk) /\ Refuse

Written == FormatTextForWrite(text, DetectEol(files[path]))

PlanUpdate ==
  /\ stage = "hunks" /\ Len(edits) = Len(Next1.hunks)
  /\ plan' = Append(plan, Change(IF Next1.to = NoPath THEN "update" ELSE "move", path, Next1.to, Written))
  /\ stage' = "plan"
  /\ UNCHANGED <<files, readVars, editVars>>

EndPlan ==
  /\ stage = "plan" /\ Len(plan) = Len(ops) /\ stage' = "planned"
  /\ UNCHANGED <<files, readVars, editVars, plan>>

-----------------------------------------------------------------------------
(* editFile and multiEditFile: any number of edits, the first one that fails ends it. *)

Edits == [old : Olds, new : News, all : BOOLEAN]

\* Bound: a text in which an edit left a CR without its LF is not edited on.
EditStep(e)   == stage = "edit" /\ Len(edits) < MaxEdits /\ NoLoneCR(text) /\ Replace(e)
RefuseEdit(e) == stage = "edit" /\ Len(edits) < MaxEdits /\ NoLoneCR(text) /\ ~Accepted(e) /\ Refuse

PlanEdits ==
  /\ stage = "edit" /\ edits # <<>>
  /\ plan' = <<Change("update", path, NoPath, Written)>> /\ stage' = "planned"
  /\ UNCHANGED <<files, readVars, editVars>>

\* A call begins: the text of a patch, or a file and what to edit in it.
Request ==
  /\ stage = "request"
  /\ \/ stage' = "parse" /\ UNCHANGED <<files, editVars>>
     \/ \E p \in Paths, t \in EditTexts :
          /\ stage' = "edit" /\ files' = [files EXCEPT ![p] = t]
          /\ path' = p /\ text' = t /\ UNCHANGED edits
  /\ UNCHANGED <<readVars, plan>>

PlanNext ==
  \/ Request
  \/ \E l \in PatchLine : ReadLine(l) \/ RefuseLine(l)
  \/ EndPatch \/ RefusePatch \/ Claim \/ Verify \/ RefuseFiles
  \/ PlanAdd \/ PlanDelete \/ BeginUpdate \/ EditHunk \/ RefuseHunk \/ PlanUpdate \/ EndPlan
  \/ \E e \in Edits : EditStep(e) \/ RefuseEdit(e)
  \/ PlanEdits

PlanSpec == PlanInit /\ [][PlanNext]_planVars

-----------------------------------------------------------------------------
\* A hunk belongs to an update and the destination of a move to it; nothing is kept
\* that is over a limit.
PlanTypeOK ==
  /\ files \in [Paths -> PatchTexts \cup EditTexts \cup {NoFile}]
  /\ stage \in {"request", "parse", "claim", "verify", "plan", "hunks", "edit", "planned", "refused"}
  /\ Elements(input) \subseteq PatchLine /\ Len(op) <= 1 /\ Len(hunk) <= 1
  /\ \A o \in Elements(ops \o op) :
       /\ o.kind \in Headers /\ o.path \in Paths /\ o.to \in Paths \cup {NoPath}
       /\ Elements(o.lines) \subseteq Lines /\ \A h \in Elements(o.hunks \o hunk) : Elements(h) \subseteq Body
       /\ o.hunks # <<>> \/ o.to # NoPath => o.kind = "*** Update File"
       /\ o.lines # <<>> => o.kind = "*** Add File"
  /\ hunk # <<>> => op # <<>> /\ op[1].kind = "*** Update File"
  /\ Len(ops \o op) <= MaxFiles /\ TotalHunks <= MaxHunks
  /\ path \in Paths \cup {NoPath} /\ Len(plan) <= Len(ops) + 1

\* The lines of s behind line i, up to the next line with one of the heads.
Behind(s, i, heads) == {j \in i + 1 .. Len(s) : \A k \in i + 1 .. j : ~Is(s[k], heads)}

\* What the lines of a patch say, read as a whole: the operations are the parts between
\* the headers, the hunks of an update those between its @@ lines.
Said(s, i) ==
  LET part  == Behind(s, i, Headers)
      moves == {j \in part : Is(s[j], {"*** Move to"})}
      added == Gathered(s, {j \in part : IsBody(s[j]) /\ Is(s[i], {"*** Add File"})})
      hunks == Kept(s, {j \in part : Is(s[j], {"@@"})})
  IN [kind  |-> s[i].head, path |-> s[i].path,
      to    |-> IF moves = {} THEN NoPath ELSE s[CHOOSE j \in moves : \A k \in moves : k <= j].path,
      lines |-> [k \in 1 .. Len(added) |-> added[k].text],
      hunks |-> [k \in 1 .. Len(hunks) |-> Gathered(s, Behind(s, hunks[k], Headers \cup {"@@"}))]]

AllSaid(s) ==
  LET heads == Kept(s, {i \in 1 .. Len(s) : Is(s[i], Headers)})
  IN [i \in 1 .. Len(heads) |-> Said(s, heads[i])]

\* No line of an accepted patch is lost, doubled or given to another file: what the
\* parser collected line by line is what the patch says as a whole.
ParsedAsWritten == stage = "claim" => ops = AllSaid(input)

\* The commit may rely on its plan (ApplyPatch starts from it): every path belongs to
\* one change, what a change reads or removes is there, what it creates is not.
Owned(c) == {c.path, c.to} \ {NoPath}
PlanIsSound ==
  stage = "planned" =>
    /\ \A i, j \in 1 .. Len(plan) : i # j => Owned(plan[i]) \cap Owned(plan[j]) = {}
    /\ \A c \in Elements(plan) :
         /\ files[c.path] = NoFile <=> c.kind = "add"
         /\ c.to # NoPath => files[c.to] = NoFile

\* "Mo rong old_str cho unique" (editFile.ts:62): what is replaced is old_str, up to line
\* ends and blanks in front of them; it is found wherever it is; and without replace_all
\* it does not occur, as it stands, a second time behind the place that is replaced.
MatchesAreRight ==
  stage = "edit" /\ edits = <<>> =>
  LET pieces == {Blankless(Slice(text, a, b)) : a, b \in 0 .. Len(text)} IN
  \A e \in [old : Olds, all : BOOLEAN] :
    LET found == Selected(e)
        bare  == Blankless(e.old) IN
    /\ \A m \in Elements(found) : Blankless(Slice(text, m.start, m.end)) = bare
    /\ found = <<>> => bare \notin pieces \ {<<>>}
    /\ Accepted(e) /\ ~e.all => \A a \in Exact(text, e.old) : a < found[1].end

\* Nothing but the matches changes: in a file whose lines end one way every byte in
\* front of, between and behind the matches stays, and the new text gets the line ends
\* of the file, unless a match cuts a CRLF in two.
RestIsKept ==
  stage = "planned" /\ Len(edits) = 1 /\ ops = <<>> =>
    LET old   == files[path]
        eol   == DetectEol(old)
        found == FindTextMatches(old, edits[1].old, edits[1].all)
    IN Uniform(old, eol) /\ (\A m \in Elements(found) : ~SplitsCRLF(old, m)) =>
         plan[1].new = Around(old, found, FormatTextForWrite(edits[1].new, eol))
=============================================================================
