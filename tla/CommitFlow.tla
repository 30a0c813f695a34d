----------------------------- MODULE CommitFlow -----------------------------
(***************************************************************************)
(* What the agent changed, and what git_commit makes of it: the touched    *)
(* paths (src/src/touched.ts), the tools that note them (edit_file,        *)
(* multi_edit_file, create_file, remove_file, move_file), git_commit,      *)
(* git_restore, git_stash, git_branch and git_push.                        *)
(*                                                                         *)
(* One repository.  All these tools run under its lane, so that one call   *)
(* is in progress at a time; people, terminals and the sub-agent do not,   *)
(* and change the files, the index and the branch at any moment.  Git      *)
(* itself is modelled from its commands' behaviour.                        *)
(***************************************************************************)
EXTENDS Naturals

CONSTANTS
  Files,     \* the paths
  Secret,    \* those on the deny-list
  Branches,  \* the names of branches
  Writable,  \* those that branchPrefix allows
  MaxCalls,  \* bound: calls of the tools
  MaxOthers  \* bound: changes made by others

ASSUME CommitAssumption ==
  /\ Secret \subseteq Files /\ Writable \subseteq Branches
  /\ MaxCalls \in Nat /\ MaxOthers \in Nat

Content == {"none", "base", "agent", "other"}   \* "none": no such file
Trees   == [Files -> Content]
NoStash == [base |-> [f \in Files |-> "none"], work |-> [f \in Files |-> "none"]]

VARIABLES
  head, index, work,  \* the last commit, the index, the working tree
  branch,             \* the branch that is checked out; head is its tip
  tips,               \* tips[b]: the tip of another branch, empty if there is no such branch
  stash,              \* the one stash entry: the commit it is based on, its files
  touched,            \* paths noted by the tools and not committed since
  step, all, staged,  \* git_commit in progress: how far, its argument, what it saw
  answer,             \* of the last call, if it was a commit or a push
  popped,             \* history: files that came back from the stash, until they are committed
  switched,           \* history: others switched the branch during the last git_commit
  calls, others       \* the bounded counters

refs == <<head, branch, tips>>
repo == <<refs, index, work, stash>>
flow == <<step, all, staged, switched>>
commitVars == <<repo, touched, flow, answer, popped, calls, others>>

\* Fault: the deny-list guards reads only.
EditableAny == Files

\* What the path checks let the tools write.
Editable == Files \ Secret

\* The tools touch nothing on the deny-list, and only a commit has a staged list.
TypeOK ==
  /\ head \in Trees /\ index \in Trees /\ work \in Trees
  /\ branch \in Branches /\ tips \in [Branches -> SUBSET Trees]
  /\ stash \in [base : Trees, work : Trees]
  /\ touched \subseteq Files \ Secret /\ popped \subseteq Files
  /\ step \in {"idle", "added", "checked"} /\ all \in BOOLEAN
  /\ staged \subseteq Files \ Secret /\ (staged # {} <=> step = "checked") /\ switched \in BOOLEAN
  /\ answer \in {"none", "error", "committed", "pushed"}
  /\ calls \in 0 .. MaxCalls /\ others \in 0 .. MaxOthers

Committed == {t \in [Files -> {"none", "base"}] : \A s \in Secret : t[s] = "none"}

\* A clean tree.
Init ==
  /\ head \in Committed /\ index = head /\ work = head /\ stash = NoStash
  /\ branch \in Branches /\ tips \in [Branches -> {{}} \cup {{t} : t \in Committed}] /\ tips[branch] = {}
  /\ touched = {} /\ popped = {}
  /\ step = "idle" /\ all = FALSE /\ staged = {} /\ switched = FALSE
  /\ answer = "none" /\ calls = 0 /\ others = 0

-----------------------------------------------------------------------------
\* A tool takes the lane.
Call ==
  /\ step = "idle" /\ calls < MaxCalls
  /\ calls' = calls + 1
  /\ UNCHANGED others

\* assertWritableBranch, at the beginning of every tool that writes.
WriteCall == Call /\ branch \in Writable

\* One of the tools that edit has changed `paths`.
NoteTouched(paths) ==
  /\ touched' = touched \cup paths
  /\ answer' = "none"
  /\ UNCHANGED <<refs, stash, flow, popped>>

\* atomicWriteText changes the file, unless it has the text already.
AtomicWrite(f, text) == text # work[f] /\ work' = [work EXCEPT ![f] = text]

\* edit_file: a write that changed nothing is not noted.
EditFile(f) ==
  /\ WriteCall /\ f \in Editable /\ work[f] # "none"
  /\ \E text \in {"base", "agent"} : AtomicWrite(f, text)
  /\ NoteTouched({f})
  /\ UNCHANGED index

\* multi_edit_file replaces several times in memory and writes once.
MultiEditFile(f) == EditFile(f)

CreateFile(f) ==
  /\ WriteCall /\ f \in Editable /\ work[f] = "none"
  /\ \E text \in {"base", "agent"} : work' = [work EXCEPT ![f] = text]
  /\ NoteTouched({f})
  /\ UNCHANGED index

\* git rm refuses a file that is changed or not committed.
RemoveFile(f) ==
  /\ WriteCall /\ f \in Editable
  /\ work[f] # "none" /\ index[f] = work[f] /\ head[f] = work[f]
  /\ work' = [work EXCEPT ![f] = "none"]
  /\ index' = [index EXCEPT ![f] = "none"]
  /\ NoteTouched({f})

\* git mv moves the file and its entry in the index, changed or not.
GitMv(f, g) ==
  /\ WriteCall /\ f \in Editable /\ g \in Editable
  /\ work[f] # "none" /\ index[f] # "none" /\ work[g] = "none"
  /\ work' = [work EXCEPT ![f] = "none", ![g] = work[f]]
  /\ index' = [index EXCEPT ![f] = "none", ![g] = index[f]]

\* Fault: only the old path is noted.
MoveFileNotingSource(f, g) == GitMv(f, g) /\ NoteTouched({f})

MoveFile(f, g) == GitMv(f, g) /\ NoteTouched({f, g})

\* git_restore: ls-files knows the file, checkout finds it in the last commit.
GitRestore(f) ==
  /\ WriteCall /\ f \in Editable /\ index[f] # "none" /\ head[f] # "none"
  /\ index' = [index EXCEPT ![f] = head[f]]
  /\ work' = [work EXCEPT ![f] = head[f]]
  /\ touched' = touched \ {f}
  /\ answer' = "none"
  /\ UNCHANGED <<refs, stash, flow, popped>>

-----------------------------------------------------------------------------
\* git add -A -- paths gives up, and stages nothing, if one of the paths is neither
\* in the index nor in the working tree.
GitAdd(paths) ==
  IF \A f \in paths : index[f] # "none" \/ work[f] # "none"
  THEN [f \in Files |-> IF f \in paths THEN work[f] ELSE index[f]]
  ELSE index

\* git_commit up to the staging, whose exit code it does not look at.
BeginCommit ==
  /\ WriteCall
  /\ \/ all' = TRUE /\ index' = work
     \/ all' = FALSE /\ touched # {} /\ index' = GitAdd(touched)
  /\ step' = "added" /\ switched' = FALSE /\ answer' = "none"
  /\ UNCHANGED <<refs, work, stash, touched, staged, popped>>

Staged == {f \in Files : index[f] # head[f]}

\* Fault: the deny-list is not checked.
AnyStaged == Staged # {}

\* What is staged may be committed.
MayCommit == Staged # {} /\ Staged \cap Secret = {}

CheckStaged ==
  /\ step = "added" /\ MayCommit
  /\ step' = "checked" /\ staged' = Staged
  /\ UNCHANGED <<repo, touched, all, switched, answer, popped, calls, others>>

\* Nothing is staged, or a file of the deny-list, which is unstaged.
RefuseStaged ==
  /\ step = "added" /\ ~MayCommit
  /\ index' = [f \in Files |-> IF f \in Secret THEN head[f] ELSE index[f]]
  /\ step' = "idle" /\ answer' = "error"
  /\ UNCHANGED <<refs, work, stash, touched, all, staged, switched, popped, calls, others>>

\* Fault: git commit without the paths.
IndexTree == index

\* git commit takes the index, git commit -- paths the files at the paths.
CommitTree ==
  IF all THEN index
  ELSE [f \in Files |-> IF f \in touched THEN work[f] ELSE head[f]]

\* git knows every path and there is something to commit.
CommitWorks ==
  /\ CommitTree # head
  /\ all \/ \A f \in touched : index[f] # "none" \/ head[f] # "none"

FinishCommit ==
  /\ step = "checked" /\ CommitWorks
  /\ head' = CommitTree
  /\ index' = [f \in Files |-> IF ~all /\ f \in touched THEN work[f] ELSE index[f]]
  /\ touched' = {} /\ popped' = {f \in popped : head'[f] # work[f] \/ index'[f] # work[f]}
  /\ step' = "idle" /\ staged' = {} /\ answer' = "committed"
  /\ UNCHANGED <<branch, tips, work, stash, all, switched, calls, others>>

CommitFails ==
  /\ step = "checked" /\ ~CommitWorks
  /\ step' = "idle" /\ staged' = {} /\ answer' = "error"
  /\ UNCHANGED <<repo, touched, all, switched, popped, calls, others>>

-----------------------------------------------------------------------------
Tracked(f) == index[f] # "none" \/ head[f] # "none"

\* git stash push saves and resets the tracked files; touched stays.
StashPush ==
  /\ WriteCall /\ stash = NoStash
  /\ \E f \in Files : Tracked(f) /\ (index[f] # head[f] \/ work[f] # head[f])
  /\ stash' = [base |-> head, work |-> [f \in Files |-> IF Tracked(f) THEN work[f] ELSE head[f]]]
  /\ index' = head
  /\ work' = [f \in Files |-> IF Tracked(f) THEN head[f] ELSE work[f]]
  /\ answer' = "none"
  /\ UNCHANGED <<refs, touched, flow, popped>>

\* What a pop has to bring back.
Saved == {f \in Files : stash.work[f] # stash.base[f] /\ stash.work[f] # index[f]}

\* git stash pop restores the files unstaged, and new ones staged.  It gives up when
\* one of them has changes; a pop that conflicts with a later commit is not modelled.
StashPop ==
  /\ WriteCall /\ stash # NoStash
  /\ \A f \in Saved : work[f] = index[f] /\ index[f] = stash.base[f]
  /\ work' = [f \in Files |-> IF f \in Saved THEN stash.work[f] ELSE work[f]]
  /\ index' = [f \in Files |->
                 IF f \in Saved /\ stash.base[f] = "none" THEN stash.work[f] ELSE index[f]]
  /\ stash' = NoStash /\ popped' = popped \cup Saved
  /\ answer' = "none"
  /\ UNCHANGED <<refs, touched, flow>>

\* Fault: git_push does not ask.
NeverPending == TRUE

\* git_push refuses while something is touched.
NothingPending == touched = {}

GitPush ==
  /\ WriteCall
  /\ answer' = IF NothingPending THEN "pushed" ELSE "error"
  /\ UNCHANGED <<repo, touched, flow, popped>>

\* git checkout of another branch: a file that differs between the two commits is
\* written anew, unless it is staged as it is there.  Changes go along, and refuse
\* the checkout if they would be overwritten; a file that was removed is not missed.
Checkout(b, tip) ==
  LET moved == {f \in Files : tip[f] # head[f] /\ tip[f] # index[f]} IN
  /\ tip \in tips[b]
  /\ \A f \in moved : index[f] = head[f] /\ work[f] \in {index[f], "none"}
  /\ branch' = b /\ head' = tip /\ tips' = [tips EXCEPT ![b] = {}, ![branch] = {head}]
  /\ index' = [f \in Files |-> IF tip[f] # head[f] THEN tip[f] ELSE index[f]]
  /\ work'  = [f \in Files |-> IF f \in moved THEN tip[f] ELSE work[f]]

\* git_branch switches to any branch, and creates those it may write, from the
\* last commit.
GitBranch(b) ==
  /\ Call
  /\ \/ \E tip \in tips[b] : Checkout(b, tip)
     \/ /\ b \in Writable \ {branch} /\ tips[b] = {}
        /\ branch' = b /\ tips' = [tips EXCEPT ![branch] = {head}]
        /\ UNCHANGED <<head, index, work>>
  /\ answer' = "none"
  /\ UNCHANGED <<stash, touched, flow, popped>>

-----------------------------------------------------------------------------
\* Somebody outside the lane writes, removes or stages a file, or switches the branch.
Others ==
  /\ others < MaxOthers /\ others' = others + 1
  /\ UNCHANGED <<stash, touched, step, all, staged, answer, popped, calls>>

Other(f) ==
  /\ Others
  /\ \/ /\ \E text \in {"none", "other"} \ {work[f]} : work' = [work EXCEPT ![f] = text]
        /\ UNCHANGED index
     \/ /\ index[f] # work[f]
        /\ index' = [index EXCEPT ![f] = work[f]]
        /\ UNCHANGED work
  /\ UNCHANGED <<refs, switched>>

OtherSwitches(b) ==
  /\ Others
  /\ \E tip \in tips[b] : Checkout(b, tip)
  /\ switched' = TRUE

Next ==
  \/ \E f \in Files :
       \/ EditFile(f) \/ MultiEditFile(f) \/ CreateFile(f) \/ RemoveFile(f)
       \/ GitRestore(f) \/ Other(f)
       \/ \E g \in Files : MoveFile(f, g)
  \/ BeginCommit \/ CheckStaged \/ RefuseStaged \/ FinishCommit \/ CommitFails
  \/ StashPush \/ StashPop \/ GitPush
  \/ \E b \in Branches : GitBranch(b) \/ OtherSwitches(b)

Spec == Init /\ [][Next]_commitVars

-----------------------------------------------------------------------------
\* The file has the agent's text, and no commit has it.
Pending(f) == work[f] = "agent" /\ head[f] # "agent"

\* Nothing the agent wrote is forgotten: whatever was edited, moved, restored,
\* committed by either kind of commit or stashed meanwhile, a file whose text is not
\* committed is still noted for the next git_commit, and git_push succeeds only when
\* the agent's own part is committed (comment at src/src/tools/gitPush.ts:16).  The
\* exception is the stash, which touched.ts does not know: a file that was stashed,
\* forgotten when another one was committed, and then popped is not noted.
NothingForgotten ==
  \A f \in Files : Pending(f) => f \in popped \/ (f \in touched /\ answer # "pushed")

\* A default commit is exact: it takes the files the agent touched, as they are in the
\* working tree, and nothing of what others staged, which stays staged, also when the
\* branch was switched since git_commit began.
CommitExact ==
  [][step = "checked" /\ head' # head /\ branch' = branch /\ ~all =>
       \A f \in Files :
         IF f \in touched THEN head'[f] = work[f]
                          ELSE head'[f] = head[f] /\ index'[f] = index[f]]_commitVars

\* A file of the deny-list gets into a commit only if all=true was asked and somebody
\* staged the file after git_commit had looked at what was staged; a branch that the
\* tools may not write gets one only if somebody switched to it during git_commit.
CommitsAllowed ==
  [][head' # head /\ branch' = branch =>
       /\ step = "checked" /\ (branch \in Writable \/ switched)
       /\ \A s \in Secret : head'[s] # head[s] => all /\ s \notin staged]_commitVars
=============================================================================
