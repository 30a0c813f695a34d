-------------------------- MODULE CommitFlowProofs ---------------------------
(***************************************************************************)
(* Theorems about CommitFlow, for any set of files and any deny-list.      *)
(***************************************************************************)
EXTENDS CommitFlow, TLAPS

\* Between the staging of git add -A and the commit of the index, whatever the agent
\* wrote is in the index, although others write and stage files meanwhile.
AllStaged ==
  all /\ step # "idle" => \A f \in Files : work[f] = "agent" => index[f] = "agent"

\* A file with the agent's text that the last commit or the index lacks is noted, but
\* for the stash.  NothingForgotten alone is not inductive: a checkout keeps a file that
\* is staged as on the other branch, and what was in the last commit is pending then.
Kept ==
  \A f \in Files : work[f] = "agent" /\ (head[f] # "agent" \/ index[f] # "agent") =>
                  f \in popped \/ (f \in touched /\ answer # "pushed")

\* A commit in progress was begun on a branch that the tools may write.
BegunWritable == step # "idle" => branch \in Writable \/ switched

\* The tip of the current branch is the head, and not kept among the others.
OwnTip == tips[branch] = {}

Accounted == AllStaged /\ Kept /\ BegunWritable

\* The inductive invariant.
IInv == TypeOK /\ Accounted /\ OwnTip

-----------------------------------------------------------------------------
\* The type invariant holds initially and is kept by every step.
LEMMA InitTypeOK == Init => TypeOK
<1> SUFFICES ASSUME Init PROVE TypeOK
  OBVIOUS
<1>c. Committed \subseteq Trees
  BY DEF Committed, Trees, Content
<1>1. head \in Trees /\ index \in Trees /\ work \in Trees
  BY <1>c DEF Init
<1>6. branch \in Branches /\ tips \in [Branches -> SUBSET Trees]
  BY <1>c DEF Init
<1>2. stash \in [base : Trees, work : Trees]
  BY DEF Init, NoStash, Trees, Content
<1>3. all \in BOOLEAN /\ switched \in BOOLEAN
  BY DEF Init
<1>4. step = "idle" /\ staged = {} /\ answer = "none" /\ calls = 0 /\ others = 0
  BY DEF Init
<1>5. touched = {} /\ popped = {}
  BY DEF Init
<1> QED
  BY <1>1, <1>2, <1>3, <1>4, <1>5, <1>6, CommitAssumption DEF TypeOK

\* What a checkout leaves is typed: another branch's tip is a tree.
LEMMA CheckoutTyped ==
  ASSUME TypeOK, NEW b \in Branches, NEW tip \in tips[b], Checkout(b, tip)
  PROVE  /\ head' \in Trees /\ index' \in Trees /\ work' \in Trees
         /\ branch' \in Branches /\ tips' \in [Branches -> SUBSET Trees]
<1>1. tip \in Trees
  BY DEF TypeOK
<1> QED
  BY <1>1 DEF TypeOK, Checkout, Trees

LEMMA NextTypeOK == TypeOK /\ [Next]_commitVars => TypeOK'
<1> SUFFICES ASSUME TypeOK, [Next]_commitVars PROVE TypeOK'
  OBVIOUS
<1> USE CommitAssumption DEF TypeOK, Trees, Content, refs, flow
<1>1. ASSUME NEW f \in Files, EditFile(f) PROVE TypeOK'
  BY <1>1 DEF EditFile, AtomicWrite, Call, WriteCall, NoteTouched, Editable
<1>2. ASSUME NEW f \in Files, CreateFile(f) PROVE TypeOK'
  BY <1>2 DEF CreateFile, Call, WriteCall, NoteTouched, Editable
<1>3. ASSUME NEW f \in Files, RemoveFile(f) PROVE TypeOK'
  BY <1>3 DEF RemoveFile, Call, WriteCall, NoteTouched, Editable
<1>4. ASSUME NEW f \in Files, GitRestore(f) PROVE TypeOK'
  BY <1>4 DEF GitRestore, Call, WriteCall, Editable
<1>5. ASSUME NEW f \in Files, Other(f) PROVE TypeOK'
  BY <1>5 DEF Other, Others
<1>6. ASSUME NEW f \in Files, NEW g \in Files, MoveFile(f, g) PROVE TypeOK'
  BY <1>6 DEF MoveFile, GitMv, Call, WriteCall, NoteTouched, Editable
<1>7. CASE BeginCommit
  <2>1. index' \in Trees
    BY <1>7 DEF BeginCommit, GitAdd
  <2>2. all' \in BOOLEAN /\ switched' \in BOOLEAN
    BY <1>7 DEF BeginCommit
  <2> QED
    BY <1>7, <2>1, <2>2 DEF BeginCommit, Call, WriteCall
<1>8. CASE CheckStaged
  BY <1>8 DEF CheckStaged, MayCommit, Staged, repo
<1>9. CASE RefuseStaged
  BY <1>9 DEF RefuseStaged
<1>10. CASE FinishCommit
  BY <1>10 DEF FinishCommit, CommitTree
<1>11. CASE CommitFails
  BY <1>11 DEF CommitFails, repo
<1>12. CASE StashPush
  BY <1>12 DEF StashPush, Call, WriteCall
<1>13. CASE StashPop
  BY <1>13 DEF StashPop, Saved, Call, WriteCall, NoStash
<1>14. CASE GitPush
  BY <1>14 DEF GitPush, Call, WriteCall, repo
<1>15. CASE UNCHANGED commitVars
  BY <1>15 DEF commitVars, repo
<1>16. ASSUME NEW b \in Branches, GitBranch(b) PROVE TypeOK'
  <2>1. /\ head' \in Trees /\ index' \in Trees /\ work' \in Trees
        /\ branch' \in Branches /\ tips' \in [Branches -> SUBSET Trees]
    BY <1>16, CheckoutTyped DEF GitBranch
  <2> QED
    BY <1>16, <2>1 DEF GitBranch, Call
<1>17. ASSUME NEW b \in Branches, OtherSwitches(b) PROVE TypeOK'
  <2>1. /\ head' \in Trees /\ index' \in Trees /\ work' \in Trees
        /\ branch' \in Branches /\ tips' \in [Branches -> SUBSET Trees]
    BY <1>17, CheckoutTyped DEF OtherSwitches
  <2> QED
    BY <1>17, <2>1 DEF OtherSwitches, Others
<1> QED
  BY <1>1, <1>2, <1>3, <1>4, <1>5, <1>6, <1>7, <1>8, <1>9, <1>10, <1>11, <1>12, <1>13,
     <1>14, <1>15, <1>16, <1>17 DEF Next, MultiEditFile

\* CommitFlow is type correct; in particular, the tools never note a path of the
\* deny-list, and git_commit never goes on with one staged.
THEOREM TypeCorrect == Spec => []TypeOK
  BY InitTypeOK, NextTypeOK, PTL DEF Spec

-----------------------------------------------------------------------------
\* A tool that edits notes what it changes, and no commit is in progress.
LEMMA NotedIsKept ==
  ASSUME Accounted, NEW paths, WriteCall, NoteTouched(paths),
         \A f \in Files \ paths : work'[f] = work[f] /\ index'[f] = index[f]
  PROVE  Accounted'
  BY DEF Accounted, Kept, AllStaged, BegunWritable, Call, WriteCall, NoteTouched, flow, refs

\* After a checkout the new commit and the index lack the agent's text of a file only
\* if the index lacked it before: what is neither moved nor the same is in the index.
LEMMA CheckoutKeeps ==
  ASSUME TypeOK, NEW b \in Branches, NEW tip \in tips[b], Checkout(b, tip),
         NEW f \in Files, work'[f] = "agent"
  PROVE  /\ work[f] = "agent" \/ (index'[f] = "agent" /\ head'[f] = "agent")
         /\ index[f] = "agent" => index'[f] = "agent"
         /\ head[f] = "agent" /\ index[f] = "agent" => head'[f] = "agent" /\ index'[f] = "agent"
<1>1. tip \in Trees
  BY DEF TypeOK
<1>2. head \in Trees /\ index \in Trees /\ work \in Trees
  BY DEF TypeOK
<1> DEFINE moved == {x \in Files : tip[x] # head[x] /\ tip[x] # index[x]}
<1>3. head'[f] = tip[f] /\ index'[f] = (IF tip[f] # head[f] THEN tip[f] ELSE index[f])
      /\ work'[f] = (IF f \in moved THEN tip[f] ELSE work[f])
  BY DEF Checkout
<1>4. CASE f \in moved
  BY <1>3, <1>4
<1>5. CASE f \notin moved
  BY <1>3, <1>5
<1> QED
  BY <1>4, <1>5

\* Only a switch changes the tips, and then the old head becomes one.
LEMMA OwnTipKept == TypeOK /\ OwnTip /\ [Next]_commitVars => OwnTip'
<1> SUFFICES ASSUME TypeOK, OwnTip, [Next]_commitVars PROVE OwnTip'
  OBVIOUS
<1>1. ASSUME NEW b \in Branches, NEW tip \in tips[b], Checkout(b, tip) PROVE OwnTip'
  BY <1>1 DEF Checkout, OwnTip, TypeOK
<1>2. ASSUME NEW b \in Branches, GitBranch(b) PROVE OwnTip'
  BY <1>1, <1>2 DEF GitBranch, OwnTip, TypeOK
<1>3. ASSUME NEW b \in Branches, OtherSwitches(b) PROVE OwnTip'
  BY <1>1, <1>3 DEF OtherSwitches
<1>4. CASE UNCHANGED <<branch, tips>>
  BY <1>4 DEF OwnTip
<1>5. UNCHANGED <<branch, tips>> \/ \E b \in Branches : GitBranch(b) \/ OtherSwitches(b)
  BY DEF Next, MultiEditFile, EditFile, CreateFile, RemoveFile, MoveFile, GitMv, GitRestore, Other,
         NoteTouched, BeginCommit, CheckStaged, RefuseStaged, FinishCommit, CommitFails, StashPush,
         StashPop, GitPush, repo, refs, commitVars
<1> QED
  BY <1>2, <1>3, <1>4, <1>5

LEMMA NextIInv == IInv /\ [Next]_commitVars => IInv'
<1> SUFFICES ASSUME IInv, [Next]_commitVars PROVE IInv'
  OBVIOUS
<1>t. TypeOK /\ TypeOK'
  BY NextTypeOK DEF IInv
<1>n. Accounted
  BY DEF IInv
<1> SUFFICES Accounted'
  BY <1>t, OwnTipKept DEF IInv
<1>w. head \in Trees /\ index \in Trees /\ work \in Trees
  BY <1>t DEF TypeOK
<1> USE DEF refs, flow
<1>1. ASSUME NEW f \in Files, EditFile(f) PROVE Accounted'
  BY <1>1, <1>n, <1>w, NotedIsKept DEF EditFile, AtomicWrite, Trees
<1>2. ASSUME NEW f \in Files, CreateFile(f) PROVE Accounted'
  BY <1>2, <1>n, <1>w, NotedIsKept DEF CreateFile, Trees
<1>3. ASSUME NEW f \in Files, RemoveFile(f) PROVE Accounted'
  BY <1>3, <1>n, <1>w, NotedIsKept DEF RemoveFile, Trees
<1>4. ASSUME NEW f \in Files, GitRestore(f) PROVE Accounted'
  BY <1>4, <1>n, <1>w DEF GitRestore, Call, WriteCall, Accounted, Kept, AllStaged, BegunWritable, Trees
<1>5. ASSUME NEW f \in Files, Other(f) PROVE Accounted'
  BY <1>5, <1>n, <1>w DEF Other, Others, Accounted, Kept, AllStaged, BegunWritable, Trees
<1>6. ASSUME NEW f \in Files, NEW g \in Files, MoveFile(f, g)
      PROVE  Accounted'
  BY <1>6, <1>n, <1>w, NotedIsKept DEF MoveFile, GitMv, Trees
<1>7. CASE BeginCommit
  <2>1. CASE all' = TRUE /\ index' = work
    BY <1>7, <2>1, <1>n DEF BeginCommit, Call, WriteCall, Accounted, Kept, AllStaged, BegunWritable
  <2>2. CASE all' = FALSE /\ index' = GitAdd(touched)
    BY <1>7, <2>2, <1>n DEF BeginCommit, GitAdd, Call, WriteCall, Accounted, Kept, AllStaged, BegunWritable
  <2> QED
    BY <1>7, <2>1, <2>2 DEF BeginCommit
<1>8. CASE CheckStaged
  BY <1>8, <1>n DEF CheckStaged, Accounted, Kept, AllStaged, BegunWritable, repo
<1>9. CASE RefuseStaged
  BY <1>9, <1>n DEF RefuseStaged, Accounted, Kept, AllStaged, BegunWritable
<1>10. CASE FinishCommit
  <2>1. ASSUME NEW f \in Files, work[f] = "agent", head'[f] # "agent" \/ index'[f] # "agent"
        PROVE  f \in popped'
    <3>1. CASE all
      BY <1>10, <1>n, <2>1, <3>1 DEF FinishCommit, CommitTree, Accounted, AllStaged
    <3>2. CASE ~all
      <4>1. f \notin touched
        BY <1>10, <2>1, <3>2 DEF FinishCommit, CommitTree
      <4>2. f \in popped
        BY <1>10, <1>n, <2>1, <3>2, <4>1 DEF FinishCommit, CommitTree, Accounted, Kept
      <4> QED
        BY <1>10, <2>1, <4>2 DEF FinishCommit
    <3> QED
      BY <3>1, <3>2
  <2> QED
    BY <1>10, <2>1 DEF FinishCommit, Accounted, Kept, AllStaged, BegunWritable
<1>11. CASE CommitFails
  BY <1>11, <1>n DEF CommitFails, Accounted, Kept, AllStaged, BegunWritable, repo
<1>12. CASE StashPush
  BY <1>12, <1>n DEF StashPush, Tracked, Call, WriteCall, Accounted, Kept, AllStaged, BegunWritable
<1>13. CASE StashPop
  BY <1>13, <1>n DEF StashPop, Call, WriteCall, Accounted, Kept, AllStaged, BegunWritable
<1>14. CASE GitPush
  BY <1>14, <1>n DEF GitPush, NothingPending, Call, WriteCall, Accounted, Kept, AllStaged, BegunWritable, repo
<1>15. CASE UNCHANGED commitVars
  BY <1>15, <1>n DEF commitVars, repo, Accounted, Kept, AllStaged, BegunWritable
<1>16. ASSUME NEW b \in Branches, GitBranch(b) PROVE Accounted'
  <2>1. step = "idle" /\ UNCHANGED <<stash, touched, flow, popped>> /\ answer' = "none"
    BY <1>16 DEF GitBranch, Call
  <2>2. Kept'
    <3>1. ASSUME NEW tip \in tips[b], Checkout(b, tip) PROVE Kept'
      BY <1>t, <1>n, <2>1, <3>1, CheckoutKeeps DEF Accounted, Kept
    <3>2. CASE UNCHANGED <<head, index, work>>
      BY <1>n, <2>1, <3>2 DEF Accounted, Kept
    <3> QED
      BY <1>16, <3>1, <3>2 DEF GitBranch
  <2> QED
    BY <2>1, <2>2 DEF Accounted, AllStaged, BegunWritable
<1>17. ASSUME NEW b \in Branches, OtherSwitches(b) PROVE Accounted'
  <2> PICK tip \in tips[b] : Checkout(b, tip)
    BY <1>17 DEF OtherSwitches
  <2>1. switched' = TRUE /\ UNCHANGED <<stash, touched, step, all, staged, answer, popped, calls>>
    BY <1>17 DEF OtherSwitches, Others
  <2>2. Kept'
    BY <1>t, <1>n, <2>1, CheckoutKeeps DEF Accounted, Kept
  <2>3. AllStaged'
    BY <1>t, <1>n, <2>1, CheckoutKeeps DEF Accounted, AllStaged
  <2> QED
    BY <2>1, <2>2, <2>3 DEF Accounted, BegunWritable
<1> QED
  BY <1>1, <1>2, <1>3, <1>4, <1>5, <1>6, <1>7, <1>8, <1>9, <1>10, <1>11, <1>12, <1>13,
     <1>14, <1>15, <1>16, <1>17 DEF Next, MultiEditFile

LEMMA InitIInv == Init => IInv
<1>1. Init => Accounted
  BY DEF Init, Accounted, Kept, AllStaged, BegunWritable, Committed
<1> QED
  BY <1>1, InitTypeOK DEF IInv, Init, OwnTip

LEMMA Invariance == Spec => []IInv
  BY InitIInv, NextIInv, PTL DEF Spec

\* Nothing the agent wrote is forgotten or left out of a push, but for the stash.
THEOREM AgentTextKept == Spec => []NothingForgotten
<1>1. IInv => NothingForgotten
  BY DEF IInv, Accounted, Kept, NothingForgotten, Pending
<1> QED
  BY Invariance, <1>1, PTL

-----------------------------------------------------------------------------
\* Only the end of git_commit makes a commit; other steps that change the head switch
\* to another branch.
LEMMA OnlyCommitsCommit ==
  ASSUME IInv, Next, head' # head, branch' = branch
  PROVE  FinishCommit
<1>1. ASSUME NEW b \in Branches, NEW tip \in tips[b], Checkout(b, tip) PROVE FALSE
  BY <1>1 DEF Checkout, IInv, OwnTip
<1>2. ASSUME NEW b \in Branches, GitBranch(b) \/ OtherSwitches(b) PROVE FALSE
  BY <1>1, <1>2 DEF GitBranch, OtherSwitches
<1> QED
  BY <1>2 DEF Next, MultiEditFile, EditFile, CreateFile, RemoveFile, MoveFile, GitMv, GitRestore,
         Other, NoteTouched, BeginCommit, CheckStaged, RefuseStaged, CommitFails, StashPush, StashPop,
         GitPush, repo, refs

\* A default commit takes the touched files as they are, and nothing others staged.
THEOREM DefaultCommitExact == Spec => CommitExact
<1>1. IInv /\ [Next]_commitVars
        => [step = "checked" /\ head' # head /\ branch' = branch /\ ~all =>
              \A f \in Files :
                IF f \in touched THEN head'[f] = work[f]
                                 ELSE head'[f] = head[f] /\ index'[f] = index[f]]_commitVars
  BY OnlyCommitsCommit DEF FinishCommit, CommitTree
<1> QED
  BY Invariance, <1>1, PTL DEF Spec, CommitExact

\* A file of the deny-list is committed only if it was staged behind the check of a
\* commit with all=true, and a branch that the tools may not write gets a commit only
\* if somebody switched to it during git_commit.
THEOREM OnlyAllowedCommits == Spec => CommitsAllowed
<1>1. IInv /\ [Next]_commitVars
        => [head' # head /\ branch' = branch =>
              /\ step = "checked" /\ (branch \in Writable \/ switched)
              /\ \A s \in Secret : head'[s] # head[s] => all /\ s \notin staged]_commitVars
  <2> SUFFICES ASSUME IInv, Next, head' # head, branch' = branch
               PROVE  /\ step = "checked" /\ (branch \in Writable \/ switched)
                      /\ \A s \in Secret : head'[s] # head[s] => all /\ s \notin staged
    OBVIOUS
  <2>1. FinishCommit
    BY OnlyCommitsCommit
  <2>2. TypeOK /\ BegunWritable
    BY DEF IInv, Accounted
  <2> QED
    BY <2>1, <2>2, CommitAssumption DEF FinishCommit, CommitTree, TypeOK, BegunWritable
<1> QED
  BY Invariance, <1>1, PTL DEF Spec, CommitsAllowed
=============================================================================
