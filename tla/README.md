# Verification of the local-repo MCP server

The repository is a Model Context Protocol server (Node, TypeScript) that lets an AI
client read, edit, build, test and commit code in local repositories. Its HTTP endpoint
is stateless, but the process behind it is not: tools of several clients run at once, and
jobs, terminals and a sub-agent outlive the call that started them. This directory models
the parts of it where the order of events matters and the algorithms that edit text, checks
them with TLC, and proves with TLAPS the safety of all of them for every value of the
constants: the repository lock, the child process runner, the job table, the terminals, the
sub-agent's conversations, a patch and the edits of a file from the request to the text that is
written, the commit of a patch, the way from an edit to a git commit, and the caches.

Paths below are relative to the repository's root (`src/lock.ts`); line numbers are of
the modelled commit.

## 1. The system

### Components, their state, their operations

| component | source | state | operations |
|---|---|---|---|
| Repository lock | `src/lock.ts` | per repository a lane: tail promise, holder, queued | `withLock`, `lockState` |
| Child process runner | `src/exec.ts` | per call: process, three timers, settled flag, captured output | `run`, `killTree` |
| Background jobs | `src/jobs.ts` | table of jobs: status, result, cancelled flag, process handle | `startJob`, `waitForJob`, `cancelJob`, `killRunningJobs`, pruning |
| Terminal sessions | `src/ptySessions.ts`, `src/tools/pty.ts` | table of sessions: status, shell, close timer, done promise | start, write, resize, close, cleanup timer, kill at shutdown |
| Terminal output | the same | per session a ring of bytes, absolute cursors, a set of waiters | append, read, long poll, wait for a pattern |
| Sub-agent sessions | `src/antigravity/cli.ts` | table of conversations: process handle, status, events | spawn, reply, poll, stop, list |
| Patch commit | `src/tools/applyPatch.ts`, `src/files/concurrency.ts` | temp files, snapshots in memory, files on disk | prepare, rename, unlink, rollback |
| Patch language, matching | `src/patch/*`, `src/files/matcher.ts` | none (pure) | `parsePatch`, `buildPlan`, `findTextMatches`, `applyReplacements` |
| Single-file edit tools | `src/tools/{edit,multiEdit,create,move,remove}File.ts` | files on disk, touched paths | one tool each |
| Git tools | `src/git.ts`, `src/touched.ts`, `src/tools/git*.ts` | touched paths per repository, git's index and branch | commit, restore, stash, branch, push |
| Context caches, symbol index | `src/contextCache.ts`, `src/symbolIndex.ts` | stamps with a time to live, entries in memory and on disk, builds in flight | get, put, stamp, build, rebuild |
| Repository registry | `src/repos.ts` | cached list, file watcher | `allRepos`, `resolveRepo`, invalidation |
| Path checks | `src/security/paths.ts` | none | `safeResolve` and its variants |
| Audit log, metrics | `src/log.ts`, `src/metrics.ts` | a queue of lines, counters | `audit`, flush, record |
| HTTP server, registration | `src/index.ts`, `src/tools/index.ts` | shutdown flag, requests in flight | serve, lock around a tool, shutdown |
| Desktop GUI | `src/gui/*` | handles of the server and the tunnel | start, stop, show output |

Read-only tools, configuration, toolchain detection and the scripts keep no state.

### How they interact

`src/tools/index.ts` wraps every tool that writes in `withLock(repo root)`; read-only tools
run without it. `run_build`, `run_tests`, `run_lint`, `run_typecheck` and `terminal_run`
(all through `startJob`) do not hold the lane in the tool itself: the job takes it with an
unlimited wait, runs one child through `run()` under it and publishes the result in the job
table, which `job_status` polls and `kill_job` cancels. A terminal takes the lane only while
its shell is spawned, unless `PTY_HOLD_LOCK` is set. `apply_patch` and the other edit tools
write files under the lane and note the paths they touched; `git_commit` stages those. The read
tools `get_feature_context` and `trace_flow` share the caches, and build the symbol index.
The sub-agent is a process per turn and is not under the lane while it runs. At a signal,
`src/index.ts` kills jobs and terminals, closes the HTTP server and exits.

Everything runs on one JavaScript thread. A step of a model is therefore a handler up to its
next `await`: no other callback runs inside it. Continuations of promises (microtasks) run
before any timer or I/O event, and the models say so where it matters.

### What is hard

* **Interleaving of callbacks**: timers, exit and close events, cancellations and clients
  meet in any order (`run`, `closePtySession`, the sub-agent's handlers).
* **State used after an await**: cursors of a ring that moves, records of a conversation
  that has a new process, a job that was cancelled while it waited for its lane.
* **Liveness**: a chain of promises is only as live as its weakest link; an exit event that
  never comes, a grandchild that holds a pipe.
* **Partial failure and crashes**: a patch of several files.
* **Bounds**: job table, session table, ring, search limit, capture limit.
* **Stale state**: stamps that are cached themselves, a branch or a list of staged files that
  was checked a moment ago.
* **Offsets**: matches found in a normalized text and replaced in the raw one, bytes of a ring
  cut into characters.

`PROJECT.json` lists the hazards one by one, each at its line, with the properties that watch it.

### What makes each component correct

* Lock: one body per repository; first come first served; a call that gives up harms nobody
  and does so only while the repository is held; an unlimited wait ends; reports are exact.
* `run`: settles once, always, and truthfully; the repository is not handed on beside a child
  that was not killed, and nothing is killed afterwards.
* Jobs: a published result is final; a process runs only under the lease; none is forgotten
  or left behind; every job ends.
* Terminals: limits hold; no live shell is lost; closing ends; with `PTY_HOLD_LOCK` the lane is
  held exactly as long as the shell may write.
* Output: whole characters; no silent gap; no lost wake-up; waits end.
* Sub-agent: one turn at a time and every live turn can be stopped (neither holds when a close event
  comes late); a turn stops reading running.
* Patch: what was parsed is what was written; the plan touches every path once; the answer is
  true; a crash loses no text.
* Edits: what is replaced is what was named; nothing else changes.
* Git tools: exactly what the agent touched is committed, nothing touched is forgotten, and no
  commit on a branch or of a file that is off limits, but for what others do meanwhile.
* Caches: what a result shows of a file whose fingerprint holds is true (of the bodies that were
  read it is, of the text of the listing it is not); nobody is left waiting; an index at the present
  stamp is current (it is not).

## 2. The modules

| module | models |
|---|---|
| `RepoLease` | abstract: a first-come-first-served lease per repository |
| `RepoLock` | `withLock`, `waitFor`, `lockState`; implements `RepoLease` |
| `ExecRun` | one call of `run()` |
| `Jobs` | the job table over an INSTANCE of `RepoLock` |
| `PtySessions` | the table of terminals, the life of each, and the lane it may hold |
| `PtyBuffer` | output of one terminal, a reader, a pattern wait |
| `AgentSession` | one conversation of several turns |
| `TextMatch` | pure: `findTextMatches`, `applyReplacements`, line ends |
| `EditPlan` | from a request to the texts to write: the parser, the checks and the plan of `apply_patch`, the edits of `edit_file` and `multi_edit_file` |
| `ApplyPatch` | commit and rollback of one patch, from such a plan |
| `CommitFlow` | touched paths, the edit tools, commit, restore, stash, branch, push |
| `ContextCache` | stamps, results in memory and on disk, the symbol index, calls in flight |
| `RepoLockProofs`, `JobsProofs`, `AgentSessionProofs`, `CommitFlowProofs`, `ContextCacheProofs` | the theorems about the module they are named after |
| `ProcessProofs` | the theorems about `PtySessions`, `PtyBuffer` and `ExecRun` |
| `TextProofs` | the lemmas about the operators of `TextMatch` |
| `PatchProofs` | the theorems about `EditPlan` and `ApplyPatch`, and how the one hands over to the other |

The `MC*` modules extend a component for a run and define its symmetry and small sets; a second
`.cfg` on the same module asks a second question. `MCProcesses` and `MCPatch` put two components
into one run: a variable `part`, chosen at the start, says which of the two a behaviour shows, and the
other stays in its initial state. The two share no state, so that their interleavings would show
nothing more; the modules themselves know nothing of `part`. Definitions introduced as "Fault" next to the
one they vary are the plausible bugs that each property is known to detect (`PROJECT.json`,
"mutants"); no specification uses them.

### RepoLock (`src/lock.ts`)

The n-th call on a lane is ticket n; its promise is number n, and promise 0 is the
`Promise.resolve()` the lane starts with. `tail`, `holder` and `queued` are the fields of
`Lane`; `resolved` holds the promises that are resolved; `call` is the program counter of
each call. `Request` is the synchronous head (53-60), `Acquire` the way into the body
(76-77), `TimeOut` the timer of `waitFor` and the catch block (64-74), `Forward` the
continuation `prev.then(release, release)` (67), `Finish` the finally block (80-83). `Drained`
says that a timer fires only when no continuation is queued; it is what makes
`GiveUpOnlyWhenHeld` true.

### ExecRun (`src/exec.ts`)

`settled` is the promise, `timers` the armed timers of the call: `limit` (`timeoutMs`),
`grace` (1.5 s after the kill), `drain` (0.5 s after exit). The four handlers and three timers
are an action each; `Finish` is `finish`, whose first call wins. `killing` tells whether a signal
was sent before or after the promise settled. The operating system may end the child at any time
or never, deliver output, and close the pipes at any time; a chunk of output stands for bytes, so
that the limit falls between chunks.

### Jobs (`src/jobs.ts`)

The variables of `RepoLock` plus the table. `StartJob` is `startJob` up to the first await
(record, prune, `withLock` head); `BodyStart` the head of the body (cancelled, spawned, or
`run` threw); `RunEnds` what follows `await run`; `BodyEnd` the release; `Abort` the common
part of `cancelJob` and `killRunningJobs`. `ToolRequest` and `ToolStep` are the other tools on
the lane. `ExecRun` is represented by what it is shown to do: a run settles, with a code or
a rejection.

### PtySessions and PtyBuffer (`src/ptySessions.ts`, `src/tools/pty.ts`)

`PtySessions` keeps the table (`sessions`), each session's `status`, the shell behind it, the
close timers and the `done` promises. `BeginClose` is the part of `closePtySession` its three
callers share. `terminal_start` runs under the lane of the repository; `hold` is
`PTY_HOLD_LOCK`, set once, and with it `lease` names the session that keeps the lane until its
`done` promise resolves (`LeaseEnds`, `src/tools/pty.ts:88`). Without it the lane is free again as
soon as the shell is spawned, and `lease` stays 0.

`PtyBuffer` looks into one session. `stream` is everything ever printed, so that the ring is
`stream` from `base` on and a cursor is an index into it: the properties can compare what a
client received with what was printed. A byte is `lead`, `cont` or `hit`, which is all that the
code (and the properties) tell of it.

### AgentSession (`src/antigravity/cli.ts`)

`proc` has a process per turn, and `handle` is `live.proc`. `Spawn` is the common part of the
first turn and of replies; its one condition is the bound on turns. A reply looks at `live.proc` only
(`MayReply`, 394-411): once `antigravity_stop` deleted it (533), or its process has exited, the next
turn starts, and the close event of the old process may still be on its way. `Close(t)` is the close
handler of process t, which writes to the record of the conversation whatever turn that is in by now.
`wiped` is history: the turns whose handle was deleted by the close event of another turn. Nothing
reads it but the property that names that way to lose an agent.

### TextMatch and EditPlan (`src/files/matcher.ts`, `src/patch/*`, `src/tools/*`)

A text is any sequence over `Chars`, which has a CR and an LF; the texts of the calls have a CR in
front of an LF only (`PlanAssumption`), because the matcher takes a CR that stands alone for a line end
in some places and not in others (`src/files/matcher.ts:70`, `84`). A mode of the matcher is the set of positions it
overlooks (`Overlooked`): none, the CR of a CRLF, and blanks in front of a line end; the
positions it keeps are the offset map of the code, and `RawOffset` is `mapIndex`.
`FindTextMatches` tries the three modes in the order of the code. In `EditPlan` a call is either a
patch, read line by line (`ReadLine`: what opens an operation, moves it, opens a hunk, goes into
a hunk, adds, is passed over, or is refused), claimed (`Claim`: no two operations share a source or
a target), verified against the files and planned one operation at a time; or a list of edits of
one file (`EditStep`). `RefuseFiles` may refuse any patch: for a conflict, for a file that is not as it
must be, or by one of the checks that only refuse more and are not modelled (`expected_head_sha`,
`expected_files`, a directory, the deny-list; `src/tools/applyPatch.ts:93`, `207`). A dry run ends
like a plan and is not committed. The files of a patch matter only when it was parsed, so they are chosen
there (`EndPatch`). Lines are model-level records: what kind of line it is, its path or its text.

Consequences of the code that the model shows and no property forbids: overlapping
occurrences count as one, so that they pass as unique; an exact match hides others that differ in
line ends or blanks; a hunk matches anywhere in a line, not whole lines; a hunk that only deletes
leaves an empty line behind, and one that only adds is refused; lines between `*** Update File`
and the first `@@` are dropped; of several `*** Move to` the last one counts; a file with both kinds
of line ends is rewritten with the more frequent one. A context line that reads `*** End Patch`
ends the patch (the envelope is not modelled).

### ApplyPatch (`src/tools/applyPatch.ts`, phase F)

A plan is a kind per change; all plans of N changes are initial states. `EditPlan!PlanIsSound` is
what it relies on: every path belongs to one change. Each file is `old`, `new`, `torn` (truncated
by a write that is not over) or absent. `BeginTemp` and `EndTemp` are the two ends of the concurrent
`writeFile`; any file operation may fail; `Crash` may come between any two. The steps after the
preparation are synchronous in the code, but the process can die between them (a second
Ctrl+C), so they are steps here.

### CommitFlow (`src/touched.ts`, `src/git.ts`, the edit and git tools)

`head`, `index` and `work` map each path to a content, which tells who wrote it: `base`,
`agent` or `other`. `branch` is the branch that is checked out, whose tip is `head`, and `tips` has
the tips of the others. `touched` is the set of `touched.ts`. The tools that write need the lane
(`step = "idle"`) and a branch they may write (`WriteCall`: `assertWritableBranch`). `GitBranch`
runs under the lane but is not checked so: it may leave a protected branch, or go to one. `Checkout` is
git's: a file that differs between two commits is written anew unless it is staged as it is there,
and a local change that would be overwritten refuses the whole.

`git_commit` is three steps, because others write and stage files and switch the branch between
its commands: `BeginCommit` (peek, `git add`), `CheckStaged` or `RefuseStaged` (`git diff --cached`,
deny-list, reset), `FinishCommit` or `CommitFails` (`git commit`, `clearTouched`). What git does is
external and modelled from its commands: `git add -A -- paths` stages nothing at all if one
path is in neither the index nor the working tree; `git commit -- paths` commits the
working tree at these paths and leaves the rest of the index alone, and fails on a path git does
not know; `git rm` refuses a changed file; `git stash pop` restores unstaged, and new files staged.
The matching of text is that of `EditPlan`: here an edit writes one of two texts, the committed one
included, so that a file can be edited back. `all` and `staged` are locals of `git_commit`;
`popped` (files that came back from the stash) and `switched` (others switched the branch during
the last commit) are history; `calls` and `others` are the bounds.

### ContextCache (`src/contextCache.ts`, `src/symbolIndex.ts`, `src/tools/{featureContext,traceFlow,reindex}.ts`)

The repository is `tree`, `base` (the commits) and `head`, and anybody changes it at any
moment. A write has a number, which is both the text and the mtime it leaves; 0 is absence. A
call is a computation of the server: `head` and `status` (the two git processes of
`repoStamp`, each of which sees its own moment and may fail), `stamped`, and then a hit, or a
computation that lists the files, stats and reads each, and stores (`CachePut`, `BuildIndex`,
`SaveIndex`). A listing (`List`) does more than name files: `said` is what the result will show of it,
snippets, outlines, match counts and places. It is the text a file had when rg or git grep searched it,
or when the index in memory was built (`Listed`), and comes before the stat. A result takes up some of
the files it found (`todo`, the ones it stats and reads) and shows of the others, such as the callers of
`trace_flow`, what was said alone, without a fingerprint. With detail L0 the files are stat'ed and not
read (`Complete`). What `trace_flow` lists behind the stat (the callees' places) is taken from the same
index, or is text of a later moment than the listing, and adds no case. `LeadOrJoin` is `cacheInflight` and the `inflight` of `getSymbolIndex`: a second call
for the same key waits for the first (`join`), and `Settle` answers both. `reindex` is joined by
nobody. What is remembered may expire at once, so times to live are not counted; only that
something may still be remembered matters. `Restart` leaves the disk, but for what was being written
(torn files count as absent) and what has expired.

The model keeps what the code does and its comments do not say: HEAD is remembered for 10 s, though
line 61 says an answer is late by 2 s at most; a failed `git status` counts as a clean tree (70-75);
results served from disk go to memory without regard to `MAX_ENTRIES` (108); a call that joins a
computation that throws throws too, though line 336 says it never does; `refresh` may join a
computation that is older than itself; a `reindex` may be overwritten by an older build in flight;
and an index built from newer files may be saved under an older stamp.

## 3. The runs

| run | configuration | states | shows |
|---|---|---|---|
| `lane` | 2 repositories, 4 calls each | 152 881 | the lock's invariants, its liveness, and that it implements `RepoLease` |
| `processes` | `ExecRun`: limit of 2 chunks, 4 written; `PtySessions`: 2 running, 4 retained, 5 starts, 1 client, with and without `PTY_HOLD_LOCK` | 745 392 | a run settles, in time and truthfully, in every order of events; every shell is accounted for, closing ends |
| `jobs` | 1 repository, 3 jobs, 4 lane calls, `MAX_JOBS` 1 | 75 855 | results are final, processes run under the lease, jobs end |
| `jobs_shutdown` | 2 repositories, 2 jobs | violation | a job started after the kill survives the server |
| `pty_buffer` | ring 3, read limit 2, characters up to 3 bytes, 5 bytes | 276 522 | whole characters, honest gaps, no lost wake-up |
| `agent` | 2 clients, 3 turns | 5 636 | an agent gets out of reach in one way only, status settles |
| `agent_stray` | 1 client, 2 turns | violation | that way: a late close event of the turn before |
| `apply_patch` | `EditPlan`: patches of up to 5 lines on 2 paths, 2 edits of all texts of 4 characters; `ApplyPatch`: 3 changes, 2 workers, all 64 plans | 604 723 | the parser, the plan and the matcher against their reference definitions; true answers; a crash loses no text |
| `commit` | 2 files and 1 denied, a branch that may be written and one that may not, 6 calls, 2 changes by others | 3 807 250 | nothing of the agent is forgotten, default commits are exact, no commit that is off limits |
| `context_cache` | 1 file, 2 calls of all kinds, 2 changes, 2 commits, 1 entry | 2 321 082 | what was read is betrayed by its fingerprint when it is stale; nobody is left waiting |
| `entries_stale` | 1 file, 1 query, 2 changes | violation | what was listed is not |
| `index_stale` | 2 files, 1 call at a time that asks for the index, 2 changes | violation | the index at the present stamp is out of date |

**Why these bounds.** *lane*: a call can time out between one that runs and one that waits, and
another after that one: the chain has two forwards in a row; two lanes because the drain rule
couples them. *jobs*: `MAX_JOBS` 1 makes the second start prune, the third find an unfinished
oldest record; one place in the lane is left for another tool, before, between or after the
jobs. *processes*: the code retains four records per session allowed to run; two are enough to
have finished and running records in one full table, and the fifth start must prune.
*pty_buffer*: a ring shorter than the stream, a character wider than the read limit and as wide as
the ring. *agent*: a defect of two turns needs a third. *apply_patch*: three changes give a file that
is done, one in progress and one to come; two workers are the fewest that overlap; four characters hold
a CRLF or a blank on either side of a match; five lines are two operations with a hunk each, and two
paths are enough for any two operations to be in each other's way; two files and two hunks are also the
limits, so that the third is refused. *commit*: six calls
are two edits, a stash, a commit, a pop and a push, the longest way round the list of touched files;
two changes by others are one between each pair of git's commands. *context_cache*: two calls are a
leader and one that joins, or a query and a rebuild; two writes are one before and one after the stamp;
files have their fingerprints one by one.

**Fairness.** Continuations of promises and armed timers are weakly fair: the event loop runs
them, and the listening HTTP server keeps the process alive, so that `unref()` on a timer
changes nothing. Timers that a client's other calls can disable and enable again are
strongly fair in `PtyBuffer` (`SleepTimer`, `WaitTimer`): a timer that is due fires at the
next turn of the loop. `Finish` of the lane is fair because a body ends; for a job this is
`SpawnedRunSettles` of `ExecRun`, for a tool it is an assumption. The sub-agent's processes end
because they are started with `--print-timeout`. No client, shell, child or signal is fair.
`ApplyPatch`, `CommitFlow`, `ContextCache` and `EditPlan` state no fairness: they are checked for
safety. `NoneLeftWaiting` is the safe half of "every call is answered": whoever waits waits for a
computation that is in progress; that git and the file system answer is not the code's to promise.

**Deadlock** is not checked where the bound on calls, jobs, sessions, lines or turns lets a run come
to its end.

### What disagrees with the documentation

Four runs end in a violation, by intent:

1. `NoJobSurvivesExit` (`jobs_shutdown`): `shutdown` kills the jobs once and then lets requests in
   flight finish; one of them may start a job, which nobody kills (`src/index.ts:165`; the comment
   at line 149 says running jobs must be killed before the exit).
2. `IndexIsCurrent` (`index_stale`): the stamp of the symbol index is HEAD and `git status`, which
   tells that a file was changed and not how; when a file that is already dirty is written again,
   during the build or behind it, the index in memory is served as current and shows the first text
   (`src/symbolIndex.ts:339`; the comment at 334 says it is the index of exactly the present state).
3. `AgentInReach` (`agent_stray`): a turn is stopped, or its process exits; a reply starts the next one;
   then the close event of the first deletes the handle of the second (`src/antigravity/cli.ts:466`).
   The live process can no longer be stopped, although `antigravity_stop` is documented to stop it
   (`src/tools/index.ts:182`, `README.md:249`), and a further reply starts beside it, which the check
   at `src/antigravity/cli.ts:407` and its message exist to prevent.
   `StrayOnlyByLateClose`, checked and proved, says that no other order of events has this effect.
4. `EntriesTruthful` (`entries_stale`): a file is listed, and its snippet, outline or match count goes
   into the result; it is written; then it is stat'ed and read. The entry is cached under the new
   fingerprint and shows the old text, for as long as the file is not written again
   (`src/tools/traceFlow.ts:192`, `src/tools/featureContext.ts:261`; the comment at
   `src/contextCache.ts:17` says that where the fingerprint matches the content cannot differ). In the
   trace a new file is written a second time, which leaves the stamp as it was, so that the entry is
   served. `BodiesTruthful`, checked and proved, is what remains: the text that was *read* behind the stat.

Three more follow from the models, and no run states them:

5. `terminal_wait_for` searches one slice from its start cursor, at most `max_buffer_bytes` long;
   a pattern behind it is never seen, however long the call waits (`src/ptySessions.ts:264`;
   comment at 247). In `PtyBuffer`, a `"hit"` behind `search.start + search.limit` is in the
   stream while `waiter` ends in `"timeout"`.
6. `git add -A -- paths` fails as a whole once a path was removed with `remove_file` or `move_file`,
   and `git_commit` does not look at its exit code (`src/tools/gitCommit.ts:57`; the comment at 56
   says deleted files are staged too). Edited files are still committed, by `git commit -- paths`; a
   created one makes every further default commit fail.
7. `edit_file` is documented to preserve line endings (`README.md:279`). An `old_str` that begins
   with a line feed matches exactly inside a CRLF (`src/files/matcher.ts:20`): taking `"\nfoo"` out
   of `"x\r\nfoo\r\ny"` leaves `"x\r\r\ny"`. `RestIsKept` excepts matches that split a CRLF.

Also worth knowing. A temp file whose write fails half way is created but not recorded, and stays
after a rollback that reports success (`src/tools/applyPatch.ts:291`); `AnswerIsTrue` promises no
temp file for a success only. A file edited back stays touched: `git_push` asks for a commit and
`git_commit` finds nothing to commit. A file that was stashed while another one was committed
comes back unnoted, and `git_push` passes over it: `NothingForgotten` has to except it. The
rollback of a patch rewrites files in place, so a crash or a failing write during it can truncate a
file, even one the commit had not changed: `CrashLosesNothing` has to except it. A commit lands on a
protected branch, or takes a file of the deny-list, when somebody switches, or stages it, between
the check and `git commit`: `CommitsAllowed` excepts just that.

## 4. The proofs

Every theorem is of the form `Spec => []Inv` or `Spec => [][A]_vars`, for all values of the
constants under the module's own assumption (bounds are numbers, limits at least 1).

### The lane

| theorem of `RepoLockProofs` | says |
|---|---|
| `TypeCorrect` | `Spec => []TypeOK` |
| `ChainInOrder` | `Spec => []LaneOrder`: resolved promises are a prefix of the chain, and agree with the calls |
| `Exclusion` | `Spec => []MutualExclusion` |
| `ReportExact` | `Spec => []StateReportExact` |
| `GiveUpJustified` | `Spec => GiveUpOnlyWhenHeld` |
| `LaneImplementsLease` | `Spec => Lease!Spec`, the refinement |

**The argument.** Mutual exclusion is not inductive by itself: nothing in it says that a call
whose predecessor's promise is resolved is alone. The invariant `IInv` adds `LaneOrder`: the
resolved promises are an initial segment of the chain, a promise is resolved exactly when its
call has left, and a call that runs has its predecessor's promise resolved. Two running calls
m < n would need promise n - 1 and so promise m resolved, while call m has not left. The other
conjuncts tie `holder` and `queued` to the calls; `queued` is a cardinality, so
`WaitingGrows`, `WaitingShrinks` and `WaitingSame` say how it moves. For the refinement,
`Grant` demands that the owner is free and that the granted call is the oldest that waits: both
follow from `LaneOrder` (an older waiting call would have an unresolved promise below n).
`FrontOfChain` shows that, once the queue of continuations is drained, the first unresolved
call of a lane that has a waiting call is running: this is why a timeout can always name
a holder.

### Jobs, over the lane

| theorem of `JobsProofs` | says |
|---|---|
| `TypeCorrect` | `Spec => []JobsTypeOK` |
| `AttendedProcess` | `Spec => []ProcessAttended` |
| `NothingPruned` | `Spec => []UnfinishedInReach` |
| `FinishedForGood` | `Spec => FinalIsFinal` |

The lane is not proved again: `Lane == INSTANCE RepoLockProofs`, `StepOfLane` shows that every
step of `Jobs` is a step of the lane or leaves it alone, and so `Lane!IInv` is kept. The
invariant adds what ties the table to it (`Placed`: a job is one patient call and no other
job's; `BodyInLane`: its process lives between grant and release) and to itself (`StatusOfBody`: a
job whose process lives and that reads finished was cancelled and sent the kill). That a
process is alone in its repository then is `MutualExclusion`, and that a patient call does not
leave by a timeout is a fact of `TimeOut`.

### One run of a child

`ProcessProofs` proves `RunTypeCorrect`, `NoLateKill` (`[]KilledInTime`) and `RealResult`
(`[]ResultIsReal`), for any capture limit and amount of output. Both properties are inductive with
four conjuncts: nothing is armed before the spawn (`NotSpawned`), only a child that ended has a code
(`CodesAreReal`), a grace timer is that of a limit that has killed (`TimersKill`), and what was
kept is the beginning of what was seen, to which nothing comes once a result is out (`Counted`).

### Terminals

`ProcessProofs` proves, about `PtySessions` and for any limits, `TypeCorrect`
(`[]SessionsTypeOK`) and `NoShellLost` (`[]ShellsAccounted`). The invariant counts the active sessions in the table rather than the live shells: a shell whose
session has not been given up is one of them (`Placed`), so that pruning, which drops only what
is over, drops no shell, and the limit on active sessions is a limit on shells. `RoomForAll` says
that the table holds at least as many records as sessions may run, `StartPlaces` that a start finds
its place.

About `PtyBuffer` it proves, for a ring of any width and output of any length:

| theorem | says |
|---|---|
| `BufTypeCorrect` | `BufSpec => []BufTypeOK`: the ring keeps its size, no cursor runs ahead of the output |
| `ClientGetsAll` | `BufSpec => []OutputFollowed`: no silent gap, only whole characters |
| `NobodyOversleeps` | `BufSpec => []NoLostWakeup` |

The inductive invariant `BufIInv` is the three of them with two more facts: the client's cursor is
at the boundary of a character as well (it is where the next reply begins), and a reply in hand
does not reach beyond the output. The cut of `appendOutput` and the end of a chunk are minima over
characters; the lemmas about them show that there is a boundary to cut at, which is where the code
could drop half a character, and that a boundary stays one when more is printed behind it.

### Conversations

`AgentSessionProofs` proves `TypeCorrect`, and `OnlyLateCloseStrays`: `Spec => []StrayOnlyByLateClose`,
with no assumption on when close events come. That a live turn is in reach is not inductive where it
speaks of the turns one by one: a reply would leave the turn before it out of reach if that one
were still alive. It starts only when the named process is gone or was killed, and a turn that is not
named is not in reach, so that by the induction hypothesis it is dead, killed or in `wiped`. `Base` adds
what this needs of the start: `StartedOnce`, that the conversation is started once, by one client, and is
not registered meanwhile, and `NamedIsWanted`, that the process the record names was not killed while the
start is on its way or after it succeeded.

### A patch: its lines, its plan, its commit

| theorem of `PatchProofs` | says |
|---|---|
| `PlanTypeCorrect` | `PlanSpec => []PlanTypeOK`: operations are well formed and within the limits |
| `PatchIsParsed` | `PlanSpec => []ParsedAsWritten`: what is collected line by line is what the whole says |
| `PlanIsUsable` | `PlanSpec => []PlanIsSound`: one owner per path, sources there, targets not |
| `RestStays` | `PlanSpec => []RestIsKept`: an edit changes nothing but its matches |
| `FindsWhatIsNamed` | `PlanSpec => []MatchesAreRight`: a match is what `old_str` names, and none is missed |
| `PlanStartsCommit` | a plan begins the commit in an initial state of `ApplyPatch`, which so takes nothing for granted |
| `TypeCorrect` | `Spec => []TypeOK` |
| `TrueAnswer` | `Spec => []AnswerIsTrue` |
| `NothingLost` | `Spec => []CrashLosesNothing` |

They hold for patches of any number of lines, hunks and files, texts of any length over any
characters (of the edits: without a CR that stands alone) and any number of workers.

**The parser.** `ParsedAsWritten` compares two ways to read a patch: the parser keeps one operation
and one hunk open and closes them when a header comes; `AllSaid` takes the whole text and cuts it at
the headers, and an update at its `@@` lines. The invariant `SaidInv` says that at every line what
was closed together with what is open (`Finished`) is what the lines so far say. For it to be
inductive the proof needs how `AllSaid` changes with one line more: a header says one operation more
(`HeaderSaid`), any other line changes the last one and no other (`SaidLast`, `LineSaid`), in the way
`After` tells; and how the open operation changes in each disjunct of `ReadLine` (`OpensFact`,
`MovesFact`, `AddsFact`, `OpensHunkFact`, `InHunkFact`). `Collected` is what that rests on: only an
update has hunks, and once one is read, a hunk is open until the operation ends.

**Recursion without induction schemes.** `Kept` and `HunksIn` are recursive functions. The library's
induction theorems take an operator and cannot be used here, so induction is stated over a *set*:
a set of naturals with 0 in it and with n + 1 for each n in it has all of them (`NatSet`, from the
well-foundedness of < on the naturals). `RecursionExists`, `RecursionStays` and `RecursionUnique`
say with it that a function defined step by step exists, stays in its range and is unique, and
`KeptLists` then says what `Kept` returns, for every input.

**What an edit leaves alone.** `EditInv` ties the text of a call of edits to the file it began with:
before the first edit it is the file, after it it is `ApplyReplacements` of the file's matches. The rest
is about the operators, and is in `TextProofs`. `FindInOrder`: the matches come in order and do not
overlap, through every mode, because `RawOffset` is monotone (`RawOrder`). `ApplyIsAround`: for such
matches, replacing from the last to the first makes of the text the pieces between them with the new
text in between; the invariant of that recursion says what is in place behind the last m matches
(`AppliedIs`, `SpliceBehind`). `FormatAround`: writing that with the line ends of the file leaves every
piece as it is, since `FormatTextForWrite` goes through a concatenation that does not cut a CRLF
(`FormatConcat`) and is the identity on a piece whose lines end in the file's way (`PieceUniform`).
No match that cuts a CRLF and a file with one kind of line ends are just what these two need.

**What an edit finds.** `OccurrencesFact`: the search returns places where the needle is, and a place it
passes over overlaps one that it returns. `Window`: a match of the normalized needle in the
normalized text is that piece of the raw text, `mapIndex` taken to its two ends (`MatchIsNeedle`).
Blanks are the difficulty: what a mode overlooks depends on what comes behind. `SliceTails` says
when a piece overlooks what the text does at the same place, `LfBlankless` that the modes compose
(what is left without blanks does not depend on the CRs), and `PieceIsThere` that a piece of the text
that is the needle up to line ends and blanks is found by one of the three modes. `FindIsRight` puts
them together; its third part is about the needle as it stands only: a copy that differs in blanks may
well stand behind a single match, since a mode that finds something hides the later ones.

**The plan.** `PlanIInv` adds to this that the plan is made in the order of the operations
(`Plans`), and that what `Claim` and `Verify` found still holds while it is made. They check sources
against sources and targets against targets only. That no path is the source of one operation and
the target of another follows from the files (`ApartFact`): a source is there and a target that is
not also its own source is not.

**The commit.** The invariant of `ApplyPatch` says for each phase what a change may look like
(`Phases`): prepared, renamed or not, unlinked or not, restored up to `pos`; a crashed patch looks as
in the phase it died in (`Reached`). `FromFirst` (the rollback starts at the first change) and `Dead`
(nothing runs after a crash) make it inductive.

### From an edit to a commit

| theorem of `CommitFlowProofs` | says |
|---|---|
| `TypeCorrect` | `Spec => []TypeOK`; in particular no denied path is touched or passes the check |
| `AgentTextKept` | `Spec => []NothingForgotten` |
| `DefaultCommitExact` | `Spec => CommitExact` |
| `OnlyAllowedCommits` | `Spec => CommitsAllowed` |

They rest on `CommitAssumption` and on git's behaviour as the module states it.
`NothingForgotten` is not inductive, for two reasons. A commit with `all=true` takes the index and
forgets every touched path, so it needs `AllStaged`, that from `git add -A` to the commit whatever
the agent wrote is in the index, although others write and stage meanwhile. And a checkout keeps a
file that is staged as on the other branch, so that a text that was committed is pending
afterwards: `Kept` speaks of files that the last commit *or the index* lacks. The action properties
need `BegunWritable` (a commit in progress was begun on a branch that may be written, or others
switched) and that neither `touched` nor `staged` has a path of the deny-list.

### The caches

| theorem of `ContextCacheProofs` | says |
|---|---|
| `TypeCorrect` | `Spec => []TypeOK`, one thing per key in each cache |
| `FingerprintsSuffice` | `Spec => []BodiesTruthful`: of what was read, not of what was listed |
| `JoinedIsSettled` | `Spec => []NoneLeftWaiting` |

The bodies in a result are true as long as its fingerprints hold because each file is stat'ed *before* it is read
(the listing comes before the stat, and of it nothing of the kind can be proved):
while a result is computed, `Good` says that the texts it has so far are true as long as the
fingerprints it has hold, and that they are mtimes of writes that have happened; `Clock` says that
a file without an mtime is absent.
`StatedOnce` is needed because a file that is stat'ed again behind its reading would get a
fingerprint that its text does not have. `RepoKeepsGood` is the core: every change of the repository
gives the files it touches an mtime that no result has seen. The proof assumes what the model
does, that a write gives a file a new mtime. Two writes of one size within the resolution of
the clock would not.

**Only model-checked.** Liveness (`PatientServed`, `SpawnedRunSettles`, `EveryJobEnds`, `CloseEnds`,
`WaitsEnd`, `TurnSettles`) needs fairness and ENABLED, which TLAPS 1.4.5 does not handle. Every
invariant and every other action property of a passing run is proved.

## 5. Not modelled

* Stateless reads and formatting (`read_file`, `ripgrep`, `list_dir`, `git_log`, `gh_pr`, ...),
  configuration and toolchain detection, metrics, the GUI, the smoke test and the benchmark: nothing
  happens in an order that matters.
* The repository registry: every lookup is synchronous. The audit log: one flush at a time empties a
  queue; a failed append drops its lines by intent (`src/log.ts:38`).
* Path checks: string functions that depend on the file system's own resolution; only their verdict is
  used (`Editable`).
* In the caches: ranking, parsing of symbols, the listing that `glob_files` may put back under
  an old stamp (`src/tools/globFiles.ts:195`).
* The table of conversations, its trimming and the resumption after a restart, the events collected for
  `antigravity_poll`.
* A stash pop that conflicts with a later commit, a second stash entry, a commit made by hand, the
  network of a push.
* In the text tools: size limits, detection of binary files, hints in error messages, the envelope of a
  patch, a CR that stands alone.
* Writers outside the lease (an editor, a terminal, the sub-agent) in `ApplyPatch`; the files
  stay as the server left them.
* That a killed process is really gone: a run that timed out settles 1.5 s after the kill, and the
  lease goes on then (`KilledInTime` shows it was killed first).
* A message that is lost between client and server: HTTP requests are independent and carry
  no state.
