---------------------------- MODULE ContextCache ----------------------------
(***************************************************************************)
(* What the read tools remember of a repository: src/src/contextCache.ts   *)
(* (stamps, results of get_feature_context and trace_flow) and the symbol  *)
(* index of src/src/symbolIndex.ts.  Everything is kept under a stamp, HEAD*)
(* and `git status --porcelain`, that is itself remembered for a while; a  *)
(* result carries the fingerprints (size and mtime) of the files in it.    *)
(*                                                                         *)
(* The repository changes at any moment.  A text is the number of the      *)
(* write that made it, and so is an mtime; 0 is the absence of the file.   *)
(* The times to live are not counted: what may expire may do so at once.   *)
(***************************************************************************)
EXTENDS SequencesExt

CONSTANTS
  Files,
  Callers,     \* asynchronous calls: a query builds its index by a call of its own
  Ops,         \* what they ask for: "query", "refresh", "index", "reindex"
  MaxEntries,  \* MAX_ENTRIES
  MaxWrites,   \* bound: changes of the working tree
  MaxCommits,  \* bound: commits
  MaxCalls     \* bound: calls asked

ASSUME CacheAssumption ==
  /\ Ops \subseteq {"query", "refresh", "index", "reindex"}
  /\ MaxEntries \in Nat \ {0} /\ MaxWrites \in Nat /\ MaxCommits \in Nat \ {0} /\ MaxCalls \in Nat

VARIABLES
  tree,        \* tree[f]   : the text and the mtime of f in the working tree
  base,        \* base[k]   : the texts of commit k
  head,        \* HEAD
  writes,      \* changes of the working tree so far
  headCache,   \* headCache : empty, or the one HEAD it holds
  stampCache,  \* stampCache: empty, or the one stamp it holds
  store,       \* the results in memory, oldest first
  disk,        \* the results on disk that can be read
  saving,      \* results on their way to the disk
  memIndex,    \* memCache  : empty, or the one index it holds
  nullStamp,   \* nullStamps: empty, or the stamp of a repository without symbols
  diskIndex,   \* the indexes on disk that can be read
  call,        \* call[c]   : the call c is in
  asked        \* calls asked so far

repoVars  == <<tree, base, head, writes>>
stampVars == <<headCache, stampCache>>
entryVars == <<store, disk, saving>>
indexVars == <<memIndex, nullStamp, diskIndex>>
cacheVars == <<repoVars, stampVars, entryVars, indexVars, call, asked>>

Present == {f \in Files : tree[f].text # 0}
Texts   == [f \in Files |-> tree[f].text]

\* git status --porcelain: which files differ from HEAD and how, not by how much.
Status(now, then) ==
  [f \in Files |-> IF now[f] = then[f] THEN "  "
                   ELSE IF then[f] = 0 THEN "??"
                   ELSE IF now[f] = 0 THEN " D" ELSE " M"]

Clean   == [f \in Files |-> "  "]
NoHead  == 0   \* "nohead", when git rev-parse fails
Stamp   == [head |-> head, status |-> Status(Texts, base[head])]
Stamps  == [head : 0 .. MaxCommits, status : [Files -> {"  ", "??", " D", " M"}]]

\* What is known of some of the files.
PerFile == UNION {[D -> 0 .. MaxWrites] : D \in SUBSET Files}
Entry   == [stamp : Stamps, fps : PerFile, texts : PerFile, said : PerFile]
Index   == [stamp : Stamps, texts : PerFile]
Call    == [op : Ops \cup {"none"}, stamp : Stamps, todo : SUBSET Files, fps : PerFile, texts : PerFile,
            said : PerFile, pc : {"idle", "head", "status", "stamped", "list", "files", "save", "join"}]

\* A call of which no more is known than its stamp.
Begun(op, pc, stamp) ==
  [op |-> op, stamp |-> stamp, todo |-> {}, fps |-> <<>>, texts |-> <<>>, said |-> <<>>, pc |-> pc]
NoStamp == [head |-> NoHead, status |-> Clean]
Idle    == Begun("none", "idle", NoStamp)

OnePerStamp(entries) == \A e, d \in entries : e.stamp = d.stamp => e = d

\* Each kind of cache holds one thing per key.
TypeOK ==
  /\ tree \in [Files -> [text : 0 .. MaxWrites, mtime : 0 .. writes]] /\ writes \in 0 .. MaxWrites
  /\ base \in Seq([Files -> 0 .. MaxWrites]) /\ head \in DOMAIN base
  /\ headCache \subseteq 0 .. MaxCommits /\ Cardinality(headCache) <= 1
  /\ stampCache \subseteq Stamps /\ Cardinality(stampCache) <= 1
  /\ store \in Seq(Entry) /\ \A i, j \in DOMAIN store : store[i].stamp = store[j].stamp => i = j
  /\ disk \subseteq Entry /\ OnePerStamp(disk) /\ saving \subseteq Entry
  /\ memIndex \subseteq Index /\ Cardinality(memIndex) <= 1
  /\ diskIndex \subseteq Index /\ OnePerStamp(diskIndex)
  /\ nullStamp \subseteq Stamps /\ Cardinality(nullStamp) <= 1
  /\ call \in [Callers -> Call] /\ asked \in 0 .. MaxCalls

Init ==
  /\ tree = [f \in Files |-> [text |-> 0, mtime |-> 0]] /\ writes = 0
  /\ base = <<[f \in Files |-> 0]>> /\ head = 1
  /\ headCache = {} /\ stampCache = {}
  /\ store = <<>> /\ disk = {} /\ saving = {}
  /\ memIndex = {} /\ nullStamp = {} /\ diskIndex = {}
  /\ call = [c \in Callers |-> Idle] /\ asked = 0

-----------------------------------------------------------------------------
(* The repository, whoever changes it: tools, editors, terminals. *)

SetFile(f, text) == tree' = [tree EXCEPT ![f] = [text |-> text, mtime |-> text]]

Write(f) ==
  /\ writes < MaxWrites /\ writes' = writes + 1
  /\ SetFile(f, writes + 1)
  /\ UNCHANGED <<base, head, stampVars, entryVars, indexVars, call, asked>>

Delete(f) ==
  /\ tree[f].text # 0
  /\ SetFile(f, 0)
  /\ UNCHANGED <<writes, base, head, stampVars, entryVars, indexVars, call, asked>>

Commit ==
  /\ Texts # base[head] /\ Len(base) < MaxCommits
  /\ base' = Append(base, Texts) /\ head' = Len(base) + 1
  /\ UNCHANGED <<tree, writes, stampVars, entryVars, indexVars, call, asked>>

\* git switch, from a clean tree: the files that differ are written anew.
Checkout(k) ==
  /\ k # head /\ Texts = base[head] /\ writes < MaxWrites
  /\ head' = k /\ writes' = writes + 1
  /\ tree' = [f \in Files |->
       IF base[k][f] = tree[f].text THEN tree[f]
       ELSE [text |-> base[k][f], mtime |-> IF base[k][f] = 0 THEN 0 ELSE writes + 1]]
  /\ UNCHANGED <<base, stampVars, entryVars, indexVars, call, asked>>

-----------------------------------------------------------------------------
(* headSha and repoStamp: each git process sees the repository of its moment. *)

At(c, pc) == call[c].pc = pc
Stay(c, pc) == call' = [call EXCEPT ![c].pc = pc]

\* Whether what is remembered has expired is decided when it is asked for.
Ask(c, op) ==
  /\ At(c, "idle") /\ asked < MaxCalls /\ asked' = asked + 1
  /\ \/ \E s \in stampCache :
          call' = [call EXCEPT ![c] = Begun(op, "stamped", s)]
     \/ \E h \in headCache :
          call' = [call EXCEPT ![c] = Begun(op, "status", [NoStamp EXCEPT !.head = h])]
     \/ call' = [call EXCEPT ![c] = Begun(op, "head", NoStamp)]
  /\ UNCHANGED <<repoVars, stampVars, entryVars, indexVars>>

\* git rev-parse HEAD, or its failure; the answer is remembered.
ReadHead(c) ==
  /\ At(c, "head")
  /\ \E h \in {head, NoHead} :
       headCache' = {h} /\ call' = [call EXCEPT ![c].pc = "status", ![c].stamp.head = h]
  /\ UNCHANGED <<repoVars, stampCache, entryVars, indexVars, asked>>

\* git status, after the HEAD it is joined to; when it fails the tree counts as clean.
ReadStatus(c) ==
  /\ At(c, "status")
  /\ \E s \in {Status(Texts, base[head]), Clean} :
       LET stamp == [call[c].stamp EXCEPT !.status = s]
       IN stampCache' = {stamp} /\ call' = [call EXCEPT ![c].pc = "stamped", ![c].stamp = stamp]
  /\ UNCHANGED <<repoVars, headCache, entryVars, indexVars, asked>>

-----------------------------------------------------------------------------
(* One computation per kind and stamp; the calls that come meanwhile join it. *)

Kind(op) == IF op = "refresh" THEN "query" ELSE op
Same(c, d) == Kind(call[c].op) = Kind(call[d].op) /\ call[c].stamp = call[d].stamp
Leads(c)   == call[c].pc \in {"list", "files", "save"} /\ call[c].op # "reindex"

\* cacheInflight, and the `inflight` of getSymbolIndex.
LeadOrJoin(c) ==
  Stay(c, IF \E d \in Callers : Leads(d) /\ Same(c, d) THEN "join" ELSE "list")

\* Fault: the calls that joined are forgotten.
SettleAlone(c) == call' = [call EXCEPT ![c] = Idle]

\* The call of c is answered, and those that joined it.
Settle(c) ==
  call' = [d \in Callers |-> IF d = c \/ (Leads(c) /\ At(d, "join") /\ Same(c, d)) THEN Idle ELSE call[d]]

\* fingerprintsValid: the files are there as they were.
Valid(fps) == \A f \in DOMAIN fps : tree[f].mtime = fps[f]

\* Fault: what is stored anew joins what was there.
OthersAndOld(entries, stamp) == entries

Others(entries, stamp) == {e \in entries : e.stamp # stamp}

\* Map.set of a key: in place, or at the end.
Put(entries, e) ==
  IF \E i \in DOMAIN entries : entries[i].stamp = e.stamp
  THEN [i \in DOMAIN entries |-> IF entries[i].stamp = e.stamp THEN e ELSE entries[i]]
  ELSE Append(entries, e)

\* A result served from memory, or from the disk and then kept in memory, without
\* regard to MAX_ENTRIES; by then another call may have stored one there.
CacheGet(c) ==
  /\ At(c, "stamped") /\ call[c].op = "query"
  /\ \/ /\ \E i \in DOMAIN store : store[i].stamp = call[c].stamp /\ Valid(store[i].fps)
        /\ UNCHANGED store
     \/ \E e \in disk : /\ e.stamp = call[c].stamp /\ Valid(e.fps)
                      /\ store' = Put(store, e)
  /\ Settle(c)
  /\ UNCHANGED <<repoVars, stampVars, disk, saving, indexVars, asked>>

\* No result, or one that is invalid, has expired or is just being written.
CacheMiss(c) ==
  /\ At(c, "stamped") /\ call[c].op = "query"
  /\ \/ store' = store /\ \A i \in DOMAIN store : store[i].stamp # call[c].stamp
     \/ \E i \in DOMAIN store : store[i].stamp = call[c].stamp /\ store' = RemoveAt(store, i)
  /\ LeadOrJoin(c)
  /\ UNCHANGED <<repoVars, stampVars, disk, saving, indexVars, asked>>

Refresh(c) ==
  /\ At(c, "stamped") /\ call[c].op = "refresh"
  /\ LeadOrJoin(c)
  /\ UNCHANGED <<repoVars, stampVars, entryVars, indexVars, asked>>

\* getSymbolIndex: the index in memory, or the knowledge that there is none.
IndexHit(c) ==
  /\ At(c, "stamped") /\ call[c].op = "index"
  /\ call[c].stamp \in nullStamp \cup {x.stamp : x \in memIndex}
  /\ Settle(c)
  /\ UNCHANGED <<repoVars, stampVars, entryVars, indexVars, asked>>

IndexMiss(c) ==
  /\ At(c, "stamped") /\ call[c].op = "index"
  /\ call[c].stamp \notin nullStamp \cup {x.stamp : x \in memIndex}
  /\ LeadOrJoin(c)
  /\ UNCHANGED <<repoVars, stampVars, entryVars, indexVars, asked>>

\* getSymbolIndex: the index of this stamp that is on disk.
IndexFromDisk(c) ==
  /\ At(c, "list") /\ call[c].op = "index"
  /\ \E x \in diskIndex : x.stamp = call[c].stamp /\ memIndex' = {x}
  /\ Settle(c)
  /\ UNCHANGED <<repoVars, stampVars, entryVars, nullStamp, diskIndex, asked>>

\* forceRebuildSymbolIndex forgets what is in memory and builds, joined by nobody.
Reindex(c) ==
  /\ At(c, "stamped") /\ call[c].op = "reindex"
  /\ memIndex' = {} /\ nullStamp' = {}
  /\ Stay(c, "list")
  /\ UNCHANGED <<repoVars, stampVars, entryVars, diskIndex, asked>>

-----------------------------------------------------------------------------
(* The computation: the files are listed, all of them for an index, those that *)
(* match for a result; then each is stat'ed and read.                          *)

\* What a listing shows of a file, in snippets, outlines and counts: its text when rg or
\* git grep searched it, or when the index in memory was built.
Listed(f) == {tree[f].text} \cup {x.texts[f] : x \in {y \in memIndex : f \in DOMAIN y.texts}}

\* A result keeps what the listing showed, and has some of the files looked at.
List(c) ==
  /\ At(c, "list")
  /\ \/ /\ Kind(call[c].op) = "query"
        /\ \E found \in SUBSET Present : \E todo \in SUBSET found, said \in [found -> 0 .. MaxWrites] :
             /\ \A f \in found : said[f] \in Listed(f)
             /\ call' = [call EXCEPT ![c].pc = "files", ![c].todo = todo, ![c].said = said]
     \/ /\ call[c].op = "reindex" \/ (call[c].op = "index" /\ \A x \in diskIndex : x.stamp # call[c].stamp)
        /\ call' = [call EXCEPT ![c].pc = "files", ![c].todo = Present]
  /\ UNCHANGED <<repoVars, stampVars, entryVars, indexVars, asked>>

\* rg or git fails: the call throws, and so do those that joined it.
Fails(c) ==
  /\ At(c, "list")
  /\ Settle(c)
  /\ UNCHANGED <<repoVars, stampVars, entryVars, indexVars, asked>>

Stat(c, f) ==
  /\ At(c, "files") /\ f \in call[c].todo
  /\ call' = [call EXCEPT ![c].todo = @ \ {f},
                         ![c].fps = IF tree[f].text = 0 THEN @
                                    ELSE [g \in DOMAIN @ \cup {f} |-> IF g = f THEN tree[f].mtime ELSE @[g]]]
  /\ UNCHANGED <<repoVars, stampVars, entryVars, indexVars, asked>>

Unread(c) == DOMAIN call[c].fps \ DOMAIN call[c].texts

\* A file that is gone by now is an error of its own in the result.
Read(c, f) ==
  /\ At(c, "files") /\ f \in Unread(c)
  /\ call' =
       IF tree[f].text = 0
       THEN [call EXCEPT ![c].fps = [g \in DOMAIN @ \ {f} |-> @[g]]]
       ELSE [call EXCEPT ![c].texts = [g \in DOMAIN @ \cup {f} |-> IF g = f THEN tree[f].text ELSE @[g]]]
  /\ UNCHANGED <<repoVars, stampVars, entryVars, indexVars, asked>>

\* The files that are there were read, or, for detail L0, stat'ed only.
Complete(c) ==
  /\ At(c, "files") /\ call[c].todo = {}
  /\ Unread(c) = {} \/ (Kind(call[c].op) = "query" /\ call[c].texts = <<>>)

\* Fault: the files are stat'ed when the result is complete.
ResultStatedLate(c) ==
  [stamp |-> call[c].stamp, texts |-> call[c].texts, said |-> call[c].said,
   fps |-> [f \in DOMAIN call[c].fps |-> tree[f].mtime]]

Result(c) == [stamp |-> call[c].stamp, fps |-> call[c].fps, texts |-> call[c].texts, said |-> call[c].said]
Symbols(c) == [stamp |-> call[c].stamp, texts |-> call[c].texts]

\* cachePut: a full table loses its oldest result; the write to disk begins.
CachePut(c) ==
  /\ Complete(c) /\ Kind(call[c].op) = "query"
  /\ store' = Put(IF Len(store) >= MaxEntries THEN Tail(store) ELSE store, Result(c))
  /\ saving' \in {saving \cup {Result(c)}, saving}
  /\ Settle(c)
  /\ UNCHANGED <<repoVars, stampVars, disk, indexVars, asked>>

\* The write of a result ends, well or torn.
SaveEntry(e) ==
  /\ e \in saving /\ saving' = saving \ {e}
  /\ disk' \in {Others(disk, e.stamp) \cup {e}, Others(disk, e.stamp)}
  /\ UNCHANGED <<repoVars, stampVars, store, indexVars, call, asked>>

\* An index without symbols is none.
NoSymbols(c) ==
  /\ Complete(c) /\ call[c].op \in {"index", "reindex"} /\ call[c].texts = <<>>
  /\ nullStamp' = {call[c].stamp}
  /\ Settle(c)
  /\ UNCHANGED <<repoVars, stampVars, entryVars, memIndex, diskIndex, asked>>

\* The write of the index begins, or will not; reindex has it in memory already.
BuildIndex(c) ==
  /\ Complete(c) /\ call[c].op \in {"index", "reindex"} /\ call[c].texts # <<>>
  /\ memIndex'  = IF call[c].op = "reindex" THEN {Symbols(c)} ELSE memIndex
  /\ diskIndex' \in {diskIndex, Others(diskIndex, call[c].stamp)}
  /\ Stay(c, "save")
  /\ UNCHANGED <<repoVars, stampVars, entryVars, nullStamp, asked>>

SaveIndex(c) ==
  /\ At(c, "save")
  /\ diskIndex' \in {diskIndex, Others(diskIndex, call[c].stamp) \cup {Symbols(c)}}
  /\ memIndex'  = IF call[c].op = "index" THEN {Symbols(c)} ELSE memIndex
  /\ Settle(c)
  /\ UNCHANGED <<repoVars, stampVars, entryVars, nullStamp, asked>>

\* The server restarts: only the disk is left, but for what was being written and
\* what prewarmHeads finds expired.
Restart ==
  /\ \E kept \in SUBSET disk : disk' = kept
  /\ store' = <<>> /\ saving' = {}
  /\ headCache' = {} /\ stampCache' = {} /\ memIndex' = {} /\ nullStamp' = {}
  /\ call' = [c \in Callers |-> Idle]
  /\ UNCHANGED <<repoVars, diskIndex, asked>>

Answer(c) ==
  \/ ReadHead(c) \/ ReadStatus(c)
  \/ CacheGet(c) \/ CacheMiss(c) \/ Refresh(c)
  \/ IndexHit(c) \/ IndexMiss(c) \/ IndexFromDisk(c) \/ Reindex(c)
  \/ List(c) \/ Fails(c) \/ CachePut(c) \/ NoSymbols(c) \/ BuildIndex(c) \/ SaveIndex(c)
  \/ \E f \in Files : Stat(c, f) \/ Read(c, f)

Next ==
  \/ \E f \in Files : Write(f) \/ Delete(f)
  \/ Commit \/ \E k \in DOMAIN base : Checkout(k)
  \/ \E c \in Callers : Answer(c) \/ \E op \in Ops : Ask(c, op)
  \/ \E e \in saving : SaveEntry(e)
  \/ Restart

Spec == Init /\ [][Next]_cacheVars

-----------------------------------------------------------------------------
\* What the result e shows of its files, taken from `shown`, is their text as long as
\* their fingerprints hold.
Truthful(e, shown) ==
  \A f \in DOMAIN shown \cap DOMAIN e.fps : e.fps[f] = tree[f].mtime => shown[f] = tree[f].text

Results == {store[i] : i \in DOMAIN store} \cup disk \cup saving

\* The bodies a result was given from its files: whatever was written, moved or checked
\* out while it was computed, stored, saved or loaded, a file of it that still has its
\* fingerprint still has the text that was read of it.
BodiesTruthful == \A e \in Results : Truthful(e, e.texts)

\* "Fingerprint khop thi noi dung khong the khac" (contextCache.ts:17), of all that a result
\* shows.  The code does otherwise: snippets, outlines and counts are those of the listing,
\* which came before the stat (traceFlow.ts:192, featureContext.ts:261).
EntriesTruthful == \A e \in Results : Truthful(e, e.texts) /\ Truthful(e, e.said)

\* No call hangs: what a call has joined is a computation still to be settled.
NoneLeftWaiting == \A c \in Callers : At(c, "join") => \E d \in Callers : Leads(d) /\ Same(c, d)

\* "Lay symbol index cua repo o dung trang thai hien tai" (symbolIndex.ts:334): the
\* index that a call would get at the repository's present stamp tells the present texts.
IndexIsCurrent ==
  \A x \in memIndex : x.stamp = Stamp => x.texts = [f \in Present |-> tree[f].text]
=============================================================================
