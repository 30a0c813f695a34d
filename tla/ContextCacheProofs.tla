------------------------- MODULE ContextCacheProofs -------------------------
(***************************************************************************)
(* Theorems about ContextCache, for any files and callers, any MAX_ENTRIES *)
(* and any number of changes, commits and calls.                           *)
(***************************************************************************)
EXTENDS ContextCache, SequenceTheorems, FiniteSetTheorems, TLAPS

\* A file is absent exactly when it has no mtime.
Clock ==
  /\ Len(base) <= MaxCommits
  /\ \A f \in Files : tree[f].text = 0 <=> tree[f].mtime = 0

\* A text was read behind the fingerprint of its file, which is that of a moment when
\* the file was there; and while the fingerprint holds, so does the text.
Good(r) ==
  /\ DOMAIN r.texts \subseteq DOMAIN r.fps /\ DOMAIN r.fps \subseteq Files
  /\ \A f \in DOMAIN r.fps : r.fps[f] \in 1 .. writes
  /\ Truthful(r, r.texts)

\* A file is stat'ed once, and none before the files are listed.
StatedOnce(c) ==
  /\ call[c].todo \cap DOMAIN call[c].fps = {}
  /\ call[c].pc \notin {"files", "save"} => DOMAIN call[c].fps = {}

GoodEntries ==
  /\ \A i \in DOMAIN store : Good(store[i])
  /\ \A e \in disk \cup saving : Good(e)
GoodCalls == \A c \in Callers : Good(call[c]) /\ StatedOnce(c)

\* The inductive invariant.
IInv == TypeOK /\ Clock /\ GoodEntries /\ GoodCalls

Pcs == {"idle", "head", "status", "stamped", "list", "files", "save", "join"}

-----------------------------------------------------------------------------
(* Types. *)

\* What is known of no file at all.
LEMMA NothingKnown == <<>> \in PerFile /\ DOMAIN <<>> = {}
<1>1. DOMAIN <<>> = {} /\ <<>> \in [{} -> 0 .. MaxWrites]
  OBVIOUS
<1> QED
  BY <1>1 DEF PerFile

LEMMA PerFileIntro ==
  ASSUME NEW D \in SUBSET Files, NEW g \in [D -> 0 .. MaxWrites] PROVE g \in PerFile
  BY DEF PerFile

LEMMA PerFileElim ==
  ASSUME NEW g \in PerFile
  PROVE  DOMAIN g \subseteq Files /\ g \in [DOMAIN g -> 0 .. MaxWrites]
  BY DEF PerFile

LEMMA StampTypes ==
  /\ Clean \in [Files -> {"  ", "??", " D", " M"}]
  /\ \A now, then : Status(now, then) \in [Files -> {"  ", "??", " D", " M"}]
  /\ NoHead \in 0 .. MaxCommits
  BY CacheAssumption DEF Clean, Status, NoHead, CacheAssumption

LEMMA BegunTypes ==
  /\ NoStamp \in Stamps
  /\ \A op \in Ops \cup {"none"}, pc \in Pcs, s \in Stamps :
       /\ Begun(op, pc, s) \in Call
       /\ DOMAIN Begun(op, pc, s).fps = {} /\ DOMAIN Begun(op, pc, s).texts = {}
       /\ Begun(op, pc, s).todo = {} /\ Begun(op, pc, s).pc = pc
<1>1. NoStamp \in Stamps
  BY StampTypes DEF NoStamp, Stamps
<1>2. ASSUME NEW op \in Ops \cup {"none"}, NEW pc \in Pcs, NEW s \in Stamps
      PROVE  /\ Begun(op, pc, s) \in Call
             /\ DOMAIN Begun(op, pc, s).fps = {} /\ DOMAIN Begun(op, pc, s).texts = {}
             /\ Begun(op, pc, s).todo = {} /\ Begun(op, pc, s).pc = pc
  BY NothingKnown DEF Begun, Call, Pcs
<1> QED
  BY <1>1, <1>2

LEMMA IdleTypes ==
  /\ Idle \in Call /\ Idle.pc = "idle" /\ Idle.todo = {}
  /\ DOMAIN Idle.fps = {} /\ DOMAIN Idle.texts = {}
  BY BegunTypes DEF Idle, Pcs

\* What Put leaves of a table: the result in its place and the other entries.
LEMMA PutTypes ==
  ASSUME NEW entries \in Seq(Entry), NEW e \in Entry,
         \A i, j \in DOMAIN entries : entries[i].stamp = entries[j].stamp => i = j
  PROVE  /\ Put(entries, e) \in Seq(Entry)
         /\ \A i, j \in DOMAIN Put(entries, e) :
              Put(entries, e)[i].stamp = Put(entries, e)[j].stamp => i = j
         /\ \A i \in DOMAIN Put(entries, e) :
              Put(entries, e)[i] = e \/ \E j \in DOMAIN entries : Put(entries, e)[i] = entries[j]
<1> DEFINE p == Put(entries, e)
           n == Len(entries)
<1>1. n \in Nat /\ DOMAIN entries = 1 .. n /\ \A i \in 1 .. n : entries[i] \in Entry
  BY LenProperties, ElementOfSeq
<1>2. CASE \E i \in DOMAIN entries : entries[i].stamp = e.stamp
  <2>1. p = [i \in 1 .. n |-> IF entries[i].stamp = e.stamp THEN e ELSE entries[i]]
    BY <1>1, <1>2 DEF Put
  <2>2. p \in [1 .. n -> Entry]
    BY <1>1, <2>1
  <2>3. p \in Seq(Entry)
    BY <1>1, <2>2, SeqDef
  <2>4. \A i \in 1 .. n : p[i].stamp = entries[i].stamp /\ (p[i] = e \/ p[i] = entries[i])
    BY <2>1
  <2>5. DOMAIN p = 1 .. n
    BY <2>1
  <2> HIDE DEF p
  <2> QED
    BY <1>1, <2>3, <2>4, <2>5 DEF p
<1>3. CASE ~(\E i \in DOMAIN entries : entries[i].stamp = e.stamp)
  <2>1. p = Append(entries, e)
    BY <1>3 DEF Put
  <2>2. /\ p \in Seq(Entry) /\ DOMAIN p = 1 .. n + 1
        /\ \A i \in 1 .. n : p[i] = entries[i]
        /\ p[n + 1] = e
    BY <1>1, <2>1, AppendProperties, LenProperties
  <2>3. \A i \in 1 .. n + 1 : i \in 1 .. n \/ i = n + 1
    BY <1>1
  <2> HIDE DEF p, n
  <2>4. \A i \in DOMAIN p : p[i] = e \/ \E j \in DOMAIN entries : p[i] = entries[j]
    BY <1>1, <2>2, <2>3
  <2>5. \A i, j \in DOMAIN p : p[i].stamp = p[j].stamp => i = j
    BY <1>1, <1>3, <2>2, <2>3
  <2> QED
    BY <2>2, <2>4, <2>5 DEF p
<1> QED
  BY <1>2, <1>3

\* A table without one of its entries, and so one without its oldest.
LEMMA RemoveTypes ==
  ASSUME NEW entries \in Seq(Entry), NEW k \in DOMAIN entries,
         \A i, j \in DOMAIN entries : entries[i].stamp = entries[j].stamp => i = j
  PROVE  LET p == RemoveAt(entries, k) IN
         /\ p \in Seq(Entry)
         /\ \A i, j \in DOMAIN p : p[i].stamp = p[j].stamp => i = j
         /\ \A i \in DOMAIN p : \E j \in DOMAIN entries : p[i] = entries[j]
<1> DEFINE n == Len(entries)
           a == SubSeq(entries, 1, k - 1)
           b == SubSeq(entries, k + 1, n)
           p == RemoveAt(entries, k)
<1>1. n \in Nat /\ k \in 1 .. n /\ DOMAIN entries = 1 .. n /\ \A i \in 1 .. n : entries[i] \in Entry
  BY LenProperties, ElementOfSeq
<1>2. /\ a \in Seq(Entry) /\ Len(a) = k - 1 /\ \A i \in 1 .. k - 1 : a[i] = entries[i]
  <2>1. \A i \in 1 .. k - 1 : entries[i] \in Entry
    BY <1>1
  <2>2. 1 \in Int /\ k - 1 \in Int
    BY <1>1
  <2>3. /\ a \in Seq(Entry) /\ Len(a) = IF 1 <= k - 1 THEN k - 1 - 1 + 1 ELSE 0
        /\ \A i \in 1 .. k - 1 - 1 + 1 : a[i] = entries[1 + i - 1]
    BY <2>1, <2>2, SubSeqProperties
  <2> HIDE DEF a
  <2> QED
    BY <1>1, <2>3
<1>3. /\ b \in Seq(Entry) /\ Len(b) = n - k /\ \A i \in 1 .. n - k : b[i] = entries[k + i]
  <2>1. \A i \in k + 1 .. n : entries[i] \in Entry
    BY <1>1
  <2>2. k + 1 \in Int /\ n \in Int
    BY <1>1
  <2>3. /\ b \in Seq(Entry) /\ Len(b) = IF k + 1 <= n THEN n - (k + 1) + 1 ELSE 0
        /\ \A i \in 1 .. n - (k + 1) + 1 : b[i] = entries[k + 1 + i - 1]
    BY <2>1, <2>2, SubSeqProperties
  <2> HIDE DEF b, n
  <2>4. Len(b) = n - k /\ n - (k + 1) + 1 = n - k
    BY <1>1, <2>3
  <2>5. \A i \in 1 .. n - k : k + 1 + i - 1 = k + i
    BY <1>1
  <2> QED
    BY <2>3, <2>4, <2>5
<1>4. p = a \o b
  BY DEF RemoveAt
<1> HIDE DEF a, b, n, p
<1>5. /\ p \in Seq(Entry) /\ Len(p) = n - 1 /\ DOMAIN p = 1 .. n - 1
      /\ \A i \in 1 .. n - 1 : p[i] = IF i <= k - 1 THEN a[i] ELSE b[i - (k - 1)]
  <2>1. /\ a \o b \in Seq(Entry) /\ Len(a \o b) = Len(a) + Len(b)
        /\ \A i \in 1 .. Len(a) + Len(b) : (a \o b)[i] = IF i <= Len(a) THEN a[i] ELSE b[i - Len(a)]
    BY <1>2, <1>3, ConcatProperties
  <2>2. Len(a) + Len(b) = n - 1
    BY <1>1, <1>2, <1>3
  <2> QED
    BY <1>2, <1>4, <2>1, <2>2, LenProperties
<1>6. \A i \in 1 .. n - 1 : /\ (IF i < k THEN i ELSE i + 1) \in 1 .. n
                            /\ p[i] = entries[IF i < k THEN i ELSE i + 1]
  <2> SUFFICES ASSUME NEW i \in 1 .. n - 1
               PROVE  /\ (IF i < k THEN i ELSE i + 1) \in 1 .. n
                      /\ p[i] = entries[IF i < k THEN i ELSE i + 1]
    OBVIOUS
  <2>1. CASE i < k
    BY <1>1, <1>2, <1>5, <2>1
  <2>2. CASE ~(i < k)
    <3>1. i - (k - 1) \in 1 .. n - k /\ k + (i - (k - 1)) = i + 1 /\ ~(i <= k - 1) /\ i + 1 \in 1 .. n
      BY <1>1, <2>2
    <3> QED
      BY <1>3, <1>5, <2>2, <3>1
  <2> QED
    BY <2>1, <2>2
<1>7. \A i \in DOMAIN p : \E j \in DOMAIN entries : p[i] = entries[j]
  BY <1>1, <1>5, <1>6
<1>8. \A i, j \in DOMAIN p : p[i].stamp = p[j].stamp => i = j
  <2> SUFFICES ASSUME NEW i \in 1 .. n - 1, NEW j \in 1 .. n - 1, p[i].stamp = p[j].stamp PROVE i = j
    BY <1>5
  <2>1. (IF i < k THEN i ELSE i + 1) = (IF j < k THEN j ELSE j + 1)
    BY <1>1, <1>6
  <2> QED
    BY <1>1, <2>1
<1> QED
  BY <1>5, <1>7, <1>8 DEF p

-----------------------------------------------------------------------------
(* Calls. *)

LEMMA CallTypes ==
  ASSUME TypeOK, NEW c \in Callers
  PROVE  /\ call[c].op \in Ops \cup {"none"} /\ call[c].stamp \in Stamps /\ call[c].todo \in SUBSET Files
         /\ call[c].fps \in PerFile /\ call[c].texts \in PerFile /\ call[c].said \in PerFile
         /\ call[c].pc \in Pcs
  BY DEF TypeOK, Call, Pcs

\* A call goes on, and the others stay.
LEMMA Moves ==
  ASSUME TypeOK, NEW c \in Callers, NEW pc \in Pcs, Stay(c, pc)
  PROVE  /\ call' \in [Callers -> Call]
         /\ call'[c].pc = pc /\ call'[c].op = call[c].op /\ call'[c].stamp = call[c].stamp
         /\ call'[c].fps = call[c].fps /\ call'[c].texts = call[c].texts /\ call'[c].todo = call[c].todo
         /\ \A d \in Callers \ {c} : call'[d] = call[d]
  BY DEF Stay, TypeOK, Call, Pcs

\* A call and those that joined it are done, and the others stay.
LEMMA Settles ==
  ASSUME TypeOK, NEW c \in Callers, Settle(c)
  PROVE  /\ call' \in [Callers -> Call]
         /\ \A d \in Callers : call'[d] = call[d] \/ call'[d] = Idle
         /\ call'[c] = Idle
         /\ \A d \in Callers : Leads(c) /\ At(d, "join") /\ Same(c, d) => call'[d] = Idle
  BY IdleTypes DEF Settle, TypeOK

\* The call d keeps what it knows, or starts from nothing.
Carries(d) ==
  /\ call'[d].fps = call[d].fps /\ call'[d].texts = call[d].texts /\ call'[d].todo = call[d].todo
  /\ call'[d].pc \in {"files", "save"} => call[d].pc \in {"files", "save"}
  /\ call[d].pc \in {"files", "save"} => call'[d].pc \in {"files", "save"}
Blank(r) == DOMAIN r.fps = {} /\ DOMAIN r.texts = {} /\ r.todo = {}

LEMMA CallsGood ==
  ASSUME IInv, UNCHANGED repoVars, \A d \in Callers : Carries(d) \/ Blank(call'[d])
  PROVE  GoodCalls'
<1>1. UNCHANGED <<tree, base, head, writes>>
  BY DEF repoVars
<1> SUFFICES ASSUME NEW d \in Callers PROVE (Good(call[d]) /\ StatedOnce(d))'
  BY DEF GoodCalls
<1>2. Good(call[d]) /\ StatedOnce(d)
  BY DEF IInv, GoodCalls
<1>3. CASE Carries(d)
  BY <1>1, <1>2, <1>3 DEF Carries, Good, Truthful, StatedOnce
<1>4. CASE Blank(call'[d])
  BY <1>1, <1>4 DEF Blank, Good, Truthful, StatedOnce
<1> QED
  BY <1>3, <1>4

LEMMA SettleGood ==
  ASSUME IInv, UNCHANGED repoVars, NEW c \in Callers, Settle(c) PROVE GoodCalls'
<1>1. \A d \in Callers : call'[d] = call[d] \/ call'[d] = Idle
  BY Settles DEF IInv
<1>2. \A d \in Callers : Carries(d) \/ Blank(call'[d])
  BY <1>1, IdleTypes DEF Carries, Blank
<1> QED
  BY <1>2, CallsGood

LEMMA MoveGood ==
  ASSUME IInv, UNCHANGED repoVars, NEW c \in Callers, NEW pc \in Pcs, Stay(c, pc),
         pc \in {"files", "save"} <=> call[c].pc \in {"files", "save"}
  PROVE  GoodCalls'
<1>1. /\ call'[c].pc = pc /\ \A d \in Callers \ {c} : call'[d] = call[d]
      /\ call'[c].fps = call[c].fps /\ call'[c].texts = call[c].texts /\ call'[c].todo = call[c].todo
  BY Moves DEF IInv
<1>2. \A d \in Callers : Carries(d)
  BY <1>1 DEF Carries
<1> QED
  BY <1>2, CallsGood

\* The entries stay good while the repository and the tables do not move.
LEMMA EntriesStay == ASSUME IInv, UNCHANGED repoVars, UNCHANGED entryVars PROVE GoodEntries'
  BY DEF IInv, GoodEntries, Good, Truthful, repoVars, entryVars

\* A change of the repository gives every file it touches a new mtime, or none.
LEMMA RepoKeepsGood ==
  ASSUME IInv, writes' \in 0 .. MaxWrites, writes <= writes',
         \A f \in Files : tree'[f] = tree[f] \/ tree'[f].mtime \notin 1 .. writes,
         UNCHANGED entryVars, UNCHANGED call
  PROVE  GoodEntries' /\ GoodCalls'
<1>1. writes \in Nat /\ writes' \in Nat
  BY CacheAssumption DEF IInv, TypeOK, CacheAssumption
<1>2. \A r : Good(r) => /\ DOMAIN r.texts \subseteq DOMAIN r.fps /\ DOMAIN r.fps \subseteq Files
                        /\ \A f \in DOMAIN r.fps : r.fps[f] \in 1 .. writes'
                        /\ \A f \in DOMAIN r.texts : r.fps[f] = tree'[f].mtime => r.texts[f] = tree'[f].text
  BY <1>1 DEF Good, Truthful
<1>3. UNCHANGED <<store, disk, saving>>
  BY DEF entryVars
<1>4. GoodEntries'
  BY <1>2, <1>3 DEF IInv, GoodEntries, Good, Truthful
<1>5. GoodCalls'
  BY <1>2 DEF IInv, GoodCalls, Good, Truthful, StatedOnce
<1> QED
  BY <1>4, <1>5

-----------------------------------------------------------------------------
(* The steps. *)

LEMMA OneAtMost == Cardinality({}) <= 1 /\ \A x : Cardinality({x}) <= 1
<1>1. Cardinality({}) = 0
  BY FS_EmptySet
<1>2. \A x : Cardinality({x}) = 1
  BY FS_Singleton
<1> QED
  BY <1>1, <1>2

LEMMA RepoTypes ==
  ASSUME TypeOK
  PROVE  /\ writes \in 0 .. MaxWrites /\ writes \in Nat /\ MaxWrites \in Nat
         /\ tree \in [Files -> [text : 0 .. MaxWrites, mtime : 0 .. writes]]
         /\ Texts \in [Files -> 0 .. MaxWrites]
         /\ Len(base) \in Nat /\ DOMAIN base = 1 .. Len(base) /\ head \in 1 .. Len(base)
         /\ \A k \in DOMAIN base : base[k] \in [Files -> 0 .. MaxWrites]
<1>1. /\ writes \in 0 .. MaxWrites /\ writes \in Nat /\ MaxWrites \in Nat
      /\ tree \in [Files -> [text : 0 .. MaxWrites, mtime : 0 .. writes]]
  BY CacheAssumption DEF TypeOK, CacheAssumption
<1>2. Texts \in [Files -> 0 .. MaxWrites]
  BY <1>1 DEF Texts
<1>3. base \in Seq([Files -> 0 .. MaxWrites]) /\ head \in DOMAIN base
  BY DEF TypeOK
<1>4. /\ Len(base) \in Nat /\ DOMAIN base = 1 .. Len(base)
      /\ \A k \in 1 .. Len(base) : base[k] \in [Files -> 0 .. MaxWrites]
  BY <1>3, LenProperties, ElementOfSeq
<1> QED
  BY <1>1, <1>2, <1>3, <1>4

\* The caches are not touched by what happens to the repository.
LEMMA RepoStep ==
  ASSUME IInv, UNCHANGED <<stampVars, entryVars, indexVars, call, asked>>,
         writes' \in 0 .. MaxWrites, writes <= writes',
         tree' \in [Files -> [text : 0 .. MaxWrites, mtime : 0 .. writes']],
         \A f \in Files : tree'[f] = tree[f] \/ tree'[f].mtime \notin 1 .. writes,
         \A f \in Files : tree'[f] = tree[f] \/ (tree'[f].text = 0 <=> tree'[f].mtime = 0),
         base' \in Seq([Files -> 0 .. MaxWrites]), Len(base') <= MaxCommits, head' \in DOMAIN base'
  PROVE  IInv'
<1>1. UNCHANGED <<headCache, stampCache, store, disk, saving, memIndex, nullStamp, diskIndex, call, asked>>
  BY DEF stampVars, entryVars, indexVars
<1>2. TypeOK'
  BY <1>1 DEF IInv, TypeOK
<1>3. Clock'
  BY DEF IInv, Clock
<1>4. GoodEntries' /\ GoodCalls'
  BY RepoKeepsGood
<1> QED
  BY <1>2, <1>3, <1>4 DEF IInv

LEMMA WriteIInv == ASSUME IInv, NEW f \in Files, Write(f) PROVE IInv'
<1>1. TypeOK /\ Clock
  BY DEF IInv
<1>2. PICK w : w = writes + 1
  OBVIOUS
<1>3. /\ writes' = w /\ w \in 1 .. MaxWrites /\ w \notin 1 .. writes /\ writes <= w
      /\ tree' = [tree EXCEPT ![f] = [text |-> w, mtime |-> w]]
      /\ UNCHANGED <<base, head, stampVars, entryVars, indexVars, call, asked>>
  BY <1>1, <1>2, RepoTypes DEF Write, SetFile
<1>4. tree' \in [Files -> [text : 0 .. MaxWrites, mtime : 0 .. writes']]
  <2>1. \A g \in Files : tree'[g] = IF g = f THEN [text |-> w, mtime |-> w] ELSE tree[g]
    BY <1>1, <1>3, RepoTypes
  <2>2. \A g \in Files : tree'[g] \in [text : 0 .. MaxWrites, mtime : 0 .. w]
    BY <1>1, <1>2, <1>3, <2>1, RepoTypes
  <2> QED
    BY <1>1, <1>3, <2>2, RepoTypes
<1>5. \A g \in Files \ {f} : tree'[g] = tree[g]
  BY <1>1, <1>3, RepoTypes
<1>6. tree'[f].text = w /\ tree'[f].mtime = w
  BY <1>1, <1>3, RepoTypes
<1> QED
  BY <1>1, <1>3, <1>4, <1>5, <1>6, RepoStep DEF Clock, TypeOK

LEMMA DeleteIInv == ASSUME IInv, NEW f \in Files, Delete(f) PROVE IInv'
<1>1. TypeOK /\ Clock
  BY DEF IInv
<1>2. /\ tree' = [tree EXCEPT ![f] = [text |-> 0, mtime |-> 0]] /\ writes' = writes
      /\ UNCHANGED <<base, head, stampVars, entryVars, indexVars, call, asked>>
  BY DEF Delete, SetFile
<1>3. tree' \in [Files -> [text : 0 .. MaxWrites, mtime : 0 .. writes']]
  <2>1. \A g \in Files : tree'[g] = IF g = f THEN [text |-> 0, mtime |-> 0] ELSE tree[g]
    BY <1>1, <1>2, RepoTypes
  <2>2. \A g \in Files : tree'[g] \in [text : 0 .. MaxWrites, mtime : 0 .. writes']
    BY <1>1, <1>2, <2>1, RepoTypes
  <2> QED
    BY <1>1, <1>2, <2>2, RepoTypes
<1>4. \A g \in Files \ {f} : tree'[g] = tree[g]
  BY <1>1, <1>2, RepoTypes
<1>5. tree'[f].text = 0 /\ tree'[f].mtime = 0
  BY <1>1, <1>2, RepoTypes
<1>6. writes <= writes' /\ writes' \in 0 .. MaxWrites
  BY <1>1, <1>2, RepoTypes
<1> QED
  BY <1>1, <1>2, <1>3, <1>4, <1>5, <1>6, RepoStep DEF Clock, TypeOK

LEMMA CommitIInv == ASSUME IInv, Commit PROVE IInv'
<1>1. TypeOK /\ Clock
  BY DEF IInv
<1>2. /\ Len(base) < MaxCommits /\ base' = Append(base, Texts) /\ head' = Len(base) + 1
      /\ UNCHANGED <<tree, writes, stampVars, entryVars, indexVars, call, asked>>
  BY DEF Commit
<1>3. base' \in Seq([Files -> 0 .. MaxWrites]) /\ Len(base') = Len(base) + 1
  BY <1>1, <1>2, RepoTypes, AppendProperties DEF TypeOK
<1>4. head' \in DOMAIN base' /\ Len(base') <= MaxCommits
  BY <1>1, <1>2, <1>3, RepoTypes, LenProperties, CacheAssumption DEF CacheAssumption
<1>5. writes <= writes' /\ writes' \in 0 .. MaxWrites
      /\ tree' \in [Files -> [text : 0 .. MaxWrites, mtime : 0 .. writes']]
  BY <1>1, <1>2, RepoTypes
<1> QED
  BY <1>2, <1>3, <1>4, <1>5, RepoStep

LEMMA CheckoutIInv == ASSUME IInv, NEW k \in DOMAIN base, Checkout(k) PROVE IInv'
<1>1. TypeOK /\ Clock
  BY DEF IInv
<1>2. PICK w : w = writes + 1
  OBVIOUS
<1>3. /\ head' = k /\ writes' = w /\ w \in 1 .. MaxWrites /\ w \notin 1 .. writes /\ writes <= w
      /\ UNCHANGED <<base, stampVars, entryVars, indexVars, call, asked>>
  BY <1>1, <1>2, RepoTypes DEF Checkout
<1>4. tree' = [f \in Files |->
        IF base[k][f] = tree[f].text THEN tree[f]
        ELSE [text |-> base[k][f], mtime |-> IF base[k][f] = 0 THEN 0 ELSE w]]
  BY <1>2 DEF Checkout
<1>5. \A f \in Files : base[k][f] \in 0 .. MaxWrites
  BY <1>1, RepoTypes
<1>6. \A f \in Files : \/ tree'[f] = tree[f]
                      \/ /\ tree'[f].text = base[k][f] /\ tree'[f].mtime = IF base[k][f] = 0 THEN 0 ELSE w
                         /\ tree'[f] \in [text : 0 .. MaxWrites, mtime : 0 .. w]
  <2> SUFFICES ASSUME NEW f \in Files, base[k][f] # tree[f].text
               PROVE  /\ tree'[f].text = base[k][f] /\ tree'[f].mtime = IF base[k][f] = 0 THEN 0 ELSE w
                      /\ tree'[f] \in [text : 0 .. MaxWrites, mtime : 0 .. w]
    BY <1>4
  <2>1. tree'[f] = [text |-> base[k][f], mtime |-> IF base[k][f] = 0 THEN 0 ELSE w]
    BY <1>4
  <2>2. (IF base[k][f] = 0 THEN 0 ELSE w) \in 0 .. w
    BY <1>3
  <2> QED
    BY <1>5, <2>1, <2>2
<1>7. tree' \in [Files -> [text : 0 .. MaxWrites, mtime : 0 .. writes']]
  <2>1. \A f \in Files : tree[f] \in [text : 0 .. MaxWrites, mtime : 0 .. w]
    BY <1>1, <1>2, RepoTypes
  <2>2. \A f \in Files : tree'[f] \in [text : 0 .. MaxWrites, mtime : 0 .. w]
    BY <1>6, <2>1
  <2>3. DOMAIN tree' = Files /\ tree' = [f \in Files |-> tree'[f]]
    BY <1>4
  <2> QED
    BY <1>3, <2>2, <2>3
<1>8. \A f \in Files : tree'[f] = tree[f] \/ tree'[f].mtime \notin 1 .. writes
  BY <1>3, <1>6
<1>9. \A f \in Files : tree'[f] = tree[f] \/ (tree'[f].text = 0 <=> tree'[f].mtime = 0)
  BY <1>3, <1>6
<1>10. head' \in DOMAIN base' /\ base' \in Seq([Files -> 0 .. MaxWrites]) /\ Len(base') <= MaxCommits
       /\ writes' \in 0 .. MaxWrites /\ writes <= writes'
  BY <1>1, <1>3 DEF Clock, TypeOK
<1> QED
  BY <1>3, <1>7, <1>8, <1>9, <1>10, RepoStep

\* The conjuncts of TypeOK about what is remembered, by kind.
StampsOK ==
  /\ headCache \subseteq 0 .. MaxCommits /\ Cardinality(headCache) <= 1
  /\ stampCache \subseteq Stamps /\ Cardinality(stampCache) <= 1
IndexOK ==
  /\ memIndex \subseteq Index /\ Cardinality(memIndex) <= 1
  /\ diskIndex \subseteq Index /\ OnePerStamp(diskIndex)
  /\ nullStamp \subseteq Stamps /\ Cardinality(nullStamp) <= 1
EntriesOK ==
  /\ store \in Seq(Entry) /\ \A i, j \in DOMAIN store : store[i].stamp = store[j].stamp => i = j
  /\ disk \subseteq Entry /\ OnePerStamp(disk) /\ saving \subseteq Entry
CallsOK == call \in [Callers -> Call] /\ asked \in 0 .. MaxCalls

LEMMA TypeParts == TypeOK => StampsOK /\ IndexOK /\ EntriesOK /\ CallsOK
  BY DEF TypeOK, StampsOK, IndexOK, EntriesOK, CallsOK

LEMMA StampsStay == StampsOK /\ UNCHANGED stampVars => StampsOK'
  BY DEF StampsOK, stampVars
LEMMA IndexStay == IndexOK /\ UNCHANGED indexVars => IndexOK'
  BY DEF IndexOK, OnePerStamp, indexVars
LEMMA EntriesOKStay == EntriesOK /\ UNCHANGED entryVars => EntriesOK'
  BY DEF EntriesOK, OnePerStamp, entryVars

\* A step that leaves the repository alone.
LEMMA CacheStep ==
  ASSUME IInv, UNCHANGED repoVars, StampsOK', IndexOK', EntriesOK', CallsOK', GoodEntries', GoodCalls'
  PROVE  IInv'
<1>1. TypeOK /\ Clock /\ UNCHANGED <<tree, base, head, writes>>
  BY DEF IInv, repoVars
<1>2. TypeOK'
  BY <1>1 DEF TypeOK, StampsOK, IndexOK, EntriesOK, CallsOK, OnePerStamp
<1>3. Clock'
  BY <1>1 DEF Clock
<1> QED
  BY <1>2, <1>3 DEF IInv

\* A step that leaves the results alone, too.
LEMMA QuietStep ==
  ASSUME IInv, UNCHANGED repoVars, UNCHANGED entryVars, StampsOK', IndexOK',
         call' \in [Callers -> Call], asked' \in 0 .. MaxCalls, GoodCalls'
  PROVE  IInv'
<1>1. EntriesOK' /\ GoodEntries'
  BY TypeParts, EntriesOKStay, EntriesStay DEF IInv
<1> QED
  BY <1>1, CacheStep DEF CallsOK

LEMMA AskIInv == ASSUME IInv, NEW c \in Callers, NEW op \in Ops, Ask(c, op) PROVE IInv'
<1>1. TypeOK /\ StampsOK /\ IndexOK /\ CallsOK
  BY TypeParts DEF IInv
<1>2. /\ asked < MaxCalls /\ asked' = asked + 1
      /\ UNCHANGED <<repoVars, stampVars, entryVars, indexVars>>
  BY DEF Ask
<1>3. asked' \in 0 .. MaxCalls
  BY <1>1, <1>2, CacheAssumption DEF CallsOK, CacheAssumption
<1>4. PICK pc \in Pcs \ {"files", "save"}, s \in Stamps : call' = [call EXCEPT ![c] = Begun(op, pc, s)]
  <2>1. \A s \in stampCache : s \in Stamps
    BY <1>1 DEF StampsOK
  <2>2. \A h \in headCache : [NoStamp EXCEPT !.head = h] \in Stamps
    BY <1>1, StampTypes DEF StampsOK, NoStamp, Stamps
  <2>3. {"stamped", "status", "head"} \subseteq Pcs \ {"files", "save"}
    BY DEF Pcs
  <2> QED
    BY <2>1, <2>2, <2>3, BegunTypes DEF Ask
<1>5. call' \in [Callers -> Call] /\ Blank(call'[c]) /\ \A d \in Callers \ {c} : call'[d] = call[d]
  BY <1>1, <1>4, BegunTypes DEF CallsOK, Blank
<1>6. \A d \in Callers : Carries(d) \/ Blank(call'[d])
  BY <1>5 DEF Carries
<1> QED
  BY <1>1, <1>2, <1>3, <1>5, <1>6, CallsGood, StampsStay, IndexStay, QuietStep

\* A call that reads a part of its stamp.
LEMMA StampStep ==
  ASSUME IInv, NEW c \in Callers, NEW pc \in {"status", "stamped"}, NEW s \in Stamps,
         call[c].pc \in {"head", "status"},
         call' = [call EXCEPT ![c].pc = pc, ![c].stamp = s],
         UNCHANGED <<repoVars, entryVars, indexVars, asked>>, StampsOK'
  PROVE  IInv'
<1>1. TypeOK /\ IndexOK
  BY TypeParts DEF IInv
<1>2. call' = [call EXCEPT ![c] = [call[c] EXCEPT !.pc = pc, !.stamp = s]]
  BY <1>1 DEF TypeOK
<1>3. [call[c] EXCEPT !.pc = pc, !.stamp = s] \in Call
  BY <1>1 DEF TypeOK, Call
<1>4. call' \in [Callers -> Call]
  BY <1>1, <1>2, <1>3 DEF TypeOK
<1>5. /\ call'[c].fps = call[c].fps /\ call'[c].texts = call[c].texts /\ call'[c].todo = call[c].todo
      /\ call'[c].pc = pc /\ \A d \in Callers \ {c} : call'[d] = call[d]
  BY <1>1, <1>2 DEF TypeOK, Call
<1>6. \A d \in Callers : Carries(d)
  BY <1>5 DEF Carries
<1>7. asked' \in 0 .. MaxCalls
  BY <1>1 DEF TypeOK
<1> QED
  BY <1>1, <1>4, <1>6, <1>7, CallsGood, IndexStay, QuietStep

LEMMA ReadHeadIInv == ASSUME IInv, NEW c \in Callers, ReadHead(c) PROVE IInv'
<1>1. TypeOK /\ StampsOK /\ Clock
  BY TypeParts DEF IInv
<1>2. PICK h \in {head, NoHead} :
        headCache' = {h} /\ call' = [call EXCEPT ![c].pc = "status", ![c].stamp.head = h]
  BY DEF ReadHead
<1>3. /\ call[c].pc = "head" /\ stampCache' = stampCache
      /\ UNCHANGED <<repoVars, entryVars, indexVars, asked>>
  BY DEF ReadHead, At
<1>4. h \in 0 .. MaxCommits
  <2>1. head \in 1 .. Len(base) /\ Len(base) \in Nat /\ Len(base) <= MaxCommits
    BY <1>1, RepoTypes DEF Clock
  <2>2. head \in 0 .. MaxCommits
    BY <2>1, CacheAssumption DEF CacheAssumption
  <2> QED
    BY <2>2, StampTypes
<1>5. StampsOK'
  BY <1>1, <1>2, <1>3, <1>4, OneAtMost DEF StampsOK
<1> DEFINE s == [call[c].stamp EXCEPT !.head = h]
<1>6. s \in Stamps
  BY <1>1, <1>4, CallTypes DEF Stamps
<1>7. call' = [call EXCEPT ![c].pc = "status", ![c].stamp = s]
  BY <1>1, <1>2 DEF TypeOK, Call
<1> HIDE DEF s
<1> QED
  BY <1>3, <1>5, <1>6, <1>7, StampStep

LEMMA ReadStatusIInv == ASSUME IInv, NEW c \in Callers, ReadStatus(c) PROVE IInv'
<1>1. TypeOK /\ StampsOK
  BY TypeParts DEF IInv
<1>2. PICK t \in {Status(Texts, base[head]), Clean} :
        LET stamp == [call[c].stamp EXCEPT !.status = t]
        IN stampCache' = {stamp} /\ call' = [call EXCEPT ![c].pc = "stamped", ![c].stamp = stamp]
  BY DEF ReadStatus
<1>3. /\ call[c].pc = "status" /\ headCache' = headCache
      /\ UNCHANGED <<repoVars, entryVars, indexVars, asked>>
  BY DEF ReadStatus, At
<1> DEFINE s == [call[c].stamp EXCEPT !.status = t]
<1>4. s \in Stamps
  <2>1. Status(Texts, base[head]) \in [Files -> {"  ", "??", " D", " M"}]
    BY StampTypes
  <2>2. t \in [Files -> {"  ", "??", " D", " M"}]
    BY <2>1, StampTypes
  <2>3. call[c].stamp \in Stamps
    BY <1>1, CallTypes
  <2> QED
    BY <2>2, <2>3 DEF Stamps
<1>5. stampCache' = {s} /\ call' = [call EXCEPT ![c].pc = "stamped", ![c].stamp = s]
  BY <1>2
<1> HIDE DEF s
<1>6. StampsOK'
  BY <1>1, <1>3, <1>4, <1>5, OneAtMost DEF StampsOK
<1> QED
  BY <1>3, <1>4, <1>5, <1>6, StampStep

\* Steps of a call that changes none of the results: it is settled, or goes on.
LEMMA SettleStep ==
  ASSUME IInv, NEW c \in Callers, Settle(c), StampsOK', IndexOK', UNCHANGED <<repoVars, entryVars, asked>>
  PROVE  IInv'
<1>1. call' \in [Callers -> Call] /\ asked' \in 0 .. MaxCalls
  BY TypeParts, Settles DEF IInv, CallsOK
<1> QED
  BY <1>1, SettleGood, QuietStep

LEMMA MoveStep ==
  ASSUME IInv, NEW c \in Callers, NEW pc \in Pcs, Stay(c, pc),
         pc \in {"files", "save"} <=> call[c].pc \in {"files", "save"},
         StampsOK', IndexOK', UNCHANGED <<repoVars, entryVars, asked>>
  PROVE  IInv'
<1>1. call' \in [Callers -> Call] /\ asked' \in 0 .. MaxCalls
  BY TypeParts, Moves DEF IInv, CallsOK
<1> QED
  BY <1>1, MoveGood, QuietStep

LEMMA LookupIInv ==
  ASSUME IInv, NEW c \in Callers, Refresh(c) \/ IndexHit(c) \/ IndexMiss(c) \/ Fails(c) PROVE IInv'
<1>1. StampsOK' /\ IndexOK' /\ UNCHANGED <<repoVars, entryVars, asked>>
  BY TypeParts, StampsStay, IndexStay DEF IInv, Refresh, IndexHit, IndexMiss, Fails
<1>2. CASE Settle(c)
  BY <1>1, <1>2, SettleStep
<1>3. CASE At(c, "stamped") /\ LeadOrJoin(c)
  <2>1. PICK pc \in {"join", "list"} : Stay(c, pc)
    BY <1>3 DEF LeadOrJoin
  <2> QED
    BY <1>1, <1>3, <2>1, MoveStep DEF At, Pcs
<1> QED
  BY <1>2, <1>3 DEF Refresh, IndexHit, IndexMiss, Fails

LEMMA IndexFromDiskIInv == ASSUME IInv, NEW c \in Callers, IndexFromDisk(c) PROVE IInv'
<1>1. StampsOK' /\ IndexOK /\ UNCHANGED <<repoVars, entryVars, asked, nullStamp, diskIndex>> /\ Settle(c)
  BY TypeParts, StampsStay DEF IInv, IndexFromDisk
<1>2. \E x \in diskIndex : memIndex' = {x}
  BY DEF IndexFromDisk
<1>3. IndexOK'
  BY <1>1, <1>2, OneAtMost DEF IndexOK, OnePerStamp
<1> QED
  BY <1>1, <1>3, SettleStep

LEMMA ReindexIInv == ASSUME IInv, NEW c \in Callers, Reindex(c) PROVE IInv'
<1>1. StampsOK' /\ IndexOK /\ UNCHANGED <<repoVars, entryVars, asked, diskIndex>> /\ Stay(c, "list")
      /\ memIndex' = {} /\ nullStamp' = {} /\ call[c].pc = "stamped"
  BY TypeParts, StampsStay DEF IInv, Reindex, At
<1>2. IndexOK'
  BY <1>1, OneAtMost DEF IndexOK, OnePerStamp
<1> QED
  BY <1>1, <1>2, MoveStep DEF Pcs

\* The index a complete call has built.
LEMMA SymbolsTypes == ASSUME TypeOK, NEW c \in Callers PROVE Symbols(c) \in Index /\ Symbols(c).stamp = call[c].stamp
  BY CallTypes DEF Symbols, Index

LEMMA OthersTypes ==
  \A S, stamp : /\ Others(S, stamp) \subseteq S
                /\ OnePerStamp(S) => OnePerStamp(Others(S, stamp))
                /\ \A e : OnePerStamp(S) /\ e.stamp = stamp => OnePerStamp(Others(S, stamp) \cup {e})
  BY DEF Others, OnePerStamp

LEMMA BuildIInv ==
  ASSUME IInv, NEW c \in Callers, NoSymbols(c) \/ BuildIndex(c) \/ SaveIndex(c) PROVE IInv'
<1>1. TypeOK /\ IndexOK
  BY TypeParts DEF IInv
<1>2. StampsOK' /\ UNCHANGED <<repoVars, entryVars, asked>>
  BY TypeParts, StampsStay DEF IInv, NoSymbols, BuildIndex, SaveIndex
<1>3. Symbols(c) \in Index /\ Symbols(c).stamp = call[c].stamp /\ call[c].stamp \in Stamps
  BY <1>1, SymbolsTypes, CallTypes
<1>4. memIndex' \in {memIndex, {Symbols(c)}} /\ nullStamp' \in {nullStamp, {call[c].stamp}}
      /\ diskIndex' \in {diskIndex, Others(diskIndex, call[c].stamp),
                         Others(diskIndex, call[c].stamp) \cup {Symbols(c)}}
  BY DEF NoSymbols, BuildIndex, SaveIndex
<1>5. memIndex' \subseteq Index /\ Cardinality(memIndex') <= 1
      /\ nullStamp' \subseteq Stamps /\ Cardinality(nullStamp') <= 1
  BY <1>1, <1>3, <1>4, OneAtMost DEF IndexOK
<1>6. diskIndex' \subseteq Index /\ OnePerStamp(diskIndex')
  <2> DEFINE O == Others(diskIndex, call[c].stamp)
  <2>1. O \subseteq diskIndex /\ OnePerStamp(O) /\ OnePerStamp(O \cup {Symbols(c)})
    BY <1>1, <1>3, OthersTypes DEF IndexOK
  <2> HIDE DEF O
  <2>2. O \subseteq Index /\ O \cup {Symbols(c)} \subseteq Index
    BY <1>1, <1>3, <2>1 DEF IndexOK
  <2>3. diskIndex' \in {diskIndex, O, O \cup {Symbols(c)}}
    BY <1>4 DEF O
  <2> QED
    BY <1>1, <2>1, <2>2, <2>3 DEF IndexOK
<1>7. IndexOK'
  BY <1>5, <1>6 DEF IndexOK, OnePerStamp
<1>8. CASE Settle(c)
  BY <1>2, <1>7, <1>8, SettleStep
<1>9. CASE BuildIndex(c)
  BY <1>2, <1>7, <1>9, MoveStep DEF BuildIndex, Complete, At, Pcs
<1> QED
  BY <1>8, <1>9 DEF NoSymbols, SaveIndex

\* What a call knows when it has listed its files; the rest of it stays.
LEMMA Lists ==
  ASSUME TypeOK, NEW c \in Callers, List(c)
  PROVE  \E todo \in SUBSET Files, said \in PerFile :
           call' = [call EXCEPT ![c] = [call[c] EXCEPT !.pc = "files", !.todo = todo, !.said = said]]
<1>1. Present \in SUBSET Files /\ call[c] = [call[c] EXCEPT !.said = call[c].said]
  BY DEF Present, TypeOK, Call
<1>2. CASE \E found \in SUBSET Present : \E todo \in SUBSET found, said \in [found -> 0 .. MaxWrites] :
             call' = [call EXCEPT ![c].pc = "files", ![c].todo = todo, ![c].said = said]
  <2>0. PICK found \in SUBSET Present : \E todo \in SUBSET found, said \in [found -> 0 .. MaxWrites] :
          call' = [call EXCEPT ![c].pc = "files", ![c].todo = todo, ![c].said = said]
    BY <1>2
  <2>1. PICK todo \in SUBSET found, said \in [found -> 0 .. MaxWrites] :
          call' = [call EXCEPT ![c].pc = "files", ![c].todo = todo, ![c].said = said]
    BY <2>0
  <2>2. todo \in SUBSET Files /\ said \in PerFile
    BY <1>1, PerFileIntro
  <2> QED
    BY <2>1, <2>2 DEF TypeOK
<1>3. CASE call' = [call EXCEPT ![c].pc = "files", ![c].todo = Present]
  <2>1. call' = [call EXCEPT ![c] = [call[c] EXCEPT !.pc = "files", !.todo = Present, !.said = call[c].said]]
    BY <1>3 DEF TypeOK, Call
  <2> QED
    BY <1>1, <2>1, CallTypes
<1> QED
  BY <1>2, <1>3 DEF List

LEMMA ListIInv == ASSUME IInv, NEW c \in Callers, List(c) PROVE IInv'
<1>1. StampsOK' /\ IndexOK' /\ TypeOK /\ UNCHANGED <<repoVars, entryVars, asked>>
  BY TypeParts, StampsStay, IndexStay DEF IInv, List
<1>2. PICK todo \in SUBSET Files, said \in PerFile :
        call' = [call EXCEPT ![c] = [call[c] EXCEPT !.pc = "files", !.todo = todo, !.said = said]]
  BY <1>1, Lists
<1>3. [call[c] EXCEPT !.pc = "files", !.todo = todo, !.said = said] \in Call
  BY <1>1 DEF TypeOK, Call
<1>4. call' \in [Callers -> Call] /\ asked' \in 0 .. MaxCalls
  BY <1>1, <1>2, <1>3 DEF TypeOK
<1>5. /\ call'[c].fps = call[c].fps /\ call'[c].texts = call[c].texts
      /\ call'[c].pc = "files" /\ \A d \in Callers \ {c} : call'[d] = call[d]
  BY <1>1, <1>2 DEF TypeOK, Call
<1>6. Good(call[c]) /\ DOMAIN call[c].fps = {}
  BY DEF IInv, GoodCalls, StatedOnce, List, At
<1>7. \A d \in Callers : Good(call[d]) /\ StatedOnce(d)
  BY DEF IInv, GoodCalls
<1>8. UNCHANGED <<tree, writes>>
  BY <1>1 DEF repoVars
<1>9. GoodCalls'
  BY <1>5, <1>6, <1>7, <1>8 DEF GoodCalls, Good, Truthful, StatedOnce
<1> QED
  BY <1>1, <1>4, <1>9, QuietStep

\* A call takes up what it learnt of its files; the other calls stay.
LEMMA LearnStep ==
  ASSUME IInv, NEW c \in Callers, NEW todo \in SUBSET Files, NEW fps \in PerFile, NEW texts \in PerFile,
         call[c].pc = "files",
         call' = [call EXCEPT ![c] = [call[c] EXCEPT !.todo = todo, !.fps = fps, !.texts = texts]],
         UNCHANGED <<repoVars, stampVars, entryVars, indexVars, asked>>,
         todo \cap DOMAIN fps = {}, DOMAIN texts \subseteq DOMAIN fps,
         \A f \in DOMAIN fps : fps[f] \in 1 .. writes,
         \A f \in DOMAIN texts : fps[f] = tree[f].mtime => texts[f] = tree[f].text
  PROVE  IInv'
<1>1. TypeOK /\ StampsOK' /\ IndexOK' /\ UNCHANGED <<tree, writes>>
  BY TypeParts, StampsStay, IndexStay DEF IInv, repoVars
<1> DEFINE r == [call[c] EXCEPT !.todo = todo, !.fps = fps, !.texts = texts]
<1>2. /\ r \in Call /\ r.todo = todo /\ r.fps = fps /\ r.texts = texts /\ r.pc = "files"
  BY <1>1 DEF TypeOK, Call
<1> HIDE DEF r
<1>3. call' = [call EXCEPT ![c] = r]
  BY DEF r
<1>4. call' \in [Callers -> Call] /\ asked' \in 0 .. MaxCalls /\ call'[c] = r
      /\ \A d \in Callers \ {c} : call'[d] = call[d]
  BY <1>1, <1>2, <1>3 DEF TypeOK
<1>5. DOMAIN fps \subseteq Files
  BY PerFileElim
<1>6. (Good(call[c]) /\ StatedOnce(c))'
  BY <1>1, <1>2, <1>4, <1>5 DEF Good, Truthful, StatedOnce
<1>7. \A d \in Callers : Good(call[d]) /\ StatedOnce(d)
  BY DEF IInv, GoodCalls
<1>8. \A d \in Callers \ {c} : (Good(call[d]) /\ StatedOnce(d))'
  BY <1>1, <1>4, <1>7 DEF Good, Truthful, StatedOnce
<1>9. GoodCalls'
  BY <1>6, <1>8 DEF GoodCalls
<1> QED
  BY <1>1, <1>4, <1>9, QuietStep

\* What a call knows, in the terms of LearnStep.
LEMMA KnownByCall ==
  ASSUME IInv, NEW c \in Callers
  PROVE  /\ call[c].todo \in SUBSET Files /\ call[c].fps \in PerFile /\ call[c].texts \in PerFile
         /\ call[c].todo \cap DOMAIN call[c].fps = {} /\ DOMAIN call[c].texts \subseteq DOMAIN call[c].fps
         /\ DOMAIN call[c].fps \subseteq Files
         /\ \A f \in DOMAIN call[c].fps : call[c].fps[f] \in 1 .. writes
         /\ \A f \in DOMAIN call[c].texts :
              call[c].fps[f] = tree[f].mtime => call[c].texts[f] = tree[f].text
  BY CallTypes DEF IInv, GoodCalls, Good, Truthful, StatedOnce

LEMMA StatIInv == ASSUME IInv, NEW c \in Callers, NEW f \in Files, Stat(c, f) PROVE IInv'
<1>1. TypeOK /\ Clock /\ call[c].pc = "files" /\ f \in call[c].todo
      /\ UNCHANGED <<repoVars, stampVars, entryVars, indexVars, asked>>
  BY DEF IInv, Stat, At
<1> DEFINE todo == call[c].todo \ {f}
           stated == [g \in DOMAIN call[c].fps \cup {f} |-> IF g = f THEN tree[f].mtime ELSE call[c].fps[g]]
           fps == IF tree[f].text = 0 THEN call[c].fps ELSE stated
<1>2. call' = [call EXCEPT ![c] = [call[c] EXCEPT !.todo = todo, !.fps = fps, !.texts = call[c].texts]]
  BY <1>1 DEF Stat, TypeOK, Call
<1>3. f \notin DOMAIN call[c].fps /\ f \notin DOMAIN call[c].texts
  BY <1>1, KnownByCall
<1>4. CASE tree[f].text = 0
  <2>1. todo \in SUBSET Files /\ todo \cap DOMAIN call[c].fps = {} /\ fps = call[c].fps
    BY <1>4, KnownByCall
  <2> HIDE DEF todo, fps
  <2> QED
    BY <1>1, <1>2, <2>1, KnownByCall, LearnStep
<1>5. CASE tree[f].text # 0
  <2>1. tree[f].mtime \in 1 .. writes /\ tree[f].mtime \in 0 .. MaxWrites
    BY <1>1, <1>5, RepoTypes DEF Clock
  <2>2. fps = stated /\ DOMAIN fps = DOMAIN call[c].fps \cup {f} /\ fps[f] = tree[f].mtime
        /\ \A g \in DOMAIN call[c].fps : fps[g] = call[c].fps[g]
    BY <1>3, <1>5
  <2>3. fps \in PerFile
    <3>1. call[c].fps \in [DOMAIN call[c].fps -> 0 .. MaxWrites] /\ DOMAIN call[c].fps \subseteq Files
      BY KnownByCall, PerFileElim
    <3>2. stated \in [DOMAIN call[c].fps \cup {f} -> 0 .. MaxWrites]
      BY <2>1, <3>1
    <3> QED
      BY <2>2, <3>1, <3>2, PerFileIntro
  <2>4. todo \in SUBSET Files /\ todo \cap (DOMAIN call[c].fps \cup {f}) = {}
    BY KnownByCall
  <2> HIDE DEF todo, fps, stated
  <2>5. \A g \in DOMAIN fps : fps[g] \in 1 .. writes
    BY <2>1, <2>2, KnownByCall
  <2>6. \A g \in DOMAIN call[c].texts : fps[g] = tree[g].mtime => call[c].texts[g] = tree[g].text
    BY <2>2, KnownByCall
  <2>7. DOMAIN call[c].texts \subseteq DOMAIN fps /\ todo \cap DOMAIN fps = {} /\ call[c].texts \in PerFile
    BY <2>2, <2>4, KnownByCall
  <2> QED
    BY <1>1, <1>2, <2>3, <2>4, <2>5, <2>6, <2>7, LearnStep
<1> QED
  BY <1>4, <1>5

LEMMA ReadIInv == ASSUME IInv, NEW c \in Callers, NEW f \in Files, Read(c, f) PROVE IInv'
<1>1. TypeOK /\ call[c].pc = "files" /\ f \in DOMAIN call[c].fps /\ f \notin DOMAIN call[c].texts
      /\ UNCHANGED <<repoVars, stampVars, entryVars, indexVars, asked>>
  BY DEF IInv, Read, At, Unread
<1>2. CASE tree[f].text = 0
  <2> DEFINE fps == [g \in DOMAIN call[c].fps \ {f} |-> call[c].fps[g]]
  <2>1. call' = [call EXCEPT ![c] = [call[c] EXCEPT !.todo = call[c].todo, !.fps = fps, !.texts = call[c].texts]]
    BY <1>1, <1>2 DEF Read, TypeOK, Call
  <2>2. DOMAIN fps = DOMAIN call[c].fps \ {f} /\ \A g \in DOMAIN fps : fps[g] = call[c].fps[g]
    OBVIOUS
  <2>3. fps \in PerFile
    <3>1. call[c].fps \in [DOMAIN call[c].fps -> 0 .. MaxWrites] /\ DOMAIN call[c].fps \subseteq Files
      BY KnownByCall, PerFileElim
    <3>2. fps \in [DOMAIN call[c].fps \ {f} -> 0 .. MaxWrites]
      BY <3>1
    <3> QED
      BY <3>1, <3>2, PerFileIntro
  <2> HIDE DEF fps
  <2>4. /\ call[c].todo \cap DOMAIN fps = {} /\ DOMAIN call[c].texts \subseteq DOMAIN fps
        /\ \A g \in DOMAIN fps : fps[g] \in 1 .. writes
        /\ \A g \in DOMAIN call[c].texts : fps[g] = tree[g].mtime => call[c].texts[g] = tree[g].text
    BY <1>1, <2>2, KnownByCall
  <2> QED
    BY <1>1, <2>1, <2>3, <2>4, KnownByCall, LearnStep
<1>3. CASE tree[f].text # 0
  <2> DEFINE texts == [g \in DOMAIN call[c].texts \cup {f} |->
                         IF g = f THEN tree[f].text ELSE call[c].texts[g]]
  <2>1. call' = [call EXCEPT ![c] = [call[c] EXCEPT !.todo = call[c].todo, !.fps = call[c].fps, !.texts = texts]]
    BY <1>1, <1>3 DEF Read, TypeOK, Call
  <2>2. DOMAIN texts = DOMAIN call[c].texts \cup {f} /\ texts[f] = tree[f].text
        /\ \A g \in DOMAIN call[c].texts : texts[g] = call[c].texts[g]
    BY <1>1
  <2>3. texts \in PerFile
    <3>1. call[c].texts \in [DOMAIN call[c].texts -> 0 .. MaxWrites] /\ DOMAIN call[c].texts \subseteq Files
      BY KnownByCall, PerFileElim
    <3>2. texts \in [DOMAIN call[c].texts \cup {f} -> 0 .. MaxWrites]
      BY <1>1, <3>1, RepoTypes
    <3> QED
      BY <3>1, <3>2, PerFileIntro
  <2> HIDE DEF texts
  <2>4. /\ DOMAIN texts \subseteq DOMAIN call[c].fps
        /\ \A g \in DOMAIN texts : call[c].fps[g] = tree[g].mtime => texts[g] = tree[g].text
    BY <1>1, <2>2, KnownByCall
  <2> QED
    BY <1>1, <2>1, <2>3, <2>4, KnownByCall, LearnStep
<1> QED
  BY <1>2, <1>3

\* The results in memory and on disk, changed to others that are good.
LEMMA EntriesStep ==
  ASSUME IInv, UNCHANGED <<repoVars, stampVars, indexVars>>, CallsOK', GoodCalls', EntriesOK',
         \A i \in DOMAIN store' : Good(store'[i]), \A e \in disk' \cup saving' : Good(e)
  PROVE  IInv'
<1>1. StampsOK' /\ IndexOK' /\ UNCHANGED <<tree, writes>>
  BY TypeParts, StampsStay, IndexStay DEF IInv, repoVars
<1>2. GoodEntries'
  BY <1>1 DEF GoodEntries, Good, Truthful
<1> QED
  BY <1>1, <1>2, CacheStep

LEMMA CacheGetIInv == ASSUME IInv, NEW c \in Callers, CacheGet(c) PROVE IInv'
<1>1. EntriesOK /\ CallsOK /\ GoodEntries /\ Settle(c)
      /\ UNCHANGED <<repoVars, stampVars, disk, saving, indexVars, asked>>
  BY TypeParts DEF IInv, CacheGet
<1>2. CallsOK' /\ GoodCalls'
  BY <1>1, Settles, SettleGood DEF IInv, CallsOK
<1>3. \A e \in disk' \cup saving' : Good(e)
  BY <1>1 DEF GoodEntries
<1>4. CASE store' = store
  <2>1. EntriesOK' /\ \A i \in DOMAIN store' : Good(store'[i])
    BY <1>1, <1>4 DEF EntriesOK, OnePerStamp, GoodEntries
  <2> QED
    BY <1>1, <1>2, <1>3, <2>1, EntriesStep
<1>5. ASSUME NEW e \in disk, store' = Put(store, e) PROVE IInv'
  <2>1. e \in Entry /\ Good(e)
    BY <1>1 DEF EntriesOK, GoodEntries
  <2>2. EntriesOK'
    BY <1>1, <1>5, <2>1, PutTypes DEF EntriesOK, OnePerStamp
  <2>3. \A i \in DOMAIN store' : store'[i] = e \/ \E j \in DOMAIN store : store'[i] = store[j]
    BY <1>1, <1>5, <2>1, PutTypes DEF EntriesOK
  <2>4. \A i \in DOMAIN store' : Good(store'[i])
    BY <1>1, <2>1, <2>3 DEF GoodEntries
  <2> QED
    BY <1>1, <1>2, <1>3, <2>2, <2>4, EntriesStep
<1> QED
  BY <1>4, <1>5 DEF CacheGet

LEMMA CacheMissIInv == ASSUME IInv, NEW c \in Callers, CacheMiss(c) PROVE IInv'
<1>1. EntriesOK /\ CallsOK /\ GoodEntries /\ call[c].pc = "stamped" /\ LeadOrJoin(c)
      /\ UNCHANGED <<repoVars, stampVars, disk, saving, indexVars, asked>>
  BY TypeParts DEF IInv, CacheMiss, At
<1>2. PICK pc \in {"join", "list"} : Stay(c, pc)
  BY <1>1 DEF LeadOrJoin
<1>3. CallsOK' /\ GoodCalls'
  BY <1>1, <1>2, Moves, MoveGood DEF IInv, CallsOK, Pcs
<1>4. \A e \in disk' \cup saving' : Good(e)
  BY <1>1 DEF GoodEntries
<1>5. CASE store' = store
  <2>1. EntriesOK' /\ \A i \in DOMAIN store' : Good(store'[i])
    BY <1>1, <1>5 DEF EntriesOK, OnePerStamp, GoodEntries
  <2> QED
    BY <1>1, <1>3, <1>4, <2>1, EntriesStep
<1>6. ASSUME NEW k \in DOMAIN store, store' = RemoveAt(store, k) PROVE IInv'
  <2>1. /\ store' \in Seq(Entry) /\ \A i, j \in DOMAIN store' : store'[i].stamp = store'[j].stamp => i = j
        /\ \A i \in DOMAIN store' : \E j \in DOMAIN store : store'[i] = store[j]
    BY <1>1, <1>6, RemoveTypes DEF EntriesOK
  <2>2. EntriesOK' /\ \A i \in DOMAIN store' : Good(store'[i])
    BY <1>1, <2>1 DEF EntriesOK, OnePerStamp, GoodEntries
  <2> QED
    BY <1>1, <1>3, <1>4, <2>2, EntriesStep
<1> QED
  BY <1>5, <1>6 DEF CacheMiss

LEMMA CachePutIInv == ASSUME IInv, NEW c \in Callers, CachePut(c) PROVE IInv'
<1>1. TypeOK /\ EntriesOK /\ CallsOK /\ GoodEntries /\ Settle(c)
      /\ UNCHANGED <<repoVars, stampVars, disk, indexVars, asked>>
  BY TypeParts DEF IInv, CachePut
<1>2. CallsOK' /\ GoodCalls'
  BY <1>1, Settles, SettleGood DEF IInv, CallsOK
<1>3. PICK r : r = Result(c)
  OBVIOUS
<1>4. r \in Entry /\ r.fps = call[c].fps /\ r.texts = call[c].texts
  BY <1>1, <1>3, CallTypes DEF Result, Entry
<1>5. Good(r)
  BY <1>4, KnownByCall DEF Good, Truthful
<1> DEFINE rest == IF Len(store) >= MaxEntries THEN Tail(store) ELSE store
<1>6. store' = Put(rest, r) /\ saving' \in {saving \cup {r}, saving}
  BY <1>3 DEF CachePut
<1>7. /\ rest \in Seq(Entry) /\ \A i, j \in DOMAIN rest : rest[i].stamp = rest[j].stamp => i = j
      /\ \A i \in DOMAIN rest : \E j \in DOMAIN store : rest[i] = store[j]
  <2>1. store \in Seq(Entry) /\ \A i, j \in DOMAIN store : store[i].stamp = store[j].stamp => i = j
    BY <1>1 DEF EntriesOK
  <2>2. CASE Len(store) >= MaxEntries
    <3>1. Len(store) \in Nat /\ DOMAIN store = 1 .. Len(store) /\ store # <<>>
      BY <2>1, <2>2, LenProperties, EmptySeq, CacheAssumption DEF CacheAssumption
    <3>2. /\ Tail(store) \in Seq(Entry) /\ Len(Tail(store)) = Len(store) - 1
          /\ \A i \in 1 .. Len(Tail(store)) : Tail(store)[i] = store[i + 1]
      BY <2>1, <3>1, HeadTailProperties
    <3>3. DOMAIN Tail(store) = 1 .. Len(store) - 1
      BY <3>2, LenProperties
    <3>4. \A i \in 1 .. Len(store) - 1 : i + 1 \in DOMAIN store /\ Tail(store)[i] = store[i + 1]
      BY <3>1, <3>2
    <3>5. \A i, j \in 1 .. Len(store) - 1 : Tail(store)[i].stamp = Tail(store)[j].stamp => i = j
      <4> SUFFICES ASSUME NEW i \in 1 .. Len(store) - 1, NEW j \in 1 .. Len(store) - 1,
                          Tail(store)[i].stamp = Tail(store)[j].stamp
                   PROVE  i = j
        OBVIOUS
      <4>1. i + 1 = j + 1
        BY <2>1, <3>4
      <4> QED
        BY <4>1
    <3> QED
      BY <2>2, <3>2, <3>3, <3>4, <3>5
  <2>3. CASE ~(Len(store) >= MaxEntries)
    BY <2>1, <2>3
  <2> QED
    BY <2>2, <2>3
<1> HIDE DEF rest
<1>8. EntriesOK'
  BY <1>1, <1>4, <1>6, <1>7, PutTypes DEF EntriesOK, OnePerStamp
<1>9. \A i \in DOMAIN store' : store'[i] = r \/ \E j \in DOMAIN rest : store'[i] = rest[j]
  BY <1>4, <1>6, <1>7, PutTypes
<1>10. \A i \in DOMAIN store' : Good(store'[i])
  BY <1>1, <1>5, <1>7, <1>9 DEF GoodEntries
<1>11. \A e \in disk' \cup saving' : Good(e)
  BY <1>1, <1>5, <1>6 DEF GoodEntries
<1> QED
  BY <1>1, <1>2, <1>8, <1>10, <1>11, EntriesStep

LEMMA SaveEntryIInv == ASSUME IInv, NEW e \in saving, SaveEntry(e) PROVE IInv'
<1>1. EntriesOK /\ CallsOK /\ GoodEntries /\ GoodCalls
      /\ UNCHANGED <<repoVars, stampVars, store, indexVars, call, asked>>
  BY TypeParts DEF IInv, SaveEntry
<1>2. CallsOK' /\ GoodCalls'
  BY <1>1 DEF CallsOK, GoodCalls, Good, Truthful, StatedOnce, repoVars
<1> DEFINE O == Others(disk, e.stamp)
<1>3. saving' \subseteq saving /\ disk' \in {O \cup {e}, O}
  BY DEF SaveEntry
<1>4. O \subseteq disk /\ OnePerStamp(O) /\ OnePerStamp(O \cup {e})
  BY <1>1, OthersTypes DEF EntriesOK
<1> HIDE DEF O
<1>5. EntriesOK'
  BY <1>1, <1>3, <1>4 DEF EntriesOK, OnePerStamp
<1>6. \A i \in DOMAIN store' : Good(store'[i])
  BY <1>1 DEF GoodEntries
<1>7. \A d \in disk' \cup saving' : Good(d)
  BY <1>1, <1>3, <1>4 DEF GoodEntries
<1> QED
  BY <1>1, <1>2, <1>5, <1>6, <1>7, EntriesStep

LEMMA RestartIInv == ASSUME IInv, Restart PROVE IInv'
<1>1. StampsOK /\ IndexOK /\ EntriesOK /\ CallsOK /\ GoodEntries
  BY TypeParts DEF IInv
<1>2. /\ disk' \subseteq disk /\ store' = <<>> /\ saving' = {}
      /\ headCache' = {} /\ stampCache' = {} /\ memIndex' = {} /\ nullStamp' = {}
      /\ call' = [c \in Callers |-> Idle] /\ UNCHANGED <<repoVars, diskIndex, asked>>
  BY DEF Restart
<1>3. StampsOK' /\ IndexOK'
  BY <1>1, <1>2, OneAtMost DEF StampsOK, IndexOK, OnePerStamp
<1>4. EntriesOK' /\ CallsOK'
  BY <1>1, <1>2, IdleTypes, EmptySeq DEF EntriesOK, CallsOK, OnePerStamp
<1>5. DOMAIN store' = {}
  BY <1>2
<1>6. GoodEntries'
  BY <1>1, <1>2, <1>5 DEF GoodEntries, Good, Truthful, repoVars
<1>7. GoodCalls'
  BY <1>2, IdleTypes, CallsGood DEF Blank
<1> QED
  BY <1>2, <1>3, <1>4, <1>6, <1>7, CacheStep

LEMMA InitIInv == Init => IInv
<1> SUFFICES ASSUME Init PROVE IInv
  OBVIOUS
<1>1. /\ tree = [f \in Files |-> [text |-> 0, mtime |-> 0]] /\ writes = 0
      /\ base = <<[f \in Files |-> 0]>> /\ head = 1
      /\ store = <<>> /\ disk = {} /\ saving = {}
      /\ call = [c \in Callers |-> Idle] /\ asked = 0
  BY DEF Init
<1>2. MaxWrites \in Nat /\ MaxCommits \in Nat /\ MaxCommits >= 1 /\ MaxCalls \in Nat
  BY CacheAssumption DEF CacheAssumption
<1>3. base \in Seq([Files -> 0 .. MaxWrites]) /\ Len(base) = 1 /\ head \in DOMAIN base
  <2>1. [f \in Files |-> 0] \in [Files -> 0 .. MaxWrites]
    BY <1>2
  <2> QED
    BY <1>1, <2>1
<1>4. tree \in [Files -> [text : 0 .. MaxWrites, mtime : 0 .. writes]] /\ writes \in 0 .. MaxWrites
  BY <1>1, <1>2
<1>5. StampsOK /\ IndexOK
  BY OneAtMost DEF Init, StampsOK, IndexOK, OnePerStamp
<1>6. EntriesOK /\ CallsOK
  BY <1>1, <1>2, IdleTypes, EmptySeq DEF EntriesOK, CallsOK, OnePerStamp
<1>7. TypeOK
  BY <1>3, <1>4, <1>5, <1>6 DEF TypeOK, StampsOK, IndexOK, EntriesOK, CallsOK
<1>8. Clock
  BY <1>1, <1>2, <1>3 DEF Clock
<1>9. DOMAIN store = {} /\ GoodEntries
  BY <1>1 DEF GoodEntries
<1>10. GoodCalls
  BY <1>1, IdleTypes DEF GoodCalls, Good, Truthful, StatedOnce
<1> QED
  BY <1>7, <1>8, <1>9, <1>10 DEF IInv

LEMMA NextIInv == IInv /\ [Next]_cacheVars => IInv'
<1> SUFFICES ASSUME IInv, [Next]_cacheVars PROVE IInv'
  OBVIOUS
<1>1. CASE UNCHANGED cacheVars
  BY <1>1 DEF cacheVars, repoVars, stampVars, entryVars, indexVars, IInv, TypeOK, Clock, GoodEntries, GoodCalls,
              Good, Truthful, StatedOnce, OnePerStamp
<1>2. ASSUME NEW f \in Files, Write(f) \/ Delete(f) PROVE IInv'
  BY <1>2, WriteIInv, DeleteIInv
<1>3. CASE Commit \/ (\E k \in DOMAIN base : Checkout(k)) \/ Restart
  BY <1>3, CommitIInv, CheckoutIInv, RestartIInv
<1>4. ASSUME NEW c \in Callers, NEW op \in Ops, Ask(c, op) PROVE IInv'
  BY <1>4, AskIInv
<1>5. ASSUME NEW e \in saving, SaveEntry(e) PROVE IInv'
  BY <1>5, SaveEntryIInv
<1>6. ASSUME NEW c \in Callers, Answer(c) PROVE IInv'
  <2>1. CASE ReadHead(c) \/ ReadStatus(c)
    BY <2>1, ReadHeadIInv, ReadStatusIInv
  <2>2. CASE CacheGet(c) \/ CacheMiss(c) \/ CachePut(c)
    BY <2>2, CacheGetIInv, CacheMissIInv, CachePutIInv
  <2>3. CASE Refresh(c) \/ IndexHit(c) \/ IndexMiss(c) \/ Fails(c)
    BY <2>3, LookupIInv
  <2>4. CASE IndexFromDisk(c) \/ Reindex(c)
    BY <2>4, IndexFromDiskIInv, ReindexIInv
  <2>5. CASE NoSymbols(c) \/ BuildIndex(c) \/ SaveIndex(c)
    BY <2>5, BuildIInv
  <2>6. CASE List(c)
    BY <2>6, ListIInv
  <2>7. ASSUME NEW f \in Files, Stat(c, f) \/ Read(c, f) PROVE IInv'
    BY <2>7, StatIInv, ReadIInv
  <2> QED
    BY <1>6, <2>1, <2>2, <2>3, <2>4, <2>5, <2>6, <2>7 DEF Answer
<1> QED
  BY <1>1, <1>2, <1>3, <1>4, <1>5, <1>6 DEF Next

LEMMA InvariantHolds == Spec => []IInv
  BY InitIInv, NextIInv, PTL DEF Spec

-----------------------------------------------------------------------------
(* Who waits for whom. *)

\* One call moves: it led nobody or goes on leading the same ones, and it joins
\* nothing unless another leads.
LEMMA OneMoves ==
  ASSUME NoneLeftWaiting, NEW c \in Callers,
         \A d \in Callers \ {c} : call'[d] = call[d],
         \/ call'[c].op = call[c].op /\ call'[c].stamp = call[c].stamp /\ (Leads(c) => Leads(c)')
         \/ ~Leads(c) /\ ~At(c, "join")',
         At(c, "join")' => \E d \in Callers \ {c} : Leads(d) /\ Same(c, d)
  PROVE  NoneLeftWaiting'
<1> SUFFICES ASSUME NEW b \in Callers, At(b, "join")'
             PROVE  \E d \in Callers : Leads(d)' /\ Same(b, d)'
  BY DEF NoneLeftWaiting
<1>1. PICK d \in Callers : Leads(d) /\ Same(b, d) /\ (b = c => d # c)
  BY DEF NoneLeftWaiting, At
<1>2. call'[b].op = call[b].op /\ call'[b].stamp = call[b].stamp
  BY DEF At, Leads
<1>3. Leads(d)' /\ call'[d].op = call[d].op /\ call'[d].stamp = call[d].stamp
  BY <1>1 DEF Leads
<1> QED
  BY <1>1, <1>2, <1>3 DEF Same

LEMMA OneSettles ==
  ASSUME TypeOK, NoneLeftWaiting, NEW c \in Callers, Settle(c) PROVE NoneLeftWaiting'
<1>1. \A d \in Callers : call'[d] = IF d = c \/ (Leads(c) /\ At(d, "join") /\ Same(c, d)) THEN Idle ELSE call[d]
  BY DEF Settle, TypeOK
<1> SUFFICES ASSUME NEW b \in Callers, At(b, "join")'
             PROVE  \E d \in Callers : Leads(d)' /\ Same(b, d)'
  BY DEF NoneLeftWaiting
<1>2. call'[b] = call[b] /\ b # c /\ ~(Leads(c) /\ At(b, "join") /\ Same(c, b))
  BY <1>1, IdleTypes DEF At
<1>3. PICK d \in Callers : Leads(d) /\ Same(b, d)
  BY <1>2 DEF NoneLeftWaiting, At
<1>4. d # c /\ ~At(d, "join")
  BY <1>2, <1>3 DEF Same, At, Leads
<1>5. call'[d] = call[d]
  BY <1>1, <1>4
<1> QED
  BY <1>2, <1>3, <1>5 DEF Leads, Same

LEMMA AnswerWaits ==
  ASSUME TypeOK, NoneLeftWaiting, NEW c \in Callers, Answer(c) PROVE NoneLeftWaiting'
<1>1. CASE Settle(c)
  BY <1>1, OneSettles
<1>2. ASSUME NEW pc \in Pcs, Stay(c, pc), pc # "join", Leads(c) => pc \in {"list", "files", "save"}
      PROVE  NoneLeftWaiting'
  BY <1>2, Moves, OneMoves DEF Leads, At
<1>3. CASE At(c, "stamped") /\ LeadOrJoin(c)
  <2>1. PICK pc \in {"join", "list"} :
          Stay(c, pc) /\ (pc = "join" => \E d \in Callers : Leads(d) /\ Same(c, d))
    BY <1>3 DEF LeadOrJoin
  <2>2. /\ call'[c].pc = pc /\ call'[c].op = call[c].op /\ call'[c].stamp = call[c].stamp
        /\ \A d \in Callers \ {c} : call'[d] = call[d]
    BY <2>1, Moves DEF Pcs
  <2>3. ~Leads(c)
    BY <1>3 DEF Leads, At
  <2> QED
    BY <2>1, <2>2, <2>3, OneMoves DEF At
<1>4. CASE ReadHead(c) \/ ReadStatus(c)
  <2>1. /\ call'[c].pc \in {"status", "stamped"} /\ \A d \in Callers \ {c} : call'[d] = call[d]
    BY <1>4 DEF ReadHead, ReadStatus, TypeOK, Call
  <2>2. ~Leads(c)
    BY <1>4 DEF ReadHead, ReadStatus, At, Leads
  <2> QED
    BY <2>1, <2>2, OneMoves DEF At
<1>5. CASE List(c)
  <2>0. PICK todo, said : call' = [call EXCEPT ![c] = [call[c] EXCEPT !.pc = "files", !.todo = todo, !.said = said]]
    BY <1>5, Lists
  <2>1. /\ call'[c].pc = "files" /\ call'[c].op = call[c].op /\ call'[c].stamp = call[c].stamp
        /\ \A d \in Callers \ {c} : call'[d] = call[d]
    BY <2>0 DEF TypeOK, Call
  <2> QED
    BY <2>1, OneMoves DEF At, Leads
<1>6. ASSUME NEW f \in Files, Stat(c, f) \/ Read(c, f) PROVE NoneLeftWaiting'
  <2>1. /\ call'[c].pc = call[c].pc /\ call'[c].op = call[c].op /\ call'[c].stamp = call[c].stamp
        /\ \A d \in Callers \ {c} : call'[d] = call[d]
    BY <1>6 DEF Stat, Read, TypeOK, Call
  <2>2. call[c].pc = "files"
    BY <1>6 DEF Stat, Read, At
  <2> QED
    BY <2>1, <2>2, OneMoves DEF At, Leads
<1>7. CASE Reindex(c) \/ BuildIndex(c)
  BY <1>2, <1>7 DEF Reindex, BuildIndex, Complete, At, Leads, Pcs
<1> QED
  BY <1>1, <1>3, <1>4, <1>5, <1>6, <1>7
     DEF Answer, CacheGet, CacheMiss, Refresh, IndexHit, IndexMiss, IndexFromDisk, Fails, CachePut, NoSymbols,
         SaveIndex

LEMMA NextWaits == TypeOK /\ NoneLeftWaiting /\ [Next]_cacheVars => NoneLeftWaiting'
<1> SUFFICES ASSUME TypeOK, NoneLeftWaiting, [Next]_cacheVars PROVE NoneLeftWaiting'
  OBVIOUS
<1>1. CASE UNCHANGED call
  BY <1>1 DEF NoneLeftWaiting, At, Leads, Same
<1>2. ASSUME NEW c \in Callers, NEW op \in Ops, Ask(c, op) PROVE NoneLeftWaiting'
  <2>1. call'[c].pc \in {"stamped", "status", "head"} /\ \A d \in Callers \ {c} : call'[d] = call[d]
    BY <1>2 DEF Ask, Begun, TypeOK
  <2>2. ~Leads(c)
    BY <1>2 DEF Ask, At, Leads
  <2> QED
    BY <2>1, <2>2, OneMoves DEF At
<1>3. CASE Restart
  BY <1>3, IdleTypes DEF Restart, NoneLeftWaiting, At
<1>4. ASSUME NEW c \in Callers, Answer(c) PROVE NoneLeftWaiting'
  BY <1>4, AnswerWaits
<1> QED
  BY <1>1, <1>2, <1>3, <1>4 DEF Next, Write, Delete, Commit, Checkout, SaveEntry, cacheVars

-----------------------------------------------------------------------------
\* The caches hold one thing per key, and of HEAD, stamp, index and "no symbols" one
\* thing in all (contextCache.ts and symbolIndex.ts keep them in one entry per root).
THEOREM TypeCorrect == Spec => []TypeOK
<1>1. IInv => TypeOK
  BY DEF IInv
<1> QED
  BY <1>1, InvariantHolds, PTL

\* What was read of a file that still has its fingerprint is the text of that file: the
\* part of contextCache.ts:17 that the code keeps, because the stat comes before the read.
\* Nothing follows of the snippets, outlines and counts of the listing: see EntriesTruthful.
THEOREM FingerprintsSuffice == Spec => []BodiesTruthful
<1>1. IInv => BodiesTruthful
  BY DEF IInv, GoodEntries, Good, BodiesTruthful, Results
<1> QED
  BY <1>1, InvariantHolds, PTL

\* A call that joined a computation has one to wait for: however calls begin, fail,
\* refresh or are answered, none is left behind by cacheInflight.
THEOREM JoinedIsSettled == Spec => []NoneLeftWaiting
<1>1. Init => NoneLeftWaiting
  BY IdleTypes DEF Init, NoneLeftWaiting, At
<1>2. IInv => TypeOK
  BY DEF IInv
<1> QED
  BY <1>1, <1>2, NextWaits, InvariantHolds, PTL DEF Spec
=============================================================================
