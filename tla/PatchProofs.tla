---------------------------- MODULE PatchProofs -----------------------------
(***************************************************************************)
(* Theorems about a patch: what is made of its lines and of the files it   *)
(* names until there is a plan (EditPlan), what an edit makes of a file,    *)
(* and what the commit makes of the plan (ApplyPatch).  They hold for      *)
(* patches of any number of lines, hunks and files, for texts of any       *)
(* length, and for any number of workers.                                  *)
(***************************************************************************)
EXTENDS ApplyPatch, EditPlan, TextProofs

-----------------------------------------------------------------------------
(* Counting the hunks. *)

\* HunksIn adds up the hunks of the operations one after the other.
LEMMA HunksInIs ==
  ASSUME NEW s, Len(s) \in Nat, \A i \in 1 .. Len(s) : Len(s[i].hunks) \in Nat
  PROVE  \E f \in [0 .. Len(s) -> Nat] :
           /\ f[0] = 0 /\ \A i \in 1 .. Len(s) : f[i] = f[i - 1] + Len(s[i].hunks)
           /\ HunksIn(s) = f[Len(s)]
<1> DEFINE n == Len(s)
           step == [i \in 1 .. n |-> [x \in Nat |-> x + Len(s[i].hunks)]]
           Sums(f) == f = [i \in 0 .. n |-> IF i = 0 THEN 0 ELSE f[i - 1] + Len(s[i].hunks)]
<1>1. step \in [1 .. n -> [Nat -> Nat]]
  OBVIOUS
<1>2. PICK f \in [0 .. n -> Nat] : f[0] = 0 /\ \A i \in 1 .. n : f[i] = step[i][f[i - 1]]
  <2>1. n \in Nat /\ 0 \in Nat
    OBVIOUS
  <2>2. Steps(step, n, Nat)
    BY <1>1 DEF Steps
  <2> HIDE DEF step, n
  <2>3. PICK f : Walks(f, 0, step, n, Nat)
    BY <2>1, <2>2, RecursionExists
  <2> QED BY <2>3 DEF Walks
<1>3. ASSUME NEW i \in 1 .. n PROVE f[i] = f[i - 1] + Len(s[i].hunks)
  <2>1. i - 1 \in 0 .. n
    OBVIOUS
  <2>2. f[i - 1] \in Nat
    BY <2>1
  <2> QED BY <1>2, <2>2
<1>4. Sums(f)
  BY <1>2, <1>3
<1> DEFINE g == CHOOSE h : Sums(h)
<1>5. Sums(g)
  BY <1>4
<1>6. HunksIn(s) = g[n]
  BY DEF HunksIn
<1> HIDE DEF g
<1>7. /\ g[0] = 0
      /\ \A i \in 1 .. n : g[i] = g[i - 1] + Len(s[i].hunks)
  BY <1>5
<1>8. \A i \in 0 .. n : g[i] \in Nat
  <2>1. g[0] \in Nat /\ \A i \in 1 .. n : g[i - 1] \in Nat => g[i] \in Nat
    BY <1>7
  <2> QED BY <2>1, RecursionStays
<1>9. g \in [0 .. n -> Nat]
  BY <1>5, <1>8
<1> QED BY <1>6, <1>7, <1>9

\* One operation more.
LEMMA HunksInMore ==
  ASSUME NEW s, NEW t, Len(s) \in Nat, Len(t) = Len(s) + 1,
         \A i \in 1 .. Len(t) : Len(t[i].hunks) \in Nat,
         \A i \in 1 .. Len(s) : Len(s[i].hunks) = Len(t[i].hunks)
  PROVE  HunksIn(s) \in Nat /\ HunksIn(t) = HunksIn(s) + Len(t[Len(t)].hunks)
<1> DEFINE n == Len(s)
<1>1. \A i \in 1 .. n : i \in 1 .. Len(t) /\ Len(s[i].hunks) \in Nat
  OBVIOUS
<1>2. PICK f \in [0 .. n -> Nat] :
        /\ f[0] = 0 /\ \A i \in 1 .. n : f[i] = f[i - 1] + Len(s[i].hunks)
        /\ HunksIn(s) = f[n]
  BY <1>1, HunksInIs
<1>3. PICK g \in [0 .. Len(t) -> Nat] :
        /\ g[0] = 0 /\ \A i \in 1 .. Len(t) : g[i] = g[i - 1] + Len(t[i].hunks)
        /\ HunksIn(t) = g[Len(t)]
  BY HunksInIs
<1>4. f[n] = g[n]
  <2>1. f[0] = g[0]
    BY <1>2, <1>3
  <2>2. ASSUME NEW i \in 1 .. n, f[i - 1] = g[i - 1] PROVE f[i] = g[i]
    BY <1>1, <1>2, <1>3, <2>2
  <2> QED BY <2>1, <2>2, RecursionUnique
<1>5. g[n + 1] = g[n] + Len(t[n + 1].hunks)
  <2>1. n + 1 \in 1 .. Len(t) /\ (n + 1) - 1 = n
    OBVIOUS
  <2> QED BY <1>3, <2>1
<1> QED BY <1>2, <1>3, <1>4, <1>5

\* The kept positions of a text with one character more.
LEMMA KeptMore ==
  ASSUME NEW s, NEW t, NEW before, NEW keep, Len(s) \in Nat, Len(t) = Len(s) + 1,
         \A i \in 1 .. Len(s) : i \in before <=> i \in keep
  PROVE  Kept(t, keep) = IF Len(t) \in keep THEN Append(Kept(s, before), Len(t)) ELSE Kept(s, before)
<1> DEFINE n == Len(s)
<1>1. PICK f \in [0 .. n -> Seq(before \cap 1 .. n)] :
        /\ f[0] = <<>>
        /\ \A i \in 1 .. n : f[i] = IF i \in before THEN Append(f[i - 1], i) ELSE f[i - 1]
        /\ Kept(s, before) = f[n]
  BY KeptIs
<1>2. PICK g \in [0 .. Len(t) -> Seq(keep \cap 1 .. Len(t))] :
        /\ g[0] = <<>>
        /\ \A i \in 1 .. Len(t) : g[i] = IF i \in keep THEN Append(g[i - 1], i) ELSE g[i - 1]
        /\ Kept(t, keep) = g[Len(t)]
  <2>1. Len(t) \in Nat
    OBVIOUS
  <2> QED BY <2>1, KeptIs
<1>3. f[n] = g[n]
  <2>1. f[0] = g[0]
    BY <1>1, <1>2
  <2>2. ASSUME NEW i \in 1 .. n, f[i - 1] = g[i - 1] PROVE f[i] = g[i]
    <3>1. i \in 1 .. Len(t)
      OBVIOUS
    <3>2. f[i] = IF i \in before THEN Append(f[i - 1], i) ELSE f[i - 1]
      BY <1>1
    <3>3. g[i] = IF i \in keep THEN Append(g[i - 1], i) ELSE g[i - 1]
      BY <1>2, <3>1
    <3> QED BY <2>2, <3>2, <3>3
  <2> QED BY <2>1, <2>2, RecursionUnique
<1>4. n + 1 \in 1 .. Len(t) /\ (n + 1) - 1 = n
  OBVIOUS
<1>5. g[n + 1] = IF n + 1 \in keep THEN Append(g[n], n + 1) ELSE g[n]
  BY <1>2, <1>4
<1> QED BY <1>1, <1>2, <1>3, <1>5

\* No operations have no hunks.
LEMMA HunksInNone == HunksIn(<<>>) = 0
<1>1. Len(<<>>) = 0
  OBVIOUS
<1>2. PICK f \in [0 .. 0 -> Nat] : f[0] = 0 /\ HunksIn(<<>>) = f[Len(<<>>)]
  BY <1>1, HunksInIs
<1> QED BY <1>1, <1>2

-----------------------------------------------------------------------------
(* The parser. *)

\* The lines of a hunk.
AHunk == Seq(Body)

\* An operation: only an update has hunks and a destination, only an addition has lines.
GoodOp ==
  {o \in [kind : Headers, path : Paths, to : Paths \cup {NoPath}, lines : Seq(Lines), hunks : Seq(AHunk)] :
     /\ o.hunks # <<>> \/ o.to # NoPath => o.kind = "*** Update File"
     /\ o.lines # <<>> => o.kind = "*** Add File"}

\* The open operation o and its open hunk h, and the operations s before them.  A hunk
\* is open as soon as the operation has one.
OpenOK(o, h) ==
  /\ o \in Seq(GoodOp) /\ h \in Seq(AHunk) /\ Len(o) <= 1 /\ Len(h) <= 1
  /\ h # <<>> => o # <<>> /\ o[1].kind = "*** Update File"
  /\ o # <<>> /\ h = <<>> => o[1].hunks = <<>>
With(o, h)   == IF h = <<>> THEN o ELSE <<[o[1] EXCEPT !.hunks = Append(@, h[1])]>>
Fin(s, o, h) == s \o With(o, h)

\* What the parser has collected.
Collected ==
  /\ input \in Seq(PatchLine) /\ ops \in Seq(GoodOp) /\ OpenOK(op, hunk)
  /\ Len(ops) + Len(op) <= MaxFiles /\ TotalHunks <= MaxHunks

\* The line ends nothing that is open, or belongs to it: the kinds exclude each other.
LEMMA LineFact ==
  ASSUME NEW l \in PatchLine
  PROVE  /\ IsBody(l) => l \in Body /\ l.text \in Lines /\ \A heads : ~Is(l, heads)
         /\ \A heads : Is(l, heads) => l.head \in heads
         /\ Is(l, Headers) => l.head \in Headers /\ l.path \in Paths
         /\ Is(l, {"*** Move to"}) => l.path \in Paths
<1>1. CASE l \in [head : Headers \cup {"*** Move to"}, path : Paths]
  BY <1>1 DEF Is, IsBody
<1>2. CASE l \in [head : {"@@", "", "?"}]
  BY <1>2 DEF Is, IsBody, Headers
<1>3. CASE l \in Body
  BY <1>3 DEF Is, IsBody, Body
<1> QED BY <1>1, <1>2, <1>3 DEF PatchLine

\* The open operation with its open hunk is a good operation, and stays the only one.
LEMMA WithFact ==
  ASSUME NEW o, NEW h, OpenOK(o, h)
  PROVE  /\ With(o, h) \in Seq(GoodOp) /\ Len(With(o, h)) = Len(o)
         /\ o = <<>> => With(o, h) = <<>>
         /\ o # <<>> => /\ Len(o) = 1 /\ o[1] \in GoodOp
                        /\ With(o, h) = <<With(o, h)[1]>> /\ With(o, h)[1] \in GoodOp
                        /\ With(o, h)[1] = [o[1] EXCEPT !.hunks = @ \o h]
                        /\ With(o, h)[1].hunks = o[1].hunks \o h
                        /\ Len(With(o, h)[1].hunks) = Len(o[1].hunks) + Len(h)
         /\ Len(h) \in Nat
<1>0. /\ o \in Seq(GoodOp) /\ h \in Seq(AHunk) /\ Len(o) <= 1 /\ Len(h) <= 1
      /\ h # <<>> => o # <<>> /\ o[1].kind = "*** Update File"
      /\ <<>> \in Seq(AHunk)
  BY EmptySeq DEF OpenOK
<1>1. CASE o = <<>>
  <2>1. h = <<>>
    BY <1>0, <1>1
  <2> QED BY <1>0, <1>1, <2>1, EmptySeq DEF With
<1>2. CASE o # <<>>
  <2>1. Len(o) = 1 /\ o[1] \in GoodOp /\ o = <<o[1]>>
    BY <1>0, <1>2, SeqFact
  <2>2. o[1].hunks \in Seq(AHunk)
    BY <2>1 DEF GoodOp
  <2>6. Len(o[1].hunks \o h) = Len(o[1].hunks) + Len(h)
    <3>1. h \in Seq(AHunk)
      BY <1>0
    <3> QED BY <2>2, <3>1, ConcatProperties
  <2>3. CASE h = <<>>
    <3>1. o[1].hunks \o h = o[1].hunks
      BY <1>0, <2>2, <2>3, ConcatFact
    <3>2. o[1] = [o[1] EXCEPT !.hunks = @ \o h]
      BY <2>1, <3>1 DEF GoodOp
    <3>3. With(o, h) = o /\ Len(h) \in Nat
      BY <1>0, <2>3, EmptySeq DEF With
    <3>4. With(o, h)[1] = o[1]
      BY <3>3
    <3>5. Len(o[1].hunks) + Len(h) = Len(o[1].hunks \o h)
      BY <2>6
    <3>6. With(o, h) \in Seq(GoodOp) /\ Len(With(o, h)) = Len(o)
      BY <1>0, <3>3
    <3>7. With(o, h) = <<With(o, h)[1]>>
      BY <2>1, <3>3, <3>4, Zenon
    <3>8. With(o, h)[1] = [o[1] EXCEPT !.hunks = @ \o h]
      BY <3>2, <3>4, Zenon
    <3>9. With(o, h)[1].hunks = o[1].hunks \o h
      BY <3>1, <3>4, Zenon
    <3>10. Len(With(o, h)[1].hunks) = Len(o[1].hunks) + Len(h)
      BY <3>5, <3>9, Zenon
    <3> QED BY <1>2, <2>1, <3>3, <3>4, <3>6, <3>7, <3>8, <3>9, <3>10, Zenon
  <2>4. CASE h # <<>>
    <3>1. Len(h) = 1 /\ h[1] \in AHunk /\ h = <<h[1]>>
      BY <1>0, <2>4, SeqFact
    <3>3. Append(o[1].hunks, h[1]) = o[1].hunks \o h
      <4>1. Append(o[1].hunks, h[1]) = o[1].hunks \o <<h[1]>>
        BY <2>2, <3>1, AppendFact
      <4> QED BY <3>1, <4>1, Zenon
    <3>4. o[1].hunks \o h \in Seq(AHunk)
      BY <1>0, <2>2, ConcatFact
    <3> DEFINE w == [o[1] EXCEPT !.hunks = @ \o h]
    <3>5. With(o, h) = <<w>>
      BY <2>4, <3>3 DEF With
    <3>6. w \in GoodOp /\ w.hunks = o[1].hunks \o h
      BY <1>0, <2>1, <2>4, <3>4 DEF GoodOp
    <3> HIDE DEF w
    <3>7. With(o, h)[1] = w /\ Len(With(o, h)) = 1 /\ With(o, h) \in Seq(GoodOp) /\ With(o, h) = <<With(o, h)[1]>>
      BY <3>5, <3>6, OneFact
    <3> QED BY <1>2, <2>1, <2>6, <3>1, <3>6, <3>7 DEF w
  <2> QED BY <2>3, <2>4
<1> QED BY <1>1, <1>2

\* The hunks of good operations, and of one operation more.
LEMMA HunksInSeq ==
  ASSUME NEW s \in Seq(GoodOp)
  PROVE  HunksIn(s) \in Nat /\ \A e \in GoodOp : HunksIn(Append(s, e)) = HunksIn(s) + Len(e.hunks)
<1>1. ASSUME NEW e \in GoodOp PROVE Len(e.hunks) \in Nat
  <2>1. e.hunks \in Seq(AHunk)
    BY DEF GoodOp
  <2> QED BY <2>1, SeqFact
<1>2. Len(s) \in Nat /\ \A i \in 1 .. Len(s) : s[i] \in GoodOp
  BY SeqFact
<1>3. HunksIn(s) \in Nat
  <2>1. \A i \in 1 .. Len(s) : Len(s[i].hunks) \in Nat
    BY <1>1, <1>2
  <2>2. PICK f \in [0 .. Len(s) -> Nat] : HunksIn(s) = f[Len(s)]
    BY <1>2, <2>1, HunksInIs
  <2> QED BY <1>2, <2>2
<1>4. ASSUME NEW e \in GoodOp PROVE HunksIn(Append(s, e)) = HunksIn(s) + Len(e.hunks)
  <2> DEFINE t == Append(s, e)
  <2>1. /\ t \in Seq(GoodOp) /\ Len(t) = Len(s) + 1 /\ t[Len(s) + 1] = e
        /\ \A i \in 1 .. Len(s) : t[i] = s[i]
    BY AppendFact
  <2>2. \A i \in 1 .. Len(t) : t[i] \in GoodOp
    BY <2>1, SeqFact
  <2> HIDE DEF t
  <2>3. \A i \in 1 .. Len(t) : Len(t[i].hunks) \in Nat
    BY <1>1, <2>2
  <2>4. HunksIn(t) = HunksIn(s) + Len(t[Len(t)].hunks)
    BY <1>2, <2>1, <2>3, HunksInMore
  <2> QED BY <2>1, <2>4 DEF t
<1> QED BY <1>3, <1>4

\* The operations with what is open: how many there are, and how many hunks.
LEMMA FinFact ==
  ASSUME NEW s \in Seq(GoodOp), NEW o, NEW h, OpenOK(o, h)
  PROVE  /\ Fin(s, o, h) \in Seq(GoodOp) /\ Len(Fin(s, o, h)) = Len(s) + Len(o)
         /\ o = <<>> => Fin(s, o, h) = s
         /\ o # <<>> => Fin(s, o, h) = Append(s, With(o, h)[1])
         /\ HunksIn(Fin(s, o, h)) = HunksIn(s) + IF o = <<>> THEN 0 ELSE Len(o[1].hunks) + Len(h)
<1>1. With(o, h) \in Seq(GoodOp) /\ Len(With(o, h)) = Len(o)
  BY WithFact
<1>2. Fin(s, o, h) \in Seq(GoodOp) /\ Len(Fin(s, o, h)) = Len(s) + Len(o)
  BY <1>1, ConcatFact DEF Fin
<1>3. CASE o = <<>>
  <2>1. With(o, h) = <<>>
    BY <1>3, WithFact
  <2>2. Fin(s, o, h) = s
    BY <1>1, <2>1, ConcatFact DEF Fin
  <2>3. HunksIn(s) \in Nat
    BY HunksInSeq
  <2> QED BY <1>2, <1>3, <2>2, <2>3
<1>4. CASE o # <<>>
  <2>1. /\ With(o, h) = <<With(o, h)[1]>> /\ With(o, h)[1] \in GoodOp
        /\ Len(With(o, h)[1].hunks) = Len(o[1].hunks) + Len(h)
    BY <1>4, WithFact
  <2>2. Fin(s, o, h) = Append(s, With(o, h)[1])
    BY <1>1, <2>1, ConcatFact DEF Fin
  <2>3. HunksIn(Append(s, With(o, h)[1])) = HunksIn(s) + Len(With(o, h)[1].hunks)
    BY <2>1, HunksInSeq
  <2> QED BY <1>2, <1>4, <2>1, <2>2, <2>3
<1> QED BY <1>3, <1>4

\* The model's own operators in these terms.
LEMMA FinishedIs == WithHunk = With(op, hunk) /\ Finished = Fin(ops, op, hunk) /\ TotalHunks = HunksIn(Fin(ops, op, hunk))
BY DEF WithHunk, With, Finished, Fin, TotalHunks

-----------------------------------------------------------------------------
(* What ReadLine makes of what is open: one lemma for each of its disjuncts. *)

\* s, o, h become s2, o2, h2; the operations are `after`, with `more` hunks more.
Leads(s, o, h, s2, o2, h2, after, more) ==
  /\ s2 \in Seq(GoodOp) /\ OpenOK(o2, h2) /\ o2 # <<>>
  /\ Fin(s2, o2, h2) = after
  /\ HunksIn(Fin(s2, o2, h2)) = HunksIn(Fin(s, o, h)) + more

\* An operation that is open comes last.
LEMMA FinOpen ==
  ASSUME NEW s \in Seq(GoodOp), NEW o, NEW h, OpenOK(o, h), o # <<>>
  PROVE  /\ Fin(s, o, h) = Append(s, With(o, h)[1])
         /\ HunksIn(Fin(s, o, h)) = HunksIn(s) + (Len(o[1].hunks) + Len(h))
BY FinFact

\* A header ends what is open and begins a new operation.
LEMMA OpensFact ==
  ASSUME NEW s \in Seq(GoodOp), NEW o, NEW h, OpenOK(o, h), NEW l \in PatchLine, Is(l, Headers)
  PROVE  Leads(s, o, h, Fin(s, o, h), <<NewOp(l)>>, <<>>, Append(Fin(s, o, h), NewOp(l)), 0)
<1>1. l.head \in Headers /\ l.path \in Paths
  BY LineFact
<1>2. NewOp(l) \in GoodOp /\ NewOp(l).hunks = <<>>
  BY <1>1, EmptySeq DEF NewOp, GoodOp
<1> DEFINE e == NewOp(l)
<1> HIDE DEF e
<1>3. e \in GoodOp /\ e.hunks = <<>>
  BY <1>2 DEF e
<1>4. <<e>> \in Seq(GoodOp) /\ Len(<<e>>) = 1 /\ <<e>>[1] = e /\ <<e>> # <<>>
  BY <1>3, OneFact
<1>5. <<>> \in Seq(AHunk) /\ Len(<<>>) = 0
  BY EmptySeq
<1>6. OpenOK(<<e>>, <<>>)
  <2>1. Len(<<e>>) <= 1 /\ Len(<<>>) <= 1
    BY <1>4, <1>5
  <2>2. <<e>>[1].hunks = <<>>
    BY <1>3, <1>4, Zenon
  <2> QED BY <1>4, <1>5, <2>1, <2>2, Zenon DEF OpenOK
<1>7. Fin(s, o, h) \in Seq(GoodOp)
  BY FinFact
<1>8. With(<<e>>, <<>>) = <<e>>
  BY DEF With
<1>9. /\ Fin(Fin(s, o, h), <<e>>, <<>>) = Append(Fin(s, o, h), With(<<e>>, <<>>)[1])
      /\ HunksIn(Fin(Fin(s, o, h), <<e>>, <<>>)) = HunksIn(Fin(s, o, h)) + (Len(<<e>>[1].hunks) + Len(<<>>))
  BY <1>4, <1>6, <1>7, FinOpen
<1>10. With(<<e>>, <<>>)[1] = e /\ Len(<<e>>[1].hunks) + Len(<<>>) = 0
  BY <1>3, <1>4, <1>5, <1>8
<1> QED BY <1>4, <1>6, <1>7, <1>9, <1>10 DEF Leads, e

\* A change of the open operation that leaves its hunks.
LEMMA SameHunksFact ==
  ASSUME NEW s \in Seq(GoodOp), NEW o, NEW h, OpenOK(o, h), o # <<>>, h = <<>>,
         NEW e \in GoodOp, e.hunks = o[1].hunks
  PROVE  Leads(s, o, h, s, <<e>>, h, Append(s, e), 0)
<1>1. <<e>> \in Seq(GoodOp) /\ Len(<<e>>) = 1 /\ <<e>>[1] = e /\ <<e>> # <<>>
  BY OneFact
<1>2. OpenOK(<<e>>, h)
  BY <1>1, EmptySeq DEF OpenOK
<1>3. With(<<e>>, h)[1] = e
  BY <1>1 DEF With
<1>4. /\ Fin(s, <<e>>, h) = Append(s, With(<<e>>, h)[1])
      /\ HunksIn(Fin(s, <<e>>, h)) = HunksIn(s) + (Len(<<e>>[1].hunks) + Len(h))
      /\ HunksIn(Fin(s, o, h)) = HunksIn(s) + (Len(o[1].hunks) + Len(h))
  BY <1>1, <1>2, FinOpen
<1>5. HunksIn(s) \in Nat /\ Len(h) \in Nat
  BY HunksInSeq, WithFact
<1>6. Len(o[1].hunks) \in Nat
  <2>1. o[1].hunks \in Seq(AHunk)
    BY WithFact DEF GoodOp
  <2> QED BY <2>1, SeqFact
<1>7. HunksIn(Fin(s, <<e>>, h)) = HunksIn(Fin(s, o, h)) + 0
  BY <1>1, <1>4, <1>5, <1>6
<1> QED BY <1>1, <1>2, <1>3, <1>4, <1>7 DEF Leads

\* A destination is put down in the open update.
LEMMA MovesFact ==
  ASSUME NEW s \in Seq(GoodOp), NEW o, NEW h, OpenOK(o, h), NEW p \in Paths,
         o # <<>>, o[1].kind = "*** Update File", h = <<>>
  PROVE  /\ Leads(s, o, h, s, <<[o[1] EXCEPT !.to = p]>>, h, Append(s, [With(o, h)[1] EXCEPT !.to = p]), 0)
         /\ [With(o, h)[1] EXCEPT !.to = p] \in GoodOp
<1> DEFINE e == [o[1] EXCEPT !.to = p]
<1>1. o[1] \in GoodOp
  BY WithFact
<1>2. e \in GoodOp /\ e.hunks = o[1].hunks
  BY <1>1 DEF GoodOp
<1>3. With(o, h)[1] = o[1]
  BY DEF With
<1>4. e = [With(o, h)[1] EXCEPT !.to = p]
  BY <1>3, Zenon
<1> HIDE DEF e
<1>5. Leads(s, o, h, s, <<e>>, h, Append(s, e), 0)
  BY <1>2, SameHunksFact
<1> QED BY <1>2, <1>4, <1>5, Zenon DEF e

\* A line is added to the open addition.
LEMMA AddsFact ==
  ASSUME NEW s \in Seq(GoodOp), NEW o, NEW h, OpenOK(o, h), NEW t \in Lines,
         o # <<>>, o[1].kind = "*** Add File"
  PROVE  /\ Leads(s, o, h, s, <<[o[1] EXCEPT !.lines = Append(@, t)]>>, h,
                  Append(s, [With(o, h)[1] EXCEPT !.lines = Append(@, t)]), 0)
         /\ h = <<>> /\ [With(o, h)[1] EXCEPT !.lines = Append(@, t)] \in GoodOp
<1> DEFINE e == [o[1] EXCEPT !.lines = Append(@, t)]
<1>0. h = <<>>
  BY DEF OpenOK
<1>1. o[1] \in GoodOp
  BY WithFact
<1>2. o[1].lines \in Seq(Lines)
  BY <1>1 DEF GoodOp
<1>3. Append(o[1].lines, t) \in Seq(Lines)
  BY <1>2, AppendFact
<1>4. e \in GoodOp /\ e.hunks = o[1].hunks
  BY <1>1, <1>3 DEF GoodOp
<1>5. With(o, h)[1] = o[1]
  BY <1>0 DEF With
<1>6. e = [With(o, h)[1] EXCEPT !.lines = Append(@, t)]
  BY <1>5, Zenon
<1> HIDE DEF e
<1>7. Leads(s, o, h, s, <<e>>, h, Append(s, e), 0)
  BY <1>0, <1>4, SameHunksFact
<1> QED BY <1>0, <1>4, <1>6, <1>7, Zenon DEF e

IsUpdate(o) == o # <<>> /\ o[1].kind = "*** Update File"

\* A @@ line gives the open hunk to its operation and begins another.
LEMMA OpensHunkFact ==
  ASSUME NEW s \in Seq(GoodOp), NEW o, NEW h, OpenOK(o, h), IsUpdate(o)
  PROVE  /\ Leads(s, o, h, s, With(o, h), << <<>> >>,
                  Append(s, [With(o, h)[1] EXCEPT !.hunks = Append(@, <<>>)]), 1)
         /\ [With(o, h)[1] EXCEPT !.hunks = Append(@, <<>>)] \in GoodOp
<1> DEFINE w == With(o, h)  e == <<>>
<1> HIDE DEF w, e
<1>0. With(o, h)[1] = [o[1] EXCEPT !.hunks = @ \o h]
  BY WithFact DEF IsUpdate
<1>1. /\ w \in Seq(GoodOp) /\ Len(w) = 1 /\ w[1] \in GoodOp
      /\ Len(w[1].hunks) = Len(o[1].hunks) + Len(h) /\ o[1] \in GoodOp /\ Len(h) \in Nat
  <2>1. Len(With(o, h)) = Len(o) /\ Len(o) = 1
    BY WithFact DEF IsUpdate
  <2>2. With(o, h) \in Seq(GoodOp) /\ With(o, h)[1] \in GoodOp /\ o[1] \in GoodOp
    BY WithFact DEF IsUpdate
  <2>3. Len(With(o, h)[1].hunks) = Len(o[1].hunks) + Len(h) /\ Len(h) \in Nat
    BY WithFact DEF IsUpdate
  <2> QED BY <2>1, <2>2, <2>3, Zenon DEF w
<1>2. w[1].kind = "*** Update File"
  BY <1>0, <1>1 DEF GoodOp, w, IsUpdate
<1>3. e \in AHunk
  BY EmptySeq DEF AHunk, e
<1>4. <<e>> \in Seq(AHunk) /\ Len(<<e>>) = 1 /\ <<e>>[1] = e /\ <<e>> # <<>>
  BY <1>3, OneFact
<1>5. w # <<>>
  <2>1. Len(<<>>) = 0
    BY EmptySeq
  <2>2. 1 # 0
    OBVIOUS
  <2> QED BY <1>1, <2>1, <2>2, Zenon
<1>6. OpenOK(w, <<e>>)
  <2>1. 1 <= 1
    OBVIOUS
  <2>2. Len(<<e>>) <= 1 /\ Len(w) <= 1
    BY <1>1, <1>4, <2>1, Zenon
  <2> QED BY <1>1, <1>2, <1>4, <1>5, <2>2, Zenon DEF OpenOK
<1>7. With(w, <<e>>)[1] = [w[1] EXCEPT !.hunks = Append(@, e)]
  BY <1>4 DEF With
<1>8. /\ Fin(s, w, <<e>>) = Append(s, With(w, <<e>>)[1])
      /\ HunksIn(Fin(s, w, <<e>>)) = HunksIn(s) + (Len(w[1].hunks) + Len(<<e>>))
      /\ HunksIn(Fin(s, o, h)) = HunksIn(s) + (Len(o[1].hunks) + Len(h))
  BY <1>5, <1>6, FinOpen DEF IsUpdate
<1>9. HunksIn(s) \in Nat /\ Len(o[1].hunks) \in Nat
  <2>1. o[1].hunks \in Seq(AHunk)
    BY <1>1 DEF GoodOp
  <2> QED BY <2>1, SeqFact, HunksInSeq
<1>10. HunksIn(Fin(s, w, <<e>>)) = HunksIn(Fin(s, o, h)) + 1
  BY <1>1, <1>4, <1>8, <1>9
<1>11. Leads(s, o, h, s, w, <<e>>, Append(s, [w[1] EXCEPT !.hunks = Append(@, e)]), 1)
  BY <1>5, <1>6, <1>7, <1>8, <1>10 DEF Leads
<1>12. [w[1] EXCEPT !.hunks = Append(@, e)] \in GoodOp
  <2>1. With(w, <<e>>)[1] \in GoodOp
    BY <1>5, <1>6, WithFact
  <2> QED BY <1>7, <2>1, Zenon
<1> QED BY <1>11, <1>12 DEF w, e

\* A line is added to the open hunk.
LEMMA InHunkFact ==
  ASSUME NEW s \in Seq(GoodOp), NEW o, NEW h, OpenOK(o, h), h # <<>>, NEW l \in Body
  PROVE  /\ Leads(s, o, h, s, o, <<Append(h[1], l)>>,
               Append(s, [o[1] EXCEPT !.hunks = Append(@, Append(h[1], l))]), 0)
         /\ [o[1] EXCEPT !.hunks = Append(@, Append(h[1], l))] \in GoodOp
         /\ o # <<>> /\ o[1] \in GoodOp /\ o[1].kind = "*** Update File"
         /\ h[1] \in AHunk /\ With(o, h)[1] = [o[1] EXCEPT !.hunks = Append(@, h[1])]
<1>1. /\ h \in Seq(AHunk) /\ Len(h) <= 1 /\ o # <<>> /\ o[1].kind = "*** Update File"
      /\ o \in Seq(GoodOp) /\ Len(o) <= 1
  BY DEF OpenOK
<1>2. Len(h) = 1 /\ h[1] \in AHunk
  BY <1>1, SeqFact
<1> DEFINE e == Append(h[1], l)
<1>3. e \in AHunk
  BY <1>2, AppendFact DEF AHunk
<1> HIDE DEF e
<1>4. <<e>> \in Seq(AHunk) /\ Len(<<e>>) = 1 /\ <<e>>[1] = e /\ <<e>> # <<>>
  BY <1>3, OneFact
<1>6. OpenOK(o, <<e>>)
  <2>1. Len(<<e>>) <= 1
    BY <1>4
  <2> QED BY <1>1, <1>4, <2>1, Zenon DEF OpenOK
<1>7. With(o, <<e>>)[1] = [o[1] EXCEPT !.hunks = Append(@, e)]
  BY <1>4 DEF With
<1>8. /\ Fin(s, o, <<e>>) = Append(s, With(o, <<e>>)[1])
      /\ HunksIn(Fin(s, o, <<e>>)) = HunksIn(s) + (Len(o[1].hunks) + Len(<<e>>))
      /\ HunksIn(Fin(s, o, h)) = HunksIn(s) + (Len(o[1].hunks) + Len(h))
  BY <1>1, <1>6, FinOpen
<1>9. HunksIn(s) \in Nat /\ Len(o[1].hunks) \in Nat /\ o[1] \in GoodOp
  <2>0. o[1] \in GoodOp
    BY <1>1, WithFact
  <2>1. o[1].hunks \in Seq(AHunk)
    BY <2>0 DEF GoodOp
  <2> QED BY <2>0, <2>1, SeqFact, HunksInSeq
<1>10. HunksIn(Fin(s, o, <<e>>)) = HunksIn(Fin(s, o, h)) + 0
  BY <1>2, <1>4, <1>8, <1>9
<1>11. Leads(s, o, h, s, o, <<e>>, Append(s, [o[1] EXCEPT !.hunks = Append(@, e)]), 0)
  BY <1>1, <1>6, <1>7, <1>8, <1>10 DEF Leads
<1>12. With(o, h)[1] = [o[1] EXCEPT !.hunks = Append(@, h[1])]
  BY DEF With
<1>13. [o[1] EXCEPT !.hunks = Append(@, e)] \in GoodOp
  <2>1. With(o, <<e>>)[1] \in GoodOp
    BY <1>1, <1>6, WithFact
  <2> QED BY <1>7, <2>1, Zenon
<1> QED BY <1>1, <1>2, <1>9, <1>11, <1>12, <1>13 DEF e

\* The limits of a patch hold after a line, if they leave room for what it adds.
LEMMA LeadsOn ==
  ASSUME Collected, NEW s2, NEW o2, NEW h2, NEW after, NEW more \in {0, 1}, NEW l \in PatchLine,
         Leads(ops, op, hunk, s2, o2, h2, after, more),
         ops' = s2, op' = o2, hunk' = h2, input' = Append(input, l),
         Len(s2) + Len(o2) <= MaxFiles, more = 0 \/ TotalHunks < MaxHunks
  PROVE  Collected' /\ Finished' = after /\ op' # <<>>
<1>1. Finished' = Fin(s2, o2, h2) /\ TotalHunks' = HunksIn(Fin(s2, o2, h2))
  <2>1. WithHunk' = With(o2, h2)
    BY Zenon DEF WithHunk, With
  <2> QED BY <2>1, Zenon DEF Finished, Fin, TotalHunks
<1>2. TotalHunks = HunksIn(Fin(ops, op, hunk)) /\ TotalHunks \in Nat /\ TotalHunks <= MaxHunks
  <2>1. Fin(ops, op, hunk) \in Seq(GoodOp)
    BY FinFact DEF Collected
  <2> QED BY <2>1, FinishedIs, HunksInSeq DEF Collected
<1>3. TotalHunks' = TotalHunks + more
  BY <1>1, <1>2 DEF Leads
<1>4. MaxHunks \in Nat
  BY PlanAssumption
<1>5. TotalHunks' <= MaxHunks
  BY <1>2, <1>3, <1>4
<1>6. input' \in Seq(PatchLine)
  BY AppendFact DEF Collected
<1> QED BY <1>1, <1>5, <1>6, Zenon DEF Leads, Collected

-----------------------------------------------------------------------------
(* What the lines of a patch say, and how one line more changes it. *)

\* s with the line l behind it.
Longer(t, s, l) ==
  /\ Len(s) \in Nat /\ Len(t) = Len(s) + 1 /\ t[Len(s) + 1] = l
  /\ \A i \in 1 .. Len(s) : t[i] = s[i]

\* A line behind all that is gathered changes nothing.
LEMMA GatheredSame ==
  ASSUME NEW t, NEW s, NEW l, Longer(t, s, l), NEW keep, keep \subseteq 1 .. Len(s)
  PROVE  Kept(t, keep) = Kept(s, keep) /\ Gathered(t, keep) = Gathered(s, keep)
<1>1. Len(t) \notin keep /\ Len(s) \in Nat /\ Len(t) = Len(s) + 1
  BY DEF Longer
<1>2. Kept(t, keep) = Kept(s, keep)
  <2>1. Kept(t, keep) = IF Len(t) \in keep THEN Append(Kept(s, keep), Len(t)) ELSE Kept(s, keep)
    BY <1>1, KeptMore
  <2> QED BY <1>1, <2>1
<1> DEFINE at == Kept(s, keep)
<1>3. ASSUME NEW k \in 1 .. Len(at) PROVE t[at[k]] = s[at[k]]
  <2>1. at[k] \in 1 .. Len(s)
    BY <1>1, KeptLists DEF Lists
  <2> HIDE DEF at
  <2> QED BY <2>1 DEF Longer
<1> HIDE DEF at
<1>4. Gathered(t, keep) = [k \in 1 .. Len(at) |-> t[at[k]]] /\ Gathered(s, keep) = [k \in 1 .. Len(at) |-> s[at[k]]]
  BY <1>2, Zenon DEF Gathered, at
<1>5. Gathered(t, keep) = Gathered(s, keep)
  BY <1>3, <1>4
<1> QED BY <1>2, <1>5

\* The positions to keep are those of elements of S.
AllIn(s, keep, S) == keep \subseteq 1 .. Len(s) /\ \A i \in keep : s[i] \in S

\* The line at the end is gathered last.
LEMMA GatheredMore ==
  ASSUME NEW t, NEW s, NEW l, Longer(t, s, l), NEW keep, NEW S, AllIn(s, keep, S), l \in S,
         NEW more, more = keep \cup {Len(t)}
  PROVE  /\ Kept(t, more) = Append(Kept(s, keep), Len(t))
         /\ Gathered(s, keep) \in Seq(S)
         /\ Gathered(t, more) = Append(Gathered(s, keep), l)
<1> DEFINE at == Kept(s, keep)  n == Len(at)
<1>1. /\ Len(s) \in Nat /\ Len(t) = Len(s) + 1 /\ t[Len(t)] = l
      /\ \A i \in 1 .. Len(s) : t[i] = s[i]
  BY DEF Longer
<1>2. Kept(t, more) = Append(at, Len(t))
  <2>1. \A i \in 1 .. Len(s) : i \in keep <=> i \in more
    BY <1>1 DEF AllIn
  <2>2. Kept(t, more) =
          IF Len(t) \in more THEN Append(Kept(s, keep), Len(t)) ELSE Kept(s, keep)
    BY <1>1, <2>1, KeptMore
  <2> QED BY <2>2
<1>3. at \in Seq(Nat) /\ \A k \in 1 .. Len(at) : at[k] \in keep /\ at[k] \in 1 .. Len(s)
  BY <1>1, KeptLists DEF Lists
<1> HIDE DEF at
<1>4. n \in Nat /\ Len(t) \in Nat
  BY <1>1, <1>3, SeqFact
<1>5. /\ Append(at, Len(t)) \in Seq(Nat) /\ Len(Append(at, Len(t))) = n + 1
      /\ Append(at, Len(t))[n + 1] = Len(t) /\ \A k \in 1 .. n : Append(at, Len(t))[k] = at[k]
  BY <1>3, <1>4, AppendFact
<1> DEFINE g == [k \in 1 .. n |-> s[at[k]]]
           h == [k \in 1 .. n + 1 |-> t[Append(at, Len(t))[k]]]
<1>6. Gathered(s, keep) = g /\ Gathered(t, more) = h
  BY <1>2, <1>5, Zenon DEF Gathered, at
<1>7. g \in Seq(S)
  <2>1. \A k \in 1 .. n : s[at[k]] \in S
    BY <1>3 DEF AllIn
  <2>2. g \in [1 .. n -> S]
    BY <2>1
  <2> QED BY <1>4, <2>2, SeqDef
<1>8. Len(g) = n
  BY <1>4
<1>9. Append(g, l) \in Seq(S) /\ Len(Append(g, l)) = n + 1
      /\ Append(g, l)[n + 1] = l /\ \A k \in 1 .. n : Append(g, l)[k] = g[k]
  <2> HIDE DEF g
  <2> QED BY <1>7, <1>8, AppendFact
<1>10. \A k \in 1 .. n + 1 : h[k] = Append(g, l)[k]
  <2> SUFFICES ASSUME NEW k \in 1 .. n + 1 PROVE h[k] = Append(g, l)[k]
    OBVIOUS
  <2>0. h[k] = t[Append(at, Len(t))[k]]
    OBVIOUS
  <2>1. CASE k = n + 1
    BY <1>1, <1>5, <1>9, <2>0, <2>1
  <2>2. CASE k # n + 1
    <3>1. k \in 1 .. n
      BY <1>4, <2>2
    <3>2. at[k] \in 1 .. Len(s) /\ g[k] = s[at[k]]
      BY <1>3, <3>1
    <3> HIDE DEF g, h
    <3> QED BY <1>1, <1>5, <1>9, <2>0, <3>1, <3>2
  <2> QED BY <2>1, <2>2
<1>11. h \in Seq(S) /\ Len(h) = n + 1
  <2>1. \A k \in 1 .. n + 1 : h[k] \in S
    <3> HIDE DEF h, g
    <3>1. \A k \in 1 .. n + 1 : Append(g, l)[k] \in S
      BY <1>9, SeqFact
    <3> QED BY <1>10, <3>1
  <2>2. h \in [1 .. n + 1 -> S]
    BY <2>1
  <2>3. n + 1 \in Nat
    BY <1>4
  <2> QED BY <2>2, <2>3, SeqDef
<1> HIDE DEF g, h
<1>12. h = Append(g, l)
  BY <1>9, <1>10, <1>11, SeqEqual
<1> QED BY <1>2, <1>6, <1>7, <1>12, Zenon DEF at

\* A line at the end lies behind line i unless a head comes in between.
LEMMA BehindMore ==
  ASSUME NEW t, NEW s, NEW l, Longer(t, s, l), NEW heads, NEW i \in 1 .. Len(s)
  PROVE  /\ Behind(s, i, heads) \subseteq i + 1 .. Len(s)
         /\ Is(l, heads) \/ (\E k \in i + 1 .. Len(s) : Is(s[k], heads)) =>
              Behind(t, i, heads) = Behind(s, i, heads)
         /\ ~Is(l, heads) /\ (\A k \in i + 1 .. Len(s) : ~Is(s[k], heads)) =>
              Behind(t, i, heads) = Behind(s, i, heads) \cup {Len(t)}
<1> DEFINE n == Len(s)
<1>1. /\ n \in Nat /\ Len(t) = n + 1 /\ t[n + 1] = l /\ \A k \in 1 .. n : t[k] = s[k]
  BY DEF Longer
<1> HIDE DEF n
<1>i. i \in 1 .. n
  BY DEF n
<1>2. Behind(s, i, heads) = {j \in i + 1 .. n : \A k \in i + 1 .. j : ~Is(s[k], heads)}
  BY DEF Behind, n
<1>3. Behind(t, i, heads) = {j \in i + 1 .. n + 1 : \A k \in i + 1 .. j : ~Is(t[k], heads)}
  BY <1>1, Zenon DEF Behind
<1>4. \A k \in i + 1 .. n : t[k] = s[k]
  BY <1>1, <1>i
<1>5. ASSUME NEW j \in i + 1 .. n PROVE j \in Behind(t, i, heads) <=> j \in Behind(s, i, heads)
  <2>1. \A k \in i + 1 .. j : k \in i + 1 .. n
    BY <1>1, <1>i
  <2>2. j \in i + 1 .. n + 1
    BY <1>1, <1>i
  <2> QED BY <1>2, <1>3, <1>4, <2>1, <2>2
<1>6. n + 1 \in Behind(t, i, heads) <=> ~Is(l, heads) /\ \A k \in i + 1 .. n : ~Is(s[k], heads)
  <2>1. n + 1 \in i + 1 .. n + 1 /\ \A k : k \in i + 1 .. n + 1 <=> k = n + 1 \/ k \in i + 1 .. n
    BY <1>1, <1>i
  <2>2. n + 1 \in Behind(t, i, heads) <=> \A k \in i + 1 .. n + 1 : ~Is(t[k], heads)
    BY <1>3, <2>1
  <2>3. (\A k \in i + 1 .. n + 1 : ~Is(t[k], heads)) <=> ~Is(t[n + 1], heads) /\ \A k \in i + 1 .. n : ~Is(t[k], heads)
    BY <2>1, Zenon
  <2>4. (\A k \in i + 1 .. n : ~Is(t[k], heads)) <=> \A k \in i + 1 .. n : ~Is(s[k], heads)
    BY <1>4
  <2> QED BY <1>1, <2>2, <2>3, <2>4, Zenon
<1>7. Behind(t, i, heads) \subseteq (i + 1 .. n) \cup {n + 1} /\ Behind(s, i, heads) \subseteq i + 1 .. n
  <2>1. \A k \in i + 1 .. n + 1 : k = n + 1 \/ k \in i + 1 .. n
    BY <1>1, <1>i
  <2>2. Behind(s, i, heads) \subseteq i + 1 .. n
    BY <1>2
  <2>3. Behind(t, i, heads) \subseteq i + 1 .. n + 1
    BY <1>3
  <2> QED BY <2>1, <2>2, <2>3
<1>8. n + 1 \notin Behind(s, i, heads)
  BY <1>1, <1>i, <1>7
<1>9. ASSUME Is(l, heads) \/ (\E k \in i + 1 .. n : Is(s[k], heads))
      PROVE  Behind(t, i, heads) = Behind(s, i, heads)
  <2>1. n + 1 \notin Behind(t, i, heads)
    BY <1>6, <1>9
  <2> QED BY <1>5, <1>7, <2>1
<1>10. ASSUME ~Is(l, heads), \A k \in i + 1 .. n : ~Is(s[k], heads)
       PROVE  Behind(t, i, heads) = Behind(s, i, heads) \cup {n + 1}
  <2>1. n + 1 \in Behind(t, i, heads)
    BY <1>6, <1>10
  <2> QED BY <1>5, <1>7, <2>1
<1> QED BY <1>1, <1>7, <1>9, <1>10 DEF n

\* Nothing lies behind the last line.
LEMMA BehindNone ==
  ASSUME NEW t, NEW heads, Len(t) \in Nat
  PROVE  Behind(t, Len(t), heads) = {}
<1>1. Len(t) + 1 .. Len(t) = {}
  OBVIOUS
<1> QED BY <1>1 DEF Behind

\* A set of positions that is not empty has a highest member.
LEMMA Highest ==
  ASSUME NEW n \in Nat, NEW S, S \subseteq 1 .. n, S # {}
  PROVE  \E j \in S : \A k \in S : k <= j
<1> DEFINE T == {n - j : j \in S}
<1>1. T \subseteq Nat /\ T # {}
  <2>1. \A j \in S : n - j \in Nat
    OBVIOUS
  <2>2. PICK j : j \in S
    OBVIOUS
  <2>3. n - j \in T
    BY <2>2
  <2> QED BY <2>1, <2>3
<1>2. PICK x \in T : \A y \in T : x <= y
  <2> HIDE DEF T
  <2> QED BY <1>1, LeastNat
<1>3. PICK j \in S : x = n - j
  OBVIOUS
<1>4. ASSUME NEW k \in S PROVE k <= j
  <2>1. n - k \in T
    OBVIOUS
  <2>2. x <= n - k
    BY <1>2, <2>1
  <2>3. k \in 1 .. n /\ j \in 1 .. n
    BY <1>3
  <2> HIDE DEF T
  <2> QED BY <1>3, <2>2, <2>3
<1> QED BY <1>4

\* The parts of what is said behind the header i.
PartOf(s, i)    == Behind(s, i, Headers)
MovesOf(s, i)   == {j \in PartOf(s, i) : Is(s[j], {"*** Move to"})}
LastOf(S)       == CHOOSE j \in S : \A k \in S : k <= j
DestOf(s, i)    == IF MovesOf(s, i) = {} THEN NoPath ELSE s[LastOf(MovesOf(s, i))].path
AddedAt(s, i)   == {j \in PartOf(s, i) : IsBody(s[j]) /\ Is(s[i], {"*** Add File"})}
TextsOf(at)     == [k \in 1 .. Len(at) |-> at[k].text]
HunkHeads(s, i) == {j \in PartOf(s, i) : Is(s[j], {"@@"})}
HunkAt(s, j)    == Gathered(s, Behind(s, j, Headers \cup {"@@"}))
HunksAt(s, at)  == [k \in 1 .. Len(at) |-> HunkAt(s, at[k])]

\* What is said behind the header i, by its parts.
LEMMA SaidIs ==
  ASSUME NEW s, NEW i
  PROVE  Said(s, i) = [kind |-> s[i].head, path |-> s[i].path, to |-> DestOf(s, i),
                       lines |-> TextsOf(Gathered(s, AddedAt(s, i))),
                       hunks |-> HunksAt(s, Kept(s, HunkHeads(s, i)))]
BY Zenon DEF Said, PartOf, MovesOf, LastOf, DestOf, AddedAt, TextsOf, HunkHeads, HunkAt, HunksAt

\* A header elsewhere ends the part that belongs to header i.
LEMMA SaidSame ==
  ASSUME NEW t, NEW s, NEW l, Longer(t, s, l), NEW i \in 1 .. Len(s),
         Is(l, Headers) \/ \E k \in i + 1 .. Len(s) : Is(s[k], Headers)
  PROVE  Said(t, i) = Said(s, i)
<1> DEFINE n == Len(s)
<1>1. /\ n \in Nat /\ Len(t) = n + 1 /\ \A k \in 1 .. n : t[k] = s[k]
  BY DEF Longer
<1>2. PartOf(t, i) = PartOf(s, i) /\ PartOf(s, i) \subseteq i + 1 .. n
  BY BehindMore DEF PartOf
<1>3. PartOf(s, i) \subseteq 1 .. n /\ t[i] = s[i] /\ \A j \in PartOf(s, i) : t[j] = s[j]
  BY <1>1, <1>2
<1>4. /\ MovesOf(t, i) = MovesOf(s, i) /\ AddedAt(t, i) = AddedAt(s, i)
      /\ HunkHeads(t, i) = HunkHeads(s, i)
  BY <1>2, <1>3 DEF MovesOf, AddedAt, HunkHeads
<1>5. DestOf(t, i) = DestOf(s, i)
  <2>1. CASE MovesOf(s, i) = {}
    BY <1>4, <2>1 DEF DestOf
  <2>2. CASE MovesOf(s, i) # {}
    <3>1. MovesOf(s, i) \subseteq 1 .. n
      BY <1>3 DEF MovesOf
    <3>2. LastOf(MovesOf(s, i)) \in MovesOf(s, i)
      BY <1>1, <2>2, <3>1, Highest DEF LastOf
    <3>3. t[LastOf(MovesOf(s, i))] = s[LastOf(MovesOf(s, i))]
      BY <1>1, <3>1, <3>2
    <3> QED BY <1>4, <2>2, <3>3, Zenon DEF DestOf
  <2> QED BY <2>1, <2>2
<1>6. Gathered(t, AddedAt(t, i)) = Gathered(s, AddedAt(s, i))
  <2>1. AddedAt(s, i) \subseteq 1 .. Len(s)
    BY <1>3 DEF AddedAt
  <2> QED BY <1>4, <2>1, GatheredSame
<1> DEFINE at == Kept(s, HunkHeads(s, i))
<1>7. Kept(t, HunkHeads(t, i)) = at
  <2>1. HunkHeads(s, i) \subseteq 1 .. Len(s)
    BY <1>3 DEF HunkHeads
  <2> QED BY <1>4, <2>1, GatheredSame
<1>8. \A k \in 1 .. Len(at) : at[k] \in HunkHeads(s, i)
  BY <1>1, KeptLists DEF Lists
<1>9. ASSUME NEW j \in HunkHeads(s, i) PROVE HunkAt(t, j) = HunkAt(s, j)
  <2> DEFINE ends == Headers \cup {"@@"}
  <2>1. j \in i + 1 .. n /\ j \in 1 .. n /\ \A k \in i + 1 .. j : ~Is(s[k], Headers)
    BY <1>1, <1>2, <1>3 DEF HunkHeads, PartOf, Behind
  <2>2. \A x : Is(x, Headers) => Is(x, ends)
    BY DEF Is
  <2>3. Is(l, ends) \/ \E k \in j + 1 .. Len(s) : Is(s[k], ends)
    <3>1. CASE Is(l, Headers)
      BY <2>2, <3>1
    <3>2. ASSUME NEW k \in i + 1 .. Len(s), Is(s[k], Headers)
          PROVE  \E m \in j + 1 .. Len(s) : Is(s[m], ends)
      <4>1. k \notin i + 1 .. j
        BY <2>1, <3>2
      <4>2. k \in j + 1 .. Len(s)
        BY <1>1, <2>1, <4>1
      <4> QED BY <2>2, <3>2, <4>2
    <3> QED BY <3>1, <3>2
  <2> HIDE DEF ends
  <2>4. Behind(t, j, ends) = Behind(s, j, ends) /\ Behind(s, j, ends) \subseteq j + 1 .. Len(s)
    BY <2>1, <2>3, BehindMore
  <2>5. Behind(s, j, ends) \subseteq 1 .. Len(s)
    BY <1>1, <2>1, <2>4
  <2>6. Gathered(t, Behind(t, j, ends)) = Gathered(s, Behind(s, j, ends))
    BY <2>4, <2>5, GatheredSame
  <2> QED BY <2>6 DEF HunkAt, ends
<1>10. HunksAt(t, at) = HunksAt(s, at)
  <2> HIDE DEF at
  <2> QED BY <1>8, <1>9 DEF HunksAt
<1>11. t[i] = s[i]
  BY <1>3
<1> QED BY <1>5, <1>6, <1>7, <1>10, <1>11, SaidIs, Zenon

\* What a line that is no header makes of the operation it stands in.
After(w, l) ==
  [kind  |-> w.kind, path |-> w.path,
   to    |-> IF Is(l, {"*** Move to"}) THEN l.path ELSE w.to,
   lines |-> IF IsBody(l) /\ w.kind = "*** Add File" THEN Append(w.lines, l.text) ELSE w.lines,
   hunks |-> IF Is(l, {"@@"}) THEN Append(w.hunks, <<>>)
             ELSE IF w.hunks = <<>> THEN <<>>
             ELSE [w.hunks EXCEPT ![Len(w.hunks)] = Append(@, l)]]

\* The highest position is the one added above the others.
LEMMA LastIs ==
  ASSUME NEW n \in Nat, NEW S, S \subseteq 1 .. n
  PROVE  LastOf(S \cup {n + 1}) = n + 1
<1>1. n + 1 \in S \cup {n + 1} /\ \A k \in S \cup {n + 1} : k <= n + 1
  OBVIOUS
<1> DEFINE j == LastOf(S \cup {n + 1})
<1>2. j \in S \cup {n + 1} /\ \A k \in S \cup {n + 1} : k <= j
  BY <1>1, Zenon DEF LastOf
<1> HIDE DEF j
<1>3. n + 1 <= j /\ j <= n + 1 /\ j \in 1 .. n + 1
  BY <1>1, <1>2
<1>4. j = n + 1
  BY <1>3
<1> QED BY <1>4 DEF j

\* The texts of one line more.
LEMMA TextsMore ==
  ASSUME NEW at \in Seq(Body), NEW e \in Body
  PROVE  TextsOf(at) \in Seq(Lines) /\ TextsOf(Append(at, e)) = Append(TextsOf(at), e.text)
<1> DEFINE b == Append(at, e)  n == Len(at)
           g == [k \in 1 .. n |-> at[k].text]
           h == [k \in 1 .. n + 1 |-> b[k].text]
<1>1. n \in Nat /\ b \in Seq(Body) /\ Len(b) = n + 1 /\ b[n + 1] = e /\ \A k \in 1 .. n : b[k] = at[k]
  BY AppendFact, SeqFact
<1>2. \A k \in 1 .. n : at[k].text \in Lines
  <2>1. \A k \in 1 .. n : at[k] \in Body
    BY ElementOfSeq
  <2> QED BY <2>1 DEF Body
<1>3. e.text \in Lines
  BY DEF Body
<1>4. g \in Seq(Lines) /\ Len(g) = n
  BY <1>1, <1>2
<1>5. /\ Append(g, e.text) \in Seq(Lines) /\ Len(Append(g, e.text)) = n + 1
      /\ Append(g, e.text)[n + 1] = e.text /\ \A k \in 1 .. n : Append(g, e.text)[k] = g[k]
  <2> HIDE DEF g
  <2> QED BY <1>3, <1>4, AppendFact
<1> HIDE DEF b
<1>6. \A k \in 1 .. n + 1 : h[k] = Append(g, e.text)[k]
  <2> SUFFICES ASSUME NEW k \in 1 .. n + 1 PROVE b[k].text = Append(g, e.text)[k]
    OBVIOUS
  <2>1. CASE k = n + 1
    BY <1>1, <1>5, <2>1
  <2>2. CASE k # n + 1
    <3>1. k \in 1 .. n
      BY <1>1, <2>2
    <3> QED BY <1>1, <1>5, <3>1
  <2> QED BY <2>1, <2>2
<1>7. h \in Seq(Lines) /\ Len(h) = n + 1
  <2>1. \A k \in 1 .. n + 1 : b[k].text \in Lines
    <3>1. \A k \in 1 .. n + 1 : b[k] \in Body
      BY <1>1, ElementOfSeq
    <3> QED BY <3>1 DEF Body
  <2> QED BY <1>1, <2>1
<1>8. TextsOf(at) = g /\ TextsOf(b) = h
  BY <1>1 DEF TextsOf
<1> HIDE DEF g, h
<1>9. h = Append(g, e.text)
  BY <1>5, <1>6, <1>7, SeqEqual
<1> QED BY <1>4, <1>8, <1>9, Zenon DEF b

\* From no positions nothing is gathered.
LEMMA NothingGathered ==
  ASSUME NEW t, Len(t) \in Nat
  PROVE  Kept(t, {}) = <<>> /\ Gathered(t, {}) = <<>>
<1> DEFINE at == Kept(t, {})
<1>1. at \in Seq(Nat) /\ \A k \in 1 .. Len(at) : at[k] \in {}
  BY KeptLists DEF Lists
<1> HIDE DEF at
<1>2. Len(at) = 0
  <2>1. Len(at) \in Nat
    BY <1>1, SeqFact
  <2>2. Len(at) # 0 => 1 \in 1 .. Len(at)
    BY <2>1
  <2> QED BY <1>1, <2>2
<1>3. Gathered(t, {}) = [k \in 1 .. Len(at) |-> t[at[k]]]
  BY DEF Gathered, at
<1>4. at = <<>>
  <2>1. at # <<>> => Len(at) >= 1
    BY <1>1, SeqFact
  <2> QED BY <1>2, <2>1
<1> QED BY <1>2, <1>3, <1>4 DEF at

\* The hunks of an operation, for the positions `at` of its @@ lines.
LEMMA RangeFact ==
  ASSUME NEW n \in Nat, NEW a \in 1 .. n
  PROVE  a + 1 .. n \subseteq 1 .. n /\ \A b \in 1 .. n : a < b => b \in a + 1 .. n
OBVIOUS

PositionsIn(at, s) == at \in Seq(1 .. Len(s))

\* The hunks at given @@ lines: a further @@ line begins one more, which is empty.
LEMMA HunksFact ==
  ASSUME NEW t, NEW s, NEW l, Longer(t, s, l), \A j \in 1 .. Len(s) : s[j] \in PatchLine, l \in PatchLine,
         NEW at, PositionsIn(at, s)
  PROVE  /\ HunksAt(s, at) \in Seq(Seq(PatchLine)) /\ Len(HunksAt(s, at)) = Len(at)
         /\ \A k \in 1 .. Len(at) : HunksAt(s, at)[k] = HunkAt(s, at[k])
         /\ Is(l, {"@@"}) => HunksAt(t, Append(at, Len(t))) = Append(HunksAt(s, at), <<>>)
<1> DEFINE n == Len(at)  ends == Headers \cup {"@@"}  S == Seq(PatchLine)
           g == [k \in 1 .. n |-> HunkAt(s, at[k])]
<1>0. n \in Nat /\ \A k \in 1 .. n : at[k] \in 1 .. Len(s)
  BY SeqFact DEF PositionsIn
<1>00. Len(s) \in Nat /\ Len(t) = Len(s) + 1 /\ Len(t) \in Nat
  BY DEF Longer
<1>1. ASSUME NEW j \in 1 .. Len(s) PROVE HunkAt(s, j) \in S
  <2>1. Behind(s, j, ends) \subseteq j + 1 .. Len(s)
    BY BehindMore
  <2>2. Behind(s, j, ends) \subseteq 1 .. Len(s)
    <3>1. j + 1 .. Len(s) \subseteq 1 .. Len(s)
      BY <1>00, RangeFact, Zenon
    <3> QED BY <2>1, <3>1, Zenon
  <2>4. AllIn(s, Behind(s, j, ends), PatchLine)
    BY <2>2 DEF AllIn
  <2>3. Gathered(s, Behind(s, j, ends)) \in Seq(PatchLine)
    BY <2>2, <2>4, GatheredMore
  <2> QED BY <2>3 DEF HunkAt
<1>2. HunksAt(s, at) = g
  BY DEF HunksAt
<1>3. g \in Seq(S) /\ Len(g) = n /\ \A k \in 1 .. n : g[k] = HunkAt(s, at[k])
  <2>1. g \in [1 .. n -> S]
    BY <1>0, <1>1
  <2>2. g \in Seq(S)
    BY <1>0, <2>1, SeqDef
  <2> QED BY <1>0, <2>2
<1>4. ASSUME Is(l, {"@@"}) PROVE HunksAt(t, Append(at, Len(t))) = Append(g, <<>>)
  <2> DEFINE b == Append(at, Len(t))
             h == [k \in 1 .. n + 1 |-> HunkAt(t, b[k])]
  <2>1. at \in Seq(Nat)
    <3>1. 1 .. Len(s) \subseteq Nat
      OBVIOUS
    <3> QED BY <3>1, SeqMonotonic DEF PositionsIn
  <2>2. Len(b) = n + 1 /\ b[n + 1] = Len(t) /\ \A k \in 1 .. n : b[k] = at[k]
    BY <1>00, <2>1, AppendFact
  <2> HIDE DEF b
  <2>3. HunksAt(t, b) = h
    BY <2>2 DEF HunksAt
  <2>4. ASSUME NEW k \in 1 .. n PROVE HunkAt(t, b[k]) = g[k]
    <3> DEFINE j == at[k]
    <3>1. j \in 1 .. Len(s) /\ b[k] = j /\ g[k] = HunkAt(s, j)
      BY <1>0, <2>2
    <3> HIDE DEF j, g
    <3>2. Is(l, ends)
      BY <1>4 DEF Is
    <3> HIDE DEF ends
    <3>3. Behind(t, j, ends) = Behind(s, j, ends) /\ Behind(s, j, ends) \subseteq j + 1 .. Len(s)
      BY <3>1, <3>2, BehindMore
    <3>4. Behind(s, j, ends) \subseteq 1 .. Len(s)
      BY <3>1, <3>3
    <3>5. Gathered(t, Behind(t, j, ends)) = Gathered(s, Behind(s, j, ends))
      BY <3>3, <3>4, GatheredSame
    <3>6. HunkAt(t, j) = HunkAt(s, j)
      BY <3>5 DEF HunkAt, ends
    <3> QED BY <3>1, <3>6
  <2>5. HunkAt(t, b[n + 1]) = <<>>
    <3>1. Behind(t, Len(t), ends) = {}
      BY <1>00, BehindNone
    <3>2. Gathered(t, {}) = <<>>
      BY <1>00, NothingGathered
    <3> QED BY <2>2, <3>1, <3>2 DEF HunkAt
  <2>6. <<>> \in S
    BY EmptySeq
  <2>7. /\ Append(g, <<>>) \in Seq(S) /\ Len(Append(g, <<>>)) = n + 1
        /\ Append(g, <<>>)[n + 1] = <<>> /\ \A k \in 1 .. n : Append(g, <<>>)[k] = g[k]
    <3> HIDE DEF g, S
    <3> QED BY <1>3, <2>6, AppendFact
  <2> DEFINE e == <<>>  ge == Append(g, e)
  <2>8. \A k \in 1 .. n + 1 : h[k] = Append(g, <<>>)[k]
    <3> SUFFICES ASSUME NEW k \in 1 .. n + 1 PROVE HunkAt(t, b[k]) = Append(g, <<>>)[k]
      OBVIOUS
    <3>1. CASE k = n + 1
      BY <2>5, <2>7, <3>1, Zenon
    <3>2. CASE k # n + 1
      <4>1. k \in 1 .. n
        BY <1>0, <3>2
      <4> HIDE DEF g
      <4> QED BY <2>4, <2>7, <4>1, Zenon
    <3> QED BY <3>1, <3>2
  <2>9. h \in Seq(S) /\ Len(h) = n + 1
    <3>1. \A k \in 1 .. n + 1 : Append(g, <<>>)[k] \in S
      <4> HIDE DEF g, S
      <4> QED BY <2>7, ElementOfSeq
    <3>2. h \in [1 .. n + 1 -> S]
      <4> HIDE DEF S, g
      <4> QED BY <2>8, <3>1
    <3>3. n + 1 \in Nat
      BY <1>0
    <3>4. h \in Seq(S)
      BY <3>2, <3>3, SeqDef
    <3> QED BY <1>0, <3>4
  <2> HIDE DEF g, h, S
  <2>10. h = Append(g, <<>>)
    BY <2>7, <2>8, <2>9, SeqEqual
  <2> QED BY <2>3, <2>10 DEF b
<1> HIDE DEF g, S
<1> QED BY <1>2, <1>3, <1>4, Zenon DEF S

\* A line that is no head is added to the last hunk and to no other.
LEMMA HunksGrow ==
  ASSUME NEW t, NEW s, NEW l, Longer(t, s, l), \A j \in 1 .. Len(s) : s[j] \in PatchLine, l \in PatchLine,
         NEW at, PositionsIn(at, s), at # <<>>, ~Is(l, Headers), ~Is(l, {"@@"}),
         \A a, b \in 1 .. Len(at) : a < b => at[a] < at[b],
         \A a \in 1 .. Len(at) : Is(s[at[a]], {"@@"}),
         \A j \in at[Len(at)] + 1 .. Len(s) : ~Is(s[j], Headers) /\ ~Is(s[j], {"@@"})
  PROVE  HunksAt(t, at) = [HunksAt(s, at) EXCEPT ![Len(at)] = Append(@, l)]
<1> DEFINE n == Len(at)  ends == Headers \cup {"@@"}
           g == [k \in 1 .. n |-> HunkAt(s, at[k])]
<1>0. n \in Nat /\ n >= 1 /\ \A k \in 1 .. n : at[k] \in 1 .. Len(s)
  BY SeqFact DEF PositionsIn
<1>00. Len(s) \in Nat /\ Len(t) = Len(s) + 1 /\ Len(t) \in Nat
  BY DEF Longer
<1>i. \A x : Is(x, ends) <=> Is(x, Headers) \/ Is(x, {"@@"})
  BY DEF Is
<1>1. ASSUME NEW k \in 1 .. n, k # n PROVE HunkAt(t, at[k]) = HunkAt(s, at[k])
  <2> DEFINE j == at[k]
  <2>1. j \in 1 .. Len(s) /\ at[k + 1] \in j + 1 .. Len(s) /\ Is(s[at[k + 1]], ends)
    <3>1. k + 1 \in 1 .. n /\ k < k + 1
      BY <1>0, <1>1
    <3>2. at[k] < at[k + 1] /\ at[k + 1] \in 1 .. Len(s) /\ at[k] \in 1 .. Len(s)
      BY <1>0, <3>1
    <3>3. Is(s[at[k + 1]], {"@@"})
      BY <3>1
    <3>4. at[k + 1] \in at[k] + 1 .. Len(s)
      BY <1>00, <3>2, RangeFact, Zenon
    <3> QED BY <1>i, <3>2, <3>3, <3>4, Zenon
  <2> HIDE DEF j, ends
  <2>2. Behind(t, j, ends) = Behind(s, j, ends) /\ Behind(s, j, ends) \subseteq j + 1 .. Len(s)
    BY <2>1, BehindMore
  <2>3. Behind(s, j, ends) \subseteq 1 .. Len(s)
    BY <1>00, <2>1, <2>2
  <2>4. Gathered(t, Behind(t, j, ends)) = Gathered(s, Behind(s, j, ends))
    BY <2>2, <2>3, GatheredSame
  <2> QED BY <2>4 DEF HunkAt, ends, j
<1>2. HunkAt(t, at[n]) = Append(HunkAt(s, at[n]), l)
  <2> DEFINE j == at[n]
  <2>1. j \in 1 .. Len(s)
    BY <1>0
  <2>2. ~Is(l, ends) /\ \A k \in j + 1 .. Len(s) : ~Is(s[k], ends)
    BY <1>i
  <2> HIDE DEF j, ends
  <2>3. Behind(t, j, ends) = Behind(s, j, ends) \cup {Len(t)} /\ Behind(s, j, ends) \subseteq j + 1 .. Len(s)
    BY <2>1, <2>2, BehindMore
  <2>4. Behind(s, j, ends) \subseteq 1 .. Len(s)
    BY <1>00, <2>1, <2>3
  <2>6. AllIn(s, Behind(s, j, ends), PatchLine)
    BY <2>4 DEF AllIn
  <2>5. Gathered(t, Behind(t, j, ends)) = Append(Gathered(s, Behind(s, j, ends)), l)
    BY <2>3, <2>6, GatheredMore
  <2> QED BY <2>5 DEF HunkAt, ends, j
<1>3. HunksAt(s, at) = g /\ HunksAt(t, at) = [k \in 1 .. n |-> HunkAt(t, at[k])]
  BY DEF HunksAt
<1>4. [k \in 1 .. n |-> HunkAt(t, at[k])] = [g EXCEPT ![n] = Append(@, l)]
  <2> DEFINE h == [k \in 1 .. n |-> HunkAt(t, at[k])]
             x == [g EXCEPT ![n] = Append(@, l)]
  <2>1. ASSUME NEW k \in 1 .. n PROVE HunkAt(t, at[k]) = IF k = n THEN Append(g[n], l) ELSE g[k]
    <3>1. n \in 1 .. n /\ g[k] = HunkAt(s, at[k]) /\ g[n] = HunkAt(s, at[n])
      BY <1>0
    <3> HIDE DEF g
    <3>2. CASE k = n
      BY <1>2, <3>1, <3>2, Zenon
    <3>3. CASE k # n
      BY <1>1, <3>1, <3>3, Zenon
    <3> QED BY <3>2, <3>3
  <2>2. x = [k \in 1 .. n |-> IF k = n THEN Append(g[n], l) ELSE g[k]]
    <3>1. g = [k \in 1 .. n |-> g[k]] /\ n \in 1 .. n
      BY <1>0
    <3> HIDE DEF g
    <3> QED BY <3>1
  <2> HIDE DEF g
  <2> QED BY <2>1, <2>2, Zenon
<1> QED BY <1>3, <1>4, Zenon

\* A line that is no header changes what the last header says as After tells.
LEMMA SaidLast ==
  ASSUME NEW t, NEW s, NEW l, Longer(t, s, l), \A j \in 1 .. Len(s) : s[j] \in PatchLine, l \in PatchLine,
         NEW i \in 1 .. Len(s), Is(s[i], Headers), ~Is(l, Headers),
         \A k \in i + 1 .. Len(s) : ~Is(s[k], Headers)
  PROVE  Said(t, i) = After(Said(s, i), l)
<1> DEFINE n == Len(s)
<1>1. /\ n \in Nat /\ Len(t) = n + 1 /\ t[n + 1] = l /\ \A k \in 1 .. n : t[k] = s[k]
  BY DEF Longer
<1>2. PartOf(t, i) = PartOf(s, i) \cup {n + 1} /\ PartOf(s, i) \subseteq i + 1 .. n
  BY <1>1, BehindMore DEF PartOf
<1>3. /\ PartOf(s, i) \subseteq 1 .. n /\ t[i] = s[i] /\ \A j \in PartOf(s, i) : t[j] = s[j]
      /\ n + 1 \notin PartOf(s, i)
  BY <1>1, <1>2
<1> HIDE DEF n
<1>4. MovesOf(t, i) = MovesOf(s, i) \cup IF Is(l, {"*** Move to"}) THEN {n + 1} ELSE {}
  BY <1>1, <1>2, <1>3 DEF MovesOf
<1>5. DestOf(t, i) = IF Is(l, {"*** Move to"}) THEN l.path ELSE DestOf(s, i)
  <2>0. MovesOf(s, i) \subseteq 1 .. n
    BY <1>3 DEF MovesOf
  <2>1. CASE Is(l, {"*** Move to"})
    <3>1. MovesOf(t, i) = MovesOf(s, i) \cup {n + 1}
      BY <1>4, <2>1
    <3>2. LastOf(MovesOf(s, i) \cup {n + 1}) = n + 1
      BY <1>1, <2>0, LastIs
    <3> QED BY <1>1, <2>1, <3>1, <3>2 DEF DestOf
  <2>2. CASE ~Is(l, {"*** Move to"})
    <3>1. MovesOf(t, i) = MovesOf(s, i)
      BY <1>4, <2>2
    <3>2. CASE MovesOf(s, i) = {}
      BY <2>2, <3>1, <3>2 DEF DestOf
    <3>3. CASE MovesOf(s, i) # {}
      <4>1. LastOf(MovesOf(s, i)) \in MovesOf(s, i)
        BY <1>1, <2>0, <3>3, Highest DEF LastOf
      <4>2. t[LastOf(MovesOf(s, i))] = s[LastOf(MovesOf(s, i))]
        BY <1>1, <2>0, <4>1
      <4> QED BY <2>2, <3>1, <3>3, <4>2, Zenon DEF DestOf
    <3> QED BY <3>2, <3>3
  <2> QED BY <2>1, <2>2
<1>6. Is(s[i], {"*** Add File"}) <=> s[i].head = "*** Add File"
  BY DEF Is
<1>7. TextsOf(Gathered(t, AddedAt(t, i))) =
        IF IsBody(l) /\ s[i].head = "*** Add File" THEN Append(TextsOf(Gathered(s, AddedAt(s, i))), l.text)
        ELSE TextsOf(Gathered(s, AddedAt(s, i)))
  <2>0. AddedAt(s, i) \subseteq 1 .. Len(s) /\ \A j \in AddedAt(s, i) : s[j] \in Body
    <3>1. AddedAt(s, i) \subseteq 1 .. Len(s)
      BY <1>3 DEF AddedAt, n
    <3>2. \A j \in AddedAt(s, i) : IsBody(s[j])
      BY DEF AddedAt
    <3> QED BY <3>1, <3>2, LineFact
  <2>1. CASE IsBody(l) /\ s[i].head = "*** Add File"
    <3>1. AddedAt(t, i) = AddedAt(s, i) \cup {Len(t)}
      BY <1>1, <1>2, <1>3, <1>6, <2>1 DEF AddedAt
    <3>2. l \in Body
      BY <2>1, LineFact
    <3>3. /\ Gathered(s, AddedAt(s, i)) \in Seq(Body)
          /\ Gathered(t, AddedAt(t, i)) = Append(Gathered(s, AddedAt(s, i)), l)
      <4>1. AllIn(s, AddedAt(s, i), Body)
        BY <2>0 DEF AllIn
      <4> QED BY <3>1, <3>2, <4>1, GatheredMore
    <3> QED BY <2>1, <3>2, <3>3, TextsMore
  <2>2. CASE ~(IsBody(l) /\ s[i].head = "*** Add File")
    <3>1. AddedAt(t, i) = AddedAt(s, i)
      BY <1>1, <1>2, <1>3, <1>6, <2>2 DEF AddedAt
    <3>2. Gathered(t, AddedAt(t, i)) = Gathered(s, AddedAt(s, i))
      BY <2>0, <3>1, GatheredSame
    <3> QED BY <2>2, <3>2, Zenon
  <2> QED BY <2>1, <2>2
<1> DEFINE heads == HunkHeads(s, i)  at == Kept(s, heads)
<1>8. heads \subseteq 1 .. n /\ HunkHeads(t, i) = heads \cup IF Is(l, {"@@"}) THEN {n + 1} ELSE {}
  BY <1>1, <1>2, <1>3 DEF HunkHeads
<1>9. Lists(at, heads, n)
  BY <1>1, KeptLists DEF n
<1>10. PositionsIn(at, s) /\ Len(at) \in Nat
  <2>1. at \in Seq(Nat) /\ \A a \in 1 .. Len(at) : at[a] \in 1 .. n
    BY <1>9 DEF Lists
  <2>2. Len(at) \in Nat
    BY <2>1, SeqFact
  <2>3. at \in [1 .. Len(at) -> 1 .. n]
    BY <2>1, LenProperties
  <2> QED BY <2>2, <2>3, SeqDef DEF n, PositionsIn
<1>11. HunksAt(t, Kept(t, HunkHeads(t, i))) =
         IF Is(l, {"@@"}) THEN Append(HunksAt(s, at), <<>>)
         ELSE IF HunksAt(s, at) = <<>> THEN <<>>
         ELSE [HunksAt(s, at) EXCEPT ![Len(HunksAt(s, at))] = Append(@, l)]
  <2>1. CASE Is(l, {"@@"})
    <3>1. Kept(t, HunkHeads(t, i)) = Append(at, Len(t))
      <4>1. HunkHeads(t, i) = heads \cup {Len(t)} /\ heads \subseteq 1 .. Len(s)
        BY <1>1, <1>8, <2>1 DEF n
      <4>2. AllIn(s, heads, PatchLine)
        BY <4>1 DEF AllIn
      <4> HIDE DEF heads
      <4> QED BY <4>1, <4>2, GatheredMore
    <3> HIDE DEF at
    <3>2. HunksAt(t, Append(at, Len(t))) = Append(HunksAt(s, at), <<>>)
      BY <1>10, <2>1, HunksFact
    <3> QED BY <2>1, <3>1, <3>2, Zenon
  <2>2. CASE ~Is(l, {"@@"})
    <3>1. Kept(t, HunkHeads(t, i)) = at
      <4>1. HunkHeads(t, i) = heads /\ heads \subseteq 1 .. Len(s)
        BY <1>1, <1>8, <2>2 DEF n
      <4> HIDE DEF heads
      <4> QED BY <4>1, GatheredSame
    <3> HIDE DEF at
    <3>2. Len(HunksAt(s, at)) = Len(at) /\ HunksAt(s, at) \in Seq(Seq(PatchLine))
      BY <1>10, HunksFact
    <3>3. CASE at = <<>>
      <4>1. Len(at) = 0
        BY <3>3, EmptySeq
      <4>2. HunksAt(s, at) = <<>>
        BY <3>2, <4>1, EmptySeq
      <4>3. HunksAt(t, at) = <<>>
        BY <4>1 DEF HunksAt
      <4> QED BY <2>2, <3>1, <4>2, <4>3, Zenon
    <3>4. CASE at # <<>>
      <4>1. Len(at) \in 1 .. Len(at) /\ at[Len(at)] \in 1 .. n
        BY <1>9, <1>10, <3>4, SeqFact DEF Lists
      <4>2. \A a \in 1 .. Len(at) : at[a] \in heads
        BY <1>9 DEF Lists
      <4>3. \A a \in 1 .. Len(at) : Is(s[at[a]], {"@@"}) /\ at[a] \in i + 1 .. n
        BY <1>2, <4>2 DEF HunkHeads
      <4>4. ASSUME NEW j \in at[Len(at)] + 1 .. Len(s)
            PROVE  ~Is(s[j], Headers) /\ ~Is(s[j], {"@@"})
        <5>1. j \in i + 1 .. n /\ j \in 1 .. n
          BY <1>1, <4>1, <4>3 DEF n
        <5>2. ~Is(s[j], Headers)
          BY <5>1 DEF n
        <5>3. j \in PartOf(s, i)
          <6>1. \A k \in i + 1 .. j : k \in i + 1 .. Len(s)
            BY <1>1, <5>1 DEF n
          <6> QED BY <5>1, <6>1 DEF PartOf, Behind, n
        <5>4. ASSUME Is(s[j], {"@@"}) PROVE FALSE
          <6>1. j \in heads
            BY <5>3, <5>4 DEF HunkHeads
          <6>2. PICK a \in 1 .. Len(at) : at[a] = j
            BY <1>9, <5>1, <6>1 DEF Lists
          <6>3. at[a] <= at[Len(at)]
            <7>1. CASE a = Len(at)
              BY <4>1, <7>1
            <7>2. CASE a # Len(at)
              <8>1. a < Len(at)
                BY <1>10, <7>2
              <8>2. at[a] < at[Len(at)]
                BY <1>9, <4>1, <8>1 DEF Lists
              <8> QED BY <4>1, <5>1, <6>2, <8>2
            <7> QED BY <7>1, <7>2
          <6> QED BY <4>1, <5>1, <6>2, <6>3
        <5> QED BY <5>2, <5>4
      <4>5. \A a, b \in 1 .. Len(at) : a < b => at[a] < at[b]
        BY <1>9 DEF Lists
      <4>6. HunksAt(t, at) = [HunksAt(s, at) EXCEPT ![Len(at)] = Append(@, l)]
        <5>1. \A a \in 1 .. Len(at) : Is(s[at[a]], {"@@"})
          BY <4>3
        <5>2. \A j \in at[Len(at)] + 1 .. Len(s) : ~Is(s[j], Headers) /\ ~Is(s[j], {"@@"})
          BY <4>4
        <5> QED BY <1>10, <2>2, <3>4, <4>5, <5>1, <5>2, HunksGrow
      <4>7. HunksAt(s, at) # <<>>
        BY <3>2, <4>1, EmptySeq
      <4> QED BY <2>2, <3>1, <3>2, <4>6, <4>7, Zenon
    <3> QED BY <3>3, <3>4
  <2> QED BY <2>1, <2>2
<1> HIDE DEF heads, at
<1> DEFINE w == Said(s, i)
<1>12. w.kind = s[i].head /\ w.path = s[i].path /\ w.to = DestOf(s, i)
       /\ w.lines = TextsOf(Gathered(s, AddedAt(s, i))) /\ w.hunks = HunksAt(s, at)
  BY SaidIs DEF at, heads
<1>13. Said(t, i) = [kind |-> t[i].head, path |-> t[i].path, to |-> DestOf(t, i),
                     lines |-> TextsOf(Gathered(t, AddedAt(t, i))),
                     hunks |-> HunksAt(t, Kept(t, HunkHeads(t, i)))]
  BY SaidIs
<1> HIDE DEF w
<1>14. Said(t, i) = After(w, l)
  BY <1>3, <1>5, <1>7, <1>11, <1>12, <1>13, Zenon DEF After
<1> QED BY <1>14 DEF w

\* A function that has f in front and e at its end is f with e behind it.
LEMMA GoodAppend ==
  ASSUME NEW f \in Seq(GoodOp), NEW e \in GoodOp, NEW g, g = [i \in 1 .. Len(f) + 1 |-> g[i]],
         \A i \in 1 .. Len(f) : g[i] = f[i], g[Len(f) + 1] = e
  PROVE  g = Append(f, e)
<1> DEFINE n == Len(f)  b == Append(f, e)
<1>1. n \in Nat /\ b \in Seq(GoodOp) /\ Len(b) = n + 1 /\ b[n + 1] = e /\ \A i \in 1 .. n : b[i] = f[i]
  BY AppendFact, SeqFact
<1> HIDE DEF b
<1>2. \A i \in 1 .. n + 1 : g[i] = b[i]
  <2> SUFFICES ASSUME NEW i \in 1 .. n + 1 PROVE g[i] = b[i]
    OBVIOUS
  <2>1. i = n + 1 \/ i \in 1 .. n
    BY <1>1
  <2> QED BY <1>1, <2>1
<1>3. b = [i \in 1 .. n + 1 |-> b[i]]
  BY <1>1, LenProperties
<1>4. g = b
  BY <1>2, <1>3, Zenon
<1> QED BY <1>4 DEF b

HeadsOf(s) == Kept(s, {i \in 1 .. Len(s) : Is(s[i], Headers)})

\* What the patch says, by its headers.
LEMMA AllSaidIs ==
  ASSUME NEW s
  PROVE  AllSaid(s) = [i \in 1 .. Len(HeadsOf(s)) |-> Said(s, HeadsOf(s)[i])]
BY Zenon DEF AllSaid, HeadsOf

\* The headers of a patch with one line more.
LEMMA HeadsMore ==
  ASSUME NEW t, NEW s, NEW l, Longer(t, s, l)
  PROVE  /\ HeadsOf(t) = IF Is(l, Headers) THEN Append(HeadsOf(s), Len(t)) ELSE HeadsOf(s)
         /\ HeadsOf(s) \in Seq(Nat) /\ Len(HeadsOf(s)) \in Nat
         /\ \A a \in 1 .. Len(HeadsOf(s)) : HeadsOf(s)[a] \in 1 .. Len(s) /\ Is(s[HeadsOf(s)[a]], Headers)
         /\ \A a, b \in 1 .. Len(HeadsOf(s)) : a < b => HeadsOf(s)[a] < HeadsOf(s)[b]
         /\ \A i \in 1 .. Len(s) : Is(s[i], Headers) => \E a \in 1 .. Len(HeadsOf(s)) : HeadsOf(s)[a] = i
<1> DEFINE S == {i \in 1 .. Len(s) : Is(s[i], Headers)}
           T == {i \in 1 .. Len(t) : Is(t[i], Headers)}
<1>1. /\ Len(s) \in Nat /\ Len(t) = Len(s) + 1 /\ t[Len(t)] = l
      /\ \A i \in 1 .. Len(s) : t[i] = s[i]
  BY DEF Longer
<1>2. /\ \A i \in 1 .. Len(s) : i \in S <=> i \in T
      /\ Len(t) \in T <=> Is(l, Headers)
  BY <1>1
<1>3. HeadsOf(s) = Kept(s, S) /\ HeadsOf(t) = Kept(t, T)
  BY Zenon DEF HeadsOf
<1>4. Lists(HeadsOf(s), S, Len(s))
  BY <1>1, <1>3, KeptLists
<1>5. \A i \in S : i \in 1 .. Len(s) /\ Is(s[i], Headers)
  OBVIOUS
<1>6. \A i \in 1 .. Len(s) : Is(s[i], Headers) => i \in S
  OBVIOUS
<1> HIDE DEF S, T
<1>7. HeadsOf(t) = IF Len(t) \in T THEN Append(HeadsOf(s), Len(t)) ELSE HeadsOf(s)
  BY <1>1, <1>2, <1>3, KeptMore
<1>8. HeadsOf(s) \in Seq(Nat) /\ Len(HeadsOf(s)) \in Nat
  BY <1>4, SeqFact DEF Lists
<1>9. \A a \in 1 .. Len(HeadsOf(s)) : HeadsOf(s)[a] \in 1 .. Len(s) /\ Is(s[HeadsOf(s)[a]], Headers)
  BY <1>4, <1>5 DEF Lists
<1>10. \A a, b \in 1 .. Len(HeadsOf(s)) : a < b => HeadsOf(s)[a] < HeadsOf(s)[b]
  BY <1>4 DEF Lists
<1>11. \A i \in 1 .. Len(s) : Is(s[i], Headers) => \E a \in 1 .. Len(HeadsOf(s)) : HeadsOf(s)[a] = i
  BY <1>4, <1>6 DEF Lists
<1>12. HeadsOf(t) = IF Is(l, Headers) THEN Append(HeadsOf(s), Len(t)) ELSE HeadsOf(s)
  BY <1>2, <1>7, Zenon
<1> QED BY <1>8, <1>9, <1>10, <1>11, <1>12

\* A header at the end says one operation more.
LEMMA HeaderSaid ==
  ASSUME NEW t, NEW s, NEW l, Longer(t, s, l), AllSaid(s) \in Seq(GoodOp),
         l \in PatchLine, Is(l, Headers)
  PROVE  AllSaid(t) = Append(AllSaid(s), NewOp(l))
<1> DEFINE at == HeadsOf(s)  b == HeadsOf(t)  f == AllSaid(s)  g == AllSaid(t)
<1>1. /\ Len(t) \in Nat /\ t[Len(t)] = l
  BY DEF Longer
<1>2. at \in Seq(Nat) /\ Len(at) \in Nat /\ \A a \in 1 .. Len(at) : at[a] \in 1 .. Len(s)
  BY HeadsMore
<1>3. b = Append(at, Len(t))
  BY HeadsMore
<1> HIDE DEF at, b
<1>4. Len(b) = Len(at) + 1 /\ b[Len(at) + 1] = Len(t) /\ \A a \in 1 .. Len(at) : b[a] = at[a]
  BY <1>1, <1>2, <1>3, AppendFact
<1>5. f = [i \in 1 .. Len(at) |-> Said(s, at[i])]
  BY AllSaidIs DEF at
<1>6. g = [i \in 1 .. Len(at) + 1 |-> Said(t, b[i])]
  BY <1>4, AllSaidIs, Zenon DEF b
<1>7. Len(f) = Len(at) /\ f \in Seq(GoodOp)
  BY <1>2, <1>5
<1> HIDE DEF f, g
<1>8. ASSUME NEW i \in 1 .. Len(at) PROVE g[i] = f[i]
  <2>1. Said(t, at[i]) = Said(s, at[i])
    BY <1>2, SaidSame
  <2>2. i \in 1 .. Len(at) + 1
    BY <1>2
  <2> QED BY <1>4, <1>5, <1>6, <2>1, <2>2
<1>9. Said(t, Len(t)) = NewOp(l)
  <2>1. PartOf(t, Len(t)) = {}
    BY <1>1, BehindNone DEF PartOf
  <2>2. MovesOf(t, Len(t)) = {} /\ AddedAt(t, Len(t)) = {} /\ HunkHeads(t, Len(t)) = {}
    BY <2>1 DEF MovesOf, AddedAt, HunkHeads
  <2>3. Kept(t, {}) = <<>> /\ Gathered(t, {}) = <<>>
    BY <1>1, NothingGathered
  <2>4. DestOf(t, Len(t)) = NoPath
    BY <2>2 DEF DestOf
  <2>5. TextsOf(<<>>) = <<>> /\ HunksAt(t, <<>>) = <<>>
    <3>1. Len(<<>>) = 0
      BY EmptySeq
    <3> QED BY <3>1 DEF TextsOf, HunksAt
  <2> QED BY <1>1, <2>2, <2>3, <2>4, <2>5, SaidIs, Zenon DEF NewOp
<1>10. NewOp(l) \in GoodOp
  <2>1. l.head \in Headers /\ l.path \in Paths
    BY LineFact
  <2> QED BY <2>1, EmptySeq DEF NewOp, GoodOp
<1> DEFINE e == NewOp(l)
<1> HIDE DEF e
<1>11. g[Len(at) + 1] = e
  <2>1. Len(at) + 1 \in 1 .. Len(at) + 1
    BY <1>2
  <2> QED BY <1>4, <1>6, <1>9, <2>1, Zenon DEF e
<1>12. g = [i \in 1 .. Len(f) + 1 |-> g[i]]
  BY <1>6, <1>7
<1>13. g = Append(f, e)
  <2>1. \A i \in 1 .. Len(f) : g[i] = f[i]
    BY <1>7, <1>8, Zenon
  <2>2. g[Len(f) + 1] = e
    BY <1>7, <1>11, Zenon
  <2>3. e \in GoodOp
    BY <1>10 DEF e
  <2> QED BY <1>7, <1>12, <2>1, <2>2, <2>3, GoodAppend
<1> QED BY <1>13 DEF e, f, g

\* A line that is no header changes the last operation, or nothing if there is none.
LEMMA LineSaid ==
  ASSUME NEW t, NEW s, NEW l, Longer(t, s, l), \A j \in 1 .. Len(s) : s[j] \in PatchLine,
         l \in PatchLine, ~Is(l, Headers)
  PROVE  /\ AllSaid(s) = <<>> => AllSaid(t) = <<>>
         /\ \A front \in Seq(GoodOp), w \in GoodOp, e \in GoodOp :
              AllSaid(s) = Append(front, w) /\ e = After(w, l) => AllSaid(t) = Append(front, e)
<1> DEFINE at == HeadsOf(s)  f == AllSaid(s)  g == AllSaid(t)
<1>1. /\ Len(at) \in Nat /\ HeadsOf(t) = at
      /\ \A a \in 1 .. Len(at) : at[a] \in 1 .. Len(s) /\ Is(s[at[a]], Headers)
      /\ \A a, b \in 1 .. Len(at) : a < b => at[a] < at[b]
      /\ \A i \in 1 .. Len(s) : Is(s[i], Headers) => \E a \in 1 .. Len(at) : at[a] = i
  BY HeadsMore
<1>2. f = [i \in 1 .. Len(at) |-> Said(s, at[i])]
  BY AllSaidIs
<1>3. g = [i \in 1 .. Len(at) |-> Said(t, at[i])]
  BY <1>1, AllSaidIs, Zenon
<1>00. Len(s) \in Nat
  BY DEF Longer
<1> HIDE DEF at, f, g
<1>4. ASSUME f = <<>> PROVE g = <<>>
  <2>1. Len(f) = Len(at)
    BY <1>1, <1>2
  <2>2. Len(at) = 0
    BY <1>4, <2>1, EmptySeq
  <2> QED BY <1>3, <2>2
<1>5. ASSUME NEW front \in Seq(GoodOp), NEW w \in GoodOp, NEW e \in GoodOp,
             f = Append(front, w), e = After(w, l)
      PROVE  g = Append(front, e)
  <2> DEFINE m == Len(front)
  <2>1. m \in Nat /\ Len(f) = m + 1 /\ f[m + 1] = w /\ \A i \in 1 .. m : f[i] = front[i]
    <3>1. /\ Len(Append(front, w)) = m + 1 /\ Append(front, w)[m + 1] = w
          /\ \A i \in 1 .. m : Append(front, w)[i] = front[i]
      BY AppendFact
    <3>2. m \in Nat
      BY SeqFact
    <3> QED BY <1>5, <3>1, <3>2, Zenon
  <2>2. Len(at) = m + 1
    BY <1>1, <1>2, <2>1
  <2>3. ASSUME NEW i \in 1 .. m PROVE g[i] = front[i]
    <3>1. i \in 1 .. Len(at) /\ i + 1 \in 1 .. Len(at) /\ i < i + 1
      BY <2>1, <2>2
    <3>2. at[i] \in 1 .. Len(s) /\ at[i + 1] \in at[i] + 1 .. Len(s) /\ Is(s[at[i + 1]], Headers)
      <4>1. at[i] < at[i + 1] /\ at[i] \in 1 .. Len(s) /\ at[i + 1] \in 1 .. Len(s)
        BY <1>1, <3>1
      <4>2. at[i + 1] \in at[i] + 1 .. Len(s)
        BY <1>00, <4>1, RangeFact, Zenon
      <4> QED BY <1>1, <3>1, <4>1, <4>2, Zenon
    <3>3. Said(t, at[i]) = Said(s, at[i])
      BY <3>2, SaidSame
    <3> QED BY <1>2, <1>3, <2>1, <3>1, <3>3
  <2>4. g[m + 1] = e
    <3> DEFINE i == at[m + 1]
    <3>0. m + 1 \in 1 .. Len(at)
      BY <2>1, <2>2
    <3>1. i \in 1 .. Len(s) /\ Is(s[i], Headers)
      BY <1>1, <3>0
    <3>2. ASSUME NEW k \in i + 1 .. Len(s), Is(s[k], Headers) PROVE FALSE
      <4>1. k \in 1 .. Len(s)
        BY <1>00, <3>1, RangeFact
      <4>2. PICK a \in 1 .. Len(at) : at[a] = k
        BY <1>1, <3>2, <4>1
      <4>3. a = m + 1 \/ a < m + 1
        BY <2>1, <2>2
      <4>4. at[a] = i \/ at[a] < i
        BY <1>1, <3>0, <4>3
      <4> QED BY <1>00, <3>1, <4>1, <4>2, <4>4
    <3> HIDE DEF i
    <3>3. Said(t, i) = After(Said(s, i), l)
      BY <3>1, <3>2, SaidLast
    <3>4. Said(s, i) = w
      BY <1>2, <2>1, <3>0 DEF i
    <3> QED BY <1>3, <1>5, <3>0, <3>3, <3>4 DEF i
  <2>5. g = [i \in 1 .. m + 1 |-> g[i]]
    BY <1>3, <2>2
  <2>6. front \in Seq(GoodOp) /\ e \in GoodOp
    BY <1>5
  <2>7. \A i \in 1 .. Len(front) : g[i] = front[i]
    BY <2>3
  <2>8. g = [i \in 1 .. Len(front) + 1 |-> g[i]] /\ g[Len(front) + 1] = e
    BY <2>4, <2>5
  <2> HIDE DEF m
  <2> QED BY <2>6, <2>7, <2>8, GoodAppend
<1> QED BY <1>4, <1>5 DEF f, g

\* An operation and its changes, field by field.
LEMMA GoodIs ==
  ASSUME NEW w \in GoodOp, NEW x
  PROVE  /\ w = [kind |-> w.kind, path |-> w.path, to |-> w.to, lines |-> w.lines, hunks |-> w.hunks]
         /\ [w EXCEPT !.to = x] =
              [kind |-> w.kind, path |-> w.path, to |-> x, lines |-> w.lines, hunks |-> w.hunks]
         /\ [w EXCEPT !.lines = x] =
              [kind |-> w.kind, path |-> w.path, to |-> w.to, lines |-> x, hunks |-> w.hunks]
         /\ [w EXCEPT !.hunks = x] =
              [kind |-> w.kind, path |-> w.path, to |-> w.to, lines |-> w.lines, hunks |-> x]
<1> DEFINE R == [kind : Headers, path : Paths, to : Paths \cup {NoPath}, lines : Seq(Lines), hunks : Seq(AHunk)]
<1>1. w \in R
  BY DEF GoodOp
<1>2. \A v \in R : v = [kind |-> v.kind, path |-> v.path, to |-> v.to, lines |-> v.lines, hunks |-> v.hunks]
  OBVIOUS
<1> HIDE DEF R
<1>4. w = [kind |-> w.kind, path |-> w.path, to |-> w.to, lines |-> w.lines, hunks |-> w.hunks]
  BY <1>1, <1>2
<1> DEFINE a == w.kind  b == w.path  c == w.to  d == w.lines  e == w.hunks
           v == [kind |-> a, path |-> b, to |-> c, lines |-> d, hunks |-> e]
<1> HIDE DEF a, b, c, d, e
<1>5. w = v
  BY <1>4, Zenon DEF a, b, c, d, e
<1>6. /\ [v EXCEPT !.to = x] = [kind |-> a, path |-> b, to |-> x, lines |-> d, hunks |-> e]
      /\ [v EXCEPT !.lines = x] = [kind |-> a, path |-> b, to |-> c, lines |-> x, hunks |-> e]
      /\ [v EXCEPT !.hunks = x] = [kind |-> a, path |-> b, to |-> c, lines |-> d, hunks |-> x]
  OBVIOUS
<1> HIDE DEF v
<1> QED BY <1>4, <1>5, <1>6, Zenon DEF a, b, c, d, e

\* What After is for each kind of line.
LEMMA AfterMove ==
  ASSUME NEW w \in GoodOp, NEW l \in PatchLine, Is(l, {"*** Move to"}), w.hunks = <<>>
  PROVE  After(w, l) = [w EXCEPT !.to = l.path]
<1>1. ~IsBody(l) /\ ~Is(l, {"@@"})
  <2>1. ~IsBody(l)
    BY LineFact
  <2> QED BY <2>1 DEF Is
<1> QED BY <1>1, GoodIs, Zenon DEF After

\* After for a line of an addition.
LEMMA AfterAdd ==
  ASSUME NEW w \in GoodOp, NEW l \in PatchLine, IsBody(l), w.kind = "*** Add File"
  PROVE  After(w, l) = [w EXCEPT !.lines = Append(@, l.text)]
<1>1. ~Is(l, {"*** Move to"}) /\ ~Is(l, {"@@"})
  BY LineFact
<1>2. w.hunks = <<>>
  BY DEF GoodOp
<1> DEFINE x == Append(w.lines, l.text)
           d == IF IsBody(l) /\ w.kind = "*** Add File" THEN x ELSE w.lines
           c == IF Is(l, {"*** Move to"}) THEN l.path ELSE w.to
           e == IF Is(l, {"@@"}) THEN Append(w.hunks, <<>>)
                ELSE IF w.hunks = <<>> THEN <<>> ELSE [w.hunks EXCEPT ![Len(w.hunks)] = Append(@, l)]
<1>3. d = x
  OBVIOUS
<1>4. c = w.to /\ e = w.hunks
  BY <1>1, <1>2, Zenon
<1>5. After(w, l) = [kind |-> w.kind, path |-> w.path, to |-> c, lines |-> d, hunks |-> e]
  BY Zenon DEF After
<1>6. [w EXCEPT !.lines = x] = [kind |-> w.kind, path |-> w.path, to |-> w.to, lines |-> x, hunks |-> w.hunks]
  BY GoodIs, Zenon
<1> HIDE DEF x, d, c, e
<1>7. After(w, l) = [w EXCEPT !.lines = x]
  BY <1>3, <1>4, <1>5, <1>6, Zenon
<1> QED BY <1>7, Zenon DEF x

\* After for a @@ line.
LEMMA AfterHunk ==
  ASSUME NEW w \in GoodOp, NEW l \in PatchLine, Is(l, {"@@"})
  PROVE  After(w, l) = [w EXCEPT !.hunks = Append(@, <<>>)]
<1>1. ~IsBody(l) /\ ~Is(l, {"*** Move to"})
  <2>1. ~IsBody(l)
    BY LineFact
  <2> QED BY <2>1 DEF Is
<1> QED BY <1>1, GoodIs, Zenon DEF After

\* After for a line that is passed over.
LEMMA AfterNone ==
  ASSUME NEW w \in GoodOp, NEW l, w.hunks = <<>>, ~Is(l, {"*** Move to"}), ~Is(l, {"@@"}),
         ~(IsBody(l) /\ w.kind = "*** Add File")
  PROVE  After(w, l) = w
BY GoodIs, Zenon DEF After

\* To change the last of the hunks is to append another in its place.
LEMMA LastGrows ==
  ASSUME NEW f \in Seq(AHunk), NEW x \in AHunk, NEW y \in AHunk
  PROVE  [Append(f, x) EXCEPT ![Len(Append(f, x))] = y] = Append(f, y)
<1> DEFINE n == Len(f)  a == Append(f, x)  b == Append(f, y)
<1>1. /\ a \in Seq(AHunk) /\ Len(a) = n + 1 /\ \A i \in 1 .. n : a[i] = f[i]
      /\ b \in Seq(AHunk) /\ Len(b) = n + 1 /\ b[n + 1] = y /\ \A i \in 1 .. n : b[i] = f[i]
      /\ n \in Nat
  BY AppendFact, SeqFact
<1> HIDE DEF a, b
<1>2. n + 1 \in 1 .. Len(a)
  BY <1>1
<1>3. /\ [a EXCEPT ![n + 1] = y] \in Seq(AHunk) /\ Len([a EXCEPT ![n + 1] = y]) = Len(a)
      /\ \A j \in 1 .. Len(a) : [a EXCEPT ![n + 1] = y][j] = IF j = n + 1 THEN y ELSE a[j]
  BY <1>1, <1>2, ExceptSeq
<1> DEFINE g == [a EXCEPT ![n + 1] = y]
<1>4. g \in Seq(AHunk) /\ Len(g) = n + 1 /\ \A j \in 1 .. n + 1 : g[j] = IF j = n + 1 THEN y ELSE a[j]
  BY <1>1, <1>3, Zenon
<1> HIDE DEF g
<1>5. \A j \in 1 .. n + 1 : g[j] = b[j]
  <2> SUFFICES ASSUME NEW j \in 1 .. n + 1 PROVE g[j] = b[j]
    OBVIOUS
  <2>1. j = n + 1 \/ (j \in 1 .. n /\ j # n + 1)
    BY <1>1
  <2> QED BY <1>1, <1>4, <2>1
<1>6. g = b
  BY <1>1, <1>4, <1>5, SeqEqual
<1> QED BY <1>1, <1>6, Zenon DEF g, a, b

WithOne(o, x) == [o EXCEPT !.hunks = Append(@, x)]

\* After for a line of a hunk: it is the last hunk that grows.
LEMMA AfterBody ==
  ASSUME NEW o \in GoodOp, NEW x \in AHunk, NEW l \in PatchLine, IsBody(l), o.kind = "*** Update File",
         NEW w \in GoodOp, w = WithOne(o, x)
  PROVE  After(w, l) = WithOne(o, Append(x, l))
<1>1. ~Is(l, {"*** Move to"}) /\ ~Is(l, {"@@"}) /\ l \in Body
  BY LineFact
<1>2. o.hunks \in Seq(AHunk)
  BY DEF GoodOp
<1> DEFINE f == o.hunks  y == Append(x, l)
<1>3. y \in AHunk
  BY <1>1, AppendFact DEF AHunk
<1> HIDE DEF f, y
<1>4. /\ Append(f, x) # <<>> /\ Append(f, x)[Len(Append(f, x))] = x
      /\ [Append(f, x) EXCEPT ![Len(Append(f, x))] = y] = Append(f, y)
  <2>1. f \in Seq(AHunk)
    BY <1>2 DEF f
  <2>2. Append(f, x) # <<>> /\ Len(Append(f, x)) = Len(f) + 1 /\ Append(f, x)[Len(f) + 1] = x
    BY <2>1, AppendFact
  <2>3. [Append(f, x) EXCEPT ![Len(Append(f, x))] = y] = Append(f, y)
    BY <1>3, <2>1, LastGrows
  <2> QED BY <2>2, <2>3, Zenon
<1>5. /\ w.kind = o.kind /\ w.path = o.path /\ w.to = o.to /\ w.lines = o.lines
      /\ w.hunks = Append(f, x) /\ o.hunks = f
  BY DEF GoodOp, f, WithOne
<1> DEFINE z == Append(f, x)
<1>6. z # <<>> /\ [z EXCEPT ![Len(z)] = Append(@, l)] = Append(f, y) /\ w.hunks = z
  BY <1>4, <1>5, Zenon DEF y
<1> HIDE DEF z
<1>7. After(w, l) = [kind |-> o.kind, path |-> o.path, to |-> o.to, lines |-> o.lines, hunks |-> Append(f, y)]
  <2>1. ~(IsBody(l) /\ w.kind = "*** Add File")
    BY <1>5
  <2> QED BY <1>1, <1>5, <1>6, <2>1, Zenon DEF After
<1>9. [o EXCEPT !.hunks = Append(f, y)] =
        [kind |-> o.kind, path |-> o.path, to |-> o.to, lines |-> o.lines, hunks |-> Append(f, y)]
  BY GoodIs
<1> QED BY <1>5, <1>7, <1>9, Zenon DEF y, WithOne

-----------------------------------------------------------------------------
(* ReadLine keeps what is collected well formed, and as the patch says. *)

AsSaid == Finished = AllSaid(input) /\ (op = <<>> => ops = <<>>)

\* The last operation changes from w to e, and so does what the patch says.
LEMMA GoesOn ==
  ASSUME Collected, op # <<>>, NEW l \in PatchLine, ~Is(l, Headers), NEW e \in GoodOp,
         e = After(With(op, hunk)[1], l),
         input' = Append(input, l), Finished' = Append(ops, e), op' # <<>>, AsSaid
  PROVE  AsSaid'
<1>1. input \in Seq(PatchLine) /\ ops \in Seq(GoodOp) /\ OpenOK(op, hunk)
  BY DEF Collected
<1>2. Longer(Append(input, l), input, l) /\ \A j \in 1 .. Len(input) : input[j] \in PatchLine
  BY <1>1, AppendFact, SeqFact DEF Longer
<1>3. Finished = Append(ops, With(op, hunk)[1])
  BY <1>1, FinOpen, FinishedIs
<1>4. With(op, hunk)[1] \in GoodOp
  BY <1>1, WithFact
<1>5. AllSaid(input) = Append(ops, With(op, hunk)[1])
  BY <1>3, Zenon DEF AsSaid
<1>6. AllSaid(Append(input, l)) = Append(ops, e)
  BY <1>1, <1>2, <1>4, <1>5, LineSaid
<1> QED BY <1>6, Zenon DEF AsSaid

\* Each disjunct of ReadLine.
OpensStep(l)     == Opens(l) /\ ops' = Finished /\ op' = <<NewOp(l)>> /\ hunk' = <<>>
MovesStep(l)     == Moves(l) /\ op' = <<[op[1] EXCEPT !.to = l.path]>> /\ UNCHANGED <<ops, hunk>>
OpensHunkStep(l) == OpensHunk(l) /\ op' = WithHunk /\ hunk' = << <<>> >> /\ UNCHANGED ops
InHunkStep(l)    == InHunk(l) /\ hunk' = <<Append(hunk[1], l)>> /\ UNCHANGED <<ops, op>>
AddsStep(l)      == Adds(l) /\ op' = <<[op[1] EXCEPT !.lines = Append(@, l.text)]>> /\ UNCHANGED <<ops, hunk>>
PassedStep(l)    == PassedOver(l) /\ UNCHANGED <<ops, op, hunk>>

Reads(l) == Collected /\ l \in PatchLine /\ input' = Append(input, l)
Keeps    == Collected' /\ (AsSaid => AsSaid')

\* The parser agrees with what the patch says after a header,
LEMMA OpensKeeps ==
  ASSUME NEW l, Reads(l), OpensStep(l)
  PROVE  Keeps
<1>1. l \in PatchLine /\ Is(l, Headers) /\ Len(Finished) < MaxFiles
  BY DEF Reads, OpensStep, Opens
<1>2. input \in Seq(PatchLine) /\ ops \in Seq(GoodOp) /\ OpenOK(op, hunk)
  BY DEF Reads, Collected
<1>3. Finished = Fin(ops, op, hunk) /\ Finished \in Seq(GoodOp)
  BY <1>2, FinFact, FinishedIs
<1>4. Leads(ops, op, hunk, Finished, <<NewOp(l)>>, <<>>, Append(Finished, NewOp(l)), 0)
  BY <1>1, <1>2, <1>3, OpensFact
<1>5. Len(Finished) + Len(<<NewOp(l)>>) <= MaxFiles
  <2>1. Len(Finished) \in Nat /\ MaxFiles \in Nat
    BY <1>3, SeqFact, PlanAssumption
  <2> DEFINE e == NewOp(l)
  <2> HIDE DEF e
  <2>2. Len(<<e>>) = 1
    OBVIOUS
  <2>3. Len(Finished) + Len(<<e>>) <= MaxFiles
    BY <1>1, <2>1, <2>2
  <2> QED BY <2>3 DEF e
<1>6. Collected' /\ Finished' = Append(Finished, NewOp(l)) /\ op' # <<>>
  <2>1. Collected /\ ops' = Finished /\ op' = <<NewOp(l)>> /\ hunk' = <<>> /\ input' = Append(input, l)
    BY DEF Reads, OpensStep
  <2> QED BY <1>1, <1>4, <1>5, <2>1, LeadsOn
<1>7. ASSUME AsSaid PROVE AsSaid'
  <2>1. Longer(Append(input, l), input, l)
    BY <1>1, <1>2, AppendFact, SeqFact DEF Longer
  <2>2. AllSaid(input) = Finished
    BY <1>7 DEF AsSaid
  <2>3. AllSaid(Append(input, l)) = Append(AllSaid(input), NewOp(l))
    BY <1>1, <1>3, <2>1, <2>2, HeaderSaid
  <2> QED BY <1>6, <2>2, <2>3, Zenon DEF AsSaid, Reads
<1> QED BY <1>6, <1>7 DEF Keeps

\* The step changes the open operation to e, and leaves those before it.
LEMMA StaysKeeps ==
  ASSUME NEW l, Reads(l), ~Is(l, Headers), op # <<>>, NEW e \in GoodOp, NEW o2, NEW h2, NEW more \in {0, 1},
         Leads(ops, op, hunk, ops, o2, h2, Append(ops, e), more), e = After(With(op, hunk)[1], l),
         ops' = ops, op' = o2, hunk' = h2, more = 0 \/ TotalHunks < MaxHunks
  PROVE  Keeps
<1>1. Collected /\ l \in PatchLine /\ input' = Append(input, l)
  BY DEF Reads
<1>2. Len(ops) + Len(o2) <= MaxFiles
  <2>1. Len(o2) <= 1 /\ o2 \in Seq(GoodOp) /\ o2 # <<>>
    BY DEF Leads, OpenOK
  <2>2. op \in Seq(GoodOp) /\ Len(op) <= 1 /\ Len(ops) + Len(op) <= MaxFiles
    BY <1>1 DEF Collected, OpenOK
  <2>3. Len(o2) = 1 /\ Len(op) = 1
    BY <2>1, <2>2, SeqFact
  <2> QED BY <2>2, <2>3
<1>3. Collected' /\ Finished' = Append(ops, e) /\ op' # <<>>
  BY <1>1, <1>2, LeadsOn
<1>4. AsSaid => AsSaid'
  BY <1>1, <1>3, GoesOn
<1> QED BY <1>3, <1>4 DEF Keeps

\* after a destination,
LEMMA MovesKeeps ==
  ASSUME NEW l, Reads(l), MovesStep(l)
  PROVE  Keeps
<1>1. l \in PatchLine /\ Is(l, {"*** Move to"}) /\ op # <<>> /\ op[1].kind = "*** Update File" /\ hunk = <<>>
  BY DEF Reads, MovesStep, Moves, InOp
<1>2. ops \in Seq(GoodOp) /\ OpenOK(op, hunk)
  BY DEF Reads, Collected
<1> DEFINE w == With(op, hunk)[1]  e == [w EXCEPT !.to = l.path]  o2 == <<[op[1] EXCEPT !.to = l.path]>>
<1>3. l.path \in Paths /\ ~Is(l, Headers)
  <2>1. l.path \in Paths
    BY <1>1, LineFact
  <2> QED BY <1>1, <2>1 DEF Is, Headers
<1>4. Leads(ops, op, hunk, ops, o2, hunk, Append(ops, e), 0) /\ e \in GoodOp
  BY <1>1, <1>2, <1>3, MovesFact
<1>5. w \in GoodOp /\ w.hunks = <<>>
  BY <1>1, <1>2, WithFact DEF With, OpenOK
<1>6. e = After(w, l)
  BY <1>1, <1>5, AfterMove
<1>7. ops' = ops /\ op' = o2 /\ hunk' = hunk
  BY DEF MovesStep
<1> HIDE DEF w, e, o2
<1> QED BY <1>1, <1>3, <1>4, <1>6, <1>7, StaysKeeps DEF w

\* after a line of an addition,
LEMMA AddsKeeps ==
  ASSUME NEW l, Reads(l), AddsStep(l)
  PROVE  Keeps
<1>1. l \in PatchLine /\ IsBody(l) /\ op # <<>> /\ op[1].kind = "*** Add File"
  BY DEF Reads, AddsStep, Adds, InOp
<1>2. ops \in Seq(GoodOp) /\ OpenOK(op, hunk)
  BY DEF Reads, Collected
<1> DEFINE w == With(op, hunk)[1]  e == [w EXCEPT !.lines = Append(@, l.text)]
           o2 == <<[op[1] EXCEPT !.lines = Append(@, l.text)]>>
<1>3. l.text \in Lines /\ ~Is(l, Headers)
  BY <1>1, LineFact
<1>4. Leads(ops, op, hunk, ops, o2, hunk, Append(ops, e), 0) /\ hunk = <<>> /\ e \in GoodOp
  <2> DEFINE t == l.text
  <2>1. t \in Lines
    BY <1>3
  <2> HIDE DEF t
  <2>2. /\ Leads(ops, op, hunk, ops, <<[op[1] EXCEPT !.lines = Append(@, t)]>>, hunk,
                 Append(ops, [w EXCEPT !.lines = Append(@, t)]), 0)
        /\ hunk = <<>> /\ [w EXCEPT !.lines = Append(@, t)] \in GoodOp
    BY <1>1, <1>2, <2>1, AddsFact
  <2> QED BY <2>2, Zenon DEF t
<1>5. w \in GoodOp /\ w.kind = "*** Add File"
  BY <1>1, <1>2, <1>4, WithFact DEF With
<1>6. e = After(w, l)
  BY <1>1, <1>5, AfterAdd
<1>7. ops' = ops /\ op' = o2 /\ hunk' = hunk
  BY DEF AddsStep
<1> HIDE DEF w, e, o2
<1> QED BY <1>1, <1>3, <1>4, <1>6, <1>7, StaysKeeps DEF w

\* after a @@ line,
LEMMA OpensHunkKeeps ==
  ASSUME NEW l, Reads(l), OpensHunkStep(l)
  PROVE  Keeps
<1>1. l \in PatchLine /\ Is(l, {"@@"}) /\ op # <<>> /\ IsUpdate(op) /\ TotalHunks < MaxHunks
  BY DEF Reads, OpensHunkStep, OpensHunk, InOp, IsUpdate
<1>2. ops \in Seq(GoodOp) /\ OpenOK(op, hunk)
  BY DEF Reads, Collected
<1> DEFINE w == With(op, hunk)[1]  e == [w EXCEPT !.hunks = Append(@, <<>>)]
           o2 == With(op, hunk)  h2 == << <<>> >>
<1>3. ~Is(l, Headers)
  BY <1>1 DEF Is, Headers
<1>4. Leads(ops, op, hunk, ops, o2, h2, Append(ops, e), 1) /\ e \in GoodOp
  BY <1>1, <1>2, OpensHunkFact
<1>5. w \in GoodOp
  BY <1>1, <1>2, WithFact
<1>6. e = After(w, l)
  BY <1>1, <1>5, AfterHunk
<1>7. ops' = ops /\ op' = o2 /\ hunk' = h2
  BY FinishedIs DEF OpensHunkStep
<1> HIDE DEF w, e, o2, h2
<1> QED BY <1>1, <1>3, <1>4, <1>6, <1>7, StaysKeeps DEF w

\* after a line of a hunk,
LEMMA InHunkKeeps ==
  ASSUME NEW l, Reads(l), InHunkStep(l)
  PROVE  Keeps
<1>1. l \in PatchLine /\ IsBody(l) /\ hunk # <<>>
  BY DEF Reads, InHunkStep, InHunk
<1>2. ops \in Seq(GoodOp) /\ OpenOK(op, hunk)
  BY DEF Reads, Collected
<1> DEFINE w == With(op, hunk)[1]  e == [op[1] EXCEPT !.hunks = Append(@, Append(hunk[1], l))]
           h2 == <<Append(hunk[1], l)>>
<1>3. l \in Body /\ ~Is(l, Headers)
  BY <1>1, LineFact
<1>4. /\ Leads(ops, op, hunk, ops, op, h2, Append(ops, e), 0) /\ e \in GoodOp
      /\ op # <<>> /\ op[1] \in GoodOp /\ op[1].kind = "*** Update File" /\ hunk[1] \in AHunk
      /\ w = [op[1] EXCEPT !.hunks = Append(@, hunk[1])]
  BY <1>1, <1>2, <1>3, InHunkFact
<1>5. w \in GoodOp
  BY <1>2, <1>4, WithFact
<1> HIDE DEF w
<1>6. e = After(w, l)
  <2> DEFINE o == op[1]  x == hunk[1]
  <2>1. o \in GoodOp /\ x \in AHunk /\ o.kind = "*** Update File" /\ w = WithOne(o, x)
    BY <1>4 DEF WithOne
  <2> HIDE DEF o, x
  <2>2. After(w, l) = WithOne(o, Append(x, l))
    BY <1>1, <1>5, <2>1, AfterBody
  <2> QED BY <2>2, Zenon DEF o, x, WithOne
<1>7. ops' = ops /\ op' = op /\ hunk' = h2
  BY DEF InHunkStep
<1> HIDE DEF e, h2
<1> QED BY <1>1, <1>3, <1>4, <1>6, <1>7, StaysKeeps DEF w

\* after a line that is passed over,
LEMMA PassedKeeps ==
  ASSUME NEW l, Reads(l), PassedStep(l)
  PROVE  Keeps
<1>1. Collected /\ l \in PatchLine /\ input' = Append(input, l) /\ ops' = ops /\ op' = op /\ hunk' = hunk
  BY DEF Reads, PassedStep
<1>2. input \in Seq(PatchLine) /\ ops \in Seq(GoodOp) /\ OpenOK(op, hunk)
  BY <1>1 DEF Collected
<1>3. Finished' = Finished /\ TotalHunks' = TotalHunks
  BY <1>1, Zenon DEF Finished, WithHunk, TotalHunks
<1>4. input' \in Seq(PatchLine)
  BY <1>1, <1>2, AppendFact
<1>5. Collected'
  BY <1>1, <1>3, <1>4 DEF Collected
<1>6. /\ ~Is(l, Headers) /\ ~Is(l, {"*** Move to"}) /\ ~Is(l, {"@@"})
  <2>1. CASE IsBody(l)
    BY <1>1, <2>1, LineFact
  <2>2. CASE Is(l, {"", "?"})
    BY <2>2 DEF Is, Headers
  <2> QED BY <2>1, <2>2 DEF PassedStep, PassedOver, Is
<1>7. ASSUME AsSaid, op = <<>> PROVE AsSaid'
  <2>1. Longer(Append(input, l), input, l) /\ \A j \in 1 .. Len(input) : input[j] \in PatchLine
    BY <1>1, <1>2, AppendFact, SeqFact DEF Longer
  <2>2. Finished = ops /\ ops = <<>>
    BY <1>2, <1>7, FinFact, FinishedIs DEF AsSaid
  <2>3. AllSaid(input) = <<>>
    BY <1>7, <2>2, Zenon DEF AsSaid
  <2>4. AllSaid(Append(input, l)) = <<>>
    BY <1>1, <1>6, <2>1, <2>3, LineSaid
  <2> QED BY <1>1, <1>3, <2>2, <2>4, Zenon DEF AsSaid
<1>8. ASSUME AsSaid, op # <<>> PROVE AsSaid'
  <2> DEFINE w == With(op, hunk)[1]
  <2>1. w \in GoodOp /\ Finished = Append(ops, w) /\ w.kind = op[1].kind /\ w.hunks = op[1].hunks \o hunk
    <3>1. w \in GoodOp /\ w = [op[1] EXCEPT !.hunks = @ \o hunk] /\ op[1] \in GoodOp
          /\ w.hunks = op[1].hunks \o hunk
      BY <1>2, <1>8, WithFact
    <3>2. Finished = Append(ops, w)
      BY <1>2, <1>8, FinOpen, FinishedIs
    <3> QED BY <3>1, <3>2 DEF GoodOp
  <2>2. w.hunks = <<>> /\ ~(IsBody(l) /\ w.kind = "*** Add File")
    <3>1. CASE op[1].kind = "*** Delete File" /\ Is(l, {""})
      <4>1. w.hunks = <<>>
        BY <2>1, <3>1 DEF GoodOp
      <4>2. ~IsBody(l)
        BY <1>1, <3>1, LineFact
      <4> QED BY <4>1, <4>2
    <3>2. CASE op[1].kind = "*** Update File" /\ hunk = <<>>
      <4>1. w = op[1]
        BY <3>2 DEF With
      <4>2. w.hunks = <<>>
        BY <1>2, <1>8, <3>2, <4>1 DEF OpenOK
      <4> QED BY <2>1, <3>2, <4>2
    <3> QED BY <1>8, <3>1, <3>2 DEF PassedStep, PassedOver, InOp
  <2>3. w = After(w, l)
    BY <1>6, <2>1, <2>2, AfterNone
  <2> HIDE DEF w
  <2>4. Finished' = Append(ops, w) /\ op' # <<>>
    BY <1>1, <1>3, <1>8, <2>1
  <2> QED BY <1>1, <1>6, <1>8, <2>1, <2>3, <2>4, GoesOn DEF w
<1> QED BY <1>5, <1>7, <1>8 DEF Keeps

\* and so after every line it accepts.
LEMMA ReadLineKeeps ==
  ASSUME Collected, NEW l \in PatchLine, ReadLine(l)
  PROVE  Keeps
<1>1. Reads(l)
  BY DEF Reads, ReadLine
<1>2. OpensStep(l) \/ MovesStep(l) \/ OpensHunkStep(l) \/ InHunkStep(l) \/ AddsStep(l) \/ PassedStep(l)
  BY Zenon DEF ReadLine, OpensStep, MovesStep, OpensHunkStep, InHunkStep, AddsStep, PassedStep
<1> QED BY <1>1, <1>2, OpensKeeps, MovesKeeps, OpensHunkKeeps, InHunkKeeps, AddsKeeps, PassedKeeps

-----------------------------------------------------------------------------
(* The stages of a call. *)

Stages == {"request", "parse", "claim", "verify", "plan", "hunks", "edit", "planned", "refused"}

\* What is read stays as it is, once the patch has ended.
ReadInv ==
  /\ files \in [Paths -> PatchTexts \cup EditTexts \cup {NoFile}] /\ stage \in Stages /\ Collected
  /\ stage \in {"request", "edit"} => input = <<>> /\ ops = <<>>
  /\ stage \notin {"parse", "refused"} => op = <<>> /\ hunk = <<>>

\* A change, as the commit takes it: it has a destination when it is a move.
Right(c) == c.kind \in Kinds /\ c.path \in Paths /\ (c.to # NoPath <=> c.kind = "move")

\* The plan grows along the operations, and is made after them.
GrowsInv ==
  /\ plan \in Seq(Elements(plan)) /\ path \in Paths \cup {NoPath}
  /\ \A i \in 1 .. Len(plan) : Right(plan[i])
  /\ stage \in {"request", "parse", "claim", "verify", "edit"} => plan = <<>>
  /\ stage \in {"plan", "hunks"} => Len(plan) <= Len(ops)
  /\ Len(plan) <= Len(ops) + 1

\* c is the change planned for the operation o.
Plans(c, o) == c.path = o.path /\ c.to = o.to /\ (c.kind = "add" <=> o.kind = "*** Add File")

\* What the checks before the plan found holds while the plan is made.
SoundInv ==
  /\ stage \in {"verify", "plan", "hunks"} => NoConflict
  /\ stage \in {"plan", "hunks"} =>
       /\ \A i \in 1 .. Len(ops) : Verified(ops[i])
       /\ \A i \in 1 .. Len(plan) : Plans(plan[i], ops[i])
  /\ stage = "hunks" => Len(plan) < Len(ops) /\ path = Next1.path /\ Next1.kind = "*** Update File"
  /\ stage = "edit" => path \in Paths /\ files[path] # NoFile
  /\ PlanIsSound

PlanIInv == ReadInv /\ GrowsInv /\ SoundInv
SaidInv  == (stage = "parse" => AsSaid) /\ ParsedAsWritten

\* The operations, once they are read.
LEMMA OpsFact ==
  ASSUME Collected
  PROVE  /\ ops \in Seq(GoodOp) /\ Len(ops) \in Nat
         /\ \A i \in 1 .. Len(ops) : /\ ops[i].kind \in Headers /\ ops[i].path \in Paths
                                     /\ ops[i].to \in Paths \cup {NoPath}
                                     /\ ops[i].to # NoPath => ops[i].kind = "*** Update File"
<1>1. ops \in Seq(GoodOp)
  BY DEF Collected
<1>2. Len(ops) \in Nat /\ \A i \in 1 .. Len(ops) : ops[i] \in GoodOp
  BY <1>1, SeqFact
<1>3. \A o \in GoodOp : /\ o.kind \in Headers /\ o.path \in Paths /\ o.to \in Paths \cup {NoPath}
                        /\ o.to # NoPath => o.kind = "*** Update File"
  BY DEF GoodOp
<1> QED BY <1>1, <1>2, <1>3

\* Where nothing is read, what was collected stays.
LEMMA SameRead ==
  ASSUME Collected, UNCHANGED readVars
  PROVE  Collected'
BY Zenon DEF Collected, readVars, TotalHunks, Finished, WithHunk

\* The invariants hold at the beginning.
LEMMA PlanInitHolds ==
  ASSUME PlanInit
  PROVE  PlanIInv /\ SaidInv
<1>0. Len(<<>>) = 0 /\ \A S : <<>> \in Seq(S)
  BY EmptySeq
<1>1. OpenOK(op, hunk)
  BY <1>0 DEF PlanInit, OpenOK
<1>2. Collected
  <2>1. ops \in Seq(GoodOp) /\ input \in Seq(PatchLine) /\ Len(ops) + Len(op) = 0 /\ ops = <<>> /\ op = <<>>
    BY <1>0 DEF PlanInit
  <2>2. TotalHunks = 0
    <3>1. With(<<>>, <<>>) = <<>>
      BY DEF With
    <3>2. <<>> \o <<>> = <<>>
      BY <1>0
    <3>3. ops = <<>> /\ op = <<>> /\ hunk = <<>>
      BY DEF PlanInit
    <3>4. Fin(ops, op, hunk) = <<>>
      BY <3>1, <3>2, <3>3, Zenon DEF Fin
    <3> QED BY <3>4, FinishedIs, HunksInNone
  <2>3. {MaxFiles, MaxHunks} \subseteq Nat
    BY PlanAssumption
  <2> QED BY <1>1, <2>1, <2>2, <2>3 DEF Collected
<1>3. ReadInv
  BY <1>2 DEF PlanInit, ReadInv, Stages
<1>4. GrowsInv
  BY <1>0 DEF PlanInit, GrowsInv
<1>5. SoundInv /\ SaidInv
  BY DEF PlanInit, SoundInv, SaidInv, PlanIsSound, ParsedAsWritten
<1> QED BY <1>3, <1>4, <1>5 DEF PlanIInv

\* To refuse the call changes nothing.
LEMMA RefuseKeeps ==
  ASSUME PlanIInv, SaidInv, Refuse
  PROVE  PlanIInv' /\ SaidInv'
<1>1. Collected'
  BY SameRead DEF PlanIInv, ReadInv, Refuse
<1>2. ReadInv'
  BY <1>1 DEF PlanIInv, ReadInv, Refuse, Stages
<1>3. GrowsInv'
  BY DEF PlanIInv, GrowsInv, Refuse, readVars, editVars, Elements
<1>4. SoundInv' /\ SaidInv'
  BY DEF Refuse, SoundInv, SaidInv, PlanIsSound, ParsedAsWritten
<1> QED BY <1>2, <1>3, <1>4 DEF PlanIInv

\* A call begins with nothing read and nothing planned.
LEMMA RequestKeeps ==
  ASSUME PlanIInv, SaidInv, Request
  PROVE  PlanIInv' /\ SaidInv'
<1>0. /\ stage = "request" /\ stage' \in {"parse", "edit"} /\ UNCHANGED <<readVars, plan>>
      /\ input = <<>> /\ ops = <<>> /\ op = <<>> /\ hunk = <<>> /\ plan = <<>>
  BY DEF Request, PlanIInv, ReadInv, GrowsInv
<1>1. Collected'
  BY <1>0, SameRead DEF PlanIInv, ReadInv
<1>2. /\ files' \in [Paths -> PatchTexts \cup EditTexts \cup {NoFile}] /\ path' \in Paths \cup {NoPath}
      /\ stage' = "edit" => path' \in Paths /\ files'[path'] # NoFile
  <2>1. CASE stage' = "parse" /\ UNCHANGED <<files, editVars>>
    BY <2>1 DEF PlanIInv, ReadInv, GrowsInv, editVars
  <2>2. ASSUME NEW p \in Paths, NEW t \in EditTexts,
               stage' = "edit", files' = [files EXCEPT ![p] = t], path' = p
        PROVE  /\ files' \in [Paths -> PatchTexts \cup EditTexts \cup {NoFile}] /\ path' \in Paths
               /\ files'[path'] # NoFile
    BY <2>2, PlanAssumption DEF PlanIInv, ReadInv
  <2> QED BY <2>1, <2>2 DEF Request
<1>3. ReadInv'
  BY <1>0, <1>1, <1>2 DEF ReadInv, Stages, readVars
<1>4. GrowsInv'
  <2>1. plan' \in Seq(Elements(plan')) /\ Len(plan') <= Len(ops')
    BY <1>0, EmptySeq DEF readVars
  <2> QED BY <1>0, <1>2, <2>1, EmptySeq DEF GrowsInv, readVars
<1>5. SoundInv'
  BY <1>0, <1>2 DEF SoundInv, PlanIsSound
<1>6. SaidInv'
  <2>1. AllSaid(<<>>) = <<>>
    <3>1. Len(<<>>) = 0
      BY EmptySeq
    <3>2. Lists(HeadsOf(<<>>), {i \in 1 .. Len(<<>>) : Is(<<>>[i], Headers)}, Len(<<>>))
      BY <3>1, KeptLists, Zenon DEF HeadsOf
    <3> DEFINE at == HeadsOf(<<>>)
    <3> HIDE DEF at
    <3>3. at \in Seq(Nat) /\ \A a \in 1 .. Len(at) : at[a] \in 1 .. 0
      BY <3>1, <3>2 DEF Lists, at
    <3>4. Len(at) = 0
      <4>1. Len(at) \in Nat
        BY <3>3, SeqFact
      <4>2. Len(at) # 0 => 1 \in 1 .. Len(at)
        BY <4>1
      <4> QED BY <3>3, <4>2
    <3>5. AllSaid(<<>>) = [i \in 1 .. Len(at) |-> Said(<<>>, at[i])]
      BY AllSaidIs DEF at
    <3> QED BY <3>4, <3>5
  <2>2. Finished' = <<>>
    <3>1. Fin(ops, op, hunk) = ops
      BY <1>0, FinFact DEF PlanIInv, ReadInv, Collected
    <3>2. Finished' = Finished
      BY <1>0, Zenon DEF readVars, Finished, WithHunk
    <3> QED BY <1>0, <3>1, <3>2, FinishedIs
  <2> QED BY <1>0, <2>1, <2>2 DEF SaidInv, AsSaid, ParsedAsWritten, readVars
<1> QED BY <1>3, <1>4, <1>5, <1>6 DEF PlanIInv

\* A line is read.
LEMMA ReadLineHolds ==
  ASSUME PlanIInv, SaidInv, NEW l \in PatchLine, ReadLine(l)
  PROVE  PlanIInv' /\ SaidInv'
<1>1. Collected /\ stage = "parse" /\ stage' = "parse" /\ UNCHANGED <<files, editVars, plan>>
  BY DEF ReadLine, PlanIInv, ReadInv
<1>2. Collected' /\ (AsSaid => AsSaid')
  BY <1>1, ReadLineKeeps DEF Keeps
<1>3. ReadInv'
  BY <1>1, <1>2 DEF PlanIInv, ReadInv
<1>4. GrowsInv'
  <2>1. plan = <<>> /\ Len(plan) = 0 /\ plan' \in Seq(Elements(plan')) /\ path' = path
    BY <1>1, EmptySeq DEF PlanIInv, GrowsInv, editVars, Elements
  <2>2. Len(ops') \in Nat
    BY <1>2, SeqFact DEF Collected
  <2> QED BY <1>1, <2>1, <2>2 DEF PlanIInv, GrowsInv
<1>5. SoundInv' /\ SaidInv'
  BY <1>1, <1>2 DEF SoundInv, PlanIsSound, SaidInv, ParsedAsWritten
<1> QED BY <1>3, <1>4, <1>5 DEF PlanIInv

\* The end of the patch: now the operations are what the patch says.
LEMMA EndPatchHolds ==
  ASSUME PlanIInv, SaidInv, EndPatch
  PROVE  PlanIInv' /\ SaidInv'
<1>1. /\ Collected /\ stage = "parse" /\ stage' = "claim" /\ UNCHANGED <<input, editVars, plan>>
      /\ ops' = Finished /\ op' = <<>> /\ hunk' = <<>> /\ files' \in [Paths -> PatchTexts \cup {NoFile}]
  BY DEF EndPatch, PlanIInv, ReadInv
<1>2. ops \in Seq(GoodOp) /\ OpenOK(op, hunk) /\ input \in Seq(PatchLine)
  BY <1>1 DEF Collected
<1>3. Finished \in Seq(GoodOp) /\ Len(Finished) = Len(ops) + Len(op) /\ TotalHunks = HunksIn(Finished)
  BY <1>2, FinFact, FinishedIs
<1>4. OpenOK(<<>>, <<>>) /\ Len(<<>>) = 0
  BY EmptySeq DEF OpenOK
<1>5. TotalHunks' = TotalHunks
  <2>1. Fin(Finished, <<>>, <<>>) = Finished
    BY <1>3, <1>4, FinFact
  <2>2. TotalHunks' = HunksIn(Fin(ops', op', hunk'))
    BY DEF TotalHunks, Finished, WithHunk, Fin, With
  <2> QED BY <1>1, <1>3, <2>1, <2>2
<1>6. Collected'
  <2>1. Len(ops') + Len(op') <= MaxFiles
    BY <1>1, <1>3, <1>4, SeqFact DEF Collected
  <2> QED BY <1>1, <1>2, <1>3, <1>4, <1>5, <2>1 DEF Collected
<1>7. ReadInv'
  BY <1>1, <1>6 DEF ReadInv, Stages
<1>8. GrowsInv'
  <2>1. plan = <<>> /\ Len(plan) = 0 /\ plan' \in Seq(Elements(plan')) /\ path' = path
    BY <1>1, EmptySeq DEF PlanIInv, GrowsInv, editVars, Elements
  <2>2. Len(ops') \in Nat
    BY <1>6, SeqFact DEF Collected
  <2> QED BY <1>1, <2>1, <2>2 DEF PlanIInv, GrowsInv
<1>9. SoundInv'
  BY <1>1 DEF SoundInv, PlanIsSound
<1>10. SaidInv'
  BY <1>1 DEF SaidInv, AsSaid, ParsedAsWritten
<1> QED BY <1>7, <1>8, <1>9, <1>10 DEF PlanIInv

\* Neither the operations nor the files change.
LEMMA SameChecks ==
  ASSUME UNCHANGED <<files, ops>>
  PROVE  (NoConflict' <=> NoConflict) /\ \A o : Verified(o)' <=> Verified(o)
<1>1. files' = files /\ ops' = ops
  OBVIOUS
<1>2. NoConflict' <=> NoConflict
  BY <1>1, Zenon DEF NoConflict
<1>3. \A o : Verified(o)' <=> Verified(o)
  BY <1>1, Zenon DEF Verified
<1> QED BY <1>2, <1>3

\* A step after the patch was read, in which the plan stays as it is.
LEMMA MovesOn ==
  ASSUME PlanIInv, SaidInv, UNCHANGED <<files, readVars, plan>>, path' \in Paths \cup {NoPath},
         stage \in {"claim", "verify", "plan", "hunks", "edit"},
         stage' \in {"claim", "verify", "plan", "hunks", "edit", "planned"},
         stage' = "claim" => stage = "claim", stage' = "edit" <=> stage = "edit",
         stage' \in {"claim", "verify"} => plan = <<>>
  PROVE  ReadInv' /\ GrowsInv' /\ SaidInv'
<1>1. Collected'
  BY SameRead DEF PlanIInv, ReadInv
<1>2. ReadInv'
  BY <1>1 DEF PlanIInv, ReadInv, readVars, Stages
<1>3. GrowsInv'
  <2>1. plan' = plan /\ ops' = ops
    BY DEF readVars
  <2>2. /\ plan \in Seq(Elements(plan)) /\ Len(plan) <= Len(ops) + 1
        /\ \A i \in 1 .. Len(plan) : Right(plan[i])
    BY DEF PlanIInv, GrowsInv
  <2>3. stage' \in {"plan", "hunks"} => Len(plan) <= Len(ops)
    <3>1. Len(ops) \in Nat
      BY OpsFact DEF PlanIInv, ReadInv
    <3> QED BY <3>1, EmptySeq DEF PlanIInv, GrowsInv
  <2>4. plan' \in Seq(Elements(plan')) /\ \A i \in 1 .. Len(plan') : Right(plan'[i])
    BY <2>1, <2>2, Zenon
  <2>5. stage' \in {"request", "parse", "claim", "verify", "edit"} => plan' = <<>>
    BY <2>1 DEF PlanIInv, GrowsInv
  <2> QED BY <2>1, <2>2, <2>3, <2>4, <2>5 DEF GrowsInv
<1>4. SaidInv'
  <2>1. ParsedAsWritten'
    BY DEF SaidInv, ParsedAsWritten, readVars
  <2> QED BY <2>1 DEF SaidInv
<1> QED BY <1>2, <1>3, <1>4

\* No two operations are in conflict.
LEMMA ClaimHolds ==
  ASSUME PlanIInv, SaidInv, Claim
  PROVE  PlanIInv' /\ SaidInv'
<1>1. /\ stage = "claim" /\ NoConflict /\ stage' = "verify" /\ UNCHANGED <<files, readVars, plan>>
      /\ path' = path /\ ops' = ops
  BY DEF Claim, editVars, readVars
<1>2. ReadInv' /\ GrowsInv' /\ SaidInv'
  BY <1>1, MovesOn DEF PlanIInv, GrowsInv
<1>3. NoConflict'
  BY <1>1, SameChecks
<1>4. SoundInv'
  BY <1>1, <1>3 DEF SoundInv, PlanIsSound
<1> QED BY <1>2, <1>4 DEF PlanIInv

\* The files are as the operations need them.
LEMMA VerifyHolds ==
  ASSUME PlanIInv, SaidInv, Verify
  PROVE  PlanIInv' /\ SaidInv'
<1>1. /\ stage = "verify" /\ (\A i \in 1 .. Len(ops) : Verified(ops[i])) /\ stage' = "plan"
      /\ UNCHANGED <<files, readVars, plan>> /\ path' = path /\ ops' = ops /\ plan = <<>>
  BY DEF Verify, editVars, readVars, PlanIInv, GrowsInv
<1>2. ReadInv' /\ GrowsInv' /\ SaidInv'
  BY <1>1, MovesOn DEF PlanIInv, GrowsInv
<1>3. NoConflict'
  BY <1>1, SameChecks DEF PlanIInv, SoundInv
<1>4. \A i \in 1 .. Len(ops') : Verified(ops[i])'
  BY <1>1, SameChecks
<1>5. Len(plan') = 0
  BY <1>1, EmptySeq
<1>6. SoundInv'
  BY <1>1, <1>3, <1>4, <1>5 DEF SoundInv, PlanIsSound
<1> QED BY <1>2, <1>6 DEF PlanIInv

\* One change more in a plan.
LEMMA PlanGrows ==
  ASSUME NEW s, s \in Seq(Elements(s)), NEW c
  PROVE  /\ Append(s, c) \in Seq(Elements(Append(s, c))) /\ Len(Append(s, c)) = Len(s) + 1 /\ Len(s) \in Nat
         /\ Append(s, c)[Len(s) + 1] = c /\ \A i \in 1 .. Len(s) : Append(s, c)[i] = s[i]
<1> DEFINE S == Elements(s) \cup {c}
<1> HIDE DEF S
<1>1. s \in Seq(S) /\ c \in S
  <2>1. Len(s) \in Nat /\ s = [i \in 1 .. Len(s) |-> s[i]]
    BY LenProperties
  <2>2. \A i \in 1 .. Len(s) : s[i] \in Elements(s)
    BY DEF Elements
  <2>3. \A i \in 1 .. Len(s) : s[i] \in S
    BY <2>2 DEF S
  <2>4. s \in Seq(S)
    BY <2>1, <2>3
  <2> QED BY <2>4 DEF S
<1> DEFINE t == Append(s, c)
<1>2. /\ t \in Seq(S) /\ Len(t) = Len(s) + 1 /\ t[Len(s) + 1] = c /\ \A i \in 1 .. Len(s) : t[i] = s[i]
      /\ Len(s) \in Nat
  BY <1>1, AppendFact, SeqFact
<1> HIDE DEF t
<1>3. t \in Seq(Elements(t))
  <2>1. t = [i \in 1 .. Len(t) |-> t[i]] /\ Len(t) \in Nat
    BY <1>2, LenProperties
  <2>2. \A i \in 1 .. Len(t) : t[i] \in Elements(t)
    BY DEF Elements
  <2> QED BY <2>1, <2>2
<1> QED BY <1>2, <1>3 DEF t

\* One change more in the plan, the one of the next operation.
LEMMA PlansOne ==
  ASSUME PlanIInv, SaidInv, stage \in {"plan", "hunks"}, Len(plan) < Len(ops),
         NEW c, plan' = Append(plan, c), Plans(c, Next1), Right(c), stage' = "plan",
         UNCHANGED <<files, readVars>>, path' = path
  PROVE  PlanIInv' /\ SaidInv'
<1>1. Collected' /\ ops' = ops
  BY SameRead DEF PlanIInv, ReadInv, readVars
<1>2. ReadInv'
  BY <1>1 DEF PlanIInv, ReadInv, readVars, Stages
<1>3. /\ plan' \in Seq(Elements(plan')) /\ Len(plan') = Len(plan) + 1 /\ Len(plan) \in Nat
      /\ plan'[Len(plan) + 1] = c /\ \A i \in 1 .. Len(plan) : plan'[i] = plan[i]
  <2>1. plan \in Seq(Elements(plan))
    BY DEF PlanIInv, GrowsInv
  <2> QED BY <2>1, PlanGrows
<1>4. Len(ops) \in Nat
  BY OpsFact DEF PlanIInv, ReadInv
<1>5. GrowsInv'
  <2>1. \A i \in 1 .. Len(plan') : Right(plan'[i])
    <3>1. \A i \in 1 .. Len(plan) : Right(plan'[i])
      BY <1>3 DEF PlanIInv, GrowsInv
    <3>2. Right(plan'[Len(plan) + 1])
      BY <1>3
    <3>3. \A i \in 1 .. Len(plan') : i \in 1 .. Len(plan) \/ i = Len(plan) + 1
      BY <1>3
    <3> QED BY <3>1, <3>2, <3>3
  <2> QED BY <1>1, <1>3, <1>4, <2>1 DEF PlanIInv, GrowsInv
<1>6. \A i \in 1 .. Len(plan') : Plans(plan'[i], ops[i])
  <2>1. \A i \in 1 .. Len(plan) : Plans(plan'[i], ops[i])
    BY <1>3 DEF PlanIInv, SoundInv
  <2>2. Plans(plan'[Len(plan) + 1], ops[Len(plan) + 1])
    BY <1>3 DEF Next1
  <2>3. \A i \in 1 .. Len(plan') : i \in 1 .. Len(plan) \/ i = Len(plan) + 1
    BY <1>3
  <2> QED BY <2>1, <2>2, <2>3
<1>7. NoConflict' /\ \A i \in 1 .. Len(ops') : Verified(ops[i])'
  BY <1>1, SameChecks DEF PlanIInv, SoundInv
<1>8. SoundInv'
  BY <1>1, <1>6, <1>7 DEF SoundInv, PlanIsSound, Plans
<1>9. SaidInv'
  BY DEF SaidInv, ParsedAsWritten
<1> QED BY <1>2, <1>5, <1>8, <1>9 DEF PlanIInv

\* The operation to plan is one of those that were read.
LEMMA NextFact ==
  ASSUME PlanIInv, Len(plan) < Len(ops)
  PROVE  /\ Next1.kind \in Headers /\ Next1.path \in Paths /\ Next1.to \in Paths \cup {NoPath}
         /\ Next1.to # NoPath => Next1.kind = "*** Update File"
<1>1. Len(ops) \in Nat /\ Len(plan) \in Nat
  BY OpsFact, LenProperties DEF PlanIInv, ReadInv, GrowsInv
<1>2. Len(plan) + 1 \in 1 .. Len(ops)
  BY <1>1
<1> QED BY <1>2, OpsFact DEF PlanIInv, ReadInv, Next1

\* An addition or a deletion is planned.
LEMMA AddDeleteHolds ==
  ASSUME PlanIInv, SaidInv, PlanAdd \/ PlanDelete
  PROVE  PlanIInv' /\ SaidInv'
<1>1. stage = "plan" /\ Len(plan) < Len(ops) /\ stage' = "plan" /\ UNCHANGED <<files, readVars>> /\ path' = path
  BY DEF PlanAdd, PlanDelete, editVars
<1>2. Next1.path \in Paths /\ (Next1.kind # "*** Update File" => Next1.to = NoPath)
  BY <1>1, NextFact
<1>3. CASE PlanAdd
  <2> DEFINE c == Change("add", Next1.path, NoPath, FormatTextForWrite(Join(Next1.lines, TRUE), "lf"))
  <2>1. Next1.kind = "*** Add File" /\ plan' = Append(plan, c)
    BY <1>3 DEF PlanAdd
  <2>2. Plans(c, Next1) /\ Right(c)
    BY <1>2, <2>1 DEF Plans, Right, Kinds, Change
  <2> HIDE DEF c
  <2> QED BY <1>1, <2>1, <2>2, PlansOne
<1>4. CASE PlanDelete
  <2> DEFINE c == Change("delete", Next1.path, NoPath, NoFile)
  <2>1. Next1.kind = "*** Delete File" /\ plan' = Append(plan, c)
    BY <1>4 DEF PlanDelete
  <2>2. Plans(c, Next1) /\ Right(c)
    BY <1>2, <2>1 DEF Plans, Right, Kinds, Change
  <2> HIDE DEF c
  <2> QED BY <1>1, <2>1, <2>2, PlansOne
<1> QED BY <1>3, <1>4

\* An update or a move is planned, at the path its edits began with.
LEMMA UpdateHolds ==
  ASSUME PlanIInv, SaidInv, PlanUpdate
  PROVE  PlanIInv' /\ SaidInv'
<1> DEFINE c == Change(IF Next1.to = NoPath THEN "update" ELSE "move", path, Next1.to, Written)
<1>1. /\ stage = "hunks" /\ plan' = Append(plan, c) /\ stage' = "plan"
      /\ UNCHANGED <<files, readVars>> /\ path' = path
  BY DEF PlanUpdate, editVars
<1>2. Len(plan) < Len(ops) /\ path = Next1.path /\ Next1.kind = "*** Update File"
  BY <1>1 DEF PlanIInv, SoundInv
<1>3. Plans(c, Next1) /\ Right(c)
  BY <1>2, NextFact DEF Plans, Right, Kinds, Change
<1> HIDE DEF c
<1> QED BY <1>1, <1>2, <1>3, PlansOne

\* The edits of an update begin.
LEMMA BeginUpdateHolds ==
  ASSUME PlanIInv, SaidInv, BeginUpdate
  PROVE  PlanIInv' /\ SaidInv'
<1>1. /\ stage = "plan" /\ Len(plan) < Len(ops) /\ Next1.kind = "*** Update File"
      /\ stage' = "hunks" /\ path' = Next1.path /\ UNCHANGED <<files, readVars, plan>> /\ ops' = ops
  BY DEF BeginUpdate, readVars
<1>2. path' \in Paths
  BY <1>1, NextFact
<1>3. ReadInv' /\ GrowsInv' /\ SaidInv'
  BY <1>1, <1>2, MovesOn
<1>4. NoConflict' /\ \A i \in 1 .. Len(ops') : Verified(ops[i])'
  BY <1>1, SameChecks DEF PlanIInv, SoundInv
<1>5. Next1' = Next1
  BY <1>1 DEF Next1
<1>6. SoundInv'
  BY <1>1, <1>4, <1>5 DEF PlanIInv, SoundInv, PlanIsSound
<1> QED BY <1>3, <1>6 DEF PlanIInv

\* An edit changes the text only.
LEMMA EditsHold ==
  ASSUME PlanIInv, SaidInv, NEW e, Replace(e), stage \in {"hunks", "edit"}
  PROVE  PlanIInv' /\ SaidInv'
<1>1. UNCHANGED <<files, stage, readVars, path, plan>> /\ ops' = ops
  BY DEF Replace, readVars
<1>2. ReadInv' /\ GrowsInv' /\ SaidInv'
  BY <1>1, MovesOn DEF PlanIInv, GrowsInv
<1>3. (NoConflict' <=> NoConflict) /\ \A o : Verified(o)' <=> Verified(o)
  BY <1>1, SameChecks
<1>4. Next1' = Next1
  BY <1>1 DEF Next1
<1>5. SoundInv'
  BY <1>1, <1>3, <1>4 DEF PlanIInv, SoundInv, PlanIsSound
<1> QED BY <1>2, <1>5 DEF PlanIInv

\* Two operations that the checks let through have no path in common.
LEMMA ApartFact ==
  ASSUME NEW a, NEW b, NEW c, NEW d, Verified(a), Verified(b), Plans(c, a), Plans(d, b),
         Source(a) \cap Source(b) = {}, Target(a) \cap Target(b) = {},
         \A o \in {a, b} : o.kind \in Headers /\ (o.to # NoPath => o.kind = "*** Update File")
  PROVE  Owned(c) \cap Owned(d) = {}
<1> SUFFICES ASSUME NEW x, x # NoPath, x \in {a.path, a.to}, x \in {b.path, b.to} PROVE FALSE
  BY DEF Owned, Plans
<1>1. CASE x = a.path /\ x = b.path
  BY <1>1 DEF Verified, Source, Target, Headers
<1>2. CASE x = a.path /\ x = b.to
  BY <1>2 DEF Verified, Source, Target, Headers
<1>3. CASE x = a.to /\ x = b.path
  BY <1>3 DEF Verified, Source, Target, Headers
<1>4. CASE x = a.to /\ x = b.to
  BY <1>4 DEF Verified, Source, Target, Headers
<1> QED BY <1>1, <1>2, <1>3, <1>4

\* The plan of a patch is complete, and sound.
LEMMA EndPlanHolds ==
  ASSUME PlanIInv, SaidInv, EndPlan
  PROVE  PlanIInv' /\ SaidInv'
<1>1. /\ stage = "plan" /\ Len(plan) = Len(ops) /\ stage' = "planned"
      /\ UNCHANGED <<files, readVars, plan>> /\ path' = path /\ ops' = ops
  BY DEF EndPlan, editVars, readVars
<1>2. ReadInv' /\ GrowsInv' /\ SaidInv'
  BY <1>1, MovesOn DEF PlanIInv, GrowsInv
<1>3. /\ NoConflict /\ \A i \in 1 .. Len(ops) : Verified(ops[i])
      /\ \A i \in 1 .. Len(plan) : Plans(plan[i], ops[i])
  BY <1>1 DEF PlanIInv, SoundInv
<1>4. \A i \in 1 .. Len(ops) : ops[i].kind \in Headers /\ (ops[i].to # NoPath => ops[i].kind = "*** Update File")
  BY OpsFact DEF PlanIInv, ReadInv
<1>5. ASSUME NEW i \in 1 .. Len(plan), NEW j \in 1 .. Len(plan), i # j
      PROVE  Owned(plan[i]) \cap Owned(plan[j]) = {}
  <2>1. Source(ops[i]) \cap Source(ops[j]) = {} /\ Target(ops[i]) \cap Target(ops[j]) = {}
    BY <1>1, <1>3, <1>5 DEF NoConflict
  <2>2. Verified(ops[i]) /\ Verified(ops[j]) /\ Plans(plan[i], ops[i]) /\ Plans(plan[j], ops[j])
    BY <1>1, <1>3
  <2>3. \A o \in {ops[i], ops[j]} : o.kind \in Headers /\ (o.to # NoPath => o.kind = "*** Update File")
    BY <1>1, <1>4
  <2> QED BY <2>1, <2>2, <2>3, ApartFact
<1>6. ASSUME NEW c \in Elements(plan)
      PROVE  (files[c.path] = NoFile <=> c.kind = "add") /\ (c.to # NoPath => files[c.to] = NoFile)
  <2>1. PICK i \in 1 .. Len(plan) : c = plan[i]
    BY DEF Elements
  <2>2. Verified(ops[i]) /\ Plans(c, ops[i])
    BY <1>1, <1>3, <2>1
  <2> QED BY <2>2 DEF Verified, Plans
<1>7. PlanIsSound'
  BY <1>1, <1>5, <1>6 DEF PlanIsSound, Elements
<1>8. SoundInv'
  BY <1>1, <1>7 DEF SoundInv
<1> QED BY <1>2, <1>8 DEF PlanIInv

\* The plan of an edit is its one change.
LEMMA PlanEditsHolds ==
  ASSUME PlanIInv, SaidInv, PlanEdits
  PROVE  PlanIInv' /\ SaidInv'
<1> DEFINE c == Change("update", path, NoPath, Written)
<1>1. /\ stage = "edit" /\ plan' = <<c>> /\ stage' = "planned"
      /\ UNCHANGED <<files, readVars>> /\ path' = path /\ ops' = ops
  BY DEF PlanEdits, editVars, readVars
<1>2. path \in Paths /\ files[path] # NoFile
  BY <1>1 DEF PlanIInv, SoundInv
<1>3. c.kind = "update" /\ c.path = path /\ c.to = NoPath /\ Right(c)
  BY <1>2 DEF Change, Right, Kinds
<1> HIDE DEF c
<1>4. Elements(plan') = {c} /\ Len(plan') = 1 /\ plan' \in Seq(Elements(plan'))
  BY <1>1 DEF Elements
<1>5. ReadInv'
  <2>1. Collected'
    BY <1>1, SameRead DEF PlanIInv, ReadInv
  <2> QED BY <1>1, <2>1 DEF PlanIInv, ReadInv, readVars, Stages
<1>6. GrowsInv'
  <2>1. Len(ops) \in Nat
    BY OpsFact DEF PlanIInv, ReadInv
  <2>2. \A i \in 1 .. Len(plan') : Right(plan'[i])
    BY <1>1, <1>3, <1>4 DEF Elements
  <2> QED BY <1>1, <1>2, <1>4, <2>1, <2>2 DEF GrowsInv
<1>7. PlanIsSound'
  <2>1. \A i, j \in 1 .. Len(plan') : i = j
    BY <1>4
  <2>2. \A x \in Elements(plan') : (files[x.path] = NoFile <=> x.kind = "add") /\ x.to = NoPath
    BY <1>2, <1>3, <1>4
  <2> QED BY <1>1, <2>1, <2>2 DEF PlanIsSound
<1>8. SoundInv' /\ SaidInv'
  BY <1>1, <1>7 DEF SoundInv, SaidInv, ParsedAsWritten
<1> QED BY <1>5, <1>6, <1>8 DEF PlanIInv

\* Every step keeps the invariants.
LEMMA StepHolds ==
  ASSUME PlanIInv, SaidInv, [PlanNext]_planVars
  PROVE  PlanIInv' /\ SaidInv'
<1>1. CASE Request
  BY <1>1, RequestKeeps
<1>2. ASSUME NEW l \in PatchLine, ReadLine(l) \/ RefuseLine(l)
      PROVE  PlanIInv' /\ SaidInv'
  BY <1>2, ReadLineHolds, RefuseKeeps DEF RefuseLine
<1>3. CASE EndPatch \/ Claim \/ Verify
  BY <1>3, EndPatchHolds, ClaimHolds, VerifyHolds
<1>4. CASE RefusePatch \/ RefuseFiles \/ RefuseHunk
  BY <1>4, RefuseKeeps DEF RefusePatch, RefuseFiles, RefuseHunk
<1>5. CASE PlanAdd \/ PlanDelete \/ BeginUpdate \/ PlanUpdate \/ EndPlan \/ PlanEdits
  BY <1>5, AddDeleteHolds, BeginUpdateHolds, UpdateHolds, EndPlanHolds, PlanEditsHolds
<1>6. CASE EditHunk
  BY <1>6, EditsHold DEF EditHunk
<1>7. ASSUME NEW e \in Edits, EditStep(e) \/ RefuseEdit(e)
      PROVE  PlanIInv' /\ SaidInv'
  BY <1>7, EditsHold, RefuseKeeps DEF EditStep, RefuseEdit
<1>8. CASE UNCHANGED planVars
  <2>1. UNCHANGED <<files, stage, readVars, plan>> /\ ops' = ops /\ path' = path /\ input' = input
    BY <1>8 DEF planVars, readVars, editVars
  <2>2. Collected'
    BY <2>1, SameRead DEF PlanIInv, ReadInv
  <2>3. ReadInv'
    BY <2>1, <2>2 DEF PlanIInv, ReadInv, readVars
  <2>4. GrowsInv'
    <3>1. plan' \in Seq(Elements(plan')) /\ \A i \in 1 .. Len(plan') : Right(plan'[i])
      BY <2>1, Zenon DEF PlanIInv, GrowsInv
    <3> QED BY <2>1, <3>1 DEF PlanIInv, GrowsInv
  <2>5. (NoConflict' <=> NoConflict) /\ \A o : Verified(o)' <=> Verified(o)
    BY <2>1, SameChecks
  <2>6. PlanIsSound' /\ Next1' = Next1
    BY <2>1, Zenon DEF PlanIInv, SoundInv, PlanIsSound, Next1
  <2>7. SoundInv'
    BY <2>1, <2>5, <2>6 DEF PlanIInv, SoundInv
  <2>8. SaidInv'
    <3>1. Finished' = Finished
      BY <2>1, Zenon DEF readVars, Finished, WithHunk
    <3> QED BY <2>1, <3>1 DEF SaidInv, AsSaid, ParsedAsWritten, readVars
  <2> QED BY <2>3, <2>4, <2>7, <2>8 DEF PlanIInv
<1> QED BY <1>1, <1>2, <1>3, <1>4, <1>5, <1>6, <1>7, <1>8 DEF PlanNext

\* The elements of a sequence.
LEMMA ElementsFact ==
  ASSUME NEW S, NEW s \in Seq(S)
  PROVE  Elements(s) \subseteq S
<1>1. \A i \in 1 .. Len(s) : s[i] \in S
  BY SeqFact
<1> QED BY <1>1 DEF Elements

\* The type invariant follows.
LEMMA TypeFollows ==
  ASSUME PlanIInv
  PROVE  PlanTypeOK
<1>1. /\ Collected /\ ops \in Seq(GoodOp) /\ input \in Seq(PatchLine)
      /\ op \in Seq(GoodOp) /\ hunk \in Seq(AHunk) /\ Len(op) <= 1 /\ Len(hunk) <= 1
      /\ hunk # <<>> => op # <<>> /\ op[1].kind = "*** Update File"
  BY DEF PlanIInv, ReadInv, Collected, OpenOK
<1>2. Elements(input) \subseteq PatchLine
  BY <1>1, ElementsFact
<1>3. Elements(ops \o op) \subseteq GoodOp /\ Len(ops \o op) = Len(ops) + Len(op)
  BY <1>1, ConcatFact, ElementsFact
<1>4. ASSUME NEW o \in GoodOp
      PROVE  /\ o.kind \in Headers /\ o.path \in Paths /\ o.to \in Paths \cup {NoPath}
             /\ Elements(o.lines) \subseteq Lines /\ \A h \in Elements(o.hunks \o hunk) : Elements(h) \subseteq Body
             /\ o.hunks # <<>> \/ o.to # NoPath => o.kind = "*** Update File"
             /\ o.lines # <<>> => o.kind = "*** Add File"
  <2>1. o.lines \in Seq(Lines) /\ o.hunks \in Seq(AHunk)
    BY DEF GoodOp
  <2>2. Elements(o.lines) \subseteq Lines
    BY <2>1, ElementsFact
  <2>3. o.hunks \o hunk \in Seq(AHunk)
    BY <1>1, <2>1, ConcatFact
  <2> DEFINE all == o.hunks \o hunk
  <2> HIDE DEF all
  <2>4. all \in Seq(AHunk)
    BY <2>3 DEF all
  <2>5. ASSUME NEW h \in Elements(all) PROVE Elements(h) \subseteq Body
    <3>1. h \in Seq(Body)
      BY <2>4, ElementsFact DEF AHunk
    <3> QED BY <3>1, ElementsFact
  <2> QED BY <2>2, <2>5 DEF GoodOp, all
<1>5. \A o \in Elements(ops \o op) :
        /\ o.kind \in Headers /\ o.path \in Paths /\ o.to \in Paths \cup {NoPath}
        /\ Elements(o.lines) \subseteq Lines /\ \A h \in Elements(o.hunks \o hunk) : Elements(h) \subseteq Body
        /\ o.hunks # <<>> \/ o.to # NoPath => o.kind = "*** Update File"
        /\ o.lines # <<>> => o.kind = "*** Add File"
  <2> SUFFICES ASSUME NEW o \in Elements(ops \o op), o \in GoodOp
               PROVE  /\ o.kind \in Headers /\ o.path \in Paths /\ o.to \in Paths \cup {NoPath}
                      /\ Elements(o.lines) \subseteq Lines
                      /\ \A h \in Elements(o.hunks \o hunk) : Elements(h) \subseteq Body
                      /\ o.hunks # <<>> \/ o.to # NoPath => o.kind = "*** Update File"
                      /\ o.lines # <<>> => o.kind = "*** Add File"
    BY <1>3, Zenon
  <2> QED BY <1>4
<1>6. Len(ops \o op) <= MaxFiles /\ TotalHunks <= MaxHunks
  BY <1>1, <1>3 DEF Collected
<1>7. /\ files \in [Paths -> PatchTexts \cup EditTexts \cup {NoFile}] /\ stage \in Stages
      /\ path \in Paths \cup {NoPath} /\ Len(plan) <= Len(ops) + 1
  BY DEF PlanIInv, ReadInv, GrowsInv
<1> QED BY <1>1, <1>2, <1>5, <1>6, <1>7, Zenon DEF PlanTypeOK, Stages

\* The invariants hold in every state.
LEMMA PlanInductive == PlanSpec => [](PlanIInv /\ SaidInv)
<1>1. PlanInit => PlanIInv /\ SaidInv
  BY PlanInitHolds
<1>2. PlanIInv /\ SaidInv /\ [PlanNext]_planVars => (PlanIInv /\ SaidInv)'
  <2>1. ASSUME PlanIInv /\ SaidInv /\ [PlanNext]_planVars PROVE PlanIInv' /\ SaidInv'
    BY <2>1, StepHolds
  <2> QED BY <2>1
<1> QED BY <1>1, <1>2, PTL DEF PlanSpec

\* What the parser collects is well formed, and within MAX_PATCH_FILES and MAX_PATCH_HUNKS
\* however long the patch is.
THEOREM PlanTypeCorrect == PlanSpec => []PlanTypeOK
<1>1. PlanIInv /\ SaidInv => PlanTypeOK
  BY TypeFollows
<1> QED BY <1>1, PlanInductive, PTL

\* What the parser collects line by line is what the patch says when it is read as a
\* whole: no line of an accepted patch is lost, doubled or given to another file.
THEOREM PatchIsParsed == PlanSpec => []ParsedAsWritten
<1>1. PlanIInv /\ SaidInv => ParsedAsWritten
  BY DEF SaidInv
<1> QED BY <1>1, PlanInductive, PTL

\* Every plan the commit is given is one it may rely on: each path belongs to one
\* change, what a change reads or removes is there, and what it creates is not.
THEOREM PlanIsUsable == PlanSpec => []PlanIsSound
<1>1. PlanIInv /\ SaidInv => PlanIsSound
  BY DEF PlanIInv, SoundInv
<1> QED BY <1>1, PlanInductive, PTL

-----------------------------------------------------------------------------
(* What an edit makes of a file. *)

\* A file is being edited: it is one that may be, and the first edit is made of it as it is.
Begun ==
  /\ path \in Paths /\ files[path] \in EditTexts /\ edits \in Seq(Edits)
  /\ edits = <<>> => text = files[path]
  /\ Len(edits) = 1 =>
       text = ApplyReplacements(files[path], FindTextMatches(files[path], edits[1].old, edits[1].all), edits[1].new)

\* The inductive invariant, beyond that of the plan: only the edits of a file end in a plan
\* without operations, and that plan is what became of the text.
EditInv ==
  /\ stage = "request" => edits = <<>>
  /\ stage \in {"claim", "verify", "plan", "hunks"} => ops # <<>>
  /\ stage = "edit" => Begun
  /\ stage = "planned" /\ ops = <<>> => Begun /\ plan = <<Change("update", path, NoPath, Written)>>

LEMMA EditStepHolds ==
  ASSUME PlanIInv, EditInv, NEW e \in Edits, EditStep(e)
  PROVE  EditInv'
<1>1. /\ stage = "edit" /\ stage' = "edit" /\ files' = files /\ path' = path /\ Begun
      /\ text' = ApplyReplacements(text, FindTextMatches(text, e.old, e.all), e.new)
      /\ edits' = Append(edits, e)
  BY DEF EditInv, EditStep, Replace, Selected
<1>2. /\ path \in Paths /\ files[path] \in EditTexts /\ edits \in Seq(Edits)
      /\ edits = <<>> => text = files[path]
  BY <1>1 DEF Begun
<1>3. /\ edits' \in Seq(Edits) /\ Len(edits') = Len(edits) + 1 /\ Len(edits) \in Nat
      /\ edits'[Len(edits) + 1] = e /\ edits' # <<>>
  BY <1>1, <1>2, AppendFact, SeqFact
<1>4. ASSUME Len(edits') = 1 PROVE edits = <<>> /\ edits'[1] = e
  <2> DEFINE n == Len(edits)
  <2>1. n \in Nat /\ n + 1 = 1
    BY <1>3, <1>4, Zenon
  <2>2. n = 0
    <3> HIDE DEF n
    <3> QED BY <2>1
  <2>3. edits = <<>>
    BY <1>2, <2>2, EmptySeq
  <2> QED BY <1>3, <2>1, <2>3, Zenon
<1>5. Len(edits') = 1 =>
        text' = ApplyReplacements(files'[path'], FindTextMatches(files'[path'], edits'[1].old, edits'[1].all), edits'[1].new)
  BY <1>1, <1>2, <1>4
<1>6. Begun'
  BY <1>1, <1>2, <1>3, <1>5 DEF Begun
<1> QED BY <1>1, <1>6 DEF EditInv

LEMMA EditInvHolds ==
  ASSUME PlanIInv, EditInv, [PlanNext]_planVars
  PROVE  EditInv'
<1>1. CASE Request
  <2>1. stage = "request" /\ edits' = edits /\ edits = <<>>
    BY <1>1 DEF Request, editVars, EditInv
  <2>2. CASE stage' = "parse"
    BY <2>2 DEF EditInv
  <2>3. CASE stage' # "parse"
    <3>1. PICK p \in Paths, t \in EditTexts :
            stage' = "edit" /\ files' = [files EXCEPT ![p] = t] /\ path' = p /\ text' = t
      BY <1>1, <2>3 DEF Request
    <3>2. files \in [Paths -> PatchTexts \cup EditTexts \cup {NoFile}]
      BY DEF PlanIInv, ReadInv
    <3>3. files'[p] = t
      BY <3>1, <3>2
    <3>4. <<>> \in Seq(Edits) /\ Len(<<>>) = 0
      BY EmptySeq
    <3>5. Begun'
      BY <2>1, <3>1, <3>3, <3>4 DEF Begun
    <3> QED BY <3>1, <3>5 DEF EditInv
  <2> QED BY <2>2, <2>3
<1>2. CASE stage' = "refused" \/ stage' = "parse"
  BY <1>2 DEF EditInv
<1>3. CASE EndPatch
  BY <1>3 DEF EndPatch, EditInv
<1>4. ASSUME stage \in {"claim", "verify", "plan", "hunks"}, ops' = ops,
             stage' \in {"claim", "verify", "plan", "hunks", "planned"}
      PROVE  EditInv'
  BY <1>4 DEF EditInv
<1>5. CASE Claim \/ Verify \/ PlanAdd \/ PlanDelete \/ BeginUpdate \/ EditHunk \/ PlanUpdate \/ EndPlan
  <2>1. /\ stage \in {"claim", "verify", "plan", "hunks"}
        /\ stage' \in {"claim", "verify", "plan", "hunks", "planned"} /\ ops' = ops
    BY <1>5 DEF Claim, Verify, PlanAdd, PlanDelete, BeginUpdate, EditHunk, Replace, PlanUpdate, EndPlan, readVars
  <2> QED BY <1>4, <2>1
<1>6. CASE PlanEdits
  <2>1. /\ stage = "edit" /\ stage' = "planned" /\ Begun
        /\ plan' = <<Change("update", path, NoPath, Written)>>
        /\ files' = files /\ path' = path /\ text' = text /\ edits' = edits
    BY <1>6 DEF PlanEdits, EditInv, editVars
  <2>2. Begun' /\ plan' = <<Change("update", path, NoPath, Written)>>'
    BY <2>1 DEF Begun, Written
  <2> QED BY <2>1, <2>2 DEF EditInv
<1>7. CASE UNCHANGED planVars
  <2>1. /\ stage' = stage /\ ops' = ops /\ plan' = plan
        /\ files' = files /\ path' = path /\ text' = text /\ edits' = edits
    BY <1>7 DEF planVars, readVars, editVars
  <2> QED BY <2>1 DEF EditInv, Begun, Written
<1>8. CASE RefusePatch \/ RefuseFiles \/ RefuseHunk
  BY <1>2, <1>8 DEF RefusePatch, RefuseFiles, RefuseHunk, Refuse
<1>9. ASSUME NEW l \in PatchLine, ReadLine(l) \/ RefuseLine(l) PROVE EditInv'
  BY <1>2, <1>9 DEF ReadLine, RefuseLine, Refuse
<1>10. ASSUME NEW e \in Edits, EditStep(e) \/ RefuseEdit(e) PROVE EditInv'
  BY <1>2, <1>10, EditStepHolds DEF RefuseEdit, Refuse
<1> QED BY <1>1, <1>3, <1>5, <1>6, <1>7, <1>8, <1>9, <1>10 DEF PlanNext

LEMMA EditInductive == PlanSpec => []EditInv
<1>1. PlanInit => EditInv
  BY DEF PlanInit, EditInv
<1>2. PlanIInv /\ SaidInv /\ EditInv /\ [PlanNext]_planVars => EditInv'
  BY EditInvHolds
<1> QED BY <1>1, <1>2, PlanInductive, PTL DEF PlanSpec

\* The texts of an edit have no CR but those of a CRLF.
LEMMA TextsFact ==
  /\ \A t \in EditTexts : t \in Text /\ NoLoneCR(t)
  /\ \A e \in Edits : /\ e.old \in Text /\ e.old # <<>> /\ NoLoneCR(e.old) /\ e.old \in Olds
                      /\ e.new \in Text /\ NoLoneCR(e.new) /\ e.all \in BOOLEAN
BY PlanAssumption DEF Edits

\* What the plan of one edit holds is the file with the new text where the matches were.
LEMMA RestFollows ==
  ASSUME EditInv
  PROVE  RestIsKept
<1> SUFFICES ASSUME stage = "planned", Len(edits) = 1, ops = <<>>,
                    Uniform(files[path], DetectEol(files[path])),
                    \A m \in Elements(FindTextMatches(files[path], edits[1].old, edits[1].all)) : ~SplitsCRLF(files[path], m)
             PROVE  plan[1].new = Around(files[path], FindTextMatches(files[path], edits[1].old, edits[1].all),
                                         FormatTextForWrite(edits[1].new, DetectEol(files[path])))
  BY Zenon DEF RestIsKept
<1> DEFINE s == files[path]  eol == DetectEol(s)  e == edits[1]  found == FindTextMatches(s, e.old, e.all)
<1>1. Begun /\ plan = <<Change("update", path, NoPath, Written)>>
  BY DEF EditInv
<1>2. s \in Text /\ e \in Edits /\ text = ApplyReplacements(s, found, e.new)
  <2>1. s \in EditTexts /\ edits \in Seq(Edits)
    BY <1>1 DEF Begun
  <2>2. e \in Edits
    BY <2>1, SeqFact
  <2>3. text = ApplyReplacements(s, found, e.new)
    BY <1>1 DEF Begun
  <2> QED BY <2>1, <2>2, <2>3, TextsFact
<1>3. Uniform(s, eol) /\ \A m \in Elements(found) : ~SplitsCRLF(s, m)
  OBVIOUS
<1>4. plan[1].new = FormatTextForWrite(text, eol)
  BY <1>1 DEF Change, Written
<1> HIDE DEF s, eol, e
<1>5. e.old \in Text /\ e.new \in Text /\ NoLoneCR(e.new)
  BY <1>2, TextsFact
<1>6. InOrder(found, Len(s))
  BY <1>2, <1>5, FindInOrder
<1> HIDE DEF found
<1>7. \A m \in 1 .. Len(found) : found[m].start \notin EolMarks(s) /\ found[m].end \notin EolMarks(s)
  BY <1>3 DEF Elements, SplitsCRLF
<1>8. text = Around(s, found, e.new)
  BY <1>2, <1>5, <1>6, ApplyIsAround
<1>9. FormatTextForWrite(Around(s, found, e.new), eol) = Around(s, found, FormatTextForWrite(e.new, eol))
  BY <1>2, <1>3, <1>5, <1>6, <1>7, FormatAround
<1>10. plan[1].new = Around(s, found, FormatTextForWrite(e.new, eol))
  BY <1>4, <1>8, <1>9
<1> QED BY <1>10 DEF s, eol, e, found

\* Nothing but the matches of an edit changes: in a file whose lines end one way all that
\* is in front of, between and behind them stays, and the new text gets the line ends of
\* the file, whatever the modes of the matcher overlooked to find them.
THEOREM RestStays == PlanSpec => []RestIsKept
<1>1. EditInv => RestIsKept
  BY RestFollows
<1> QED BY <1>1, EditInductive, PTL

\* The matches of an edit are its old_str, up to line ends and blanks in front of them.
LEMMA MatchesFollow ==
  ASSUME EditInv
  PROVE  MatchesAreRight
<1> SUFFICES ASSUME stage = "edit", edits = <<>>, NEW e \in [old : Olds, all : BOOLEAN]
             PROVE  LET pieces == {Blankless(Slice(text, a, b)) : a, b \in 0 .. Len(text)}
                        found == Selected(e)
                        bare  == Blankless(e.old)
                    IN /\ \A m \in Elements(found) : Blankless(Slice(text, m.start, m.end)) = bare
                       /\ found = <<>> => bare \notin pieces \ {<<>>}
                       /\ Accepted(e) /\ ~e.all => \A a \in Exact(text, e.old) : a < found[1].end
  BY DEF MatchesAreRight
<1> DEFINE found == Selected(e)  bare == Blankless(e.old)
           pieces == {Blankless(Slice(text, a, b)) : a, b \in 0 .. Len(text)}
<1>1. text \in Text
  BY TextsFact DEF EditInv, Begun
<1>2. e.old \in Text /\ e.old # <<>> /\ NoLoneCR(e.old) /\ e.all \in BOOLEAN
  BY PlanAssumption
<1>3. /\ \A m \in 1 .. Len(found) : Blankless(Slice(text, found[m].start, found[m].end)) = bare
      /\ found = <<>> => \A a, b \in 0 .. Len(text) : Blankless(Slice(text, a, b)) = bare => bare = <<>>
      /\ Len(found) = 1 /\ ~e.all => \A a \in Exact(text, e.old) : a < found[1].end
  BY <1>1, <1>2, FindIsRight DEF Selected
<1>4. Accepted(e) /\ ~e.all => Len(found) = 1
  BY DEF Accepted, Suffices
<1> HIDE DEF found, bare
<1>5. \A m \in Elements(found) : Blankless(Slice(text, m.start, m.end)) = bare
  BY <1>3 DEF Elements
<1>6. found = <<>> => bare \notin pieces \ {<<>>}
  BY <1>3
<1> QED BY <1>3, <1>4, <1>5, <1>6 DEF found, bare

\* What an edit replaces is its old_str, up to line ends and blanks in front of them; it
\* is found wherever it is; and without replace_all it does not occur, as it stands, a
\* second time behind the place that is replaced.
THEOREM FindsWhatIsNamed == PlanSpec => []MatchesAreRight
<1>1. EditInv => MatchesAreRight
  BY MatchesFollow
<1> QED BY <1>1, EditInductive, PTL

-----------------------------------------------------------------------------
(* The commit. *)

\* The phase the files were left in.
Reached == IF phase = "crashed" THEN crash ELSE phase

\* The new content of change i is in place, and its original not yet removed.
InPlace(i) ==
  /\ src[i] = IF kind[i] \in {"add", "update"} THEN "new" ELSE "old"
  /\ dst[i] = IF kind[i] = "move" THEN "new" ELSE "none"

\* The destination of change i is absent or has the new content.
DstWhole(i) == dst[i] = "none" \/ (kind[i] = "move" /\ dst[i] = "new")

\* Each file of change i is absent or whole, as the commit may have left it.
Whole(i) ==
  /\ DstWhole(i)
  /\ src[i] = Original(i) \/ src[i] = (IF kind[i] \in {"add", "update"} THEN "new" ELSE "none")

\* What the phases say of change i, in the order of the code.
PrepareInv(i) ==
  /\ Untouched(i)
  /\ prep[i] = "pending" => temp[i] = "none"
  /\ prep[i] = "ok" => temp[i] = IF kind[i] = "delete" THEN "none" ELSE "whole"
  /\ prep[i] = "busy" => kind[i] # "delete"
RenameInv(i) ==
  \/ temp[i] = "none" /\ InPlace(i)
  \/ temp[i] = "whole" /\ Untouched(i) /\ kind[i] # "delete"
UnlinkInv(i)  == temp[i] = "none" /\ (InPlace(i) \/ Applied(i))
RestoreInv(i) ==
  /\ i < pos => Untouched(i)
  /\ i # pos => Whole(i)
  /\ i = pos => Whole(i) \/ (src[i] = "torn" /\ DstWhole(i))

Phases(i) ==
  /\ Reached = "prepare" => PrepareInv(i)
  /\ Reached = "rename" => RenameInv(i)
  /\ Reached = "unlink" => UnlinkInv(i)
  /\ Reached = "done" => Applied(i) /\ temp[i] = "none"
  /\ Reached = "cleanup" => Whole(i)
  /\ Reached \in {"restore", "stuck"} => RestoreInv(i)
  /\ Reached = "undone" => Untouched(i)

\* The type invariant is inductive with this: a dead process takes no step.
Dead == phase = "crashed" <=> crash # "none"

\* The rollback begins at the first change.
FromFirst == Reached \in Commit \cup {"cleanup"} => pos = 1

\* The inductive invariant.
IInv == TypeOK /\ Dead /\ FromFirst /\ \A i \in Changes : Phases(i)

-----------------------------------------------------------------------------
\* The temp files under preparation are finite in number.
LEMMA BusyFinite == IsFiniteSet(Busy) /\ Cardinality(Busy) \in Nat
<1>1. IsFiniteSet(Changes)
  BY PatchAssumption, FS_Interval DEF Changes
<1>2. IsFiniteSet(Busy)
  BY <1>1, FS_Subset DEF Busy
<1> QED
  BY <1>2, FS_CardinalityType

\* A worker that begins adds at most one change to those in preparation.
LEMMA BusyGrows ==
  ASSUME TypeOK, NEW i \in Changes, BeginTemp(i)
  PROVE  Cardinality(Busy') \in 0 .. Workers
<1>1. Busy' \subseteq Busy \cup {i}
  BY DEF BeginTemp, Busy, TypeOK
<1>2. IsFiniteSet(Busy \cup {i}) /\ Cardinality(Busy \cup {i}) <= Cardinality(Busy) + 1
  BY BusyFinite, FS_AddElement
<1>3. Cardinality(Busy') <= Cardinality(Busy \cup {i}) /\ Cardinality(Busy') \in Nat
  BY <1>1, <1>2, FS_Subset, FS_CardinalityType
<1>4. Cardinality(Busy \cup {i}) \in Nat /\ Cardinality(Busy) < Workers
  BY <1>2, FS_CardinalityType DEF BeginTemp
<1> QED
  BY <1>2, <1>3, <1>4, BusyFinite, PatchAssumption

\* A worker that ends leaves as many or fewer.
LEMMA BusyShrinks ==
  ASSUME TypeOK, NEW i \in Changes, EndTemp(i)
  PROVE  Cardinality(Busy') <= Cardinality(Busy) /\ Cardinality(Busy') \in Nat
<1>1. Busy' \subseteq Busy
  BY DEF EndTemp, Busy, TypeOK
<1> QED
  BY <1>1, BusyFinite, FS_Subset, FS_CardinalityType

LEMMA InitTypeOK == Init => TypeOK
<1> SUFFICES ASSUME Init PROVE TypeOK
  OBVIOUS
<1>1. Busy = {}
  BY DEF Init, Busy
<1>2. Cardinality(Busy) = 0
  BY <1>1, FS_EmptySet
<1> QED
  BY <1>2, PatchAssumption DEF Init, TypeOK, Kinds, Content, Original, Commit

LEMMA NextTypeOK == TypeOK /\ Dead /\ [Next]_patchVars => TypeOK'
<1> SUFFICES ASSUME TypeOK, Dead, [Next]_patchVars PROVE TypeOK'
  OBVIOUS
<1> DEFINE Bound == IF phase = "prepare" \/ crash = "prepare" THEN Workers ELSE 0
<1>b. Cardinality(Busy) \in 0 .. Bound
  BY BusyFinite DEF TypeOK
<1> DEFINE Files == /\ kind \in [Changes -> Kinds]
                    /\ src \in [Changes -> Content] /\ dst \in [Changes -> Content]
                    /\ temp \in [Changes -> {"none", "partial", "whole"}]
                    /\ prep \in [Changes -> {"pending", "busy", "ok", "failed"}]
                    /\ phase \in Commit \cup Rollback \cup Ends
                    /\ pos \in 1 .. N + 1
                    /\ crash \in {"none"} \cup Commit \cup Rollback
<1>f. Files
  BY DEF TypeOK
<1>k. ASSUME Files', Cardinality(Busy)' <= Bound' PROVE TypeOK'
  BY <1>k DEF TypeOK
<1>1. ASSUME NEW i \in Changes, BeginTemp(i) PROVE TypeOK'
  <2>1. Files'
    BY <1>f, <1>1 DEF BeginTemp
  <2> QED
    BY <1>1, <1>k, <2>1, BusyGrows DEF BeginTemp
<1>2. ASSUME NEW i \in Changes, EndTemp(i) PROVE TypeOK'
  <2>1. Files'
    BY <1>f, <1>2 DEF EndTemp
  <2> QED
    BY <1>2, <1>b, <1>k, <2>1, BusyShrinks, PatchAssumption DEF EndTemp
<1>3. CASE EndPrepare
  <2>1. Files'
    BY <1>f, <1>3 DEF EndPrepare, Commit, Rollback
  <2>2. Busy' = {}
    BY <1>3 DEF EndPrepare, Prepared, Busy
  <2> QED
    BY <1>k, <2>1, <2>2, FS_EmptySet, PatchAssumption
<1>p. ASSUME prep' = prep, crash' = crash, phase = "prepare" => phase' = "prepare", Files' PROVE TypeOK'
  <2>1. Busy' = Busy
    BY <1>p DEF Busy
  <2> QED
    BY <1>b, <1>k, <1>p, <2>1, PatchAssumption
<1>4. ASSUME NEW i \in Changes, Rename(i) PROVE TypeOK'
  <2>1. Files'
    BY <1>f, <1>4 DEF Rename, SetTarget, Content
  <2> QED
    BY <1>4, <1>p, <2>1 DEF Rename
<1>5. ASSUME NEW i \in Changes, Unlink(i) PROVE TypeOK'
  <2>1. Files'
    BY <1>f, <1>5 DEF Unlink, Content
  <2> QED
    BY <1>5, <1>p, <2>1 DEF Unlink
<1>6. ASSUME NEW i \in Changes, RestoreBegin(i) PROVE TypeOK'
  <2>1. Files'
    BY <1>f, <1>6 DEF RestoreBegin, Content
  <2> QED
    BY <1>6, <1>p, <2>1 DEF RestoreBegin
<1>7. ASSUME NEW i \in Changes, RestoreEnd(i) PROVE TypeOK'
  <2>1. Files'
    BY <1>f, <1>7, PatchAssumption DEF RestoreEnd, Content, Original, Changes
  <2> QED
    BY <1>7, <1>p, <2>1 DEF RestoreEnd
<1>8. ASSUME NEW i \in Changes, RestoreFails(i) PROVE TypeOK'
  <2>1. Files'
    BY <1>f, <1>8 DEF RestoreFails, Content, Ends
  <2> QED
    BY <1>8, <1>p, <2>1 DEF RestoreFails
<1>9. CASE RenameFails \/ EndRename \/ UnlinkFails \/ Succeed \/ EndRestore
  <2>1. Files'
    BY <1>f, <1>9 DEF RenameFails, EndRename, UnlinkFails, Succeed, EndRestore, Fail, Commit, Rollback, Ends
  <2> QED
    BY <1>9, <1>p, <2>1 DEF RenameFails, EndRename, UnlinkFails, Succeed, EndRestore, Fail
<1>10. CASE Cleanup
  <2>1. temp' \in [Changes -> {"none", "partial", "whole"}]
    BY <1>f, <1>10 DEF Cleanup
  <2>2. Files'
    BY <1>f, <1>10, <2>1 DEF Cleanup, Rollback
  <2> QED
    BY <1>10, <1>p, <2>2 DEF Cleanup
<1>11. CASE Crash
  <2>1. Files'
    BY <1>f, <1>11 DEF Crash, Ends
  <2>2. Busy' = Busy /\ (phase = "prepare" => crash' = "prepare")
    BY <1>11 DEF Crash, Busy
  <2>3. crash = "none"
    BY <1>11 DEF Crash, Dead, Ends
  <2> QED
    BY <1>b, <1>k, <2>1, <2>2, <2>3, PatchAssumption
<1>12. CASE UNCHANGED patchVars
  BY <1>f, <1>12, <1>p DEF patchVars
<1> QED
  BY <1>1, <1>2, <1>3, <1>4, <1>5, <1>6, <1>7, <1>8, <1>9, <1>10, <1>11, <1>12 DEF Next

LEMMA NextDead == TypeOK /\ Dead /\ [Next]_patchVars => Dead'
  BY DEF TypeOK, Dead, Next, patchVars, BeginTemp, EndTemp, EndPrepare, Fail, Rename, RenameFails, EndRename,
         Unlink, UnlinkFails, Succeed, Cleanup, RestoreBegin, RestoreEnd, RestoreFails, EndRestore, Crash,
         Commit, Rollback, Ends

\* ApplyPatch is type correct; in particular no temp file is still being written when
\* the first one is renamed.
THEOREM TypeCorrect == Spec => []TypeOK
<1>1. Init => Dead
  BY DEF Init, Dead
<1> QED
  BY <1>1, InitTypeOK, NextTypeOK, NextDead, PTL DEF Spec

-----------------------------------------------------------------------------
LEMMA InitIInv == Init => IInv
<1> SUFFICES ASSUME Init PROVE IInv
  OBVIOUS
<1>1. TypeOK /\ Dead /\ FromFirst
  BY InitTypeOK DEF Init, Dead, FromFirst
<1>2. ASSUME NEW i \in Changes PROVE Phases(i)
  BY DEF Init, Phases, Reached, PrepareInv, Untouched
<1> QED
  BY <1>1, <1>2 DEF IInv

\* A crash leaves every file, and the stage, as they are.
LEMMA SameStage ==
  ASSUME UNCHANGED <<kind, src, dst, temp, prep, pos>>, Reached' = Reached,
         NEW i \in Changes, Phases(i)
  PROVE  Phases(i)'
  BY DEF Phases, PrepareInv, RenameInv, UnlinkInv, RestoreInv, Whole, DstWhole, InPlace, Applied,
         Untouched, Original

\* While the plan is carried out every file is whole.
LEMMA CommitIsWhole ==
  ASSUME TypeOK, Reached \in Commit, NEW i \in Changes, Phases(i)
  PROVE  Whole(i)
  BY DEF Phases, PrepareInv, RenameInv, UnlinkInv, Whole, DstWhole, InPlace, Applied, Untouched,
         Original, Commit, TypeOK, Kinds

LEMMA NextPhases ==
  ASSUME TypeOK, Dead, FromFirst, \A i \in Changes : Phases(i), Next, NEW i \in Changes
  PROVE  Phases(i)'
<1> USE DEF Reached
<1>d. phase \notin Ends => Reached = phase
  BY DEF Ends
<1>i. Phases(i)
  OBVIOUS
<1> USE DEF Phases, TypeOK, Kinds, Commit, Rollback, Ends
<1>1. ASSUME NEW j \in Changes, BeginTemp(j) PROVE Phases(i)'
  <2>1. PrepareInv(i) /\ phase' = "prepare" /\ UNCHANGED <<kind, src, dst>>
    BY <1>1, <1>i DEF BeginTemp
  <2>2. CASE i = j
    <3>1. temp[i] = "none"
      BY <1>1, <2>1, <2>2 DEF BeginTemp, First, PrepareInv
    <3> QED
      BY <1>1, <2>1, <2>2, <3>1 DEF BeginTemp, PrepareInv, Untouched, Original
  <2>3. CASE i # j
    BY <1>1, <2>1, <2>3 DEF BeginTemp, PrepareInv, Untouched, Original
  <2> QED
    BY <2>2, <2>3
<1>2. ASSUME NEW j \in Changes, EndTemp(j) PROVE Phases(i)'
  BY <1>2, <1>i DEF EndTemp, PrepareInv, Untouched, Original
<1>3. CASE EndPrepare
  <2>1. PrepareInv(i) /\ UNCHANGED <<kind, src, dst, temp, prep, pos, crash>>
    BY <1>3, <1>i DEF EndPrepare
  <2>2. CASE phase' = "rename"
    <3>1. prep[i] = "ok"
      BY <1>3, <2>2 DEF EndPrepare, Prepared
    <3> QED
      BY <2>1, <2>2, <3>1 DEF PrepareInv, RenameInv, InPlace, Untouched, Original
  <2>3. CASE phase' = "cleanup"
    BY <2>1, <2>3 DEF PrepareInv, Whole, DstWhole, Untouched, Original
  <2> QED
    BY <1>3, <2>2, <2>3 DEF EndPrepare
<1>4. ASSUME NEW j \in Changes, Rename(j) PROVE Phases(i)'
  <2>1. RenameInv(i) /\ phase = "rename" /\ phase' = "rename"
    BY <1>4, <1>i DEF Rename
  <2>2. CASE i = j
    <3>1. temp[i] = "whole" /\ Untouched(i) /\ kind[i] # "delete"
      BY <1>4, <2>1, <2>2 DEF Rename, First, RenameInv
    <3> QED
      BY <1>4, <2>1, <2>2, <3>1 DEF Rename, SetTarget, RenameInv, InPlace, Untouched, Original
  <2>3. CASE i # j
    BY <1>4, <2>1, <2>3 DEF Rename, SetTarget, RenameInv, InPlace, Untouched, Original
  <2> QED
    BY <2>2, <2>3
<1>5. CASE EndRename
  BY <1>5, <1>i DEF EndRename, RenamesOver, RenameInv, UnlinkInv, InPlace, Applied
<1>6. ASSUME NEW j \in Changes, Unlink(j) PROVE Phases(i)'
  BY <1>6, <1>i DEF Unlink, First, ToUnlink, UnlinkInv, InPlace, Applied
<1>7. CASE Succeed
  BY <1>7, <1>i DEF Succeed, ToUnlink, UnlinkInv, InPlace, Applied
<1>8. CASE RenameFails \/ UnlinkFails
  <2>1. Whole(i)
    BY <1>8, <1>i, CommitIsWhole DEF RenameFails, UnlinkFails
  <2> QED
    BY <1>8, <2>1 DEF RenameFails, UnlinkFails, Fail, Whole, DstWhole, Original
<1>9. CASE Cleanup
  <2>1. Whole(i) /\ pos = 1
    BY <1>9, <1>i DEF Cleanup, FromFirst
  <2> QED
    BY <1>9, <2>1, PatchAssumption DEF Cleanup, RestoreInv, Whole, DstWhole, Original, Changes
<1>10. ASSUME NEW j \in Changes, RestoreBegin(j) PROVE Phases(i)'
  BY <1>10, <1>i DEF RestoreBegin, RestoreInv, Whole, DstWhole, Untouched, Original
<1>11. ASSUME NEW j \in Changes, RestoreEnd(j) PROVE Phases(i)'
  <2>1. RestoreInv(i) /\ phase' = "restore" /\ pos' = pos + 1 /\ pos = j
    BY <1>11, <1>i DEF RestoreEnd
  <2>2. CASE i = j
    BY <1>11, <2>1, <2>2, PatchAssumption DEF RestoreEnd, RestoreInv, Whole, DstWhole, Untouched, Original, Changes
  <2>3. CASE i # j
    <3>1. UNCHANGED <<src[i], dst[i], kind>>
      BY <1>11, <2>3 DEF RestoreEnd
    <3> QED
      BY <2>1, <2>3, <3>1, PatchAssumption DEF RestoreInv, Whole, DstWhole, Untouched, Original, Changes
  <2> QED
    BY <2>2, <2>3
<1>12. ASSUME NEW j \in Changes, RestoreFails(j) PROVE Phases(i)'
  BY <1>12, <1>i DEF RestoreFails, RestoreInv, Whole, DstWhole, Untouched, Original
<1>13. CASE EndRestore
  BY <1>13, <1>i, PatchAssumption DEF EndRestore, RestoreInv, Untouched, Original, Changes
<1>14. CASE Crash
  BY <1>14, <1>i, SameStage DEF Crash
<1> QED
  BY <1>1, <1>2, <1>3, <1>4, <1>5, <1>6, <1>7, <1>8, <1>9, <1>10, <1>11, <1>12, <1>13, <1>14 DEF Next

LEMMA NextIInv == IInv /\ [Next]_patchVars => IInv'
<1> SUFFICES ASSUME IInv, [Next]_patchVars PROVE IInv'
  OBVIOUS
<1>1. TypeOK' /\ Dead'
  BY NextTypeOK, NextDead DEF IInv
<1>2. FromFirst'
  BY DEF IInv, FromFirst, Dead, Reached, Next, patchVars, BeginTemp, EndTemp, EndPrepare, Fail, Rename,
         RenameFails, EndRename, Unlink, UnlinkFails, Succeed, Cleanup, RestoreBegin, RestoreEnd,
         RestoreFails, EndRestore, Crash, Commit, Rollback, Ends
<1>3. ASSUME NEW i \in Changes PROVE Phases(i)'
  <2>1. CASE Next
    BY <2>1, NextPhases DEF IInv
  <2>2. CASE UNCHANGED patchVars
    BY <2>2, SameStage DEF IInv, patchVars, Reached
  <2> QED
    BY <2>1, <2>2
<1>4. Changes' = Changes
  BY DEF Changes
<1> QED
  BY <1>1, <1>2, <1>3, <1>4 DEF IInv

LEMMA Invariance == Spec => []IInv
  BY InitIInv, NextIInv, PTL DEF Spec

\* The answer is true: a success has applied the whole plan, a failure that was rolled
\* back has changed nothing.
THEOREM TrueAnswer == Spec => []AnswerIsTrue
<1>1. IInv => AnswerIsTrue
  BY DEF IInv, Phases, Reached, AnswerIsTrue
<1> QED
  BY Invariance, <1>1, PTL

\* A crash of the commit or of the rollback loses no text.
THEOREM NothingLost == Spec => []CrashLosesNothing
<1>1. IInv => TornOnlyWhileRestored
  <2> SUFFICES ASSUME IInv, NEW i \in Changes
               PROVE  /\ dst[i] # "torn"
                      /\ src[i] = "torn" => i = pos /\ (phase \in {"restore", "stuck"} \/ crash = "restore")
                      /\ kind[i] = "update" => src[i] # "none"
    BY DEF TornOnlyWhileRestored
  <2>1. Reached \in {"restore", "stuck"} => phase \in {"restore", "stuck"} \/ crash = "restore"
    BY DEF Reached, IInv, TypeOK, Commit, Rollback
  <2>2. CASE Reached \in {"restore", "stuck"}
    BY <2>1, <2>2 DEF IInv, Phases, RestoreInv, Whole, DstWhole, Untouched, Original
  <2>3. CASE Reached \notin {"restore", "stuck"}
    <3>1. Whole(i) \/ Applied(i) \/ Untouched(i)
      BY <2>3, CommitIsWhole DEF IInv, Phases, Reached, TypeOK, Dead, Commit, Rollback, Ends
    <3> QED
      BY <3>1 DEF Whole, DstWhole, Applied, Untouched, Original
  <2> QED
    BY <2>2, <2>3
<1>2. IInv => OriginalsLast
  <2> SUFFICES ASSUME IInv, phase \in Commit \/ crash \in Commit,
                      NEW i \in Changes, kind[i] # "add", src[i] = "none", NEW j \in Changes
               PROVE  /\ kind[j] \in {"add", "update"} => src[j] = "new"
                      /\ kind[j] = "move" => dst[j] = "new"
    BY DEF OriginalsLast
  <2>1. Reached \in Commit
    BY DEF IInv, Dead, Reached, Commit
  <2>2. Reached = "unlink"
    BY <2>1 DEF IInv, Phases, PrepareInv, RenameInv, InPlace, Untouched, Original, Commit
  <2> QED
    BY <2>2 DEF IInv, Phases, UnlinkInv, InPlace, Applied
<1> QED
  BY Invariance, <1>1, <1>2, PTL DEF CrashLosesNothing

-----------------------------------------------------------------------------
(* From the plan to the commit. *)

Snapshot(p) == IF p = NoPath \/ files[p] = NoFile THEN "none" ELSE "old"

\* The commit is called with the plan, and the files are as the plan found them.
CommitBegins ==
  /\ N = Len(plan)
  /\ kind = [i \in Changes |-> plan[i].kind]
  /\ src = [i \in Changes |-> Snapshot(plan[i].path)]
  /\ dst = [i \in Changes |-> Snapshot(plan[i].to)]
  /\ temp = [i \in Changes |-> "none"] /\ prep = [i \in Changes |-> "pending"]
  /\ phase = "prepare" /\ pos = 1 /\ crash = "none"

\* What ApplyPatch takes for granted is so: every plan the parser and the checks let
\* through begins the commit in one of its initial states, change i alone owns its
\* paths, and it has a destination exactly when it is a move.
THEOREM PlanStartsCommit ==
  PlanSpec => [](stage = "planned" /\ CommitBegins =>
                   /\ Init
                   /\ \A i \in Changes : plan[i].to # NoPath <=> kind[i] = "move"
                   /\ \A i, j \in Changes : i # j => Owned(plan[i]) \cap Owned(plan[j]) = {})
<1> DEFINE Starts ==
      /\ Init
      /\ \A i \in Changes : plan[i].to # NoPath <=> kind[i] = "move"
      /\ \A i, j \in Changes : i # j => Owned(plan[i]) \cap Owned(plan[j]) = {}
<1>1. ASSUME PlanIInv, stage = "planned", CommitBegins PROVE Starts
  <2>1. /\ Changes = 1 .. Len(plan) /\ kind = [i \in Changes |-> plan[i].kind]
        /\ \A i, j \in Changes : i # j => Owned(plan[i]) \cap Owned(plan[j]) = {}
    BY <1>1 DEF PlanIInv, SoundInv, PlanIsSound, CommitBegins, Changes
  <2>2. \A i \in Changes : Right(plan[i])
    BY <1>1, <2>1 DEF PlanIInv, GrowsInv
  <2>3. \A i \in Changes : /\ files[plan[i].path] = NoFile <=> plan[i].kind = "add"
                           /\ plan[i].to # NoPath => files[plan[i].to] = NoFile
    BY <1>1, <2>1 DEF PlanIInv, SoundInv, PlanIsSound, Elements
  <2>4. \A i \in Changes : plan[i].path # NoPath
    BY <2>2, PlanAssumption DEF Right
  <2>5. kind \in [Changes -> Kinds]
    BY <2>1, <2>2 DEF Right
  <2>6. src = [i \in Changes |-> Original(i)]
    <3>1. \A i \in Changes : Snapshot(plan[i].path) = Original(i)
      BY <2>1, <2>3, <2>4 DEF Snapshot, Original
    <3> QED BY <1>1, <3>1 DEF CommitBegins
  <2>7. dst = [i \in Changes |-> "none"]
    <3>1. \A i \in Changes : Snapshot(plan[i].to) = "none"
      BY <2>3 DEF Snapshot
    <3> QED BY <1>1, <3>1 DEF CommitBegins
  <2>8. Init
    BY <1>1, <2>5, <2>6, <2>7 DEF CommitBegins, Init
  <2> QED BY <2>1, <2>2, <2>8 DEF Right
<1>2. PlanIInv /\ SaidInv => (stage = "planned" /\ CommitBegins => Starts)
  BY <1>1
<1> QED BY <1>2, PlanInductive, PTL
=============================================================================
