----------------------------- MODULE TextProofs -----------------------------
(***************************************************************************)
(* Lemmas about the operators of TextMatch, for texts of any length: what  *)
(* is found in a text, and what a replacement leaves alone.  The recursion *)
(* and the sequences of the proofs about patches rest on are here too.     *)
(***************************************************************************)
EXTENDS TextMatch, FiniteSetTheorems, SequenceTheorems, WellFoundedInduction, TLAPS

-----------------------------------------------------------------------------
(* Recursion over the naturals. *)

\* Every set of naturals that is not empty has a least member.
LEMMA LeastNat ==
  ASSUME NEW T, T \subseteq Nat, T # {}
  PROVE  \E x \in T : \A y \in T : x <= y
<1> DEFINE R == OpToRel(<, Nat)
<1>1. IsWellFoundedOn(R, Nat)
  BY NatLessThanWellFounded
<1>2. PICK x \in T : \A y \in T : ~ (<<y, x>> \in R)
  BY <1>1, WFMin
<1>3. ASSUME NEW y \in T PROVE x <= y
  <2>1. ~ (<<y, x>> \in R)
    BY <1>2
  <2>2. ~ (y < x)
    BY <2>1 DEF OpToRel
  <2> QED BY <2>2
<1> QED BY <1>3

\* Induction, for a set of naturals.
LEMMA NatSet ==
  ASSUME NEW S, 0 \in S, \A n \in Nat : n \in S => n + 1 \in S
  PROVE  Nat \subseteq S
<1> DEFINE T == Nat \ S
<1> SUFFICES ASSUME T # {} PROVE FALSE
  OBVIOUS
<1>1. PICK x \in T : \A y \in T : x <= y
  BY LeastNat
<1>2. x # 0 /\ x \in Nat
  OBVIOUS
<1>3. x - 1 \in Nat /\ x - 1 \in S
  BY <1>1, <1>2
<1>4. (x - 1) + 1 = x
  BY <1>2
<1> QED BY <1>3, <1>4

\* f takes n steps from a, each of them inside S.
Steps(step, n, S) == step \in [1 .. n -> [S -> S]]
Walks(f, a, step, n, S) ==
  f \in [0 .. n -> S] /\ f[0] = a /\ \A i \in 1 .. n : f[i] = step[i][f[i - 1]]

\* What a recursive function computes is there, when each of its steps stays in S.
LEMMA RecursionExists ==
  ASSUME NEW n \in Nat, NEW S, NEW a \in S, NEW step, Steps(step, n, S)
  PROVE  \E f : Walks(f, a, step, n, S)
<1> USE DEF Steps, Walks
<1> DEFINE Computes(k) == \E f \in [0 .. k -> S] : f[0] = a /\ \A i \in 1 .. k : f[i] = step[i][f[i - 1]]
           Good == {k \in Nat : k <= n => Computes(k)}
<1>1. 0 \in Good
  <2> DEFINE f == [i \in 0 .. 0 |-> a]
  <2>1. f \in [0 .. 0 -> S] /\ f[0] = a /\ \A i \in 1 .. 0 : f[i] = step[i][f[i - 1]]
    OBVIOUS
  <2> QED BY <2>1
<1>2. ASSUME NEW k \in Nat, k \in Good PROVE k + 1 \in Good
  <2> SUFFICES ASSUME k + 1 <= n PROVE Computes(k + 1)
    OBVIOUS
  <2>1. PICK f \in [0 .. k -> S] : f[0] = a /\ \A i \in 1 .. k : f[i] = step[i][f[i - 1]]
    BY <1>2
  <2> DEFINE g == [i \in 0 .. k + 1 |-> IF i = k + 1 THEN step[k + 1][f[k]] ELSE f[i]]
  <2>2. k + 1 \in 1 .. n /\ step[k + 1] \in [S -> S] /\ f[k] \in S
    OBVIOUS
  <2>3. g \in [0 .. k + 1 -> S]
    BY <2>2
  <2>4. g[0] = a
    BY <2>1
  <2>5. ASSUME NEW i \in 1 .. k + 1 PROVE g[i] = step[i][g[i - 1]]
    <3>1. CASE i = k + 1
      <4>1. i - 1 = k /\ k \in 0 .. k + 1 /\ k # k + 1
        BY <3>1
      <4> QED BY <3>1, <4>1
    <3>2. CASE i # k + 1
      <4>1. i \in 1 .. k /\ i - 1 \in 0 .. k + 1 /\ i - 1 # k + 1 /\ i \in 0 .. k + 1
        BY <3>2
      <4> QED BY <2>1, <3>2, <4>1
    <3> QED BY <3>1, <3>2
  <2> HIDE DEF g
  <2> QED BY <2>3, <2>4, <2>5
<1> HIDE DEF Good
<1>3. Nat \subseteq Good
  BY <1>1, <1>2, NatSet
<1>4. n \in Good
  BY <1>3
<1> QED BY <1>4 DEF Good

\* What a recursive function computes stays in S, when each of its steps does.
LEMMA RecursionStays ==
  ASSUME NEW n \in Nat, NEW S, NEW g, g[0] \in S,
         \A i \in 1 .. n : g[i - 1] \in S => g[i] \in S
  PROVE  \A i \in 0 .. n : g[i] \in S
<1> DEFINE Good == {k \in Nat : k <= n => g[k] \in S}
<1>1. 0 \in Good
  OBVIOUS
<1>2. ASSUME NEW k \in Nat, k \in Good PROVE k + 1 \in Good
  <2> SUFFICES ASSUME k + 1 <= n PROVE g[k + 1] \in S
    OBVIOUS
  <2>1. g[k] \in S /\ k + 1 \in 1 .. n /\ (k + 1) - 1 = k
    BY <1>2
  <2> QED BY <2>1
<1> HIDE DEF Good
<1>3. Nat \subseteq Good
  BY <1>1, <1>2, NatSet
<1> QED BY <1>3 DEF Good

\* Two functions that begin alike and take the same steps are the same.
LEMMA RecursionUnique ==
  ASSUME NEW n \in Nat, NEW f, NEW g, f[0] = g[0],
         \A i \in 1 .. n : f[i - 1] = g[i - 1] => f[i] = g[i]
  PROVE  f[n] = g[n]
<1> DEFINE Good == {k \in Nat : k <= n => f[k] = g[k]}
<1>1. 0 \in Good
  OBVIOUS
<1>2. ASSUME NEW k \in Nat, k \in Good PROVE k + 1 \in Good
  <2> SUFFICES ASSUME k + 1 <= n PROVE f[k + 1] = g[k + 1]
    OBVIOUS
  <2>1. f[k] = g[k] /\ k + 1 \in 1 .. n /\ (k + 1) - 1 = k
    BY <1>2
  <2> QED BY <2>1
<1> HIDE DEF Good
<1>3. Nat \subseteq Good
  BY <1>1, <1>2, NatSet
<1> QED BY <1>3 DEF Good

-----------------------------------------------------------------------------
(* Sequences of any elements. *)

\* The length and the elements of a sequence, and the sequences of at most one.
LEMMA SeqFact ==
  ASSUME NEW S, NEW s \in Seq(S)
  PROVE  /\ Len(s) \in Nat /\ \A i \in 1 .. Len(s) : s[i] \in S
         /\ s # <<>> => Len(s) >= 1
         /\ s # <<>> /\ Len(s) <= 1 => Len(s) = 1 /\ s[1] \in S /\ s = <<s[1]>>
         /\ <<>> \in Seq(S) /\ Len(<<>>) = 0
<1>1. Len(s) \in Nat /\ \A i \in 1 .. Len(s) : s[i] \in S
  BY LenProperties, ElementOfSeq
<1>2. <<>> \in Seq(S) /\ Len(<<>>) = 0 /\ (s # <<>> => Len(s) \in Nat \ {0})
  BY EmptySeq
<1>3. ASSUME Len(s) = 1 PROVE s = <<s[1]>>
  <2>1. <<s[1]>> \in Seq(S) /\ Len(<<s[1]>>) = 1 /\ <<s[1]>>[1] = s[1]
    <3>1. s[1] \in S
      BY <1>1, <1>3
    <3> QED BY <1>2, <3>1, AppendProperties
  <2> QED BY <1>3, <2>1, SeqEqual
<1> QED BY <1>1, <1>2, <1>3

\* A sequence of one element.
LEMMA OneFact ==
  ASSUME NEW S, NEW e \in S
  PROVE  <<e>> \in Seq(S) /\ Len(<<e>>) = 1 /\ <<e>>[1] = e /\ <<e>> # <<>>
BY EmptySeq

\* One element more.
LEMMA AppendFact ==
  ASSUME NEW S, NEW s \in Seq(S), NEW e \in S
  PROVE  /\ Append(s, e) \in Seq(S) /\ Len(Append(s, e)) = Len(s) + 1
         /\ Append(s, e)[Len(s) + 1] = e
         /\ \A i \in 1 .. Len(s) : Append(s, e)[i] = s[i]
         /\ Append(s, e) # <<>> /\ Append(s, e) = s \o <<e>>
BY AppendProperties, AppendIsConcat

\* Two sequences, one behind the other.
LEMMA ConcatFact ==
  ASSUME NEW S, NEW s \in Seq(S), NEW t \in Seq(S)
  PROVE  /\ s \o t \in Seq(S) /\ Len(s \o t) = Len(s) + Len(t)
         /\ \A i \in 1 .. Len(s) : (s \o t)[i] = s[i]
         /\ \A i \in 1 .. Len(t) : (s \o t)[Len(s) + i] = t[i]
         /\ t = <<>> => s \o t = s
         /\ \A e \in S : t = <<e>> => s \o t = Append(s, e)
<1>1. Len(s) \in Nat /\ Len(t) \in Nat
  BY LenProperties
<1>2. /\ s \o t \in Seq(S) /\ Len(s \o t) = Len(s) + Len(t)
      /\ \A i \in 1 .. Len(s) + Len(t) : (s \o t)[i] = IF i <= Len(s) THEN s[i] ELSE t[i - Len(s)]
  BY ConcatProperties
<1>3. ASSUME NEW i \in 1 .. Len(s) PROVE (s \o t)[i] = s[i]
  BY <1>1, <1>2
<1>4. ASSUME NEW i \in 1 .. Len(t) PROVE (s \o t)[Len(s) + i] = t[i]
  <2>1. Len(s) + i \in 1 .. Len(s) + Len(t) /\ ~(Len(s) + i <= Len(s)) /\ (Len(s) + i) - Len(s) = i
    BY <1>1
  <2> QED BY <1>2, <2>1
<1>5. t = <<>> => s \o t = s
  BY ConcatEmptySeq
<1>6. \A e \in S : t = <<e>> => s \o t = Append(s, e)
  BY AppendIsConcat
<1> QED BY <1>2, <1>3, <1>4, <1>5, <1>6

-----------------------------------------------------------------------------
(* Positions that are kept. *)

\* Kept goes through the positions one after the other.
LEMMA KeptIs ==
  ASSUME NEW s, NEW keep, Len(s) \in Nat
  PROVE  \E f \in [0 .. Len(s) -> Seq(keep \cap 1 .. Len(s))] :
           /\ f[0] = <<>>
           /\ \A i \in 1 .. Len(s) : f[i] = IF i \in keep THEN Append(f[i - 1], i) ELSE f[i - 1]
           /\ Kept(s, keep) = f[Len(s)]
<1> DEFINE n == Len(s)
           S == Seq(keep \cap 1 .. Len(s))
           step == [i \in 1 .. n |-> [x \in S |-> IF i \in keep THEN Append(x, i) ELSE x]]
           Keeps(f) == f = [i \in 0 .. n |->
             IF i = 0 THEN <<>> ELSE IF i \in keep THEN Append(f[i - 1], i) ELSE f[i - 1]]
<1>0. ASSUME NEW i \in 1 .. n, NEW x \in S
      PROVE  (IF i \in keep THEN Append(x, i) ELSE x) \in S
  OBVIOUS
<1>1. step \in [1 .. n -> [S -> S]]
  BY <1>0
<1>2. PICK f \in [0 .. n -> S] : f[0] = <<>> /\ \A i \in 1 .. n : f[i] = step[i][f[i - 1]]
  <2>1. n \in Nat /\ <<>> \in S
    OBVIOUS
  <2>2. Steps(step, n, S)
    BY <1>1 DEF Steps
  <2> HIDE DEF step, n, S
  <2>3. PICK f : Walks(f, <<>>, step, n, S)
    BY <2>1, <2>2, RecursionExists
  <2> QED BY <2>3 DEF Walks
<1>3. ASSUME NEW i \in 1 .. n PROVE f[i] = IF i \in keep THEN Append(f[i - 1], i) ELSE f[i - 1]
  <2>1. i - 1 \in 0 .. n
    OBVIOUS
  <2>2. f[i - 1] \in S
    BY <2>1
  <2> HIDE DEF S
  <2> QED BY <1>2, <2>2
<1>4. Keeps(f)
  <2>1. f = [i \in 0 .. n |-> f[i]]
    OBVIOUS
  <2>2. ASSUME NEW i \in 0 .. n
        PROVE  f[i] = IF i = 0 THEN <<>> ELSE IF i \in keep THEN Append(f[i - 1], i) ELSE f[i - 1]
    <3>1. CASE i = 0
      BY <1>2, <3>1
    <3>2. CASE i # 0
      <4>1. i \in 1 .. n
        BY <3>2
      <4> QED BY <1>3, <3>2, <4>1
    <3> QED BY <3>1, <3>2
  <2> QED BY <2>1, <2>2, Zenon
<1> DEFINE g == CHOOSE h : Keeps(h)
<1>5. Keeps(g)
  BY <1>4
<1>6. Kept(s, keep) = g[n]
  BY DEF Kept
<1> HIDE DEF g
<1>7. /\ g[0] = <<>>
      /\ \A i \in 1 .. n : g[i] = IF i \in keep THEN Append(g[i - 1], i) ELSE g[i - 1]
  <2>1. ASSUME NEW i \in 0 .. n
        PROVE  g[i] = IF i = 0 THEN <<>> ELSE IF i \in keep THEN Append(g[i - 1], i) ELSE g[i - 1]
    BY <1>5, Zenon
  <2>2. 0 \in 0 .. n /\ \A i \in 1 .. n : i \in 0 .. n /\ i # 0
    OBVIOUS
  <2> QED BY <2>1, <2>2, Zenon
<1>8. \A i \in 0 .. n : g[i] \in S
  <2>1. g[0] \in S
    BY <1>7
  <2>2. ASSUME NEW i \in 1 .. n, g[i - 1] \in S PROVE g[i] \in S
    BY <1>0, <1>7, <2>2
  <2> HIDE DEF S
  <2> QED BY <2>1, <2>2, RecursionStays
<1>9. g \in [0 .. n -> S]
  BY <1>5, <1>8
<1> QED BY <1>6, <1>7, <1>9

\* at lists the members of keep up to k, in order.
Lists(at, keep, k) ==
  /\ at \in Seq(Nat) /\ \A a \in 1 .. Len(at) : at[a] \in keep /\ at[a] \in 1 .. k
  /\ \A a, b \in 1 .. Len(at) : a < b => at[a] < at[b]
  /\ \A i \in 1 .. k : i \in keep => \E a \in 1 .. Len(at) : at[a] = i

\* One position more.
LEMMA ListsMore ==
  ASSUME NEW at, NEW keep, NEW k \in Nat, Lists(at, keep, k)
  PROVE  Lists(IF k + 1 \in keep THEN Append(at, k + 1) ELSE at, keep, k + 1)
<1>0. at \in Seq(Nat) /\ Len(at) \in Nat
  BY SeqFact DEF Lists
<1>1. CASE k + 1 \notin keep
  BY <1>1 DEF Lists
<1>2. CASE k + 1 \in keep
  <2> DEFINE at2 == Append(at, k + 1)
  <2>1. /\ at2 \in Seq(Nat) /\ Len(at2) = Len(at) + 1 /\ at2[Len(at) + 1] = k + 1
        /\ \A a \in 1 .. Len(at) : at2[a] = at[a]
    BY <1>0, AppendFact
  <2> HIDE DEF at2
  <2>2. ASSUME NEW a \in 1 .. Len(at2) PROVE at2[a] \in keep /\ at2[a] \in 1 .. k + 1
    <3>1. CASE a = Len(at) + 1
      BY <1>2, <2>1, <3>1
    <3>2. CASE a # Len(at) + 1
      <4>1. a \in 1 .. Len(at)
        BY <1>0, <2>1, <3>2
      <4>2. at2[a] = at[a] /\ at[a] \in keep /\ at[a] \in 1 .. k
        BY <2>1, <4>1 DEF Lists
      <4> QED BY <4>2
    <3> QED BY <3>1, <3>2
  <2>3. ASSUME NEW a \in 1 .. Len(at2), NEW b \in 1 .. Len(at2), a < b PROVE at2[a] < at2[b]
    <3>1. a \in 1 .. Len(at)
      BY <1>0, <2>1, <2>3
    <3>2. CASE b = Len(at) + 1
      BY <2>1, <3>1, <3>2 DEF Lists
    <3>3. CASE b # Len(at) + 1
      <4>1. b \in 1 .. Len(at)
        BY <1>0, <2>1, <3>3
      <4> QED BY <2>1, <2>3, <3>1, <4>1 DEF Lists
    <3> QED BY <3>2, <3>3
  <2>4. ASSUME NEW i \in 1 .. k + 1, i \in keep PROVE \E a \in 1 .. Len(at2) : at2[a] = i
    <3>1. CASE i = k + 1
      <4>1. Len(at) + 1 \in 1 .. Len(at2)
        BY <1>0, <2>1
      <4> QED BY <2>1, <3>1, <4>1
    <3>2. CASE i # k + 1
      <4>1. i \in 1 .. k
        BY <3>2
      <4>2. PICK a \in 1 .. Len(at) : at[a] = i
        BY <2>4, <4>1 DEF Lists
      <4>3. a \in 1 .. Len(at2)
        BY <1>0, <2>1
      <4> QED BY <2>1, <4>2, <4>3
    <3> QED BY <3>1, <3>2
  <2>5. Lists(at2, keep, k + 1)
    BY <2>1, <2>2, <2>3, <2>4 DEF Lists
  <2> QED BY <1>2, <2>5, Zenon DEF at2
<1> QED BY <1>1, <1>2

\* What Kept returns lists what is to be kept.
LEMMA KeptLists ==
  ASSUME NEW s, NEW keep, Len(s) \in Nat
  PROVE  Lists(Kept(s, keep), keep, Len(s))
<1>1. PICK f \in [0 .. Len(s) -> Seq(keep \cap 1 .. Len(s))] :
        /\ f[0] = <<>>
        /\ \A i \in 1 .. Len(s) : f[i] = IF i \in keep THEN Append(f[i - 1], i) ELSE f[i - 1]
        /\ Kept(s, keep) = f[Len(s)]
  BY KeptIs
<1> DEFINE Good == {k \in Nat : k <= Len(s) => Lists(f[k], keep, k)}
<1>2. 0 \in Good
  <2>1. <<>> \in Seq(Nat) /\ Len(<<>>) = 0
    BY EmptySeq
  <2>2. Lists(<<>>, keep, 0)
    BY <2>1 DEF Lists
  <2> QED BY <1>1, <2>2
<1>3. ASSUME NEW k \in Nat, k \in Good PROVE k + 1 \in Good
  <2> SUFFICES ASSUME k + 1 <= Len(s) PROVE Lists(f[k + 1], keep, k + 1)
    OBVIOUS
  <2>1. Lists(f[k], keep, k)
    BY <1>3
  <2>2. k + 1 \in 1 .. Len(s) /\ (k + 1) - 1 = k
    OBVIOUS
  <2>3. f[k + 1] = IF k + 1 \in keep THEN Append(f[k], k + 1) ELSE f[k]
    BY <1>1, <2>2
  <2> QED BY <2>1, <2>3, ListsMore
<1> HIDE DEF Good
<1>4. Nat \subseteq Good
  BY <1>2, <1>3, NatSet
<1> QED BY <1>1, <1>4 DEF Good

\* Of two lists of the same positions, the one agrees with the other as far as it goes.
LEMMA ListsAgree ==
  ASSUME NEW keep, NEW k \in Nat, NEW a, NEW b, Lists(a, keep, k), Lists(b, keep, k)
  PROVE  \A i \in 1 .. Len(a) : i \in 1 .. Len(b) /\ a[i] = b[i]
<1>0. /\ Len(a) \in Nat /\ Len(b) \in Nat
      /\ \A i \in 1 .. Len(a) : a[i] \in Nat /\ a[i] \in keep /\ a[i] \in 1 .. k
      /\ \A i \in 1 .. Len(b) : b[i] \in Nat /\ b[i] \in keep /\ b[i] \in 1 .. k
  BY SeqFact DEF Lists
<1> DEFINE Good == {n \in Nat : \A i \in 1 .. Len(a) : i <= n => i \in 1 .. Len(b) /\ a[i] = b[i]}
<1>1. 0 \in Good
  OBVIOUS
<1>2. ASSUME NEW n \in Nat, n \in Good PROVE n + 1 \in Good
  <2> SUFFICES ASSUME n + 1 \in 1 .. Len(a) PROVE n + 1 \in 1 .. Len(b) /\ a[n + 1] = b[n + 1]
    BY <1>2
  <2>1. \A i \in 1 .. n : i \in 1 .. Len(a) /\ i \in 1 .. Len(b) /\ a[i] = b[i]
    BY <1>0, <1>2
  <2>2. PICK j \in 1 .. Len(b) : b[j] = a[n + 1]
    BY <1>0 DEF Lists
  <2>3. j >= n + 1
    <3> SUFFICES ASSUME j <= n PROVE FALSE
      BY <1>0
    <3>1. j \in 1 .. n /\ j < n + 1
      OBVIOUS
    <3>2. a[j] < a[n + 1]
      BY <2>1, <3>1 DEF Lists
    <3> QED BY <1>0, <2>1, <2>2, <3>1, <3>2
  <2>4. n + 1 \in 1 .. Len(b)
    BY <1>0, <2>3
  <2>5. b[n + 1] <= a[n + 1]
    <3>1. CASE j = n + 1
      BY <1>0, <2>2, <3>1
    <3>2. CASE j # n + 1
      BY <1>0, <2>2, <2>3, <2>4, <3>2 DEF Lists
    <3> QED BY <3>1, <3>2
  <2>6. PICK i \in 1 .. Len(a) : a[i] = b[n + 1]
    BY <1>0, <2>4 DEF Lists
  <2>7. i >= n + 1
    <3> SUFFICES ASSUME i <= n PROVE FALSE
      BY <1>0
    <3>1. i \in 1 .. n /\ i < n + 1
      OBVIOUS
    <3>2. b[i] < b[n + 1]
      BY <2>1, <2>4, <3>1 DEF Lists
    <3> QED BY <1>0, <2>1, <2>6, <3>1, <3>2
  <2>8. a[n + 1] <= b[n + 1]
    <3>1. CASE i = n + 1
      BY <1>0, <2>6, <3>1
    <3>2. CASE i # n + 1
      <4>1. n + 1 < i /\ n + 1 \in 1 .. Len(a)
        BY <1>0, <2>7, <3>2
      <4>2. a[n + 1] < a[i]
        BY <4>1 DEF Lists
      <4> QED BY <1>0, <2>6, <4>1, <4>2
    <3> QED BY <3>1, <3>2
  <2> QED BY <1>0, <2>4, <2>5, <2>8
<1> HIDE DEF Good
<1>3. Nat \subseteq Good
  BY <1>1, <1>2, NatSet
<1>4. Len(a) \in Good
  BY <1>0, <1>3
<1> QED BY <1>0, <1>4 DEF Good

\* Positions can be listed in one way only.
LEMMA ListsUnique ==
  ASSUME NEW keep, NEW k \in Nat, NEW a, NEW b, Lists(a, keep, k), Lists(b, keep, k)
  PROVE  a = b
<1>0. a \in Seq(Nat) /\ b \in Seq(Nat) /\ Len(a) \in Nat /\ Len(b) \in Nat
  BY SeqFact DEF Lists
<1>1. /\ \A i \in 1 .. Len(a) : i \in 1 .. Len(b) /\ a[i] = b[i]
      /\ \A i \in 1 .. Len(b) : i \in 1 .. Len(a)
  BY ListsAgree
<1>2. Len(a) = Len(b)
  <2>1. Len(a) <= Len(b)
    BY <1>0, <1>1
  <2>2. Len(b) <= Len(a)
    BY <1>0, <1>1
  <2> QED BY <1>0, <2>1, <2>2
<1> QED BY <1>0, <1>1, <1>2, SeqEqual

\* x of the kept positions are in front of the offset c.
Splits(at, c, x) == x \in 0 .. Len(at) /\ \A i \in 1 .. Len(at) : at[i] <= c <=> i <= x

\* Every offset has some of the kept positions in front of it.
LEMMA SplitsSomewhere ==
  ASSUME NEW at \in Seq(Nat), NEW c \in Nat,
         \A i, j \in 1 .. Len(at) : i < j => at[i] < at[j]
  PROVE  \E x : Splits(at, c, x)
<1>0. Len(at) \in Nat /\ \A i \in 1 .. Len(at) : at[i] \in Nat
  BY SeqFact
<1> DEFINE T == {y \in 1 .. Len(at) : ~(at[y] <= c)}
<1>1. CASE T = {}
  <2>1. \A i \in 1 .. Len(at) : at[i] <= c /\ i <= Len(at)
    BY <1>0, <1>1
  <2>2. Len(at) \in 0 .. Len(at)
    BY <1>0
  <2>3. Splits(at, c, Len(at))
    BY <2>1, <2>2 DEF Splits
  <2> QED BY <2>3
<1>2. CASE T # {}
  <2>1. T \subseteq Nat
    BY <1>0
  <2>2. PICK y \in T : \A z \in T : y <= z
    BY <1>2, <2>1, LeastNat
  <2>3. y \in 1 .. Len(at) /\ ~(at[y] <= c) /\ y - 1 \in 0 .. Len(at)
    BY <1>0, <2>2
  <2>4. ASSUME NEW i \in 1 .. Len(at) PROVE at[i] <= c <=> i <= y - 1
    <3>1. ASSUME i <= y - 1 PROVE at[i] <= c
      <4>1. i \notin T
        BY <1>0, <2>2, <2>3, <3>1
      <4> QED BY <4>1
    <3>2. ASSUME ~(i <= y - 1) PROVE ~(at[i] <= c)
      <4>1. CASE i = y
        BY <2>3, <4>1
      <4>2. CASE i # y
        <5>1. y < i
          BY <1>0, <2>3, <3>2, <4>2
        <5>2. at[y] < at[i]
          BY <2>3, <5>1
        <5> QED BY <1>0, <2>3, <5>2
      <4> QED BY <4>1, <4>2
    <3> QED BY <3>1, <3>2
  <2>5. Splits(at, c, y - 1)
    BY <2>3, <2>4 DEF Splits
  <2> QED BY <2>5
<1> QED BY <1>1, <1>2

-----------------------------------------------------------------------------
(* Texts. *)

\* The length and the characters of a text.
LEMMA TextFact ==
  ASSUME NEW s \in Text
  PROVE  s \in Seq(Chars) /\ Len(s) \in Nat /\ \A i \in 1 .. Len(s) : s[i] \in Chars
BY SeqFact DEF Text

\* Texts of the same characters are the same.
LEMMA TextEqual ==
  ASSUME NEW s \in Text, NEW t \in Text, Len(s) = Len(t), \A i \in 1 .. Len(s) : s[i] = t[i]
  PROVE  s = t
BY SeqEqual DEF Text

\* The text that is empty, and those of one character.
LEMMA ShortTexts ==
  /\ <<>> \in Text /\ Len(<<>>) = 0 /\ \A s \in Text : Len(s) = 0 => s = <<>>
  /\ \A c \in Chars : <<c>> \in Text /\ Len(<<c>>) = 1 /\ <<c>>[1] = c
<1>1. <<>> \in Text /\ Len(<<>>) = 0 /\ \A s \in Text : Len(s) = 0 => s = <<>>
  BY EmptySeq DEF Text
<1>2. \A c \in Chars : <<c>> \in Text /\ Len(<<c>>) = 1 /\ <<c>>[1] = c
  BY OneFact DEF Text
<1> QED BY <1>1, <1>2

\* Two texts, one behind the other.
LEMMA TextConcat ==
  ASSUME NEW s \in Text, NEW t \in Text
  PROVE  /\ s \o t \in Text /\ Len(s \o t) = Len(s) + Len(t)
         /\ \A i \in 1 .. Len(s) : (s \o t)[i] = s[i]
         /\ \A j \in 1 .. Len(t) : (s \o t)[Len(s) + j] = t[j]
BY ConcatFact DEF Text

LEMMA TextAlgebra ==
  /\ \A s, t \in Text : s \o t \in Text
  /\ \A s, t, u \in Text : (s \o t) \o u = s \o (t \o u)
  /\ \A s \in Text : s \o <<>> = s /\ <<>> \o s = s
<1>1. ASSUME NEW s \in Text, NEW t \in Text, NEW u \in Text
      PROVE  (s \o t) \o u = s \o (t \o u)
  BY ConcatAssociative DEF Text
<1>2. ASSUME NEW s \in Text PROVE s \o <<>> = s /\ <<>> \o s = s
  BY ConcatEmptySeq DEF Text
<1> QED BY <1>1, <1>2, TextConcat

\* What Gathered returns: the elements at the kept positions.
LEMMA GatheredIs ==
  ASSUME NEW s \in Text, NEW keep
  PROVE  /\ Gathered(s, keep) \in Text
         /\ Len(Gathered(s, keep)) = Len(Kept(s, keep)) /\ Len(Kept(s, keep)) \in Nat
         /\ \A i \in 1 .. Len(Kept(s, keep)) : Gathered(s, keep)[i] = s[Kept(s, keep)[i]]
         /\ \A i \in 1 .. Len(Kept(s, keep)) : Kept(s, keep)[i] \in 1 .. Len(s)
<1> DEFINE at == Kept(s, keep)  g == [k \in 1 .. Len(at) |-> s[at[k]]]
<1>1. Len(s) \in Nat /\ \A i \in 1 .. Len(s) : s[i] \in Chars
  BY TextFact
<1>2. at \in Seq(Nat) /\ \A i \in 1 .. Len(at) : at[i] \in 1 .. Len(s)
  BY <1>1, KeptLists DEF Lists
<1>3. Len(at) \in Nat
  BY <1>2, SeqFact
<1>4. Gathered(s, keep) = g
  BY Zenon DEF Gathered
<1> HIDE DEF at
<1>5. g \in [1 .. Len(at) -> Chars]
  BY <1>1, <1>2
<1>6. g \in Text /\ Len(g) = Len(at)
  BY <1>3, <1>5, SeqDef DEF Text
<1>7. \A i \in 1 .. Len(at) : g[i] = s[at[i]]
  OBVIOUS
<1> HIDE DEF g
<1> QED BY <1>2, <1>3, <1>4, <1>6, <1>7 DEF at

\* The part of s between two offsets.
LEMMA SliceFact ==
  ASSUME NEW s \in Text, NEW a \in Nat, NEW b \in Nat, a <= b, b <= Len(s)
  PROVE  /\ Slice(s, a, b) \in Text /\ Len(Slice(s, a, b)) = b - a
         /\ \A i \in 1 .. b - a : Slice(s, a, b)[i] = s[a + i]
<1>1. Len(s) \in Nat /\ \A i \in 1 .. Len(s) : s[i] \in Chars
  BY TextFact
<1>2. \A i \in a + 1 .. b : s[i] \in Chars
  BY <1>1
<1>3. a + 1 \in Int /\ b \in Int
  OBVIOUS
<1>4. /\ SubSeq(s, a + 1, b) \in Text
      /\ Len(SubSeq(s, a + 1, b)) = IF a + 1 <= b THEN b - (a + 1) + 1 ELSE 0
      /\ \A i \in 1 .. b - (a + 1) + 1 : SubSeq(s, a + 1, b)[i] = s[(a + 1) + i - 1]
  BY <1>2, <1>3, SubSeqProperties DEF Text
<1>5. \A i \in 1 .. b - a : i \in 1 .. b - (a + 1) + 1 /\ (a + 1) + i - 1 = a + i
  OBVIOUS
<1>6. b - a = IF a + 1 <= b THEN b - (a + 1) + 1 ELSE 0
  OBVIOUS
<1> QED BY <1>4, <1>5, <1>6 DEF Slice

\* What is gathered from a part of s is a part of what is gathered from s.
LEMMA Window ==
  ASSUME NEW s \in Text, NEW keep,
         NEW a \in Nat, NEW b \in Nat, a <= b, b <= Len(s),
         NEW x, NEW y, Splits(Kept(s, keep), a, x), Splits(Kept(s, keep), b, y),
         NEW inside, \A j \in 1 .. b - a : j \in inside <=> a + j \in keep
  PROVE  x <= y /\ Gathered(Slice(s, a, b), inside) = Slice(Gathered(s, keep), x, y)
<1> DEFINE at == Kept(s, keep)  p == Slice(s, a, b)
           in == [k \in 1 .. y - x |-> at[x + k] - a]
<1>0. Len(s) \in Nat
  BY TextFact
<1>1. /\ at \in Seq(Nat) /\ Len(at) \in Nat
      /\ \A i \in 1 .. Len(at) : at[i] \in keep /\ at[i] \in 1 .. Len(s)
      /\ \A i, j \in 1 .. Len(at) : i < j => at[i] < at[j]
      /\ \A i \in 1 .. Len(s) : i \in keep => \E k \in 1 .. Len(at) : at[k] = i
  <2>1. Lists(at, keep, Len(s))
    BY <1>0, KeptLists
  <2> QED BY <2>1, SeqFact DEF Lists
<1>2. /\ p \in Text /\ Len(p) = b - a /\ \A i \in 1 .. b - a : p[i] = s[a + i]
  BY SliceFact
<1> HIDE DEF at, p
<1>3. /\ x \in 0 .. Len(at) /\ \A i \in 1 .. Len(at) : at[i] <= a <=> i <= x
      /\ y \in 0 .. Len(at) /\ \A i \in 1 .. Len(at) : at[i] <= b <=> i <= y
  BY DEF Splits, at
<1>4. x <= y
  <2> SUFFICES ASSUME y < x PROVE FALSE
    BY <1>1, <1>3
  <2>1. x \in 1 .. Len(at) /\ ~(x <= y) /\ at[x] \in 1 .. Len(s)
    BY <1>1, <1>3
  <2>2. at[x] <= a /\ ~(at[x] <= b)
    BY <1>3, <2>1
  <2> QED BY <2>1, <2>2
<1>5. ASSUME NEW k \in 1 .. y - x
      PROVE  x + k \in 1 .. Len(at) /\ at[x + k] - a \in 1 .. b - a /\ at[x + k] - a \in inside
             /\ at[x + k] = a + (at[x + k] - a)
  <2>1. x + k \in 1 .. Len(at) /\ ~(x + k <= x) /\ x + k <= y
    BY <1>1, <1>3, <1>4
  <2>2. ~(at[x + k] <= a) /\ at[x + k] <= b /\ at[x + k] \in 1 .. Len(s) /\ at[x + k] \in keep
    BY <1>1, <1>3, <2>1
  <2>3. at[x + k] - a \in 1 .. b - a /\ a + (at[x + k] - a) = at[x + k]
    BY <2>2
  <2> QED BY <2>1, <2>2, <2>3
<1>6. Lists(in, inside, b - a)
  <2>1. in \in [1 .. y - x -> Nat] /\ y - x \in Nat
    <3>1. \A k \in 1 .. y - x : at[x + k] - a \in Nat
      BY <1>5
    <3>2. y - x \in Nat
      BY <1>1, <1>3, <1>4
    <3> QED BY <3>1, <3>2
  <2>2. in \in Seq(Nat) /\ Len(in) = y - x
    BY <2>1, SeqDef
  <2>3. \A k \in 1 .. y - x : in[k] = at[x + k] - a
    OBVIOUS
  <2> HIDE DEF in
  <2>4. \A k \in 1 .. Len(in) : in[k] \in inside /\ in[k] \in 1 .. b - a
    BY <1>5, <2>2, <2>3
  <2>5. ASSUME NEW k \in 1 .. Len(in), NEW l \in 1 .. Len(in), k < l PROVE in[k] < in[l]
    <3>1. x + k \in 1 .. Len(at) /\ x + l \in 1 .. Len(at) /\ x + k < x + l
      BY <1>3, <1>5, <2>2, <2>5
    <3>2. at[x + k] < at[x + l] /\ at[x + k] \in 1 .. Len(s) /\ at[x + l] \in 1 .. Len(s)
      BY <1>1, <3>1
    <3>3. in[k] = at[x + k] - a /\ in[l] = at[x + l] - a
      BY <2>2, <2>3
    <3> QED BY <3>2, <3>3
  <2>6. ASSUME NEW j \in 1 .. b - a, j \in inside PROVE \E k \in 1 .. Len(in) : in[k] = j
    <3>1. a + j \in keep /\ a + j \in 1 .. Len(s) /\ ~(a + j <= a) /\ a + j <= b
      BY <1>0, <2>6
    <3>2. PICK i \in 1 .. Len(at) : at[i] = a + j
      BY <1>1, <3>1
    <3>3. ~(i <= x) /\ i <= y
      BY <1>3, <3>1, <3>2
    <3>4. i - x \in 1 .. y - x /\ x + (i - x) = i
      BY <1>1, <1>3, <3>3
    <3>5. in[i - x] = (a + j) - a
      BY <2>3, <3>2, <3>4
    <3>6. in[i - x] = j
      BY <3>5
    <3> QED BY <2>2, <3>4, <3>6
  <2> QED BY <2>2, <2>4, <2>5, <2>6 DEF Lists
<1>7. Kept(p, inside) = in
  <2>1. b - a \in Nat
    OBVIOUS
  <2>2. Lists(Kept(p, inside), inside, b - a)
    BY <1>2, <2>1, KeptLists
  <2> HIDE DEF in
  <2> QED BY <1>6, <2>1, <2>2, ListsUnique
<1>8. Len(in) = y - x /\ \A k \in 1 .. y - x : in[k] = at[x + k] - a
  <2>1. y - x \in Nat
    BY <1>1, <1>3, <1>4
  <2> QED BY <2>1
<1> HIDE DEF in
<1>9. /\ Gathered(p, inside) \in Text /\ Len(Gathered(p, inside)) = y - x
      /\ \A k \in 1 .. y - x : Gathered(p, inside)[k] = p[in[k]]
  BY <1>2, <1>7, <1>8, GatheredIs
<1>10. /\ Gathered(s, keep) \in Text /\ Len(Gathered(s, keep)) = Len(at)
       /\ \A k \in 1 .. Len(at) : Gathered(s, keep)[k] = s[at[k]]
  BY GatheredIs DEF at
<1>11. x \in Nat /\ y \in Nat /\ y <= Len(Gathered(s, keep))
  BY <1>1, <1>3, <1>10
<1>12. /\ Slice(Gathered(s, keep), x, y) \in Text /\ Len(Slice(Gathered(s, keep), x, y)) = y - x
       /\ \A k \in 1 .. y - x : Slice(Gathered(s, keep), x, y)[k] = Gathered(s, keep)[x + k]
  BY <1>4, <1>10, <1>11, SliceFact
<1>13. ASSUME NEW k \in 1 .. y - x
       PROVE  Gathered(p, inside)[k] = Slice(Gathered(s, keep), x, y)[k]
  <2>1. in[k] = at[x + k] - a /\ in[k] \in 1 .. b - a /\ x + k \in 1 .. Len(at) /\ a + in[k] = at[x + k]
    BY <1>5, <1>8
  <2>2. Gathered(p, inside)[k] = s[at[x + k]]
    BY <1>2, <1>9, <2>1
  <2> QED BY <1>10, <1>12, <2>1, <2>2
<1>14. Gathered(p, inside) = Slice(Gathered(s, keep), x, y)
  BY <1>9, <1>12, <1>13, TextEqual
<1> QED BY <1>4, <1>14 DEF p

\* The two parts of a text that was put together.
LEMMA PartsFact ==
  ASSUME NEW s \in Text, NEW t \in Text
  PROVE  /\ Slice(s \o t, 0, Len(s)) = s
         /\ Slice(s \o t, Len(s), Len(s) + Len(t)) = t
         /\ Slice(s \o t, Len(s), Len(s \o t)) = t
<1> DEFINE u == s \o t  n == Len(s)  m == Len(t)
<1>1. /\ n \in Nat /\ m \in Nat /\ u \in Text /\ Len(u) = n + m
      /\ \A i \in 1 .. n : u[i] = s[i]
      /\ \A j \in 1 .. m : u[n + j] = t[j]
  BY TextFact, TextConcat
<1> HIDE DEF u, n, m
<1>2. Slice(u, 0, n) = s
  <2>1. /\ Slice(u, 0, n) \in Text /\ Len(Slice(u, 0, n)) = n - 0
        /\ \A i \in 1 .. n - 0 : Slice(u, 0, n)[i] = u[0 + i]
    <3>1. u \in Text /\ 0 \in Nat /\ n \in Nat /\ 0 <= n /\ n <= Len(u)
      BY <1>1
    <3> QED BY <3>1, SliceFact
  <2>2. \A i \in 1 .. Len(s) : Slice(u, 0, n)[i] = s[i]
    BY <1>1, <2>1 DEF n
  <2>3. Len(Slice(u, 0, n)) = Len(s)
    BY <1>1, <2>1 DEF n
  <2> QED BY <2>1, <2>2, <2>3, TextEqual
<1>3. Slice(u, n, n + m) = t
  <2>1. /\ Slice(u, n, n + m) \in Text /\ Len(Slice(u, n, n + m)) = (n + m) - n
        /\ \A i \in 1 .. (n + m) - n : Slice(u, n, n + m)[i] = u[n + i]
    <3>1. u \in Text /\ n \in Nat /\ n + m \in Nat /\ n <= n + m /\ n + m <= Len(u)
      BY <1>1
    <3> QED BY <3>1, SliceFact
  <2>2. (n + m) - n = m
    BY <1>1
  <2>3. \A i \in 1 .. Len(t) : Slice(u, n, n + m)[i] = t[i]
    BY <1>1, <2>1, <2>2 DEF m
  <2>4. Len(Slice(u, n, n + m)) = Len(t)
    BY <2>1, <2>2 DEF m
  <2> QED BY <2>1, <2>3, <2>4, TextEqual
<1> QED BY <1>1, <1>2, <1>3 DEF u, n, m

\* What is gathered from two texts, one behind the other.
LEMMA GatheredConcat ==
  ASSUME NEW s \in Text, NEW t \in Text, NEW keep, NEW front, NEW back,
         \A i \in 1 .. Len(s) : i \in front <=> i \in keep,
         \A j \in 1 .. Len(t) : j \in back <=> Len(s) + j \in keep
  PROVE  Gathered(s \o t, keep) = Gathered(s, front) \o Gathered(t, back)
<1> DEFINE u == s \o t  at == Kept(u, keep)  g == Gathered(u, keep)
           n == Len(s)  m == Len(t)
<1>1. /\ n \in Nat /\ m \in Nat /\ u \in Text /\ Len(u) = n + m
      /\ \A i \in 1 .. n : u[i] = s[i]
      /\ \A j \in 1 .. m : u[n + j] = t[j]
  BY TextFact, TextConcat
<1> HIDE DEF u, n, m
<1>2. /\ at \in Seq(Nat) /\ Len(at) \in Nat /\ \A i \in 1 .. Len(at) : at[i] \in 1 .. n + m
      /\ \A i, j \in 1 .. Len(at) : i < j => at[i] < at[j]
  <2>1. Lists(at, keep, n + m)
    BY <1>1, KeptLists
  <2> QED BY <2>1, SeqFact DEF Lists
<1>3. g \in Text /\ Len(g) = Len(at)
  BY <1>1, GatheredIs
<1> HIDE DEF at, g
<1>4. PICK x : Splits(at, n, x)
  BY <1>1, <1>2, SplitsSomewhere
<1>5. x \in Nat /\ x <= Len(g)
  BY <1>2, <1>3, <1>4 DEF Splits
<1>6. Splits(at, 0, 0)
  BY <1>2 DEF Splits
<1>7. Splits(at, n + m, Len(g))
  BY <1>1, <1>2, <1>3 DEF Splits
<1>8. Slice(u, 0, n) = s /\ Slice(u, n, n + m) = t
  BY PartsFact DEF u, n, m
<1>10. Gathered(s, front) = Slice(g, 0, x)
  <2>1. 0 \in Nat /\ 0 <= n /\ n <= Len(u) /\ \A j \in 1 .. n - 0 : j \in front <=> 0 + j \in keep
    BY <1>1 DEF n
  <2>2. Gathered(Slice(u, 0, n), front) = Slice(Gathered(u, keep), 0, x)
    BY <1>1, <1>4, <1>6, <2>1, Window DEF at
  <2> QED BY <1>8, <2>2 DEF g
<1>11. Gathered(t, back) = Slice(g, x, Len(g))
  <2>1. n + m \in Nat /\ n <= n + m /\ n + m <= Len(u) /\ \A j \in 1 .. (n + m) - n : j \in back <=> n + j \in keep
    BY <1>1 DEF n, m
  <2>2. Gathered(Slice(u, n, n + m), back) = Slice(Gathered(u, keep), x, Len(g))
    BY <1>1, <1>4, <1>7, <2>1, Window DEF at
  <2> QED BY <1>8, <2>2 DEF g
<1>12. Slice(g, 0, x) \o Slice(g, x, Len(g)) = g
  <2>1. Len(g) \in Nat /\ 0 + 1 \in 1 .. Len(g) + 1 /\ x \in (0 + 1) - 1 .. Len(g) /\ Len(g) \in x .. Len(g)
    BY <1>2, <1>3, <1>5
  <2>2. SubSeq(g, 0 + 1, x) \o SubSeq(g, x + 1, Len(g)) = SubSeq(g, 0 + 1, Len(g))
    BY <1>3, <2>1, ConcatAdjacentSubSeq DEF Text
  <2>3. SubSeq(g, 0 + 1, Len(g)) = g
    BY <1>3, SubSeqFull DEF Text
  <2> QED BY <2>2, <2>3 DEF Slice
<1> QED BY <1>10, <1>11, <1>12 DEF g, u

-----------------------------------------------------------------------------
(* Line ends. *)

\* No CR at the end, so that no CRLF comes to be when something follows.
EndsClean(s) == Len(s) >= 1 => s[Len(s)] # CR

LEMMA Marks3 == CR # LF /\ CR # SP /\ LF # SP
BY DEF CR, LF, SP

\* A text that ends clean can be normalized apart from what follows.
LEMMA ToLfConcat ==
  ASSUME NEW s \in Text, NEW t \in Text, EndsClean(s)
  PROVE  ToLf(s \o t) = ToLf(s) \o ToLf(t)
<1> DEFINE u == s \o t  n == Len(s)  m == Len(t)
<1>1. /\ n \in Nat /\ m \in Nat /\ u \in Text /\ Len(u) = n + m
      /\ \A i \in 1 .. n : u[i] = s[i]
      /\ \A j \in 1 .. m : u[n + j] = t[j]
  BY TextFact, TextConcat
<1> HIDE DEF u, n, m
<1>2. ASSUME NEW i \in 1 .. n
      PROVE  i \in Noticed(s, "eol_normalized") <=> i \in Noticed(u, "eol_normalized")
  <2>1. CASE i = n
    <3>1. s[i] # CR /\ u[i] # CR
      BY <1>1, <2>1 DEF EndsClean, n
    <3> QED BY <1>1, <3>1 DEF Noticed, Overlooked, EolMarks, n
  <2>2. CASE i # n
    <3>1. i + 1 \in 1 .. n /\ i \in 1 .. n - 1 /\ i \in 1 .. (n + m) - 1 /\ i \in 1 .. n + m
      BY <1>1, <2>2
    <3>2. u[i] = s[i] /\ u[i + 1] = s[i + 1]
      BY <1>1, <3>1
    <3> QED BY <1>1, <3>1, <3>2 DEF Noticed, Overlooked, EolMarks, n
  <2> QED BY <2>1, <2>2
<1>3. ASSUME NEW j \in 1 .. m
      PROVE  j \in Noticed(t, "eol_normalized") <=> n + j \in Noticed(u, "eol_normalized")
  <2>1. n + j \in 1 .. n + m /\ u[n + j] = t[j]
    BY <1>1
  <2>2. CASE j = m
    BY <1>1, <2>1, <2>2 DEF Noticed, Overlooked, EolMarks, m
  <2>3. CASE j # m
    <3>1. j + 1 \in 1 .. m /\ j \in 1 .. m - 1 /\ n + j \in 1 .. (n + m) - 1 /\ (n + j) + 1 = n + (j + 1)
      BY <1>1, <2>3
    <3>2. u[(n + j) + 1] = t[j + 1]
      BY <1>1, <3>1
    <3> QED BY <1>1, <2>1, <3>1, <3>2 DEF Noticed, Overlooked, EolMarks, m
  <2> QED BY <2>2, <2>3
<1>4. /\ \A i \in 1 .. Len(s) : i \in Noticed(s, "eol_normalized") <=> i \in Noticed(u, "eol_normalized")
      /\ \A j \in 1 .. Len(t) : j \in Noticed(t, "eol_normalized") <=> Len(s) + j \in Noticed(u, "eol_normalized")
  BY <1>2, <1>3 DEF n, m
<1> DEFINE keep == Noticed(u, "eol_normalized")
           front == Noticed(s, "eol_normalized")  back == Noticed(t, "eol_normalized")
<1>5. /\ \A i \in 1 .. Len(s) : i \in front <=> i \in keep
      /\ \A j \in 1 .. Len(t) : j \in back <=> Len(s) + j \in keep
  BY <1>4
<1> HIDE DEF keep, front, back
<1>6. Gathered(s \o t, keep) = Gathered(s, front) \o Gathered(t, back)
  BY <1>5, GatheredConcat
<1> QED BY <1>6 DEF ToLf, Normal, u, keep, front, back

\* The line feeds of lf as they are written.
WrittenAs(c, eol) == IF eol = "crlf" /\ c = LF THEN <<CR, LF>> ELSE <<c>>
Lined(lf, eol) ==
  LET written[i \in 0 .. Len(lf)] ==
        IF i = 0 THEN <<>>
        ELSE written[i - 1] \o (IF eol = "crlf" /\ lf[i] = LF THEN <<CR, LF>> ELSE <<lf[i]>>)
  IN written[Len(lf)]

LEMMA FormatIsLined == \A s, eol : FormatTextForWrite(s, eol) = Lined(ToLf(s), eol)
BY DEF FormatTextForWrite, Lined

LEMMA LineEndFact == CR \in Chars /\ LF \in Chars /\ <<CR, LF>> \in Text /\ <<CR, LF>> = <<CR>> \o <<LF>>
<1>1. CR \in Chars /\ LF \in Chars
  BY CharsAssumption
<1>2. /\ <<CR, LF>> \in Text /\ Len(<<CR, LF>>) = 2 /\ <<CR, LF>>[1] = CR /\ <<CR, LF>>[2] = LF
  BY <1>1 DEF Text
<1>3. /\ <<CR>> \o <<LF>> \in Text /\ Len(<<CR>> \o <<LF>>) = 1 + 1
      /\ (<<CR>> \o <<LF>>)[1] = CR /\ (<<CR>> \o <<LF>>)[1 + 1] = LF
  <2>1. <<CR>> \in Text /\ Len(<<CR>>) = 1 /\ <<CR>>[1] = CR /\ <<LF>> \in Text /\ Len(<<LF>>) = 1 /\ <<LF>>[1] = LF
    BY <1>1, ShortTexts
  <2> DEFINE s == <<CR>>  t == <<LF>>
  <2>2. s \in Text /\ t \in Text /\ Len(s) = 1 /\ Len(t) = 1 /\ s[1] = CR /\ t[1] = LF
    BY <2>1
  <2> HIDE DEF s, t
  <2>3. s \o t \in Text /\ Len(s \o t) = 1 + 1 /\ (s \o t)[1] = CR /\ (s \o t)[1 + 1] = LF
    <3>1. /\ s \o t \in Text /\ Len(s \o t) = Len(s) + Len(t)
          /\ \A i \in 1 .. Len(s) : (s \o t)[i] = s[i]
          /\ \A j \in 1 .. Len(t) : (s \o t)[Len(s) + j] = t[j]
      BY <2>2, TextConcat
    <3> QED BY <2>2, <3>1
  <2> QED BY <2>3 DEF s, t
<1> DEFINE a == <<CR>> \o <<LF>>  b == <<CR, LF>>
<1>4. a \in Text /\ b \in Text /\ Len(a) = Len(b) /\ \A i \in 1 .. Len(a) : a[i] = b[i]
  <2>1. \A i \in 1 .. 2 : i = 1 \/ i = 2
    OBVIOUS
  <2>2. Len(a) = 2 /\ a[1] = CR /\ a[2] = LF
    BY <1>3
  <2>3. Len(b) = 2 /\ b[1] = CR /\ b[2] = LF
    BY <1>2
  <2>4. a \in Text /\ b \in Text
    BY <1>2, <1>3
  <2> HIDE DEF a, b
  <2> QED BY <2>1, <2>2, <2>3, <2>4
<1> HIDE DEF a, b
<1>5. a = b
  BY <1>4, TextEqual
<1> QED BY <1>1, <1>2, <1>5 DEF a, b

LEMMA WrittenAsFact ==
  ASSUME NEW c \in Chars, NEW eol
  PROVE  WrittenAs(c, eol) \in Text
BY ShortTexts, CharsAssumption, LineEndFact DEF WrittenAs

\* f is the recursive function inside Lined.
LinedBy(f, lf, eol) ==
  /\ f \in [0 .. Len(lf) -> Text] /\ f[0] = <<>>
  /\ \A i \in 1 .. Len(lf) : f[i] = f[i - 1] \o WrittenAs(lf[i], eol)
  /\ Lined(lf, eol) = f[Len(lf)]

\* The characters are written one after the other.
LEMMA LinedIs ==
  ASSUME NEW lf \in Text, NEW eol
  PROVE  \E f : LinedBy(f, lf, eol)
<1> DEFINE n == Len(lf)  T == Text
           step == [i \in 1 .. n |-> [x \in T |-> x \o WrittenAs(lf[i], eol)]]
           Writes(f) == f = [i \in 0 .. n |-> IF i = 0 THEN <<>> ELSE f[i - 1] \o WrittenAs(lf[i], eol)]
<1>0. n \in Nat /\ \A i \in 1 .. n : WrittenAs(lf[i], eol) \in T
  BY TextFact, WrittenAsFact
<1>1. ASSUME NEW i \in 1 .. n, NEW x \in T PROVE x \o WrittenAs(lf[i], eol) \in T
  BY <1>0, TextConcat
<1>2. PICK f \in [0 .. n -> T] : f[0] = <<>> /\ \A i \in 1 .. n : f[i] = step[i][f[i - 1]]
  <2>1. <<>> \in T
    BY ShortTexts
  <2>2. Steps(step, n, T)
    <3> HIDE DEF T
    <3> QED BY <1>1 DEF Steps
  <2> HIDE DEF step, n, T
  <2>3. PICK f : Walks(f, <<>>, step, n, T)
    BY <1>0, <2>1, <2>2, RecursionExists
  <2> QED BY <2>3 DEF Walks
<1> HIDE DEF T, n
<1>3. ASSUME NEW i \in 1 .. n PROVE f[i] = f[i - 1] \o WrittenAs(lf[i], eol)
  <2>1. i - 1 \in 0 .. n
    BY <1>0
  <2>2. f[i - 1] \in T
    BY <2>1
  <2> QED BY <1>2, <2>2
<1>4. Writes(f)
  <2>1. f = [i \in 0 .. n |-> f[i]]
    BY <1>2
  <2>2. ASSUME NEW i \in 0 .. n
        PROVE  f[i] = IF i = 0 THEN <<>> ELSE f[i - 1] \o WrittenAs(lf[i], eol)
    <3>1. CASE i = 0
      BY <1>2, <3>1
    <3>2. CASE i # 0
      <4>1. i \in 1 .. n
        BY <1>0, <3>2
      <4> QED BY <1>3, <3>2, <4>1
    <3> QED BY <3>1, <3>2
  <2> QED BY <2>1, <2>2, Zenon
<1> DEFINE g == CHOOSE h : Writes(h)
<1>5. Writes(g)
  BY <1>4
<1>6. Lined(lf, eol) = g[n]
  BY DEF Lined, WrittenAs, n
<1> HIDE DEF g
<1>7. /\ g[0] = <<>>
      /\ \A i \in 1 .. n : g[i] = g[i - 1] \o WrittenAs(lf[i], eol)
  <2>1. ASSUME NEW i \in 0 .. n
        PROVE  g[i] = IF i = 0 THEN <<>> ELSE g[i - 1] \o WrittenAs(lf[i], eol)
    BY <1>5, Zenon
  <2>2. 0 \in 0 .. n /\ \A i \in 1 .. n : i \in 0 .. n /\ i # 0
    BY <1>0
  <2> QED BY <2>1, <2>2, Zenon
<1>8. \A i \in 0 .. n : g[i] \in T
  <2>1. g[0] \in T
    BY <1>7, ShortTexts DEF T
  <2>2. ASSUME NEW i \in 1 .. n, g[i - 1] \in T PROVE g[i] \in T
    BY <1>1, <1>7, <2>2
  <2> QED BY <1>0, <2>1, <2>2, RecursionStays
<1>9. g \in [0 .. n -> T]
  BY <1>5, <1>8
<1> QED BY <1>6, <1>7, <1>9 DEF n, T, LinedBy

\* What is written for two texts, one behind the other.
LEMMA LinedConcat ==
  ASSUME NEW x \in Text, NEW y \in Text, NEW eol
  PROVE  /\ Lined(x, eol) \in Text
         /\ Lined(x \o y, eol) = Lined(x, eol) \o Lined(y, eol)
<1> DEFINE u == x \o y  n == Len(x)  m == Len(y)
<1>1. /\ n \in Nat /\ m \in Nat /\ u \in Text /\ Len(u) = n + m
      /\ \A i \in 1 .. n : u[i] = x[i]
      /\ \A j \in 1 .. m : u[n + j] = y[j]
  BY TextFact, TextConcat
<1>0. /\ \A a, b, c \in Text : (a \o b) \o c = a \o (b \o c)
      /\ \A a \in Text : a \o <<>> = a
  BY TextAlgebra
<1>a. PICK f : LinedBy(f, x, eol)
  BY LinedIs
<1>b. PICK g : LinedBy(g, y, eol)
  BY LinedIs
<1>c. PICK h : LinedBy(h, u, eol)
  BY <1>1, LinedIs
<1>2. /\ f \in [0 .. n -> Text] /\ f[0] = <<>> /\ \A i \in 1 .. n : f[i] = f[i - 1] \o WrittenAs(x[i], eol)
      /\ Lined(x, eol) = f[n]
  BY <1>a DEF LinedBy
<1>3. /\ g \in [0 .. m -> Text] /\ g[0] = <<>> /\ \A i \in 1 .. m : g[i] = g[i - 1] \o WrittenAs(y[i], eol)
      /\ Lined(y, eol) = g[m]
  BY <1>b DEF LinedBy
<1>4. /\ h[0] = <<>> /\ \A i \in 1 .. n + m : h[i] = h[i - 1] \o WrittenAs(u[i], eol)
      /\ Lined(u, eol) = h[n + m]
  BY <1>1, <1>c DEF LinedBy
<1> HIDE DEF u, n, m
<1>5. f[n] = h[n]
  <2>1. f[0] = h[0]
    BY <1>2, <1>4
  <2>2. ASSUME NEW i \in 1 .. n, f[i - 1] = h[i - 1] PROVE f[i] = h[i]
    <3>1. i \in 1 .. n + m
      BY <1>1
    <3> QED BY <1>1, <1>2, <1>4, <2>2, <3>1
  <2> QED BY <1>1, <2>1, <2>2, RecursionUnique
<1>6. f[n] \in Text
  BY <1>1, <1>2
<1> DEFINE Good == {k \in Nat : k <= m => h[n + k] = f[n] \o g[k]}
<1>7. 0 \in Good
  <2>1. f[n] \o <<>> = f[n]
    BY <1>0, <1>6
  <2>2. n + 0 = n
    BY <1>1
  <2> QED BY <1>3, <1>5, <2>1, <2>2
<1>8. ASSUME NEW k \in Nat, k \in Good PROVE k + 1 \in Good
  <2>0. k + 1 \in Nat
    OBVIOUS
  <2> SUFFICES ASSUME k + 1 <= m PROVE h[n + (k + 1)] = f[n] \o g[k + 1]
    BY <2>0, Zenon
  <2>1. /\ k + 1 \in 1 .. m /\ (k + 1) - 1 = k /\ n + (k + 1) \in 1 .. n + m
        /\ (n + (k + 1)) - 1 = n + k /\ k \in 0 .. m /\ k <= m
    BY <1>1
  <2>2. h[n + k] = f[n] \o g[k]
    BY <1>8, <2>1, Zenon
  <2>3. h[n + (k + 1)] = h[n + k] \o WrittenAs(y[k + 1], eol)
    BY <1>1, <1>4, <2>1
  <2>4. g[k + 1] = g[k] \o WrittenAs(y[k + 1], eol)
    BY <1>3, <2>1
  <2>5. g[k] \in Text
    BY <1>3, <2>1
  <2>6. WrittenAs(y[k + 1], eol) \in Text
    <3>1. y[k + 1] \in Chars
      BY <2>1, TextFact DEF m
    <3> QED BY <3>1, WrittenAsFact
  <2>7. (f[n] \o g[k]) \o WrittenAs(y[k + 1], eol) = f[n] \o (g[k] \o WrittenAs(y[k + 1], eol))
    BY <1>0, <1>6, <2>5, <2>6
  <2> QED BY <2>2, <2>3, <2>4, <2>7
<1> HIDE DEF Good
<1>9. Nat \subseteq Good
  BY <1>7, <1>8, NatSet
<1>10. h[n + m] = f[n] \o g[m]
  <2>1. m \in Good /\ m <= m
    BY <1>1, <1>9
  <2> QED BY <2>1, Zenon DEF Good
<1> QED BY <1>2, <1>3, <1>4, <1>6, <1>10 DEF u

\* A text all of which is kept, and one of which nothing is.
LEMMA GatheredAll ==
  ASSUME NEW s \in Text, NEW keep
  PROVE  /\ 1 .. Len(s) \subseteq keep => Gathered(s, keep) = s /\ Kept(s, keep) = [i \in 1 .. Len(s) |-> i]
         /\ (1 .. Len(s)) \cap keep = {} => Gathered(s, keep) = <<>>
<1> DEFINE n == Len(s)  id == [i \in 1 .. n |-> i]
<1>1. n \in Nat /\ Lists(Kept(s, keep), keep, n)
  BY TextFact, KeptLists
<1>2. /\ Gathered(s, keep) \in Text
      /\ Len(Gathered(s, keep)) = Len(Kept(s, keep)) /\ Len(Kept(s, keep)) \in Nat
      /\ \A i \in 1 .. Len(Kept(s, keep)) : Gathered(s, keep)[i] = s[Kept(s, keep)[i]]
  BY GatheredIs
<1>3. ASSUME 1 .. n \subseteq keep PROVE Gathered(s, keep) = s /\ Kept(s, keep) = id
  <2>1. id \in Seq(Nat) /\ Len(id) = n /\ \A i \in 1 .. n : id[i] = i
    BY <1>1
  <2> HIDE DEF id
  <2>2. Lists(id, keep, n)
    BY <1>1, <1>3, <2>1 DEF Lists
  <2>3. Kept(s, keep) = id
    BY <1>1, <2>2, ListsUnique
  <2>4. Len(Gathered(s, keep)) = n /\ \A i \in 1 .. n : Gathered(s, keep)[i] = s[i]
    BY <1>2, <2>1, <2>3
  <2>5. Gathered(s, keep) = s
    BY <1>2, <2>4, TextEqual
  <2> QED BY <2>3, <2>5
<1>4. ASSUME (1 .. n) \cap keep = {} PROVE Gathered(s, keep) = <<>>
  <2>1. <<>> \in Seq(Nat) /\ Len(<<>>) = 0
    BY EmptySeq
  <2>2. Lists(<<>>, keep, n)
    BY <1>1, <1>4, <2>1 DEF Lists
  <2>3. Kept(s, keep) = <<>>
    BY <1>1, <2>2, ListsUnique
  <2>4. Len(Gathered(s, keep)) = 0
    BY <1>2, <2>1, <2>3
  <2> QED BY <1>2, <2>4, ShortTexts
<1> QED BY <1>3, <1>4

\* A text that ends clean is written apart from what follows.
LEMMA FormatConcat ==
  ASSUME NEW s \in Text, NEW t \in Text, NEW eol
  PROVE  /\ FormatTextForWrite(s, eol) \in Text
         /\ EndsClean(s) =>
              FormatTextForWrite(s \o t, eol) = FormatTextForWrite(s, eol) \o FormatTextForWrite(t, eol)
<1>1. ToLf(s) \in Text /\ ToLf(t) \in Text
  BY GatheredIs DEF ToLf, Normal
<1>2. EndsClean(s) => ToLf(s \o t) = ToLf(s) \o ToLf(t)
  BY ToLfConcat
<1>3. Lined(ToLf(s), eol) \in Text /\ Lined(ToLf(s) \o ToLf(t), eol) = Lined(ToLf(s), eol) \o Lined(ToLf(t), eol)
  <2> DEFINE x == ToLf(s)  y == ToLf(t)
  <2>1. x \in Text /\ y \in Text
    BY <1>1
  <2> HIDE DEF x, y
  <2>2. ASSUME NEW a \in Text, NEW b \in Text
        PROVE  Lined(a, eol) \in Text /\ Lined(a \o b, eol) = Lined(a, eol) \o Lined(b, eol)
    BY LinedConcat
  <2>3. Lined(x, eol) \in Text /\ Lined(x \o y, eol) = Lined(x, eol) \o Lined(y, eol)
    BY <2>1, <2>2
  <2> QED BY <2>3 DEF x, y
<1> QED BY <1>2, <1>3, FormatIsLined

\* One character, and a line end.
LEMMA FormatOne ==
  ASSUME NEW c \in Chars, NEW eol
  PROVE  /\ FormatTextForWrite(<<>>, eol) = <<>>
         /\ FormatTextForWrite(<<c>>, eol) = WrittenAs(c, eol)
         /\ FormatTextForWrite(<<CR, LF>>, eol) = WrittenAs(LF, eol)
<1>1. /\ \A e \in Chars : <<e>> \in Text /\ Len(<<e>>) = 1 /\ <<e>>[1] = e
      /\ CR \in Chars /\ LF \in Chars
  BY ShortTexts, LineEndFact
<1>2. <<>> \in Text /\ Len(<<>>) = 0
  BY ShortTexts
<1>3. Lined(<<>>, eol) = <<>>
  <2>1. PICK f : LinedBy(f, <<>>, eol)
    BY <1>2, LinedIs
  <2> QED BY <1>2, <2>1 DEF LinedBy
<1>4. ASSUME NEW e \in Chars PROVE Lined(<<e>>, eol) = WrittenAs(e, eol)
  <2> DEFINE s == <<e>>
  <2>0. s \in Text /\ Len(s) = 1 /\ s[1] = e
    BY <1>1
  <2> HIDE DEF s
  <2>1. PICK f : LinedBy(f, s, eol)
    BY <2>0, LinedIs
  <2>2. f[1] = f[0] \o WrittenAs(e, eol) /\ f[0] = <<>> /\ Lined(s, eol) = f[1]
    <3>1. 1 \in 1 .. Len(s) /\ 1 - 1 = 0
      BY <2>0
    <3> QED BY <2>0, <2>1, <3>1 DEF LinedBy
  <2>3. WrittenAs(e, eol) \in Text
    BY WrittenAsFact
  <2> QED BY <2>2, <2>3, TextAlgebra DEF s
<1>5. ToLf(<<>>) = <<>>
  <2>1. 1 .. Len(<<>>) \subseteq Noticed(<<>>, "eol_normalized")
    BY <1>2
  <2> QED BY <1>2, <2>1, GatheredAll DEF ToLf, Normal
<1>6. ASSUME NEW e \in Chars PROVE ToLf(<<e>>) = <<e>>
  <2>1. 1 .. Len(<<e>>) \subseteq Noticed(<<e>>, "eol_normalized")
    BY <1>1 DEF Noticed, Overlooked, EolMarks
  <2> QED BY <1>1, <2>1, GatheredAll DEF ToLf, Normal
<1>7. ToLf(<<CR, LF>>) = <<LF>>
  <2>1. <<CR>> \o <<LF>> = <<CR, LF>> /\ Len(<<CR, LF>>) = 2 /\ <<CR, LF>>[1] = CR /\ <<CR, LF>>[2] = LF
    BY LineEndFact
  <2> DEFINE keep == Noticed(<<CR, LF>>, "eol_normalized")
  <2>2. 1 \notin keep /\ 2 \in keep
    BY <2>1, Marks3 DEF Noticed, Overlooked, EolMarks
  <2> HIDE DEF keep
  <2>3. Gathered(<<CR>> \o <<LF>>, keep) = Gathered(<<CR>>, {}) \o Gathered(<<LF>>, {1})
    <3>1. /\ \A i \in 1 .. Len(<<CR>>) : i \in {} <=> i \in keep
          /\ \A j \in 1 .. Len(<<LF>>) : j \in {1} <=> Len(<<CR>>) + j \in keep
      BY <1>1, <2>2
    <3>2. <<CR>> \in Text /\ <<LF>> \in Text
      BY <1>1
    <3> DEFINE s == <<CR>>  t == <<LF>>  none == {}  one == {1}
    <3>3. /\ s \in Text /\ t \in Text
          /\ \A i \in 1 .. Len(s) : i \in none <=> i \in keep
          /\ \A j \in 1 .. Len(t) : j \in one <=> Len(s) + j \in keep
      BY <3>1, <3>2
    <3> HIDE DEF s, t, none, one
    <3>4. Gathered(s \o t, keep) = Gathered(s, none) \o Gathered(t, one)
      BY <3>3, GatheredConcat
    <3> QED BY <3>4 DEF s, t, none, one
  <2>4. Gathered(<<CR>>, {}) = <<>>
    BY <1>1, GatheredAll
  <2>5. Gathered(<<LF>>, {1}) = <<LF>>
    <3>1. 1 .. Len(<<LF>>) \subseteq {1}
      BY <1>1
    <3> QED BY <1>1, <3>1, GatheredAll
  <2>6. <<>> \o <<LF>> = <<LF>>
    BY <1>1, TextAlgebra
  <2> QED BY <2>1, <2>3, <2>4, <2>5, <2>6 DEF ToLf, Normal, keep
<1>8. FormatTextForWrite(<<>>, eol) = <<>>
  BY <1>3, <1>5, FormatIsLined
<1>9. FormatTextForWrite(<<c>>, eol) = WrittenAs(c, eol)
  <2>1. Lined(ToLf(<<c>>), eol) = WrittenAs(c, eol)
    BY <1>4, <1>6
  <2> QED BY <2>1, FormatIsLined
<1>10. FormatTextForWrite(<<CR, LF>>, eol) = WrittenAs(LF, eol)
  <2>1. Lined(ToLf(<<CR, LF>>), eol) = WrittenAs(LF, eol)
    BY <1>1, <1>4, <1>7
  <2> QED BY <2>1, FormatIsLined
<1> QED BY <1>8, <1>9, <1>10

\* The text up to an offset.
LEMMA FrontFact ==
  ASSUME NEW s \in Text, NEW k \in Nat, k <= Len(s)
  PROVE  /\ Slice(s, 0, k) \in Text /\ Len(Slice(s, 0, k)) = k
         /\ \A i \in 1 .. k : Slice(s, 0, k)[i] = s[i]
         /\ k = 0 => Slice(s, 0, k) = <<>>
         /\ k = Len(s) => Slice(s, 0, k) = s
<1>1. PICK z \in Nat : z = 0
  OBVIOUS
<1>2. z <= k
  BY <1>1
<1>3. /\ Slice(s, z, k) \in Text /\ Len(Slice(s, z, k)) = k - z
      /\ \A i \in 1 .. k - z : Slice(s, z, k)[i] = s[z + i]
  BY <1>2, SliceFact
<1> DEFINE p == Slice(s, 0, k)
<1>4. p \in Text /\ Len(p) = k /\ \A i \in 1 .. k : p[i] = s[i]
  <2>1. k - z = k /\ \A i \in 1 .. k : z + i = i
    BY <1>1
  <2> QED BY <1>1, <1>3, <2>1
<1> HIDE DEF p
<1>5. k = 0 => p = <<>>
  BY <1>4, ShortTexts
<1>6. k = Len(s) => p = s
  BY <1>4, TextEqual
<1> QED BY <1>4, <1>5, <1>6 DEF p

\* The text up to an offset, one character further.
LEMMA FrontGrows ==
  ASSUME NEW s \in Text, NEW k \in Nat, k + 1 <= Len(s)
  PROVE  /\ Slice(s, 0, k) \in Text /\ Len(Slice(s, 0, k)) = k
         /\ \A i \in 1 .. k : Slice(s, 0, k)[i] = s[i]
         /\ s[k + 1] \in Chars /\ Slice(s, 0, k + 1) = Slice(s, 0, k) \o <<s[k + 1]>>
<1> DEFINE a == Slice(s, 0, k)  c == <<s[k + 1]>>  b == Slice(s, 0, k + 1)
<1>0. Len(s) \in Nat /\ s[k + 1] \in Chars
  BY TextFact
<1>1. a \in Text /\ Len(a) = k /\ \A i \in 1 .. k : a[i] = s[i]
  <2>1. k <= Len(s)
    BY <1>0
  <2> QED BY <2>1, FrontFact
<1>2. b \in Text /\ Len(b) = k + 1 /\ \A i \in 1 .. k + 1 : b[i] = s[i]
  <2>1. k + 1 \in Nat
    OBVIOUS
  <2> QED BY <2>1, FrontFact
<1>3. c \in Text /\ Len(c) = 1 /\ c[1] = s[k + 1]
  BY <1>0, ShortTexts
<1> HIDE DEF a, b, c
<1>4. /\ a \o c \in Text /\ Len(a \o c) = k + 1
      /\ \A i \in 1 .. k : (a \o c)[i] = a[i]
      /\ (a \o c)[k + 1] = c[1]
  <2>1. /\ a \o c \in Text /\ Len(a \o c) = Len(a) + Len(c)
        /\ \A i \in 1 .. Len(a) : (a \o c)[i] = a[i]
        /\ \A j \in 1 .. Len(c) : (a \o c)[Len(a) + j] = c[j]
    BY <1>1, <1>3, TextConcat
  <2>2. 1 \in 1 .. Len(c)
    BY <1>3
  <2> QED BY <1>1, <1>3, <2>1, <2>2
<1>5. ASSUME NEW i \in 1 .. k + 1 PROVE b[i] = (a \o c)[i]
  <2>1. CASE i = k + 1
    BY <1>2, <1>3, <1>4, <2>1
  <2>2. CASE i # k + 1
    <3>1. i \in 1 .. k
      BY <2>2
    <3> QED BY <1>1, <1>2, <1>4, <3>1
  <2> QED BY <2>1, <2>2
<1>6. b = a \o c
  BY <1>2, <1>4, <1>5, TextEqual
<1> QED BY <1>0, <1>1, <1>6 DEF a, b, c

\* A text whose lines already end the way they are written stays as it is.
LEMMA FormatUniform ==
  ASSUME NEW s \in Text, NEW eol, Uniform(s, eol)
  PROVE  FormatTextForWrite(s, eol) = s
<1> DEFINE n == Len(s)  F(x) == FormatTextForWrite(x, eol)  U(k) == Slice(s, 0, k)
           Good == {k \in Nat : \A j \in 0 .. k : j <= n /\ j \notin EolMarks(s) => F(U(j)) = U(j)}
<1>0. n \in Nat
  BY TextFact
<1>1. /\ \A i \in 1 .. n : s[i] = CR => i \in EolMarks(s)
      /\ \A i \in 1 .. n : s[i] = LF => (eol = "crlf" <=> i - 1 \in EolMarks(s))
      /\ \A i \in EolMarks(s) : i \in 1 .. n - 1 /\ s[i] = CR /\ s[i + 1] = LF
  BY DEF Uniform, NoLoneCR, EolMarks
<1>2. U(0) = <<>> /\ U(n) = s
  <2>1. 0 \in Nat /\ 0 <= n /\ n <= n
    BY <1>0
  <2> QED BY <1>0, <2>1, FrontFact
<1>3. 0 \in Good
  <2>1. F(U(0)) = U(0)
    BY <1>2, FormatOne, LineEndFact
  <2>2. \A j \in 0 .. 0 : j = 0
    OBVIOUS
  <2> QED BY <2>1, <2>2, Zenon
<1>4. ASSUME NEW k \in Nat, k \in Good PROVE k + 1 \in Good
  <2> HIDE DEF F, U
  <2>0. ASSUME NEW j \in 0 .. k, j <= n, j \notin EolMarks(s) PROVE F(U(j)) = U(j)
    BY <1>4, <2>0
  <2> SUFFICES ASSUME k + 1 <= n, k + 1 \notin EolMarks(s) PROVE F(U(k + 1)) = U(k + 1)
    <3>1. \A j \in 0 .. k + 1 : j \in 0 .. k \/ j = k + 1
      OBVIOUS
    <3>2. k + 1 \in Nat
      OBVIOUS
    <3>3. \A j \in 0 .. k + 1 : j <= n /\ j \notin EolMarks(s) => F(U(j)) = U(j)
      BY <2>0, <3>1
    <3> QED BY <3>2, <3>3
  <2> DEFINE c == s[k + 1]
  <2>1. k + 1 \in 1 .. n /\ (k + 1) - 1 = k /\ k \in 0 .. k /\ k <= n
    BY <1>0
  <2>2. c # CR
    BY <1>1, <2>1
  <2>3. /\ U(k) \in Text /\ Len(U(k)) = k /\ \A i \in 1 .. k : U(k)[i] = s[i]
        /\ c \in Chars /\ U(k + 1) = U(k) \o <<c>>
    BY <2>1, FrontGrows DEF U
  <2>4. <<c>> \in Text /\ F(<<c>>) = WrittenAs(c, eol)
    BY <2>3, ShortTexts, FormatOne DEF F
  <2>5. CASE k \notin EolMarks(s)
    <3>1. F(U(k)) = U(k)
      BY <2>0, <2>1, <2>5
    <3>2. EndsClean(U(k))
      <4> SUFFICES ASSUME k >= 1 PROVE U(k)[k] # CR
        BY <2>3 DEF EndsClean
      <4>1. k \in 1 .. k /\ k \in 1 .. n
        BY <2>1
      <4> QED BY <1>1, <2>3, <2>5, <4>1
    <3>3. WrittenAs(c, eol) = <<c>>
      BY <1>1, <2>1, <2>5 DEF WrittenAs
    <3>4. F(U(k) \o <<c>>) = F(U(k)) \o F(<<c>>)
      BY <2>3, <2>4, <3>2, LineEndFact, FormatConcat DEF F
    <3> QED BY <2>3, <2>4, <3>1, <3>3, <3>4
  <2>6. CASE k \in EolMarks(s)
    <3>1. k \in 1 .. n - 1 /\ s[k] = CR /\ c = LF
      BY <1>1, <2>6
    <3>2. k - 1 \in Nat /\ k - 1 \in 0 .. k /\ k - 1 <= n /\ (k - 1) + 1 = k
      BY <1>0, <3>1
    <3>3. k - 1 \notin EolMarks(s)
      BY <1>1, <3>1, <3>2, Marks3
    <3>4. F(U(k - 1)) = U(k - 1)
      BY <2>0, <3>2, <3>3
    <3>5. /\ U(k - 1) \in Text /\ Len(U(k - 1)) = k - 1 /\ \A i \in 1 .. k - 1 : U(k - 1)[i] = s[i]
          /\ U(k) = U(k - 1) \o <<CR>>
      BY <2>1, <3>1, <3>2, FrontGrows DEF U
    <3>6. EndsClean(U(k - 1))
      <4> SUFFICES ASSUME k - 1 >= 1 PROVE U(k - 1)[k - 1] # CR
        BY <3>5 DEF EndsClean
      <4>1. k - 1 \in 1 .. k - 1 /\ k - 1 \in 1 .. n
        BY <2>1, <3>1
      <4> QED BY <1>1, <3>3, <3>5, <4>1
    <3>7. U(k + 1) = U(k - 1) \o <<CR, LF>>
      <4>1. <<CR>> \in Text /\ <<LF>> \in Text
        BY LineEndFact, ShortTexts
      <4>2. (U(k - 1) \o <<CR>>) \o <<LF>> = U(k - 1) \o (<<CR>> \o <<LF>>)
        BY <3>5, <4>1, TextAlgebra
      <4> QED BY <2>3, <3>1, <3>5, <4>2, LineEndFact
    <3>8. F(<<CR, LF>>) = <<CR, LF>>
      <4>1. eol = "crlf"
        BY <1>1, <2>1, <2>6, <3>1
      <4>2. WrittenAs(LF, eol) = <<CR, LF>>
        BY <4>1 DEF WrittenAs
      <4>3. F(<<CR, LF>>) = WrittenAs(LF, eol)
        BY FormatOne, LineEndFact DEF F
      <4> QED BY <4>2, <4>3
    <3>9. F(U(k - 1) \o <<CR, LF>>) = F(U(k - 1)) \o F(<<CR, LF>>)
      BY <3>5, <3>6, LineEndFact, FormatConcat DEF F
    <3> QED BY <3>4, <3>7, <3>8, <3>9
  <2> QED BY <2>5, <2>6
<1> HIDE DEF Good
<1>5. Nat \subseteq Good
  BY <1>3, <1>4, NatSet
<1>6. F(U(n)) = U(n)
  <2>1. n \in Good /\ n \in 0 .. n /\ n <= n /\ n \notin EolMarks(s)
    BY <1>0, <1>1, <1>5
  <2> HIDE DEF F, U
  <2> QED BY <2>1 DEF Good
<1> QED BY <1>2, <1>6

\* A part that begins and ends between the lines' characters has the line ends of the whole.
LEMMA PieceUniform ==
  ASSUME NEW s \in Text, NEW eol, Uniform(s, eol), NEW a \in Nat, NEW b \in Nat, a <= b, b <= Len(s),
         a \notin EolMarks(s), b \notin EolMarks(s)
  PROVE  Uniform(Slice(s, a, b), eol) /\ EndsClean(Slice(s, a, b))
<1> DEFINE n == Len(s)  p == Slice(s, a, b)  m == b - a
<1>0. n \in Nat
  BY TextFact
<1>1. /\ \A i \in 1 .. n : s[i] = CR => i \in EolMarks(s)
      /\ \A i \in 1 .. n : s[i] = LF => (eol = "crlf" <=> i - 1 \in EolMarks(s))
      /\ \A i \in EolMarks(s) : i \in 1 .. n - 1 /\ s[i] = CR /\ s[i + 1] = LF
  BY DEF Uniform, NoLoneCR, EolMarks
<1>2. p \in Text /\ Len(p) = m /\ \A i \in 1 .. m : p[i] = s[a + i]
  BY SliceFact
<1> HIDE DEF p
<1>3. ASSUME NEW i \in 1 .. m PROVE i \in EolMarks(p) <=> a + i \in EolMarks(s)
  <2>1. a + i \in 1 .. n /\ p[i] = s[a + i]
    BY <1>0, <1>2
  <2>2. CASE i = m
    <3>1. a + i = b /\ i \notin 1 .. m - 1
      BY <2>2
    <3> QED BY <1>2, <3>1 DEF EolMarks
  <2>3. CASE i # m
    <3>1. i + 1 \in 1 .. m /\ i \in 1 .. m - 1 /\ a + i \in 1 .. n - 1 /\ (a + i) + 1 = a + (i + 1)
      BY <1>0, <2>3
    <3>2. p[i + 1] = s[(a + i) + 1]
      BY <1>2, <3>1
    <3> QED BY <1>2, <2>1, <3>1, <3>2 DEF EolMarks
  <2> QED BY <2>2, <2>3
<1>4. NoLoneCR(p)
  <2> SUFFICES ASSUME NEW i \in 1 .. m, p[i] = CR PROVE i \in EolMarks(p)
    BY <1>2 DEF NoLoneCR
  <2>1. a + i \in 1 .. n /\ s[a + i] = CR
    BY <1>0, <1>2
  <2> QED BY <1>1, <1>3, <2>1
<1>5. ASSUME NEW i \in 1 .. m, p[i] = LF PROVE eol = "crlf" <=> i - 1 \in EolMarks(p)
  <2>1. a + i \in 1 .. n /\ s[a + i] = LF
    BY <1>0, <1>2, <1>5
  <2>2. eol = "crlf" <=> (a + i) - 1 \in EolMarks(s)
    BY <1>1, <2>1
  <2>3. CASE i = 1
    <3>1. (a + i) - 1 = a /\ i - 1 = 0
      BY <2>3
    <3>2. 0 \notin EolMarks(p)
      BY DEF EolMarks
    <3> QED BY <2>2, <3>1, <3>2
  <2>4. CASE i # 1
    <3>1. i - 1 \in 1 .. m /\ (a + i) - 1 = a + (i - 1)
      BY <2>4
    <3> QED BY <1>3, <2>2, <3>1
  <2> QED BY <2>3, <2>4
<1>6. EndsClean(p)
  <2> SUFFICES ASSUME m >= 1 PROVE p[m] # CR
    BY <1>2 DEF EndsClean
  <2>1. m \in 1 .. m /\ a + m = b /\ b \in 1 .. n
    BY <1>0
  <2> QED BY <1>1, <1>2, <2>1
<1> QED BY <1>2, <1>4, <1>5, <1>6 DEF Uniform, p

-----------------------------------------------------------------------------
(* Replacing the matches. *)

\* Two offsets for each match, one match behind the other.
EndOf(found, m) == IF m = 0 THEN 0 ELSE found[m].end
InOrder(found, n) ==
  /\ found \in Seq([start : Nat, end : Nat])
  /\ \A m \in 1 .. Len(found) :
       EndOf(found, m - 1) <= found[m].start /\ found[m].start <= found[m].end /\ found[m].end <= n

LEMMA InOrderFact ==
  ASSUME NEW found, NEW n \in Nat, InOrder(found, n)
  PROVE  /\ Len(found) \in Nat
         /\ \A m \in 1 .. Len(found) : /\ found[m].start \in Nat /\ found[m].end \in Nat
                                       /\ EndOf(found, m - 1) \in Nat /\ m - 1 \in 0 .. Len(found)
                                       /\ EndOf(found, m - 1) <= found[m].start
                                       /\ found[m].start <= found[m].end /\ found[m].end <= n
         /\ \A m \in 0 .. Len(found) : EndOf(found, m) \in Nat /\ EndOf(found, m) <= n
         /\ found = <<>> <=> Len(found) = 0
<1> DEFINE R == [start : Nat, end : Nat]
<1>1. /\ Len(found) \in Nat /\ \A i \in 1 .. Len(found) : found[i] \in R
      /\ (found # <<>> => Len(found) >= 1) /\ Len(<<>>) = 0
  BY SeqFact DEF InOrder
<1>2. \A i \in 1 .. Len(found) : found[i].start \in Nat /\ found[i].end \in Nat
  BY <1>1
<1>3. \A m \in 0 .. Len(found) : EndOf(found, m) \in Nat /\ EndOf(found, m) <= n
  BY <1>1, <1>2 DEF EndOf, InOrder
<1>4. \A m \in 1 .. Len(found) : m - 1 \in 0 .. Len(found)
  BY <1>1
<1> QED BY <1>1, <1>2, <1>3, <1>4 DEF InOrder

\* f is the recursive function inside Around.
AroundBy(f, s, found, new) ==
  /\ f \in [0 .. Len(found) -> Text] /\ f[0] = <<>>
  /\ \A m \in 1 .. Len(found) : f[m] = f[m - 1] \o Slice(s, EndOf(found, m - 1), found[m].start) \o new
  /\ Around(s, found, new) = f[Len(found)] \o Slice(s, EndOf(found, Len(found)), Len(s))

LEMMA AroundIs ==
  ASSUME NEW s \in Text, NEW found, InOrder(found, Len(s)), NEW new \in Text
  PROVE  \E f : AroundBy(f, s, found, new)
<1> DEFINE n == Len(found)  T == Text  piece(m) == Slice(s, EndOf(found, m - 1), found[m].start)
           step == [m \in 1 .. n |-> [x \in T |-> x \o piece(m) \o new]]
           Writes(f) == f = [m \in 0 .. n |->
             IF m = 0 THEN <<>>
             ELSE f[m - 1] \o Slice(s, IF m = 1 THEN 0 ELSE found[m - 1].end, found[m].start) \o new]
<1>0. /\ Len(s) \in Nat /\ n \in Nat /\ (found = <<>> <=> n = 0)
      /\ \A m \in 1 .. n : piece(m) \in T
  <2>1. Len(s) \in Nat
    BY TextFact
  <2>2. n \in Nat /\ (found = <<>> <=> n = 0)
    BY <2>1, InOrderFact
  <2>3. ASSUME NEW m \in 1 .. n PROVE piece(m) \in T
    <3>1. /\ EndOf(found, m - 1) \in Nat /\ found[m].start \in Nat
          /\ EndOf(found, m - 1) <= found[m].start /\ found[m].start <= Len(s)
      <4>1. found[m].start \in Nat /\ found[m].end \in Nat /\ EndOf(found, m - 1) \in Nat
            /\ EndOf(found, m - 1) <= found[m].start
            /\ found[m].start <= found[m].end /\ found[m].end <= Len(s)
        BY <2>1, InOrderFact
      <4> QED BY <2>1, <4>1
    <3> QED BY <3>1, SliceFact
  <2> QED BY <2>1, <2>2, <2>3
<1>1. ASSUME NEW m \in 1 .. n, NEW x \in T PROVE x \o piece(m) \o new \in T
  BY <1>0, TextAlgebra
<1>p. \A m \in 1 .. n : piece(m) = Slice(s, IF m = 1 THEN 0 ELSE found[m - 1].end, found[m].start)
  BY <1>0 DEF EndOf
<1>2. PICK f \in [0 .. n -> T] : f[0] = <<>> /\ \A m \in 1 .. n : f[m] = step[m][f[m - 1]]
  <2>1. <<>> \in T
    BY ShortTexts
  <2>2. Steps(step, n, T)
    <3> HIDE DEF T, piece
    <3> QED BY <1>1 DEF Steps
  <2> HIDE DEF step, n, T
  <2>3. PICK f : Walks(f, <<>>, step, n, T)
    BY <1>0, <2>1, <2>2, RecursionExists
  <2> QED BY <2>3 DEF Walks
<1> HIDE DEF T, n, piece
<1>3. ASSUME NEW m \in 1 .. n PROVE f[m] = f[m - 1] \o piece(m) \o new
  <2>1. m - 1 \in 0 .. n
    BY <1>0
  <2>2. f[m - 1] \in T
    BY <2>1
  <2> QED BY <1>2, <2>2
<1>4. Writes(f)
  <2>1. f = [m \in 0 .. n |-> f[m]]
    BY <1>2
  <2>2. ASSUME NEW m \in 0 .. n
        PROVE  f[m] = IF m = 0 THEN <<>>
                      ELSE f[m - 1] \o Slice(s, IF m = 1 THEN 0 ELSE found[m - 1].end, found[m].start) \o new
    <3>1. CASE m = 0
      BY <1>2, <3>1
    <3>2. CASE m # 0
      <4>1. m \in 1 .. n
        BY <1>0, <3>2
      <4> QED BY <1>3, <1>p, <3>2, <4>1
    <3> QED BY <3>1, <3>2
  <2> QED BY <2>1, <2>2, Zenon
<1> DEFINE g == CHOOSE h : Writes(h)
<1>5. Writes(g)
  BY <1>4
<1>6. Around(s, found, new) = g[n] \o Slice(s, IF found = <<>> THEN 0 ELSE found[n].end, Len(s))
  BY DEF Around, n
<1> HIDE DEF g
<1>7. /\ g[0] = <<>>
      /\ \A m \in 1 .. n : g[m] = g[m - 1] \o piece(m) \o new
  <2>1. ASSUME NEW m \in 0 .. n
        PROVE  g[m] = IF m = 0 THEN <<>>
                      ELSE g[m - 1] \o Slice(s, IF m = 1 THEN 0 ELSE found[m - 1].end, found[m].start) \o new
    BY <1>5, Zenon
  <2>2. 0 \in 0 .. n /\ \A m \in 1 .. n : m \in 0 .. n /\ m # 0
    BY <1>0
  <2>3. g[0] = <<>>
    BY <2>1, <2>2, Zenon
  <2>4. ASSUME NEW m \in 1 .. n PROVE g[m] = g[m - 1] \o piece(m) \o new
    <3>1. g[m] = g[m - 1] \o Slice(s, IF m = 1 THEN 0 ELSE found[m - 1].end, found[m].start) \o new
      BY <2>1, <2>2, Zenon
    <3> QED BY <1>p, <3>1
  <2> QED BY <2>3, <2>4
<1>8. \A m \in 0 .. n : g[m] \in T
  <2>1. g[0] \in T
    BY <1>7, ShortTexts DEF T
  <2>2. ASSUME NEW m \in 1 .. n, g[m - 1] \in T PROVE g[m] \in T
    BY <1>1, <1>7, <2>2
  <2> QED BY <1>0, <2>1, <2>2, RecursionStays
<1>9. g \in [0 .. n -> T]
  BY <1>5, <1>8
<1>10. (IF found = <<>> THEN 0 ELSE found[n].end) = EndOf(found, n)
  BY <1>0 DEF EndOf
<1> QED BY <1>6, <1>7, <1>9, <1>10 DEF n, T, piece, AroundBy

\* f is the recursive function inside ApplyReplacements.
AppliedBy(f, s, found, new) ==
  /\ f \in [0 .. Len(found) -> Text] /\ f[0] = s
  /\ \A m \in 1 .. Len(found) :
       f[m] = Slice(s, 0, found[Len(found) + 1 - m].start) \o new
                \o Slice(f[m - 1], found[Len(found) + 1 - m].end, Len(f[m - 1]))
  /\ ApplyReplacements(s, found, new) = f[Len(found)]

\* The text behind an offset, which may be behind its end.
LEMMA BackFact ==
  ASSUME NEW s \in Text, NEW a \in Nat
  PROVE  Slice(s, a, Len(s)) \in Text
<1>1. Len(s) \in Nat
  BY TextFact
<1>2. CASE a <= Len(s)
  BY <1>1, <1>2, SliceFact
<1>3. CASE ~(a <= Len(s))
  <2>1. a + 1 > Len(s) /\ a + 1 \in Int /\ Len(s) \in Int
    BY <1>1, <1>3
  <2>2. SubSeq(s, a + 1, Len(s)) = <<>>
    <3>1. s \in Seq(Chars) /\ \A i \in a + 1 .. Len(s) : s[i] \in Chars
      BY <2>1, TextFact
    <3>2. SubSeq(s, a + 1, Len(s)) \in Seq(Chars) /\ Len(SubSeq(s, a + 1, Len(s))) = 0
      BY <2>1, <3>1, SubSeqProperties
    <3> QED BY <3>2, ShortTexts DEF Text
  <2> QED BY <2>2, ShortTexts DEF Slice
<1> QED BY <1>2, <1>3

LEMMA AppliedIs ==
  ASSUME NEW s \in Text, NEW found, InOrder(found, Len(s)), NEW new \in Text
  PROVE  \E f : AppliedBy(f, s, found, new)
<1> DEFINE n == Len(found)  T == Text
           splice(m, x) == Slice(s, 0, found[n + 1 - m].start) \o new \o Slice(x, found[n + 1 - m].end, Len(x))
           step == [m \in 1 .. n |-> [x \in T |-> splice(m, x)]]
           Writes(f) == f = [m \in 0 .. n |-> IF m = 0 THEN s ELSE
             LET at == found[n + 1 - m]
             IN SubSeq(s, 1, at.start) \o new \o SubSeq(f[m - 1], at.end + 1, Len(f[m - 1]))]
<1>0. /\ Len(s) \in Nat /\ n \in Nat
      /\ \A m \in 1 .. n : /\ found[n + 1 - m].start \in Nat /\ found[n + 1 - m].end \in Nat
                           /\ found[n + 1 - m].start <= Len(s)
  <2>1. Len(s) \in Nat
    BY TextFact
  <2>2. n \in Nat
    BY <2>1, InOrderFact
  <2>3. ASSUME NEW m \in 1 .. n
        PROVE  /\ found[n + 1 - m].start \in Nat /\ found[n + 1 - m].end \in Nat
               /\ found[n + 1 - m].start <= Len(s)
    <3>1. n + 1 - m \in 1 .. Len(found)
      BY <2>2
    <3>2. \A i \in 1 .. Len(found) : /\ found[i].start \in Nat /\ found[i].end \in Nat
                                     /\ found[i].start <= found[i].end /\ found[i].end <= Len(s)
      BY <2>1, InOrderFact
    <3> QED BY <2>1, <3>1, <3>2
  <2> QED BY <2>1, <2>2, <2>3
<1>1. ASSUME NEW m \in 1 .. n, NEW x \in T PROVE splice(m, x) \in T
  <2>1. Slice(s, 0, found[n + 1 - m].start) \in Text
    BY <1>0, FrontFact
  <2>2. Slice(x, found[n + 1 - m].end, Len(x)) \in Text
    BY <1>0, BackFact
  <2> QED BY <2>1, <2>2, TextAlgebra
<1>2. PICK f \in [0 .. n -> T] : f[0] = s /\ \A m \in 1 .. n : f[m] = step[m][f[m - 1]]
  <2>2. Steps(step, n, T)
    <3> HIDE DEF T, splice
    <3> QED BY <1>1 DEF Steps
  <2> HIDE DEF step, n, T
  <2>3. PICK f : Walks(f, s, step, n, T)
    BY <1>0, <2>2, RecursionExists DEF T
  <2> QED BY <2>3 DEF Walks
<1> DEFINE spliced(m, x) ==
             LET at == found[n + 1 - m] IN SubSeq(s, 1, at.start) \o new \o SubSeq(x, at.end + 1, Len(x))
<1>p. \A m, x : splice(m, x) = spliced(m, x)
  BY DEF Slice
<1> HIDE DEF splice, T, n
<1>3. ASSUME NEW m \in 1 .. n PROVE f[m] = splice(m, f[m - 1])
  <2>1. m - 1 \in 0 .. n
    BY <1>0
  <2>2. f[m - 1] \in T
    BY <2>1
  <2> QED BY <1>2, <2>2
<1>4. Writes(f)
  <2>1. f = [m \in 0 .. n |-> f[m]]
    BY <1>2
  <2>2. ASSUME NEW m \in 0 .. n PROVE f[m] = IF m = 0 THEN s ELSE spliced(m, f[m - 1])
    <3>1. CASE m = 0
      BY <1>2, <3>1
    <3>2. CASE m # 0
      <4>1. m \in 1 .. n
        BY <1>0, <3>2
      <4>2. f[m] = spliced(m, f[m - 1])
        <5> HIDE DEF spliced
        <5> QED BY <1>3, <1>p, <4>1
      <4> HIDE DEF spliced
      <4> QED BY <3>2, <4>2
    <3> QED BY <3>1, <3>2
  <2> QED BY <2>1, <2>2, Zenon
<1> DEFINE g == CHOOSE h : Writes(h)
<1>5. Writes(g)
  BY <1>4
<1>6. ApplyReplacements(s, found, new) = g[n]
  BY DEF ApplyReplacements, n
<1> HIDE DEF g
<1>7. g[0] = s /\ \A m \in 1 .. n : g[m] = splice(m, g[m - 1])
  <2>1. ASSUME NEW m \in 0 .. n PROVE g[m] = IF m = 0 THEN s ELSE spliced(m, g[m - 1])
    BY <1>5, Zenon
  <2> HIDE DEF spliced
  <2>2. 0 \in 0 .. n /\ \A m \in 1 .. n : m \in 0 .. n /\ m # 0
    BY <1>0
  <2>3. g[0] = s
    BY <2>1, <2>2, Zenon
  <2>4. ASSUME NEW m \in 1 .. n PROVE g[m] = splice(m, g[m - 1])
    BY <1>p, <2>1, <2>2, Zenon
  <2> QED BY <2>3, <2>4
<1>8. \A m \in 0 .. n : g[m] \in T
  <2>1. g[0] \in T
    BY <1>7 DEF T
  <2>2. ASSUME NEW m \in 1 .. n, g[m - 1] \in T PROVE g[m] \in T
    BY <1>1, <1>7, <2>2
  <2> QED BY <1>0, <2>1, <2>2, RecursionStays
<1>9. g \in [0 .. n -> T]
  BY <1>5, <1>8
<1> QED BY <1>6, <1>7, <1>9 DEF n, T, splice, AppliedBy

\* What is behind the offset a of a text whose front is that of s.
LEMMA SpliceBehind ==
  ASSUME NEW s \in Text, NEW a \in Nat, NEW b \in Nat, a <= b, b <= Len(s), NEW t \in Text
  PROVE  Slice(Slice(s, 0, b) \o t, a, Len(Slice(s, 0, b) \o t)) = Slice(s, a, b) \o t
<1> DEFINE x == Slice(s, 0, b)  u == x \o t  m == Len(t)  p == Slice(u, a, b + m)  w == Slice(s, a, b)  q == w \o t
<1>0. Len(s) \in Nat /\ m \in Nat
  BY TextFact
<1>1. x \in Text /\ Len(x) = b /\ \A i \in 1 .. b : x[i] = s[i]
  BY FrontFact
<1>2. u \in Text /\ Len(u) = b + m /\ (\A i \in 1 .. b : u[i] = x[i]) /\ \A j \in 1 .. m : u[b + j] = t[j]
  <2> HIDE DEF x
  <2>1. /\ u \in Text /\ Len(u) = Len(x) + Len(t)
        /\ \A i \in 1 .. Len(x) : u[i] = x[i]
        /\ \A j \in 1 .. Len(t) : u[Len(x) + j] = t[j]
    BY <1>1, TextConcat
  <2> QED BY <1>1, <2>1
<1>3. w \in Text /\ Len(w) = b - a /\ \A i \in 1 .. b - a : w[i] = s[a + i]
  BY SliceFact
<1>4. q \in Text /\ Len(q) = (b - a) + m /\ (\A i \in 1 .. b - a : q[i] = w[i]) /\ \A j \in 1 .. m : q[(b - a) + j] = t[j]
  <2> HIDE DEF w
  <2>1. /\ q \in Text /\ Len(q) = Len(w) + Len(t)
        /\ \A i \in 1 .. Len(w) : q[i] = w[i]
        /\ \A j \in 1 .. Len(t) : q[Len(w) + j] = t[j]
    BY <1>3, TextConcat
  <2> QED BY <1>3, <2>1
<1>5. p \in Text /\ Len(p) = (b + m) - a /\ \A i \in 1 .. (b + m) - a : p[i] = u[a + i]
  <2> HIDE DEF u, m
  <2>1. b + m \in Nat /\ a <= b + m /\ b + m <= Len(u)
    BY <1>0, <1>2
  <2> QED BY <1>2, <2>1, SliceFact
<1> HIDE DEF x, u, m, p, w, q
<1>6. Len(p) = Len(q)
  BY <1>0, <1>4, <1>5
<1>7. ASSUME NEW i \in 1 .. Len(p) PROVE p[i] = q[i]
  <2>1. CASE i <= b - a
    <3>1. i \in 1 .. b - a /\ a + i \in 1 .. b /\ i \in 1 .. (b + m) - a
      BY <1>0, <1>5, <2>1
    <3>2. p[i] = u[a + i] /\ u[a + i] = x[a + i]
      BY <1>2, <1>5, <3>1, Zenon
    <3>3. x[a + i] = s[a + i] /\ q[i] = w[i] /\ w[i] = s[a + i]
      BY <1>1, <1>3, <1>4, <3>1, Zenon
    <3> QED BY <3>2, <3>3, Zenon
  <2>2. CASE ~(i <= b - a)
    <3>1. PICK j \in 1 .. m : i = (b - a) + j
      <4>1. i - (b - a) \in 1 .. m /\ i = (b - a) + (i - (b - a))
        BY <1>0, <1>5, <2>2
      <4> QED BY <4>1
    <3>2. a + i = b + j /\ i \in 1 .. (b + m) - a
      BY <1>0, <3>1
    <3>3. p[i] = u[a + i] /\ u[b + j] = t[j] /\ q[(b - a) + j] = t[j]
      BY <1>2, <1>4, <1>5, <3>1, <3>2, Zenon
    <3> QED BY <3>1, <3>2, <3>3, Zenon
  <2> QED BY <2>1, <2>2
<1>8. p = q
  BY <1>4, <1>5, <1>6, <1>7, TextEqual
<1> QED BY <1>2, <1>8 DEF p, u, x, q, w

\* Replacing from the last match to the first makes of the text what is between the
\* matches, with the new text in between.
LEMMA ApplyIsAround ==
  ASSUME NEW s \in Text, NEW found, InOrder(found, Len(s)), NEW new \in Text
  PROVE  ApplyReplacements(s, found, new) = Around(s, found, new) /\ Around(s, found, new) \in Text
<1> DEFINE n == Len(found)  E(m) == EndOf(found, m)
<1>0. Len(s) \in Nat
  BY TextFact
<1>1. /\ n \in Nat
      /\ \A m \in 1 .. n : /\ found[m].start \in Nat /\ found[m].end \in Nat
                           /\ E(m - 1) \in Nat /\ m - 1 \in 0 .. n
                           /\ E(m - 1) <= found[m].start
                           /\ found[m].start <= found[m].end /\ found[m].end <= Len(s)
      /\ \A m \in 0 .. n : E(m) \in Nat /\ E(m) <= Len(s)
  BY <1>0, InOrderFact
<1>2. PICK f : AroundBy(f, s, found, new)
  BY AroundIs
<1>3. PICK g : AppliedBy(g, s, found, new)
  BY AppliedIs
<1>4. /\ f \in [0 .. n -> Text] /\ f[0] = <<>>
      /\ \A m \in 1 .. n : f[m] = f[m - 1] \o Slice(s, E(m - 1), found[m].start) \o new
      /\ Around(s, found, new) = f[n] \o Slice(s, E(n), Len(s))
  BY <1>2 DEF AroundBy
<1>5. /\ g \in [0 .. n -> Text] /\ g[0] = s
      /\ \A m \in 1 .. n : g[m] = Slice(s, 0, found[n + 1 - m].start) \o new
                                    \o Slice(g[m - 1], found[n + 1 - m].end, Len(g[m - 1]))
      /\ ApplyReplacements(s, found, new) = g[n]
  BY <1>3 DEF AppliedBy
<1>6. /\ \A x, y, z \in Text : (x \o y) \o z = x \o (y \o z)
      /\ \A x, y \in Text : x \o y \in Text
      /\ \A x \in Text : <<>> \o x = x
  BY TextAlgebra
<1> DEFINE A == Around(s, found, new)
           Good == {k \in Nat : k <= n => f[n - k] \o Slice(g[k], E(n - k), Len(g[k])) = A}
<1> HIDE DEF A, n
<1>7. 0 \in Good
  <2>1. n - 0 = n
    BY <1>1
  <2> QED BY <1>4, <1>5, <2>1 DEF A
<1>8. ASSUME NEW k \in Nat, k \in Good PROVE k + 1 \in Good
  <2>0. k + 1 \in Nat
    OBVIOUS
  <2> DEFINE m == n - k  a == found[m].start  b == found[m].end  h == g[k]
             r == Slice(h, b, Len(h))  p == Slice(s, E(m - 1), a)
  <2> SUFFICES ASSUME k + 1 <= n
               PROVE  f[n - (k + 1)] \o Slice(g[k + 1], E(n - (k + 1)), Len(g[k + 1])) = A
    BY <2>0, Zenon
  <2>1. m \in 1 .. n /\ m - 1 \in 0 .. n /\ m \in 0 .. n /\ n - (k + 1) = m - 1 /\ k + 1 \in 1 .. n /\ n + 1 - (k + 1) = m
        /\ (k + 1) - 1 = k /\ k \in 0 .. n /\ k <= n /\ m # 0
    BY <1>1
  <2>2. f[m] \o Slice(h, E(m), Len(h)) = A
    BY <1>8, <2>1, Zenon
  <2>3. E(m) = b
    BY <2>1 DEF EndOf
  <2>4. g[k + 1] = Slice(s, 0, a) \o new \o r
    BY <1>5, <2>1
  <2>5. f[m] = f[m - 1] \o p \o new
    BY <1>4, <2>1
  <2> DEFINE e == E(m - 1)  d == f[m - 1]
  <2>6. a \in Nat /\ b \in Nat /\ e \in Nat /\ e <= a /\ a <= Len(s)
    <3>1. /\ a \in Nat /\ b \in Nat /\ e \in Nat /\ e <= a /\ a <= b /\ b <= Len(s)
      BY <1>1, <2>1
    <3> HIDE DEF a, b, e
    <3> QED BY <1>0, <3>1
  <2>7. d \in Text /\ h \in Text
    <3>1. d \in Text
      BY <1>4, <2>1
    <3>2. h \in Text
      BY <1>5, <2>1
    <3> QED BY <3>1, <3>2
  <2> HIDE DEF a, b, h, e, d
  <2>8. r \in Text /\ p \in Text /\ Slice(s, 0, a) \in Text
    <3>1. p \in Text
      BY <2>6, SliceFact DEF e
    <3> QED BY <2>6, <2>7, <3>1, BackFact, FrontFact
  <2> HIDE DEF r, p
  <2>9. Slice(s, 0, a) \o new \o r = Slice(s, 0, a) \o (new \o r) /\ new \o r \in Text
    BY <2>8, TextAlgebra
  <2>10. Slice(g[k + 1], e, Len(g[k + 1])) = p \o (new \o r)
    <3>1. Slice(Slice(s, 0, a) \o (new \o r), e, Len(Slice(s, 0, a) \o (new \o r))) = Slice(s, e, a) \o (new \o r)
      BY <2>6, <2>9, SpliceBehind
    <3>2. g[k + 1] = Slice(s, 0, a) \o (new \o r)
      BY <2>4, <2>9
    <3>3. p = Slice(s, e, a)
      BY DEF p, e
    <3> QED BY <3>1, <3>2, <3>3
  <2>11. d \o (p \o (new \o r)) = (d \o p \o new) \o r
    <3>1. d \o (p \o (new \o r)) = (d \o p) \o (new \o r)
      BY <2>7, <2>8, <2>9, TextAlgebra
    <3>2. (d \o p) \o (new \o r) = ((d \o p) \o new) \o r
      <4>1. d \o p \in Text
        BY <2>7, <2>8, TextAlgebra
      <4> QED BY <2>8, <4>1, TextAlgebra
    <3> QED BY <3>1, <3>2
  <2>12. f[m] \o r = A
    BY <2>2, <2>3 DEF r
  <2>13. f[m] = d \o p \o new
    BY <2>5 DEF d
  <2>14. f[m - 1] = d /\ E(m - 1) = e
    BY DEF d, e
  <2> QED BY <2>1, <2>10, <2>11, <2>12, <2>13, <2>14
<1> HIDE DEF Good
<1>9. Nat \subseteq Good
  BY <1>7, <1>8, NatSet
<1>10. f[0] \o Slice(g[n], E(0), Len(g[n])) = A
  <2>1. n \in Good /\ n <= n /\ n - n = 0
    BY <1>1, <1>9
  <2> QED BY <2>1, Zenon DEF Good
<1>11. g[n] \in Text /\ Len(g[n]) \in Nat
  <2>1. g[n] \in Text
    BY <1>1, <1>5
  <2> QED BY <2>1, TextFact
<1>12. Slice(g[n], E(0), Len(g[n])) = g[n]
  <2>1. E(0) = 0
    BY DEF EndOf
  <2>2. Slice(g[n], 0, Len(g[n])) = g[n]
    BY <1>11, FrontFact
  <2> QED BY <2>1, <2>2
<1>13. g[n] = A
  BY <1>4, <1>6, <1>10, <1>11, <1>12
<1> QED BY <1>5, <1>11, <1>13 DEF A, n

LEMMA EndsCleanConcat ==
  ASSUME NEW x \in Text, NEW y \in Text, EndsClean(x), EndsClean(y)
  PROVE  EndsClean(x \o y)
<1> DEFINE u == x \o y
<1>1. /\ Len(x) \in Nat /\ Len(y) \in Nat /\ u \in Text /\ Len(u) = Len(x) + Len(y)
      /\ \A i \in 1 .. Len(x) : u[i] = x[i]
      /\ \A j \in 1 .. Len(y) : u[Len(x) + j] = y[j]
  BY TextFact, TextConcat
<1> HIDE DEF u
<1>2. CASE Len(y) = 0
  <2>1. Len(u) = Len(x)
    BY <1>1, <1>2
  <2>2. Len(x) >= 1 => Len(x) \in 1 .. Len(x)
    BY <1>1
  <2>3. Len(x) >= 1 => u[Len(x)] = x[Len(x)]
    BY <1>1, <2>2
  <2> QED BY <2>1, <2>3 DEF EndsClean, u
<1>3. CASE Len(y) # 0
  <2>1. Len(y) \in 1 .. Len(y) /\ Len(y) >= 1
    BY <1>1, <1>3
  <2>2. u[Len(u)] = y[Len(y)]
    BY <1>1, <2>1
  <2> QED BY <2>1, <2>2 DEF EndsClean, u
<1> QED BY <1>2, <1>3

LEMMA NoLoneCREnds ==
  ASSUME NEW s \in Text, NoLoneCR(s)
  PROVE  EndsClean(s)
<1>1. Len(s) \in Nat
  BY TextFact
<1> QED BY <1>1 DEF EndsClean, NoLoneCR, EolMarks

\* What surrounds the matches has its line ends already: only those of the new text change.
LEMMA FormatAround ==
  ASSUME NEW s \in Text, NEW found, InOrder(found, Len(s)), NEW new \in Text, NEW eol,
         Uniform(s, eol), NoLoneCR(new),
         \A m \in 1 .. Len(found) : found[m].start \notin EolMarks(s) /\ found[m].end \notin EolMarks(s)
  PROVE  FormatTextForWrite(Around(s, found, new), eol) = Around(s, found, FormatTextForWrite(new, eol))
<1> DEFINE n == Len(found)  E(m) == EndOf(found, m)  F(x) == FormatTextForWrite(x, eol)
           P(m) == Slice(s, E(m - 1), found[m].start)  q == Slice(s, E(n), Len(s))
           crs == EolMarks(s)
<1>0. Len(s) \in Nat
  BY TextFact
<1>1. /\ n \in Nat
      /\ \A m \in 1 .. n : /\ found[m].start \in Nat /\ found[m].end \in Nat
                           /\ E(m - 1) \in Nat /\ m - 1 \in 0 .. n
                           /\ E(m - 1) <= found[m].start
                           /\ found[m].start <= found[m].end /\ found[m].end <= Len(s)
      /\ \A m \in 0 .. n : E(m) \in Nat /\ E(m) <= Len(s)
  BY <1>0, InOrderFact
<1>n. F(new) \in Text /\ EndsClean(new)
  BY FormatConcat, NoLoneCREnds
<1>2. PICK f : AroundBy(f, s, found, new)
  BY AroundIs
<1>3. PICK g : AroundBy(g, s, found, F(new))
  <2> HIDE DEF F
  <2> QED BY <1>n, AroundIs
<1>4. /\ f \in [0 .. n -> Text] /\ f[0] = <<>>
      /\ \A m \in 1 .. n : f[m] = f[m - 1] \o P(m) \o new
      /\ Around(s, found, new) = f[n] \o q
  BY <1>2 DEF AroundBy
<1>5. /\ g \in [0 .. n -> Text] /\ g[0] = <<>>
      /\ \A m \in 1 .. n : g[m] = g[m - 1] \o P(m) \o F(new)
      /\ Around(s, found, F(new)) = g[n] \o q
  BY <1>3 DEF AroundBy
<1>6. \A m \in 0 .. n : E(m) \notin crs
  <2>1. 0 \notin crs
    BY DEF EolMarks
  <2>2. \A m \in 0 .. n : m = 0 \/ m \in 1 .. n
    BY <1>1
  <2> HIDE DEF crs
  <2>3. \A m \in 1 .. n : found[m].end \notin crs
    BY DEF crs
  <2> QED BY <2>1, <2>2, <2>3 DEF EndOf
<1>7. ASSUME NEW m \in 1 .. n
      PROVE  P(m) \in Text /\ EndsClean(P(m)) /\ F(P(m)) = P(m)
  <2> DEFINE a == E(m - 1)  b == found[m].start
  <2>1. a \in Nat /\ b \in Nat /\ a <= b /\ b <= Len(s)
    <3>1. /\ a \in Nat /\ b \in Nat /\ found[m].end \in Nat /\ a <= b /\ b <= found[m].end /\ found[m].end <= Len(s)
      BY <1>1
    <3> HIDE DEF a, b
    <3> QED BY <1>0, <3>1
  <2>2. a \notin EolMarks(s) /\ b \notin EolMarks(s)
    <3>1. m - 1 \in 0 .. n
      BY <1>1
    <3> QED BY <1>6, <3>1
  <2> HIDE DEF a, b
  <2>3. Slice(s, a, b) \in Text /\ EndsClean(Slice(s, a, b)) /\ Uniform(Slice(s, a, b), eol)
    BY <2>1, <2>2, SliceFact, PieceUniform
  <2>4. FormatTextForWrite(Slice(s, a, b), eol) = Slice(s, a, b)
    BY <2>3, FormatUniform
  <2> QED BY <2>3, <2>4 DEF a, b
<1>8. q \in Text /\ F(q) = q
  <2> DEFINE a == E(n)  b == Len(s)
  <2>1. a \in Nat /\ b \in Nat /\ a <= b /\ b <= Len(s)
    <3>1. n \in 0 .. n
      BY <1>1
    <3>2. a \in Nat /\ a <= Len(s)
      BY <1>1, <3>1
    <3> HIDE DEF a
    <3> QED BY <1>0, <3>2
  <2>2. a \notin EolMarks(s) /\ b \notin EolMarks(s)
    <3>1. n \in 0 .. n
      BY <1>1
    <3>2. b \notin EolMarks(s)
      BY <1>0 DEF EolMarks
    <3> QED BY <1>6, <3>1, <3>2
  <2> HIDE DEF a, b
  <2>3. Slice(s, a, b) \in Text /\ Uniform(Slice(s, a, b), eol)
    BY <2>1, <2>2, SliceFact, PieceUniform
  <2>4. FormatTextForWrite(Slice(s, a, b), eol) = Slice(s, a, b)
    BY <2>3, FormatUniform
  <2> QED BY <2>3, <2>4 DEF a, b
<1> HIDE DEF n, E, F, P, q, crs
<1>9. ASSUME NEW x \in Text, NEW y \in Text, EndsClean(x)
      PROVE  F(x \o y) = F(x) \o F(y)
  BY <1>9, FormatConcat DEF F
<1> DEFINE Good == {k \in Nat : k <= n => F(f[k]) = g[k] /\ EndsClean(f[k])}
<1>10. 0 \in Good
  <2>1. F(<<>>) = <<>>
    BY FormatOne, LineEndFact DEF F
  <2>2. EndsClean(<<>>)
    BY ShortTexts DEF EndsClean
  <2> QED BY <1>4, <1>5, <2>1, <2>2
<1>11. ASSUME NEW k \in Nat, k \in Good PROVE k + 1 \in Good
  <2>0. k + 1 \in Nat
    OBVIOUS
  <2> SUFFICES ASSUME k + 1 <= n PROVE F(f[k + 1]) = g[k + 1] /\ EndsClean(f[k + 1])
    BY <2>0, Zenon
  <2> DEFINE d == f[k]  p == P(k + 1)  w == F(new)
  <2>1. k \in 0 .. n /\ k + 1 \in 1 .. n /\ (k + 1) - 1 = k /\ k <= n
    BY <1>1
  <2>2. F(d) = g[k] /\ EndsClean(d)
    BY <1>11, <2>1, Zenon
  <2>3. d \in Text
    BY <1>4, <2>1
  <2>4. p \in Text /\ EndsClean(p) /\ F(p) = p
    BY <1>7, <2>1
  <2>5. f[k + 1] = d \o p \o new
    BY <1>4, <2>1
  <2>6. g[k + 1] = F(d) \o p \o w
    BY <1>5, <2>1, <2>2
  <2>7. w \in Text
    BY <1>n
  <2> HIDE DEF d, p, w
  <2>8. d \o p \in Text /\ EndsClean(d \o p)
    BY <2>2, <2>3, <2>4, TextAlgebra, EndsCleanConcat
  <2>9. F(d \o p) = F(d) \o p
    BY <1>9, <2>2, <2>3, <2>4
  <2>10. F((d \o p) \o new) = (F(d) \o p) \o w
    BY <1>9, <2>8, <2>9 DEF w
  <2>11. EndsClean((d \o p) \o new)
    BY <1>n, <2>8, EndsCleanConcat
  <2> QED BY <2>5, <2>6, <2>10, <2>11
<1> HIDE DEF Good
<1>12. Nat \subseteq Good
  BY <1>10, <1>11, NatSet
<1>13. F(f[n]) = g[n] /\ EndsClean(f[n])
  <2>1. n \in Good /\ n <= n
    BY <1>1, <1>12
  <2> QED BY <2>1, Zenon DEF Good
<1>14. f[n] \in Text
  BY <1>1, <1>4
<1>15. F(f[n] \o q) = g[n] \o q
  BY <1>8, <1>9, <1>13, <1>14
<1> QED BY <1>4, <1>5, <1>15 DEF F

-----------------------------------------------------------------------------
(* Finding the matches. *)

LEMMA PlacesFact ==
  ASSUME NEW s \in Text, NEW needle \in Text, NEW pos \in Nat
  PROVE  /\ Places(s, needle, pos) \subseteq Nat
         /\ \A i \in Places(s, needle, pos) : pos <= i /\ i + Len(needle) \in 0 .. Len(s) /\ Len(needle) \in Nat
         /\ \A i \in Places(s, needle, pos) : Slice(s, i, i + Len(needle)) = needle
         /\ \A i \in Nat : i \in Places(s, needle, pos) <=> i \in Places(s, needle, 0) /\ pos <= i
<1>1. Len(s) \in Nat /\ Len(needle) \in Nat
  BY TextFact
<1> QED BY <1>1 DEF Places, Slice

LEMMA LowestIs ==
  ASSUME NEW T, T \subseteq Nat, T # {}
  PROVE  Lowest(T) \in T /\ \A j \in T : Lowest(T) <= j
BY LeastNat DEF Lowest

LEMMA NotEmptyText ==
  ASSUME NEW s \in Text, s # <<>>
  PROVE  Len(s) \in Nat /\ Len(s) >= 1
BY TextFact, ShortTexts

\* The occurrences from the offset pos on, when those further behind are known from h.
FoundFrom(h, s, needle, pos) ==
  IF Places(s, needle, pos) = {} THEN <<>>
  ELSE <<Lowest(Places(s, needle, pos))>> \o h[Lowest(Places(s, needle, pos)) + Len(needle)]

LEMMA FoundFromFact ==
  ASSUME NEW s \in Text, NEW needle \in Text, needle # <<>>, NEW pos \in 0 .. Len(s)
  PROVE  /\ \A h \in [0 .. Len(s) -> Seq(Nat)] : FoundFrom(h, s, needle, pos) \in Seq(Nat)
         /\ \A h, g : (\A j \in 0 .. Len(s) : pos < j => h[j] = g[j]) =>
              FoundFrom(h, s, needle, pos) = FoundFrom(g, s, needle, pos)
<1> DEFINE n == Len(s)  w == Len(needle)  P == Places(s, needle, pos)  i == Lowest(P)
<1>1. n \in Nat /\ w \in Nat /\ w >= 1 /\ pos \in Nat
  BY TextFact, NotEmptyText
<1>2. CASE P = {}
  <2>1. <<>> \in Seq(Nat)
    BY EmptySeq
  <2> QED BY <1>2, <2>1 DEF FoundFrom
<1>3. CASE P # {}
  <2>1. P \subseteq Nat /\ \A j \in P : pos <= j /\ j + w \in 0 .. n
    BY <1>1, PlacesFact
  <2> HIDE DEF P
  <2>2. i \in P
    BY <1>3, <2>1, LowestIs
  <2> HIDE DEF i
  <2>3. i \in Nat /\ i + w \in 0 .. n /\ pos < i + w
    BY <1>1, <2>1, <2>2
  <2>4. \A h : FoundFrom(h, s, needle, pos) = <<i>> \o h[i + w]
    BY <1>3 DEF FoundFrom, P, i
  <2>5. <<i>> \in Seq(Nat)
    BY <2>3, OneFact
  <2> HIDE DEF w
  <2>6. ASSUME NEW h \in [0 .. n -> Seq(Nat)] PROVE <<i>> \o h[i + w] \in Seq(Nat)
    <3>1. h[i + w] \in Seq(Nat)
      BY <2>3
    <3> QED BY <2>5, <3>1, ConcatFact
  <2>7. ASSUME NEW h, NEW g, \A j \in 0 .. n : pos < j => h[j] = g[j] PROVE h[i + w] = g[i + w]
    BY <2>3, <2>7
  <2> QED BY <2>4, <2>6, <2>7
<1> QED BY <1>2, <1>3

\* f is the recursive function inside Occurrences.
FindsFrom(f, s, needle) ==
  /\ f \in [0 .. Len(s) -> Seq(Nat)]
  /\ \A pos \in 0 .. Len(s) : f[pos] = FoundFrom(f, s, needle, pos)
  /\ Occurrences(s, needle) = f[0]

LEMMA OccurrencesIs ==
  ASSUME NEW s \in Text, NEW needle \in Text, needle # <<>>
  PROVE  \E f : FindsFrom(f, s, needle)
<1> DEFINE n == Len(s)  F(h, pos) == FoundFrom(h, s, needle, pos)
           Finds(h) == h = [pos \in 0 .. n |->
             IF Places(s, needle, pos) = {} THEN <<>>
             ELSE LET i == Lowest(Places(s, needle, pos)) IN <<i>> \o h[i + Len(needle)]]
           FN == [0 .. n -> Seq(Nat)]
           Good == {k \in Nat : k <= n + 1 => \E h \in FN : \A pos \in 0 .. n : pos + k > n => h[pos] = F(h, pos)}
<1>0. n \in Nat
  BY TextFact
<1>1. ASSUME NEW pos \in 0 .. n
      PROVE  /\ \A h \in FN : F(h, pos) \in Seq(Nat)
             /\ \A h, g : (\A j \in 0 .. n : pos < j => h[j] = g[j]) => F(h, pos) = F(g, pos)
  BY FoundFromFact
<1> HIDE DEF F
<1>2. 0 \in Good
  <2> DEFINE h == [pos \in 0 .. n |-> <<>>]
  <2>1. h \in FN
    BY EmptySeq
  <2>2. \A pos \in 0 .. n : ~(pos + 0 > n)
    BY <1>0
  <2> HIDE DEF h, FN
  <2> QED BY <2>1, <2>2
<1>3. ASSUME NEW k \in Nat, k \in Good PROVE k + 1 \in Good
  <2>0. k + 1 \in Nat
    OBVIOUS
  <2> SUFFICES ASSUME k + 1 <= n + 1
               PROVE  \E h \in FN : \A pos \in 0 .. n : pos + (k + 1) > n => h[pos] = F(h, pos)
    BY <2>0, Zenon
  <2>1. k <= n + 1
    BY <1>0
  <2>2. PICK h \in FN : \A pos \in 0 .. n : pos + k > n => h[pos] = F(h, pos)
    BY <1>3, <2>1, Zenon
  <2> DEFINE d == n - k  g == [h EXCEPT ![d] = F(h, d)]
  <2>3. d \in 0 .. n
    BY <1>0
  <2>4. F(h, d) \in Seq(Nat)
    BY <1>1, <2>2, <2>3
  <2>5. g \in FN /\ g[d] = F(h, d) /\ \A j \in 0 .. n : j # d => g[j] = h[j]
    BY <2>2, <2>3, <2>4
  <2>6. ASSUME NEW pos \in 0 .. n, pos + (k + 1) > n PROVE g[pos] = F(g, pos)
    <3>1. pos >= d
      BY <1>0, <2>6
    <3>2. \A j \in 0 .. n : pos < j => j # d
      BY <1>0, <2>3, <3>1
    <3> HIDE DEF d, g, FN
    <3>3. \A j \in 0 .. n : pos < j => h[j] = g[j]
      BY <2>5, <3>2
    <3>4. F(h, pos) = F(g, pos)
      BY <1>1, <3>3
    <3>5. CASE pos = d
      BY <2>5, <3>4, <3>5
    <3>6. CASE pos # d
      <4>1. pos + k > n
        BY <1>0, <3>1, <3>6 DEF d
      <4> QED BY <2>2, <2>5, <3>4, <3>6, <4>1
    <3> QED BY <3>5, <3>6
  <2> HIDE DEF g, FN
  <2> QED BY <2>5, <2>6
<1> HIDE DEF Good
<1>4. Nat \subseteq Good
  BY <1>2, <1>3, NatSet
<1>5. PICK f \in FN : \A pos \in 0 .. n : f[pos] = F(f, pos)
  <2>1. n + 1 \in Good /\ n + 1 \in Nat /\ n + 1 <= n + 1
    BY <1>0, <1>4
  <2>2. \E h \in FN : \A pos \in 0 .. n : pos + (n + 1) > n => h[pos] = F(h, pos)
    BY <2>1, Zenon DEF Good
  <2>3. \A pos \in 0 .. n : pos + (n + 1) > n
    BY <1>0
  <2> HIDE DEF FN
  <2> QED BY <2>2, <2>3
<1>6. Finds(f)
  <2>1. f = [pos \in 0 .. n |-> f[pos]]
    BY <1>5
  <2>2. ASSUME NEW pos \in 0 .. n
        PROVE  f[pos] = IF Places(s, needle, pos) = {} THEN <<>>
                        ELSE LET i == Lowest(Places(s, needle, pos)) IN <<i>> \o f[i + Len(needle)]
    <3>1. f[pos] = FoundFrom(f, s, needle, pos)
      BY <1>5 DEF F
    <3> QED BY <3>1, Zenon DEF FoundFrom
  <2> QED BY <2>1, <2>2, Zenon
<1> DEFINE g == CHOOSE h : Finds(h)
<1>7. Finds(g)
  BY <1>6
<1>8. Occurrences(s, needle) = g[0]
  BY DEF Occurrences
<1> HIDE DEF g
<1>9. ASSUME NEW pos \in 0 .. n PROVE g[pos] = F(g, pos)
  <2>1. g[pos] = IF Places(s, needle, pos) = {} THEN <<>>
                 ELSE LET i == Lowest(Places(s, needle, pos)) IN <<i>> \o g[i + Len(needle)]
    BY <1>7, Zenon
  <2> QED BY <2>1, Zenon DEF F, FoundFrom
<1>10. \A pos \in 0 .. n : g[pos] = f[pos]
  <2> DEFINE Same == {k \in Nat : \A pos \in 0 .. n : pos + k > n => g[pos] = f[pos]}
  <2>1. 0 \in Same
    <3>1. \A pos \in 0 .. n : ~(pos + 0 > n)
      BY <1>0
    <3> QED BY <3>1
  <2>2. ASSUME NEW k \in Nat, k \in Same PROVE k + 1 \in Same
    <3> SUFFICES ASSUME NEW pos \in 0 .. n, pos + (k + 1) > n PROVE g[pos] = f[pos]
      <4>1. k + 1 \in Nat
        OBVIOUS
      <4> QED BY <4>1, Zenon
    <3>1. \A j \in 0 .. n : pos < j => g[j] = f[j]
      <4>1. \A j \in 0 .. n : pos < j => j + k > n
        BY <1>0
      <4>2. \A j \in 0 .. n : j + k > n => g[j] = f[j]
        BY <2>2, Zenon
      <4> QED BY <4>1, <4>2
    <3>2. F(g, pos) = F(f, pos)
      BY <1>1, <3>1
    <3> QED BY <1>5, <1>9, <3>2
  <2> HIDE DEF Same
  <2>3. Nat \subseteq Same
    BY <2>1, <2>2, NatSet
  <2>4. n + 1 \in Same /\ \A pos \in 0 .. n : pos + (n + 1) > n
    BY <1>0, <2>3
  <2> QED BY <2>4, Zenon DEF Same
<1>11. g[0] = f[0]
  <2>1. 0 \in 0 .. n
    BY <1>0
  <2> QED BY <1>10, <2>1
<1>12. FindsFrom(f, s, needle)
  <2>1. \A pos \in 0 .. n : f[pos] = FoundFrom(f, s, needle, pos)
    BY <1>5 DEF F
  <2> QED BY <1>5, <1>8, <1>11, <2>1 DEF FindsFrom
<1> QED BY <1>12

\* The occurrences do not overlap, and every place where the needle is overlaps one.
Occur(at, s, needle, pos) ==
  /\ at \in Seq(Nat)
  /\ \A k \in 1 .. Len(at) : at[k] \in Places(s, needle, pos)
  /\ \A k \in 1 .. Len(at) : k # 1 => at[k - 1] + Len(needle) <= at[k]
  /\ \A j \in Places(s, needle, pos) : \E k \in 1 .. Len(at) : at[k] <= j /\ j < at[k] + Len(needle)

LEMMA OccurMore ==
  ASSUME NEW s \in Text, NEW needle \in Text, needle # <<>>, NEW pos \in Nat,
         Places(s, needle, pos) # {},
         NEW i, i = Lowest(Places(s, needle, pos)),
         NEW at, Occur(at, s, needle, i + Len(needle))
  PROVE  Occur(<<i>> \o at, s, needle, pos)
<1> DEFINE w == Len(needle)  P == Places(s, needle, pos)  Q == Places(s, needle, i + w)  all == Places(s, needle, 0)
           new == <<i>> \o at
<1>1. /\ P \subseteq Nat /\ \A j \in P : pos <= j /\ j + w \in 0 .. Len(s)
      /\ \A j \in Nat : j \in P <=> j \in all /\ pos <= j
  BY PlacesFact
<1>2. i \in P /\ \A j \in P : i <= j
  <2> HIDE DEF P
  <2> QED BY <1>1, LowestIs DEF P
<1>3. w \in Nat /\ w >= 1
  BY NotEmptyText
<1>4. i \in Nat /\ i + w \in Nat /\ pos <= i
  <2> HIDE DEF P, w
  <2> QED BY <1>1, <1>2, <1>3
<1>5. /\ Q \subseteq Nat
      /\ \A j \in Nat : j \in Q <=> j \in all /\ i + w <= j
  BY <1>4, PlacesFact
<1> HIDE DEF P, Q, w, all
<1>6. /\ at \in Seq(Nat) /\ \A k \in 1 .. Len(at) : at[k] \in Q
      /\ \A k \in 1 .. Len(at) : k # 1 => at[k - 1] + w <= at[k]
      /\ \A j \in Q : \E k \in 1 .. Len(at) : at[k] <= j /\ j < at[k] + w
  BY DEF Occur, Q, w
<1>7. /\ new \in Seq(Nat) /\ Len(at) \in Nat /\ Len(new) = Len(at) + 1 /\ new[1] = i
      /\ \A k \in 1 .. Len(at) : new[k + 1] = at[k]
  <2>1. <<i>> \in Seq(Nat) /\ Len(<<i>>) = 1 /\ <<i>>[1] = i
    BY <1>4, OneFact
  <2> DEFINE o == <<i>>
  <2>2. o \in Seq(Nat) /\ Len(o) = 1 /\ o[1] = i
    BY <2>1
  <2> HIDE DEF o
  <2>a. ASSUME NEW x \in Seq(Nat), NEW y \in Seq(Nat)
        PROVE  /\ x \o y \in Seq(Nat) /\ Len(x \o y) = Len(x) + Len(y)
               /\ \A k \in 1 .. Len(x) : (x \o y)[k] = x[k]
               /\ \A k \in 1 .. Len(y) : (x \o y)[Len(x) + k] = y[k]
    BY ConcatFact
  <2>b. at \in Seq(Nat)
    BY <1>6
  <2>3. /\ o \o at \in Seq(Nat) /\ Len(o \o at) = Len(o) + Len(at)
        /\ \A k \in 1 .. Len(o) : (o \o at)[k] = o[k]
        /\ \A k \in 1 .. Len(at) : (o \o at)[Len(o) + k] = at[k]
    BY <2>a, <2>b, <2>2
  <2>4. Len(at) \in Nat
    BY <1>6, SeqFact
  <2>5. 1 \in 1 .. Len(o) /\ \A k \in 1 .. Len(at) : Len(o) + k = k + 1
    BY <2>2, <2>4
  <2>6. /\ o \o at \in Seq(Nat) /\ Len(o \o at) = Len(at) + 1 /\ (o \o at)[1] = i
        /\ \A k \in 1 .. Len(at) : (o \o at)[k + 1] = at[k]
    BY <2>2, <2>3, <2>4, <2>5
  <2> QED BY <2>4, <2>6 DEF o
<1> HIDE DEF new
<1>8. \A k \in 1 .. Len(at) : at[k] \in Nat /\ at[k] \in all /\ i + w <= at[k]
  BY <1>5, <1>6
<1>9. ASSUME NEW k \in 1 .. Len(new) PROVE k = 1 \/ (k - 1 \in 1 .. Len(at) /\ new[k] = at[k - 1])
  <2> SUFFICES ASSUME k # 1 PROVE k - 1 \in 1 .. Len(at) /\ new[k] = at[k - 1]
    OBVIOUS
  <2>1. k - 1 \in 1 .. Len(at) /\ (k - 1) + 1 = k
    BY <1>7
  <2> QED BY <1>7, <2>1
<1>10. ASSUME NEW k \in 1 .. Len(new) PROVE new[k] \in P
  <2>1. CASE k = 1
    BY <1>2, <1>7, <2>1
  <2>2. CASE k # 1
    <3>1. k - 1 \in 1 .. Len(at) /\ new[k] = at[k - 1]
      BY <1>9, <2>2
    <3>2. new[k] \in Nat /\ new[k] \in all /\ pos <= new[k]
      BY <1>3, <1>4, <1>8, <3>1
    <3> QED BY <1>1, <3>2
  <2> QED BY <2>1, <2>2
<1>11. ASSUME NEW k \in 1 .. Len(new), k # 1 PROVE new[k - 1] + w <= new[k]
  <2>1. k - 1 \in 1 .. Len(at) /\ new[k] = at[k - 1]
    BY <1>9, <1>11
  <2>2. CASE k = 2
    BY <1>7, <1>8, <2>1, <2>2
  <2>3. CASE k # 2
    <3>1. k - 2 \in 1 .. Len(at) /\ (k - 2) + 1 = k - 1 /\ (k - 1) - 1 = k - 2 /\ k - 1 # 1
      BY <1>7, <2>1, <2>3
    <3>2. new[k - 1] = at[k - 2]
      BY <1>7, <3>1
    <3>3. at[k - 2] + w <= at[k - 1]
      BY <1>6, <2>1, <3>1
    <3> QED BY <2>1, <3>2, <3>3
  <2> QED BY <2>2, <2>3
<1>12. ASSUME NEW j \in P PROVE \E k \in 1 .. Len(new) : new[k] <= j /\ j < new[k] + w
  <2>1. j \in Nat /\ j \in all /\ i <= j
    BY <1>1, <1>2
  <2>2. CASE j < i + w
    <3>1. 1 \in 1 .. Len(new)
      BY <1>7
    <3> QED BY <1>7, <2>1, <2>2, <3>1
  <2>3. CASE ~(j < i + w)
    <3>1. j \in Q
      BY <1>3, <1>4, <1>5, <2>1, <2>3
    <3>2. PICK k \in 1 .. Len(at) : at[k] <= j /\ j < at[k] + w
      BY <1>6, <3>1
    <3>3. k + 1 \in 1 .. Len(new) /\ new[k + 1] = at[k]
      BY <1>7
    <3> QED BY <3>2, <3>3
  <2> QED BY <2>2, <2>3
<1> QED BY <1>7, <1>10, <1>11, <1>12 DEF Occur, P, w, new

\* What Occurrences returns.
LEMMA OccurrencesFact ==
  ASSUME NEW s \in Text, NEW needle \in Text, needle # <<>>
  PROVE  Occur(Occurrences(s, needle), s, needle, 0)
<1> DEFINE n == Len(s)  w == Len(needle)
<1>0. n \in Nat /\ w \in Nat /\ w >= 1
  BY TextFact, NotEmptyText
<1>1. PICK f : FindsFrom(f, s, needle)
  BY OccurrencesIs
<1>2. /\ f \in [0 .. n -> Seq(Nat)] /\ Occurrences(s, needle) = f[0]
      /\ \A pos \in 0 .. n : f[pos] = FoundFrom(f, s, needle, pos)
  BY <1>1 DEF FindsFrom
<1> DEFINE Good == {k \in Nat : \A pos \in 0 .. n : pos + k > n => Occur(f[pos], s, needle, pos)}
<1>3. 0 \in Good
  <2>1. \A pos \in 0 .. n : ~(pos + 0 > n)
    BY <1>0
  <2> QED BY <2>1
<1>4. ASSUME NEW k \in Nat, k \in Good PROVE k + 1 \in Good
  <2> SUFFICES ASSUME NEW pos \in 0 .. n, pos + (k + 1) > n PROVE Occur(f[pos], s, needle, pos)
    <3>1. k + 1 \in Nat
      OBVIOUS
    <3> QED BY <3>1, Zenon
  <2>0. pos \in Nat
    BY <1>0
  <2>1. CASE Places(s, needle, pos) = {}
    <3>1. f[pos] = <<>>
      BY <1>2, <2>1 DEF FoundFrom
    <3>2. <<>> \in Seq(Nat) /\ Len(<<>>) = 0
      BY EmptySeq
    <3> QED BY <2>1, <3>1, <3>2 DEF Occur
  <2>2. CASE Places(s, needle, pos) # {}
    <3> DEFINE P == Places(s, needle, pos)  i == Lowest(P)
    <3>1. f[pos] = <<i>> \o f[i + w]
      BY <1>2, <2>2 DEF FoundFrom
    <3>2. P \subseteq Nat /\ \A j \in P : pos <= j /\ j + w \in 0 .. n
      BY <2>0, PlacesFact
    <3> HIDE DEF P, w
    <3>3. i \in P
      BY <2>2, <3>2, LowestIs DEF P
    <3> HIDE DEF i
    <3>4. i + w \in 0 .. n /\ (i + w) + k > n
      BY <1>0, <3>2, <3>3
    <3>5. \A p \in 0 .. n : p + k > n => Occur(f[p], s, needle, p)
      BY <1>4, Zenon
    <3>6. Occur(f[i + w], s, needle, i + w)
      BY <3>4, <3>5
    <3>7. Occur(<<i>> \o f[i + w], s, needle, pos)
      BY <2>0, <2>2, <3>6, OccurMore DEF w, i, P
    <3> QED BY <3>1, <3>7
  <2> QED BY <2>1, <2>2
<1> HIDE DEF Good
<1>5. Nat \subseteq Good
  BY <1>3, <1>4, NatSet
<1>6. Occur(f[0], s, needle, 0)
  <2>1. n + 1 \in Good /\ 0 \in 0 .. n /\ 0 + (n + 1) > n
    BY <1>0, <1>5
  <2>2. \A pos \in 0 .. n : pos + (n + 1) > n => Occur(f[pos], s, needle, pos)
    BY <2>1, Zenon DEF Good
  <2> QED BY <2>1, <2>2
<1> QED BY <1>2, <1>6

\* An offset that is further behind is so in the text as it is.
LEMMA RawOrder ==
  ASSUME NEW kept, NEW keep, NEW len \in Nat, Lists(kept, keep, len),
         NEW i \in 0 .. Len(kept), NEW j \in 0 .. Len(kept), i <= j
  PROVE  /\ RawOffset(kept, i, len) \in Nat /\ RawOffset(kept, j, len) \in Nat
         /\ RawOffset(kept, i, len) <= RawOffset(kept, j, len) /\ RawOffset(kept, j, len) <= len
<1>1. /\ Len(kept) \in Nat /\ \A k \in 1 .. Len(kept) : kept[k] \in 1 .. len
      /\ \A k, l \in 1 .. Len(kept) : k < l => kept[k] < kept[l]
  BY SeqFact DEF Lists
<1> DEFINE R(k) == RawOffset(kept, k, len)
<1>2. ASSUME NEW k \in 0 .. Len(kept)
      PROVE  R(k) \in Nat /\ R(k) <= len
  <2>1. k = Len(kept) \/ k = 0 \/ k \in 1 .. Len(kept)
    BY <1>1
  <2> QED BY <1>1, <2>1 DEF RawOffset
<1>3. R(i) <= R(j)
  <2>1. CASE i = j
    BY <1>2, <2>1
  <2>2. CASE j = Len(kept)
    <3>1. R(j) = len
      BY <2>2 DEF RawOffset
    <3> QED BY <1>2, <3>1
  <2>3. CASE i # j /\ j # Len(kept)
    <3>1. j \in 1 .. Len(kept) /\ i # Len(kept) /\ i < j
      BY <1>1, <2>3
    <3>2. R(j) = kept[j]
      BY <2>3, <3>1 DEF RawOffset
    <3>3. CASE i = 0
      BY <1>1, <3>1, <3>2, <3>3 DEF RawOffset
    <3>4. CASE i # 0
      <4>1. i \in 1 .. Len(kept) /\ R(i) = kept[i]
        BY <1>1, <3>1, <3>4 DEF RawOffset
      <4> QED BY <1>1, <3>1, <3>2, <4>1
    <3> QED BY <3>3, <3>4
  <2> QED BY <2>1, <2>2, <2>3
<1> QED BY <1>2, <1>3

\* The matches of a mode are in order, and each is at a place where the normalized needle is.
LEMMA MatchesFact ==
  ASSUME NEW s \in Text, NEW needle \in Text, NEW mode
  PROVE  LET found == MatchesIn(s, needle, mode)
             kept  == Kept(s, Noticed(s, mode))
             w     == Len(Normal(needle, mode))
             at    == Occurrences(Normal(s, mode), Normal(needle, mode))
         IN /\ InOrder(found, Len(s)) /\ Len(found) = Len(at)
            /\ Normal(needle, mode) = <<>> => at = <<>>
            /\ Normal(needle, mode) # <<>> => Occur(at, Normal(s, mode), Normal(needle, mode), 0)
            /\ \A m \in 1 .. Len(found) :
                 /\ at[m] \in Nat /\ at[m] + w \in 0 .. Len(kept) /\ w >= 1
                 /\ Slice(Normal(s, mode), at[m], at[m] + w) = Normal(needle, mode)
                 /\ found[m].start = RawOffset(kept, at[m], Len(s))
                 /\ found[m].end = RawOffset(kept, at[m] + w, Len(s))
<1> DEFINE t == Normal(s, mode)  o == Normal(needle, mode)  kept == Kept(s, Noticed(s, mode))
           w == Len(o)  at == Occurrences(t, o)  len == Len(s)
           found == [m \in 1 .. Len(at) |->
             [start |-> RawOffset(kept, at[m], len), end |-> RawOffset(kept, at[m] + w, len)]]
<1>0. MatchesIn(s, needle, mode) = found
  BY DEF MatchesIn, RawMatches
<1>1. t \in Text /\ o \in Text /\ w \in Nat /\ len \in Nat /\ Len(t) = Len(kept) /\ Len(kept) \in Nat
  <2>1. t \in Text /\ o \in Text /\ Len(t) = Len(kept) /\ Len(kept) \in Nat
    BY GatheredIs DEF Normal
  <2> HIDE DEF t, o, kept
  <2> QED BY <2>1, TextFact
<1>2. Lists(kept, Noticed(s, mode), len)
  BY <1>1, KeptLists
<1>3. o = <<>> => at = <<>>
  BY DEF Occurrences
<1>4. o # <<>> => Occur(at, t, o, 0) /\ w >= 1
  <2> HIDE DEF t, o
  <2> QED BY <1>1, OccurrencesFact, NotEmptyText
<1> HIDE DEF t, o, kept, len
<1>5. /\ at \in Seq(Nat) /\ Len(at) \in Nat
      /\ \A m \in 1 .. Len(at) : /\ at[m] \in Nat /\ at[m] + w \in 0 .. Len(kept) /\ w >= 1
                                 /\ Slice(t, at[m], at[m] + w) = o
      /\ \A m \in 1 .. Len(at) : m # 1 => at[m - 1] + w <= at[m]
  <2>1. CASE o = <<>>
    <3>1. Len(at) = 0 /\ at \in Seq(Nat)
      <4> HIDE DEF at
      <4> QED BY <1>3, <2>1, EmptySeq
    <3> QED BY <3>1
  <2>2. CASE o # <<>>
    <3>1. /\ at \in Seq(Nat) /\ \A k \in 1 .. Len(at) : at[k] \in Places(t, o, 0)
          /\ \A k \in 1 .. Len(at) : k # 1 => at[k - 1] + w <= at[k]
      BY <1>4, <2>2 DEF Occur
    <3>2. Len(at) \in Nat
      BY <3>1, SeqFact
    <3>3. \A i \in Places(t, o, 0) : i \in Nat /\ i + w \in 0 .. Len(t) /\ Slice(t, i, i + w) = o
      BY <1>1, PlacesFact
    <3> HIDE DEF at, w
    <3> QED BY <1>1, <1>4, <2>2, <3>1, <3>2, <3>3
  <2> QED BY <2>1, <2>2
<1> HIDE DEF at, w
<1>6. ASSUME NEW m \in 1 .. Len(at)
      PROVE  /\ found[m].start = RawOffset(kept, at[m], len) /\ found[m].end = RawOffset(kept, at[m] + w, len)
             /\ found[m].start \in Nat /\ found[m].end \in Nat
             /\ found[m].start <= found[m].end /\ found[m].end <= len
  <2>1. found[m].start = RawOffset(kept, at[m], len) /\ found[m].end = RawOffset(kept, at[m] + w, len)
    OBVIOUS
  <2> HIDE DEF found
  <2> DEFINE i == at[m]  j == at[m] + w
  <2>2. i \in 0 .. Len(kept) /\ j \in 0 .. Len(kept) /\ i <= j
    BY <1>1, <1>5
  <2> HIDE DEF i, j
  <2>3. /\ RawOffset(kept, i, len) \in Nat /\ RawOffset(kept, j, len) \in Nat
        /\ RawOffset(kept, i, len) <= RawOffset(kept, j, len) /\ RawOffset(kept, j, len) <= len
    BY <1>1, <1>2, <2>2, RawOrder
  <2> QED BY <2>1, <2>3 DEF i, j
<1>7. found \in Seq([start : Nat, end : Nat]) /\ Len(found) = Len(at)
  <2> DEFINE R == [start : Nat, end : Nat]
  <2>1. ASSUME NEW m \in 1 .. Len(at) PROVE found[m] \in R
    <3>1. RawOffset(kept, at[m], len) \in Nat /\ RawOffset(kept, at[m] + w, len) \in Nat
      BY <1>6
    <3> QED BY <3>1
  <2>2. found = [m \in 1 .. Len(at) |-> found[m]]
    OBVIOUS
  <2> HIDE DEF found, R
  <2>3. found \in [1 .. Len(at) -> R]
    BY <2>1, <2>2
  <2>4. found \in Seq(R) /\ Len(found) = Len(at)
    BY <1>5, <2>3, SeqDef
  <2> QED BY <2>4 DEF R
<1>8. ASSUME NEW m \in 1 .. Len(at) PROVE EndOf(found, m - 1) <= found[m].start
  <2>1. CASE m = 1
    BY <1>6, <2>1 DEF EndOf
  <2>2. CASE m # 1
    <3>1. m - 1 \in 1 .. Len(at) /\ m - 1 # 0
      BY <1>5, <2>2
    <3> DEFINE i == at[m - 1] + w  j == at[m]
    <3>2. i \in 0 .. Len(kept) /\ j \in 0 .. Len(kept) /\ i <= j
      <4>1. i \in 0 .. Len(kept) /\ i <= j
        BY <1>5, <2>2, <3>1
      <4>2. j \in Nat /\ j + w \in 0 .. Len(kept)
        BY <1>5
      <4> HIDE DEF i, j
      <4> QED BY <1>1, <4>1, <4>2
    <3>3. found[m - 1].end = RawOffset(kept, i, len) /\ found[m].start = RawOffset(kept, j, len)
      <4> HIDE DEF found
      <4> QED BY <1>6, <3>1
    <3> HIDE DEF i, j, found
    <3>4. RawOffset(kept, i, len) <= RawOffset(kept, j, len)
      BY <1>1, <1>2, <3>2, RawOrder
    <3>5. EndOf(found, m - 1) = found[m - 1].end
      BY <3>1 DEF EndOf
    <3> QED BY <3>3, <3>4, <3>5
  <2> QED BY <2>1, <2>2
<1> HIDE DEF found
<1>9. InOrder(found, len)
  BY <1>6, <1>7, <1>8 DEF InOrder
<1>10. /\ InOrder(found, len) /\ Len(found) = Len(at)
       /\ o = <<>> => at = <<>>
       /\ o # <<>> => Occur(at, t, o, 0)
       /\ \A m \in 1 .. Len(found) :
            /\ at[m] \in Nat /\ at[m] + w \in 0 .. Len(kept) /\ w >= 1
            /\ Slice(t, at[m], at[m] + w) = o
            /\ found[m].start = RawOffset(kept, at[m], len)
            /\ found[m].end = RawOffset(kept, at[m] + w, len)
  BY <1>3, <1>4, <1>5, <1>6, <1>7, <1>9
<1> QED BY <1>0, <1>10 DEF t, o, w, at, kept, len

\* Two of the matches are in order when all are.
LEMMA UpToTwoFact ==
  ASSUME NEW found, NEW n \in Nat, InOrder(found, n), NEW all
  PROVE  /\ InOrder(UpToTwo(found, all), n)
         /\ UpToTwo(found, all) = <<>> <=> found = <<>>
         /\ Len(UpToTwo(found, all)) \in Nat /\ Len(UpToTwo(found, all)) <= Len(found)
         /\ \A m \in 1 .. Len(UpToTwo(found, all)) : UpToTwo(found, all)[m] = found[m]
         /\ Len(UpToTwo(found, all)) = 1 /\ ~all => Len(found) = 1
<1>1. /\ Len(found) \in Nat /\ found \in Seq([start : Nat, end : Nat]) /\ (found = <<>> <=> Len(found) = 0)
  BY InOrderFact DEF InOrder
<1>2. CASE all \/ Len(found) < 2
  BY <1>1, <1>2 DEF UpToTwo
<1>3. CASE ~(all \/ Len(found) < 2)
  <2> DEFINE R == [start : Nat, end : Nat]  two == SubSeq(found, 1, 2)
  <2>1. two \in Seq(R) /\ Len(two) = 2 /\ \A m \in 1 .. 2 : two[m] = found[m]
    <3>a. found \in Seq(R)
      BY <1>1
    <3> HIDE DEF R
    <3>b. \A i \in 1 .. Len(found) : found[i] \in R
      BY <3>a, SeqFact
    <3>1. \A i \in 1 .. 2 : found[i] \in R
      BY <1>1, <1>3, <3>b
    <3>2. /\ two \in Seq(R) /\ Len(two) = 2 - 1 + 1
          /\ \A i \in 1 .. 2 - 1 + 1 : two[i] = found[1 + i - 1]
      BY <3>1, SubSeqProperties
    <3>3. \A i \in 1 .. 2 : 1 + i - 1 = i
      OBVIOUS
    <3> QED BY <3>2, <3>3
  <2>2. UpToTwo(found, all) = two
    BY <1>3 DEF UpToTwo
  <2> HIDE DEF two
  <2>3. \A m \in 1 .. 2 : m \in 1 .. Len(found)
    BY <1>1, <1>3
  <2>4. InOrder(two, n)
    <3>1. \A m \in 1 .. 2 : EndOf(two, m - 1) = EndOf(found, m - 1)
      BY <2>1 DEF EndOf
    <3>2. \A m \in 1 .. 2 : EndOf(two, m - 1) <= two[m].start /\ two[m].start <= two[m].end /\ two[m].end <= n
      BY <2>1, <2>3, <3>1 DEF InOrder
    <3> QED BY <2>1, <3>2 DEF InOrder
  <2>5. two # <<>>
    BY <2>1, EmptySeq
  <2>6. /\ InOrder(two, n) /\ (two = <<>> <=> found = <<>>)
        /\ Len(two) \in Nat /\ Len(two) <= Len(found) /\ Len(two) # 1
        /\ \A m \in 1 .. Len(two) : two[m] = found[m]
    <3>1. found # <<>>
      BY <1>1, <1>3
    <3> QED BY <1>1, <1>3, <2>1, <2>4, <2>5, <3>1
  <2> QED BY <2>2, <2>6
<1> QED BY <1>2, <1>3

\* What findTextMatches returns is in order.
LEMMA FindInOrder ==
  ASSUME NEW s \in Text, NEW needle \in Text, NEW all
  PROVE  InOrder(FindTextMatches(s, needle, all), Len(s))
<1>1. Len(s) \in Nat
  BY TextFact
<1>2. InOrder(<<>>, Len(s))
  BY EmptySeq DEF InOrder
<1>3. \A mode : InOrder(MatchesIn(s, needle, mode), Len(s))
  BY MatchesFact
<1> DEFINE e == MatchesIn(s, needle, "exact")
           l == IF HasCR(s) \/ HasCR(needle) THEN MatchesIn(s, needle, "eol_normalized") ELSE <<>>
           b == IF HasBlankTail(s) \/ HasBlankTail(needle)
                  THEN MatchesIn(s, needle, "trailing_whitespace_normalized") ELSE <<>>
<1>4. InOrder(e, Len(s)) /\ InOrder(l, Len(s)) /\ InOrder(b, Len(s))
  BY <1>2, <1>3
<1>5. FindTextMatches(s, needle, all) = UpToTwo(FirstFound(e, l, b), all)
  BY DEF FindTextMatches
<1> HIDE DEF e, l, b
<1>6. InOrder(FirstFound(e, l, b), Len(s))
  BY <1>4 DEF FirstFound
<1> QED BY <1>1, <1>5, <1>6, UpToTwoFact

-----------------------------------------------------------------------------
(* What the modes overlook. *)

LEMMA ModesFact ==
  \A s : /\ Noticed(s, "exact") = 1 .. Len(s)
         /\ Noticed(s, "eol_normalized") = (1 .. Len(s)) \ EolMarks(s)
         /\ Noticed(s, "trailing_whitespace_normalized") = (1 .. Len(s)) \ LineTails(s)
BY DEF Noticed, Overlooked

\* As many of the kept positions are in front of a raw offset as belong there.
LEMMA RawSplits ==
  ASSUME NEW kept, NEW keep, NEW len \in Nat, Lists(kept, keep, len), NEW i \in 0 .. Len(kept)
  PROVE  Splits(kept, RawOffset(kept, i, len), i)
<1>1. /\ Len(kept) \in Nat /\ \A k \in 1 .. Len(kept) : kept[k] \in 1 .. len
      /\ \A k, l \in 1 .. Len(kept) : k < l => kept[k] < kept[l]
  BY SeqFact DEF Lists
<1> DEFINE r == RawOffset(kept, i, len)
<1>2. ASSUME NEW k \in 1 .. Len(kept) PROVE kept[k] <= r <=> k <= i
  <2>1. CASE i = Len(kept)
    BY <1>1, <2>1 DEF RawOffset
  <2>2. CASE i # Len(kept) /\ i = 0
    BY <1>1, <2>2 DEF RawOffset
  <2>3. CASE i # Len(kept) /\ i # 0
    <3>1. i \in 1 .. Len(kept) /\ r = kept[i]
      BY <1>1, <2>3 DEF RawOffset
    <3> HIDE DEF r
    <3>2. k < i \/ k = i \/ i < k
      BY <1>1
    <3>3. k < i => kept[k] < kept[i]
      BY <1>1, <3>1
    <3>4. i < k => kept[i] < kept[k]
      BY <1>1, <3>1
    <3>5. kept[k] \in Nat /\ kept[i] \in Nat
      BY <1>1, <3>1
    <3> QED BY <3>1, <3>2, <3>3, <3>4, <3>5
  <2> QED BY <2>1, <2>2, <2>3
<1> QED BY <1>2 DEF Splits

\* Nothing is overlooked where the match is to be exact.
LEMMA ExactFact ==
  ASSUME NEW s \in Text
  PROVE  /\ Normal(s, "exact") = s
         /\ Len(Kept(s, Noticed(s, "exact"))) = Len(s)
         /\ \A i \in 0 .. Len(s) : RawOffset(Kept(s, Noticed(s, "exact")), i, Len(s)) = i
<1> DEFINE n == Len(s)  keep == Noticed(s, "exact")  kept == Kept(s, keep)
<1>1. n \in Nat
  BY TextFact
<1>2. 1 .. n \subseteq keep
  BY ModesFact
<1>3. Gathered(s, keep) = s /\ kept = [i \in 1 .. n |-> i]
  BY <1>2, GatheredAll
<1> HIDE DEF keep
<1>4. Len(kept) = n
  <2>1. Len(kept) = Len(s)
    BY <1>3, GatheredIs
  <2> QED BY <2>1
<1>5. ASSUME NEW i \in 0 .. n PROVE RawOffset(kept, i, n) = i
  <2>1. i \in 1 .. n => kept[i] = i
    BY <1>3
  <2>2. i = n \/ i = 0 \/ i \in 1 .. n
    BY <1>1
  <2> HIDE DEF kept
  <2> QED BY <1>1, <1>4, <2>1, <2>2 DEF RawOffset
<1> QED BY <1>3, <1>4, <1>5 DEF Normal, keep

\* The last character that is kept is not a blank.
LEMMA NoBlankLast ==
  ASSUME NEW s \in Text, NEW l \in 1 .. Len(s), l \notin LineTails(s),
         \A k \in l + 1 .. Len(s) : k \in LineTails(s)
  PROVE  s[l] # SP
<1> DEFINE n == Len(s)
<1>1. n \in Nat
  BY TextFact
<1> SUFFICES ASSUME s[l] = SP PROVE FALSE
  OBVIOUS
<1>2. ASSUME NEW k \in l .. n PROVE s[k] = SP \/ k \in EolMarks(s)
  <2>1. CASE k = l
    BY <2>1
  <2>2. CASE k # l
    <3>1. k \in LineTails(s)
      BY <1>1, <2>2
    <3> QED BY <3>1 DEF LineTails
  <2> QED BY <2>1, <2>2
<1>3. l \in LineTails(s)
  <2>1. n \in l .. n /\ n = Len(s)
    BY <1>1
  <2>2. \E j \in l .. Len(s) : /\ \A k \in l .. j : s[k] = SP \/ k \in EolMarks(s)
                               /\ j = Len(s) \/ s[j + 1] = LF
    BY <1>2, <2>1
  <2> QED BY <2>2 DEF LineTails
<1> QED BY <1>3

LEMMA BlanklessLast ==
  ASSUME NEW s \in Text, Blankless(s) # <<>>
  PROVE  LET kept == Kept(s, Noticed(s, "trailing_whitespace_normalized"))
             l    == kept[Len(kept)]
         IN /\ Len(Blankless(s)) = Len(kept) /\ Len(kept) \in Nat /\ Len(kept) >= 1
            /\ l \in 1 .. Len(s) /\ l \notin LineTails(s) /\ s[l] # SP /\ Blankless(s)[Len(kept)] = s[l]
            /\ \A k \in 1 .. Len(kept) : kept[k] <= l
<1> DEFINE keep == Noticed(s, "trailing_whitespace_normalized")  kept == Kept(s, keep)  n == Len(kept)  l == kept[n]
           g == Gathered(s, keep)
<1>0. Blankless(s) = g
  BY DEF Blankless, Normal
<1>1. Len(s) \in Nat /\ \A i \in 1 .. Len(s) : i \in keep <=> i \notin LineTails(s)
  <2>1. Len(s) \in Nat
    BY TextFact
  <2> QED BY <2>1, ModesFact
<1>2. Lists(kept, keep, Len(s))
  BY <1>1, KeptLists
<1>3. g \in Text /\ Len(g) = n /\ n \in Nat /\ \A i \in 1 .. n : g[i] = s[kept[i]]
  BY GatheredIs
<1> HIDE DEF g, keep, kept
<1>4. /\ \A i \in 1 .. n : kept[i] \in keep /\ kept[i] \in 1 .. Len(s)
      /\ \A i, j \in 1 .. n : i < j => kept[i] < kept[j]
      /\ \A i \in 1 .. Len(s) : i \in keep => \E a \in 1 .. n : kept[a] = i
  BY <1>2 DEF Lists
<1>5. n >= 1 /\ n \in 1 .. n
  <2>1. g # <<>>
    BY <1>0
  <2> QED BY <1>3, <2>1, ShortTexts
<1>6. l \in 1 .. Len(s) /\ l \in keep /\ \A k \in 1 .. n : kept[k] <= l
  <2>1. ASSUME NEW k \in 1 .. n PROVE kept[k] <= kept[n]
    <3>1. CASE k = n
      BY <1>1, <1>4, <1>5, <3>1
    <3>2. CASE k # n
      <4>1. k < n
        BY <1>3, <3>2
      <4> QED BY <1>1, <1>4, <1>5, <4>1
    <3> QED BY <3>1, <3>2
  <2> QED BY <1>4, <1>5, <2>1
<1>7. \A k \in l + 1 .. Len(s) : k \in LineTails(s)
  <2> SUFFICES ASSUME NEW k \in l + 1 .. Len(s), k \notin LineTails(s) PROVE FALSE
    OBVIOUS
  <2>1. k \in 1 .. Len(s) /\ k > l
    BY <1>1, <1>6
  <2>2. PICK a \in 1 .. n : kept[a] = k
    BY <1>1, <1>4, <2>1
  <2>3. k <= l
    BY <1>6, <2>2
  <2> QED BY <1>1, <1>6, <2>1, <2>3
<1>8. l \notin LineTails(s) /\ s[l] # SP
  <2>1. l \notin LineTails(s)
    BY <1>1, <1>6
  <2> QED BY <1>6, <1>7, <2>1, NoBlankLast
<1>9. g[n] = s[l]
  BY <1>3, <1>5
<1>10. Len(g) = n
  BY <1>3
<1> QED BY <1>0, <1>3, <1>5, <1>6, <1>8, <1>9, <1>10 DEF kept, keep

\* The CRs of the CRLFs in a part of the text.
LEMMA SliceMarks ==
  ASSUME NEW s \in Text, NEW a \in Nat, NEW b \in Nat, a <= b, b <= Len(s), NEW i \in 1 .. b - a
  PROVE  i \in EolMarks(Slice(s, a, b)) <=> a + i \in EolMarks(s) /\ i # b - a
<1> DEFINE p == Slice(s, a, b)  m == b - a
<1>1. p \in Text /\ Len(p) = m /\ \A k \in 1 .. m : p[k] = s[a + k]
  BY SliceFact
<1>2. Len(s) \in Nat /\ m \in Nat
  BY TextFact
<1> HIDE DEF p
<1>3. CASE i = m
  <2>1. i \notin 1 .. Len(p) - 1
    BY <1>1, <1>2, <1>3
  <2> QED BY <1>3, <2>1 DEF EolMarks, p
<1>4. CASE i # m
  <2>1. i + 1 \in 1 .. m /\ i \in 1 .. Len(p) - 1 /\ a + i \in 1 .. Len(s) - 1 /\ (a + i) + 1 = a + (i + 1)
    BY <1>1, <1>2, <1>4
  <2>2. p[i] = s[a + i] /\ p[i + 1] = s[(a + i) + 1]
    BY <1>1, <2>1
  <2> QED BY <1>4, <2>1, <2>2 DEF EolMarks, p
<1> QED BY <1>3, <1>4

\* In a part of the text that ends behind a character other than a blank, or where the
\* text ends, the same is overlooked as in the text.
LEMMA SliceTails ==
  ASSUME NEW s \in Text, NEW a \in Nat, NEW b \in Nat, a <= b, b <= Len(s),
         b = Len(s) \/ (b \notin EolMarks(s) /\ s[b] # SP),
         NEW i \in 1 .. b - a
  PROVE  i \in LineTails(Slice(s, a, b)) <=> a + i \in LineTails(s)
<1> DEFINE p == Slice(s, a, b)  m == b - a  n == Len(s)
<1>1. p \in Text /\ Len(p) = m /\ \A k \in 1 .. m : p[k] = s[a + k]
  BY SliceFact
<1>2. n \in Nat /\ m \in Nat
  BY TextFact
<1>3. ASSUME NEW k \in 1 .. m PROVE k \in EolMarks(p) <=> a + k \in EolMarks(s)
  <2>1. k \in EolMarks(p) <=> a + k \in EolMarks(s) /\ k # m
    BY SliceMarks
  <2>2. k = m => a + k = b
    BY <1>2
  <2>3. n \notin EolMarks(s)
    BY <1>2 DEF EolMarks
  <2> QED BY <2>1, <2>2, <2>3
<1> HIDE DEF p, n
<1>4. a + i \in 1 .. n /\ p[i] = s[a + i]
  BY <1>1, <1>2 DEF n
<1> DEFINE Blank(k) == s[k] = SP \/ k \in EolMarks(s)
           RunP == \E j \in i .. m : /\ \A k \in i .. j : p[k] = SP \/ k \in EolMarks(p)
                                     /\ j = m \/ p[j + 1] = LF
           RunS == \E j \in a + i .. n : /\ \A k \in a + i .. j : Blank(k)
                                         /\ j = n \/ s[j + 1] = LF
<1>5. ASSUME NEW k \in 1 .. m PROVE (p[k] = SP \/ k \in EolMarks(p)) <=> Blank(a + k)
  BY <1>1, <1>3
<1>6. b = n \/ ~Blank(b)
  BY DEF n
<1> HIDE DEF Blank
<1>7. ASSUME RunP PROVE RunS
  <2>1. PICK j \in i .. m : /\ \A k \in i .. j : p[k] = SP \/ k \in EolMarks(p)
                            /\ j = m \/ p[j + 1] = LF
    BY <1>7
  <2>2. a + j \in a + i .. n
    BY <1>2 DEF n
  <2>3. ASSUME NEW k \in a + i .. a + j PROVE Blank(k)
    <3>1. k - a \in i .. j /\ k - a \in 1 .. m /\ a + (k - a) = k
      BY <1>2
    <3> QED BY <1>5, <2>1, <3>1
  <2>4. a + j = n \/ s[(a + j) + 1] = LF
    <3>1. CASE j = m
      <4>1. a + j = b /\ b \in a + i .. a + j
        BY <1>2, <3>1
      <4> QED BY <1>6, <2>3, <4>1
    <3>2. CASE j # m
      <4>1. j + 1 \in 1 .. m /\ (a + j) + 1 = a + (j + 1)
        BY <1>2, <3>2
      <4>2. p[j + 1] = s[a + (j + 1)]
        BY <1>1, <4>1
      <4> QED BY <2>1, <3>2, <4>1, <4>2
    <3> QED BY <3>1, <3>2
  <2> QED BY <2>2, <2>3, <2>4
<1>8. ASSUME RunS PROVE RunP
  <2>1. PICK j \in a + i .. n : (\A k \in a + i .. j : Blank(k)) /\ (j = n \/ s[j + 1] = LF)
    BY <1>8
  <2>2. j < b \/ b = n
    <3>1. j >= b => b \in a + i .. j
      BY <1>2
    <3>2. j >= b => Blank(b)
      BY <2>1, <3>1
    <3> QED BY <1>2, <1>6, <3>2
  <2>3. j - a \in i .. m /\ j <= b
    BY <1>2, <2>2 DEF n
  <2>4. ASSUME NEW k \in i .. j - a PROVE p[k] = SP \/ k \in EolMarks(p)
    <3>1. k \in 1 .. m /\ a + k \in a + i .. j
      BY <1>2, <2>3
    <3> QED BY <1>5, <2>1, <3>1
  <2>5. j - a = m \/ p[(j - a) + 1] = LF
    <3>1. CASE j = b
      BY <1>2, <3>1
    <3>2. CASE j # b
      <4>1. (j - a) + 1 \in 1 .. m /\ a + ((j - a) + 1) = j + 1 /\ j # n
        BY <1>2, <2>3, <3>2 DEF n
      <4>2. p[(j - a) + 1] = s[j + 1]
        BY <1>1, <4>1
      <4> QED BY <2>1, <4>1, <4>2
    <3> QED BY <3>1, <3>2
  <2> QED BY <2>3, <2>4, <2>5
<1>9. i \in LineTails(p) <=> i \in EolMarks(p) \/ (p[i] = SP /\ RunP)
  <2>1. i \in 1 .. Len(p)
    BY <1>1
  <2> QED BY <1>1, <2>1 DEF LineTails
<1>10. a + i \in LineTails(s) <=> a + i \in EolMarks(s) \/ (s[a + i] = SP /\ RunS)
  BY <1>4 DEF LineTails, n, Blank
<1> HIDE DEF RunP, RunS
<1> QED BY <1>3, <1>4, <1>7, <1>8, <1>9, <1>10 DEF p

LEMMA TailFact ==
  ASSUME NEW s, NEW c \in 1 .. Len(s)
  PROVE  c \in LineTails(s) <=>
           \/ c \in EolMarks(s)
           \/ s[c] = SP /\ \E j \in c .. Len(s) : /\ \A k \in c .. j : s[k] = SP \/ k \in EolMarks(s)
                                                  /\ j = Len(s) \/ s[j + 1] = LF
BY DEF LineTails

\* Of two texts that differ in the kind of their line ends the same remains.
LEMMA LfBlankless ==
  ASSUME NEW s \in Text, \A i \in 1 .. Len(ToLf(s)) : ToLf(s)[i] # CR
  PROVE  Blankless(s) = Blankless(ToLf(s))
<1> DEFINE n == Len(s)  E == Noticed(s, "eol_normalized")  kept == Kept(s, E)  y == ToLf(s)  q == Len(y)
           T == Noticed(y, "trailing_whitespace_normalized")  at == Kept(y, T)
           B == Noticed(s, "trailing_whitespace_normalized")
           comp == [k \in 1 .. Len(at) |-> kept[at[k]]]
<1>1. /\ y = Gathered(s, E) /\ y \in Text /\ q = Len(kept) /\ q \in Nat /\ n \in Nat
      /\ \A i \in 1 .. q : y[i] = s[kept[i]]
  <2>1. y = Gathered(s, E)
    BY DEF ToLf, Normal
  <2>2. n \in Nat
    BY TextFact
  <2> HIDE DEF E
  <2>3. /\ Gathered(s, E) \in Text /\ Len(Gathered(s, E)) = Len(kept) /\ Len(kept) \in Nat
        /\ \A i \in 1 .. Len(kept) : Gathered(s, E)[i] = s[kept[i]]
    BY GatheredIs
  <2> HIDE DEF y, kept
  <2> QED BY <2>1, <2>2, <2>3
<1>2. /\ \A i \in 1 .. n : i \in E <=> i \notin EolMarks(s)
      /\ \A i \in 1 .. n : i \in B <=> i \notin LineTails(s)
      /\ \A i \in 1 .. q : i \in T <=> i \notin LineTails(y)
  BY ModesFact
<1>3. Lists(kept, E, n) /\ Lists(at, T, q)
  <2>1. Lists(kept, E, n)
    BY <1>1, KeptLists
  <2>2. Lists(at, T, q)
    <3> HIDE DEF y, T
    <3> QED BY <1>1, KeptLists
  <2> QED BY <2>1, <2>2
<1>4. /\ kept \in Seq(Nat) /\ \A i \in 1 .. q : kept[i] \in E /\ kept[i] \in 1 .. n
      /\ \A i, j \in 1 .. q : i < j => kept[i] < kept[j]
      /\ \A i \in 1 .. n : i \in E => \E k \in 1 .. q : kept[k] = i
  <2> HIDE DEF kept, q, E
  <2> QED BY <1>1, <1>3 DEF Lists
<1>5. /\ at \in Seq(Nat) /\ \A k \in 1 .. Len(at) : at[k] \in T /\ at[k] \in 1 .. q
      /\ \A i, j \in 1 .. Len(at) : i < j => at[i] < at[j]
      /\ \A i \in 1 .. q : i \in T => \E k \in 1 .. Len(at) : at[k] = i
  BY <1>3 DEF Lists
<1>6. Len(at) \in Nat
  BY <1>5, SeqFact
<1>7. EolMarks(y) = {}
  <2>1. \A i \in 1 .. q : y[i] # CR
    OBVIOUS
  <2> HIDE DEF y
  <2> QED BY <1>1, <2>1 DEF EolMarks
<1> HIDE DEF kept, y, at, E, T, B
<1>8. ASSUME NEW i \in 1 .. q PROVE i \in LineTails(y) <=> kept[i] \in LineTails(s)
  <2> DEFINE c == kept[i]
  <2>1. c \in 1 .. n /\ c \notin EolMarks(s) /\ y[i] = s[c]
    BY <1>1, <1>2, <1>4
  <2> DEFINE RunY == \E j \in i .. q : (\A k \in i .. j : y[k] = SP) /\ (j = q \/ y[j + 1] = LF)
             RunS == \E j \in c .. n : /\ \A k \in c .. j : s[k] = SP \/ k \in EolMarks(s)
                                       /\ j = n \/ s[j + 1] = LF
  <2> HIDE DEF c
  <2>2. i \in LineTails(y) <=> y[i] = SP /\ RunY
    BY <1>7, TailFact
  <2>3. c \in LineTails(s) <=> s[c] = SP /\ RunS
    BY <2>1, TailFact
  <2>4. ASSUME NEW k \in 1 .. n, k \notin EolMarks(s), k >= c
        PROVE  \E r \in i .. q : kept[r] = k /\ y[r] = s[k]
    <3>1. PICK r \in 1 .. q : kept[r] = k
      BY <1>2, <1>4, <2>4
    <3>2. r >= i
      <4>1. r < i => kept[r] < kept[i]
        BY <1>4
      <4> QED BY <1>1, <2>1, <2>4, <3>1, <4>1 DEF c
    <3> QED BY <1>1, <3>1, <3>2
  <2>5. ASSUME NEW j \in i .. q, \A k \in i .. j : y[k] = SP, j = q \/ y[j + 1] = LF, s[c] = SP
        PROVE  c \in LineTails(s)
    <3>1. CASE j = q
      <4>1. ASSUME NEW k \in c .. n PROVE s[k] = SP \/ k \in EolMarks(s)
        <5>1. k \in 1 .. n /\ k >= c
          BY <1>1, <2>1
        <5> QED BY <2>4, <2>5, <3>1, <5>1
      <4>2. n \in c .. n
        BY <1>1, <2>1
      <4> QED BY <2>3, <2>5, <4>1, <4>2
    <3>2. CASE j # q
      <4> DEFINE e == kept[j + 1]
      <4>1. j + 1 \in 1 .. q /\ i < j + 1 /\ j \in 1 .. q
        BY <1>1, <3>2
      <4>2. e \in 1 .. n /\ c < e /\ s[e] = LF
        BY <1>1, <1>4, <2>5, <3>2, <4>1 DEF c
      <4> HIDE DEF e
      <4>3. ASSUME NEW k \in c .. e - 1 PROVE s[k] = SP \/ k \in EolMarks(s)
        <5> SUFFICES ASSUME k \notin EolMarks(s) PROVE s[k] = SP
          OBVIOUS
        <5>1. k \in 1 .. n /\ k >= c /\ k < e
          BY <1>1, <2>1, <4>2
        <5>2. PICK r \in i .. q : kept[r] = k /\ y[r] = s[k]
          BY <2>4, <5>1
        <5>3. r <= j
          <6>1. j + 1 < r => kept[j + 1] < kept[r]
            <7>1. r \in 1 .. q
              BY <1>1
            <7> QED BY <1>4, <4>1, <7>1
          <6>2. r # j + 1 /\ ~(j + 1 < r)
            BY <1>1, <4>2, <5>1, <5>2, <6>1 DEF e
          <6> QED BY <1>1, <6>2
        <5>4. r \in i .. j
          BY <1>1, <5>3
        <5> QED BY <2>5, <5>2, <5>4
      <4>4. e - 1 \in c .. n /\ (e - 1) + 1 = e
        BY <1>1, <2>1, <4>2
      <4> QED BY <2>3, <2>5, <4>2, <4>3, <4>4
    <3> QED BY <3>1, <3>2
  <2>6. ASSUME NEW j \in c .. n, \A k \in c .. j : s[k] = SP \/ k \in EolMarks(s), j = n \/ s[j + 1] = LF, y[i] = SP
        PROVE  i \in LineTails(y)
    <3>0. j \in Nat
      BY <1>1, <2>1
    <3>1. PICK r : Splits(kept, j, r)
      BY <1>4, <3>0, <1>1, SplitsSomewhere
    <3>2. r \in 0 .. q /\ \A k \in 1 .. q : kept[k] <= j <=> k <= r
      BY <1>1, <3>1 DEF Splits
    <3>3. r \in i .. q
      <4>1. kept[i] <= j
        BY <1>1, <2>1 DEF c
      <4> QED BY <1>1, <3>2, <4>1
    <3>4. ASSUME NEW k \in i .. r PROVE y[k] = SP
      <4>1. k \in 1 .. q /\ kept[k] <= j
        BY <1>1, <3>2, <3>3
      <4>2. kept[k] >= c
        <5>1. k = i \/ (i < k /\ kept[i] < kept[k])
          BY <1>4, <4>1
        <5> QED BY <1>1, <1>4, <4>1, <5>1 DEF c
      <4>3. kept[k] \in c .. j /\ kept[k] \notin EolMarks(s) /\ y[k] = s[kept[k]]
        BY <1>1, <1>2, <1>4, <4>1, <4>2
      <4> QED BY <2>6, <4>3
    <3>5. r = q \/ y[r + 1] = LF
      <4> SUFFICES ASSUME r # q PROVE y[r + 1] = LF
        OBVIOUS
      <4>1. r + 1 \in 1 .. q /\ ~(kept[r + 1] <= j)
        BY <1>1, <3>2, <3>3
      <4>2. kept[r + 1] \in 1 .. n /\ kept[r + 1] > j /\ j + 1 \in 1 .. n /\ j # n
        BY <1>1, <1>4, <3>0, <4>1
      <4>3. s[j + 1] = LF
        BY <2>6, <4>2
      <4>4. j + 1 \notin EolMarks(s)
        BY <4>3, Marks3 DEF EolMarks
      <4>5. PICK k \in i .. q : kept[k] = j + 1
        <5>1. j + 1 >= c
          BY <1>1, <2>1
        <5> QED BY <2>4, <4>2, <4>4, <5>1
      <4>6. k \in 1 .. q /\ ~(k <= r)
        BY <1>1, <3>0, <3>2, <4>5
      <4>7. k = r + 1
        <5>1. r + 1 < k => kept[r + 1] < kept[k]
          BY <1>4, <4>1, <4>6
        <5>2. ~(r + 1 < k)
          BY <1>4, <3>0, <4>1, <4>2, <4>5, <5>1
        <5> QED BY <1>1, <3>2, <4>6, <5>2
      <4> QED BY <1>1, <4>1, <4>3, <4>5, <4>7
    <3> QED BY <2>2, <2>6, <3>3, <3>4, <3>5
  <2>7. s[c] = SP /\ RunY => c \in LineTails(s)
    BY <2>5
  <2>8. y[i] = SP /\ RunS => i \in LineTails(y)
    BY <2>6
  <2> HIDE DEF RunY, RunS
  <2>9. i \in LineTails(y) <=> c \in LineTails(s)
    BY <2>1, <2>2, <2>3, <2>7, <2>8
  <2> QED BY <2>9 DEF c
<1>9. /\ comp \in Seq(Nat) /\ Len(comp) = Len(at) /\ \A k \in 1 .. Len(at) : comp[k] = kept[at[k]]
  <2>1. comp \in [1 .. Len(at) -> Nat]
    BY <1>4, <1>5
  <2>2. comp \in Seq(Nat) /\ Len(comp) = Len(at)
    BY <1>6, <2>1, SeqDef
  <2> QED BY <2>2
<1> HIDE DEF comp
<1>10. Lists(comp, B, n)
  <2>1. ASSUME NEW k \in 1 .. Len(at) PROVE comp[k] \in B /\ comp[k] \in 1 .. n
    <3>1. at[k] \in 1 .. q /\ at[k] \notin LineTails(y)
      BY <1>2, <1>5
    <3>2. kept[at[k]] \in 1 .. n /\ kept[at[k]] \notin LineTails(s)
      BY <1>4, <1>8, <3>1
    <3> QED BY <1>2, <1>9, <3>2
  <2>2. ASSUME NEW i \in 1 .. Len(at), NEW j \in 1 .. Len(at), i < j PROVE comp[i] < comp[j]
    <3>1. at[i] \in 1 .. q /\ at[j] \in 1 .. q /\ at[i] < at[j]
      BY <1>5, <2>2
    <3>2. kept[at[i]] < kept[at[j]]
      BY <1>4, <3>1
    <3> QED BY <1>9, <3>2
  <2>3. ASSUME NEW i \in 1 .. n, i \in B PROVE \E k \in 1 .. Len(at) : comp[k] = i
    <3>1. i \notin LineTails(s)
      BY <1>2, <2>3
    <3>2. i \notin EolMarks(s)
      BY <3>1 DEF LineTails
    <3>3. PICK j \in 1 .. q : kept[j] = i
      BY <1>2, <1>4, <3>2
    <3>4. j \in T
      BY <1>2, <1>8, <3>1, <3>3
    <3>5. PICK k \in 1 .. Len(at) : at[k] = j
      BY <1>5, <3>4
    <3> QED BY <1>9, <3>3, <3>5
  <2> QED BY <1>9, <2>1, <2>2, <2>3 DEF Lists
<1>11. Kept(s, B) = comp
  <2>1. Lists(Kept(s, B), B, n)
    BY <1>1, KeptLists
  <2> QED BY <1>1, <1>10, <2>1, ListsUnique
<1>12. /\ Gathered(s, B) \in Text /\ Len(Gathered(s, B)) = Len(at)
       /\ \A k \in 1 .. Len(at) : Gathered(s, B)[k] = s[comp[k]]
  <2>1. /\ Gathered(s, B) \in Text /\ Len(Gathered(s, B)) = Len(Kept(s, B))
        /\ \A k \in 1 .. Len(Kept(s, B)) : Gathered(s, B)[k] = s[Kept(s, B)[k]]
    BY GatheredIs
  <2> QED BY <1>9, <1>11, <2>1
<1>13. /\ Gathered(y, T) \in Text /\ Len(Gathered(y, T)) = Len(at)
       /\ \A k \in 1 .. Len(at) : Gathered(y, T)[k] = y[at[k]]
  BY <1>1, GatheredIs DEF at
<1>14. ASSUME NEW k \in 1 .. Len(at) PROVE Gathered(s, B)[k] = Gathered(y, T)[k]
  <2>1. at[k] \in 1 .. q
    BY <1>5
  <2> QED BY <1>1, <1>9, <1>12, <1>13, <2>1
<1>15. Gathered(s, B) = Gathered(y, T)
  BY <1>12, <1>13, <1>14, TextEqual
<1> QED BY <1>15 DEF Blankless, Normal, B, T, y

\* Neither kind of text that is compared has a CR, when each is that of a CRLF.
LEMMA NoCRLeft ==
  ASSUME NEW s \in Text, NoLoneCR(s)
  PROVE  /\ \A i \in 1 .. Len(ToLf(s)) : ToLf(s)[i] # CR
         /\ \A i \in 1 .. Len(Blankless(s)) : Blankless(s)[i] # CR
<1>1. ASSUME NEW keep, keep \cap EolMarks(s) = {}, NEW i \in 1 .. Len(Gathered(s, keep))
      PROVE  Gathered(s, keep)[i] # CR
  <2> DEFINE kept == Kept(s, keep)
  <2>1. /\ Len(Gathered(s, keep)) = Len(kept) /\ Gathered(s, keep)[i] = s[kept[i]] /\ i \in 1 .. Len(kept)
    BY <1>1, GatheredIs
  <2>2. kept[i] \in keep /\ kept[i] \in 1 .. Len(s)
    <3>1. Lists(kept, keep, Len(s))
      BY TextFact, KeptLists
    <3> HIDE DEF kept
    <3> QED BY <2>1, <3>1 DEF Lists
  <2>3. s[kept[i]] # CR
    BY <1>1, <2>2 DEF NoLoneCR
  <2> QED BY <2>1, <2>3
<1>2. Noticed(s, "eol_normalized") \cap EolMarks(s) = {} /\ Noticed(s, "trailing_whitespace_normalized") \cap EolMarks(s) = {}
  BY ModesFact DEF LineTails
<1> QED BY <1>1, <1>2 DEF ToLf, Blankless, Normal

\* The part of a text between two raw offsets, normalized, when the same is overlooked there.
LEMMA ModeWindow ==
  ASSUME NEW s \in Text, NEW mode,
         NEW i \in 0 .. Len(Kept(s, Noticed(s, mode))), NEW j \in 0 .. Len(Kept(s, Noticed(s, mode))), i <= j,
         NEW a, a = RawOffset(Kept(s, Noticed(s, mode)), i, Len(s)),
         NEW b, b = RawOffset(Kept(s, Noticed(s, mode)), j, Len(s)),
         \A k \in 1 .. b - a : k \in Noticed(Slice(s, a, b), mode) <=> a + k \in Noticed(s, mode)
  PROVE  Normal(Slice(s, a, b), mode) = Slice(Normal(s, mode), i, j)
<1> DEFINE keep == Noticed(s, mode)  kept == Kept(s, keep)  inside == Noticed(Slice(s, a, b), mode)  n == Len(s)
<1>1. n \in Nat /\ Lists(kept, keep, n)
  BY TextFact, KeptLists
<1>2. \A k \in 1 .. b - a : k \in inside <=> a + k \in keep
  OBVIOUS
<1>3. a = RawOffset(kept, i, n) /\ b = RawOffset(kept, j, n) /\ i \in 0 .. Len(kept) /\ j \in 0 .. Len(kept)
  OBVIOUS
<1> HIDE DEF keep, inside, n, kept
<1>4. a \in Nat /\ b \in Nat /\ a <= b /\ b <= n
  BY <1>1, <1>3, RawOrder
<1>5. Splits(kept, a, i) /\ Splits(kept, b, j)
  BY <1>1, <1>3, RawSplits
<1>6. Gathered(Slice(s, a, b), inside) = Slice(Gathered(s, keep), i, j)
  BY <1>2, <1>4, <1>5, Window DEF kept, n
<1> QED BY <1>6 DEF Normal, inside, keep

\* What a match covers is the needle, up to line ends and blanks in front of them.
LEMMA MatchIsNeedle ==
  ASSUME NEW s \in Text, NEW needle \in Text, NoLoneCR(needle),
         NEW mode \in {"exact", "eol_normalized", "trailing_whitespace_normalized"},
         NEW found, found = MatchesIn(s, needle, mode), NEW m \in 1 .. Len(found)
  PROVE  Blankless(Slice(s, found[m].start, found[m].end)) = Blankless(needle)
<1> DEFINE n == Len(s)  kept == Kept(s, Noticed(s, mode))  at == Occurrences(Normal(s, mode), Normal(needle, mode))
           o == Normal(needle, mode)  w == Len(o)  i == at[m]  j == at[m] + w
           a == found[m].start  b == found[m].end  p == Slice(s, a, b)  t == Normal(s, mode)
<1>1. n \in Nat /\ Lists(kept, Noticed(s, mode), n) /\ Len(kept) \in Nat
  BY TextFact, KeptLists, GatheredIs
<1>2. /\ at[m] \in Nat /\ at[m] + w \in 0 .. Len(kept) /\ w >= 1 /\ Slice(t, i, j) = o
      /\ a = RawOffset(kept, i, n) /\ b = RawOffset(kept, j, n)
  BY MatchesFact
<1>3. t \in Text /\ o \in Text /\ w \in Nat /\ Len(t) = Len(kept)
  <2>1. t \in Text /\ o \in Text /\ Len(t) = Len(kept)
    BY GatheredIs DEF Normal
  <2> HIDE DEF t, o, kept
  <2> QED BY <2>1, TextFact
<1>4. i \in 0 .. Len(kept) /\ j \in 0 .. Len(kept) /\ i <= j /\ j >= 1 /\ j = i + w
  <2> HIDE DEF at, kept, o
  <2>1. w \in Nat
    BY <1>3 DEF o
  <2> HIDE DEF w
  <2> QED BY <1>1, <1>2, <2>1
<1> HIDE DEF kept, at, o, w, i, j, a, b, n
<1>5. a \in Nat /\ b \in Nat /\ a <= b /\ b <= n
  BY <1>1, <1>2, <1>4, RawOrder
<1>6. b = n \/ (b \in Noticed(s, mode) /\ b \in 1 .. n /\ s[b] = o[w])
  <2> SUFFICES ASSUME b # n PROVE b \in Noticed(s, mode) /\ b \in 1 .. n /\ s[b] = o[w]
    OBVIOUS
  <2>1. j # Len(kept) /\ j \in 1 .. Len(kept) /\ b = kept[j]
    BY <1>1, <1>2, <1>4 DEF RawOffset
  <2>2. kept[j] \in Noticed(s, mode) /\ kept[j] \in 1 .. n
    BY <1>1, <2>1 DEF Lists
  <2>3. t[j] = s[kept[j]]
    <3>1. \A k \in 1 .. Len(kept) : Gathered(s, Noticed(s, mode))[k] = s[kept[k]]
      BY GatheredIs DEF kept
    <3> QED BY <2>1, <3>1 DEF Normal
  <2>4. o[w] = t[j]
    <3> HIDE DEF t
    <3>1. \A k \in 1 .. j - i : Slice(t, i, j)[k] = t[i + k]
      BY <1>3, <1>4, SliceFact
    <3>2. w \in 1 .. j - i
      BY <1>2, <1>3, <1>4
    <3> QED BY <1>2, <1>4, <3>1, <3>2
  <2> QED BY <2>1, <2>2, <2>3, <2>4
<1>7. ASSUME \A k \in 1 .. b - a : k \in Noticed(p, mode) <=> a + k \in Noticed(s, mode)
      PROVE  Normal(p, mode) = o
  <2>1. Normal(p, mode) = Slice(t, i, j)
    BY <1>2, <1>4, <1>7, ModeWindow DEF kept, n
  <2> QED BY <1>2, <2>1
<1>8. p \in Text /\ Len(p) = b - a /\ \A k \in 1 .. b - a : k \in 1 .. Len(p) /\ a + k \in 1 .. n
  <2>1. p \in Text /\ Len(p) = b - a
    BY <1>5, SliceFact DEF n
  <2> HIDE DEF p
  <2> QED BY <1>1, <1>5, <2>1
<1>9. CASE mode = "exact"
  <2>1. \A k \in 1 .. b - a : k \in Noticed(p, mode) <=> a + k \in Noticed(s, mode)
    BY <1>8, <1>9, ModesFact DEF n
  <2>2. Normal(p, mode) = o
    BY <1>7, <2>1
  <2>3. p = needle
    BY <1>8, <1>9, <2>2, ExactFact DEF o
  <2> QED BY <2>3 DEF p, a, b
<1>10. CASE mode = "eol_normalized"
  <2>1. b \notin EolMarks(s)
    <3>1. n \notin EolMarks(s)
      BY <1>1 DEF EolMarks, n
    <3> QED BY <1>6, <1>10, <3>1, ModesFact
  <2>2. ASSUME NEW k \in 1 .. b - a PROVE k \in Noticed(p, mode) <=> a + k \in Noticed(s, mode)
    <3>1. k \in EolMarks(p) <=> a + k \in EolMarks(s) /\ k # b - a
      BY <1>5, SliceMarks DEF n
    <3>2. k = b - a => a + k = b
      BY <1>5
    <3> QED BY <1>8, <1>10, <2>1, <3>1, <3>2, ModesFact DEF n
  <2>3. ToLf(p) = ToLf(needle)
    BY <1>7, <1>10, <2>2 DEF ToLf, o
  <2>4. Blankless(needle) = Blankless(ToLf(needle))
    BY NoCRLeft, LfBlankless
  <2>5. Blankless(p) = Blankless(ToLf(p))
    BY <1>8, <2>3, NoCRLeft, LfBlankless
  <2> QED BY <2>3, <2>4, <2>5 DEF p, a, b
<1>11. CASE mode = "trailing_whitespace_normalized"
  <2>1. b = n \/ (b \notin EolMarks(s) /\ s[b] # SP)
    <3> SUFFICES ASSUME b # n PROVE b \notin EolMarks(s) /\ s[b] # SP
      OBVIOUS
    <3>1. b \notin LineTails(s) /\ s[b] = o[w]
      BY <1>6, <1>11, ModesFact
    <3>2. o = Blankless(needle) /\ o # <<>>
      <4>1. o # <<>>
        BY <1>2, <1>3, ShortTexts DEF w
      <4> QED BY <1>11, <4>1 DEF o, Blankless
    <3>3. o[w] # SP
      <4> DEFINE q == Kept(needle, Noticed(needle, "trailing_whitespace_normalized"))
      <4>1. Len(o) = Len(q) /\ needle[q[Len(q)]] # SP /\ o[Len(q)] = needle[q[Len(q)]]
        BY <3>2, BlanklessLast
      <4> HIDE DEF q
      <4> QED BY <4>1 DEF w
    <3> QED BY <3>1, <3>3 DEF LineTails
  <2>2. ASSUME NEW k \in 1 .. b - a PROVE k \in Noticed(p, mode) <=> a + k \in Noticed(s, mode)
    <3>1. k \in LineTails(p) <=> a + k \in LineTails(s)
      BY <1>5, <2>1, SliceTails DEF n
    <3> QED BY <1>8, <1>11, <3>1, ModesFact DEF n
  <2>3. Blankless(p) = Blankless(needle)
    BY <1>7, <1>11, <2>2 DEF Blankless, o
  <2> QED BY <2>3 DEF p, a, b
<1> QED BY <1>9, <1>10, <1>11

\* The text of a part is in the normalized text, when it ends in a character that is no CR.
LEMMA PieceIsThere ==
  ASSUME NEW s \in Text, NEW a \in 0 .. Len(s), NEW b \in 0 .. Len(s),
         NEW bare, bare = Blankless(Slice(s, a, b)), bare # <<>>, \A i \in 1 .. Len(bare) : bare[i] # CR
  PROVE  Places(Blankless(s), bare, 0) # {}
<1> DEFINE n == Len(s)  p == Slice(s, a, b)  Noted(x) == Noticed(x, "trailing_whitespace_normalized")
           kept == Kept(p, Noted(p))  v == Len(kept)  l == kept[v]  c == a + l  u == Slice(s, a, c)
           all == Kept(s, Noted(s))  g == Blankless(s)
<1>0. n \in Nat /\ a \in Nat /\ b \in Nat
  BY TextFact
<1>1. a <= b
  <2> SUFFICES ASSUME b < a PROVE FALSE
    BY <1>0
  <2>1. p = <<>>
    <3>1. a + 1 \in Int /\ b \in Int /\ b < a + 1
      BY <1>0
    <3> QED BY <3>1, SubSeqEmpty DEF Slice
  <2>2. Blankless(<<>>) = <<>>
    <3>1. <<>> \in Text /\ (1 .. Len(<<>>)) \cap Noted(<<>>) = {}
      BY ShortTexts
    <3> QED BY <3>1, GatheredAll DEF Blankless, Normal
  <2> QED BY <2>1, <2>2
<1>2. p \in Text /\ Len(p) = b - a /\ \A i \in 1 .. b - a : p[i] = s[a + i]
  BY <1>0, <1>1, SliceFact
<1> HIDE DEF p
<1>3. /\ Len(bare) = v /\ v \in Nat /\ v >= 1
      /\ l \in 1 .. Len(p) /\ l \notin LineTails(p) /\ p[l] # SP /\ bare[v] = p[l]
      /\ \A k \in 1 .. v : kept[k] <= l
  <2>1. bare = Blankless(p)
    BY DEF p
  <2> QED BY <1>2, <2>1, BlanklessLast
<1> HIDE DEF kept, v, l
<1>4. l \in 1 .. b - a /\ l \in Nat /\ s[c] # SP /\ s[c] # CR /\ c \in Nat /\ a <= c /\ c <= n /\ c <= b /\ c - a = l
  <2>1. l \in 1 .. b - a /\ p[l] = s[c]
    BY <1>0, <1>2, <1>3
  <2>2. bare[v] # CR
    <3>1. v \in 1 .. Len(bare)
      BY <1>3
    <3> QED BY <3>1
  <2> QED BY <1>0, <1>3, <2>1, <2>2
<1>5. u \in Text /\ Len(u) = l /\ \A i \in 1 .. l : u[i] = s[a + i]
  <2> HIDE DEF c
  <2> QED BY <1>0, <1>4, SliceFact
\* The part up to its last kept character is a part of p and a part of s.
<1>6. u = Slice(p, 0, l)
  <2>1. /\ Slice(p, 0, l) \in Text /\ Len(Slice(p, 0, l)) = l
        /\ \A i \in 1 .. l : Slice(p, 0, l)[i] = p[i]
    <3>1. l <= Len(p)
      BY <1>2, <1>4
    <3> QED BY <1>2, <1>4, <3>1, FrontFact
  <2>2. \A i \in 1 .. l : p[i] = s[a + i]
    BY <1>0, <1>2, <1>4
  <2> HIDE DEF u
  <2> QED BY <1>5, <2>1, <2>2, TextEqual
<1> HIDE DEF u, c
<1>7. Blankless(u) = bare
  <2>1. PICK z \in Nat : z = 0
    OBVIOUS
  <2>2. u = Slice(p, z, l) /\ z <= l /\ l <= Len(p)
    BY <1>2, <1>4, <1>6, <2>1
  <2>3. l = Len(p) \/ (l \notin EolMarks(p) /\ p[l] # SP)
    BY <1>3 DEF LineTails
  <2>4. ASSUME NEW k \in 1 .. l - z PROVE k \in Noted(u) <=> z + k \in Noted(p)
    <3>1. k \in LineTails(u) <=> z + k \in LineTails(p)
      BY <1>2, <1>4, <2>2, <2>3, SliceTails
    <3>2. k \in 1 .. Len(u) /\ z + k \in 1 .. Len(p)
      BY <1>2, <1>4, <1>5, <2>1
    <3> QED BY <3>1, <3>2, ModesFact
  <2>5. Splits(kept, z, 0) /\ Splits(kept, l, v)
    <3>1. \A k \in 1 .. v : kept[k] \in 1 .. Len(p)
      BY <1>2, GatheredIs DEF kept, v
    <3> QED BY <1>2, <1>3, <2>1, <3>1 DEF Splits, v
  <2> DEFINE T == Noted(p)  U == Noted(u)
  <2>6. \A k \in 1 .. l - z : k \in U <=> z + k \in T
    BY <2>4
  <2>7. Splits(Kept(p, T), z, 0) /\ Splits(Kept(p, T), l, v)
    BY <2>5 DEF kept
  <2> HIDE DEF T, U
  <2>8. Gathered(Slice(p, z, l), U) = Slice(Gathered(p, T), 0, v)
    BY <1>2, <1>4, <2>2, <2>6, <2>7, Window
  <2>9. Gathered(u, U) = Blankless(u) /\ Gathered(p, T) = bare
    BY DEF U, T, p, Blankless, Normal
  <2>10. bare \in Text
    BY <1>2, <2>9, GatheredIs
  <2>11. Slice(bare, 0, v) = bare
    BY <1>3, <2>10, FrontFact
  <2> QED BY <2>2, <2>8, <2>9, <2>11
<1>8. /\ all \in Seq(Nat) /\ Len(all) \in Nat /\ \A i, j \in 1 .. Len(all) : i < j => all[i] < all[j]
  <2>1. Lists(all, Noted(s), n)
    BY <1>0, KeptLists
  <2> HIDE DEF all
  <2>2. all \in Seq(Nat) /\ \A i, j \in 1 .. Len(all) : i < j => all[i] < all[j]
    BY <2>1 DEF Lists
  <2> QED BY <2>2, SeqFact
<1>9. PICK x : Splits(all, a, x)
  <2> HIDE DEF all
  <2> QED BY <1>0, <1>8, SplitsSomewhere
<1>10. PICK y : Splits(all, c, y)
  <2> HIDE DEF all
  <2> QED BY <1>4, <1>8, SplitsSomewhere
<1>11. x <= y /\ Blankless(u) = Slice(g, x, y)
  <2>1. ASSUME NEW k \in 1 .. c - a PROVE k \in Noted(u) <=> a + k \in Noted(s)
    <3>1. c = Len(s) \/ (c \notin EolMarks(s) /\ s[c] # SP)
      BY <1>4 DEF EolMarks
    <3>2. k \in LineTails(u) <=> a + k \in LineTails(s)
      BY <1>0, <1>4, <3>1, SliceTails DEF u
    <3>3. k \in 1 .. Len(u) /\ a + k \in 1 .. Len(s)
      BY <1>0, <1>4, <1>5
    <3> QED BY <3>2, <3>3, ModesFact
  <2> DEFINE T == Noted(s)  U == Noted(u)
  <2>2. \A k \in 1 .. c - a : k \in U <=> a + k \in T
    BY <2>1
  <2>3. Splits(Kept(s, T), a, x) /\ Splits(Kept(s, T), c, y)
    BY <1>9, <1>10
  <2> HIDE DEF T, U
  <2>4. x <= y /\ Gathered(Slice(s, a, c), U) = Slice(Gathered(s, T), x, y)
    BY <1>0, <1>4, <2>2, <2>3, Window
  <2>5. Gathered(Slice(s, a, c), U) = Blankless(u) /\ Gathered(s, T) = g
    BY DEF U, T, u, Blankless, Normal
  <2> QED BY <2>4, <2>5
<1>12. g \in Text /\ Len(g) = Len(all)
  BY GatheredIs DEF Blankless, Normal
<1>13. x \in 0 .. Len(g) /\ y \in 0 .. Len(g)
  BY <1>9, <1>10, <1>12 DEF Splits
<1> HIDE DEF g, all
<1>14. bare = Slice(g, x, y) /\ Len(bare) = y - x
  <2>1. x \in Nat /\ y \in Nat /\ y <= Len(g)
    BY <1>8, <1>12, <1>13
  <2>2. Len(Slice(g, x, y)) = y - x
    BY <1>11, <1>12, <2>1, SliceFact
  <2> QED BY <1>7, <1>11, <2>2
<1>15. x \in Places(g, bare, 0)
  <2>1. x + Len(bare) = y /\ x \in 0 .. Len(g) - Len(bare)
    BY <1>8, <1>11, <1>12, <1>13, <1>14
  <2>2. SubSeq(g, x + 1, x + Len(bare)) = bare
    BY <1>14, <2>1 DEF Slice
  <2> QED BY <2>1, <2>2 DEF Places
<1> QED BY <1>15 DEF g

\* A place where the needle is makes a match.
LEMMA PlaceIsFound ==
  ASSUME NEW s \in Text, NEW needle \in Text, NEW mode, Normal(needle, mode) # <<>>,
         Places(Normal(s, mode), Normal(needle, mode), 0) # {}
  PROVE  MatchesIn(s, needle, mode) # <<>>
<1> DEFINE found == MatchesIn(s, needle, mode)  at == Occurrences(Normal(s, mode), Normal(needle, mode))
<1>1. Len(found) = Len(at) /\ Occur(at, Normal(s, mode), Normal(needle, mode), 0)
  BY MatchesFact
<1>2. \E k \in 1 .. Len(at) : TRUE
  <2> HIDE DEF at
  <2> QED BY <1>1 DEF Occur
<1>3. at \in Seq(Nat)
  BY <1>1 DEF Occur
<1>4. Len(<<>>) = 0
  BY EmptySeq
<1> HIDE DEF found, at
<1>5. Len(at) \in Nat /\ Len(at) # 0
  BY <1>2, <1>3, SeqFact
<1>6. found # <<>>
  BY <1>1, <1>4, <1>5
<1> QED BY <1>6 DEF found

\* A mode that overlooks nothing more than another finds the same.
LEMMA ModesAgree ==
  ASSUME NEW s \in Text, NEW needle \in Text
  PROVE  /\ ~HasBlankTail(s) /\ ~HasBlankTail(needle) =>
              MatchesIn(s, needle, "trailing_whitespace_normalized") = MatchesIn(s, needle, "eol_normalized")
         /\ ~HasCR(s) /\ ~HasCR(needle) => MatchesIn(s, needle, "eol_normalized") = MatchesIn(s, needle, "exact")
<1>1. ASSUME NEW x, ~HasBlankTail(x)
      PROVE  Noticed(x, "trailing_whitespace_normalized") = Noticed(x, "eol_normalized")
  BY <1>1, ModesFact DEF HasBlankTail
<1>2. ASSUME NEW x \in Text, ~HasCR(x)
      PROVE  Noticed(x, "eol_normalized") = Noticed(x, "exact")
  <2>1. EolMarks(x) = {}
    <3>1. Len(x) \in Nat
      BY TextFact
    <3> QED BY <1>2, <3>1 DEF HasCR, EolMarks
  <2> QED BY <2>1, ModesFact
<1>3. ASSUME NEW m1, NEW m2, Noticed(s, m1) = Noticed(s, m2), Noticed(needle, m1) = Noticed(needle, m2)
      PROVE  MatchesIn(s, needle, m1) = MatchesIn(s, needle, m2)
  BY <1>3 DEF MatchesIn, Normal
<1> QED BY <1>1, <1>2, <1>3

\* What findTextMatches returns: the needle, wherever it is, up to line ends and blanks;
\* and a single match only if the needle is not behind it as it stands.
LEMMA FindIsRight ==
  ASSUME NEW s \in Text, NEW needle \in Text, needle # <<>>, NoLoneCR(needle), NEW all \in BOOLEAN,
         NEW found, found = FindTextMatches(s, needle, all)
  PROVE  /\ \A m \in 1 .. Len(found) : Blankless(Slice(s, found[m].start, found[m].end)) = Blankless(needle)
         /\ found = <<>> => \A a, b \in 0 .. Len(s) : Blankless(Slice(s, a, b)) = Blankless(needle) => Blankless(needle) = <<>>
         /\ Len(found) = 1 /\ ~all => \A a \in Exact(s, needle) : a < found[1].end
<1> DEFINE e == MatchesIn(s, needle, "exact")
           l == MatchesIn(s, needle, "eol_normalized")
           b == MatchesIn(s, needle, "trailing_whitespace_normalized")
           l2 == IF HasCR(s) \/ HasCR(needle) THEN l ELSE <<>>
           b2 == IF HasBlankTail(s) \/ HasBlankTail(needle) THEN b ELSE <<>>
           f == FirstFound(e, l2, b2)
<1>0. Len(s) \in Nat
  BY TextFact
<1>1. found = UpToTwo(f, all)
  BY DEF FindTextMatches
<1>2. InOrder(e, Len(s)) /\ InOrder(l, Len(s)) /\ InOrder(b, Len(s)) /\ InOrder(<<>>, Len(s)) /\ Len(<<>>) = 0
  <2>1. InOrder(<<>>, Len(s)) /\ Len(<<>>) = 0
    BY EmptySeq DEF InOrder
  <2> QED BY <2>1, MatchesFact
<1>3. /\ \A m \in 1 .. Len(e) : Blankless(Slice(s, e[m].start, e[m].end)) = Blankless(needle)
      /\ \A m \in 1 .. Len(l) : Blankless(Slice(s, l[m].start, l[m].end)) = Blankless(needle)
      /\ \A m \in 1 .. Len(b) : Blankless(Slice(s, b[m].start, b[m].end)) = Blankless(needle)
  BY MatchIsNeedle
<1>e. l2 = l \/ l2 = <<>>
  OBVIOUS
<1>b. b2 = b \/ b2 = <<>>
  OBVIOUS
<1>l. (~HasCR(s) /\ ~HasCR(needle) => l = e) /\ (~HasBlankTail(s) /\ ~HasBlankTail(needle) => b = l)
  BY ModesAgree
<1>n. e = <<>> /\ l2 = <<>> /\ b2 = <<>> => b = <<>>
  <2> HIDE DEF e, l, b
  <2> QED BY <1>l
<1> HIDE DEF e, l, b, l2, b2
<1>4. f \in {e, l2, b2} /\ (f = <<>> => e = <<>> /\ l2 = <<>> /\ b2 = <<>>) /\ (e # <<>> => f = e)
  BY DEF FirstFound
<1> HIDE DEF f
<1>5. f = e \/ f = l \/ f = b \/ f = <<>>
  BY <1>4, <1>e, <1>b
<1>6. InOrder(f, Len(s)) /\ \A m \in 1 .. Len(f) : Blankless(Slice(s, f[m].start, f[m].end)) = Blankless(needle)
  <2>1. CASE f = e
    BY <1>2, <1>3, <2>1
  <2>2. CASE f = l
    BY <1>2, <1>3, <2>2
  <2>3. CASE f = b
    BY <1>2, <1>3, <2>3
  <2>4. CASE f = <<>>
    BY <1>2, <2>4
  <2> QED BY <1>5, <2>1, <2>2, <2>3, <2>4
<1>7. /\ found = <<>> <=> f = <<>>
      /\ Len(found) \in Nat /\ Len(found) <= Len(f)
      /\ \A m \in 1 .. Len(found) : found[m] = f[m]
      /\ Len(found) = 1 /\ ~all => Len(f) = 1
  BY <1>0, <1>1, <1>6, UpToTwoFact
<1>8. ASSUME NEW m \in 1 .. Len(found)
      PROVE  Blankless(Slice(s, found[m].start, found[m].end)) = Blankless(needle)
  <2>1. Len(f) \in Nat
    BY <1>0, <1>6, InOrderFact
  <2>2. m \in 1 .. Len(f) /\ found[m] = f[m]
    BY <1>7, <2>1
  <2> QED BY <1>6, <2>2
<1>9. ASSUME found = <<>>, NEW x \in 0 .. Len(s), NEW y \in 0 .. Len(s),
             Blankless(Slice(s, x, y)) = Blankless(needle), Blankless(needle) # <<>>
      PROVE  FALSE
  <2>1. \A i \in 1 .. Len(Blankless(needle)) : Blankless(needle)[i] # CR
    BY NoCRLeft
  <2>2. Places(Blankless(s), Blankless(needle), 0) # {}
    <3> DEFINE bare == Blankless(needle)
    <3>1. bare = Blankless(Slice(s, x, y)) /\ bare # <<>> /\ \A i \in 1 .. Len(bare) : bare[i] # CR
      BY <1>9, <2>1
    <3> HIDE DEF bare
    <3>2. Places(Blankless(s), bare, 0) # {}
      BY <3>1, PieceIsThere
    <3> QED BY <3>2 DEF bare
  <2>3. b # <<>>
    BY <1>9, <2>2, PlaceIsFound DEF Blankless, b
  <2> QED BY <1>4, <1>7, <1>9, <1>n, <2>3
<1>10. ASSUME Len(found) = 1, ~all, NEW x \in Exact(s, needle)
       PROVE  x < found[1].end
  <2> DEFINE at == Occurrences(s, needle)  w == Len(needle)
  <2>1. Normal(s, "exact") = s /\ Normal(needle, "exact") = needle
    BY ExactFact
  <2>2. x \in Places(s, needle, 0)
    BY <1>10 DEF Exact, Places, Slice
  <2>3. e # <<>>
    BY <2>1, <2>2, PlaceIsFound DEF e
  <2>4. f = e /\ Len(e) = 1 /\ found[1] = e[1]
    BY <1>4, <1>7, <1>10, <2>3
  <2>5. /\ Len(e) = Len(at) /\ Occur(at, s, needle, 0)
        /\ \A m \in 1 .. Len(e) : /\ at[m] \in Nat /\ at[m] + w \in 0 .. Len(Kept(s, Noticed(s, "exact")))
                                  /\ e[m].end = RawOffset(Kept(s, Noticed(s, "exact")), at[m] + w, Len(s))
    BY <2>1, MatchesFact DEF e
  <2> HIDE DEF at, w
  <2>6. e[1].end = at[1] + w
    <3>1. 1 \in 1 .. Len(e) /\ Len(Kept(s, Noticed(s, "exact"))) = Len(s)
      BY <2>4, ExactFact
    <3>2. at[1] + w \in 0 .. Len(s)
      BY <2>5, <3>1
    <3> QED BY <2>5, <3>1, <3>2, ExactFact
  <2>7. PICK k \in 1 .. Len(at) : at[k] <= x /\ x < at[k] + w
    BY <2>2, <2>5 DEF Occur, w
  <2>8. k = 1
    <3>1. Len(at) = 1
      BY <2>4, <2>5
    <3> QED BY <3>1
  <2> QED BY <2>4, <2>6, <2>7, <2>8
<1> QED BY <1>8, <1>9, <1>10
=============================================================================
