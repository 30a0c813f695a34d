----------------------------- MODULE TextMatch -----------------------------
(***************************************************************************)
(* Where edit_file, multi_edit_file and the hunks of apply_patch find the  *)
(* text they replace: src/src/files/matcher.ts, and the line ends of       *)
(* src/src/files/text.ts and atomicWrite.ts.                               *)
(*                                                                         *)
(* A text is a sequence of characters.  A carriage return occurs in front  *)
(* of a line feed only; of the blanks there is the space.  The byte order  *)
(* mark is put aside when a file is read and put back when it is written.  *)
(***************************************************************************)
EXTENDS Integers, Sequences, FiniteSets

CONSTANT Chars  \* the characters of a text

CR == "\r"
LF == "\n"
SP == " "

ASSUME CharsAssumption == {CR, LF} \subseteq Chars

Text == Seq(Chars)

Lowest(S) == CHOOSE i \in S : \A j \in S : i <= j

\* The kept positions of s, in order, among those in `keep`.
Kept(s, keep) ==
  LET upTo[i \in 0 .. Len(s)] ==
        IF i = 0 THEN <<>> ELSE IF i \in keep THEN Append(upTo[i - 1], i) ELSE upTo[i - 1]
  IN upTo[Len(s)]

Gathered(s, keep) == LET at == Kept(s, keep) IN [k \in 1 .. Len(at) |-> s[at[k]]]

EolMarks(s) == {i \in 1 .. Len(s) - 1 : s[i] = CR /\ s[i + 1] = LF}
LineTails(s) ==
  EolMarks(s) \cup {i \in 1 .. Len(s) : s[i] = SP /\
    \E j \in i .. Len(s) : /\ \A k \in i .. j : s[k] = SP \/ k \in EolMarks(s)
                           /\ j = Len(s) \/ s[j + 1] = LF}

\* What a mode of the matcher overlooks: nothing, the CR of a CRLF, and the blanks
\* in front of a line end too.
Overlooked(s, mode) ==
  CASE mode = "exact"          -> {}
    [] mode = "eol_normalized" -> EolMarks(s)
    [] mode = "trailing_whitespace_normalized" -> LineTails(s)

\* The positions a mode keeps, and the text they make.
Noticed(s, mode) == (1 .. Len(s)) \ Overlooked(s, mode)
Normal(s, mode)  == Gathered(s, Noticed(s, mode))

\* indexOf: the first place after `pos` characters where `needle` occurs.
Places(s, needle, pos) ==
  {i \in pos .. Len(s) - Len(needle) : SubSeq(s, i + 1, i + Len(needle)) = needle}

\* The occurrences from left to right, each after the end of the one before.
Occurrences(s, needle) ==
  LET from[pos \in 0 .. Len(s)] ==
        IF Places(s, needle, pos) = {} THEN <<>>
        ELSE LET i == Lowest(Places(s, needle, pos)) IN <<i>> \o from[i + Len(needle)]
  IN IF needle = <<>> THEN <<>> ELSE from[0]

\* Fault: what was overlooked in front of a character is left to the one before.
RawOffsetBehind(kept, i, len) == IF i = Len(kept) THEN len ELSE kept[i + 1] - 1

\* mapIndex: the offset into the text as it is.  What was overlooked in front of a
\* character belongs to it, what was overlooked at the end of the text to the end.
RawOffset(kept, i, len) ==
  IF i = Len(kept) THEN len ELSE IF i = 0 THEN 0 ELSE kept[i]

\* The matches in one mode, as offsets into the text as it is.
RawMatches(at, kept, width, len) ==
  [m \in 1 .. Len(at) |-> [start |-> RawOffset(kept, at[m], len), end |-> RawOffset(kept, at[m] + width, len)]]

MatchesIn(s, needle, mode) ==
  RawMatches(Occurrences(Normal(s, mode), Normal(needle, mode)),
             Kept(s, Noticed(s, mode)), Len(Normal(needle, mode)), Len(s))

HasCR(s) == \E i \in 1 .. Len(s) : s[i] = CR
HasBlankTail(s) == LineTails(s) # EolMarks(s)

\* The modes in turn; without `all` the search stops at two matches.
FirstFound(exact, eol, tail) == IF exact # <<>> THEN exact ELSE IF eol # <<>> THEN eol ELSE tail
UpToTwo(found, all) == IF all \/ Len(found) < 2 THEN found ELSE SubSeq(found, 1, 2)

\* findTextMatches of a needle that is not empty.
FindTextMatches(s, needle, all) ==
  UpToTwo(
    FirstFound(
      MatchesIn(s, needle, "exact"),
      IF HasCR(s) \/ HasCR(needle) THEN MatchesIn(s, needle, "eol_normalized") ELSE <<>>,
      IF HasBlankTail(s) \/ HasBlankTail(needle)
        THEN MatchesIn(s, needle, "trailing_whitespace_normalized") ELSE <<>>),
    all)

\* Fault: one character too many is dropped behind each match.
ReplacedTooFar(s, matches, new) ==
  LET spliced[m \in 0 .. Len(matches)] ==
        IF m = 0 THEN s
        ELSE LET at == matches[Len(matches) + 1 - m]
             IN SubSeq(s, 1, at.start) \o new \o SubSeq(spliced[m - 1], at.end + 2, Len(spliced[m - 1]))
  IN spliced[Len(matches)]

\* From the last match to the first, so that no offset shifts.
ApplyReplacements(s, matches, new) ==
  LET spliced[m \in 0 .. Len(matches)] ==   \* the last m matches replaced
        IF m = 0 THEN s
        ELSE LET at == matches[Len(matches) + 1 - m]
             IN SubSeq(s, 1, at.start) \o new \o SubSeq(spliced[m - 1], at.end + 1, Len(spliced[m - 1]))
  IN spliced[Len(matches)]

DetectEol(s) ==
  LET crlf == Cardinality(EolMarks(s))
      all  == Cardinality({i \in 1 .. Len(s) : s[i] = LF})
  IN IF crlf > 0 /\ crlf >= all - crlf THEN "crlf" ELSE "lf"

ToLf(s) == Normal(s, "eol_normalized")

\* Every line feed as the file had most of them.
FormatTextForWrite(s, eol) ==
  LET lf == ToLf(s)
      written[i \in 0 .. Len(lf)] ==
        IF i = 0 THEN <<>>
        ELSE written[i - 1] \o (IF eol = "crlf" /\ lf[i] = LF THEN <<CR, LF>> ELSE <<lf[i]>>)
  IN written[Len(lf)]

-----------------------------------------------------------------------------
(* What the properties of a replacement compare with. *)

\* Every CR is that of a CRLF.
NoLoneCR(s) == \A i \in 1 .. Len(s) : s[i] = CR => i \in EolMarks(s)

\* A text up to the kind of line ends and the blanks in front of them.
Blankless(s) == Normal(s, "trailing_whitespace_normalized")
Slice(s, a, b) == SubSeq(s, a + 1, b)
Exact(s, t) == {a \in 0 .. Len(s) - Len(t) : Slice(s, a, a + Len(t)) = t}

\* The file ends its lines one way, and none of the matches begins or ends inside a CRLF.
Uniform(s, eol) == NoLoneCR(s) /\ \A i \in 1 .. Len(s) : s[i] = LF => (eol = "crlf" <=> i - 1 \in EolMarks(s))
SplitsCRLF(s, m) == \E a \in {m.start, m.end} : a \in EolMarks(s)

\* The pieces of s between the matches, with `new` in between.
Around(s, found, new) ==
  LET upTo[m \in 0 .. Len(found)] ==
        IF m = 0 THEN <<>>
        ELSE upTo[m - 1] \o Slice(s, IF m = 1 THEN 0 ELSE found[m - 1].end, found[m].start) \o new
  IN upTo[Len(found)] \o Slice(s, IF found = <<>> THEN 0 ELSE found[Len(found)].end, Len(s))
=============================================================================
