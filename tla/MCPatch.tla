------------------------------ MODULE MCPatch -------------------------------
(* A patch or an edit up to its plan, or the commit of any plan of N changes. *)
EXTENDS EditPlan, ApplyPatch, TLC
CONSTANTS TextLen, OldLen

VARIABLE part

\* The commit knows of a change only its kind: it starts from every plan of N changes,
\* also from those longer than the patches that are read here.
AllInit ==
  /\ part \in {"plan", "commit"} /\ PlanInit /\ Init
  /\ part = "plan" => kind = [i \in Changes |-> "update"]

AllNext ==
  /\ \/ part = "plan" /\ PlanNext /\ UNCHANGED patchVars
     \/ part = "commit" /\ Next /\ UNCHANGED planVars
  /\ UNCHANGED part

AllSpec == AllInit /\ [][AllNext]_<<part, planVars, patchVars>>

\* Short texts of a letter, blanks and the two kinds of line ends; a CR occurs in front
\* of an LF only.
SomeChars == {"a", "b", SP, CR, LF}
Texts(n)  == {s \in UNION {[1 .. k -> {"a", SP, CR, LF}] : k \in 0 .. n} : NoLoneCR(s)}

SomeTexts == Texts(TextLen)
SomeOlds  == Texts(OldLen) \ {<<>>}
SomeNews  == {<<>>, <<"b">>, <<LF, "b">>}
SomeLines == {<<"a">>, <<"b">>}
SomeFiles == {<<"a", LF, "b", LF>>}
Symmetry  == Permutations(Paths)
=============================================================================
