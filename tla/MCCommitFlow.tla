---------------------------- MODULE MCCommitFlow -----------------------------
(* Two files of the agent's and one on the deny-list, two branches. *)
EXTENDS CommitFlow, TLC
CONSTANTS f, g, s, agent, main
Pairs == Permutations({f, g})
=============================================================================
