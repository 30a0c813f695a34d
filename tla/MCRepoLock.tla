----------------------------- MODULE MCRepoLock -----------------------------
(* Two lanes of a few calls each: every order of arrival, timeout and release. *)
EXTENDS RepoLock
=============================================================================
