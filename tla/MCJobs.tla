------------------------------- MODULE MCJobs -------------------------------
(* Jobs, and tools that compete with them for the lanes. *)
EXTENDS Jobs
=============================================================================
