----------------------------- MODULE MCPtyBuffer -----------------------------
(* A terminal that prints more than its ring holds. *)
EXTENDS PtyBuffer
=============================================================================
