------------------------------ MODULE MCPosts ------------------------------
(* Posts for the model checker. *)
EXTENDS Posts
=============================================================================
