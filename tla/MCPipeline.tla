---------------------------- MODULE MCPipeline ----------------------------
(* Pipeline with numbers for the payments and model values for the rest. *)
EXTENDS Pipeline
=============================================================================
