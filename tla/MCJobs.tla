------------------------------- MODULE MCJobs -------------------------------
(* The tool calls of one agent run, in a sandbox or in a container. *)
EXTENDS Jobs
=============================================================================
