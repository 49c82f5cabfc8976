------------------------------ MODULE MCRunner ------------------------------
(***************************************************************************)
(* The task of the runner that TLC looks at; the numbers are in the        *)
(* configurations.                                                         *)
(***************************************************************************)
EXTENDS Runner

\* A tool, and the publication of what it made.
ToolThenPublication == <<"local", "push", "pr">>
=============================================================================
