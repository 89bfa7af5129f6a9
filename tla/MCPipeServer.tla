----------------------------- MODULE MCPipeServer -----------------------------
(* Instances of PipeServer for TLC *)
EXTENDS PipeServer, TLC

\* Clients are only told apart by their own state.
ClientSymmetry == Permutations(Clients)
=============================================================================
