----------------------------- MODULE MCJavaTask -----------------------------
(* Three thread ids, the first and the last of which have one int as hash. *)
EXTENDS JavaTask

MCHash == [id \in ThreadIds |-> id]
=============================================================================
