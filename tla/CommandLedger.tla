---------------------------- MODULE CommandLedger -----------------------------
(***************************************************************************)
(* What a command server promises, whatever transport it is built on: a    *)
(* command is handed out once, in order, at most Capacity of them are      *)
(* unanswered, and each ends either with its own answer or, together with  *)
(* what else its connection held, without one.  The report is a snapshot   *)
(* of the answers taken once, after the last command was handed out.       *)
(***************************************************************************)
EXTENDS Integers, FiniteSets

CONSTANTS
    M,          \* number of commands
    Capacity    \* commands that may be unanswered at once

VARIABLES
    left,       \* commands not handed out yet
    flying,     \* commands handed out, not answered and not given up
    answered,   \* commands whose own answer was recorded
    lost,       \* commands given up
    reported, dumped    \* the report was written, and what was in it

vars == <<left, flying, answered, lost, reported, dumped>>

Init ==
    /\ left = M
    /\ flying = {} /\ answered = {} /\ lost = {}
    /\ reported = FALSE /\ dumped = {}

HandOut ==
    /\ left > 0 /\ Cardinality(flying) < Capacity
    /\ left' = left - 1
    /\ flying' = flying \cup {M - left + 1}
    /\ UNCHANGED <<answered, lost, reported, dumped>>

Answer(c) ==
    /\ c \in flying
    /\ flying' = flying \ {c}
    /\ answered' = answered \cup {c}
    /\ UNCHANGED <<left, lost, reported, dumped>>

Lose(cs) ==
    /\ flying' = flying \ cs
    /\ lost' = lost \cup cs
    /\ UNCHANGED <<left, answered, reported, dumped>>

Report ==
    /\ left = 0 /\ ~reported
    /\ reported' = TRUE /\ dumped' = answered
    /\ UNCHANGED <<left, flying, answered, lost>>

Next ==
    \/ HandOut \/ Report
    \/ \E c \in 1 .. M : Answer(c)
    \/ \E cs \in SUBSET flying : Lose(cs)

Spec == Init /\ [][Next]_vars
=============================================================================
