----------------------------- MODULE MCUvDispatch -----------------------------
(* Answers of two lengths for UvDispatch *)
EXTENDS UvDispatch

\* "Row[2367] = 148" and "Row[41] = 701" differ in length.
LongThenShort == [c \in 1 .. M |-> IF c % 2 = 1 THEN 2 ELSE 1]
=============================================================================
