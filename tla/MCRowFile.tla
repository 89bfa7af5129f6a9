------------------------------ MODULE MCRowFile -------------------------------
(* Three rows of different lengths, so that a wrong row has a wrong count *)
EXTENDS RowFile

MCRows == << <<97>>, <<98, 98, 98>>, <<99, 99>> >>
=============================================================================
