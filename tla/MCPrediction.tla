---------------------------- MODULE MCPrediction ----------------------------
(* A small instance of Prediction for TLC. *)
EXTENDS Prediction

\* A character of one byte, one of two, and a text of both.
ShortAndLong == {<< <<"x">> >>, << <<"p", "q">> >>, << <<"x">>, <<"p", "q">> >>}
=============================================================================
