---------------------------- MODULE MCNumericIds ----------------------------
(* Numbers of two digits in four bits, for TLC.                              *)
EXTENDS NumericIds

MCDigits == <<"0", "1">>

MCSigns == [plus |-> "+", minus |-> "-"]
=============================================================================
