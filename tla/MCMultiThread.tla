------------------------------ MODULE MCMultiThread ------------------------------
(* Two cores and three tests: the word of test 0 is a plain scratch         *)
(* register, that of test 1 carries the signature, test 2 has none.         *)
EXTENDS MultiThread
MCPreferred == [t \in 0 .. 2 |-> IF t = 1 THEN "c1" ELSE "c0"]
=============================================================================
