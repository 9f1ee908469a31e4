----------------------------- MODULE MCFuzzPool -----------------------------
(* Command lines and sizes of the fuzz data for TLC: a series on both sides of  *)
(* minlen and of every length field, a single packet on both sides of 65535.    *)
EXTENDS FuzzPool

MCArgvs == {<<>>, <<"input_file.bin">>}

MCTotals == [t \in TypeNames |->
               IF t = "SINGLE" THEN {0, 1, 2, 3, 65507, 65535, 65536, 200000}
               ELSE {0, 2, 3, 6, 7, 13, 16, 22}]
=============================================================================
