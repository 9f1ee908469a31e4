----------------------------- MODULE MCEventGroup ----------------------------
(* Three threads; two of them can wait for both bits, or for one of them. *)
EXTENDS EventGroup

C(op, mask, clear, all) == [op |-> op, mask |-> mask, clear |-> clear, all |-> all]

MCCalls == {C("get", {}, FALSE, FALSE)}
           \cup {C("set", {b}, FALSE, FALSE) : b \in Bits}
           \cup {C("clear", Bits, FALSE, FALSE), C("wait", Bits, TRUE, TRUE),
                 C("wait", Bits, FALSE, FALSE)}
=============================================================================
