-------------------------- MODULE AtomicEventGroup --------------------------
(***************************************************************************)
(* What an event group promises: a set of bits, and calls on it that take  *)
(* effect at one instant between their start and their return.  A wait     *)
(* takes effect only when its bits are there.  A thread can be deleted     *)
(* outside a call, or in a wait that did not take effect; its wait then    *)
(* never does.                                                             *)
(***************************************************************************)
CONSTANTS Threads, Bits, Calls

VARIABLES live,    \* there is a group
          bits,
          status,  \* of each thread's call
          call,    \* the call
          out      \* what it returns

vars == <<live, bits, status, call, out>>

NoCall == [op |-> "none", mask |-> {}, clear |-> FALSE, all |-> FALSE]

Satisfied(c, b) == IF c.all THEN c.mask \subseteq b ELSE c.mask \cap b # {}

Init == /\ live = FALSE /\ bits = {}
        /\ status = [t \in Threads |-> "idle"]
        /\ call = [t \in Threads |-> NoCall]
        /\ out = [t \in Threads |-> {}]

Create == live' = TRUE /\ bits' = {} /\ UNCHANGED <<status, call, out>>

Delete == /\ \A t \in Threads : status[t] \in {"idle", "gone"}
          /\ live' = FALSE /\ UNCHANGED <<bits, status, call, out>>

Call(t) == /\ live /\ status[t] = "idle"
           /\ status' = [status EXCEPT ![t] = "called"]
           /\ \E c \in Calls : call' = [call EXCEPT ![t] = c]
           /\ UNCHANGED <<live, bits, out>>

\* Set and clear return the bits after, wait the bits before its own clearing.
After(c) == CASE c.op = "set" -> bits \cup c.mask
              [] c.op = "clear" -> bits \ c.mask
              [] c.op = "wait" /\ c.clear -> bits \ c.mask
              [] OTHER -> bits

Effect(t) ==
    /\ status[t] = "called" /\ (call[t].op = "wait" => Satisfied(call[t], bits))
    /\ status' = [status EXCEPT ![t] = "done"]
    /\ bits' = After(call[t])
    /\ out' = [out EXCEPT ![t] = IF call[t].op = "wait" THEN bits ELSE After(call[t])]
    /\ UNCHANGED <<live, call>>

Return(t) == /\ status[t] = "done" /\ status' = [status EXCEPT ![t] = "idle"]
             /\ call' = [call EXCEPT ![t] = NoCall] /\ out' = [out EXCEPT ![t] = {}]
             /\ UNCHANGED <<live, bits>>

Deleted(t) == /\ \/ status[t] = "idle"
                 \/ status[t] = "called" /\ call[t].op = "wait"
              /\ status' = [status EXCEPT ![t] = "gone"]
              /\ UNCHANGED <<live, bits, call, out>>

Next == \/ Create \/ Delete
        \/ \E t \in Threads : Call(t) \/ Effect(t) \/ Return(t) \/ Deleted(t)

Spec == Init /\ [][Next]_vars
=============================================================================
