--------------------------- MODULE BoofuzzCampaign ---------------------------
(***************************************************************************)
(* tools/boofuzz/iot_parser_fuzz.py (and its copy in                       *)
(* examples/03_boofuzz_iotparser): one target process per test case, whose *)
(* exit code the connection keeps and the monitor judges.  The two only    *)
(* meet in last_exit_code.  The session between them is boofuzz, which is  *)
(* not in the repository: it calls open, pre_send, send, post_send, close  *)
(* and, after a failure, restart_target, in this order; an exception from  *)
(* send leaves its loop.  open, pre_send, recv, alive and restart_target   *)
(* change nothing and are left out.  A campaign that stopped may be        *)
(* resumed with --index; MaxResumes bounds that.                           *)
(***************************************************************************)
EXTENDS Integers, FiniteSets

CONSTANTS NumCases,
          ElementOf,   \* the element a test case mutates
          Threshold,   \* crash_threshold_element
          Codes,       \* the exit codes of a target that ends; of a signal, negative
          MaxResumes

Cases == 1 .. NumCases

ASSUME NumCasesAssumption  == NumCases \in Nat
ASSUME ThresholdAssumption == Threshold \in Nat \ {0}
ASSUME ResumesAssumption   == MaxResumes \in Nat
ASSUME CodesAssumption     == Codes \subseteq -64 .. 255 /\ 0 \in Codes

VARIABLES pc,
          index,           \* the test case
          last_exit_code,
          process,         \* of the connection's _process
          crashes,         \* the session's count of failures, by element
          verdict,         \* history: what post_send said of a test case
          outcome,         \* history: what the target did with it
          resumed

vars == <<pc, index, last_exit_code, process, crashes, verdict, outcome, resumed>>

Elements == {ElementOf[c] : c \in Cases}
Stops    == {"stopped", "interrupted"}
Timeout  == 999
Hung     == 1000   \* the target did not end
Unstarted == 1001  \* there was none

Init == /\ pc = "case" /\ index = 1 /\ last_exit_code = 0 /\ process = "none"
        /\ crashes = [e \in Elements |-> 0]
        /\ verdict = [c \in Cases |-> "none"]
        /\ outcome = [c \in Cases |-> {}] /\ resumed = 0

Skipped(c) == crashes[ElementOf[c]] >= Threshold
Happened(o) == outcome' = [outcome EXCEPT ![index] = @ \cup {o}]

-----------------------------------------------------------------------------
\* The session goes to the next test case of an element that has not failed too
\* often.
Case == /\ pc = "case" /\ index <= NumCases
        /\ IF Skipped(index) THEN index' = index + 1 /\ UNCHANGED pc
                             ELSE pc' = "send" /\ UNCHANGED index
        /\ UNCHANGED <<last_exit_code, process, crashes, verdict, outcome, resumed>>

\* Mutant of Popen: a test case whose target does not start is passed over.
Popen_PassOver ==
    /\ pc = "send"
    /\ \/ process' = "running" /\ pc' = "communicate" /\ UNCHANGED outcome
       \/ pc' = "close" /\ Happened(Unstarted) /\ UNCHANGED process
    /\ UNCHANGED <<index, last_exit_code, crashes, verdict, resumed>>

\* Mutant of Popen: a failure to start the target is let pass.
Popen_LetPass ==
    /\ pc = "send"
    /\ \/ process' = "running" /\ pc' = "communicate" /\ UNCHANGED outcome
       \/ pc' = "post_send" /\ Happened(Unstarted) /\ UNCHANGED process
    /\ UNCHANGED <<index, last_exit_code, crashes, verdict, resumed>>

Popen ==
    /\ pc = "send"
    /\ \/ process' = "running" /\ pc' = "communicate" /\ UNCHANGED outcome
       \/ pc' = "stopped" /\ Happened(Unstarted) /\ UNCHANGED process
    /\ UNCHANGED <<index, last_exit_code, crashes, verdict, resumed>>

communicate ==
    /\ pc = "communicate" /\ process' = "exited"
    /\ \E code \in Codes : last_exit_code' = code /\ Happened(code)
    /\ pc' = "post_send" /\ UNCHANGED <<index, crashes, verdict, resumed>>

\* Mutant of TimeoutExpired: the target is not killed.
TimeoutExpired_NoKill ==
    /\ pc = "communicate"
    /\ last_exit_code' = Timeout /\ Happened(Hung) /\ pc' = "stopped"
    /\ UNCHANGED <<index, process, crashes, verdict, resumed>>

TimeoutExpired ==
    /\ pc = "communicate" /\ process' = "killed"
    /\ last_exit_code' = Timeout /\ Happened(Hung) /\ pc' = "stopped"
    /\ UNCHANGED <<index, crashes, verdict, resumed>>

\* What is left of the two branches for exit codes above 127 and other than zero.
Alive == last_exit_code = 0

post_send ==
    /\ pc = "post_send"
    /\ verdict' = [verdict EXCEPT ![index] = IF Alive THEN "ok" ELSE "crash"]
    /\ crashes' = [crashes EXCEPT ![ElementOf[index]] = IF Alive THEN @ ELSE @ + 1]
    /\ pc' = "close" /\ UNCHANGED <<index, last_exit_code, process, outcome, resumed>>

\* Mutant of close: the session goes on with the same test case.
close_Again ==
    /\ pc = "close"
    /\ process' = (IF process = "running" THEN "killed" ELSE process)
    /\ pc' = "case" /\ UNCHANGED <<index, last_exit_code, crashes, verdict, outcome, resumed>>

close ==
    /\ pc = "close"
    /\ process' = (IF process = "running" THEN "killed" ELSE process)
    /\ pc' = "case" /\ index' = index + 1
    /\ UNCHANGED <<last_exit_code, crashes, verdict, outcome, resumed>>

\* KeyboardInterrupt.  The terminal sends the signal to the target as well.
KeyboardInterrupt ==
    /\ pc \notin Stops \cup {"completed"} /\ pc' = "interrupted"
    /\ process' = (IF process = "running" THEN "killed" ELSE process)
    /\ UNCHANGED <<index, last_exit_code, crashes, verdict, outcome, resumed>>

Completed == /\ pc = "case" /\ index > NumCases /\ pc' = "completed"
             /\ UNCHANGED <<index, last_exit_code, process, crashes, verdict, outcome, resumed>>

\* A new process of the script, at the test case it stopped at or the next one.
Resume == /\ pc \in Stops /\ resumed < MaxResumes /\ resumed' = resumed + 1
          /\ index' \in {index, index + 1} /\ pc' = "case"
          /\ last_exit_code' = 0 /\ crashes' = [e \in Elements |-> 0]
          /\ UNCHANGED <<process, verdict, outcome>>

Ended == pc \in Stops \cup {"completed"} /\ UNCHANGED vars

Session == \/ Case \/ Popen \/ communicate \/ TimeoutExpired \/ post_send \/ close
           \/ Completed
Next    == Session \/ KeyboardInterrupt \/ Resume \/ Ended

\* The script and boofuzz run; communicate returns, or its timeout expires.
Spec == Init /\ [][Next]_vars /\ WF_vars(Session)

-----------------------------------------------------------------------------
(* Properties. *)

TypeOK ==
    /\ pc \in {"case", "send", "communicate", "post_send", "close", "completed"} \cup Stops
    /\ index \in 1 .. NumCases + MaxResumes + 1
    /\ last_exit_code \in Codes \cup {Timeout}
    /\ process \in {"none", "running", "exited", "killed"}
    /\ crashes \in [Elements -> 0 .. Threshold]
    /\ verdict \in [Cases -> {"none", "ok", "crash"}]
    /\ outcome \in [Cases -> SUBSET (Codes \cup {Hung, Unstarted})]
    /\ resumed \in 0 .. MaxResumes

\* A test case is judged by its own run: last_exit_code is never one of the run
\* before, or the one a new connection starts with, however the campaign was
\* stopped and resumed.  A verdict has an exit code of this test case that gives
\* it, and a target that hung or did not start gives none.
JudgedByOwnRun ==
    \A c \in Cases :
        /\ verdict[c] = "ok" => 0 \in outcome[c]
        /\ verdict[c] = "crash" => outcome[c] \cap (Codes \ {0}) # {}

\* Whenever the campaign goes to another test case, its target is gone: no two
\* targets run at a time and none outlives the script.
OneTarget == pc \in {"case", "send", "completed"} \cup Stops => process # "running"

\* A campaign that was never stopped has judged every test case, but for those
\* of elements that failed too often.
EveryCaseJudged ==
    pc = "completed" /\ resumed = 0 => \A c \in Cases : verdict[c] # "none" \/ Skipped(c)

\* A campaign ends: no test case is tried for ever.
CampaignEnds == <>[](pc \in Stops \cup {"completed"})

\* The comment of line 63: a nonzero exit is "interesting for logging but NOT a
\* crash (just invalid input)".
InvalidInputIsNoCrash ==
    \A c \in Cases : verdict[c] = "crash" => \E o \in outcome[c] : o < 0 \/ o > 127
=============================================================================
