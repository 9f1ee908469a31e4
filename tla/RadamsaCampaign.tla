--------------------------- MODULE RadamsaCampaign ---------------------------
(***************************************************************************)
(* tools/radamsa/run_fuzzer.sh: mutate the samples, run the target on the  *)
(* result under a timeout, judge the exit code, keep the inputs of failing *)
(* runs.  One action per command of the loop that leaves something behind, *)
(* because the script may be interrupted between any two of them (the trap *)
(* on SIGINT runs when the current command has ended; timeout runs the     *)
(* target in a process group of its own, so the target is not interrupted),*)
(* and because "set -e" ends it at the first command that fails.  Run k    *)
(* feeds input k; an input is its number.                                  *)
(***************************************************************************)
EXTENDS Integers, Sequences, FiniteSets

CONSTANTS NumRuns,    \* -n
          ExitCodes   \* nonzero exit codes of the target, or of its shell

ASSUME NumRunsAssumption   == NumRuns \in Nat
ASSUME ExitCodesAssumption == ExitCodes \subseteq 1 .. 255

VARIABLES pc, i, runs,
          count,      \* the counters crashes, timeouts and errors
          exit_code,
          temp,       \* the temporary file: the input it holds
          files,      \* the files in the three directories
          log,        \* the runs named in the log file
          shown,      \* the numbers the script printed at its end
          ran         \* history: what became of the target, run by run

vars == <<pc, i, runs, count, exit_code, temp, files, log, shown, ran>>

Kinds  == {"crash", "timeout", "error"}
Ends   == {"completed", "interrupted", "died"}
Absent == -1   \* no temporary file
Empty  == 0    \* one without an input

Report == [runs |-> runs, count |-> count]

Init == /\ pc = "setup" /\ i = 1 /\ runs = 0 /\ count = [k \in Kinds |-> 0]
        /\ exit_code = 0 /\ temp = Absent /\ files = {} /\ log = <<>>
        /\ shown = Report /\ ran = <<>>

\* What the target can do, and the exit code timeout makes of it.  A target that
\* hangs ends when it is sent SIGTERM.
Outcomes == {[cause |-> "success", code |-> 0], [cause |-> "hang", code |-> 124],
             [cause |-> "signal", code |-> 139]}
            \cup [cause : {"exit"}, code : ExitCodes]

Kind(code) == CASE code = 0 -> "success" [] code = 124 -> "timeout"
                [] code > 127 -> "crash" [] OTHER -> "error"

-----------------------------------------------------------------------------
\* A command failed: "set -e", and the trap on EXIT.
Die == pc' = "died" /\ temp' = Absent

\* Options, directories, the counters and the temporary file.
Setup ==
    /\ pc = "setup"
    /\ (pc' = "loop" /\ temp' = Empty) \/ Die
    /\ UNCHANGED <<i, runs, count, exit_code, files, log, shown, ran>>

\* Mutant of StartRun: the run is counted when it is over.
StartRun_CountLater ==
    /\ pc = "loop" /\ i <= NumRuns
    /\ runs' = i - 1 /\ pc' = "radamsa"
    /\ UNCHANGED <<i, count, exit_code, temp, files, log, shown, ran>>

StartRun ==
    /\ pc = "loop" /\ i <= NumRuns
    /\ runs' = runs + 1 /\ pc' = "radamsa"
    /\ UNCHANGED <<i, count, exit_code, temp, files, log, shown, ran>>

radamsa ==
    /\ pc = "radamsa"
    /\ \/ temp' = i /\ pc' = "timeout"
       \/ Die
    /\ UNCHANGED <<i, runs, count, exit_code, files, log, shown, ran>>

\* Mutant of timeout: the target is run without it.
timeout_Unlimited ==
    /\ pc = "timeout"
    /\ \E o \in Outcomes : IF o.cause = "hang"
                         THEN pc' = "hanging" /\ UNCHANGED <<exit_code, ran>>
                         ELSE pc' = "judge" /\ exit_code' = o.code /\ ran' = Append(ran, o)
    /\ UNCHANGED <<i, runs, count, temp, files, log, shown>>

timeout ==
    /\ pc = "timeout"
    /\ \E o \in Outcomes : exit_code' = o.code /\ ran' = Append(ran, o)
    /\ pc' = "judge"
    /\ UNCHANGED <<i, runs, count, temp, files, log, shown>>

Judge ==
    /\ pc = "judge"
    /\ \/ Kind(exit_code) = "success" /\ pc' = "next" /\ UNCHANGED count
       \/ /\ Kind(exit_code) # "success" /\ pc' = "cp"
          /\ count' = [count EXCEPT ![Kind(exit_code)] = @ + 1]
    /\ UNCHANGED <<i, runs, exit_code, temp, files, log, shown, ran>>

\* Mutant of cp: the input is logged before it is saved.
cp_LogFirst ==
    /\ pc = "cp"
    /\ \/ /\ log' = Append(log, [kind |-> Kind(exit_code), run |-> i])
          /\ pc' = "log" /\ UNCHANGED <<files, temp>>
       \/ Die /\ UNCHANGED <<files, log>>
    /\ UNCHANGED <<i, runs, count, exit_code, shown, ran>>

\* The names differ between the runs of a campaign, as they end in its number.
cp ==
    /\ pc = "cp"
    /\ \/ /\ files' = files \cup {[kind |-> Kind(exit_code), run |-> i, input |-> temp]}
          /\ pc' = "log" /\ UNCHANGED temp
       \/ Die /\ UNCHANGED files
    /\ UNCHANGED <<i, runs, count, exit_code, log, shown, ran>>

Log ==
    /\ pc = "log"
    /\ \/ /\ log' = Append(log, [kind |-> Kind(exit_code), run |-> i])
          /\ pc' = "next" /\ UNCHANGED temp
       \/ Die /\ UNCHANGED log
    /\ UNCHANGED <<i, runs, count, exit_code, files, shown, ran>>

\* Mutant of NextRun: a run that failed is repeated.
NextRun_Retry ==
    /\ pc = "next"
    /\ i' = (IF exit_code = 0 THEN i + 1 ELSE i) /\ pc' = "loop"
    /\ UNCHANGED <<runs, count, exit_code, temp, files, log, shown, ran>>

NextRun ==
    /\ pc = "next"
    /\ i' = i + 1 /\ pc' = "loop"
    /\ UNCHANGED <<runs, count, exit_code, temp, files, log, shown, ran>>

Completed ==
    /\ pc = "loop" /\ i > NumRuns
    /\ pc' \in {"completed", "died"} /\ shown' = Report /\ temp' = Absent
    /\ UNCHANGED <<i, runs, count, exit_code, files, log, ran>>

\* SIGINT between two commands.
cleanup ==
    /\ pc \notin Ends
    /\ pc' = "interrupted" /\ shown' = Report /\ temp' = Absent
    /\ UNCHANGED <<i, runs, count, exit_code, files, log, ran>>

Ended == pc \in Ends /\ UNCHANGED vars

Script == Setup \/ StartRun \/ radamsa \/ timeout \/ Judge \/ cp \/ Log \/ NextRun \/ Completed

Next == Script \/ cleanup \/ Ended

\* The commands of the script all end, the target's by the timeout.  Nobody has
\* to interrupt it.
Spec == Init /\ [][Next]_vars /\ WF_vars(Script)

-----------------------------------------------------------------------------
(* Properties. *)

TypeOK ==
    /\ pc \in {"setup", "loop", "radamsa", "timeout", "judge", "cp", "log",
               "next"} \cup Ends
    /\ i \in 1 .. NumRuns + 1 /\ runs \in 0 .. NumRuns
    /\ count \in [Kinds -> 0 .. NumRuns]
    /\ exit_code \in 0 .. 255 /\ temp \in {Absent, Empty} \cup 1 .. NumRuns
    /\ files \subseteq [kind : Kinds, run : 1 .. NumRuns, input : 1 .. NumRuns]
    /\ log \in Seq([kind : Kinds, run : 1 .. NumRuns])
    /\ shown \in [runs : 0 .. NumRuns, count : [Kinds -> 0 .. NumRuns]]
    /\ ran \in Seq(Outcomes)

RunsOf(kind)   == {k \in 1 .. Len(ran) : Kind(ran[k].code) = kind}
FailuresBefore(n) == {k \in 1 .. Len(ran) : k < n /\ Kind(ran[k].code) # "success"}

\* Between two runs the counters, the files and the log agree with what became
\* of the targets: each failure is counted, saved and logged once, under one and
\* the same kind, and the file holds the input of that very run and not the one
\* before or after it (README.md line 111, "Save exact inputs for debugging").
RunsAreAccounted ==
    pc \in {"loop", "completed"} =>
        /\ runs = i - 1 /\ Len(ran) = i - 1
        /\ \A kind \in Kinds : count[kind] = Cardinality(RunsOf(kind))
        /\ files = {[kind |-> Kind(ran[k].code), run |-> k, input |-> k] : k \in FailuresBefore(i)}
        /\ {[kind |-> e.kind, run |-> e.run, input |-> e.run] : e \in {log[k] : k \in 1 .. Len(log)}}
             = files
        /\ Len(log) = Cardinality(files)

\* An interrupt or a failing command loses one run at most, the one in flight:
\* what the script prints at its end counts no failure twice and none that did
\* not happen, and only the last failure can be without its file.
StopLosesOneRun ==
    pc \in Ends =>
        LET failures == shown.count["crash"] + shown.count["timeout"] + shown.count["error"]
        IN  /\ pc # "died" => /\ shown.runs - Len(ran) \in {0, 1}
                              /\ Cardinality(FailuresBefore(Len(ran) + 1)) - failures \in {0, 1}
            /\ \A k \in FailuresBefore(Len(ran)) : \E f \in files : f.run = k /\ f.input = k

\* The log never names an input that was not saved (lines 150-153).
LoggedIsSaved ==
    \A k \in 1 .. Len(log) :
        [kind |-> log[k].kind, run |-> log[k].run, input |-> log[k].run] \in files

\* The campaign ends: no failure is retried, and no run waits for anything but
\* its timeout.
CampaignEnds == <>(pc \in Ends)
=============================================================================
