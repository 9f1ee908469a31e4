---------------------------- MODULE CaseCampaign ----------------------------
(***************************************************************************)
(* examples/08_afl_mdns_gcov/make_cases.py: in each run a model is shown   *)
(* the coverage of the parser and asked for a script, the script writes    *)
(* test cases, the cases are run and the coverage is measured again.       *)
(* Several campaigns may use one directory.  The model, the script, the    *)
(* test program and gcov are other programs: each may fail, or not return, *)
(* and those of several campaigns run side by side.                        *)
(* A campaign may be killed, and another be started; MaxKills bounds that. *)
(***************************************************************************)
EXTENDS Integers, FiniteSets

CONSTANTS Campaigns,
          max_runs,     \* of each campaign
          MaxCases,     \* that a script of each writes
          MaxKills

ASSUME MaxRunsAssumption  == max_runs \in [Campaigns -> Nat]
ASSUME BoundsAssumption   == MaxCases \in [Campaigns -> Nat] /\ MaxKills \in Nat

VARIABLES pc,
          run_id,       \* by campaign, as the next six
          i,            \* of run_{i}
          bin_files,    \* those not yet run
          crashed,      \* history: a test of this campaign crashed
          finished,     \* history: the directories this campaign is done with
          sum,          \* what the gcov of this campaign has read of the counters
          overtaken,    \* history: when it read them, another gcov had, and was not done
          dirs,         \* run_{i} exists
          cases,        \* the test cases in the directories
          counters,     \* .gcda: the cases whose coverage was counted
          report,       \* mdns_receive.c.gcov: the cases it tells of, if it is whole
          torn,         \* history: whose gcov opened the report since it was last whole
          runs,         \* history: how often each case was run
          kills

coverage == <<counters, report, torn>>
mine   == <<pc, run_id, i, bin_files, crashed, finished, sum, overtaken>>
shared == <<dirs, cases, coverage, runs>>
vars   == <<mine, shared, kills>>

Ended   == {"done", "failed", "killed"}
Summed  == {"summed", "write"}       \* gcov has read the counters; and opened the report
InGcov  == {"gcov"} \cup Summed
Waiting == {"completion", "script", "test"} \cup InGcov   \* for another program
In(S, d) == {c \in S : c[1] = d}
Cases(d) == In(cases, d)

Init ==
    /\ pc = [p \in Campaigns |-> "run"] /\ run_id = [p \in Campaigns |-> 0]
    /\ i = [p \in Campaigns |-> 0] /\ bin_files = [p \in Campaigns |-> {}]
    /\ crashed = [p \in Campaigns |-> FALSE] /\ finished = [p \in Campaigns |-> {}]
    /\ sum = [p \in Campaigns |-> {}] /\ overtaken = [p \in Campaigns |-> FALSE]
    /\ dirs = {} /\ cases = {} /\ counters = {} /\ report = {} /\ torn = {}
    /\ runs = [c \in {} |-> 0] /\ kills = 0

Scripts(p) == {{i[p]} \X (1 .. n) : n \in 0 .. MaxCases[p]}
Goto(p, label) == pc' = [pc EXCEPT ![p] = label]

-----------------------------------------------------------------------------
FirstFree == CHOOSE j \in 0 .. Cardinality(dirs) : j \notin dirs /\ \A l \in 0 .. j - 1 : l \in dirs

\* for run_id in range(args.max_runs), and the search for a directory that does not
\* exist: what is found is what the last look at the disk says, as none goes away.
Run(p) ==
    /\ pc[p] = "run"
    /\ IF run_id[p] = max_runs[p] THEN Goto(p, "done") /\ UNCHANGED i
       ELSE i' = [i EXCEPT ![p] = FirstFree] /\ Goto(p, "makedirs")
    /\ UNCHANGED <<run_id, bin_files, crashed, finished, sum, overtaken, shared, kills>>

\* Mutant of makedirs: with exist_ok.
makedirs_ExistOk(p) ==
    /\ pc[p] = "makedirs" /\ dirs' = dirs \cup {i[p]} /\ Goto(p, "completion")
    /\ UNCHANGED <<run_id, i, bin_files, crashed, finished, sum, overtaken, cases, coverage, runs, kills>>

\* Another campaign may have made it meanwhile: FileExistsError.
makedirs(p) ==
    /\ pc[p] = "makedirs"
    /\ IF i[p] \in dirs THEN Goto(p, "failed") ELSE Goto(p, "completion")
    /\ dirs' = dirs \cup {i[p]}
    /\ UNCHANGED <<run_id, i, bin_files, crashed, finished, sum, overtaken, cases, coverage, runs, kills>>

NextRun(p) == /\ Goto(p, "run") /\ run_id' = [run_id EXCEPT ![p] = @ + 1]
              /\ finished' = [finished EXCEPT ![p] = @ \cup {i[p]}]

\* The completion has a script in it; has none, or is empty; reading the
\* report, or the request, raised.
Completion(p) ==
    /\ pc[p] = "completion"
    /\ \/ Goto(p, "script") /\ UNCHANGED <<run_id, finished>>
       \/ NextRun(p)
       \/ Goto(p, "failed") /\ UNCHANGED <<run_id, finished>>
    /\ UNCHANGED <<i, bin_files, crashed, sum, overtaken, shared, kills>>

\* Mutant of Script: the cases of a script that failed are not run.
Script_OkOnly(p) ==
    /\ pc[p] = "script"
    /\ \E new \in Scripts(p) :
          /\ cases' = cases \cup new
          /\ \/ NextRun(p) /\ UNCHANGED bin_files
             \/ IF new = {} THEN NextRun(p) /\ UNCHANGED bin_files
                ELSE bin_files' = [bin_files EXCEPT ![p] = In(cases', i[p])] /\ Goto(p, "test")
                     /\ UNCHANGED <<run_id, finished>>
    /\ UNCHANGED <<i, crashed, sum, overtaken, dirs, coverage, runs, kills>>

\* Mutant of Script: without cases, the model is asked again.
Script_AskAgain(p) ==
    /\ pc[p] = "script"
    /\ \E new \in Scripts(p) : cases' = cases \cup new
    /\ IF In(cases', i[p]) = {} THEN Goto(p, "completion") /\ UNCHANGED bin_files
       ELSE bin_files' = [bin_files EXCEPT ![p] = In(cases', i[p])] /\ Goto(p, "test")
    /\ UNCHANGED <<run_id, finished, i, crashed, sum, overtaken, dirs, coverage, kills, runs>>

\* The script writes cases, whether it fails in the end or not: the error is
\* caught and what there is, is run.
Script(p) ==
    /\ pc[p] = "script"
    /\ \E new \in Scripts(p) : cases' = cases \cup new
    /\ IF In(cases', i[p]) = {} THEN NextRun(p) /\ UNCHANGED bin_files
       ELSE bin_files' = [bin_files EXCEPT ![p] = In(cases', i[p])] /\ Goto(p, "test")
            /\ UNCHANGED <<run_id, finished>>
    /\ UNCHANGED <<i, crashed, sum, overtaken, dirs, coverage, kills, runs>>

WasRun(c) == runs' = [x \in DOMAIN runs \cup {c} |-> IF x # c THEN runs[x]
                                                      ELSE IF c \in DOMAIN runs THEN runs[c] + 1 ELSE 1]

AfterCrash(p) == Goto(p, "failed")

\* The cases are run in the order os.listdir has them in, which is any.  A program
\* that crashes does not write its counters.
Test(p) ==
    /\ pc[p] = "test"
    /\ \E c \in bin_files[p] :
          /\ WasRun(c) /\ bin_files' = [bin_files EXCEPT ![p] = @ \ {c}]
          /\ \/ /\ counters' = counters \cup {c} /\ UNCHANGED crashed
                /\ Goto(p, IF bin_files'[p] = {} THEN "gcov" ELSE "test")
             \/ /\ crashed' = [crashed EXCEPT ![p] = TRUE] /\ UNCHANGED counters
                /\ AfterCrash(p)
    /\ UNCHANGED <<run_id, i, finished, sum, overtaken, dirs, cases, report, torn, kills>>

\* gcov reads the counters.
GcovRead(p) ==
    /\ pc[p] = "gcov" /\ Goto(p, "summed") /\ sum' = [sum EXCEPT ![p] = counters]
    /\ overtaken' = [overtaken EXCEPT ![p] = \E q \in Campaigns \ {p} : pc[q] \in Summed]
    /\ UNCHANGED <<run_id, i, bin_files, crashed, finished, shared, kills>>

Writers == {q \in Campaigns : pc[q] = "write"}

\* It opens the report, which is empty then.
GcovOpen(p) ==
    /\ pc[p] = "summed" /\ Goto(p, "write")
    /\ report' = {} /\ torn' = Writers \cup {p}
    /\ UNCHANGED <<run_id, i, bin_files, crashed, finished, sum, overtaken, dirs, cases, counters, runs, kills>>

\* It is done writing.  What two have written at once is whole only if the last
\* one happened to write over all of it.
GcovClose(p) ==
    /\ pc[p] = "write" /\ NextRun(p) /\ sum' = [sum EXCEPT ![p] = {}]
    /\ \/ Writers = {p} /\ report' = sum[p] /\ torn' = {}
       \/ torn # {p} /\ UNCHANGED <<report, torn>>
    /\ UNCHANGED <<i, bin_files, crashed, overtaken, dirs, cases, counters, runs, kills>>

\* Mutant of GcovFail: its failure is not checked.
GcovFail_Unchecked(p) ==
    /\ pc[p] \in InGcov /\ NextRun(p) /\ sum' = [sum EXCEPT ![p] = {}]
    /\ UNCHANGED <<i, bin_files, crashed, overtaken, shared, kills>>

\* It fails, at any point, and leaves the report as it is then.
GcovFail(p) ==
    /\ pc[p] \in InGcov /\ Goto(p, "failed") /\ sum' = [sum EXCEPT ![p] = {}]
    /\ UNCHANGED <<run_id, i, bin_files, crashed, finished, overtaken, shared, kills>>

Gcov(p) == GcovRead(p) \/ GcovOpen(p) \/ GcovClose(p) \/ GcovFail(p)

\* The campaign is killed, with what it waits for, and one is started in its place,
\* in the same directory.
Kill(p) == /\ pc[p] \notin Ended /\ kills < MaxKills /\ kills' = kills + 1 /\ Goto(p, "killed")
           /\ bin_files' = [bin_files EXCEPT ![p] = {}] /\ sum' = [sum EXCEPT ![p] = {}]
           /\ UNCHANGED <<run_id, i, crashed, finished, overtaken, shared>>

Restart(p) == /\ pc[p] = "killed" /\ Goto(p, "run") /\ run_id' = [run_id EXCEPT ![p] = 0]
              /\ i' = [i EXCEPT ![p] = 0] /\ crashed' = [crashed EXCEPT ![p] = FALSE]
              /\ finished' = [finished EXCEPT ![p] = {}] /\ UNCHANGED <<bin_files, sum, overtaken, shared, kills>>

Finished == (\A p \in Campaigns : pc[p] \in Ended) /\ UNCHANGED vars

Own(p)    == Run(p) \/ makedirs(p)
Others(p) == Completion(p) \/ Script(p) \/ Test(p) \/ Gcov(p)
Next == (\E p \in Campaigns : Own(p) \/ Others(p) \/ Kill(p) \/ Restart(p)) \/ Finished

\* The campaign's own steps are taken; no call has a timeout, so that those it
\* waits for may never return.
Spec == Init /\ [][Next]_vars /\ \A p \in Campaigns : WF_vars(Own(p))

-----------------------------------------------------------------------------
(* Properties. *)

\* The types, and what each of the shared sets comes out of.
TypeOK ==
    /\ pc \in [Campaigns -> {"run", "makedirs"} \cup Waiting \cup Ended]
    /\ i = [p \in Campaigns |-> i[p]] /\ bin_files = [p \in Campaigns |-> bin_files[p]]
    /\ crashed \in [Campaigns -> BOOLEAN] /\ finished \in [Campaigns -> SUBSET dirs]
    /\ \A c \in cases : c[1] \in dirs
    /\ sum \in [Campaigns -> SUBSET counters] /\ overtaken \in [Campaigns -> BOOLEAN]
    /\ torn \subseteq Campaigns
    /\ report \subseteq counters /\ counters \subseteq DOMAIN runs /\ DOMAIN runs \subseteq cases

\* No case is run twice, by whichever campaigns and however often they are started:
\* a directory that was free when it was looked for is given to one run only.
CasesRunOnce == \A c \in DOMAIN runs : runs[c] = 1

\* A campaign that came to its end has met no crash: the first one stops it, with
\* the directory it is in as the last one.
CrashStopsTheCampaign ==
    \A p \in Campaigns : /\ pc[p] = "done" => ~crashed[p]
                         /\ crashed[p] => pc[p] \in {"failed", "killed"} /\ i[p] \notin finished[p]

\* The comment of line 124, "maybe we have some valid test cases": a run that the
\* campaign went on from has run everything its script left, failed or not; it does
\* not go on from a crash, which leaves cases behind.
FinishedRunsAreRun ==
    /\ \A p \in Campaigns : \A d \in finished[p] : Cases(d) \subseteq DOMAIN runs
    /\ CrashStopsTheCampaign

\* What the model is shown tells of every case of the runs before it that this
\* campaign is done with, also when other campaigns have written the report since,
\* and whatever gcov failed at: but for what two gcov at work at once do to it.  One
\* that had read the counters before ours did may write its older sum after ours,
\* and a report that another one has opened may not be whole.
PromptIsFresh ==
    \A p \in Campaigns : pc[p] = "completion" /\ ~overtaken[p] /\ torn \subseteq {p} =>
        \A d \in finished[p] : Cases(d) \subseteq report

\* A campaign ends, or waits for ever for one of the programs it has called.
CampaignEnds ==
    \A p \in Campaigns : \/ <>[](pc[p] \in Ended)
                         \/ \E w \in Waiting : <>[](pc[p] = w)
=============================================================================
