------------------------- MODULE CaseCampaign_proofs -------------------------
(***************************************************************************)
(* Proofs about CaseCampaign: whatever is shared by the campaigns of one   *)
(* directory, a test case is run once, for the campaign that made it; and  *)
(* what the coverage a model is shown still tells of, when several gcov    *)
(* read the same counters and write the same report.                       *)
(***************************************************************************)
EXTENDS CaseCampaign, TLAPS

\* A campaign has a directory from makedirs on, until its run is over.
Active(p) == pc[p] \in Waiting

Shapes ==
    /\ pc \in [Campaigns -> {"run", "makedirs"} \cup Waiting \cup Ended]
    /\ i = [p \in Campaigns |-> i[p]] /\ bin_files = [p \in Campaigns |-> bin_files[p]]
    /\ crashed \in [Campaigns -> BOOLEAN]
    /\ finished \in [Campaigns -> SUBSET dirs]
    /\ \A c \in cases : c[1] \in dirs

\* A directory is in the hands of one campaign, and of none once it is finished.
OneOwner ==
    \A p \in Campaigns : Active(p) =>
        /\ i[p] \in dirs
        /\ \A q \in Campaigns : i[p] \notin finished[q] /\ (q # p /\ Active(q) => i[q] # i[p])

\* Its cases are there after the script only; those to be run have not been run,
\* and the others are counted.
Progress ==
    \A p \in Campaigns :
        /\ pc[p] \in {"completion", "script"} => Cases(i[p]) = {}
        /\ pc[p] = "test" => /\ bin_files[p] \subseteq Cases(i[p]) \ DOMAIN runs
                             /\ Cases(i[p]) \ bin_files[p] \subseteq counters
        /\ pc[p] \in InGcov => Cases(i[p]) \subseteq counters

\* What a finished directory holds was counted, and so was run.
Counted == \A p \in Campaigns : \A d \in finished[p] : Cases(d) \subseteq counters
Chain == counters \subseteq DOMAIN runs /\ DOMAIN runs \subseteq cases

RunsInv == /\ Shapes /\ OneOwner /\ Progress /\ Counted /\ Chain
           /\ CasesRunOnce /\ CrashStopsTheCampaign

\* The directories whose cases the last gcov of p that read the counters found there.
Told(p) == finished[p] \cup (IF pc[p] \in Summed THEN {i[p]} ELSE {})

CoverageShapes ==
    /\ sum \in [Campaigns -> SUBSET counters] /\ overtaken \in [Campaigns -> BOOLEAN]
    /\ report \subseteq counters /\ torn \subseteq Campaigns
    /\ \A q \in Campaigns : pc[q] = "write" => q \in torn

\* A gcov that is not done has read the counters later than that of p has, unless
\* p was overtaken.
SumsAreNew ==
    \A p, q \in Campaigns : pc[q] \in Summed /\ (q = p \/ ~overtaken[p]) =>
        \A d \in Told(p) : Cases(d) \subseteq sum[q]

Reported ==
    \A p \in Campaigns : pc[p] \notin Summed \cup Ended /\ ~overtaken[p] /\ torn \subseteq {p} =>
        \A d \in finished[p] : Cases(d) \subseteq report

CoverageInv == CoverageShapes /\ SumsAreNew /\ Reported

IInv == RunsInv /\ CoverageInv

-----------------------------------------------------------------------------
LEMMA InitInv == Init => IInv
<1> SUFFICES ASSUME Init PROVE IInv
  OBVIOUS
<1>1. RunsInv
  BY DEF Init, RunsInv, Shapes, OneOwner, Active, Waiting, InGcov, Summed, Ended, Progress, Counted, Chain,
     CasesRunOnce, CrashStopsTheCampaign, Cases, In
<1>2. CoverageInv
  BY DEF Init, CoverageInv, CoverageShapes, SumsAreNew, Told, Summed, Reported, Cases, In
<1> QED BY <1>1, <1>2 DEF IInv

LEMMA RunInv == ASSUME IInv, NEW p \in Campaigns, Run(p) PROVE RunsInv'
<1>1. /\ pc[p] = "run" /\ UNCHANGED <<bin_files, crashed, finished, dirs, cases, counters, runs>>
      /\ pc' \in {[pc EXCEPT ![p] = "done"], [pc EXCEPT ![p] = "makedirs"]}
      /\ \A q \in Campaigns : q # p => i'[q] = i[q]
      /\ i' = [q \in Campaigns |-> i'[q]]
  BY DEF Run, Goto, shared, coverage, IInv, RunsInv, Shapes
<1>2. \A q \in Campaigns : Active(q)' => Active(q) /\ q # p /\ pc'[q] = pc[q]
  BY <1>1 DEF Active, Waiting, IInv, RunsInv, Shapes, InGcov, Summed
<1>3. Shapes'
  BY <1>1 DEF IInv, RunsInv, Shapes, Waiting, Ended, InGcov, Summed
<1>4. (OneOwner /\ Progress)'
  BY <1>1, <1>2 DEF IInv, RunsInv, OneOwner, Progress, Active, Waiting, Cases, In, InGcov, Summed
<1>5. (Counted /\ Chain /\ CasesRunOnce)'
  BY <1>1 DEF IInv, RunsInv, Counted, Chain, CasesRunOnce, Cases, In
<1>6. CrashStopsTheCampaign'
  BY <1>1 DEF IInv, RunsInv, Shapes, CrashStopsTheCampaign
<1> QED BY <1>3, <1>4, <1>5, <1>6 DEF RunsInv

LEMMA MakedirsInv == ASSUME IInv, NEW p \in Campaigns, makedirs(p) PROVE RunsInv'
<1>1. /\ pc[p] = "makedirs" /\ dirs' = dirs \cup {i[p]}
      /\ UNCHANGED <<i, bin_files, crashed, finished, cases, counters, runs>>
      /\ pc' = [pc EXCEPT ![p] = IF i[p] \in dirs THEN "failed" ELSE "completion"]
  BY DEF makedirs, Goto, coverage
<1>2. Shapes'
  BY <1>1 DEF IInv, RunsInv, Shapes, Waiting, Ended, InGcov, Summed
<1>3. i[p] \notin dirs => /\ Cases(i[p]) = {}
                          /\ \A q \in Campaigns : i[p] \notin finished[q] /\ (Active(q) => i[q] # i[p])
  BY DEF IInv, RunsInv, Shapes, OneOwner, Cases, In
<1>4. \A q \in Campaigns : q # p => pc'[q] = pc[q]
  BY <1>1 DEF IInv, RunsInv, Shapes
<1>5. pc'[p] = IF i[p] \in dirs THEN "failed" ELSE "completion"
  BY <1>1 DEF IInv, RunsInv, Shapes
<1>6. OneOwner'
  BY <1>1, <1>3, <1>4, <1>5 DEF IInv, RunsInv, OneOwner, Active, Waiting, InGcov, Summed
<1>7. Progress'
  BY <1>1, <1>3, <1>4, <1>5 DEF IInv, RunsInv, Progress, Cases, In, InGcov, Summed
<1>8. (Counted /\ Chain /\ CasesRunOnce)'
  BY <1>1 DEF IInv, RunsInv, Counted, Chain, CasesRunOnce, Cases, In
<1>9. CrashStopsTheCampaign'
  BY <1>1, <1>4, <1>5 DEF IInv, RunsInv, CrashStopsTheCampaign
<1> QED BY <1>2, <1>6, <1>7, <1>8, <1>9 DEF RunsInv

\* A campaign leaves its directory, with everything in it counted.
LEMMA LeaveInv ==
  ASSUME IInv, NEW p \in Campaigns, Active(p), Cases(i[p])' \subseteq counters,
         UNCHANGED <<i, bin_files, crashed, dirs, cases, counters, runs>>, NextRun(p)
  PROVE  RunsInv'
<1>1. /\ pc' = [pc EXCEPT ![p] = "run"]
      /\ finished' = [finished EXCEPT ![p] = @ \cup {i[p]}]
  BY DEF NextRun, Goto
<1>2. Shapes'
  BY <1>1 DEF IInv, RunsInv, Shapes, OneOwner
<1>3. \A q \in Campaigns : q # p => pc'[q] = pc[q] /\ finished'[q] = finished[q]
  BY <1>1 DEF IInv, RunsInv, Shapes
<1>4. pc'[p] = "run" /\ finished'[p] = finished[p] \cup {i[p]}
  BY <1>1 DEF IInv, RunsInv, Shapes
<1>5. OneOwner'
  BY <1>3, <1>4 DEF IInv, RunsInv, OneOwner, Active, Waiting, InGcov, Summed
<1>6. Progress'
  BY <1>3, <1>4 DEF IInv, RunsInv, Progress, Cases, In, InGcov, Summed
<1>7. Counted'
  BY <1>3, <1>4 DEF IInv, RunsInv, Counted, Cases, In
<1>8. (Chain /\ CasesRunOnce)'
  BY DEF IInv, RunsInv, Chain, CasesRunOnce
<1>9. CrashStopsTheCampaign'
  BY <1>3, <1>4 DEF IInv, RunsInv, CrashStopsTheCampaign, Active, Waiting, InGcov, Summed
<1> QED BY <1>2, <1>5, <1>6, <1>7, <1>8, <1>9 DEF RunsInv

\* A campaign goes on in its directory or gives up, and disturbs nothing else.
LEMMA GoOnInv ==
  ASSUME IInv, NEW p \in Campaigns, NEW label \in {"script", "failed"} \cup Summed, Goto(p, label),
         \/ pc[p] = "completion" /\ label = "script"
         \/ Active(p) /\ label = "failed"
         \/ pc[p] \in InGcov /\ label \in Summed,
         UNCHANGED <<i, bin_files, crashed, finished, dirs, cases, counters, runs>>
  PROVE  RunsInv'
<1>1. pc' = [pc EXCEPT ![p] = label]
  BY DEF Goto
<1>2. Shapes'
  BY <1>1 DEF IInv, RunsInv, Shapes, Waiting, Ended, InGcov, Summed
<1>3. \A q \in Campaigns : q # p => pc'[q] = pc[q]
  BY <1>1 DEF IInv, RunsInv, Shapes
<1>4. pc'[p] = label
  BY <1>1 DEF IInv, RunsInv, Shapes
<1>5. OneOwner'
  BY <1>1, <1>3, <1>4 DEF IInv, RunsInv, OneOwner, Active, Waiting, InGcov, Summed
<1>6. Progress'
  BY <1>1, <1>3, <1>4 DEF IInv, RunsInv, Progress, Cases, In, InGcov, Summed
<1>7. (Counted /\ Chain /\ CasesRunOnce)'
  BY <1>1 DEF IInv, RunsInv, Counted, Chain, CasesRunOnce, Cases, In
<1>8. CrashStopsTheCampaign'
  BY <1>3, <1>4 DEF IInv, RunsInv, CrashStopsTheCampaign, Active, Waiting, InGcov, Summed
<1> QED BY <1>2, <1>5, <1>6, <1>7, <1>8 DEF RunsInv

LEMMA CompletionInv == ASSUME IInv, NEW p \in Campaigns, Completion(p) PROVE RunsInv'
<1>1. pc[p] = "completion" /\ Active(p) /\ UNCHANGED <<i, bin_files, crashed, dirs, cases, counters, runs>>
  BY DEF Completion, shared, coverage, Active, Waiting, InGcov, Summed
<1>2. CASE NextRun(p)
  <2>1. Cases(i[p])' = {}
    BY <1>1 DEF IInv, RunsInv, Progress, Cases, InGcov, Summed
  <2> QED BY <1>1, <1>2, <2>1, LeaveInv
<1>3. CASE UNCHANGED finished /\ \E label \in {"script", "failed"} : Goto(p, label)
  BY <1>1, <1>3, GoOnInv
<1> QED BY <1>2, <1>3 DEF Completion

\* The script writes cases into its own directory, which was empty.
LEMMA ScriptInv == ASSUME IInv, NEW p \in Campaigns, Script(p) PROVE RunsInv'
<1>1. PICK new \in Scripts(p) : cases' = cases \cup new
  BY DEF Script
<1>2. /\ pc[p] = "script" /\ Active(p) /\ i[p] \in dirs /\ Cases(i[p]) = {}
      /\ UNCHANGED <<i, crashed, dirs, counters, runs>>
  BY DEF Script, coverage, Active, Waiting, IInv, RunsInv, OneOwner, Progress, InGcov, Summed
<1>3. \A c \in new : c[1] = i[p]
  BY <1>1 DEF Scripts
<1>4. \A d : d # i[p] => Cases(d)' = Cases(d)
  BY <1>1, <1>3 DEF Cases, In
<1>5. CASE In(cases', i[p]) = {}
  <2>1. cases' = cases
    BY <1>1, <1>3, <1>5 DEF In
  <2>2. NextRun(p) /\ UNCHANGED bin_files
    BY <1>5 DEF Script
  <2>3. Cases(i[p])' = {}
    BY <1>2, <1>5 DEF Cases, In
  <2> QED BY <1>2, <2>1, <2>2, <2>3, LeaveInv
<1>6. CASE In(cases', i[p]) # {}
  <2>1. /\ bin_files' = [bin_files EXCEPT ![p] = Cases(i[p])'] /\ UNCHANGED finished
        /\ pc' = [pc EXCEPT ![p] = "test"]
    BY <1>2, <1>6 DEF Script, Goto, Cases
  <2>2. Shapes'
    BY <1>1, <1>2, <1>3, <2>1 DEF IInv, RunsInv, Shapes, Waiting, InGcov, Summed
  <2>3. \A q \in Campaigns : q # p => pc'[q] = pc[q] /\ bin_files'[q] = bin_files[q]
    BY <2>1 DEF IInv, RunsInv, Shapes
  <2>4. pc'[p] = "test" /\ bin_files'[p] = Cases(i[p])'
    BY <2>1 DEF IInv, RunsInv, Shapes
  <2>5. OneOwner'
    BY <1>2, <2>1, <2>3, <2>4 DEF IInv, RunsInv, OneOwner, Active, Waiting, InGcov, Summed
  <2>6. Cases(i[p])' \cap DOMAIN runs = {}
    BY <1>1, <1>2 DEF IInv, RunsInv, Chain, Cases, In
  <2>7. Progress'
    <3> SUFFICES ASSUME NEW q \in Campaigns
                 PROVE  (/\ pc[q] \in {"completion", "script"} => Cases(i[q]) = {}
                         /\ pc[q] = "test" => /\ bin_files[q] \subseteq Cases(i[q]) \ DOMAIN runs
                                              /\ Cases(i[q]) \ bin_files[q] \subseteq counters
                         /\ pc[q] \in InGcov => Cases(i[q]) \subseteq counters)'
      BY DEF Progress, InGcov, Summed
    <3>1. CASE q = p
      BY <1>2, <2>4, <2>6, <3>1 DEF InGcov, Summed
    <3>2. CASE q # p /\ Active(q)
      <4>1. Cases(i[q])' = Cases(i[q])
        BY <1>2, <1>4, <3>2 DEF IInv, RunsInv, OneOwner, Cases
      <4> QED BY <1>2, <2>3, <3>2, <4>1 DEF IInv, RunsInv, Progress, InGcov, Summed
    <3>3. CASE q # p /\ ~Active(q)
      BY <2>3, <3>3 DEF Active, Waiting, InGcov, Summed
    <3> QED BY <3>1, <3>2, <3>3
  <2>8. Counted'
    BY <1>2, <1>4, <2>1 DEF IInv, RunsInv, Counted, OneOwner
  <2>9. (Chain /\ CasesRunOnce)'
    BY <1>1, <1>2 DEF IInv, RunsInv, Chain, CasesRunOnce
  <2>10. CrashStopsTheCampaign'
    BY <1>2, <2>1, <2>3, <2>4 DEF IInv, RunsInv, CrashStopsTheCampaign
  <2> QED BY <2>2, <2>5, <2>7, <2>8, <2>9, <2>10 DEF RunsInv
<1> QED BY <1>5, <1>6

\* A case that is run is one of the campaign's own, and was not run before.
LEMMA TestInv == ASSUME IInv, NEW p \in Campaigns, Test(p) PROVE RunsInv'
<1>1. PICK c \in bin_files[p] :
          /\ WasRun(c) /\ bin_files' = [bin_files EXCEPT ![p] = @ \ {c}]
          /\ \/ /\ counters' = counters \cup {c} /\ UNCHANGED crashed
                /\ Goto(p, IF bin_files'[p] = {} THEN "gcov" ELSE "test")
             \/ /\ crashed' = [crashed EXCEPT ![p] = TRUE] /\ UNCHANGED counters
                /\ AfterCrash(p)
  BY DEF Test
<1>2. pc[p] = "test" /\ Active(p) /\ UNCHANGED <<i, finished, dirs, cases>>
  BY DEF Test, Active, Waiting, InGcov, Summed
<1>3. c \in Cases(i[p]) /\ c \in cases /\ c \notin DOMAIN runs /\ c[1] = i[p]
  BY <1>1, <1>2 DEF IInv, RunsInv, Progress, Cases, In, InGcov, Summed
<1>4. runs' = [x \in DOMAIN runs \cup {c} |-> IF x # c THEN runs[x] ELSE 1]
  BY <1>1, <1>3 DEF WasRun
<1>5. DOMAIN runs' = DOMAIN runs \cup {c}
  BY <1>4
<1>6. \A q \in Campaigns : q # p /\ Active(q) => c \notin Cases(i[q])
  BY <1>2, <1>3 DEF IInv, RunsInv, OneOwner, Cases, In
<1>7. /\ \A q \in Campaigns : q # p => bin_files'[q] = bin_files[q]
      /\ bin_files'[p] = bin_files[p] \ {c}
  BY <1>1 DEF IInv, RunsInv, Shapes
<1>8. CasesRunOnce'
  BY <1>4 DEF IInv, RunsInv, CasesRunOnce
<1>9. CASE /\ counters' = counters \cup {c} /\ UNCHANGED crashed
           /\ Goto(p, IF bin_files'[p] = {} THEN "gcov" ELSE "test")
  <2>1. /\ \A q \in Campaigns : q # p => pc'[q] = pc[q]
        /\ pc'[p] = IF bin_files'[p] = {} THEN "gcov" ELSE "test"
    BY <1>9 DEF Goto, IInv, RunsInv, Shapes
  <2>2. Shapes'
    BY <1>1, <1>2, <1>9 DEF Goto, IInv, RunsInv, Shapes, Waiting, InGcov, Summed
  <2>3. OneOwner'
    BY <1>2, <2>1 DEF IInv, RunsInv, OneOwner, Active, Waiting, InGcov, Summed
  <2>4. Progress'
    <3> SUFFICES ASSUME NEW q \in Campaigns
                 PROVE  (/\ pc[q] \in {"completion", "script"} => Cases(i[q]) = {}
                         /\ pc[q] = "test" => /\ bin_files[q] \subseteq Cases(i[q]) \ DOMAIN runs
                                              /\ Cases(i[q]) \ bin_files[q] \subseteq counters
                         /\ pc[q] \in InGcov => Cases(i[q]) \subseteq counters)'
      BY DEF Progress, InGcov, Summed
    <3>1. Cases(i[q])' = Cases(i[q])
      BY <1>2 DEF Cases
    <3>2. CASE q = p
      BY <1>2, <1>5, <1>7, <1>9, <2>1, <3>1, <3>2 DEF IInv, RunsInv, Progress, InGcov, Summed
    <3>3. CASE q # p
      BY <1>5, <1>6, <1>7, <1>9, <2>1, <3>1, <3>3 DEF IInv, RunsInv, Progress, Active, Waiting, InGcov, Summed
    <3> QED BY <3>2, <3>3
  <2>5. (Counted /\ Chain)'
    BY <1>2, <1>3, <1>5, <1>9 DEF IInv, RunsInv, Counted, Chain, Cases
  <2>6. CrashStopsTheCampaign'
    BY <1>2, <1>9, <2>1 DEF IInv, RunsInv, CrashStopsTheCampaign
  <2> QED BY <1>8, <2>2, <2>3, <2>4, <2>5, <2>6 DEF RunsInv
<1>10. CASE /\ crashed' = [crashed EXCEPT ![p] = TRUE] /\ UNCHANGED counters
            /\ AfterCrash(p)
  <2>1. /\ \A q \in Campaigns : q # p => pc'[q] = pc[q] /\ crashed'[q] = crashed[q]
        /\ pc'[p] = "failed"
    BY <1>10 DEF AfterCrash, Goto, IInv, RunsInv, Shapes
  <2>2. Shapes'
    BY <1>1, <1>2, <1>10 DEF AfterCrash, Goto, IInv, RunsInv, Shapes, Ended
  <2>3. OneOwner'
    BY <1>2, <2>1 DEF IInv, RunsInv, OneOwner, Active, Waiting, InGcov, Summed
  <2>4. Progress'
    BY <1>2, <1>5, <1>6, <1>7, <1>10, <2>1 DEF IInv, RunsInv, Progress, Active, Waiting, Cases, InGcov, Summed
  <2>5. (Counted /\ Chain)'
    BY <1>2, <1>3, <1>5, <1>10 DEF IInv, RunsInv, Counted, Chain, Cases
  <2>6. CrashStopsTheCampaign'
    BY <1>2, <2>1 DEF IInv, RunsInv, CrashStopsTheCampaign, OneOwner
  <2> QED BY <1>8, <2>2, <2>3, <2>4, <2>5, <2>6 DEF RunsInv
<1> QED BY <1>1, <1>9, <1>10

LEMMA GcovInv == ASSUME IInv, NEW p \in Campaigns, Gcov(p) PROVE RunsInv'
<1>1. pc[p] \in InGcov /\ Active(p) /\ UNCHANGED <<i, bin_files, crashed, dirs, cases, counters, runs>>
  BY DEF Gcov, GcovRead, GcovOpen, GcovClose, GcovFail, shared, coverage, Active, Waiting, InGcov, Summed
<1>2. CASE GcovClose(p)
  <2>1. Cases(i[p])' \subseteq counters
    BY <1>1 DEF IInv, RunsInv, Progress, Cases, InGcov, Summed
  <2> QED BY <1>1, <1>2, <2>1, LeaveInv DEF GcovClose
<1>3. CASE GcovFail(p)
  BY <1>1, <1>3, GoOnInv DEF GcovFail
<1>4. CASE GcovRead(p)
  BY <1>1, <1>4, GoOnInv DEF GcovRead, Summed
<1>5. CASE GcovOpen(p)
  BY <1>1, <1>5, GoOnInv DEF GcovOpen, Summed
<1> QED BY <1>2, <1>3, <1>4, <1>5 DEF Gcov

LEMMA KillInv == ASSUME IInv, NEW p \in Campaigns, Kill(p) PROVE RunsInv'
<1>1. /\ pc' = [pc EXCEPT ![p] = "killed"] /\ bin_files' = [bin_files EXCEPT ![p] = {}]
      /\ pc[p] \notin Ended /\ UNCHANGED <<i, crashed, finished, dirs, cases, counters, runs>>
  BY DEF Kill, Goto, shared, coverage
<1>2. /\ \A q \in Campaigns : q # p => pc'[q] = pc[q] /\ bin_files'[q] = bin_files[q]
      /\ pc'[p] = "killed"
  BY <1>1 DEF IInv, RunsInv, Shapes
<1>3. Shapes'
  BY <1>1 DEF IInv, RunsInv, Shapes, Ended
<1>4. (OneOwner /\ Progress)'
  BY <1>1, <1>2 DEF IInv, RunsInv, OneOwner, Progress, Active, Waiting, Cases, InGcov, Summed
<1>5. (Counted /\ Chain /\ CasesRunOnce)'
  BY <1>1 DEF IInv, RunsInv, Counted, Chain, CasesRunOnce, Cases
<1>6. CrashStopsTheCampaign'
  BY <1>1, <1>2 DEF IInv, RunsInv, CrashStopsTheCampaign
<1> QED BY <1>3, <1>4, <1>5, <1>6 DEF RunsInv

LEMMA RestartInv == ASSUME IInv, NEW p \in Campaigns, Restart(p) PROVE RunsInv'
<1>1. /\ pc[p] = "killed" /\ pc' = [pc EXCEPT ![p] = "run"] /\ i' = [i EXCEPT ![p] = 0]
      /\ crashed' = [crashed EXCEPT ![p] = FALSE] /\ finished' = [finished EXCEPT ![p] = {}]
      /\ UNCHANGED <<bin_files, dirs, cases, counters, runs>>
  BY DEF Restart, Goto, shared, coverage
<1>2. /\ \A q \in Campaigns : q # p => /\ pc'[q] = pc[q] /\ i'[q] = i[q]
                                      /\ crashed'[q] = crashed[q] /\ finished'[q] = finished[q]
      /\ pc'[p] = "run" /\ crashed'[p] = FALSE /\ finished'[p] = {}
  BY <1>1 DEF IInv, RunsInv, Shapes
<1>3. Shapes'
  BY <1>1 DEF IInv, RunsInv, Shapes
<1>4. (OneOwner /\ Progress)'
  BY <1>1, <1>2 DEF IInv, RunsInv, OneOwner, Progress, Active, Waiting, Cases, InGcov, Summed
<1>5. (Counted /\ Chain /\ CasesRunOnce)'
  BY <1>1, <1>2 DEF IInv, RunsInv, Counted, Chain, CasesRunOnce, Cases
<1>6. CrashStopsTheCampaign'
  BY <1>2 DEF IInv, RunsInv, CrashStopsTheCampaign
<1> QED BY <1>3, <1>4, <1>5, <1>6 DEF RunsInv

-----------------------------------------------------------------------------
\* What gcov has read and written is as it was, and p is not in it.
LEMMA KeptCoverage ==
  ASSUME IInv, NEW p \in Campaigns, UNCHANGED <<sum, overtaken, report, torn>>,
         counters \subseteq counters', pc[p] \notin Summed, pc'[p] \notin Summed,
         pc[p] \in Ended /\ pc'[p] \notin Ended => finished'[p] = {},
         \A q \in Campaigns : q # p => pc'[q] = pc[q] /\ Told(q)' = Told(q) /\ finished'[q] = finished[q],
         \A q \in Campaigns : q # p => \A d \in Told(q) : Cases(d)' = Cases(d),
         \A d \in finished'[p] : Cases(d)' = {} \/ (d \in finished[p] /\ Cases(d)' = Cases(d))
  PROVE  CoverageInv'
<1>1. CoverageShapes'
  BY DEF IInv, CoverageInv, CoverageShapes, Summed
<1>2. Told(p)' = finished'[p] /\ Told(p) = finished[p]
  BY DEF Told
<1>3. SumsAreNew'
  BY <1>2 DEF IInv, CoverageInv, SumsAreNew
<1>4. Reported'
  BY DEF IInv, CoverageInv, Reported, Told
<1> QED BY <1>1, <1>3, <1>4 DEF CoverageInv

\* Whoever has ended, with what it was waiting for, has read nothing any more.
LEMMA StopCoverage ==
  ASSUME IInv, NEW p \in Campaigns, NEW label \in Ended, Goto(p, label), pc[p] \notin Ended,
         sum' = [sum EXCEPT ![p] = {}],
         UNCHANGED <<overtaken, report, torn, counters, i, finished, cases>>
  PROVE  CoverageInv'
<1>1. /\ pc'[p] = label /\ sum'[p] = {}
      /\ \A q \in Campaigns : q # p => pc'[q] = pc[q] /\ sum'[q] = sum[q]
  BY DEF Goto, IInv, RunsInv, Shapes, CoverageInv, CoverageShapes
<1>2. label \notin Summed /\ label # "write"
  BY DEF Ended, Summed
<1>3. CoverageShapes'
  BY <1>1, <1>2 DEF IInv, CoverageInv, CoverageShapes
<1>4. \A q \in Campaigns : Told(q)' \subseteq Told(q)
  BY <1>1, <1>2 DEF Told
<1>5. SumsAreNew'
  BY <1>1, <1>2, <1>4 DEF IInv, CoverageInv, SumsAreNew, Cases
<1>6. Reported'
  BY <1>1, <1>2 DEF IInv, CoverageInv, Reported, Cases
<1> QED BY <1>3, <1>5, <1>6 DEF CoverageInv

\* What gcov reads is all that any campaign has counted until then.
LEMMA GcovReadCoverage == ASSUME IInv, NEW p \in Campaigns, GcovRead(p) PROVE CoverageInv'
<1>1. /\ pc[p] = "gcov" /\ UNCHANGED <<i, finished, cases, counters, report, torn>>
      /\ pc'[p] = "summed" /\ sum'[p] = counters
      /\ overtaken'[p] = \E q \in Campaigns \ {p} : pc[q] \in Summed
      /\ \A q \in Campaigns : q # p => /\ pc'[q] = pc[q] /\ sum'[q] = sum[q]
                                      /\ overtaken'[q] = overtaken[q] /\ Told(q)' = Told(q)
  BY DEF GcovRead, Goto, shared, coverage, Told, IInv, RunsInv, Shapes, CoverageInv, CoverageShapes
<1>2. CoverageShapes'
  BY <1>1 DEF GcovRead, IInv, CoverageInv, CoverageShapes
<1>3. Told(p)' = finished[p] \cup {i[p]}
  BY <1>1 DEF Told, Summed
<1>4. \A q \in Campaigns : \A d \in Told(q)' : Cases(d) \subseteq counters
  BY <1>1, <1>3 DEF IInv, RunsInv, Counted, Progress, InGcov, Summed, Told
<1>5. SumsAreNew'
  <2> SUFFICES ASSUME NEW q \in Campaigns, NEW r \in Campaigns, pc'[r] \in Summed,
                      r = q \/ ~overtaken'[q], NEW d \in Told(q)'
               PROVE  Cases(d)' \subseteq sum'[r]
    BY DEF SumsAreNew
  <2>1. Cases(d)' = Cases(d)
    BY <1>1 DEF Cases
  <2>2. CASE r = p
    BY <1>1, <1>4, <2>1, <2>2
  <2>3. CASE r # p /\ q = p
    BY <1>1, <2>3
  <2>4. CASE r # p /\ q # p
    BY <1>1, <2>1, <2>4 DEF IInv, CoverageInv, SumsAreNew
  <2> QED BY <2>2, <2>3, <2>4
<1>6. Reported'
  BY <1>1 DEF IInv, CoverageInv, Reported, Cases, Summed
<1> QED BY <1>2, <1>5, <1>6 DEF CoverageInv

\* From here on the report is of use to nobody but p, and to p when it is done.
LEMMA GcovOpenCoverage == ASSUME IInv, NEW p \in Campaigns, GcovOpen(p) PROVE CoverageInv'
<1>1. /\ pc[p] = "summed" /\ UNCHANGED <<i, finished, cases, counters, sum, overtaken>>
      /\ report' = {} /\ torn' = Writers \cup {p} /\ pc'[p] = "write"
      /\ \A q \in Campaigns : q # p => pc'[q] = pc[q]
  BY DEF GcovOpen, Goto, IInv, RunsInv, Shapes
<1>2. CoverageShapes'
  BY <1>1 DEF IInv, CoverageInv, CoverageShapes, Writers
<1>3. \A q \in Campaigns : Told(q)' = Told(q) /\ (pc'[q] \in Summed <=> pc[q] \in Summed)
  BY <1>1 DEF Told, Summed
<1>4. SumsAreNew'
  BY <1>1, <1>3 DEF IInv, CoverageInv, SumsAreNew, Cases
<1>5. Reported'
  BY <1>1 DEF Reported, Summed
<1> QED BY <1>2, <1>4, <1>5 DEF CoverageInv

\* A report that is whole holds what p has read; another one was opened by two.
LEMMA GcovCloseCoverage == ASSUME IInv, NEW p \in Campaigns, GcovClose(p) PROVE CoverageInv'
<1>1. /\ pc[p] = "write" /\ UNCHANGED <<i, cases, counters, overtaken>>
      /\ pc'[p] = "run" /\ sum'[p] = {} /\ finished'[p] = finished[p] \cup {i[p]}
      /\ sum' = [sum EXCEPT ![p] = {}]
      /\ \A q \in Campaigns : q # p => pc'[q] = pc[q] /\ sum'[q] = sum[q] /\ finished'[q] = finished[q]
  BY DEF GcovClose, NextRun, Goto, IInv, RunsInv, Shapes, CoverageInv, CoverageShapes
<1>2. \/ Writers = {p} /\ report' = sum[p] /\ torn' = {}
      \/ torn # {p} /\ UNCHANGED <<report, torn>>
  BY DEF GcovClose
<1>3. p \in torn /\ sum[p] \subseteq counters
  BY <1>1 DEF IInv, CoverageInv, CoverageShapes
<1>4. CoverageShapes'
  BY <1>1, <1>2, <1>3 DEF IInv, CoverageInv, CoverageShapes, Writers
<1>5. \A q \in Campaigns : Told(q)' = Told(q)
  BY <1>1 DEF Told, Summed
<1>6. SumsAreNew'
  BY <1>1, <1>5 DEF IInv, CoverageInv, SumsAreNew, Cases, Summed
<1>7. Reported'
  <2>1. CASE Writers = {p} /\ report' = sum[p] /\ torn' = {}
    <3> SUFFICES ASSUME NEW q \in Campaigns, pc'[q] \notin Summed \cup Ended, ~overtaken[q],
                        NEW d \in finished'[q]
                 PROVE  Cases(d) \subseteq sum[p]
      BY <1>1, <2>1 DEF Reported, Cases
    <3>1. d \in Told(q)
      BY <1>1 DEF Told, Summed
    <3> QED BY <1>1, <3>1 DEF IInv, CoverageInv, SumsAreNew, Summed
  <2>2. CASE torn # {p} /\ UNCHANGED <<report, torn>>
    <3>1. \A q \in Campaigns : ~(torn \subseteq {q})
      BY <1>3, <2>2
    <3> QED BY <2>2, <3>1 DEF Reported
  <2> QED BY <1>2, <2>1, <2>2
<1> QED BY <1>4, <1>6, <1>7 DEF CoverageInv

LEMMA GcovCoverage == ASSUME IInv, NEW p \in Campaigns, Gcov(p) PROVE CoverageInv'
<1>1. CASE GcovFail(p)
  BY <1>1, StopCoverage DEF GcovFail, InGcov, Summed, Ended, shared, coverage
<1> QED BY <1>1, GcovReadCoverage, GcovOpenCoverage, GcovCloseCoverage DEF Gcov

\* A case that is written or run is of a directory no campaign is done with.
LEMMA ScriptCoverage == ASSUME IInv, NEW p \in Campaigns, Script(p) PROVE CoverageInv'
<1>1. PICK new \in Scripts(p) : cases' = cases \cup new
  BY DEF Script
<1>2. /\ pc[p] = "script" /\ Active(p) /\ UNCHANGED <<i, sum, overtaken, counters, report, torn>>
  BY DEF Script, coverage, Active, Waiting
<1>3. /\ pc'[p] \in {"run", "test"} /\ finished'[p] \subseteq finished[p] \cup {i[p]}
      /\ finished'[p] # finished[p] => Cases(i[p])' = {}
      /\ \A q \in Campaigns : q # p => pc'[q] = pc[q] /\ finished'[q] = finished[q]
  BY DEF Script, NextRun, Goto, IInv, RunsInv, Shapes, Cases
<1>4. \A d : d # i[p] => Cases(d)' = Cases(d)
  BY <1>1 DEF Scripts, Cases, In
<1>5. \A q \in Campaigns : i[p] \notin finished[q] /\ (q # p => i[p] \notin Told(q))
  BY <1>2 DEF IInv, RunsInv, OneOwner, Told, Active, Waiting, InGcov
<1>6. \A q \in Campaigns : q # p => Told(q)' = Told(q)
  BY <1>2, <1>3 DEF Told
<1>7. \A d \in finished'[p] : Cases(d)' = {} \/ (d \in finished[p] /\ Cases(d)' = Cases(d))
  BY <1>2, <1>3, <1>4, <1>5
<1>8. pc[p] \notin Summed /\ pc'[p] \notin Summed /\ pc[p] \notin Ended
  BY <1>2, <1>3 DEF Summed, Ended
<1>9. \A q \in Campaigns : q # p => \A d \in Told(q) : Cases(d)' = Cases(d)
  BY <1>4, <1>5
<1> QED BY <1>2, <1>3, <1>6, <1>7, <1>8, <1>9, KeptCoverage

LEMMA CompletionCoverage == ASSUME IInv, NEW p \in Campaigns, Completion(p) PROVE CoverageInv'
<1>1. pc[p] = "completion" /\ UNCHANGED <<i, sum, overtaken, cases, counters, report, torn>>
  BY DEF Completion, shared, coverage
<1>2. /\ pc'[p] \in {"run", "script", "failed"} /\ finished'[p] \subseteq finished[p] \cup {i[p]}
      /\ \A q \in Campaigns : q # p => pc'[q] = pc[q] /\ finished'[q] = finished[q]
  BY DEF Completion, NextRun, Goto, IInv, RunsInv, Shapes
<1>3. Cases(i[p])' = {} /\ \A d : Cases(d)' = Cases(d)
  BY <1>1 DEF IInv, RunsInv, Progress, Cases
<1>4. \A q \in Campaigns : q # p => Told(q)' = Told(q)
  BY <1>1, <1>2 DEF Told
<1>5. \A d \in finished'[p] : Cases(d)' = {} \/ (d \in finished[p] /\ Cases(d)' = Cases(d))
  BY <1>1, <1>2, <1>3
<1>6. pc[p] \notin Summed /\ pc'[p] \notin Summed /\ pc[p] \notin Ended
  BY <1>1, <1>2 DEF Summed, Ended
<1> QED BY <1>1, <1>2, <1>3, <1>4, <1>5, <1>6, KeptCoverage

LEMMA TestCoverage == ASSUME IInv, NEW p \in Campaigns, Test(p) PROVE CoverageInv'
<1>1. /\ pc[p] = "test" /\ UNCHANGED <<i, finished, sum, overtaken, cases, report, torn>>
      /\ counters \subseteq counters'
  BY DEF Test
<1>2. pc'[p] \in {"gcov", "test", "failed"} /\ \A q \in Campaigns : q # p => pc'[q] = pc[q]
  BY DEF Test, AfterCrash, Goto, IInv, RunsInv, Shapes
<1>3. \A d : Cases(d)' = Cases(d)
  BY <1>1 DEF Cases
<1>4. \A q \in Campaigns : q # p => Told(q)' = Told(q)
  BY <1>1, <1>2 DEF Told
<1>5. pc[p] \notin Summed /\ pc'[p] \notin Summed /\ pc[p] \notin Ended
  BY <1>1, <1>2 DEF Summed, Ended
<1> QED BY <1>1, <1>2, <1>3, <1>4, <1>5, KeptCoverage

LEMMA OtherCoverage ==
  ASSUME IInv, NEW p \in Campaigns, Run(p) \/ makedirs(p) \/ Kill(p) \/ Restart(p)
  PROVE  CoverageInv'
<1>1. CASE Kill(p)
  BY <1>1, StopCoverage DEF Kill, Ended, shared, coverage
<1>2. CASE Run(p) \/ makedirs(p) \/ Restart(p)
  <2>1. /\ pc[p] \in {"run", "makedirs", "killed"}
        /\ pc[p] = "killed" => finished'[p] = {}
        /\ pc'[p] \in {"run", "makedirs", "completion", "failed", "done"}
        /\ finished'[p] \subseteq finished[p] /\ UNCHANGED <<sum, overtaken, cases, counters, report, torn>>
        /\ \A q \in Campaigns : q # p => pc'[q] = pc[q] /\ finished'[q] = finished[q] /\ i'[q] = i[q]
    BY <1>2 DEF Run, makedirs, Restart, Goto, shared, coverage, IInv, RunsInv, Shapes
  <2>2. \A d : Cases(d)' = Cases(d)
    BY <2>1 DEF Cases
  <2>3. \A q \in Campaigns : q # p => Told(q)' = Told(q)
    BY <2>1 DEF Told
  <2>4. /\ pc[p] \notin Summed /\ pc'[p] \notin Summed
        /\ pc[p] \in Ended /\ pc'[p] \notin Ended => finished'[p] = {}
    BY <2>1 DEF Summed, Ended
  <2>5. /\ counters \subseteq counters' /\ UNCHANGED <<sum, overtaken, report, torn>>
        /\ \A d \in finished'[p] : d \in finished[p] /\ Cases(d)' = Cases(d)
    BY <2>1, <2>2
  <2> QED BY <2>1, <2>2, <2>3, <2>4, <2>5, KeptCoverage
<1> QED BY <1>1, <1>2

-----------------------------------------------------------------------------
LEMMA StutterInv == IInv /\ UNCHANGED vars => IInv'
<1> SUFFICES ASSUME IInv, UNCHANGED vars PROVE IInv'
  OBVIOUS
<1>1. RunsInv'
  BY DEF vars, mine, shared, coverage, IInv, RunsInv, Shapes, OneOwner, Active, Progress, Counted,
     Chain, CasesRunOnce, CrashStopsTheCampaign, Cases, In
<1>2. CoverageInv'
  BY DEF vars, mine, shared, coverage, IInv, CoverageInv, CoverageShapes, SumsAreNew, Told, Reported,
     Cases, In
<1> QED BY <1>1, <1>2 DEF IInv

LEMMA StepInv == IInv /\ [Next]_vars => IInv'
<1> SUFFICES ASSUME IInv, [Next]_vars PROVE IInv'
  OBVIOUS
<1>1. ASSUME NEW p \in Campaigns, Own(p) \/ Others(p) PROVE IInv'
  <2>1. RunsInv'
    BY <1>1, RunInv, MakedirsInv, CompletionInv, ScriptInv, TestInv, GcovInv DEF Own, Others
  <2>2. CoverageInv'
    BY <1>1, OtherCoverage, CompletionCoverage, ScriptCoverage, TestCoverage, GcovCoverage DEF Own, Others
  <2> QED BY <2>1, <2>2 DEF IInv
<1>2. ASSUME NEW p \in Campaigns, Kill(p) \/ Restart(p) PROVE IInv'
  BY <1>2, KillInv, RestartInv, OtherCoverage DEF IInv
<1>3. CASE Finished \/ UNCHANGED vars
  BY <1>3, StutterInv DEF Finished
<1> QED BY <1>1, <1>2, <1>3 DEF Next

-----------------------------------------------------------------------------
LEMMA Invariant == Spec => []IInv
<1>1. Init => IInv
  BY InitInv
<1>2. IInv /\ [Next]_vars => IInv'
  BY StepInv
<1> QED BY <1>1, <1>2, PTL DEF Spec

\* What is counted was run, what was run is a case of some directory, and what the
\* report tells of was counted: the sets the campaigns share stay in this order.
THEOREM TypeCorrect == Spec => []TypeOK
<1>1. IInv => TypeOK
  BY DEF IInv, RunsInv, Shapes, Chain, CoverageInv, CoverageShapes, TypeOK
<1> QED BY <1>1, Invariant, PTL

\* No test case is run twice, for any number of campaigns in one directory, however
\* they are killed and started again: lines 40-44 give a directory to one run.
THEOREM CasesAreRunOnce == Spec => []CasesRunOnce
<1>1. IInv => CasesRunOnce
  BY DEF IInv, RunsInv
<1> QED BY <1>1, Invariant, PTL

\* A run the campaign went on from has run everything its script left, whether the
\* script failed or not (lines 120-126), and it goes on from no crash (line 27).
THEOREM NothingIsLeftBehind == Spec => []FinishedRunsAreRun
<1>1. IInv => FinishedRunsAreRun
  BY DEF IInv, RunsInv, Counted, Chain, FinishedRunsAreRun
<1> QED BY <1>1, Invariant, PTL

\* The first crash is the last thing a campaign does: check=True of line 27.
THEOREM FirstCrashIsTheLast == Spec => []CrashStopsTheCampaign
<1>1. IInv => CrashStopsTheCampaign
  BY DEF IInv, RunsInv
<1> QED BY <1>1, Invariant, PTL

\* However many gcov read the same counters and write the same report, in steps of
\* their own, the coverage a model is shown tells of every case of the runs before
\* it (lines 31, 47-48): unless another gcov was at work with older counters when
\* that of the campaign read them, or has opened the report and not left it whole.
THEOREM CoverageIsFresh == Spec => []PromptIsFresh
<1>1. IInv => PromptIsFresh
  BY DEF IInv, CoverageInv, Reported, Summed, Ended, PromptIsFresh
<1> QED BY <1>1, Invariant, PTL

\* A campaign that is alone is shown all it has counted, after any failures and
\* restarts: there is no other gcov that could be at work, and its own has ended
\* before the report is read, with 0 or with the campaign (line 31).
THEOREM LoneCoverageIsFresh ==
    ASSUME NEW p, Campaigns = {p}
    PROVE  Spec => [](pc[p] = "completion" => \A d \in finished[p] : Cases(d) \subseteq report)
<1> DEFINE Fresh == pc[p] = "completion" => \A d \in finished[p] : Cases(d) \subseteq report
           Alone == overtaken[p] = FALSE
<1>1. Init => Alone
  BY DEF Init
<1>2. IInv /\ Alone /\ [Next]_vars => Alone'
  <2> SUFFICES ASSUME IInv, Alone, [Next]_vars PROVE Alone'
    OBVIOUS
  <2>1. ASSUME NEW q \in Campaigns, GcovRead(q) PROVE Alone'
    BY <2>1 DEF GcovRead, IInv, CoverageInv, CoverageShapes
  <2>2. CASE UNCHANGED overtaken
    BY <2>2
  <2> QED BY <2>1, <2>2 DEF Next, Own, Others, Run, makedirs, Completion, Script, Test, Gcov, GcovOpen,
               GcovClose, GcovFail, Kill, Restart, Finished, vars, mine
<1>3. IInv /\ Alone => Fresh
  BY DEF IInv, CoverageInv, CoverageShapes, Reported, Summed, Ended
<1> HIDE DEF Fresh, Alone
<1>4. Spec => []Fresh
  BY <1>1, <1>2, <1>3, Invariant, PTL DEF Spec
<1> QED BY <1>4 DEF Fresh
=============================================================================
