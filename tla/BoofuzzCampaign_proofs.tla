----------------------- MODULE BoofuzzCampaign_proofs -----------------------
(***************************************************************************)
(* Proofs about BoofuzzCampaign: for any number of test cases and          *)
(* elements, any exit codes and any number of resumptions, the verdict of  *)
(* a test case is that of its own run.                                     *)
(***************************************************************************)
EXTENDS BoofuzzCampaign, TLAPS

\* A test case is in hand between the start of its target and the next one.
InHand == pc \in {"send", "communicate", "post_send", "close"}

\* It is one the campaign has, of an element that has not failed too often before.
\* Each resumption may go one test case beyond the last.
Position ==
    /\ index <= NumCases + 1 + resumed
    /\ InHand => index <= NumCases
    /\ pc \in {"send", "communicate", "post_send"} => ~Skipped(index)
    /\ pc = "completed" => index > NumCases

\* The target runs while the script waits for it, and at no other time.
Process == process = "running" => pc = "communicate"

\* What is judged is an exit code of this very test case.
Fresh == pc = "post_send" => last_exit_code \in Codes /\ last_exit_code \in outcome[index]

\* A campaign that was not stopped has not passed over a test case.
Judged ==
    resumed = 0 =>
        /\ \A c \in Cases : c < index => verdict[c] # "none" \/ Skipped(c)
        /\ pc = "close" => verdict[index] # "none"

IInv == TypeOK /\ Position /\ Process /\ Fresh /\ Judged /\ JudgedByOwnRun

USE NumCasesAssumption, ThresholdAssumption, ResumesAssumption, CodesAssumption

-----------------------------------------------------------------------------
LEMMA InitInv == Init => IInv
<1> SUFFICES ASSUME Init PROVE IInv
  OBVIOUS
<1>1. TypeOK
  BY DEF Init, TypeOK, Stops
<1>2. Position /\ Process /\ Fresh
  BY DEF Init, Position, InHand, Process, Fresh
<1>3. Judged /\ JudgedByOwnRun
  BY DEF Init, Judged, JudgedByOwnRun, Cases
<1> QED BY <1>1, <1>2, <1>3 DEF IInv

\* The element of a test case in hand is one that is counted.
LEMMA InHandIsCase ==
  ASSUME IInv, InHand
  PROVE  index \in Cases /\ ElementOf[index] \in Elements /\ crashes[ElementOf[index]] \in Nat
  BY DEF IInv, TypeOK, Position, Cases, Elements

\* What was judged or happened is not touched.
LEMMA CaseInv == ASSUME IInv, Case PROVE IInv'
<1>1. /\ pc = "case" /\ index \in Cases
      /\ UNCHANGED <<last_exit_code, process, crashes, verdict, outcome, resumed>>
  BY DEF Case, IInv, TypeOK, Cases
<1>2. CASE Skipped(index)
  <2>1. index' = index + 1 /\ pc' = pc
    BY <1>2 DEF Case
  <2>2. TypeOK'
    BY <1>1, <2>1 DEF IInv, TypeOK, Cases
  <2>3. (Position /\ Process /\ Fresh)'
    BY <1>1, <2>1 DEF IInv, TypeOK, Position, InHand, Process, Fresh, Cases
  <2>4. (Judged /\ JudgedByOwnRun)'
    BY <1>1, <1>2, <2>1 DEF IInv, Judged, JudgedByOwnRun, Skipped, Cases
  <2> QED BY <2>2, <2>3, <2>4 DEF IInv
<1>3. CASE ~Skipped(index)
  <2>1. pc' = "send" /\ index' = index
    BY <1>3 DEF Case
  <2>2. TypeOK'
    BY <1>1, <2>1 DEF IInv, TypeOK
  <2>3. (Position /\ Process /\ Fresh)'
    BY <1>1, <1>3, <2>1 DEF IInv, Position, InHand, Process, Fresh, Skipped, Cases
  <2>4. (Judged /\ JudgedByOwnRun)'
    BY <1>1, <2>1 DEF IInv, Judged, JudgedByOwnRun, Skipped
  <2> QED BY <2>2, <2>3, <2>4 DEF IInv
<1> QED BY <1>2, <1>3

\* An outcome is added to those of the test case in hand; none is taken away.
LEMMA HappenedInv ==
  ASSUME IInv, InHand, NEW o \in Codes \cup {Hung, Unstarted}, Happened(o), UNCHANGED verdict
  PROVE  /\ outcome' \in [Cases -> SUBSET (Codes \cup {Hung, Unstarted})]
         /\ o \in outcome'[index]
         /\ JudgedByOwnRun'
<1>1. index \in Cases
  BY InHandIsCase
<1>2. \A c \in Cases : outcome[c] \subseteq outcome'[c]
  BY <1>1 DEF Happened, IInv, TypeOK
<1>3. JudgedByOwnRun'
  BY <1>2 DEF IInv, JudgedByOwnRun
<1> QED BY <1>1, <1>3 DEF Happened, IInv, TypeOK

\* A step that stops the campaign, or goes on to the target, with the same test case.
LEMMA PopenInv == ASSUME IInv, Popen PROVE IInv'
<1>1. pc = "send" /\ InHand /\ UNCHANGED <<index, last_exit_code, crashes, verdict, resumed>>
  BY DEF Popen, InHand
<1>2. CASE process' = "running" /\ pc' = "communicate" /\ UNCHANGED outcome
  <2>1. TypeOK'
    BY <1>1, <1>2 DEF IInv, TypeOK
  <2>2. (Position /\ Process /\ Fresh)'
    BY <1>1, <1>2 DEF IInv, Position, InHand, Process, Fresh, Skipped
  <2>3. (Judged /\ JudgedByOwnRun)'
    BY <1>1, <1>2 DEF IInv, Judged, JudgedByOwnRun, Skipped
  <2> QED BY <2>1, <2>2, <2>3 DEF IInv
<1>3. CASE pc' = "stopped" /\ Happened(Unstarted) /\ UNCHANGED process
  <2>1. /\ outcome' \in [Cases -> SUBSET (Codes \cup {Hung, Unstarted})]
        /\ JudgedByOwnRun'
    BY <1>1, <1>3, HappenedInv
  <2>2. TypeOK'
    BY <1>1, <1>3, <2>1 DEF IInv, TypeOK, Stops
  <2>3. (Position /\ Process /\ Fresh /\ Judged)'
    BY <1>1, <1>3 DEF IInv, Position, InHand, Process, Fresh, Judged, Skipped
  <2> QED BY <2>1, <2>2, <2>3 DEF IInv
<1> QED BY <1>1, <1>2, <1>3 DEF Popen

LEMMA CommunicateInv == ASSUME IInv, communicate PROVE IInv'
<1>1. PICK code \in Codes : last_exit_code' = code /\ Happened(code)
  BY DEF communicate
<1>2. /\ pc = "communicate" /\ InHand /\ pc' = "post_send" /\ process' = "exited"
      /\ UNCHANGED <<index, crashes, verdict, resumed>>
  BY DEF communicate, InHand
<1>3. /\ outcome' \in [Cases -> SUBSET (Codes \cup {Hung, Unstarted})]
      /\ code \in outcome'[index] /\ JudgedByOwnRun'
  BY <1>1, <1>2, HappenedInv
<1>4. TypeOK'
  BY <1>1, <1>2, <1>3 DEF IInv, TypeOK
<1>5. (Position /\ Process /\ Fresh /\ Judged)'
  BY <1>1, <1>2, <1>3 DEF IInv, Position, InHand, Process, Fresh, Judged, Skipped
<1> QED BY <1>3, <1>4, <1>5 DEF IInv

LEMMA TimeoutInv == ASSUME IInv, TimeoutExpired PROVE IInv'
<1>1. /\ pc = "communicate" /\ InHand /\ pc' = "stopped" /\ process' = "killed"
      /\ last_exit_code' = Timeout /\ Happened(Hung)
      /\ UNCHANGED <<index, crashes, verdict, resumed>>
  BY DEF TimeoutExpired, InHand
<1>2. outcome' \in [Cases -> SUBSET (Codes \cup {Hung, Unstarted})] /\ JudgedByOwnRun'
  BY <1>1, HappenedInv
<1>3. TypeOK'
  BY <1>1, <1>2 DEF IInv, TypeOK, Stops
<1>4. (Position /\ Process /\ Fresh /\ Judged)'
  BY <1>1 DEF IInv, Position, InHand, Process, Fresh, Judged, Skipped
<1> QED BY <1>2, <1>3, <1>4 DEF IInv

-----------------------------------------------------------------------------
\* The monitor looks at the exit code of this run, and a failure counts once.
LEMMA PostSendInv == ASSUME IInv, post_send PROVE IInv'
<1>1. /\ pc = "post_send" /\ InHand /\ pc' = "close"
      /\ UNCHANGED <<index, last_exit_code, process, outcome, resumed>>
      /\ verdict' = [verdict EXCEPT ![index] = IF Alive THEN "ok" ELSE "crash"]
      /\ crashes' = [crashes EXCEPT ![ElementOf[index]] = IF Alive THEN @ ELSE @ + 1]
  BY DEF post_send, InHand
<1>2. index \in Cases /\ ElementOf[index] \in Elements
  BY <1>1, InHandIsCase
<1>3. crashes[ElementOf[index]] < Threshold
  BY <1>1, <1>2 DEF IInv, Position, Skipped, TypeOK
<1>4. crashes' \in [Elements -> 0 .. Threshold]
  BY <1>1, <1>2, <1>3 DEF IInv, TypeOK
<1>5. \A e \in Elements : crashes'[e] >= crashes[e]
  BY <1>1, <1>2 DEF IInv, TypeOK
<1>6. \A c \in Cases : Skipped(c) => Skipped(c)'
  <2> SUFFICES ASSUME NEW c \in Cases, Skipped(c) PROVE Skipped(c)'
    OBVIOUS
  <2>1. ElementOf[c] \in Elements
    BY DEF Elements
  <2>2. /\ crashes[ElementOf[c]] \in Int /\ crashes'[ElementOf[c]] \in Int
        /\ crashes'[ElementOf[c]] >= crashes[ElementOf[c]]
    BY <1>4, <1>5, <2>1 DEF IInv, TypeOK
  <2> QED BY <2>2 DEF Skipped
<1>7. verdict' \in [Cases -> {"none", "ok", "crash"}] /\ verdict'[index] # "none"
  BY <1>1, <1>2 DEF IInv, TypeOK
<1>8. \A c \in Cases : c # index => verdict'[c] = verdict[c]
  BY <1>1 DEF IInv, TypeOK
<1>9. TypeOK'
  BY <1>1, <1>4, <1>7 DEF IInv, TypeOK
<1>10. (Position /\ Process /\ Fresh)'
  BY <1>1 DEF IInv, Position, InHand, Process, Fresh
<1>11. Judged'
  BY <1>1, <1>6, <1>7, <1>8 DEF IInv, Judged
<1>12. JudgedByOwnRun'
  <2> SUFFICES ASSUME NEW c \in Cases
               PROVE  (/\ verdict[c] = "ok" => 0 \in outcome[c]
                       /\ verdict[c] = "crash" => outcome[c] \cap (Codes \ {0}) # {})'
    BY DEF JudgedByOwnRun
  <2>1. CASE c # index
    BY <1>1, <1>8, <2>1 DEF IInv, JudgedByOwnRun
  <2>2. CASE c = index
    <3>1. verdict'[c] = IF last_exit_code = 0 THEN "ok" ELSE "crash"
      BY <1>1, <1>2, <2>2 DEF IInv, TypeOK, Alive
    <3>2. last_exit_code \in Codes /\ last_exit_code \in outcome'[c]
      BY <1>1, <2>2 DEF IInv, Fresh
    <3> QED BY <3>1, <3>2
  <2> QED BY <2>1, <2>2
<1> QED BY <1>9, <1>10, <1>11, <1>12 DEF IInv

LEMMA CloseInv == ASSUME IInv, close PROVE IInv'
<1>1. /\ pc = "close" /\ InHand /\ pc' = "case" /\ index' = index + 1
      /\ UNCHANGED <<last_exit_code, crashes, verdict, outcome, resumed>>
      /\ process' = IF process = "running" THEN "killed" ELSE process
  BY DEF close, InHand
<1>2. index \in Cases
  BY <1>1, InHandIsCase
<1>3. TypeOK'
  BY <1>1, <1>2 DEF IInv, TypeOK, Cases
<1>4. (Position /\ Process /\ Fresh)'
  BY <1>1, <1>2 DEF IInv, TypeOK, Position, InHand, Process, Fresh, Cases
<1>5. (Judged /\ JudgedByOwnRun)'
  BY <1>1, <1>2 DEF IInv, Judged, JudgedByOwnRun, Skipped, Cases
<1> QED BY <1>3, <1>4, <1>5 DEF IInv

LEMMA InterruptInv == ASSUME IInv, KeyboardInterrupt PROVE IInv'
<1>1. /\ pc' = "interrupted"
      /\ UNCHANGED <<index, last_exit_code, crashes, verdict, outcome, resumed>>
      /\ process' = IF process = "running" THEN "killed" ELSE process
  BY DEF KeyboardInterrupt
<1>2. TypeOK'
  BY <1>1 DEF IInv, TypeOK, Stops
<1>3. (Position /\ Process /\ Fresh)'
  BY <1>1 DEF IInv, Position, InHand, Process, Fresh
<1>4. (Judged /\ JudgedByOwnRun)'
  BY <1>1 DEF IInv, Judged, JudgedByOwnRun, Skipped
<1> QED BY <1>2, <1>3, <1>4 DEF IInv

LEMMA CompletedInv == ASSUME IInv, Completed PROVE IInv'
<1>1. /\ pc = "case" /\ pc' = "completed" /\ index > NumCases
      /\ UNCHANGED <<index, last_exit_code, process, crashes, verdict, outcome, resumed>>
  BY DEF Completed
<1>2. TypeOK'
  BY <1>1 DEF IInv, TypeOK
<1>3. (Position /\ Process /\ Fresh)'
  BY <1>1 DEF IInv, Position, InHand, Process, Fresh
<1>4. (Judged /\ JudgedByOwnRun)'
  BY <1>1 DEF IInv, Judged, JudgedByOwnRun, Skipped
<1> QED BY <1>2, <1>3, <1>4 DEF IInv

\* A resumed campaign keeps nothing of what it counted; what was judged stays.
LEMMA ResumeInv == ASSUME IInv, Resume PROVE IInv'
<1>1. /\ pc \in Stops /\ resumed < MaxResumes /\ resumed' = resumed + 1
      /\ index' \in {index, index + 1} /\ pc' = "case" /\ last_exit_code' = 0
      /\ crashes' = [e \in Elements |-> 0] /\ UNCHANGED <<process, verdict, outcome>>
  BY DEF Resume
<1>2. TypeOK'
  BY <1>1 DEF IInv, TypeOK, Position
<1>3. (Position /\ Process /\ Fresh)'
  BY <1>1 DEF IInv, TypeOK, Position, InHand, Process, Fresh, Stops
<1>4. (Judged /\ JudgedByOwnRun)'
  BY <1>1 DEF IInv, TypeOK, Judged, JudgedByOwnRun
<1> QED BY <1>2, <1>3, <1>4 DEF IInv

LEMMA StutterInv == IInv /\ UNCHANGED vars => IInv'
  BY DEF vars, IInv, TypeOK, Position, InHand, Process, Fresh, Judged, JudgedByOwnRun, Skipped

LEMMA StepInv == IInv /\ [Next]_vars => IInv'
<1> SUFFICES ASSUME IInv, [Next]_vars PROVE IInv'
  OBVIOUS
<1>1. CASE Session
  BY <1>1, CaseInv, PopenInv, CommunicateInv, TimeoutInv, PostSendInv, CloseInv, CompletedInv
     DEF Session
<1>2. CASE KeyboardInterrupt \/ Resume
  BY <1>2, InterruptInv, ResumeInv
<1>3. CASE Ended \/ UNCHANGED vars
  BY <1>3, StutterInv DEF Ended
<1> QED BY <1>1, <1>2, <1>3 DEF Next

-----------------------------------------------------------------------------
LEMMA Invariant == Spec => []IInv
<1>1. Init => IInv
  BY InitInv
<1>2. IInv /\ [Next]_vars => IInv'
  BY StepInv
<1> QED BY <1>1, <1>2, PTL DEF Spec

\* The failures of an element never exceed the threshold, and each resumption goes at
\* most one test case beyond the last.
THEOREM TypeCorrect == Spec => []TypeOK
<1>1. IInv => TypeOK
  BY DEF IInv
<1> QED BY <1>1, Invariant, PTL

\* A verdict comes of an exit code of that very test case: the one the connection kept
\* (lines 111, 120) is never that of the run before when post_send reads it (lines 54-69).
THEOREM VerdictsAreOwn == Spec => []JudgedByOwnRun
<1>1. IInv => JudgedByOwnRun
  BY DEF IInv
<1> QED BY <1>1, Invariant, PTL

\* No two targets run at a time, and none outlives the script (lines 94-97, 110, 118).
THEOREM NoTargetIsLeft == Spec => []OneTarget
<1>1. IInv => OneTarget
  BY DEF IInv, Process, OneTarget, Stops
<1> QED BY <1>1, Invariant, PTL

\* A campaign that ends by itself, and was not resumed, has judged all it did not skip.
THEOREM NoCaseIsPassedOver == Spec => []EveryCaseJudged
<1>1. IInv => EveryCaseJudged
  BY DEF IInv, TypeOK, Position, Judged, EveryCaseJudged, Cases
<1> QED BY <1>1, Invariant, PTL
=============================================================================
