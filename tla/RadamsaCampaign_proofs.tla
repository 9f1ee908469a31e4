----------------------- MODULE RadamsaCampaign_proofs -----------------------
(***************************************************************************)
(* Proofs about RadamsaCampaign: for any number of runs and any exit       *)
(* codes, the counters, the files and the log agree with what became of    *)
(* the target, and a stop loses one run at most.                           *)
(***************************************************************************)
EXTENDS RadamsaCampaign, FiniteSetTheorems, TLAPS

N == Len(ran)
Failed(k) == Kind(ran[k].code) # "success"

\* What should be there of the runs before n: the numbers, the files, the log.
RunsBefore(kind, n) == {k \in 1 .. N : k < n /\ Kind(ran[k].code) = kind}
File(k)  == [kind |-> Kind(ran[k].code), run |-> k, input |-> k]
Files(n) == {File(k) : k \in FailuresBefore(n)}
LoggedFile(e) == [kind |-> e.kind, run |-> e.run, input |-> e.run]

Failures == count["crash"] + count["timeout"] + count["error"]
Counted(n) == /\ \A kind \in Kinds : count[kind] = Cardinality(RunsBefore(kind, n))
              /\ Failures = Cardinality(FailuresBefore(n))
Saved(n)   == files = Files(n) /\ IsFiniteSet(files)
Logged(n)  == /\ {LoggedFile(log[k]) : k \in 1 .. Len(log)} = Files(n)
              /\ Len(log) = Cardinality(Files(n))

\* The books are kept in this order: a failure is counted, saved and logged.
Books(c, s, l) == Counted(c) /\ Saved(s) /\ Logged(l)
InOrder == \/ Books(N, N, N) \/ Books(N + 1, N, N) \/ Books(N + 1, N + 1, N)
           \/ Books(N + 1, N + 1, N + 1)

Open == Ends \cup {"judge", "cp", "log"}
BooksInv ==
    /\ pc = "judge" => Books(N, N, N)
    /\ pc = "cp"    => Books(N + 1, N, N)
    /\ pc = "log"   => Books(N + 1, N + 1, N)
    /\ pc \notin Open \/ pc = "completed" => Books(N + 1, N + 1, N + 1)
    /\ InOrder

\* Where the script is in its loop, by the numbers it keeps.
Place ==
    /\ pc \in {"setup", "loop", "completed"} => runs = i - 1 /\ N = i - 1
    /\ pc \in {"radamsa", "timeout"} => runs = i /\ N = i - 1
    /\ pc \in {"judge", "cp", "log", "next"} => runs = i /\ N = i /\ exit_code = ran[i].code
    /\ pc \in {"radamsa", "timeout", "judge", "cp", "log", "next"} => i <= NumRuns
    /\ pc \in {"timeout", "judge", "cp"} => temp = i
    /\ pc \in {"cp", "log"} => Failed(i)
    /\ runs - N \in {0, 1}

\* What is printed at the end are the numbers of that moment.
Printed == pc \in {"completed", "interrupted"} => shown = Report

IInv == TypeOK /\ Place /\ BooksInv /\ Printed

USE NumRunsAssumption, ExitCodesAssumption

-----------------------------------------------------------------------------
(* About exit codes, and the sets of failed runs. *)

LEMMA KindOfCode == \A code : Kind(code) \in Kinds \cup {"success"}
  BY DEF Kind, Kinds

LEMMA OutcomeCode == \A o \in Outcomes : o.code \in 0 .. 255
<1> SUFFICES ASSUME NEW o \in Outcomes PROVE o.code \in 0 .. 255
  OBVIOUS
<1>1. CASE o \in [cause : {"exit"}, code : ExitCodes]
  <2>1. o.code \in ExitCodes
    BY <1>1
  <2>2. ExitCodes \subseteq 0 .. 255
    BY ExitCodesAssumption
  <2> QED BY <2>1, <2>2
<1>2. CASE o \notin [cause : {"exit"}, code : ExitCodes]
  BY <1>2 DEF Outcomes
<1> QED BY <1>1, <1>2

LEMMA CodeOfRun == ASSUME TypeOK, NEW k \in 1 .. N PROVE ran[k] \in Outcomes
  BY DEF TypeOK, N

LEMMA Finite ==
  ASSUME TypeOK, NEW n \in Nat
  PROVE  /\ N \in Nat /\ IsFiniteSet(FailuresBefore(n))
         /\ \A kind : /\ IsFiniteSet(RunsBefore(kind, n))
                      /\ Cardinality(RunsBefore(kind, n)) \in Nat
                      /\ Cardinality(RunsBefore(kind, n)) <= N
<1>1. N \in Nat
  BY DEF TypeOK, N
<1>2. IsFiniteSet(1 .. N) /\ Cardinality(1 .. N) = N
  BY <1>1, FS_Interval
<1>3. FailuresBefore(n) \subseteq 1 .. N /\ \A kind : RunsBefore(kind, n) \subseteq 1 .. N
  BY DEF FailuresBefore, RunsBefore, N
<1>4. IsFiniteSet(FailuresBefore(n))
  BY <1>2, <1>3, FS_Subset
<1>5. ASSUME NEW kind
      PROVE  /\ IsFiniteSet(RunsBefore(kind, n))
             /\ Cardinality(RunsBefore(kind, n)) \in Nat
             /\ Cardinality(RunsBefore(kind, n)) <= N
  BY <1>2, <1>3, FS_Subset, FS_CardinalityType
<1> QED BY <1>1, <1>4, <1>5

\* One run more.
LEMMA OneMore ==
  ASSUME TypeOK, NEW n \in 1 .. N
  PROVE  /\ FailuresBefore(n + 1) = FailuresBefore(n) \cup (IF Failed(n) THEN {n} ELSE {})
         /\ Files(n + 1) = Files(n) \cup (IF Failed(n) THEN {File(n)} ELSE {})
         /\ \A kind : RunsBefore(kind, n + 1) =
                        RunsBefore(kind, n) \cup (IF Kind(ran[n].code) = kind THEN {n} ELSE {})
         /\ n \notin FailuresBefore(n) /\ \A kind : n \notin RunsBefore(kind, n)
         /\ File(n) \notin Files(n)
<1>1. N \in Nat
  BY DEF TypeOK, N
<1>2. FailuresBefore(n + 1) = FailuresBefore(n) \cup (IF Failed(n) THEN {n} ELSE {})
  BY <1>1 DEF FailuresBefore, Failed, N
<1>3. Files(n + 1) = Files(n) \cup (IF Failed(n) THEN {File(n)} ELSE {})
  BY <1>2 DEF Files
<1>4. \A kind : RunsBefore(kind, n + 1) =
                  RunsBefore(kind, n) \cup (IF Kind(ran[n].code) = kind THEN {n} ELSE {})
  BY <1>1 DEF RunsBefore
<1>5. n \notin FailuresBefore(n) /\ \A kind : n \notin RunsBefore(kind, n)
  BY DEF FailuresBefore, RunsBefore
<1>6. File(n) \notin Files(n)
  BY <1>5 DEF Files, File
<1> QED BY <1>2, <1>3, <1>4, <1>5, <1>6

\* Nothing is counted twice: the failures before n + 1 are those before n and at most
\* one more.
LEMMA AtMostOneMore ==
  ASSUME TypeOK
  PROVE  /\ Cardinality(FailuresBefore(N + 1)) \in Nat
         /\ Cardinality(FailuresBefore(N + 1)) - Cardinality(FailuresBefore(N)) \in {0, 1}
<1>1. N \in Nat
  BY DEF TypeOK, N
<1>2. /\ IsFiniteSet(FailuresBefore(N)) /\ IsFiniteSet(FailuresBefore(N + 1))
      /\ Cardinality(FailuresBefore(N)) \in Nat /\ Cardinality(FailuresBefore(N + 1)) \in Nat
  BY <1>1, Finite, FS_CardinalityType
<1>3. CASE N = 0
  <2>1. FailuresBefore(N + 1) = FailuresBefore(N)
    BY <1>3 DEF FailuresBefore, N
  <2> QED BY <1>2, <2>1
<1>4. CASE N # 0
  <2>1. FailuresBefore(N + 1) = FailuresBefore(N) \cup (IF Failed(N) THEN {N} ELSE {})
    BY <1>1, <1>4, OneMore
  <2>2. Cardinality(FailuresBefore(N) \cup {N}) \in
          {Cardinality(FailuresBefore(N)), Cardinality(FailuresBefore(N)) + 1}
    BY <1>2, FS_AddElement
  <2> QED BY <1>2, <2>1, <2>2
<1> QED BY <1>3, <1>4

\* A run that is added changes nothing about those before.
LEMMA AppendRun ==
  ASSUME TypeOK, NEW o \in Outcomes, ran' = Append(ran, o), UNCHANGED <<count, files, log>>
  PROVE  /\ N' = N + 1 /\ ran'[N + 1] = o
         /\ Books(N + 1, N + 1, N + 1) => Books(N, N, N)'
<1>1. /\ N \in Nat /\ N' = N + 1 /\ ran'[N + 1] = o
      /\ \A k \in 1 .. N : ran'[k] = ran[k]
  BY DEF TypeOK, N
<1>2. \A k \in 1 .. N : File(k)' = File(k)
  BY <1>1 DEF File
<1>3. FailuresBefore(N + 1) = FailuresBefore(N)'
  BY <1>1 DEF FailuresBefore, N
<1>4. FailuresBefore(N + 1) \subseteq 1 .. N
  BY DEF FailuresBefore, N
<1>5. Files(N + 1) = Files(N)'
  BY <1>2, <1>3, <1>4 DEF Files
<1>6. ASSUME NEW kind PROVE RunsBefore(kind, N + 1) = RunsBefore(kind, N)'
  <2>1. RunsBefore(kind, N)' = {k \in 1 .. N + 1 : k < N + 1 /\ Kind(ran'[k].code) = kind}
    BY <1>1 DEF RunsBefore
  <2>2. ASSUME NEW k PROVE k \in 1 .. N + 1 /\ k < N + 1 <=> k \in 1 .. N /\ k < N + 1
    BY <1>1
  <2>3. ASSUME NEW k PROVE k \in RunsBefore(kind, N)' <=> k \in RunsBefore(kind, N + 1)
    BY <1>1, <2>1, <2>2 DEF RunsBefore
  <2> QED BY <2>3
<1> QED BY <1>1, <1>3, <1>5, <1>6 DEF Books, Counted, Failures, Saved, Logged, LoggedFile

\* The books are what they were when nobody writes in them.
LEMMA SameBooks ==
  ASSUME UNCHANGED <<count, files, log, ran>>
  PROVE  /\ N' = N
         /\ \A c, s, l : Books(c, s, l) => Books(c, s, l)'
         /\ InOrder => InOrder'
<1>1. N' = N
  BY DEF N
<1>2. ASSUME NEW n
      PROVE  /\ FailuresBefore(n)' = FailuresBefore(n) /\ Files(n)' = Files(n)
             /\ \A kind : RunsBefore(kind, n)' = RunsBefore(kind, n)
  <2>1. FailuresBefore(n)' = FailuresBefore(n)
    BY DEF FailuresBefore
  <2>2. Files(n)' = Files(n)
    BY <2>1 DEF Files, File
  <2>3. ASSUME NEW kind PROVE RunsBefore(kind, n)' = RunsBefore(kind, n)
    BY <1>1 DEF RunsBefore
  <2> QED BY <2>1, <2>2, <2>3
<1>3. ASSUME NEW c, NEW s, NEW l PROVE Books(c, s, l) => Books(c, s, l)'
  BY <1>2 DEF Books, Counted, Failures, Saved, Logged
<1> QED BY <1>1, <1>3 DEF InOrder

-----------------------------------------------------------------------------
LEMMA InitInv == Init => IInv
<1> SUFFICES ASSUME Init PROVE IInv
  OBVIOUS
<1>1. ran = <<>> /\ N = 0 /\ Len(log) = 0
  BY DEF Init, N
<1>2. TypeOK
  BY DEF Init, TypeOK, Report, Absent, Empty
<1>3. Place /\ Printed
  BY <1>1 DEF Init, Place, Printed
<1>4. FailuresBefore(1) = {} /\ Files(1) = {} /\ \A kind : RunsBefore(kind, 1) = {}
  BY <1>1 DEF FailuresBefore, Files, RunsBefore
<1>5. Counted(1)
  <2>1. count["crash"] = 0 /\ count["timeout"] = 0 /\ count["error"] = 0
    BY DEF Init, Kinds
  <2>2. Failures = 0
    BY <2>1 DEF Failures
  <2>3. \A kind \in Kinds : count[kind] = 0
    BY DEF Init
  <2> QED BY <1>4, <2>2, <2>3, FS_EmptySet DEF Counted
<1>6. Saved(1) /\ Logged(1)
  BY <1>1, <1>4, FS_EmptySet DEF Init, Saved, Logged
<1>7. BooksInv
  BY <1>1, <1>5, <1>6 DEF Init, BooksInv, Books, InOrder, Open, Ends
<1> QED BY <1>2, <1>3, <1>7 DEF IInv

\* The steps that write in none of the books and judge nothing: the command of a run
\* starts, ends, or fails.
Quiet == UNCHANGED <<count, files, log, ran>>

LEMMA QuietInv ==
  ASSUME IInv, Quiet, pc' \in Ends \cup {"loop", "radamsa", "timeout"},
         pc' \in {"loop", "radamsa", "timeout", "completed"} => pc \notin Open
  PROVE  BooksInv'
<1>1. N' = N /\ (\A c, s, l : Books(c, s, l) => Books(c, s, l)') /\ InOrder'
  BY SameBooks DEF IInv, BooksInv, Quiet
<1>2. pc' \notin Open \/ pc' = "completed" => pc \notin Open
  BY DEF Open, Ends
<1>3. pc \notin Open => Books(N + 1, N + 1, N + 1)
  BY DEF IInv, BooksInv
<1>4. pc' \notin {"judge", "cp", "log"}
  BY DEF Ends
<1> QED BY <1>1, <1>2, <1>3, <1>4 DEF BooksInv

\* A command that fails ends the script; nothing is printed.
LEMMA DieInv ==
  ASSUME IInv, Die, Quiet, UNCHANGED <<i, runs, exit_code, shown>>
  PROVE  IInv'
<1>1. TypeOK'
  BY DEF IInv, TypeOK, Die, Quiet, Ends, Absent, Empty
<1>2. Place' /\ Printed'
  BY DEF IInv, Place, Printed, Die, Quiet, N
<1>3. BooksInv'
  BY QuietInv DEF Die, Ends
<1> QED BY <1>1, <1>2, <1>3 DEF IInv

LEMMA SetupInv == ASSUME IInv, Setup PROVE IInv'
<1>1. pc = "setup" /\ UNCHANGED <<i, runs, count, exit_code, files, log, shown, ran>>
  BY DEF Setup
<1>2. CASE pc' = "loop" /\ temp' = Empty
  <2>1. TypeOK'
    BY <1>1, <1>2 DEF IInv, TypeOK
  <2>2. Place' /\ Printed'
    BY <1>1, <1>2 DEF IInv, Place, Printed, N
  <2>3. BooksInv'
    BY <1>1, <1>2, QuietInv DEF Quiet, Open, Ends
  <2> QED BY <2>1, <2>2, <2>3 DEF IInv
<1>3. CASE Die
  BY <1>1, <1>3, DieInv DEF Quiet
<1> QED BY <1>2, <1>3 DEF Setup

LEMMA StartRunInv == ASSUME IInv, StartRun PROVE IInv'
<1>1. /\ pc = "loop" /\ i <= NumRuns /\ runs' = runs + 1 /\ pc' = "radamsa"
      /\ UNCHANGED <<i, count, exit_code, temp, files, log, shown, ran>>
  BY DEF StartRun
<1>2. TypeOK'
  BY <1>1 DEF IInv, TypeOK, Place
<1>3. Place' /\ Printed'
  BY <1>1 DEF IInv, TypeOK, Place, Printed, N
<1>4. BooksInv'
  BY <1>1, QuietInv DEF Quiet, Open, Ends
<1> QED BY <1>2, <1>3, <1>4 DEF IInv

LEMMA RadamsaInv == ASSUME IInv, radamsa PROVE IInv'
<1>1. pc = "radamsa" /\ UNCHANGED <<i, runs, count, exit_code, files, log, shown, ran>>
  BY DEF radamsa
<1>2. CASE temp' = i /\ pc' = "timeout"
  <2>1. TypeOK'
    BY <1>1, <1>2 DEF IInv, TypeOK, Place
  <2>2. Place' /\ Printed'
    BY <1>1, <1>2 DEF IInv, Place, Printed, N
  <2>3. BooksInv'
    BY <1>1, <1>2, QuietInv DEF Quiet, Open, Ends
  <2> QED BY <2>1, <2>2, <2>3 DEF IInv
<1>3. CASE Die
  BY <1>1, <1>3, DieInv DEF Quiet
<1> QED BY <1>1, <1>2, <1>3 DEF radamsa

LEMMA TimeoutInv == ASSUME IInv, timeout PROVE IInv'
<1>1. PICK o \in Outcomes : exit_code' = o.code /\ ran' = Append(ran, o)
  BY DEF timeout
<1>2. /\ pc = "timeout" /\ pc' = "judge"
      /\ UNCHANGED <<i, runs, count, temp, files, log, shown>>
  BY DEF timeout
<1>3. /\ N' = N + 1 /\ ran'[N + 1] = o
      /\ Books(N + 1, N + 1, N + 1) => Books(N, N, N)'
  BY <1>1, <1>2, AppendRun DEF IInv
<1>4. TypeOK'
  <2>1. ran' \in Seq(Outcomes)
    BY <1>1 DEF IInv, TypeOK
  <2>2. exit_code' \in 0 .. 255
    BY <1>1, OutcomeCode
  <2> QED BY <1>2, <2>1, <2>2 DEF IInv, TypeOK
<1>5. Place' /\ Printed'
  BY <1>1, <1>2, <1>3 DEF IInv, TypeOK, Place, Printed, N
<1>6. BooksInv'
  BY <1>2, <1>3 DEF IInv, BooksInv, InOrder, Open, Ends
<1> QED BY <1>4, <1>5, <1>6 DEF IInv

\* The failure is counted under its kind, once.
LEMMA CountOne ==
  ASSUME IInv, pc = "judge", Failed(i), UNCHANGED ran,
         count' = [count EXCEPT ![Kind(exit_code)] = @ + 1]
  PROVE  count' \in [Kinds -> 0 .. NumRuns] /\ Counted(N + 1)'
<1>1. /\ i \in 1 .. N /\ i = N /\ N \in Nat /\ N <= NumRuns /\ exit_code = ran[i].code
      /\ Counted(N) /\ TypeOK
  BY DEF IInv, TypeOK, Place, BooksInv, Books, N
<1>2. Kind(exit_code) \in Kinds
  BY <1>1, KindOfCode DEF Failed
<1>3. /\ FailuresBefore(N + 1) = FailuresBefore(N) \cup {N} /\ N \notin FailuresBefore(N)
      /\ \A kind : RunsBefore(kind, N + 1) =
                     RunsBefore(kind, N) \cup (IF Kind(exit_code) = kind THEN {N} ELSE {})
      /\ \A kind : N \notin RunsBefore(kind, N)
  BY <1>1, OneMore
<1>4. /\ IsFiniteSet(FailuresBefore(N)) /\ \A kind : IsFiniteSet(RunsBefore(kind, N))
      /\ \A kind : /\ Cardinality(RunsBefore(kind, N)) \in Nat
                   /\ Cardinality(RunsBefore(kind, N + 1)) \in Nat
                   /\ Cardinality(RunsBefore(kind, N + 1)) <= N
  BY <1>1, Finite
<1>5. Cardinality(FailuresBefore(N + 1)) = Cardinality(FailuresBefore(N)) + 1
  BY <1>3, <1>4, FS_AddElement
<1>6. ASSUME NEW kind \in Kinds
      PROVE  /\ count'[kind] = Cardinality(RunsBefore(kind, N + 1))
             /\ count[kind] \in Int /\ count'[kind] \in 0 .. NumRuns
             /\ count'[kind] = IF kind = Kind(exit_code) THEN count[kind] + 1 ELSE count[kind]
  <2>1. count'[kind] = IF kind = Kind(exit_code) THEN count[kind] + 1 ELSE count[kind]
    BY <1>2 DEF IInv, TypeOK
  <2>2. count[kind] = Cardinality(RunsBefore(kind, N))
    BY <1>1 DEF Counted
  <2>3. CASE kind = Kind(exit_code)
    <3>1. RunsBefore(kind, N + 1) = RunsBefore(kind, N) \cup {N}
      BY <1>3, <2>3
    <3>2. Cardinality(RunsBefore(kind, N + 1)) = Cardinality(RunsBefore(kind, N)) + 1
      BY <1>3, <1>4, <3>1, FS_AddElement
    <3> QED BY <1>1, <1>4, <2>1, <2>2, <2>3, <3>2
  <2>4. CASE kind # Kind(exit_code)
    <3>1. RunsBefore(kind, N + 1) = RunsBefore(kind, N)
      BY <1>3, <2>4
    <3> QED BY <1>1, <1>4, <2>1, <2>2, <2>4, <3>1
  <2> QED BY <2>3, <2>4
<1>7. count' \in [Kinds -> 0 .. NumRuns]
  BY <1>2, <1>6 DEF IInv, TypeOK
<1>8. Failures' = Failures + 1
  <2>1. "crash" \in Kinds /\ "timeout" \in Kinds /\ "error" \in Kinds
    BY DEF Kinds
  <2>2. Kind(exit_code) \in {"crash", "timeout", "error"}
    BY <1>2 DEF Kinds
  <2> QED BY <1>6, <2>1, <2>2 DEF Failures
<1>9. /\ FailuresBefore(N + 1)' = FailuresBefore(N + 1)
      /\ \A kind : RunsBefore(kind, N + 1)' = RunsBefore(kind, N + 1)
  BY DEF FailuresBefore, RunsBefore, N
<1> QED BY <1>1, <1>5, <1>6, <1>7, <1>8, <1>9 DEF Counted

LEMMA JudgeInv == ASSUME IInv, Judge PROVE IInv'
<1>1. /\ pc = "judge" /\ UNCHANGED <<i, runs, exit_code, temp, files, log, shown, ran>>
      /\ N' = N /\ N \in Nat /\ N = i /\ i \in 1 .. N /\ exit_code = ran[i].code
      /\ Books(N, N, N) /\ TypeOK
  BY DEF Judge, IInv, TypeOK, Place, BooksInv, N
<1>2. CASE Kind(exit_code) = "success" /\ pc' = "next" /\ UNCHANGED count
  <2>1. TypeOK'
    BY <1>1, <1>2 DEF TypeOK
  <2>2. Place' /\ Printed'
    BY <1>1, <1>2 DEF IInv, Place, Printed
  <2>3. /\ FailuresBefore(N + 1) = FailuresBefore(N) /\ Files(N + 1) = Files(N)
        /\ \A kind \in Kinds : RunsBefore(kind, N + 1) = RunsBefore(kind, N)
    <3>1. ~Failed(N) /\ \A kind \in Kinds : Kind(ran[N].code) # kind
      BY <1>1, <1>2 DEF Failed, Kinds
    <3>2. N \in 1 .. N
      BY <1>1
    <3>3. /\ FailuresBefore(N + 1) = FailuresBefore(N) \cup {}
          /\ Files(N + 1) = Files(N) \cup {}
      BY <1>1, <3>1, <3>2, OneMore
    <3>4. ASSUME NEW kind \in Kinds PROVE RunsBefore(kind, N + 1) = RunsBefore(kind, N) \cup {}
      BY <1>1, <3>1, <3>2, OneMore
    <3> QED BY <3>3, <3>4
  <2>4. Books(N + 1, N + 1, N + 1)
    BY <1>1, <2>3 DEF Books, Counted, Saved, Logged
  <2>5. Books(N + 1, N + 1, N + 1)'
    BY <1>1, <1>2, <2>4, SameBooks
  <2>6. BooksInv'
    BY <1>2, <2>5 DEF BooksInv, InOrder, Ends
  <2> QED BY <2>1, <2>2, <2>6 DEF IInv
<1>3. CASE /\ Kind(exit_code) # "success" /\ pc' = "cp"
           /\ count' = [count EXCEPT ![Kind(exit_code)] = @ + 1]
  <2>1. Failed(i) /\ Failed(i)'
    BY <1>1, <1>3 DEF Failed
  <2>2. count' \in [Kinds -> 0 .. NumRuns] /\ Counted(N + 1)'
    BY <1>1, <1>3, <2>1, CountOne
  <2>3. TypeOK'
    BY <1>1, <1>3, <2>2 DEF TypeOK
  <2>4. Place' /\ Printed'
    BY <1>1, <1>3, <2>1 DEF IInv, Place, Printed
  <2>5. Saved(N)' /\ Logged(N)'
    BY <1>1 DEF Books, Saved, Logged, Files, File, FailuresBefore, LoggedFile
  <2>6. Books(N + 1, N, N)'
    BY <2>2, <2>5 DEF Books
  <2>7. BooksInv'
    BY <1>3, <2>6 DEF BooksInv, InOrder, Open, Ends
  <2> QED BY <2>3, <2>4, <2>7 DEF IInv
<1> QED BY <1>2, <1>3 DEF Judge

\* The sets of failed runs go by what became of the target alone.
LEMMA SameRuns ==
  ASSUME UNCHANGED ran
  PROVE  /\ N' = N
         /\ \A n : FailuresBefore(n)' = FailuresBefore(n) /\ Files(n)' = Files(n)
         /\ \A n : \A kind : RunsBefore(kind, n)' = RunsBefore(kind, n)
<1>1. N' = N
  BY DEF N
<1>2. ASSUME NEW n PROVE FailuresBefore(n)' = FailuresBefore(n)
  BY DEF FailuresBefore
<1>3. ASSUME NEW n PROVE Files(n)' = Files(n)
  BY <1>2 DEF Files, File
<1>4. ASSUME NEW n, NEW kind PROVE RunsBefore(kind, n)' = RunsBefore(kind, n)
  BY <1>1 DEF RunsBefore
<1> QED BY <1>1, <1>2, <1>3, <1>4

\* The temporary file holds the input of this very run.
LEMMA CpInv == ASSUME IInv, cp PROVE IInv'
<1>1. pc = "cp" /\ UNCHANGED <<i, runs, count, exit_code, log, shown, ran>>
  BY DEF cp
<1>2. CASE /\ files' = files \cup {[kind |-> Kind(exit_code), run |-> i, input |-> temp]}
           /\ pc' = "log" /\ UNCHANGED temp
  <2>1. /\ N = i /\ i \in 1 .. N /\ i \in 1 .. NumRuns /\ temp = i /\ Failed(i)
        /\ exit_code = ran[i].code /\ Books(N + 1, N, N) /\ TypeOK
    BY <1>1 DEF IInv, TypeOK, Place, BooksInv
  <2>2. files' = files \cup {File(N)} /\ Kind(exit_code) \in Kinds
    BY <1>2, <2>1, KindOfCode DEF File, Failed
  <2>3. TypeOK'
    BY <1>1, <1>2, <2>1, <2>2 DEF TypeOK
  <2>4. Place' /\ Printed'
    BY <1>1, <1>2 DEF IInv, Place, Printed, N, Failed
  <2>5. Saved(N + 1)'
    <3>1. files' = Files(N + 1)
      BY <2>1, <2>2, OneMore DEF Books, Saved
    <3>2. IsFiniteSet(files')
      BY <2>1, <2>2, FS_AddElement DEF Books, Saved
    <3> QED BY <1>1, <3>1, <3>2, SameRuns DEF Saved
  <2>6. Counted(N + 1)' /\ Logged(N)'
    BY <1>1, <2>1, SameRuns DEF Books, Counted, Failures, Logged, LoggedFile
  <2>7. BooksInv'
    BY <1>2, <2>5, <2>6 DEF BooksInv, Books, InOrder, Open, Ends
  <2> QED BY <2>3, <2>4, <2>7 DEF IInv
<1>3. CASE Die /\ UNCHANGED files
  BY <1>1, <1>3, DieInv DEF Quiet
<1> QED BY <1>2, <1>3 DEF cp

LEMMA LogInv == ASSUME IInv, Log PROVE IInv'
<1>1. pc = "log" /\ UNCHANGED <<i, runs, count, exit_code, files, shown, ran>>
  BY DEF Log
<1>2. CASE /\ log' = Append(log, [kind |-> Kind(exit_code), run |-> i])
           /\ pc' = "next" /\ UNCHANGED temp
  <2> DEFINE entry == [kind |-> Kind(exit_code), run |-> i]
  <2>1. /\ N = i /\ i \in 1 .. N /\ i \in 1 .. NumRuns /\ Failed(i)
        /\ exit_code = ran[i].code /\ Books(N + 1, N + 1, N) /\ TypeOK
        /\ Kind(exit_code) \in Kinds
    <3>1. /\ N = i /\ i \in 1 .. N /\ i \in 1 .. NumRuns /\ Failed(i)
          /\ exit_code = ran[i].code /\ Books(N + 1, N + 1, N) /\ TypeOK
      BY <1>1 DEF IInv, TypeOK, Place, BooksInv
    <3> QED BY <3>1, KindOfCode DEF Failed
  <2>2. /\ log' \in Seq([kind : Kinds, run : 1 .. NumRuns]) /\ Len(log) \in Nat
        /\ Len(log') = Len(log) + 1 /\ log'[Len(log) + 1] = entry
        /\ \A k \in 1 .. Len(log) : log'[k] = log[k]
    BY <1>2, <2>1 DEF TypeOK
  <2>3. TypeOK'
    BY <1>1, <1>2, <2>1, <2>2 DEF TypeOK
  <2>4. Place' /\ Printed'
    BY <1>1, <1>2 DEF IInv, Place, Printed, N, Failed
  <2>5. LoggedFile(entry) = File(N)
    BY <2>1 DEF LoggedFile, File
  <2>6. Files(N + 1) = Files(N) \cup {File(N)} /\ File(N) \notin Files(N)
    BY <2>1, OneMore
  <2>7. {LoggedFile(log'[k]) : k \in 1 .. Len(log')} = Files(N + 1)
    <3>1. \A k : k \in 1 .. Len(log') <=> k \in 1 .. Len(log) \/ k = Len(log) + 1
      BY <2>2
    <3>2. {LoggedFile(log'[k]) : k \in 1 .. Len(log')} =
            {LoggedFile(log[k]) : k \in 1 .. Len(log)} \cup {LoggedFile(entry)}
      BY <2>2, <3>1
    <3> QED BY <2>1, <2>5, <2>6, <3>2 DEF Books, Logged
  <2>8. Len(log') = Cardinality(Files(N + 1))
    <3>1. IsFiniteSet(Files(N))
      BY <2>1, <2>6, FS_Subset DEF Books, Saved
    <3>2. Cardinality(Files(N + 1)) = Cardinality(Files(N)) + 1
      BY <2>6, <3>1, FS_AddElement
    <3> QED BY <2>1, <2>2, <3>2 DEF Books, Logged
  <2>9. Logged(N + 1)'
    BY <1>1, <2>7, <2>8, SameRuns DEF Logged
  <2>10. Counted(N + 1)' /\ Saved(N + 1)'
    BY <1>1, <2>1, SameRuns DEF Books, Counted, Failures, Saved
  <2>11. BooksInv'
    BY <1>2, <2>9, <2>10 DEF BooksInv, Books, InOrder, Ends
  <2> QED BY <2>3, <2>4, <2>11 DEF IInv
<1>3. CASE Die /\ UNCHANGED log
  BY <1>1, <1>3, DieInv DEF Quiet
<1> QED BY <1>2, <1>3 DEF Log

LEMMA NextRunInv == ASSUME IInv, NextRun PROVE IInv'
<1>1. /\ pc = "next" /\ i' = i + 1 /\ pc' = "loop"
      /\ UNCHANGED <<runs, count, exit_code, temp, files, log, shown, ran>>
  BY DEF NextRun
<1>2. TypeOK'
  BY <1>1 DEF IInv, TypeOK, Place
<1>3. Place' /\ Printed'
  BY <1>1 DEF IInv, TypeOK, Place, Printed, N
<1>4. BooksInv'
  BY <1>1, QuietInv DEF Quiet, Open, Ends
<1> QED BY <1>2, <1>3, <1>4 DEF IInv

\* The script prints its numbers and is gone, at its end or before.
LEMMA StopInv == ASSUME IInv, Completed \/ cleanup PROVE IInv'
<1>1. /\ pc' \in Ends /\ shown' = Report /\ temp' = Absent
      /\ UNCHANGED <<i, runs, count, exit_code, files, log, ran>>
      /\ pc' = "completed" => pc = "loop"
  BY DEF Completed, cleanup, Ends
<1>2. TypeOK'
  BY <1>1 DEF IInv, TypeOK, Report, Absent, Empty
<1>3. Place' /\ Printed'
  BY <1>1 DEF IInv, Place, Printed, Report, N, Ends
<1>4. BooksInv'
  BY <1>1, QuietInv DEF Quiet, Open, Ends
<1> QED BY <1>2, <1>3, <1>4 DEF IInv

LEMMA StutterInv == IInv /\ UNCHANGED vars => IInv'
<1> SUFFICES ASSUME IInv, UNCHANGED vars PROVE IInv'
  OBVIOUS
<1>1. TypeOK' /\ Printed' /\ Place'
  BY DEF vars, IInv, TypeOK, Printed, Report, Place, N, Failed
<1>2. BooksInv'
  BY SameBooks DEF vars, IInv, BooksInv
<1> QED BY <1>1, <1>2 DEF IInv

LEMMA StepInv == IInv /\ [Next]_vars => IInv'
<1> SUFFICES ASSUME IInv, [Next]_vars PROVE IInv'
  OBVIOUS
<1>1. CASE Script
  BY <1>1, SetupInv, StartRunInv, RadamsaInv, TimeoutInv, JudgeInv, CpInv, LogInv, NextRunInv,
     StopInv DEF Script
<1>2. CASE cleanup
  BY <1>2, StopInv
<1>3. CASE Ended \/ UNCHANGED vars
  BY <1>3, StutterInv DEF Ended
<1> QED BY <1>1, <1>2, <1>3 DEF Next

-----------------------------------------------------------------------------
LEMMA Invariant == Spec => []IInv
<1>1. Init => IInv
  BY InitInv
<1>2. IInv /\ [Next]_vars => IInv'
  BY StepInv
<1> QED BY <1>1, <1>2, PTL DEF Spec

\* No counter exceeds the number of runs, and a file is of a run there was.
THEOREM TypeCorrect == Spec => []TypeOK
<1>1. IInv => TypeOK
  BY DEF IInv
<1> QED BY <1>1, Invariant, PTL

\* Each failure is counted, saved and logged once, with the input of that very run
\* (lines 126-155), for any number of runs.
THEOREM BooksAgree == Spec => []RunsAreAccounted
<1>1. IInv => RunsAreAccounted
  <2> SUFFICES ASSUME IInv, pc \in {"loop", "completed"} PROVE RunsAreAccounted
    BY DEF RunsAreAccounted
  <2>1. runs = i - 1 /\ N = i - 1 /\ i = N + 1 /\ Books(N + 1, N + 1, N + 1)
    BY DEF IInv, TypeOK, Place, BooksInv, Open, Ends
  <2>2. \A kind : RunsBefore(kind, N + 1) = RunsOf(kind)
    BY DEF IInv, TypeOK, RunsBefore, RunsOf, N
  <2>3. {LoggedFile(e) : e \in {log[k] : k \in 1 .. Len(log)}} =
          {LoggedFile(log[k]) : k \in 1 .. Len(log)}
    OBVIOUS
  <2> QED BY <2>1, <2>2, <2>3
          DEF RunsAreAccounted, Books, Counted, Saved, Logged, LoggedFile, Files, File, N
<1> QED BY <1>1, Invariant, PTL

\* A stop at any command loses one failure at most, of the run in flight (lines
\* 10-30, 122), and the last file may be missing, but no other.
THEOREM OneRunIsLost == Spec => []StopLosesOneRun
<1>1. IInv => StopLosesOneRun
  <2> SUFFICES ASSUME IInv, pc \in Ends PROVE StopLosesOneRun
    BY DEF StopLosesOneRun
  <2>1. /\ Failures \in {Cardinality(FailuresBefore(N)), Cardinality(FailuresBefore(N + 1))}
        /\ files \in {Files(N), Files(N + 1)} /\ N \in Nat
    BY DEF IInv, TypeOK, BooksInv, InOrder, Books, Counted, Saved, N
  <2>2. Cardinality(FailuresBefore(N + 1)) - Failures \in {0, 1}
    BY <2>1, AtMostOneMore DEF IInv
  <2>3. pc # "died" => shown.runs = runs /\ shown.count = count
    BY DEF IInv, Printed, Report, Ends
  <2>4. FailuresBefore(N) \subseteq FailuresBefore(N + 1)
    BY <2>1 DEF FailuresBefore, N
  <2>5. \A k \in FailuresBefore(N) : File(k) \in files
    BY <2>1, <2>4 DEF Files
  <2>6. \A k \in FailuresBefore(N) : \E f \in files : f.run = k /\ f.input = k
    BY <2>5 DEF File
  <2>7. pc # "died" => shown.runs - N \in {0, 1}
    BY <2>3 DEF IInv, Place
  <2> QED BY <2>2, <2>3, <2>6, <2>7 DEF StopLosesOneRun, Failures, N
<1> QED BY <1>1, Invariant, PTL

\* Whatever is named in the log was saved before (lines 150-153).
THEOREM LoggedWasSaved == Spec => []LoggedIsSaved
<1>1. IInv => LoggedIsSaved
  <2> SUFFICES ASSUME IInv, NEW k \in 1 .. Len(log) PROVE LoggedFile(log[k]) \in files
    BY DEF LoggedIsSaved, LoggedFile
  <2>1. Files(N) \subseteq Files(N + 1)
    BY DEF IInv, TypeOK, Files, FailuresBefore, N
  <2>2. {LoggedFile(log[j]) : j \in 1 .. Len(log)} \subseteq files
    BY <2>1 DEF IInv, BooksInv, InOrder, Books, Saved, Logged
  <2> QED BY <2>2
<1> QED BY <1>1, Invariant, PTL
=============================================================================
