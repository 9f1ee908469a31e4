-------------------------- MODULE EventGroup_proofs --------------------------
(***************************************************************************)
(* The event group for every number of threads and bits, every mix of      *)
(* calls and every number of choices: its mutual exclusion, that no        *)
(* wake-up is lost, and that it implements AtomicEventGroup.               *)
(***************************************************************************)
EXTENDS EventGroup, TLAPS

USE DEF Inside, Waiting, Locations, Goto, group

\* Without a group nobody is in a call.
NobodyWithoutGroup == ~live => \A t \in Threads : pc[t] \in {"idle", "join", "gone"}

\* Only waits reach pthread_cond_wait, and die there.
WaitsWait == \A t \in Threads : pc[t] \in Waiting \cup {"dying"} => call[t].op = "wait"

Inv == TypeOK /\ MutexHeld /\ NobodyWithoutGroup /\ WaitsWait /\ NoLostWakeup

-----------------------------------------------------------------------------
\* Clearing bits satisfies nobody.
LEMMA SatisfiedMonotone ==
    ASSUME NEW c, NEW b, NEW d, d \subseteq b, Satisfied(c, d)
    PROVE  Satisfied(c, b)
BY DEF Satisfied

\* Initially nobody is in a call and the mutex is free.
LEMMA InvInit == Init => Inv
<1> SUFFICES ASSUME Init PROVE Inv
    OBVIOUS
<1> USE DEF Init
<1>1. TypeOK
    <2>1. used \in 0 .. MaxChoices
        BY MaxChoicesAssumption
    <2>2. call \in [Threads -> Calls \cup {NoCall}] /\ target \in [Threads -> Threads]
        OBVIOUS
    <2>3. pc \in [Threads -> Locations] /\ out \in [Threads -> SUBSET Bits]
        OBVIOUS
    <2> QED BY <2>1, <2>2, <2>3 DEF TypeOK
<1>2. MutexHeld
    BY NoThreadAssumption DEF MutexHeld
<1>3. NobodyWithoutGroup /\ WaitsWait /\ NoLostWakeup
    BY DEF NobodyWithoutGroup, WaitsWait, NoLostWakeup
<1> QED BY <1>1, <1>2, <1>3 DEF Inv

\* Typing, step by step.
LEMMA TypeStep == TypeOK /\ [Next]_vars => TypeOK'
<1> SUFFICES ASSUME TypeOK, [Next]_vars PROVE TypeOK'
    OBVIOUS
<1> USE DEF TypeOK
<1>a. Choice => used' \in 0 .. MaxChoices
    BY MaxChoicesAssumption DEF Choice
<1>1. CASE xEventGroupCreate
    BY <1>1, <1>a DEF xEventGroupCreate
<1>2. CASE vEventGroupDelete
    BY <1>2, <1>a DEF vEventGroupDelete
<1>3. ASSUME NEW t \in Threads, Step(t) PROVE TypeOK'
    <2>1. CASE pthread_mutex_lock(t)
        BY <2>1 DEF pthread_mutex_lock
    <2>2. CASE pthread_mutex_unlock(t)
        BY <2>2 DEF pthread_mutex_unlock
    <2>3. CASE xEventGroupGetBits(t)
        BY <2>3 DEF xEventGroupGetBits
    <2>4. CASE xEventGroupSetBits(t)
        <3>1. call[t].mask \subseteq Bits
            BY CallsAssumption DEF NoCall
        <3> QED BY <2>4, <3>1 DEF xEventGroupSetBits
    <2>5. CASE pthread_cond_broadcast(t)
        BY <2>5 DEF pthread_cond_broadcast
    <2>6. CASE xEventGroupClearBits(t)
        BY <2>6 DEF xEventGroupClearBits
    <2>7. CASE xEventGroupWaitBits(t)
        BY <2>7 DEF xEventGroupWaitBits
    <2>8. CASE pthread_cond_wait(t)
        BY <2>8 DEF pthread_cond_wait
    <2>9. CASE pthread_join(t)
        BY <2>9 DEF pthread_join
    <2>10. CASE Cancelled(t)
        BY <2>10 DEF Cancelled
    <2> QED BY <1>3, <2>1, <2>2, <2>3, <2>4, <2>5, <2>6, <2>7, <2>8, <2>9, <2>10 DEF Step
<1>4. ASSUME NEW t \in Threads, Env(t) PROVE TypeOK'
    <2>1. CASE Call(t)
        BY <2>1, <1>a DEF Call
    <2>2. CASE Spurious(t)
        BY <2>2, <1>a DEF Spurious
    <2>3. CASE pthread_exit(t)
        BY <2>3, <1>a DEF pthread_exit
    <2>4. CASE vTaskDelete(t)
        BY <2>4, <1>a DEF vTaskDelete
    <2> QED BY <1>4, <2>1, <2>2, <2>3, <2>4 DEF Env
<1>5. CASE UNCHANGED vars
    BY <1>5 DEF vars
<1> QED BY <1>1, <1>2, <1>3, <1>4, <1>5 DEF Next

\* The mutex: only who is inside has it, and only a dead waiter keeps it.
LEMMA MutexStep == Inv /\ [Next]_vars => MutexHeld'
<1> SUFFICES ASSUME Inv, [Next]_vars PROVE MutexHeld'
    OBVIOUS
<1> USE NoThreadAssumption DEF Inv, TypeOK, MutexHeld, NobodyWithoutGroup, WaitsWait
<1>1. CASE xEventGroupCreate
    BY <1>1 DEF xEventGroupCreate
<1>2. CASE vEventGroupDelete
    BY <1>2 DEF vEventGroupDelete
<1>3. ASSUME NEW t \in Threads, Step(t) PROVE MutexHeld'
    <2>1. CASE pthread_mutex_lock(t)
        BY <2>1 DEF pthread_mutex_lock
    <2>2. CASE pthread_mutex_unlock(t)
        BY <2>2 DEF pthread_mutex_unlock
    <2>3. CASE xEventGroupGetBits(t)
        BY <2>3 DEF xEventGroupGetBits
    <2>4. CASE xEventGroupSetBits(t)
        BY <2>4 DEF xEventGroupSetBits
    <2>5. CASE pthread_cond_broadcast(t)
        BY <2>5 DEF pthread_cond_broadcast
    <2>6. CASE xEventGroupClearBits(t)
        BY <2>6 DEF xEventGroupClearBits
    <2>7. CASE xEventGroupWaitBits(t)
        BY <2>7 DEF xEventGroupWaitBits
    <2>8. CASE pthread_cond_wait(t)
        BY <2>8 DEF pthread_cond_wait
    <2>9. CASE pthread_join(t)
        BY <2>9 DEF pthread_join
    <2>10. CASE Cancelled(t)
        BY <2>10 DEF Cancelled
    <2> QED BY <1>3, <2>1, <2>2, <2>3, <2>4, <2>5, <2>6, <2>7, <2>8, <2>9, <2>10 DEF Step
<1>4. ASSUME NEW t \in Threads, Env(t) PROVE MutexHeld'
    <2>1. CASE Call(t)
        BY <2>1 DEF Call
    <2>2. CASE Spurious(t)
        BY <2>2 DEF Spurious
    <2>3. CASE pthread_exit(t)
        BY <2>3 DEF pthread_exit
    <2>4. CASE vTaskDelete(t)
        BY <2>4 DEF vTaskDelete
    <2> QED BY <1>4, <2>1, <2>2, <2>3, <2>4 DEF Env
<1>5. CASE UNCHANGED vars
    BY <1>5 DEF vars
<1> QED BY <1>1, <1>2, <1>3, <1>4, <1>5 DEF Next

\* The group is deleted when nobody uses it, and calls need it.
LEMMA NobodyStep == Inv /\ [Next]_vars => NobodyWithoutGroup'
<1> SUFFICES ASSUME Inv, [Next]_vars PROVE NobodyWithoutGroup'
    OBVIOUS
<1> USE DEF Inv, TypeOK, NobodyWithoutGroup
<1>1. CASE xEventGroupCreate
    BY <1>1 DEF xEventGroupCreate
<1>2. CASE vEventGroupDelete
    BY <1>2 DEF vEventGroupDelete
<1>3. ASSUME NEW t \in Threads, Step(t) PROVE NobodyWithoutGroup'
    <2>1. CASE pthread_mutex_lock(t)
        BY <2>1 DEF pthread_mutex_lock
    <2>2. CASE pthread_mutex_unlock(t)
        BY <2>2 DEF pthread_mutex_unlock
    <2>3. CASE xEventGroupGetBits(t)
        BY <2>3 DEF xEventGroupGetBits
    <2>4. CASE xEventGroupSetBits(t)
        BY <2>4 DEF xEventGroupSetBits
    <2>5. CASE pthread_cond_broadcast(t)
        BY <2>5 DEF pthread_cond_broadcast
    <2>6. CASE xEventGroupClearBits(t)
        BY <2>6 DEF xEventGroupClearBits
    <2>7. CASE xEventGroupWaitBits(t)
        BY <2>7 DEF xEventGroupWaitBits
    <2>8. CASE pthread_cond_wait(t)
        BY <2>8 DEF pthread_cond_wait
    <2>9. CASE pthread_join(t)
        BY <2>9 DEF pthread_join
    <2>10. CASE Cancelled(t)
        BY <2>10 DEF Cancelled
    <2> QED BY <1>3, <2>1, <2>2, <2>3, <2>4, <2>5, <2>6, <2>7, <2>8, <2>9, <2>10 DEF Step
<1>4. ASSUME NEW t \in Threads, Env(t) PROVE NobodyWithoutGroup'
    <2>1. CASE Call(t)
        BY <2>1 DEF Call
    <2>2. CASE Spurious(t)
        BY <2>2 DEF Spurious
    <2>3. CASE pthread_exit(t)
        BY <2>3 DEF pthread_exit
    <2>4. CASE vTaskDelete(t)
        BY <2>4 DEF vTaskDelete
    <2> QED BY <1>4, <2>1, <2>2, <2>3, <2>4 DEF Env
<1>5. CASE UNCHANGED vars
    BY <1>5 DEF vars
<1> QED BY <1>1, <1>2, <1>3, <1>4, <1>5 DEF Next

\* Only waits wait.
LEMMA WaitsStep == Inv /\ [Next]_vars => WaitsWait'
<1> SUFFICES ASSUME Inv, [Next]_vars PROVE WaitsWait'
    OBVIOUS
<1> USE DEF Inv, TypeOK, WaitsWait
<1>1. CASE xEventGroupCreate
    BY <1>1 DEF xEventGroupCreate
<1>2. CASE vEventGroupDelete
    BY <1>2 DEF vEventGroupDelete
<1>3. ASSUME NEW t \in Threads, Step(t) PROVE WaitsWait'
    <2>1. CASE pthread_mutex_lock(t)
        BY <2>1 DEF pthread_mutex_lock
    <2>2. CASE pthread_mutex_unlock(t)
        BY <2>2 DEF pthread_mutex_unlock
    <2>3. CASE xEventGroupGetBits(t)
        BY <2>3 DEF xEventGroupGetBits
    <2>4. CASE xEventGroupSetBits(t)
        BY <2>4 DEF xEventGroupSetBits
    <2>5. CASE pthread_cond_broadcast(t)
        BY <2>5 DEF pthread_cond_broadcast
    <2>6. CASE xEventGroupClearBits(t)
        BY <2>6 DEF xEventGroupClearBits
    <2>7. CASE xEventGroupWaitBits(t)
        BY <2>7 DEF xEventGroupWaitBits
    <2>8. CASE pthread_cond_wait(t)
        BY <2>8 DEF pthread_cond_wait
    <2>9. CASE pthread_join(t)
        BY <2>9 DEF pthread_join
    <2>10. CASE Cancelled(t)
        BY <2>10 DEF Cancelled
    <2> QED BY <1>3, <2>1, <2>2, <2>3, <2>4, <2>5, <2>6, <2>7, <2>8, <2>9, <2>10 DEF Step
<1>4. ASSUME NEW t \in Threads, Env(t) PROVE WaitsWait'
    <2>1. CASE Call(t)
        BY <2>1 DEF Call
    <2>2. CASE Spurious(t)
        BY <2>2 DEF Spurious
    <2>3. CASE pthread_exit(t)
        BY <2>3 DEF pthread_exit
    <2>4. CASE vTaskDelete(t)
        BY <2>4 DEF vTaskDelete
    <2> QED BY <1>4, <2>1, <2>2, <2>3, <2>4 DEF Env
<1>5. CASE UNCHANGED vars
    BY <1>5 DEF vars
<1> QED BY <1>1, <1>2, <1>3, <1>4, <1>5 DEF Next

\* A setter is at its broadcast before it releases the mutex, and who goes to
\* sleep has found its bits missing.
LEMMA WakeupStep == Inv /\ [Next]_vars => NoLostWakeup'
<1> SUFFICES ASSUME Inv, [Next]_vars PROVE NoLostWakeup'
    OBVIOUS
<1> USE DEF Inv, TypeOK, NoLostWakeup, NobodyWithoutGroup
<1>1. CASE xEventGroupCreate
    BY <1>1 DEF xEventGroupCreate
<1>2. CASE vEventGroupDelete
    BY <1>2 DEF vEventGroupDelete
<1>3. ASSUME NEW t \in Threads, Step(t) PROVE NoLostWakeup'
    <2>1. CASE pthread_mutex_lock(t)
        BY <2>1 DEF pthread_mutex_lock
    <2>2. CASE pthread_mutex_unlock(t)
        BY <2>2 DEF pthread_mutex_unlock
    <2>3. CASE xEventGroupGetBits(t)
        BY <2>3 DEF xEventGroupGetBits
    <2>4. CASE xEventGroupSetBits(t)
        BY <2>4 DEF xEventGroupSetBits
    <2>5. CASE pthread_cond_broadcast(t)
        BY <2>5 DEF pthread_cond_broadcast
    <2>6. CASE xEventGroupClearBits(t)
        <3>1. \A u \in Threads : Satisfied(call[u], bits') => Satisfied(call[u], bits)
            BY <2>6, SatisfiedMonotone DEF xEventGroupClearBits
        <3> QED BY <2>6, <3>1 DEF xEventGroupClearBits
    <2>7. CASE xEventGroupWaitBits(t)
        <3>1. \A u \in Threads : Satisfied(call[u], bits') => Satisfied(call[u], bits)
            BY <2>7, SatisfiedMonotone DEF xEventGroupWaitBits
        <3> QED BY <2>7, <3>1 DEF xEventGroupWaitBits
    <2>8. CASE pthread_cond_wait(t)
        BY <2>8 DEF pthread_cond_wait
    <2>9. CASE pthread_join(t)
        BY <2>9 DEF pthread_join
    <2>10. CASE Cancelled(t)
        BY <2>10 DEF Cancelled
    <2> QED BY <1>3, <2>1, <2>2, <2>3, <2>4, <2>5, <2>6, <2>7, <2>8, <2>9, <2>10 DEF Step
<1>4. ASSUME NEW t \in Threads, Env(t) PROVE NoLostWakeup'
    <2>1. CASE Call(t)
        BY <2>1 DEF Call
    <2>2. CASE Spurious(t)
        BY <2>2 DEF Spurious
    <2>3. CASE pthread_exit(t)
        BY <2>3 DEF pthread_exit
    <2>4. CASE vTaskDelete(t)
        BY <2>4 DEF vTaskDelete
    <2> QED BY <1>4, <2>1, <2>2, <2>3, <2>4 DEF Env
<1>5. CASE UNCHANGED vars
    BY <1>5 DEF vars
<1> QED BY <1>1, <1>2, <1>3, <1>4, <1>5 DEF Next

-----------------------------------------------------------------------------
\* Every step preserves the invariant.
LEMMA InvStep == Inv /\ [Next]_vars => Inv'
BY TypeStep, MutexStep, NobodyStep, WaitsStep, WakeupStep DEF Inv

\* The invariant holds of every behaviour.
LEMMA Invariant == Spec => []Inv
BY InvInit, InvStep, PTL DEF Spec

\* TypeOK: the state stays well typed.
THEOREM TypeCorrect == Spec => []TypeOK
BY Invariant, PTL DEF Inv

\* MutexHeld: the bits are used under the mutex, and only the deletion of a
\* waiter leaves it locked.
THEOREM MutexIsHeld == Spec => []MutexHeld
BY Invariant, PTL DEF Inv

\* NoLostWakeup: nobody sleeps on bits that are there.
THEOREM NoWakeupIsLost == Spec => []NoLostWakeup
BY Invariant, PTL DEF Inv

-----------------------------------------------------------------------------
(* The refinement: what takes effect, and when. *)

StatusOf == [t \in Threads |-> Status(pc[t])]
ResultOf == [t \in Threads |-> Result(t)]

\* Every step of the mutex, the condition variable and the threads is a step of
\* the atomic group, or none.
LEMMA StepRefines == Inv /\ Inv' /\ [Next]_vars => [Atomic!Next]_Atomic!vars
<1> SUFFICES ASSUME Inv, Inv', [Next]_vars PROVE [Atomic!Next]_Atomic!vars
    OBVIOUS
<1> USE DEF Inv, TypeOK, MutexHeld, NobodyWithoutGroup, WaitsWait, Atomic!vars
<1>a. pc \in [Threads -> Locations]
    OBVIOUS
<1>1. CASE xEventGroupCreate
    <2>1. Atomic!Create
        BY <1>1 DEF xEventGroupCreate, Atomic!Create, Result
    <2> QED BY <2>1 DEF Atomic!Next
<1>2. CASE vEventGroupDelete
    <2>1. Atomic!Delete
        BY <1>2 DEF vEventGroupDelete, Atomic!Delete, Status, Result
    <2> QED BY <2>1 DEF Atomic!Next
<1>3. ASSUME NEW t \in Threads, Step(t) PROVE [Atomic!Next]_Atomic!vars
    <2>1. CASE pthread_mutex_lock(t)
        BY <2>1 DEF pthread_mutex_lock, Status, Result
    <2>2. CASE pthread_mutex_unlock(t)
        <3>1. Goto(t, "idle") /\ "idle" \in Locations
            BY <2>2 DEF pthread_mutex_unlock
        <3>2. StatusOf' = [StatusOf EXCEPT ![t] = Status("idle")]
            BY <3>1, <1>a DEF StatusOf
        <3>3. ResultOf' = [ResultOf EXCEPT ![t] = {}]
            BY <2>2 DEF pthread_mutex_unlock, ResultOf, Result
        <3>4. Atomic!Return(t)
            BY <2>2, <3>2, <3>3
            DEF pthread_mutex_unlock, Atomic!Return,
                Atomic!NoCall, NoCall, StatusOf, ResultOf, Status
        <3> QED BY <3>4 DEF Atomic!Next
    <2>3. CASE xEventGroupGetBits(t)
        <3>1. Goto(t, "unlock") /\ "unlock" \in Locations
            BY <2>3 DEF xEventGroupGetBits
        <3>2. StatusOf' = [StatusOf EXCEPT ![t] = Status("unlock")]
            BY <3>1, <1>a DEF StatusOf
        <3>3. ResultOf' = [ResultOf EXCEPT ![t] = bits]
            BY <2>3 DEF xEventGroupGetBits, ResultOf, Result
        <3>4. Atomic!Effect(t)
            BY <2>3, <3>2, <3>3
            DEF xEventGroupGetBits, Atomic!Effect,
                Atomic!After, Atomic!Satisfied, Satisfied, StatusOf, ResultOf, Status
        <3> QED BY <3>4 DEF Atomic!Next
    <2>4. CASE xEventGroupSetBits(t)
        <3>1. Goto(t, "broadcast") /\ "broadcast" \in Locations
            BY <2>4 DEF xEventGroupSetBits
        <3>2. StatusOf' = [StatusOf EXCEPT ![t] = Status("broadcast")]
            BY <3>1, <1>a DEF StatusOf
        <3>3. ResultOf' = [ResultOf EXCEPT ![t] = bits']
            BY <2>4 DEF xEventGroupSetBits, ResultOf, Result
        <3>4. Atomic!Effect(t)
            BY <2>4, <3>2, <3>3
            DEF xEventGroupSetBits, Atomic!Effect,
                Atomic!After, Atomic!Satisfied, Satisfied, StatusOf, ResultOf, Status
        <3> QED BY <3>4 DEF Atomic!Next
    <2>5. CASE pthread_cond_broadcast(t)
        BY <2>5 DEF pthread_cond_broadcast, Status, Result
    <2>6. CASE xEventGroupClearBits(t)
        <3>1. Goto(t, "unlock") /\ "unlock" \in Locations
            BY <2>6 DEF xEventGroupClearBits
        <3>2. StatusOf' = [StatusOf EXCEPT ![t] = Status("unlock")]
            BY <3>1, <1>a DEF StatusOf
        <3>3. ResultOf' = [ResultOf EXCEPT ![t] = bits']
            BY <2>6 DEF xEventGroupClearBits, ResultOf, Result
        <3>4. Atomic!Effect(t)
            BY <2>6, <3>2, <3>3
            DEF xEventGroupClearBits, Atomic!Effect,
                Atomic!After, Atomic!Satisfied, Satisfied, StatusOf, ResultOf, Status
        <3> QED BY <3>4 DEF Atomic!Next
    <2>7. CASE xEventGroupWaitBits(t)
        <3>1. Goto(t, "unlock") /\ "unlock" \in Locations
            BY <2>7 DEF xEventGroupWaitBits
        <3>2. StatusOf' = [StatusOf EXCEPT ![t] = Status("unlock")]
            BY <3>1, <1>a DEF StatusOf
        <3>3. ResultOf' = [ResultOf EXCEPT ![t] = bits]
            BY <2>7 DEF xEventGroupWaitBits, ResultOf, Result
        <3>4. Atomic!Effect(t)
            BY <2>7, <3>2, <3>3
            DEF xEventGroupWaitBits, Atomic!Effect,
                Atomic!After, Atomic!Satisfied, Satisfied, StatusOf, ResultOf, Status
        <3> QED BY <3>4 DEF Atomic!Next
    <2>8. CASE pthread_cond_wait(t)
        BY <2>8 DEF pthread_cond_wait, Status, Result
    <2>9. CASE pthread_join(t)
        BY <2>9 DEF pthread_join, Status, Result
    <2>10. CASE Cancelled(t)
        <3>1. PICK l \in Locations : l \in {"dying", "gone"} /\ Goto(t, l)
            BY <2>10 DEF Cancelled
        <3>2. StatusOf' = [StatusOf EXCEPT ![t] = Status(l)]
            BY <3>1, <1>a DEF StatusOf
        <3>3. ResultOf' = ResultOf
            BY <2>10 DEF Cancelled, ResultOf, Result
        <3>4. Atomic!Deleted(t)
            BY <2>10, <3>1, <3>2, <3>3 DEF Cancelled, Atomic!Deleted, StatusOf, ResultOf, Status
        <3> QED BY <3>4 DEF Atomic!Next
    <2> QED BY <1>3, <2>1, <2>2, <2>3, <2>4, <2>5, <2>6, <2>7, <2>8, <2>9, <2>10 DEF Step
<1>4. ASSUME NEW t \in Threads, Env(t) PROVE [Atomic!Next]_Atomic!vars
    <2>1. CASE Call(t)
        <3>1. Goto(t, "lock") /\ "lock" \in Locations
            BY <2>1 DEF Call
        <3>2. StatusOf' = [StatusOf EXCEPT ![t] = Status("lock")]
            BY <3>1, <1>a DEF StatusOf
        <3>3. ResultOf' = ResultOf
            BY <2>1 DEF Call, ResultOf, Result
        <3>4. Atomic!Call(t)
            BY <2>1, <3>2, <3>3 DEF Call, Atomic!Call, StatusOf, ResultOf, Status
        <3> QED BY <3>4 DEF Atomic!Next
    <2>2. CASE Spurious(t)
        BY <2>2 DEF Spurious, Status, Result
    <2>3. CASE pthread_exit(t)
        <3>1. Goto(t, "gone") /\ "gone" \in Locations
            BY <2>3 DEF pthread_exit
        <3>2. StatusOf' = [StatusOf EXCEPT ![t] = Status("gone")]
            BY <3>1, <1>a DEF StatusOf
        <3>3. ResultOf' = ResultOf
            BY <2>3 DEF pthread_exit, ResultOf, Result
        <3>4. Atomic!Deleted(t)
            BY <2>3, <3>2, <3>3 DEF pthread_exit, Atomic!Deleted, StatusOf, ResultOf, Status
        <3> QED BY <3>4 DEF Atomic!Next
    <2>4. CASE vTaskDelete(t)
        BY <2>4 DEF vTaskDelete, Status, Result
    <2> QED BY <1>4, <2>1, <2>2, <2>3, <2>4 DEF Env
<1>5. CASE UNCHANGED vars
    BY <1>5 DEF vars, Status, Result
<1> QED BY <1>1, <1>2, <1>3, <1>4, <1>5 DEF Next

\* ImplementsAtomic: the mutex, the condition variable and the loop around it are
\* an atomic event group.
THEOREM Refinement == Spec => ImplementsAtomic
<1>1. Init => Atomic!Init
    BY DEF Init, Atomic!Init, Status, Result, Atomic!NoCall, NoCall
<1> QED BY <1>1, StepRefines, Invariant, PTL DEF Spec, ImplementsAtomic, Atomic!Spec
=============================================================================
