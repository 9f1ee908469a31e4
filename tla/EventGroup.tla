----------------------------- MODULE EventGroup -----------------------------
(***************************************************************************)
(* The event groups of the MQTT harness (freertos/event_groups.h) and the  *)
(* deletion of tasks (freertos/task.h), on POSIX threads: a mutex, a       *)
(* condition variable and a word of bits.  The threads are the program's   *)
(* and make any calls, in any order; between two steps of one any other    *)
(* may run.  The word is the set of its one bits.                          *)
(*                                                                         *)
(* pthread_cancel acts on its target at a cancellation point.  Of those    *)
(* this code calls pthread_cond_wait, which takes the mutex before the     *)
(* thread ends and, as no handler is installed, leaves it locked, and      *)
(* pthread_join.  pthread_mutex_lock is none.  MaxChoices bounds what is   *)
(* up to the program or the system: calls, deletions, spurious wake-ups.   *)
(***************************************************************************)
EXTENDS Naturals

CONSTANTS Threads, Bits,
          Calls,      \* the calls the program makes
          NoThread,
          MaxChoices

ASSUME CallsAssumption ==
    Calls \subseteq [op : {"get", "set", "clear", "wait"}, mask : SUBSET Bits,
                     clear : BOOLEAN, all : BOOLEAN]
ASSUME NoThreadAssumption == NoThread \notin Threads
ASSUME MaxChoicesAssumption == MaxChoices \in Nat

VARIABLES live,    \* a group was created and not deleted
          bits, owner,
          pc, call, out,
          target,  \* whom a thread in vTaskDelete waits for
          cancel,  \* the threads pthread_cancel was called on
          used     \* the choices made

group == <<live, bits, owner>>
vars  == <<group, pc, call, out, target, cancel, used>>

Inside    == {"held", "broadcast", "unlock"}  \* holding the mutex
Waiting   == {"blocked", "woken"}             \* in pthread_cond_wait
Locations == {"idle", "lock", "join", "dying", "gone"} \cup Inside \cup Waiting

Satisfied(c, b) == IF c.all THEN c.mask \subseteq b ELSE c.mask \cap b # {}

NoCall    == [op |-> "none", mask |-> {}, clear |-> FALSE, all |-> FALSE]

Goto(t, l) == pc' = [pc EXCEPT ![t] = l]
Choice     == used < MaxChoices /\ used' = used + 1

Init == /\ live = FALSE /\ bits = {} /\ owner = NoThread
        /\ pc = [t \in Threads |-> "idle"] /\ call = [t \in Threads |-> NoCall]
        /\ out = [t \in Threads |-> {}]
        /\ target = [t \in Threads |-> t] /\ cancel = {} /\ used = 0

-----------------------------------------------------------------------------
(* The group's life.  Who deletes it has seen that nobody uses it: anything *)
(* else is undefined.                                                       *)

xEventGroupCreate ==
    /\ ~live /\ Choice
    /\ live' = TRUE /\ bits' = {} /\ owner' = NoThread
    /\ UNCHANGED <<pc, call, out, target, cancel>>

vEventGroupDelete ==
    /\ live /\ Choice /\ \A t \in Threads : pc[t] \in {"idle", "join", "gone"}
    /\ live' = FALSE /\ UNCHANGED <<bits, owner, pc, call, out, target, cancel>>

-----------------------------------------------------------------------------
(* A call: take the mutex, do the work, release the mutex. *)

Call(t) ==
    /\ live /\ pc[t] = "idle" /\ Choice
    /\ Goto(t, "lock") /\ \E c \in Calls : call' = [call EXCEPT ![t] = c]
    /\ UNCHANGED <<group, out, target, cancel>>

\* Also the end of pthread_cond_wait; a cancelled thread ends there.
pthread_mutex_lock(t) ==
    /\ pc[t] \in {"lock", "woken", "dying"} /\ owner = NoThread
    /\ owner' = t /\ Goto(t, IF pc[t] = "dying" THEN "gone" ELSE "held")
    /\ UNCHANGED <<live, bits, call, out, target, cancel, used>>

\* And the return: arguments and result are gone.
pthread_mutex_unlock(t) ==
    /\ pc[t] = "unlock" /\ owner' = NoThread /\ Goto(t, "idle")
    /\ call' = [call EXCEPT ![t] = NoCall] /\ out' = [out EXCEPT ![t] = {}]
    /\ UNCHANGED <<live, bits, target, cancel, used>>

xEventGroupGetBits(t) ==
    /\ pc[t] = "held" /\ call[t].op = "get"
    /\ out' = [out EXCEPT ![t] = bits] /\ Goto(t, "unlock")
    /\ UNCHANGED <<group, call, target, cancel, used>>

xEventGroupSetBits(t) ==
    /\ pc[t] = "held" /\ call[t].op = "set"
    /\ bits' = bits \cup call[t].mask /\ Goto(t, "broadcast")
    /\ UNCHANGED <<live, owner, call, out, target, cancel, used>>

\* Mutant of pthread_cond_broadcast: pthread_cond_signal, which wakes one.
pthread_cond_broadcast_Signal(t) ==
    LET asleep == {u \in Threads : pc[u] = "blocked"}
    IN  /\ pc[t] = "broadcast" /\ out' = [out EXCEPT ![t] = bits]
        /\ \/ asleep = {} /\ Goto(t, "unlock")
           \/ \E u \in asleep : pc' = [pc EXCEPT ![t] = "unlock", ![u] = "woken"]
        /\ UNCHANGED <<group, call, target, cancel, used>>

\* With the reading of what xEventGroupSetBits returns.
pthread_cond_broadcast(t) ==
    /\ pc[t] = "broadcast" /\ out' = [out EXCEPT ![t] = bits]
    /\ pc' = [u \in Threads |-> IF u = t THEN "unlock"
                                ELSE IF pc[u] = "blocked" THEN "woken" ELSE pc[u]]
    /\ UNCHANGED <<group, call, target, cancel, used>>

\* Mutant of xEventGroupClearBits: without the mutex.
xEventGroupClearBits_Unlocked(t) ==
    /\ pc[t] = "lock" /\ call[t].op = "clear"
    /\ bits' = bits \ call[t].mask /\ out' = [out EXCEPT ![t] = bits'] /\ Goto(t, "unlock")
    /\ UNCHANGED <<live, owner, call, target, cancel, used>>

xEventGroupClearBits(t) ==
    /\ pc[t] = "held" /\ call[t].op = "clear"
    /\ bits' = bits \ call[t].mask /\ out' = [out EXCEPT ![t] = bits'] /\ Goto(t, "unlock")
    /\ UNCHANGED <<live, owner, call, target, cancel, used>>

\* Mutant of xEventGroupWaitBits: the bits are read after they were cleared.
xEventGroupWaitBits_ReadLate(t) ==
    /\ pc[t] = "held" /\ call[t].op = "wait" /\ Satisfied(call[t], bits)
    /\ bits' = bits \ (IF call[t].clear THEN call[t].mask ELSE {})
    /\ out' = [out EXCEPT ![t] = bits'] /\ Goto(t, "unlock")
    /\ UNCHANGED <<live, owner, call, target, cancel, used>>

xEventGroupWaitBits(t) ==
    /\ pc[t] = "held" /\ call[t].op = "wait" /\ Satisfied(call[t], bits)
    /\ bits' = bits \ (IF call[t].clear THEN call[t].mask ELSE {})
    /\ out' = [out EXCEPT ![t] = bits] /\ Goto(t, "unlock")
    /\ UNCHANGED <<live, owner, call, target, cancel, used>>

\* The condition of xEventGroupWaitBits does not hold.
pthread_cond_wait(t) ==
    /\ pc[t] = "held" /\ call[t].op = "wait" /\ ~Satisfied(call[t], bits)
    /\ owner' = NoThread /\ Goto(t, "blocked")
    /\ UNCHANGED <<live, bits, call, out, target, cancel, used>>

Spurious(t) == /\ pc[t] = "blocked" /\ Choice /\ Goto(t, "woken")
               /\ UNCHANGED <<group, call, out, target, cancel>>

-----------------------------------------------------------------------------
(* The end of a task. *)

\* vTaskDelete(NULL)
pthread_exit(t) == /\ pc[t] = "idle" /\ Choice /\ Goto(t, "gone")
                   /\ UNCHANGED <<group, call, out, target, cancel>>

\* Mutant of vTaskDelete: join without cancel.
vTaskDelete_JoinOnly(t) ==
    /\ pc[t] = "idle" /\ Choice
    /\ \E u \in Threads \ ({t} \cup cancel) : target' = [target EXCEPT ![t] = u]
    /\ Goto(t, "join") /\ UNCHANGED <<group, call, out, cancel>>

\* Another task's handle; it is freed here, so it serves once.
vTaskDelete(t) ==
    /\ pc[t] = "idle" /\ Choice
    /\ \E u \in Threads \ ({t} \cup cancel) :
           target' = [target EXCEPT ![t] = u] /\ cancel' = cancel \cup {u}
    /\ Goto(t, "join") /\ UNCHANGED <<group, call, out>>

pthread_join(t) == /\ pc[t] = "join" /\ pc[target[t]] = "gone" /\ Goto(t, "idle")
                   /\ target' = [target EXCEPT ![t] = t]
                   /\ UNCHANGED <<group, call, out, cancel, used>>

\* A cancelled thread at a cancellation point, this code's or its own.
Cancelled(t) ==
    /\ t \in cancel
    /\ \/ pc[t] = "blocked" /\ Goto(t, "dying")
       \/ pc[t] \in {"idle", "join"} /\ Goto(t, "gone")
    /\ UNCHANGED <<group, call, out, target, cancel, used>>

-----------------------------------------------------------------------------
\* What a thread does once it was called or cancelled.
Step(t) == \/ pthread_mutex_lock(t) \/ pthread_mutex_unlock(t)
           \/ xEventGroupGetBits(t) \/ xEventGroupSetBits(t) \/ pthread_cond_broadcast(t)
           \/ xEventGroupClearBits(t) \/ xEventGroupWaitBits(t) \/ pthread_cond_wait(t)
           \/ pthread_join(t) \/ Cancelled(t)

Env(t) == Call(t) \/ Spurious(t) \/ pthread_exit(t) \/ vTaskDelete(t)

Next == \/ xEventGroupCreate \/ vEventGroupDelete
        \/ \E t \in Threads : Step(t) \/ Env(t)

\* The scheduler runs every thread that can run.  A mutex need not be fair: the
\* choices are finite, so others cannot take it for ever.
Spec == Init /\ [][Next]_vars /\ \A t \in Threads : WF_vars(Step(t))

-----------------------------------------------------------------------------
(* Properties. *)

TypeOK ==
    /\ live \in BOOLEAN /\ bits \subseteq Bits /\ owner \in Threads \cup {NoThread}
    /\ pc \in [Threads -> Locations] /\ call \in [Threads -> Calls \cup {NoCall}]
    /\ out \in [Threads -> SUBSET Bits] /\ target \in [Threads -> Threads]
    /\ cancel \subseteq Threads /\ used \in 0 .. MaxChoices

\* Who reads or writes the bits holds the mutex; a task deleted with the mutex
\* was in a wait, so deleting one that sets, clears or reads never locks a group.
MutexHeld ==
    /\ \A t \in Threads : pc[t] \in Inside => owner = t
    /\ owner # NoThread => \/ pc[owner] \in Inside
                           \/ pc[owner] = "gone" /\ call[owner].op = "wait"

\* No waiter sleeps on bits that are there, unless the thread that set them is
\* about to wake it: no wake-up is lost between the test and the wait.
NoLostWakeup ==
    \A t \in Threads :
        pc[t] = "blocked" /\ Satisfied(call[t], bits) => \E u \in Threads : pc[u] = "broadcast"

\* Calls take effect at one instant, a wait with its test, what it returns and
\* its clearing; broadcasts, wake-ups and cancellations do not show.
Status(l) == CASE l \in {"idle", "join"} -> "idle"
               [] l \in {"lock", "held", "blocked", "woken"} -> "called"
               [] l \in {"broadcast", "unlock"} -> "done"
               [] OTHER -> "gone"

Result(t) == IF pc[t] = "broadcast" THEN bits ELSE out[t]

Atomic == INSTANCE AtomicEventGroup
              WITH status <- [t \in Threads |-> Status(pc[t])],
                   out <- [t \in Threads |-> Result(t)]

ImplementsAtomic == Atomic!Spec

\* A call or a deletion ends, but for a wait whose bits are not there; otherwise
\* a deleted waiter took the mutex along.
Stuck(t) == /\ pc[t] \notin {"idle", "gone"}
            /\ ~(pc[t] \in Waiting /\ ~Satisfied(call[t], bits))

LockedForEver == owner # NoThread /\ pc[owner] = "gone"

EveryCallEnds == \A t \in Threads : <>[]Stuck(t) => <>[]LockedForEver
=============================================================================
