----------------------------- MODULE Semaphore -----------------------------
(***************************************************************************)
(* A counting semaphore of the kernel: threads wait with or without a      *)
(* timeout, threads and interrupt handlers release it.                     *)
(***************************************************************************)
EXTENDS Threads

CONSTANTS
    MaxCount,       \* the count's upper limit
    IsrReleases     \* TRUE when interrupt handlers release the semaphore
ASSUME MaxAssumption == MaxCount \in Nat \ {0}
ASSUME IsrAssumption == IsrReleases \in BOOLEAN

VARIABLES
    count,      \* units available
    pc,         \* per thread: "out", "wait" (in switch_thread of semaphore_wait)
                \* or "late" (found itself still queued, interrupts enabled)
    ret         \* what the thread's last semaphore_wait returned

vars == <<threadVars, count, pc, ret>>

TypeOK ==
    /\ ThreadsTypeOK
    /\ count \in 0..MaxCount
    /\ pc \in [Threads -> {"out", "wait", "late"}]
    /\ ret \in [Threads -> {"succeeded", "timedout"}]

Init ==
    /\ ThreadsInit
    /\ count \in 0..MaxCount
    /\ pc = [t \in Threads |-> "out"]
    /\ ret = [t \in Threads |-> "timedout"]

Return(t, r) ==
    /\ pc' = [pc EXCEPT ![t] = "out"]
    /\ ret' = [ret EXCEPT ![t] = r]

\* semaphore_wait, a unit is there.
Take(t) ==
    /\ Runs(t) /\ pc[t] = "out"
    /\ count > 0
    /\ count' = count - 1
    /\ Return(t, "succeeded")
    /\ UNCHANGED threadVars

\* semaphore_wait(s, TIMEOUT_NOBLOCK), there is none.
Poll(t) ==
    /\ Runs(t) /\ pc[t] = "out"
    /\ count = 0
    /\ Return(t, "timedout")
    /\ UNCHANGED <<threadVars, count>>

\* semaphore_wait, up to block_thread: for ever or for some ticks.
Block(t) ==
    /\ Runs(t) /\ pc[t] = "out"
    /\ count = 0
    /\ \E s \in {"blocked", "blocked_w_tmo"} : BlockThread(t, s)
    /\ pc' = [pc EXCEPT ![t] = "wait"]
    /\ UNCHANGED <<count, ret>>

\* Back from switch_thread: was this an explicit wakeup?
Resume(t) ==
    /\ Runs(t) /\ pc[t] = "wait"
    /\ IF Queued(t)
       THEN pc' = [pc EXCEPT ![t] = "late"] /\ UNCHANGED ret
       ELSE Return(t, "succeeded")
    /\ UNCHANGED <<threadVars, count>>

\* Mutant of Late: a wait that expires leaves the thread in the queue.
LateStays(t) ==
    /\ Runs(t) /\ pc[t] = "late"
    /\ Return(t, "timedout")
    /\ UNCHANGED <<threadVars, count>>

\* After disable_irq: the wait has expired.
Late(t) ==
    /\ Runs(t) /\ pc[t] = "late"
    /\ TryRemove(t)
    /\ IF Queued(t) /\ count > 0
       THEN count' = count - 1 /\ Return(t, "succeeded")
       ELSE UNCHANGED count /\ Return(t, "timedout")
    /\ UNCHANGED <<rtr, core, state>>

\* Mutant of Release: the unit is counted although a waiter is woken.
ReleaseCounts ==
    /\ IF wq # <<>> THEN WakeupFirst ELSE UNCHANGED threadVars
    /\ count' = IF count < MaxCount THEN count + 1 ELSE count
    /\ UNCHANGED <<pc, ret>>

\* Mutant of Release: the last waiter is forgotten.
ReleaseLast ==
    /\ IF Len(wq) > 1
       THEN WakeupFirst /\ UNCHANGED count
       ELSE count' = (IF count < MaxCount THEN count + 1 ELSE count) /\ UNCHANGED threadVars
    /\ UNCHANGED <<pc, ret>>

\* semaphore_release
Release ==
    /\ IF wq # <<>>
       THEN WakeupFirst /\ UNCHANGED count
       ELSE count' = (IF count < MaxCount THEN count + 1 ELSE count) /\ UNCHANGED threadVars
    /\ UNCHANGED <<pc, ret>>

ThreadRelease(t) == Runs(t) /\ pc[t] = "out" /\ Release
IsrRelease == IsrReleases /\ Release

\* What a thread does on its own inside semaphore_wait.
Proceed(t) == Resume(t) \/ Late(t)

\* Outside semaphore_wait a thread lets others run now and then.
GiveUpProcessor(t) ==
    /\ pc[t] = "out"
    /\ Yield(t)
    /\ UNCHANGED <<count, pc, ret>>

ThreadNext(t) ==
    \/ Take(t) \/ Poll(t) \/ Block(t) \/ Proceed(t) \/ ThreadRelease(t)
    \/ GiveUpProcessor(t)
    \/ Expire(t) /\ UNCHANGED <<count, pc, ret>>

SwitchThread == (Idle \/ Switch) /\ UNCHANGED <<count, pc, ret>>

Next == (\E t \in Threads : ThreadNext(t)) \/ IsrRelease \/ SwitchThread

Spec == Init /\ [][Next]_vars

\* The processor does not stop in the kernel, and no thread keeps it for ever.
Fairness ==
    /\ WF_vars(SwitchThread)
    /\ \A t \in Threads :
        /\ WF_vars(Proceed(t))
        /\ WF_vars(Block(t) \/ GiveUpProcessor(t))

FairSpec == Spec /\ Fairness
-----------------------------------------------------------------------------
\* While threads are queued there is nothing to take: no wakeup has been lost
\* and nobody overtakes a waiter (the assertion in semaphore_release).
WaitersMeanZero == wq # <<>> => count = 0

\* Threads that a release took off the queue and that have not returned yet.
Handed == {t \in Threads : pc[t] \in {"wait", "late"} /\ ~Queued(t)}

\* Every unit is counted, handed to exactly one thread or in its hands: the
\* detailed semaphore implements the counter of SemaphoreSpec, which loses a
\* unit only when interrupt handlers release (semaphore_wait, semaphore_release).
Counter == INSTANCE SemaphoreSpec
    WITH avail <- count, queue <- wq, owed <- Handed, Lossy <- IsrReleases
Implements == Counter!Spec

\* As long as releases keep coming a waiter is not left behind, whoever else
\* waits, polls or gives up.
Served ==
    []<><<Release>>_vars => \A t \in Threads : (pc[t] = "wait" ~> pc[t] = "out")
=============================================================================
