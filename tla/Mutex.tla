------------------------------- MODULE Mutex -------------------------------
(***************************************************************************)
(* A recursive mutex of the kernel, handed over to the first waiter.  The  *)
(* mutex is used by threads only, and only its owner unlocks it.           *)
(***************************************************************************)
EXTENDS Threads

CONSTANTS
    NoThread,       \* blocker.thread of an open mutex
    MaxDepth        \* bound on the depth of recursion
ASSUME NoThreadAssumption == NoThread \notin Threads
ASSUME DepthAssumption == MaxDepth \in Nat \ {0}

VARIABLES
    owner,      \* blocker.thread
    recursion,  \* locks the owner holds besides the first
    pc,         \* per thread: "out", or "wait" in switch_thread of mutex_lock
    depth       \* per thread: returns from mutex_lock less calls of mutex_unlock

mutexVars == <<owner, recursion, pc, depth>>
vars == <<threadVars, mutexVars>>

TypeOK ==
    /\ ThreadsTypeOK
    /\ owner \in Threads \cup {NoThread}
    /\ recursion \in 0..(MaxDepth - 1)
    /\ pc \in [Threads -> {"out", "wait"}]
    /\ depth \in [Threads -> 0..MaxDepth]

Init ==
    /\ ThreadsInit
    /\ owner = NoThread
    /\ recursion = 0
    /\ pc = [t \in Threads |-> "out"]
    /\ depth = [t \in Threads |-> 0]

\* A thread calls into the mutex.
Calls(t) == Runs(t) /\ pc[t] = "out"

LockAgain(t) ==
    /\ Calls(t)
    /\ owner = t
    /\ depth[t] < MaxDepth
    /\ recursion' = recursion + 1
    /\ depth' = [depth EXCEPT ![t] = @ + 1]
    /\ UNCHANGED <<threadVars, owner, pc>>

LockOpen(t) ==
    /\ Calls(t)
    /\ owner = NoThread
    /\ owner' = t
    /\ depth' = [depth EXCEPT ![t] = @ + 1]
    /\ UNCHANGED <<threadVars, recursion, pc>>

LockBlock(t) ==
    /\ Calls(t)
    /\ owner \notin {t, NoThread}
    /\ BlockThread(t, "blocked")
    /\ pc' = [pc EXCEPT ![t] = "wait"]
    /\ UNCHANGED <<owner, recursion, depth>>

\* mutex_lock returns after switch_thread: it does not look at the mutex again.
Locked(t) ==
    /\ Runs(t) /\ pc[t] = "wait"
    /\ pc' = [pc EXCEPT ![t] = "out"]
    /\ depth' = [depth EXCEPT ![t] = @ + 1]
    /\ UNCHANGED <<threadVars, owner, recursion>>

Leave(t) ==
    /\ Calls(t)
    /\ depth[t] > 0
    /\ depth' = [depth EXCEPT ![t] = @ - 1]
    /\ UNCHANGED pc

UnlockRecursive(t) ==
    /\ Leave(t)
    /\ recursion > 0
    /\ recursion' = recursion - 1
    /\ UNCHANGED <<threadVars, owner>>

\* Mutant of UnlockOpen: waiters are not looked for.
UnlockForgets(t) ==
    /\ Leave(t)
    /\ recursion = 0
    /\ owner' = NoThread
    /\ UNCHANGED <<threadVars, recursion>>

UnlockOpen(t) ==
    /\ Leave(t)
    /\ recursion = 0 /\ wq = <<>>
    /\ owner' = NoThread
    /\ UNCHANGED <<threadVars, recursion>>

\* Mutant of UnlockTransfer: the mutex is handed over whatever the recursion.
UnlockEarly(t) ==
    /\ Leave(t)
    /\ wq # <<>>
    /\ owner' = Head(wq)
    /\ WakeupFirst
    /\ UNCHANGED recursion

\* Mutant of UnlockTransfer: the mutex is opened for the thread that is woken.
UnlockBarge(t) ==
    /\ Leave(t)
    /\ recursion = 0 /\ wq # <<>>
    /\ owner' = NoThread
    /\ WakeupFirst
    /\ UNCHANGED recursion

UnlockTransfer(t) ==
    /\ Leave(t)
    /\ recursion = 0 /\ wq # <<>>
    /\ owner' = Head(wq)
    /\ WakeupFirst
    /\ UNCHANGED recursion

Unlock(t) == UnlockRecursive(t) \/ UnlockOpen(t) \/ UnlockTransfer(t)
Lock(t) == LockAgain(t) \/ LockOpen(t) \/ LockBlock(t)

\* A thread lets others run, holding the mutex or not.
GiveUpProcessor(t) == Calls(t) /\ Yield(t) /\ UNCHANGED mutexVars

SwitchThread == (Idle \/ Switch) /\ UNCHANGED mutexVars

Next ==
    \/ \E t \in Threads : Lock(t) \/ Locked(t) \/ Unlock(t) \/ GiveUpProcessor(t)
    \/ SwitchThread

Spec == Init /\ [][Next]_vars

\* The processor does not stop, no thread keeps it for ever, and one that holds
\* the mutex unlocks it at last.
Fairness ==
    /\ WF_vars(SwitchThread)
    /\ \A t \in Threads :
        /\ WF_vars(Locked(t))
        /\ WF_vars(LockBlock(t) \/ GiveUpProcessor(t))
        /\ SF_vars(UnlockRecursive(t))
        /\ SF_vars(UnlockOpen(t) \/ UnlockTransfer(t))

FairSpec == Spec /\ Fairness
-----------------------------------------------------------------------------
\* At most one thread is between a return from mutex_lock and the matching
\* mutex_unlock, however deep it has locked.
MutualExclusion ==
    \A t, u \in Threads : depth[t] > 0 /\ depth[u] > 0 => t = u

\* Threads wait only for a mutex that somebody owns: an open mutex with waiters
\* would leave them blocked for ever.
WaitersHaveOwner == wq # <<>> => owner # NoThread

\* Waiters are not overtaken: a thread that did not wait gets the mutex only
\* when no other is waiting, one that has been handed it and has not run since
\* included.
NotOvertaken ==
    [][\A u \in Threads : depth[u] = 0 /\ depth'[u] > 0 /\ pc[u] = "out"
        => \A t \in Threads : pc[t] = "out"]_vars

\* A thread that waits gets the mutex, provided owners unlock it.
Entered == \A t \in Threads : pc[t] = "wait" ~> depth[t] > 0
=============================================================================
