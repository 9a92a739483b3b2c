--------------------------- MODULE ResourceProofs ---------------------------
(***************************************************************************)
(* Proofs about two things the firmware's threads share.                   *)
(*                                                                         *)
(* Semaphore, for any threads and any limit: its types, that no unit lies  *)
(* idle while threads wait, and that it implements SemaphoreSpec, losing   *)
(* units only if interrupt handlers release it.                            *)
(*                                                                         *)
(* Buflib, for any buffer, sizes and callbacks: the heap is well formed at *)
(* every step, what must not be moved stays, and the round of the shrink   *)
(* callbacks never loses its place.                                        *)
(***************************************************************************)
EXTENDS Semaphore, Buflib, ThreadsProofs, WellFoundedInduction

\* Who is in the wait queue is inside semaphore_wait; and, when no interrupt
\* handler releases the semaphore, a thread that has found itself queued still
\* runs and still is.
InQueue == \A t \in Threads : Queued(t) => pc[t] \in {"wait", "late"}
LateQueued == IsrReleases \/ \A t \in Threads : pc[t] = "late" => Runs(t) /\ Queued(t)
SemaphoreTypeOK ==
    /\ count \in 0..MaxCount
    /\ pc \in [Threads -> {"out", "wait", "late"}]
    /\ ret \in [Threads -> {"succeeded", "timedout"}]
Inv == ThreadsOK /\ SemaphoreTypeOK /\ WaitersMeanZero /\ InQueue /\ LateQueued

\* The initial states satisfy the invariant.
LEMMA InitInv == Init => Inv
<1> SUFFICES ASSUME Init PROVE Inv
    OBVIOUS
<1>1. ThreadsOK /\ Range(wq) = {}
    BY InitKeeps DEF Init
<1>2. wq = <<>>
    BY DEF Init, ThreadsInit
<1> QED
    BY <1>1, <1>2 DEF Init, Inv, SemaphoreTypeOK, WaitersMeanZero, InQueue, LateQueued, Queued

\* Steps inside semaphore_wait and semaphore_release by thread t.
LEMMA TakeInv ==
    ASSUME Inv, NEW t \in Threads, Take(t) \/ Poll(t)
    PROVE  Inv'
<1>1. ThreadsOK' /\ wq' = wq
    BY DEF Inv, Take, Poll, threadVars, core, ThreadsOK, ThreadsTypeOK, WqDistinct
<1>2. pc[t] = "out" /\ pc' = [pc EXCEPT ![t] = "out"] /\ UNCHANGED <<rtr, core>>
    BY DEF Take, Poll, Return, threadVars, core
<1>3. SemaphoreTypeOK'
    BY MaxAssumption DEF Inv, SemaphoreTypeOK, Take, Poll, Return
<1>4. WaitersMeanZero'
    BY <1>1 DEF Inv, WaitersMeanZero, SemaphoreTypeOK, Take, Poll
<1>5. InQueue' /\ LateQueued'
    BY <1>1, <1>2 DEF Inv, InQueue, LateQueued, Queued, SemaphoreTypeOK, Runs, core
<1> QED
    BY <1>1, <1>3, <1>4, <1>5 DEF Inv

LEMMA BlockInv ==
    ASSUME Inv, NEW t \in Threads, Block(t)
    PROVE  Inv'
<1>1. PICK st \in {"blocked", "blocked_w_tmo"} : BlockThread(t, st)
    BY DEF Block
<1>2. /\ Runs(t) /\ pc[t] = "out" /\ count = 0
      /\ pc' = [pc EXCEPT ![t] = "wait"] /\ UNCHANGED <<count, ret>>
    BY DEF Block
<1>3. st \in States /\ ~Queued(t)
    BY <1>2 DEF States, Inv, InQueue
<1>4. ThreadsOK' /\ Range(wq') = Range(wq) \cup {t}
    BY <1>1, <1>2, <1>3, BlockKeeps DEF Inv
<1>5. SemaphoreTypeOK' /\ WaitersMeanZero'
    BY <1>2 DEF Inv, SemaphoreTypeOK, WaitersMeanZero
<1>6. InQueue'
    BY <1>2, <1>4 DEF Inv, InQueue, Queued, SemaphoreTypeOK
<1>7. LateQueued'
    BY <1>2 DEF Inv, LateQueued, SemaphoreTypeOK, Runs, core
<1> QED
    BY <1>4, <1>5, <1>6, <1>7 DEF Inv

LEMMA ResumeInv ==
    ASSUME Inv, NEW t \in Threads, Resume(t)
    PROVE  Inv'
<1>1. ThreadsOK' /\ wq' = wq /\ UNCHANGED <<rtr, core, count>>
    BY DEF Inv, Resume, threadVars, core, ThreadsOK, ThreadsTypeOK, WqDistinct
<1>2. Runs(t) /\ pc[t] = "wait"
    BY DEF Resume
<1>3. CASE Queued(t)
    <2>1. pc' = [pc EXCEPT ![t] = "late"] /\ ret' = ret
        BY <1>3 DEF Resume
    <2>2. SemaphoreTypeOK' /\ WaitersMeanZero'
        BY <1>1, <2>1 DEF Inv, SemaphoreTypeOK, WaitersMeanZero
    <2>3. InQueue' /\ LateQueued'
        BY <1>1, <1>2, <1>3, <2>1 DEF Inv, InQueue, LateQueued, Queued, SemaphoreTypeOK, Runs, core
    <2> QED
        BY <1>1, <2>2, <2>3 DEF Inv
<1>4. CASE ~Queued(t)
    <2>1. pc' = [pc EXCEPT ![t] = "out"] /\ ret' = [ret EXCEPT ![t] = "succeeded"]
        BY <1>4 DEF Resume, Return
    <2>2. SemaphoreTypeOK' /\ WaitersMeanZero'
        BY <1>1, <2>1 DEF Inv, SemaphoreTypeOK, WaitersMeanZero
    <2>3. InQueue' /\ LateQueued'
        BY <1>1, <1>2, <1>4, <2>1 DEF Inv, InQueue, LateQueued, Queued, SemaphoreTypeOK, Runs, core
    <2> QED
        BY <1>1, <2>2, <2>3 DEF Inv
<1> QED
    BY <1>3, <1>4

LEMMA LateInv ==
    ASSUME Inv, NEW t \in Threads, Late(t)
    PROVE  Inv'
<1>1. ThreadsOK' /\ Range(wq') = Range(wq) \ {t}
    BY TryRemoveKeeps DEF Inv, Late
<1>2. pc[t] = "late" /\ pc' = [pc EXCEPT ![t] = "out"] /\ UNCHANGED <<rtr, core>>
    BY DEF Late, Return
<1>3. SemaphoreTypeOK'
    BY MaxAssumption DEF Inv, SemaphoreTypeOK, Late, Return
<1>4. WaitersMeanZero'
    <2>1. CASE wq = <<>>
        BY <2>1 DEF Late, TryRemove, Queued, Range, WaitersMeanZero
    <2>2. CASE wq # <<>>
        BY <2>2 DEF Inv, WaitersMeanZero, Late
    <2> QED
        BY <2>1, <2>2
<1>5. InQueue' /\ LateQueued'
    BY <1>1, <1>2 DEF Inv, InQueue, LateQueued, Queued, SemaphoreTypeOK, Runs, core
<1> QED
    BY <1>1, <1>3, <1>4, <1>5 DEF Inv

\* A release, of a thread outside semaphore_wait or of an interrupt handler.
LEMMA ReleaseInv ==
    ASSUME Inv, Release, IsrReleases \/ \E t \in Threads : Runs(t) /\ pc[t] = "out"
    PROVE  Inv'
<1>1. UNCHANGED <<pc, ret>>
    BY DEF Release
<1>2. LateQueued'
    <2>1. CASE IsrReleases
        BY <2>1 DEF LateQueued
    <2>2. CASE ~IsrReleases
        BY <2>2, <1>1 DEF Inv, LateQueued, Runs, core
    <2> QED
        BY <2>1, <2>2
<1>3. CASE wq # <<>>
    <2>1. WakeupFirst /\ count' = count
        BY <1>3 DEF Release
    <2>2. ThreadsOK' /\ Range(wq') = Range(wq) \ {Head(wq)}
        BY <2>1, WakeupKeeps DEF Inv
    <2>3. SemaphoreTypeOK' /\ WaitersMeanZero' /\ InQueue'
        BY <1>1, <1>3, <2>1, <2>2 DEF Inv, SemaphoreTypeOK, WaitersMeanZero, InQueue, Queued
    <2> QED
        BY <1>2, <2>2, <2>3 DEF Inv
<1>4. CASE wq = <<>>
    <2>1. UNCHANGED threadVars /\ count' \in 0..MaxCount
        BY <1>4, MaxAssumption DEF Release, Inv, SemaphoreTypeOK
    <2>2. ThreadsOK' /\ InQueue' /\ SemaphoreTypeOK' /\ WaitersMeanZero'
        BY <1>1, <1>4, <2>1 DEF threadVars, core, Inv, ThreadsOK, ThreadsTypeOK, WqDistinct, InQueue,
            Queued, SemaphoreTypeOK, WaitersMeanZero
    <2> QED
        BY <1>2, <2>2 DEF Inv
<1> QED
    BY <1>3, <1>4

\* Expiry of a timeout and the thread switch.
LEMMA SwitcherInv ==
    ASSUME Inv, NEW t \in Threads, Expire(t) \/ Idle \/ Switch \/ Yield(t),
           pc[t] = "out" \/ Expire(t) \/ Idle \/ Switch, UNCHANGED <<count, pc, ret>>
    PROVE  Inv'
<1>1. ThreadsOK' /\ wq' = wq
    BY SwitcherKeeps DEF Inv
<1>2. LateQueued'
    BY <1>1 DEF Inv, LateQueued, Queued, Runs, core, Expire, Idle, Switch, Yield
<1> QED
    BY <1>1, <1>2 DEF Inv, SemaphoreTypeOK, WaitersMeanZero, InQueue, Queued

\* Every step keeps the invariant.
LEMMA NextInv == Inv /\ [Next]_vars => Inv'
<1> SUFFICES ASSUME Inv, [Next]_vars PROVE Inv'
    OBVIOUS
<1>1. ASSUME NEW t \in Threads, Take(t) \/ Poll(t) PROVE Inv'
    BY <1>1, TakeInv
<1>2. ASSUME NEW t \in Threads, Block(t) PROVE Inv'
    BY <1>2, BlockInv
<1>3. ASSUME NEW t \in Threads, Proceed(t) PROVE Inv'
    BY <1>3, ResumeInv, LateInv DEF Proceed
<1>4. ASSUME NEW t \in Threads, ThreadRelease(t) PROVE Inv'
    BY <1>4, ReleaseInv DEF ThreadRelease
<1>5. ASSUME NEW t \in Threads, GiveUpProcessor(t) PROVE Inv'
    BY <1>5, SwitcherInv DEF GiveUpProcessor
<1>6. ASSUME NEW t \in Threads, Expire(t), UNCHANGED <<count, pc, ret>> PROVE Inv'
    BY <1>6, SwitcherInv
<1>7. CASE IsrRelease
    BY <1>7, ReleaseInv DEF IsrRelease
<1>8. CASE SwitchThread
    <2>1. PICK t \in Threads : TRUE
        BY ThreadsAssumption
    <2> QED
        BY <1>8, <2>1, SwitcherInv DEF SwitchThread
<1>9. CASE UNCHANGED vars
    BY <1>9 DEF vars, threadVars, core, Inv, ThreadsOK, ThreadsTypeOK, WqDistinct, SemaphoreTypeOK,
        WaitersMeanZero, InQueue, LateQueued, Queued, Runs
<1> QED
    BY <1>1, <1>2, <1>3, <1>4, <1>5, <1>6, <1>7, <1>8, <1>9 DEF Next, ThreadNext

\* The invariant holds throughout.
LEMMA Invariance == Spec => []Inv
    BY InitInv, NextInv, PTL DEF Spec

\* Every variable keeps its type, for any number of threads and any limit, and
\* the count never leaves 0..max (semaphore_init, semaphore_release).
THEOREM TypeCorrect == Spec => []TypeOK
<1>1. Inv => TypeOK
    BY DEF Inv, ThreadsOK, SemaphoreTypeOK, TypeOK
<1> QED
    BY <1>1, Invariance, PTL

\* No unit lies idle while threads wait, interrupt handlers or not (the
\* assertion in semaphore_release).
THEOREM NothingIdle == Spec => []WaitersMeanZero
<1>1. Inv => WaitersMeanZero
    BY DEF Inv
<1> QED
    BY <1>1, Invariance, PTL

\* The abstract state of SemaphoreSpec does not change when neither the queue
\* nor who is inside semaphore_wait does.
LEMMA SameHanded ==
    ASSUME Inv, Range(wq') = Range(wq),
           NEW t \in Threads, pc' = pc \/ (pc[t] = "out" /\ pc' = [pc EXCEPT ![t] = "out"])
                                     \/ (pc[t] = "wait" /\ pc' = [pc EXCEPT ![t] = "late"])
    PROVE  Handed' = Handed
BY DEF Handed, Queued, Inv, SemaphoreTypeOK

\* Each step of a semaphore is a step of the counter.
LEMMA StepImplements ==
    ASSUME Inv, [Next]_vars
    PROVE  [Counter!Next]_(Counter!vars)
<1>1. ASSUME NEW t \in Threads, Take(t) PROVE Counter!Take(t)
    <2>1. wq = <<>> /\ wq' = wq
        BY <1>1 DEF Inv, WaitersMeanZero, SemaphoreTypeOK, Take, threadVars, core
    <2>2. Handed' = Handed
        BY <1>1, <2>1, SameHanded DEF Take, Return
    <2> QED
        BY <1>1, <2>1, <2>2 DEF Take, Return, Counter!Take
<1>2. ASSUME NEW t \in Threads, Poll(t) PROVE Counter!Refuse(t)
    <2>1. wq' = wq
        BY <1>2 DEF Poll, threadVars, core
    <2>2. Handed' = Handed
        BY <1>2, <2>1, SameHanded DEF Poll, Return
    <2> QED
        BY <1>2, <2>1, <2>2 DEF Poll, Return, Counter!Refuse
<1>3. ASSUME NEW t \in Threads, Block(t) PROVE Counter!Enqueue(t)
    <2>1. PICK st \in {"blocked", "blocked_w_tmo"} : BlockThread(t, st)
        BY <1>3 DEF Block
    <2>2. wq' = Append(wq, t) /\ pc[t] = "out" /\ pc' = [pc EXCEPT ![t] = "wait"]
        BY <1>3, <2>1 DEF Block, BlockThread
    <2>3. t \notin Range(wq) /\ t \notin Handed
        BY <2>2 DEF Inv, InQueue, Queued, Handed
    <2>4. Range(wq') = Range(wq) \cup {t}
        BY <2>2, AppendFacts DEF Inv, ThreadsOK, ThreadsTypeOK
    <2>5. Handed' = Handed
        BY <2>2, <2>3, <2>4 DEF Handed, Queued, Inv, SemaphoreTypeOK
    <2> QED
        BY <1>3, <2>2, <2>3, <2>5 DEF Block, Range, Counter!Enqueue, Counter!Range
<1>4. ASSUME NEW t \in Threads, Resume(t) PROVE Counter!Next \/ UNCHANGED Counter!vars
    <2>1. wq' = wq /\ UNCHANGED count /\ pc[t] = "wait"
        BY <1>4 DEF Resume, threadVars, core
    <2>2. CASE Queued(t)
        <3>1. pc' = [pc EXCEPT ![t] = "late"] /\ ret' = ret
            BY <1>4, <2>2 DEF Resume
        <3>2. Handed' = Handed
            BY <2>1, <3>1, SameHanded
        <3> QED
            BY <2>1, <3>1, <3>2 DEF Counter!vars
    <2>3. CASE ~Queued(t)
        <3>1. pc' = [pc EXCEPT ![t] = "out"] /\ ret' = [ret EXCEPT ![t] = "succeeded"]
            BY <1>4, <2>3 DEF Resume, Return
        <3>2. t \in Handed /\ Handed' = Handed \ {t}
            BY <2>1, <2>3, <3>1 DEF Handed, Queued, Inv, SemaphoreTypeOK
        <3>3. Counter!Collect(t)
            BY <2>1, <3>1, <3>2 DEF Counter!Collect
        <3> QED
            BY <3>3 DEF Counter!Next
    <2> QED
        BY <2>2, <2>3
<1>5. ASSUME NEW t \in Threads, Late(t) PROVE Counter!GiveUp(t) \/ Counter!Lose(t)
    <2>1. pc[t] = "late"
        BY <1>5 DEF Late
    <2>2. CASE Queued(t)
        <3>1. wq # <<>> /\ count = 0
            BY <2>2 DEF Queued, Range, Inv, WaitersMeanZero
        <3>2. pc' = [pc EXCEPT ![t] = "out"] /\ ret' = [ret EXCEPT ![t] = "timedout"] /\ count' = count
            BY <1>5, <3>1 DEF Late, Return
        <3>3. PICK i \in DOMAIN wq : wq[i] = t /\ wq' = RemoveAt(wq, i)
            BY <1>5, <2>2 DEF Late, TryRemove
        <3>4. Range(wq') = Range(wq) \ {t}
            BY <1>5, TryRemoveKeeps DEF Inv, Late
        <3>5. Handed' = Handed
            BY <2>1, <2>2, <3>2, <3>4 DEF Handed, Queued, Inv, SemaphoreTypeOK
        <3> QED
            BY <3>2, <3>3, <3>5 DEF RemoveAt, Counter!GiveUp, Counter!RemoveAt
    <2>3. CASE ~Queued(t)
        <3>1. IsrReleases
            BY <2>1, <2>3 DEF Inv, LateQueued
        <3>2. pc' = [pc EXCEPT ![t] = "out"] /\ ret' = [ret EXCEPT ![t] = "timedout"] /\ count' = count
            BY <1>5, <2>3 DEF Late, Return
        <3>3. wq' = wq
            BY <1>5, <2>3 DEF Late, TryRemove
        <3>4. t \in Handed /\ Handed' = Handed \ {t}
            BY <2>1, <2>3, <3>2, <3>3 DEF Handed, Queued, Inv, SemaphoreTypeOK
        <3> QED
            BY <3>1, <3>2, <3>3, <3>4 DEF Counter!Lose
    <2> QED
        BY <2>2, <2>3
<1>6. ASSUME Release PROVE Counter!Release \/ UNCHANGED Counter!vars
    <2>1. UNCHANGED <<pc, ret>>
        BY <1>6 DEF Release
    <2>2. CASE wq # <<>>
        <3>1. WakeupFirst /\ count' = count
            BY <1>6, <2>2 DEF Release
        <3>2. Head(wq) \in Threads /\ Queued(Head(wq)) /\ Range(wq') = Range(wq) \ {Head(wq)}
            BY <3>1, WakeupKeeps DEF Inv
        <3>3. Handed' = Handed \cup {Head(wq)}
            BY <2>1, <3>2 DEF Handed, Queued, Inv, InQueue, SemaphoreTypeOK
        <3> QED
            BY <2>1, <2>2, <3>1, <3>3 DEF Counter!Release, WakeupFirst
    <2>3. CASE wq = <<>>
        <3>1. wq' = wq /\ count' = IF count < MaxCount THEN count + 1 ELSE count
            BY <1>6, <2>3 DEF Release, threadVars, core
        <3>2. Handed' = Handed
            BY <2>1, <3>1 DEF Handed, Queued
        <3> QED
            BY <2>1, <2>3, <3>1, <3>2 DEF Counter!Release, Counter!vars
    <2> QED
        BY <2>2, <2>3
<1>7. ASSUME NEW t \in Threads, Expire(t) \/ Idle \/ Switch \/ Yield(t), UNCHANGED <<count, pc, ret>>
      PROVE  UNCHANGED Counter!vars
    <2>1. wq' = wq
        BY <1>7, SwitcherKeeps DEF Inv
    <2> QED
        BY <1>7, <2>1 DEF Counter!vars, Handed, Queued
<1>8. CASE SwitchThread
    <2>1. PICK t \in Threads : TRUE
        BY ThreadsAssumption
    <2> QED
        BY <1>8, <2>1, <1>7 DEF SwitchThread
<1>9. CASE UNCHANGED vars
    BY <1>9 DEF vars, threadVars, core, Counter!vars, Handed, Queued
<1> QED
    BY <1>1, <1>2, <1>3, <1>4, <1>5, <1>6, <1>7, <1>8, <1>9
    DEF Next, ThreadNext, Proceed, ThreadRelease, GiveUpProcessor, IsrRelease, Counter!Next

\* A semaphore implements the counter of SemaphoreSpec, for any threads and any
\* limit: one that only threads release keeps every unit, another loses none but
\* those handed to threads whose wait has expired (semaphore_wait,
\* semaphore_release).
THEOREM ImplementsCounter == Spec => Implements
<1>1. Init => Counter!Init
    <2> SUFFICES ASSUME Init PROVE Counter!Init
        OBVIOUS
    <2>1. Handed = {}
        BY DEF Init, Handed
    <2> QED
        BY <2>1 DEF Init, ThreadsInit, Counter!Init
<1>2. Inv /\ [Next]_vars => [Counter!Next]_(Counter!vars)
    BY StepImplements
<1> QED
    BY <1>1, <1>2, Invariance, PTL DEF Spec, Implements, Counter!Spec
-----------------------------------------------------------------------------
(***************************************************************************)
(* Natural numbers: the least member of a set; recursion over 0..n.        *)
(***************************************************************************)
Below == {ss \in Nat \X Nat : ss[1] < ss[2]}

\* y < x as a pair of the relation.
LEMMA BelowPairs ==
    ASSUME NEW x \in Nat, NEW y \in Nat, y < x
    PROVE  <<y, x>> \in Below
<1> DEFINE z == <<y, x>>
<1>1. z \in Nat \X Nat /\ z[1] = y /\ z[2] = x
    OBVIOUS
<1>2. z \in Below
    <2> HIDE DEF z
    <2> QED
        BY <1>1 DEF Below
<1> QED
    BY <1>2

\* A set of naturals that is not empty has a least member: the induction used here.
LEMMA LeastNumber ==
    ASSUME NEW T, T \subseteq Nat, T # {}
    PROVE  \E x \in T : \A y \in T : x <= y
<1>1. IsWellFoundedOn(Below, Nat)
    BY NatLessThanWellFounded DEF OpToRel, Below
<1>2. PICK x \in T : \A y \in T : ~ (<<y, x>> \in Below)
    BY <1>1, WFMin, Zenon
<1>3. \A y \in T : ~(y < x)
    BY <1>2, BelowPairs
<1> QED
    BY <1>3

Follows(f, n, a, G) == f[0] = a /\ \A i \in 1..n : f[i] = G[i - 1][f[i - 1]]

\* A function defined step by step exists, by the least number at which it would not.
LEMMA Recursion ==
    ASSUME NEW S, NEW n \in Nat, NEW a \in S, NEW G \in [0..n -> [S -> S]]
    PROVE  \E f \in [0..n -> S] : Follows(f, n, a, G)
<1> USE DEF Follows
<1> DEFINE Upto(k) == \E f \in [0..k -> S] : f[0] = a /\ \A i \in 1..k : f[i] = G[i - 1][f[i - 1]]
           T == {k \in 0..n : ~Upto(k)}
<1>1. SUFFICES ASSUME T # {} PROVE FALSE
    OBVIOUS
<1>2. PICK k \in T : \A y \in T : k <= y
    <2>1. T \subseteq Nat
        OBVIOUS
    <2> HIDE DEF T
    <2> QED
        BY <1>1, <2>1, LeastNumber
<1>3. k \in 0..n /\ ~Upto(k)
    OBVIOUS
<1>4. CASE k = 0
    <2> DEFINE f == [i \in 0..0 |-> a]
    <2>1. f \in [0..0 -> S] /\ f[0] = a /\ \A i \in 1..0 : f[i] = G[i - 1][f[i - 1]]
        OBVIOUS
    <2> QED
        BY <1>3, <1>4, <2>1
<1>5. CASE k # 0
    <2>1. k - 1 \in 0..n /\ ~(k <= k - 1)
        BY <1>3, <1>5
    <2>2. Upto(k - 1)
        BY <1>2, <2>1
    <2>3. PICK f \in [0..(k - 1) -> S] :
              f[0] = a /\ \A i \in 1..(k - 1) : f[i] = G[i - 1][f[i - 1]]
        BY <2>2
    <2> DEFINE g == [i \in 0..k |-> IF i = k THEN G[k - 1][f[k - 1]] ELSE f[i]]
    <2>4. k - 1 \in 0..(k - 1) /\ f[k - 1] \in S /\ G[k - 1][f[k - 1]] \in S
        BY <2>1, <2>3, <1>3
    <2>5. g \in [0..k -> S] /\ g[k] = G[k - 1][f[k - 1]]
          /\ \A i \in 0..(k - 1) : g[i] = f[i]
        BY <2>3, <2>4, <1>3
    <2> HIDE DEF g
    <2>6. g[0] = a
        BY <2>3, <2>4, <2>5, <1>3
    <2>7. \A i \in 1..k : g[i] = G[i - 1][g[i - 1]]
        <3> TAKE i \in 1..k
        <3>1. i - 1 \in 0..(k - 1) /\ g[i - 1] = f[i - 1]
            BY <2>5, <1>3
        <3>2. CASE i = k
            BY <2>5, <3>1, <3>2
        <3>3. CASE i # k
            <4>1. i \in 1..(k - 1) /\ i \in 0..(k - 1)
                BY <3>3, <1>3
            <4> QED
                BY <2>3, <2>5, <3>1, <4>1
        <3> QED
            BY <3>2, <3>3
    <2> QED
        BY <2>5, <2>6, <2>7, <1>3
<1> QED
    BY <1>4, <1>5

\* What every step keeps holds of its last value.
LEMMA RecursionStays ==
    ASSUME NEW S, NEW n \in Nat, NEW f, f[0] \in S,
           \A i \in 1..n : f[i - 1] \in S => f[i] \in S
    PROVE  \A i \in 0..n : f[i] \in S
<1> DEFINE T == {k \in 0..n : f[k] \notin S}
<1>1. SUFFICES ASSUME T # {} PROVE FALSE
    OBVIOUS
<1>2. PICK k \in T : \A y \in T : k <= y
    <2>1. T \subseteq Nat
        OBVIOUS
    <2> HIDE DEF T
    <2> QED
        BY <1>1, <2>1, LeastNumber
<1>3. k \in 1..n /\ k - 1 \in 0..n /\ ~(k <= k - 1)
    BY <1>2
<1> QED
    BY <1>2, <1>3

\* The least and the greatest of a set of naturals.
LEMMA LeastIs ==
    ASSUME NEW S, S \subseteq Nat, S # {}
    PROVE  Least(S) \in S /\ \A y \in S : Least(S) <= y
BY LeastNumber DEF Least

LEMMA GreatestIs ==
    ASSUME NEW S, NEW n \in Nat, S \subseteq 0..n, S # {}
    PROVE  Greatest(S) \in S /\ \A y \in S : y <= Greatest(S)
<1> DEFINE T == {k \in 0..n : n - k \in S}
<1>1. T \subseteq Nat /\ T # {}
    <2>1. PICK y \in S : TRUE
        OBVIOUS
    <2>2. y \in 0..n
        OBVIOUS
    <2>3. n - y \in 0..n /\ n - (n - y) = y
        BY <2>2
    <2>4. n - y \in T
        BY <2>3
    <2>5. T \subseteq Nat
        OBVIOUS
    <2> HIDE DEF T
    <2> QED
        BY <2>4, <2>5
<1>2. PICK k \in T : \A j \in T : k <= j
    <2> HIDE DEF T
    <2> QED
        BY <1>1, LeastNumber
<1>3. n - k \in S /\ k \in 0..n
    OBVIOUS
<1>4. \A y \in S : y <= n - k
    <2> TAKE y \in S
    <2>1. y \in 0..n
        OBVIOUS
    <2>2. n - y \in 0..n /\ n - (n - y) = y
        BY <2>1
    <2>3. k <= n - y
        BY <1>2, <2>2
    <2> QED
        BY <2>1, <2>3, <1>3
<1>5. \E x \in S : \A y \in S : y <= x
    BY <1>3, <1>4
<1> QED
    BY <1>5 DEF Greatest

\* The same, of any set of two numbers.
LEMMA GreatestOfTwo ==
    ASSUME NEW x \in Int, NEW y \in Int
    PROVE  Greatest({x, y}) = IF x <= y THEN y ELSE x
BY DEF Greatest

(***************************************************************************)
(* Words and blocks.                                                       *)
(***************************************************************************)
Memory == [Addrs -> Word]

LEMMA Words ==
    ASSUME NEW m \in Memory, NEW a \in Addrs
    PROVE  /\ m[a].val \in Int /\ m[a].val <= Size /\ -Size <= m[a].val
           /\ m[a].of \in {0} \cup Handles /\ m[a].ops \in Ops \cup {None}
           /\ Length(m[a]) \in Nat
           /\ Length(m[a]) = IF m[a].val < 0 THEN -m[a].val ELSE m[a].val
<1>1. m[a] \in Word
    BY DEF Memory
<1>2. m[a].val \in -Size..Size /\ m[a].of \in {0} \cup Handles /\ m[a].ops \in Ops \cup {None}
    BY <1>1 DEF Word
<1> QED
    BY <1>2, SizesAssumption DEF Length

\* The words from a on that are one block, and the others.
LEMMA FreeWords ==
    ASSUME NEW m \in Memory, NEW a \in Nat, NEW len \in Nat, a + len <= Size
    PROVE  /\ SetFree(m, a, len) \in Memory
           /\ \A b \in Addrs : ~(a <= b /\ b < a + len) => SetFree(m, a, len)[b] = m[b]
           /\ len > 0 => a \in Addrs /\ SetFree(m, a, len)[a].val = -len
<1> DEFINE r == SetFree(m, a, len)
<1>0. [Junk EXCEPT !.val = -len] \in Word /\ Junk \in Word /\ [Junk EXCEPT !.val = -len].val = -len
    BY SizesAssumption DEF Word, Junk
<1>1. r = [b \in Addrs |-> IF b = a /\ len > 0 THEN [Junk EXCEPT !.val = -len]
                           ELSE IF b \in (a + 1)..(a + len - 1) THEN Junk ELSE m[b]]
    BY DEF SetFree, Filled
<1>2. r \in Memory
    BY <1>0, <1>1 DEF Memory
<1>3. ASSUME NEW b \in Addrs, ~(a <= b /\ b < a + len) PROVE r[b] = m[b]
    <2>1. ~(b = a /\ len > 0) /\ b \notin (a + 1)..(a + len - 1)
        BY <1>3 DEF Addrs
    <2> QED
        BY <1>1, <2>1
<1>4. len > 0 => a \in Addrs
    BY SizesAssumption DEF Addrs
<1>5. len > 0 => r[a].val = -len
    BY <1>0, <1>1, <1>4
<1> HIDE DEF r
<1> QED
    BY <1>2, <1>3, <1>4, <1>5 DEF r

\* The words of a block in use are its own.
Own(m, a) == \A b \in (a + 1)..(a + m[a].val - 1) : m[b] = [Junk EXCEPT !.of = m[a].of]

LEMMA UsedWords ==
    ASSUME NEW m \in Memory, NEW a \in Nat, NEW len \in Nat \ {0}, a + len <= Size,
           NEW h \in Handles, NEW ops \in Ops \cup {None}
    PROVE  /\ SetUsed(m, a, len, h, ops) \in Memory
           /\ \A b \in Addrs : ~(a <= b /\ b < a + len) => SetUsed(m, a, len, h, ops)[b] = m[b]
           /\ a \in Addrs
           /\ SetUsed(m, a, len, h, ops)[a] = [val |-> len, of |-> h, ops |-> ops]
           /\ Own(SetUsed(m, a, len, h, ops), a)
<1> DEFINE r == SetUsed(m, a, len, h, ops)
           first == [val |-> len, of |-> h, ops |-> ops]
           rest == [Junk EXCEPT !.of = h]
<1>0. first \in Word /\ rest \in Word /\ first.val = len /\ first.of = h
    BY SizesAssumption DEF Word, Junk
<1>1. r = [b \in Addrs |-> IF b = a /\ len > 0 THEN first
                           ELSE IF b \in (a + 1)..(a + len - 1) THEN rest ELSE m[b]]
    BY DEF SetUsed, Filled
<1>2. r \in Memory
    BY <1>0, <1>1 DEF Memory
<1>3. ASSUME NEW b \in Addrs, ~(a <= b /\ b < a + len) PROVE r[b] = m[b]
    <2>1. ~(b = a /\ len > 0) /\ b \notin (a + 1)..(a + len - 1)
        BY <1>3 DEF Addrs
    <2> QED
        BY <1>1, <2>1
<1>4. a \in Addrs
    BY SizesAssumption DEF Addrs
<1>5. r[a] = first
    BY <1>1, <1>4
<1>6. ASSUME NEW b \in (a + 1)..(a + len - 1) PROVE r[b] = rest
    <2>1. b \in Addrs /\ b # a
        BY <1>6, SizesAssumption DEF Addrs
    <2> QED
        BY <1>1, <2>1
<1> HIDE DEF r, first
<1>7. Own(r, a)
    BY <1>0, <1>5, <1>6 DEF Own
<1> QED
    BY <1>2, <1>3, <1>4, <1>5, <1>7 DEF r, first

LEMMA ErasedWords ==
    ASSUME NEW m \in Memory, NEW a \in Nat, NEW len \in Nat
    PROVE  /\ Erased(m, a, len) \in Memory
           /\ \A b \in Addrs : ~(a <= b /\ b < a + len) => Erased(m, a, len)[b] = m[b]
<1> DEFINE r == Erased(m, a, len)
<1>0. Junk \in Word
    BY SizesAssumption DEF Word, Junk
<1>1. r = [b \in Addrs |-> IF b = a /\ len > 0 THEN Junk
                           ELSE IF b \in (a + 1)..(a + len - 1) THEN Junk ELSE m[b]]
    BY DEF Erased, Filled
<1>2. r \in Memory
    BY <1>0, <1>1 DEF Memory
<1>3. ASSUME NEW b \in Addrs, ~(a <= b /\ b < a + len) PROVE r[b] = m[b]
    <2>1. ~(b = a /\ len > 0) /\ b \notin (a + 1)..(a + len - 1)
        BY <1>3 DEF Addrs
    <2> QED
        BY <1>1, <2>1
<1> QED
    BY <1>2, <1>3

\* A block that moves towards the start takes all its words with it.
LEMMA CopiedWords ==
    ASSUME NEW m \in Memory, NEW from \in Nat, NEW len \in Nat \ {0}, NEW to \in Nat,
           to < from, from + len <= Size, m[from].val = len, Own(m, from)
    PROVE  /\ Copied(m, from, len, to) \in Memory
           /\ \A b \in Addrs : ~(to <= b /\ b < to + len) /\ ~(from <= b /\ b < from + len)
                    => Copied(m, from, len, to)[b] = m[b]
           /\ Copied(m, from, len, to)[to] = m[from]
           /\ Own(Copied(m, from, len, to), to)
<1> DEFINE r == Copied(m, from, len, to)
<1>0. Junk \in Word
    BY SizesAssumption DEF Word, Junk
<1>1. r = [b \in Addrs |-> IF b \in to..(to + len - 1) THEN m[b - to + from]
                           ELSE IF b \in from..(from + len - 1) THEN Junk ELSE m[b]]
    BY DEF Copied
<1>2. \A b \in to..(to + len - 1) : b \in Addrs /\ b - to + from \in Addrs
    BY SizesAssumption DEF Addrs
<1>3. r \in Memory
    BY <1>0, <1>1, <1>2 DEF Memory
<1>4. ASSUME NEW b \in Addrs, ~(to <= b /\ b < to + len), ~(from <= b /\ b < from + len)
      PROVE  r[b] = m[b]
    <2>1. b \notin to..(to + len - 1) /\ b \notin from..(from + len - 1)
        BY <1>4 DEF Addrs
    <2> QED
        BY <1>1, <2>1
<1>5. r[to] = m[from]
    <2>1. to \in to..(to + len - 1) /\ to - to + from = from
        OBVIOUS
    <2> QED
        BY <1>1, <1>2, <2>1
<1>6. ASSUME NEW b \in (to + 1)..(to + len - 1) PROVE r[b] = [Junk EXCEPT !.of = m[from].of]
    <2>1. b \in to..(to + len - 1) /\ b - to + from \in (from + 1)..(from + len - 1)
        BY <1>6
    <2>2. r[b] = m[b - to + from]
        BY <1>1, <1>2, <2>1
    <2> QED
        BY <2>1, <2>2 DEF Own
<1> HIDE DEF r
<1>7. Own(r, to)
    BY <1>5, <1>6 DEF Own
<1> QED
    BY <1>3, <1>4, <1>5, <1>7 DEF r

(***************************************************************************)
(* Segments of the buffer: the blocks that start at the places S tile the  *)
(* words from lo to hi, those in use know their handles and it knows them, *)
(* and no two free ones are side by side.                                  *)
(***************************************************************************)
Tiles(m, lo, hi, S) ==
    /\ S \subseteq lo..hi /\ lo \in S /\ hi \in S
    /\ \A a \in S : a < hi => Length(m[a]) > 0 /\ a + Length(m[a]) \in S
    /\ \A a, c \in S : a < c => a + Length(m[a]) <= c
    /\ \A c \in S : lo < c => \E a \in S : a < c /\ a + Length(m[a]) = c
Owned(m, al, hi, S) ==
    \A a \in S : a < hi /\ m[a].val > 0 =>
        m[a].of \in Handles /\ al[m[a].of] = a + 1 /\ Own(m, a)
Merged(m, hi, S) ==
    \A a \in S : a < hi /\ m[a].val < 0 /\ a + Length(m[a]) < hi => m[a + Length(m[a])].val > 0
Segment(m, al, lo, hi, S) == Tiles(m, lo, hi, S) /\ Owned(m, al, hi, S) /\ Merged(m, hi, S)
\* Its last block is free.
FreeEnd(m, hi, S) == \E a \in S : a < hi /\ m[a].val < 0 /\ a + Length(m[a]) = hi
Within(lo, hi) == lo \in Nat /\ hi \in Nat /\ lo <= hi /\ hi <= Size

\* The places of a segment are addresses, but for its end.
LEMMA Places ==
    ASSUME NEW m \in Memory, NEW lo, NEW hi, Within(lo, hi), NEW S, Tiles(m, lo, hi, S)
    PROVE  \A a \in S : /\ a \in Nat /\ lo <= a /\ a <= hi
                        /\ a < hi => /\ a \in Addrs /\ m[a].val \in Int /\ Length(m[a]) \in Nat \ {0}
                                     /\ Length(m[a]) = IF m[a].val < 0 THEN -m[a].val ELSE m[a].val
                                     /\ m[a].val # 0 /\ a + Length(m[a]) <= hi
<1> TAKE a \in S
<1>1. a \in lo..hi
    BY DEF Tiles
<1>2. a \in Nat /\ lo <= a /\ a <= hi
    BY <1>1 DEF Within
<1>3. ASSUME a < hi
      PROVE  /\ a \in Addrs /\ m[a].val \in Int /\ Length(m[a]) \in Nat \ {0}
             /\ Length(m[a]) = IF m[a].val < 0 THEN -m[a].val ELSE m[a].val
             /\ m[a].val # 0 /\ a + Length(m[a]) <= hi
    <2>1. a \in Addrs
        BY <1>2, <1>3, SizesAssumption DEF Within, Addrs
    <2>2. Length(m[a]) > 0 /\ a + Length(m[a]) <= hi
        BY <1>2, <1>3 DEF Tiles
    <2> QED
        BY <2>1, <2>2, Words
<1> QED
    BY <1>2, <1>3

LEMMA SegmentEmpty ==
    ASSUME NEW m, NEW al, NEW x \in Nat
    PROVE  Segment(m, al, x, x, {x}) /\ ~FreeEnd(m, x, {x})
BY DEF Segment, Tiles, Owned, Merged, FreeEnd

LEMMA SegmentFree ==
    ASSUME NEW m \in Memory, NEW al, NEW x \in Addrs, NEW len \in Nat \ {0}, m[x].val = -len
    PROVE  Segment(m, al, x, x + len, {x, x + len})
<1>1. x \in Nat /\ Length(m[x]) = len
    BY SizesAssumption DEF Addrs, Length
<1>2. Tiles(m, x, x + len, {x, x + len})
    BY <1>1 DEF Tiles
<1>3. Owned(m, al, x + len, {x, x + len}) /\ Merged(m, x + len, {x, x + len})
    BY <1>1 DEF Owned, Merged
<1> QED
    BY <1>2, <1>3 DEF Segment

LEMMA SegmentUsed ==
    ASSUME NEW m \in Memory, NEW al, NEW x \in Addrs, NEW len \in Nat \ {0}, m[x].val = len,
           m[x].of \in Handles, al[m[x].of] = x + 1, Own(m, x)
    PROVE  Segment(m, al, x, x + len, {x, x + len}) /\ ~FreeEnd(m, x + len, {x, x + len})
<1>1. x \in Nat /\ Length(m[x]) = len
    BY SizesAssumption DEF Addrs, Length
<1>2. Tiles(m, x, x + len, {x, x + len})
    BY <1>1 DEF Tiles
<1>3. Owned(m, al, x + len, {x, x + len}) /\ Merged(m, x + len, {x, x + len})
    BY <1>1 DEF Owned, Merged
<1> QED
    BY <1>1, <1>2, <1>3 DEF Segment, FreeEnd

\* Of a segment, what lies in front of one of its places and what lies behind.
LEMMA SegmentSplit ==
    ASSUME NEW m \in Memory, NEW al, NEW lo, NEW hi, Within(lo, hi), NEW S,
           Segment(m, al, lo, hi, S), NEW x \in S
    PROVE  /\ Within(lo, x) /\ Within(x, hi)
           /\ Segment(m, al, lo, x, S \cap (lo..x)) /\ Segment(m, al, x, hi, S \cap (x..hi))
           /\ x < hi /\ m[x].val < 0 => ~FreeEnd(m, x, S \cap (lo..x))
           /\ FreeEnd(m, hi, S \cap (x..hi)) => FreeEnd(m, hi, S)
<1>1. \A a \in S : /\ a \in Nat /\ lo <= a /\ a <= hi
                   /\ a < hi => /\ a \in Addrs /\ m[a].val \in Int /\ Length(m[a]) \in Nat \ {0}
                                /\ Length(m[a]) = IF m[a].val < 0 THEN -m[a].val ELSE m[a].val
                                /\ m[a].val # 0 /\ a + Length(m[a]) <= hi
    BY Places DEF Segment
<1>0. \A a \in S : a \in Nat /\ lo <= a /\ a <= hi
    BY <1>1
<1>2. x \in Nat /\ lo \in Nat /\ hi \in Nat /\ lo <= x /\ x <= hi /\ Within(lo, x) /\ Within(x, hi)
    <2>1. lo \in Nat /\ hi \in Nat /\ hi <= Size /\ Size \in Nat
        BY SizesAssumption DEF Within
    <2>2. x \in Nat /\ lo <= x /\ x <= hi
        BY <1>0
    <2> QED
        BY <2>1, <2>2 DEF Within
<1> DEFINE A == S \cap (lo..x)
           B == S \cap (x..hi)
<1>3. (\A a \in A : a \in S /\ a <= x) /\ (\A a \in S : a <= x => a \in A)
    BY <1>0, <1>2
<1>4. (\A a \in B : a \in S /\ x <= a) /\ (\A a \in S : x <= a => a \in B)
    BY <1>0, <1>2
<1>5. A \subseteq lo..x /\ B \subseteq x..hi
    OBVIOUS
<1> HIDE DEF A, B
<1>6. Tiles(m, lo, x, A)
    <2>1. lo \in A /\ x \in A
        BY <1>2, <1>3 DEF Segment, Tiles
    <2>2. ASSUME NEW a \in A, a < x PROVE Length(m[a]) > 0 /\ a + Length(m[a]) \in A
        <3>0. a \in S /\ a \in Nat
            BY <1>0, <1>3
        <3>1. a < hi
            BY <2>2, <3>0, <1>2
        <3>2. Length(m[a]) > 0 /\ a + Length(m[a]) \in S /\ a + Length(m[a]) <= x
            BY <2>2, <3>0, <3>1 DEF Segment, Tiles
        <3> QED
            BY <3>2, <1>3
    <2>3. \A a, c \in A : a < c => a + Length(m[a]) <= c
        BY <1>3 DEF Segment, Tiles
    <2>4. ASSUME NEW c \in A, lo < c PROVE \E a \in A : a < c /\ a + Length(m[a]) = c
        <3>1. PICK a \in S : a < c /\ a + Length(m[a]) = c
            BY <2>4, <1>3 DEF Segment, Tiles
        <3>2. a \in Nat /\ c \in Nat /\ c <= x
            BY <1>0, <1>3
        <3>3. a <= x
            BY <3>1, <3>2, <1>2
        <3> QED
            BY <3>1, <3>3, <1>3
    <2> QED
        BY <1>5, <2>1, <2>2, <2>3, <2>4 DEF Tiles
<1>7. Tiles(m, x, hi, B)
    <2>1. hi \in B /\ x \in B
        BY <1>2, <1>4 DEF Segment, Tiles
    <2>2. ASSUME NEW a \in B, a < hi PROVE Length(m[a]) > 0 /\ a + Length(m[a]) \in B
        <3>1. Length(m[a]) > 0 /\ a + Length(m[a]) \in S /\ x <= a
            BY <2>2, <1>4 DEF Segment, Tiles
        <3>2. a \in Nat /\ Length(m[a]) \in Nat
            BY <2>2, <1>1, <1>4
        <3>3. x <= a + Length(m[a])
            BY <3>1, <3>2, <1>2
        <3> QED
            BY <3>1, <3>3, <1>4
    <2>3. \A a, c \in B : a < c => a + Length(m[a]) <= c
        BY <1>4 DEF Segment, Tiles
    <2>4. ASSUME NEW c \in B, x < c PROVE \E a \in B : a < c /\ a + Length(m[a]) = c
        <3>0. c \in S /\ c \in Nat
            BY <1>0, <1>4
        <3>5. lo < c
            BY <2>4, <3>0, <1>2
        <3>1. PICK a \in S : a < c /\ a + Length(m[a]) = c
            BY <3>0, <3>5 DEF Segment, Tiles
        <3>2. a \in Nat
            BY <1>0
        <3>3. CASE a < x
            <4>1. a + Length(m[a]) <= x
                BY <3>3 DEF Segment, Tiles
            <4> QED
                BY <4>1, <3>0, <3>1, <2>4, <1>2
        <3>4. CASE ~(a < x)
            BY <3>1, <3>2, <3>4, <1>2, <1>4
        <3> QED
            BY <3>3, <3>4
    <2> QED
        BY <1>5, <2>1, <2>2, <2>3, <2>4 DEF Tiles
<1>8. Owned(m, al, x, A) /\ Merged(m, x, A)
    <2>0. ASSUME NEW a \in A, a < x
          PROVE  /\ a \in S /\ a \in Nat /\ a < hi /\ Length(m[a]) \in Nat
                 /\ a + Length(m[a]) < x => a + Length(m[a]) < hi
        <3>0. a \in S /\ a \in Nat
            BY <1>0, <1>3
        <3>1. a < hi
            BY <2>0, <3>0, <1>2
        <3>2. Length(m[a]) \in Nat
            BY <3>0, <3>1, <1>1
        <3> QED
            BY <3>0, <3>1, <3>2, <1>2
    <2>1. \A a \in A : a < x => a \in S /\ a < hi
        BY <2>0
    <2>2. \A a \in A : a < x /\ a + Length(m[a]) < x => a + Length(m[a]) < hi
        BY <2>0
    <2>3. Owned(m, al, x, A)
        BY <2>1 DEF Segment, Owned
    <2> QED
        BY <2>1, <2>2, <2>3 DEF Segment, Merged
<1>9. Owned(m, al, hi, B) /\ Merged(m, hi, B)
    BY <1>4 DEF Segment, Owned, Merged
<1>10. ASSUME x < hi, m[x].val < 0, FreeEnd(m, x, A) PROVE FALSE
    <2>1. PICK a \in A : a < x /\ m[a].val < 0 /\ a + Length(m[a]) = x
        BY <1>10 DEF FreeEnd
    <2>2. a \in S /\ a \in Nat
        BY <1>0, <1>3
    <2>4. a < hi
        BY <2>1, <2>2, <1>2
    <2>3. m[x].val > 0
        BY <1>10, <2>1, <2>2, <2>4 DEF Segment, Merged
    <2> QED
        BY <1>10, <2>3, <1>1
<1>11. FreeEnd(m, hi, B) => FreeEnd(m, hi, S)
    BY <1>4 DEF FreeEnd
<1> QED
    BY <1>2, <1>6, <1>7, <1>8, <1>9, <1>10, <1>11 DEF Segment, A, B

\* Two segments side by side, of which not both are free where they meet.
LEMMA SegmentJoin ==
    ASSUME NEW m \in Memory, NEW al, NEW lo, NEW x, NEW hi, Within(lo, x), Within(x, hi),
           NEW A, Segment(m, al, lo, x, A), NEW B, Segment(m, al, x, hi, B),
           ~FreeEnd(m, x, A) \/ x = hi \/ m[x].val > 0
    PROVE  /\ Within(lo, hi)
           /\ Segment(m, al, lo, hi, A \cup B)
           /\ FreeEnd(m, hi, A \cup B) => FreeEnd(m, hi, B) \/ (x = hi /\ FreeEnd(m, x, A))
<1>1. \A a \in A : /\ a \in Nat /\ lo <= a /\ a <= x
                   /\ a < x => /\ a \in Addrs /\ m[a].val \in Int /\ Length(m[a]) \in Nat \ {0}
                               /\ Length(m[a]) = IF m[a].val < 0 THEN -m[a].val ELSE m[a].val
                               /\ m[a].val # 0 /\ a + Length(m[a]) <= x
    BY Places DEF Segment
<1>2. \A a \in B : /\ a \in Nat /\ x <= a /\ a <= hi
                   /\ a < hi => /\ a \in Addrs /\ m[a].val \in Int /\ Length(m[a]) \in Nat \ {0}
                                /\ Length(m[a]) = IF m[a].val < 0 THEN -m[a].val ELSE m[a].val
                                /\ m[a].val # 0 /\ a + Length(m[a]) <= hi
    BY Places DEF Segment
<1>3. /\ lo \in Nat /\ x \in Nat /\ hi \in Nat /\ lo <= x /\ x <= hi /\ Within(lo, hi)
      /\ x \in A /\ x \in B /\ lo \in A /\ hi \in B
    BY DEF Within, Segment, Tiles
<1> DEFINE S == A \cup B
<1>4. \A a \in S : \/ a \in A /\ a < x
                   \/ a \in B /\ x <= a
    BY <1>1, <1>2, <1>3
<1>5. Tiles(m, lo, hi, S)
    <2>1. S \subseteq lo..hi /\ lo \in S /\ hi \in S
        BY <1>1, <1>2, <1>3
    <2>2. ASSUME NEW a \in S, a < hi PROVE Length(m[a]) > 0 /\ a + Length(m[a]) \in S
        BY <2>2, <1>4 DEF Segment, Tiles
    <2>3. ASSUME NEW a \in S, NEW c \in S, a < c PROVE a + Length(m[a]) <= c
        <3>1. CASE a \in A /\ a < x /\ c \in A
            BY <2>3, <3>1 DEF Segment, Tiles
        <3>2. CASE a \in A /\ a < x /\ c \in B
            BY <3>2, <1>1, <1>2, <1>3
        <3>3. CASE a \in B /\ x <= a
            <4>1. c \in B
                BY <3>3, <2>3, <1>1, <1>2, <1>3, <1>4
            <4> QED
                BY <2>3, <3>3, <4>1 DEF Segment, Tiles
        <3> QED
            BY <1>4, <3>1, <3>2, <3>3
    <2>4. ASSUME NEW c \in S, lo < c PROVE \E a \in S : a < c /\ a + Length(m[a]) = c
        <3>1. CASE c \in A
            BY <2>4, <3>1 DEF Segment, Tiles
        <3>2. CASE c \in B /\ x < c
            BY <3>2 DEF Segment, Tiles
        <3> QED
            BY <1>3, <1>4, <3>1, <3>2, <1>1, <1>2
    <2> QED
        BY <2>1, <2>2, <2>3, <2>4 DEF Tiles
<1>6. Owned(m, al, hi, S)
    BY <1>4 DEF Segment, Owned
<1>7. Merged(m, hi, S)
    <2> SUFFICES ASSUME NEW a \in S, a < hi, m[a].val < 0, a + Length(m[a]) < hi
                 PROVE  m[a + Length(m[a])].val > 0
        BY DEF Merged
    <2>1. CASE a \in A /\ a < x
        <3>1. CASE a + Length(m[a]) < x
            BY <2>1, <3>1 DEF Segment, Merged
        <3>2. CASE a + Length(m[a]) = x
            <4>1. FreeEnd(m, x, A)
                BY <2>1, <3>2 DEF FreeEnd
            <4>2. x # hi
                BY <3>2, <1>3
            <4>3. m[x].val > 0
                BY <4>1, <4>2
            <4> QED
                BY <4>3, <3>2
        <3>3. a \in Nat /\ Length(m[a]) \in Nat /\ a + Length(m[a]) <= x
            BY <2>1, <1>1
        <3> QED
            BY <3>1, <3>2, <3>3, <1>3
    <2>2. CASE a \in B /\ x <= a
        BY <2>2 DEF Segment, Merged
    <2> QED
        BY <1>4, <2>1, <2>2
<1>8. ASSUME FreeEnd(m, hi, S) PROVE FreeEnd(m, hi, B) \/ (x = hi /\ FreeEnd(m, x, A))
    <2>1. PICK a \in S : a < hi /\ m[a].val < 0 /\ a + Length(m[a]) = hi
        BY <1>8 DEF FreeEnd
    <2>2. CASE a \in A /\ a < x
        <3>1. x = hi
            BY <2>1, <2>2, <1>1, <1>3
        <3> QED
            BY <2>1, <2>2, <3>1 DEF FreeEnd
    <2>3. CASE a \in B /\ x <= a
        BY <2>1, <2>3 DEF FreeEnd
    <2> QED
        BY <1>4, <2>2, <2>3
<1> QED
    BY <1>3, <1>5, <1>6, <1>7, <1>8 DEF Segment

\* A segment whose words are the same, and whose handles point where they did.
LEMMA SegmentSame ==
    ASSUME NEW m \in Memory, NEW al, NEW lo, NEW hi, Within(lo, hi), NEW S,
           Segment(m, al, lo, hi, S), NEW m2 \in Memory, NEW al2,
           \A b \in Addrs : lo <= b /\ b < hi => m2[b] = m[b],
           \A a \in S : a < hi /\ m[a].val > 0 => al2[m[a].of] = al[m[a].of]
    PROVE  /\ Segment(m2, al2, lo, hi, S)
           /\ FreeEnd(m2, hi, S) <=> FreeEnd(m, hi, S)
<1>1. \A a \in S : /\ a \in Nat /\ lo <= a /\ a <= hi
                   /\ a < hi => /\ a \in Addrs /\ m[a].val \in Int /\ Length(m[a]) \in Nat \ {0}
                                /\ Length(m[a]) = IF m[a].val < 0 THEN -m[a].val ELSE m[a].val
                                /\ m[a].val # 0 /\ a + Length(m[a]) <= hi
    BY Places DEF Segment
<1>2. \A a \in S : a < hi => m2[a] = m[a]
    BY <1>1
<1>3. Tiles(m2, lo, hi, S)
    <2>1. \A a, c \in S : a < c => a < hi
        BY <1>1 DEF Within
    <2>2. \A a \in S : a < hi => Length(m2[a]) > 0 /\ a + Length(m2[a]) \in S
        BY <1>2 DEF Segment, Tiles
    <2>3. \A a, c \in S : a < c => a + Length(m2[a]) <= c
        BY <1>2, <2>1 DEF Segment, Tiles
    <2>4. \A c \in S : lo < c => \E a \in S : a < c /\ a + Length(m2[a]) = c
        BY <1>2, <2>1 DEF Segment, Tiles
    <2> QED
        BY <2>2, <2>3, <2>4 DEF Segment, Tiles
<1>4. ASSUME NEW a \in S, a < hi, m2[a].val > 0
      PROVE  m2[a].of \in Handles /\ al2[m2[a].of] = a + 1 /\ Own(m2, a)
    <2>1. m2[a] = m[a] /\ m[a].of \in Handles /\ al2[m2[a].of] = a + 1 /\ Own(m, a)
        BY <1>2, <1>4 DEF Segment, Owned
    <2>2. \A b \in (a + 1)..(a + m[a].val - 1) : b \in Addrs /\ lo <= b /\ b < hi
        BY <1>1, <1>4, <2>1, SizesAssumption DEF Addrs, Within
    <2> QED
        BY <2>1, <2>2 DEF Own
<1>5. Merged(m2, hi, S)
    <2>1. \A a \in S : a < hi => a + Length(m[a]) \in S
        BY DEF Segment, Tiles
    <2> QED
        BY <1>2, <2>1 DEF Segment, Merged
<1>6. FreeEnd(m2, hi, S) <=> FreeEnd(m, hi, S)
    BY <1>2 DEF FreeEnd
<1> QED
    BY <1>3, <1>4, <1>5, <1>6 DEF Segment, Owned

(***************************************************************************)
(* The places a walk over the blocks comes to are those of the segment     *)
(* that the blocks tile.                                                   *)
(***************************************************************************)
HeapType == [mem : Memory, alloc : [Handles -> {Reserved} \cup 0..Size],
             first_free : Handles, last : Handles, end : 0..Size, compact : BOOLEAN]

LEMMA NextStays ==
    ASSUME NEW H, H.mem \in Memory, H.end \in 0..Size, NEW S, Tiles(H.mem, 0, H.end, S), NEW a \in S
    PROVE  NextStart(H, a) \in S /\ (a < H.end => a < NextStart(H, a))
<1>1. Within(0, H.end) /\ H.end \in Nat
    BY SizesAssumption DEF Within
<1>2. a \in Nat
    BY <1>1, Places
<1>3. a < H.end => Length(H.mem[a]) \in Nat /\ Length(H.mem[a]) > 0 /\ a + Length(H.mem[a]) \in S
    BY <1>1, Places DEF Tiles
<1> QED
    BY <1>1, <1>2, <1>3 DEF NextStart

LEMMA StartsIs ==
    ASSUME NEW H, H.mem \in Memory, H.end \in 0..Size, NEW S, Tiles(H.mem, 0, H.end, S)
    PROVE  Starts(H) = S
<1> DEFINE n == H.end
           G == [i \in 0..n |-> [a \in S |-> NextStart(H, a)]]
           at == CHOOSE at : at = [i \in 0..H.end |-> IF i = 0 THEN 0 ELSE NextStart(H, at[i - 1])]
<1>1. Within(0, n) /\ n \in Nat /\ 0 \in S
    BY SizesAssumption DEF Within, Tiles
<1>2. G \in [0..n -> [S -> S]]
    BY NextStays
<1>3. \A i \in 0..n, a \in S : G[i][a] = NextStart(H, a)
    OBVIOUS
<1>4. Starts(H) = {at[i] : i \in 0..H.end}
    BY DEF Starts
<1> HIDE DEF G
<1>5. PICK f \in [0..n -> S] : Follows(f, n, 0, G)
    BY <1>1, <1>2, Recursion
<1>6. \A i \in 1..n : f[i] = NextStart(H, f[i - 1])
    BY <1>1, <1>3, <1>5 DEF Follows
<1>7. f = [i \in 0..n |-> IF i = 0 THEN 0 ELSE NextStart(H, f[i - 1])]
    BY <1>1, <1>5, <1>6 DEF Follows
<1>8. at = [i \in 0..n |-> IF i = 0 THEN 0 ELSE NextStart(H, at[i - 1])]
    BY <1>7
<1> HIDE DEF at
<1>9. at[0] = 0 /\ \A i \in 1..n : at[i] = NextStart(H, at[i - 1])
    BY <1>1, <1>8
<1> HIDE DEF n
<1>10. \A i \in 1..n : at[i - 1] \in S => at[i] \in S
    <2> TAKE i \in 1..n
    <2> QED
        BY <1>9, NextStays
<1>11. \A i \in 0..n : at[i] \in S
    BY <1>1, <1>9, <1>10, RecursionStays
<1>12. \A i \in 0..n : at[i] \in Nat /\ (at[i] < n => i <= at[i])
    <2> DEFINE T == {i \in 0..n : ~(at[i] \in Nat /\ (at[i] < n => i <= at[i]))}
    <2>1. SUFFICES ASSUME T # {} PROVE FALSE
        OBVIOUS
    <2>2. PICK k \in T : \A y \in T : k <= y
        <3>1. T \subseteq Nat
            BY <1>1
        <3> HIDE DEF T
        <3> QED
            BY <2>1, <3>1, LeastNumber
    <2>3. \A i \in 0..n : at[i] \in Nat /\ at[i] <= n
        BY <1>1, <1>11, Places DEF n
    <2>4. k \in 0..n /\ ~(at[k] < n => k <= at[k])
        BY <2>3
    <2>5. k \in 1..n /\ k - 1 \in 0..n
        BY <2>4, <1>1, <1>9
    <2>6. at[k - 1] < n => k - 1 <= at[k - 1]
        <3>1. ~(k <= k - 1)
            BY <2>5, <1>1
        <3> QED
            BY <2>2, <2>5, <3>1
    <2>7. CASE at[k - 1] < n
        <3>1. at[k - 1] < at[k]
            BY <2>5, <2>7, <1>9, <1>11, NextStays DEF n
        <3> QED
            BY <2>3, <2>4, <2>5, <2>6, <2>7, <3>1, <1>1
    <2>8. CASE ~(at[k - 1] < n)
        <3>1. at[k] = at[k - 1]
            BY <2>5, <2>8, <1>9 DEF NextStart, n
        <3> QED
            BY <2>4, <2>8, <3>1
    <2> QED
        BY <2>7, <2>8
<1>13. ASSUME NEW s \in S PROVE \E i \in 0..n : at[i] = s
    <2> DEFINE T == {t \in S : ~\E i \in 0..n : at[i] = t}
    <2>1. SUFFICES ASSUME T # {} PROVE FALSE
        BY <1>13
    <2>0. \A t \in S : t \in Nat /\ t <= n
        BY <1>1, Places DEF n
    <2>2. PICK t \in T : \A y \in T : t <= y
        <3>1. T \subseteq Nat
            BY <2>0
        <3> HIDE DEF T
        <3> QED
            BY <2>1, <3>1, LeastNumber
    <2>3. t \in S /\ t # 0
        BY <1>1, <1>9
    <2>4. PICK a \in S : a < t /\ a + Length(H.mem[a]) = t
        BY <2>0, <2>3 DEF Tiles
    <2>5. PICK i \in 0..n : at[i] = a
        <3>1. ~(t <= a)
            BY <2>0, <2>3, <2>4
        <3> QED
            BY <2>2, <3>1
    <2>6. a < n /\ i \in Nat /\ i + 1 \in 1..n
        <3>1. a \in Nat /\ t \in Nat /\ t <= n
            BY <2>0, <2>3
        <3>2. a < n
            BY <3>1, <2>4, <1>1
        <3>3. i <= a /\ i \in Nat
            BY <3>2, <2>5, <1>1, <1>12
        <3> QED
            BY <3>1, <3>2, <3>3, <1>1
    <2>7. at[i + 1] = t
        <3>1. at[i + 1] = NextStart(H, at[i + 1 - 1]) /\ i + 1 - 1 = i
            BY <2>6, <1>9
        <3> QED
            BY <3>1, <2>4, <2>5, <2>6 DEF NextStart, n
    <2>8. i + 1 \in 0..n
        BY <2>6, <1>1
    <2> QED
        BY <2>2, <2>7, <2>8
<1> QED
    BY <1>4, <1>11, <1>13 DEF n

(***************************************************************************)
(* A heap that is sound: its blocks are a segment from its start to the    *)
(* end of the allocations that does not end in a free block, and every     *)
(* handle in use finds its block.                                          *)
(***************************************************************************)
Found(m, al, end, S) ==
    \A h \in Handles : al[h] > 0 =>
        /\ al[h] - 1 \in S /\ al[h] - 1 < end
        /\ m[al[h] - 1].val > 0 /\ m[al[h] - 1].of = h
Sound(H) ==
    /\ Segment(H.mem, H.alloc, 0, H.end, Starts(H))
    /\ ~FreeEnd(H.mem, H.end, Starts(H))
    /\ Found(H.mem, H.alloc, H.end, Starts(H))

LEMMA SoundFrom ==
    ASSUME NEW H \in HeapType, NEW S, Segment(H.mem, H.alloc, 0, H.end, S), ~FreeEnd(H.mem, H.end, S),
           Found(H.mem, H.alloc, H.end, S)
    PROVE  Sound(H) /\ Starts(H) = S
<1>1. H.mem \in Memory /\ H.end \in 0..Size
    BY DEF HeapType
<1>2. Starts(H) = S
    BY <1>1, StartsIs DEF Segment
<1> QED
    BY <1>2 DEF Sound

\* What is known of a place of a sound heap.
LEMMA SoundPlaces ==
    ASSUME NEW H \in HeapType, Sound(H)
    PROVE  /\ Within(0, H.end) /\ 0 \in Starts(H) /\ H.end \in Starts(H) /\ Starts(H) \subseteq 0..H.end
           /\ \A a \in Starts(H) :
                /\ a \in Nat /\ a <= H.end
                /\ a < H.end => /\ a \in Addrs /\ H.mem[a].val \in Int /\ H.mem[a].val # 0
                                /\ Length(H.mem[a]) \in Nat \ {0}
                                /\ Length(H.mem[a]) = IF H.mem[a].val < 0 THEN -H.mem[a].val ELSE H.mem[a].val
                                /\ a + Length(H.mem[a]) \in Starts(H) /\ a + Length(H.mem[a]) <= H.end
<1>1. H.mem \in Memory /\ H.end \in 0..Size
    BY DEF HeapType
<1>2. Within(0, H.end)
    BY <1>1, SizesAssumption DEF Within
<1>3. Tiles(H.mem, 0, H.end, Starts(H))
    BY DEF Sound, Segment
<1>4. \A a \in Starts(H) : a < H.end => a + Length(H.mem[a]) \in Starts(H)
    BY <1>3 DEF Tiles
<1> QED
    BY <1>1, <1>2, <1>3, <1>4, Places DEF Tiles

LEMMA FindFirstFreeIs ==
    ASSUME NEW H \in HeapType, Sound(H)
    PROVE  /\ FindFirstFree(H) \in Starts(H)
           /\ FindFirstFree(H) < H.end => H.mem[FindFirstFree(H)].val < 0
           /\ \A a \in Starts(H) : a < FindFirstFree(H) => H.mem[a].val > 0
<1> DEFINE T == {a \in Starts(H) : a >= H.end \/ H.mem[a].val < 0}
<1>1. H.end \in T /\ T \subseteq Nat
    BY SoundPlaces
<1>2. Least(T) \in T /\ \A y \in T : Least(T) <= y
    <2> HIDE DEF T
    <2> QED
        BY <1>1, LeastIs
<1>3. FindFirstFree(H) = Least(T)
    BY DEF FindFirstFree
<1>4. Least(T) \in Nat /\ Least(T) <= H.end /\ H.end \in Nat
    BY <1>2, SoundPlaces
<1>5. Least(T) \in Starts(H) /\ (Least(T) >= H.end \/ H.mem[Least(T)].val < 0)
    BY <1>2
<1>6. ASSUME NEW a \in Starts(H), a < Least(T) PROVE H.mem[a].val > 0
    <2>1. a \in Nat
        BY SoundPlaces
    <2>2. a \notin T
        BY <1>2, <1>4, <1>6, <2>1
    <2>3. a < H.end
        BY <1>4, <1>6, <2>1
    <2>4. ~(H.mem[a].val < 0)
        BY <2>2
    <2>5. H.mem[a].val \in Int /\ H.mem[a].val # 0
        BY <2>3, SoundPlaces
    <2> QED
        BY <2>4, <2>5
<1> QED
    BY <1>3, <1>4, <1>5, <1>6

LEMMA BlockBeforeIs ==
    ASSUME NEW H \in HeapType, Sound(H), NEW b \in Starts(H), b # 0
    PROVE  /\ BlockBefore(H, b) \in Starts(H) /\ BlockBefore(H, b) < b
           /\ BlockBefore(H, b) + Length(H.mem[BlockBefore(H, b)]) = b
           /\ BlockBefore(H, b) < H.end
<1> DEFINE T == {a \in Starts(H) : a < b}
           g == BlockBefore(H, b)
<1>1. b \in Nat /\ b <= H.end /\ H.end \in Nat /\ T \subseteq 0..H.end /\ 0 \in T
    BY SoundPlaces
<1>2. Greatest(T) \in T /\ \A y \in T : y <= Greatest(T)
    <2> HIDE DEF T
    <2> QED
        BY <1>1, GreatestIs
<1>3. g = Greatest(T)
    BY DEF BlockBefore
<1>4. g \in Starts(H) /\ g < b /\ g \in Nat
    BY <1>2, <1>3, SoundPlaces
<1>5. PICK a \in Starts(H) : a < b /\ a + Length(H.mem[a]) = b
    BY <1>1 DEF Sound, Segment, Tiles
<1>6. a \in Nat /\ a < H.end
    BY <1>1, <1>5, SoundPlaces
<1>7. a <= g
    BY <1>2, <1>3, <1>5
<1>8. ~(a < g)
    <2> SUFFICES ASSUME a < g PROVE FALSE
        OBVIOUS
    <2>1. a + Length(H.mem[a]) <= g
        BY <1>4 DEF Sound, Segment, Tiles
    <2> QED
        BY <2>1, <1>1, <1>4, <1>5
<1>9. g = a
    BY <1>4, <1>6, <1>7, <1>8
<1> HIDE DEF g
<1>10. g < H.end
    BY <1>1, <1>4
<1> QED
    BY <1>4, <1>5, <1>9, <1>10 DEF g

(***************************************************************************)
(* What becomes of a sound heap H when the words between two of its places *)
(* x and y are replaced by the segment M, which ends at e: at y, or, when  *)
(* y is the end of the allocations, at their new end.                      *)
(***************************************************************************)
Replaced(H, x, y, M) ==
    (Starts(H) \cap (0..x)) \cup M \cup (IF y = H.end THEN {} ELSE Starts(H) \cap (y..H.end))
Outside(a, x, y) == a < x \/ y <= a
\* The handles: those of M's blocks point there, and the others where they did.
Handled(H, H2, x, y, e, M) ==
    \A h \in Handles : H2.alloc[h] > 0 =>
        \/ H2.alloc[h] = H.alloc[h] /\ Outside(H.alloc[h] - 1, x, y)
        \/ H2.alloc[h] - 1 \in M /\ H2.alloc[h] - 1 < e
           /\ H2.mem[H2.alloc[h] - 1].val > 0 /\ H2.mem[H2.alloc[h] - 1].of = h

Fits(H, H2, x, y, e, M) ==
    /\ x \in Starts(H) /\ y \in Starts(H) /\ x <= y /\ e \in Nat /\ Within(x, e)
    /\ Segment(H2.mem, H2.alloc, x, e, M)
    /\ y # H.end => e = y /\ H2.end = H.end
    /\ y = H.end => H2.end = e
    /\ \A b \in Addrs : Outside(b, x, y) /\ b < H.end => H2.mem[b] = H.mem[b]
    /\ \A a \in Starts(H) : a < H.end /\ Outside(a, x, y) /\ H.mem[a].val > 0
            => H2.alloc[H.mem[a].of] = H.alloc[H.mem[a].of]
    /\ ~FreeEnd(H.mem, x, Starts(H) \cap (0..x)) \/ (x < e /\ H2.mem[x].val > 0)
    /\ ~FreeEnd(H2.mem, e, M) \/ (y < H.end /\ H.mem[y].val > 0)
    /\ Handled(H, H2, x, y, e, M)

LEMMA Spliced ==
    ASSUME NEW H \in HeapType, Sound(H), NEW H2 \in HeapType, NEW x, NEW y, NEW e, NEW M,
           Fits(H, H2, x, y, e, M)
    PROVE  Sound(H2) /\ Starts(H2) = Replaced(H, x, y, M)
<1>0. /\ x \in Starts(H) /\ y \in Starts(H) /\ x <= y /\ e \in Nat /\ Within(x, e)
      /\ Segment(H2.mem, H2.alloc, x, e, M)
      /\ y # H.end => e = y /\ H2.end = H.end
      /\ y = H.end => H2.end = e
      /\ \A b \in Addrs : Outside(b, x, y) /\ b < H.end => H2.mem[b] = H.mem[b]
      /\ \A a \in Starts(H) : a < H.end /\ Outside(a, x, y) /\ H.mem[a].val > 0
              => H2.alloc[H.mem[a].of] = H.alloc[H.mem[a].of]
      /\ ~FreeEnd(H.mem, x, Starts(H) \cap (0..x)) \/ (x < e /\ H2.mem[x].val > 0)
      /\ ~FreeEnd(H2.mem, e, M) \/ (y < H.end /\ H.mem[y].val > 0)
      /\ Handled(H, H2, x, y, e, M)
    BY DEF Fits
<1> USE <1>0
<1> DEFINE S == Starts(H)
           A == S \cap (0..x)
           B == S \cap (y..H.end)
<1>1. /\ H.mem \in Memory /\ H.end \in Nat /\ H.end <= Size /\ H2.mem \in Memory /\ H2.end \in 0..Size
      /\ H.alloc \in [Handles -> {Reserved} \cup 0..Size] /\ H2.alloc \in [Handles -> {Reserved} \cup 0..Size]
    BY SizesAssumption DEF HeapType
<1>2. /\ Within(0, H.end) /\ x \in Nat /\ y \in Nat /\ x <= H.end /\ y <= H.end /\ 0 \in S /\ H.end \in S
      /\ \A a \in S : a \in Nat /\ a <= H.end
    BY SoundPlaces
<1>3. Segment(H.mem, H.alloc, 0, H.end, S) /\ ~FreeEnd(H.mem, H.end, S) /\ Found(H.mem, H.alloc, H.end, S)
    BY DEF Sound
<1>4. /\ Within(0, x) /\ Segment(H.mem, H.alloc, 0, x, A)
    BY <1>1, <1>2, <1>3, SegmentSplit
<1>5. /\ Within(y, H.end) /\ Segment(H.mem, H.alloc, y, H.end, B) /\ ~FreeEnd(H.mem, H.end, B)
    BY <1>1, <1>2, <1>3, SegmentSplit
<1>6. (\A a \in A : a \in S /\ a <= x) /\ (\A a \in S : a <= x => a \in A)
    BY <1>2
<1>7. (\A a \in B : a \in S /\ y <= a) /\ (\A a \in S : y <= a => a \in B)
    BY <1>2
<1> HIDE DEF S, A, B
<1>8. Segment(H2.mem, H2.alloc, 0, x, A) /\ (FreeEnd(H2.mem, x, A) <=> FreeEnd(H.mem, x, A))
    <2>1. \A b \in Addrs : 0 <= b /\ b < x => H2.mem[b] = H.mem[b]
        BY <1>1, <1>2, SizesAssumption DEF Addrs, Outside
    <2>2. ASSUME NEW a \in A, a < x, H.mem[a].val > 0
          PROVE  H2.alloc[H.mem[a].of] = H.alloc[H.mem[a].of]
        <3>1. a \in Starts(H) /\ a \in Nat
            BY <1>2, <1>6 DEF S
        <3>2. a < H.end
            BY <2>2, <3>1, <1>1, <1>2
        <3> QED
            BY <2>2, <3>1, <3>2 DEF Outside
    <2> QED
        BY <1>1, <1>4, <2>1, <2>2, SegmentSame
<1>9. Segment(H2.mem, H2.alloc, y, H.end, B) /\ ~FreeEnd(H2.mem, H.end, B)
    <2>1. \A b \in Addrs : y <= b /\ b < H.end => H2.mem[b] = H.mem[b]
        BY <1>1, <1>2, SizesAssumption DEF Addrs, Outside
    <2>2. ASSUME NEW a \in B, a < H.end, H.mem[a].val > 0
          PROVE  H2.alloc[H.mem[a].of] = H.alloc[H.mem[a].of]
        <3>1. a \in Starts(H) /\ a \in Nat /\ y <= a
            BY <1>2, <1>7 DEF S
        <3> QED
            BY <2>2, <3>1 DEF Outside
    <2> QED
        BY <1>1, <1>5, <2>1, <2>2, SegmentSame
<1> DEFINE C == A \cup M
<1>10. /\ Within(0, e) /\ Segment(H2.mem, H2.alloc, 0, e, C)
       /\ FreeEnd(H2.mem, e, C) => FreeEnd(H2.mem, e, M) \/ (x = e /\ FreeEnd(H2.mem, x, A))
    <2>1. ~FreeEnd(H2.mem, x, A) \/ x = e \/ H2.mem[x].val > 0
        BY <1>8 DEF A, S
    <2> QED
        BY <1>1, <1>4, <1>8, <2>1, SegmentJoin
<1>11. FreeEnd(H2.mem, e, C) => FreeEnd(H2.mem, e, M)
    BY <1>2, <1>8, <1>10 DEF A, S
<1> HIDE DEF C
<1>12. ASSUME NEW h \in Handles, H2.alloc[h] > 0
       PROVE  \/ /\ H2.alloc[h] - 1 \in S /\ H2.alloc[h] - 1 < H.end /\ Outside(H2.alloc[h] - 1, x, y)
                 /\ H2.mem[H2.alloc[h] - 1].val > 0 /\ H2.mem[H2.alloc[h] - 1].of = h
              \/ /\ H2.alloc[h] - 1 \in M /\ H2.alloc[h] - 1 < e
                 /\ H2.mem[H2.alloc[h] - 1].val > 0 /\ H2.mem[H2.alloc[h] - 1].of = h
    <2>1. CASE H2.alloc[h] = H.alloc[h] /\ Outside(H.alloc[h] - 1, x, y)
        <3> DEFINE a == H.alloc[h] - 1
        <3>1. a \in S /\ a < H.end /\ H.mem[a].val > 0 /\ H.mem[a].of = h
            BY <1>3, <1>12, <2>1 DEF Found
        <3>2. a \in Addrs
            BY <1>1, <1>2, <3>1, SizesAssumption DEF Addrs
        <3>3. H2.mem[a] = H.mem[a]
            BY <2>1, <3>1, <3>2
        <3> QED
            BY <2>1, <3>1, <3>3
    <2> QED
        BY <1>12, <2>1 DEF Handled
<1>13. CASE y = H.end
    <2>1. H2.end = e /\ Replaced(H, x, y, M) = C
        BY <1>13 DEF Replaced, C, A, S
    <2>2. ~FreeEnd(H2.mem, e, C)
        BY <1>2, <1>11, <1>13
    <2>3. Found(H2.mem, H2.alloc, e, C)
        <3> SUFFICES ASSUME NEW h \in Handles, H2.alloc[h] > 0
                     PROVE  /\ H2.alloc[h] - 1 \in C /\ H2.alloc[h] - 1 < e
                            /\ H2.mem[H2.alloc[h] - 1].val > 0 /\ H2.mem[H2.alloc[h] - 1].of = h
            BY DEF Found
        <3> DEFINE a == H2.alloc[h] - 1
        <3>1. CASE a \in S /\ a < H.end /\ Outside(a, x, y) /\ H2.mem[a].val > 0 /\ H2.mem[a].of = h
            <4>1. a \in Nat
                BY <3>1, <1>2
            <4>2. a < x
                BY <3>1, <4>1, <1>1, <1>13 DEF Outside
            <4>3. a \in A /\ a < e
                BY <3>1, <4>1, <4>2, <1>2, <1>6 DEF Within
            <4> QED
                BY <3>1, <4>3 DEF C
        <3>2. CASE a \in M /\ a < e /\ H2.mem[a].val > 0 /\ H2.mem[a].of = h
            BY <3>2 DEF C
        <3> QED
            BY <1>12, <3>1, <3>2
    <2> QED
        BY <1>10, <2>1, <2>2, <2>3, SoundFrom
<1>14. CASE y # H.end
    <2> DEFINE D == C \cup B
    <2>1. e = y /\ H2.end = H.end /\ Replaced(H, x, y, M) = D /\ y < H.end
        BY <1>1, <1>2, <1>14 DEF Replaced, C, A, B, S
    <2>2. H2.mem[y] = H.mem[y]
        BY <1>1, <1>2, <2>1, SizesAssumption DEF Addrs, Outside
    <2>3. ~FreeEnd(H2.mem, e, C) \/ H2.mem[y].val > 0
        BY <1>11, <2>2
    <2>4. Segment(H2.mem, H2.alloc, 0, H.end, D) /\ ~FreeEnd(H2.mem, H.end, D)
        BY <1>1, <1>5, <1>9, <1>10, <2>1, <2>3, SegmentJoin
    <2>5. Found(H2.mem, H2.alloc, H.end, D)
        <3> SUFFICES ASSUME NEW h \in Handles, H2.alloc[h] > 0
                     PROVE  /\ H2.alloc[h] - 1 \in D /\ H2.alloc[h] - 1 < H.end
                            /\ H2.mem[H2.alloc[h] - 1].val > 0 /\ H2.mem[H2.alloc[h] - 1].of = h
            BY DEF Found
        <3> DEFINE a == H2.alloc[h] - 1
        <3>1. CASE a \in S /\ a < H.end /\ Outside(a, x, y) /\ H2.mem[a].val > 0 /\ H2.mem[a].of = h
            <4>1. a \in Nat
                BY <3>1, <1>2
            <4>2. CASE a < x
                BY <3>1, <4>1, <4>2, <1>2, <1>6 DEF C
            <4>3. CASE y <= a
                BY <3>1, <4>3, <1>7
            <4> QED
                BY <3>1, <4>2, <4>3 DEF Outside
        <3>2. CASE a \in M /\ a < e /\ H2.mem[a].val > 0 /\ H2.mem[a].of = h
            <4>1. a \in Int
                BY <1>1 DEF Reserved
            <4> QED
                BY <3>2, <4>1, <2>1, <1>1, <1>2 DEF C
        <3> QED
            BY <1>12, <3>1, <3>2
    <2> HIDE DEF D
    <2> QED
        BY <2>1, <2>4, <2>5, SoundFrom
<1> QED
    BY <1>13, <1>14

(***************************************************************************)
(* The neighbours of a block.                                              *)
(***************************************************************************)
FrontOf(H, b) == IF FreeBefore(H, b) THEN BlockBefore(H, b) ELSE b
BehindOf(H, b) == IF IsFree(H, b) THEN b - H.mem[b].val ELSE b

\* Where the free words in front of a place start.
LEMMA FrontIs ==
    ASSUME NEW H \in HeapType, Sound(H), NEW b \in Starts(H)
    PROVE  /\ FrontOf(H, b) \in Starts(H) /\ FrontOf(H, b) <= b
           /\ ~FreeEnd(H.mem, FrontOf(H, b), Starts(H) \cap (0..FrontOf(H, b)))
           /\ \A c \in Starts(H) : FrontOf(H, b) <= c /\ c < b => H.mem[c].val < 0
<1> DEFINE S == Starts(H)
           g == BlockBefore(H, b)
<1>1. /\ \A a \in S : a \in Nat /\ a <= H.end
      /\ H.end \in Nat /\ Within(0, H.end) /\ H.mem \in Memory
      /\ \A a \in S : a < H.end => H.mem[a].val \in Int /\ Length(H.mem[a]) \in Nat
    BY SoundPlaces DEF HeapType
<1>2. b # 0 => g \in S /\ g < b /\ g + Length(H.mem[g]) = b /\ g < H.end
    BY BlockBeforeIs
<1>3. Segment(H.mem, H.alloc, 0, H.end, S)
    BY DEF Sound
<1> HIDE DEF g, S
<1>4. CASE FreeBefore(H, b)
    <2>1. FrontOf(H, b) = g /\ b # 0 /\ g < H.end /\ H.mem[g].val < 0
        BY <1>1, <1>4 DEF FrontOf, FreeBefore, IsFree, g, S
    <2>2. ~FreeEnd(H.mem, g, S \cap (0..g))
        BY <1>1, <1>2, <1>3, <2>1, SegmentSplit
    <2>3. ASSUME NEW c \in S, g <= c, c < b PROVE H.mem[c].val < 0
        <3>1. ~(g < c)
            <4> SUFFICES ASSUME g < c PROVE FALSE
                OBVIOUS
            <4>1. g + Length(H.mem[g]) <= c
                BY <1>2, <1>3, <2>1 DEF Segment, Tiles
            <4> QED
                BY <4>1, <2>3, <1>1, <1>2, <2>1 DEF S
        <3>2. c = g
            BY <3>1, <2>3, <1>1, <1>2, <2>1
        <3> QED
            BY <3>2, <2>1
    <2> QED
        BY <1>1, <1>2, <2>1, <2>2, <2>3 DEF S
<1>5. CASE ~FreeBefore(H, b)
    <2>1. FrontOf(H, b) = b
        BY <1>5 DEF FrontOf
    <2>2. ASSUME FreeEnd(H.mem, b, S \cap (0..b)) PROVE FALSE
        <3>1. PICK a \in S \cap (0..b) : a < b /\ H.mem[a].val < 0 /\ a + Length(H.mem[a]) = b
            BY <2>2 DEF FreeEnd
        <3>2. a \in S /\ a \in Nat /\ b \in Nat /\ b <= H.end /\ b # 0
            BY <1>1, <3>1 DEF S
        <3>3. g \in S /\ g < b /\ g + Length(H.mem[g]) = b /\ g < H.end /\ g \in Nat
            BY <1>1, <1>2, <3>2
        <3>4. ~(a < g)
            <4> SUFFICES ASSUME a < g PROVE FALSE
                OBVIOUS
            <4>1. a + Length(H.mem[a]) <= g
                BY <1>3, <3>2, <3>3 DEF Segment, Tiles
            <4> QED
                BY <4>1, <3>1, <3>3, <3>2
        <3>5. ~(g < a)
            <4> SUFFICES ASSUME g < a PROVE FALSE
                OBVIOUS
            <4>1. g + Length(H.mem[g]) <= a
                BY <1>3, <3>2, <3>3 DEF Segment, Tiles
            <4> QED
                BY <4>1, <3>1, <3>3, <3>2
        <3>6. a = g
            BY <3>2, <3>3, <3>4, <3>5
        <3> QED
            BY <1>5, <3>1, <3>2, <3>3, <3>6 DEF FreeBefore, IsFree, g
    <2> QED
        BY <1>1, <2>1, <2>2 DEF S
<1> QED
    BY <1>4, <1>5

\* Where the free words behind a place end.
LEMMA BehindIs ==
    ASSUME NEW H \in HeapType, Sound(H), NEW b \in Starts(H)
    PROVE  /\ BehindOf(H, b) \in Starts(H) /\ b <= BehindOf(H, b)
           /\ b < H.end => BehindOf(H, b) < H.end /\ H.mem[BehindOf(H, b)].val > 0
           /\ b = H.end => BehindOf(H, b) = b
           /\ \A c \in Starts(H) : b <= c /\ c < BehindOf(H, b) => H.mem[c].val < 0
<1> DEFINE S == Starts(H)
<1>1. /\ \A a \in S : a \in Nat /\ a <= H.end
      /\ H.end \in Nat
      /\ \A a \in S : a < H.end => /\ H.mem[a].val \in Int /\ H.mem[a].val # 0 /\ Length(H.mem[a]) \in Nat \ {0}
                                   /\ Length(H.mem[a]) = IF H.mem[a].val < 0 THEN -H.mem[a].val ELSE H.mem[a].val
                                   /\ a + Length(H.mem[a]) \in S /\ a + Length(H.mem[a]) <= H.end
    BY SoundPlaces
<1>2. Segment(H.mem, H.alloc, 0, H.end, S) /\ ~FreeEnd(H.mem, H.end, S)
    BY DEF Sound
<1> HIDE DEF S
<1>3. CASE IsFree(H, b)
    <2>1. b \in S /\ b < H.end /\ H.mem[b].val < 0
        BY <1>3 DEF IsFree, S
    <2>2. BehindOf(H, b) = b + Length(H.mem[b])
        BY <1>1, <1>3, <2>1 DEF BehindOf
    <2>3. BehindOf(H, b) \in S /\ b < BehindOf(H, b) /\ BehindOf(H, b) <= H.end
        BY <1>1, <2>1, <2>2
    <2>4. BehindOf(H, b) # H.end
        BY <1>2, <2>1, <2>2 DEF FreeEnd
    <2>5. BehindOf(H, b) < H.end
        BY <2>3, <2>4, <1>1
    <2>6. H.mem[BehindOf(H, b)].val > 0
        BY <1>2, <2>1, <2>2, <2>5 DEF Segment, Merged
    <2>7. ASSUME NEW c \in S, b <= c, c < BehindOf(H, b) PROVE H.mem[c].val < 0
        <3>1. ~(b < c)
            <4> SUFFICES ASSUME b < c PROVE FALSE
                OBVIOUS
            <4>1. b + Length(H.mem[b]) <= c
                BY <1>2, <2>1 DEF Segment, Tiles
            <4> QED
                BY <4>1, <2>7, <2>2, <2>3, <1>1
        <3>2. c = b
            BY <3>1, <2>1, <2>7, <1>1
        <3> QED
            BY <3>2, <2>1
    <2> QED
        BY <2>1, <2>3, <2>5, <2>6, <2>7, <1>1 DEF S
<1>4. CASE ~IsFree(H, b)
    <2>1. BehindOf(H, b) = b /\ b \in S
        BY <1>4 DEF BehindOf, S
    <2>2. b < H.end => H.mem[b].val > 0
        BY <1>1, <1>4, <2>1 DEF IsFree
    <2>3. \A c \in S : b <= c /\ c < b => FALSE
        BY <1>1, <2>1
    <2> QED
        BY <1>1, <2>1, <2>2, <2>3 DEF S
<1> QED
    BY <1>3, <1>4

\* A live handle's block, and the words around it.
LEMMA BlockIs ==
    ASSUME NEW H \in HeapType, Sound(H), NEW h \in Handles, H.alloc[h] > 0
    PROVE  LET a == BlockOf(H, h)
               next == a + H.mem[a].val
           IN /\ a \in Starts(H) /\ a \in Nat /\ a < H.end /\ H.mem[a].val \in Nat \ {0} /\ H.mem[a].of = h
              /\ a \in Addrs /\ Own(H.mem, a)
              /\ Length(H.mem[a]) = H.mem[a].val /\ next \in Starts(H) /\ next <= H.end /\ next <= Size
              /\ \A c \in Starts(H) : c < H.end /\ H.mem[c].val > 0 /\ c # a =>
                    H.mem[c].of # h /\ Outside(c, FrontOf(H, a), BehindOf(H, next))
              /\ \A g \in Handles \ {h} : H.alloc[g] > 0 => Outside(BlockOf(H, g), FrontOf(H, a), BehindOf(H, next))
<1> DEFINE S == Starts(H)
           a == BlockOf(H, h)
           next == a + H.mem[a].val
<1>1. /\ \A c \in S : c \in Nat /\ c <= H.end
      /\ H.end \in Nat /\ H.end <= Size
      /\ \A c \in S : c < H.end => /\ c \in Addrs /\ H.mem[c].val \in Int /\ H.mem[c].val # 0
                                   /\ Length(H.mem[c]) = IF H.mem[c].val < 0 THEN -H.mem[c].val ELSE H.mem[c].val
                                   /\ c + Length(H.mem[c]) \in S /\ c + Length(H.mem[c]) <= H.end
    BY SoundPlaces DEF Within
<1>2. /\ Segment(H.mem, H.alloc, 0, H.end, S) /\ Found(H.mem, H.alloc, H.end, S)
      /\ H.alloc \in [Handles -> {Reserved} \cup 0..Size]
    BY DEF Sound, HeapType
<1>3. a \in S /\ a < H.end /\ H.mem[a].val > 0 /\ H.mem[a].of = h
    BY <1>2 DEF Found, BlockOf
<1> HIDE DEF S, a
<1>4. a \in Nat /\ a \in Addrs /\ Own(H.mem, a) /\ H.mem[a].val \in Nat \ {0}
    BY <1>1, <1>2, <1>3 DEF Segment, Owned
<1>5. Length(H.mem[a]) = H.mem[a].val /\ next \in S /\ next <= H.end /\ next <= Size
    BY <1>1, <1>3, <1>4, SizesAssumption
<1>6. /\ FrontOf(H, a) \in S /\ FrontOf(H, a) <= a /\ \A c \in S : FrontOf(H, a) <= c /\ c < a => H.mem[c].val < 0
    BY <1>3, FrontIs DEF S
<1> HIDE DEF next
<1>7. /\ BehindOf(H, next) \in S /\ next <= BehindOf(H, next)
      /\ \A c \in S : next <= c /\ c < BehindOf(H, next) => H.mem[c].val < 0
    BY <1>5, BehindIs DEF S
<1>8. ASSUME NEW c \in S, c < H.end, H.mem[c].val > 0, c # a
      PROVE  H.mem[c].of # h /\ Outside(c, FrontOf(H, a), BehindOf(H, next))
    <2>1. H.alloc[H.mem[c].of] = c + 1
        BY <1>2, <1>8 DEF Segment, Owned
    <2>2. H.alloc[h] = a + 1
        BY <1>2, <1>3 DEF Segment, Owned
    <2>3. c \in Nat /\ H.mem[c].val \in Int /\ ~(H.mem[c].val < 0)
        BY <1>1, <1>8
    <2>4. ~(FrontOf(H, a) <= c /\ c < a) /\ ~(next <= c /\ c < BehindOf(H, next))
        BY <1>6, <1>7, <2>3
    <2>5. ~(a < c /\ c < next)
        <3> SUFFICES ASSUME a < c, c < next PROVE FALSE
            OBVIOUS
        <3>1. a + Length(H.mem[a]) <= c
            BY <1>2, <1>3 DEF Segment, Tiles
        <3> QED
            BY <3>1, <1>4, <1>5, <2>3 DEF next
    <2>6. next \in Nat /\ FrontOf(H, a) \in Nat /\ BehindOf(H, next) \in Nat
        BY <1>1, <1>5, <1>6, <1>7
    <2>7. c < FrontOf(H, a) \/ BehindOf(H, next) <= c
        BY <1>4, <1>8, <2>3, <2>4, <2>5, <2>6
    <2> QED
        BY <1>4, <1>8, <2>1, <2>2, <2>3, <2>7 DEF Outside
<1>9. ASSUME NEW g \in Handles \ {h}, H.alloc[g] > 0
      PROVE  Outside(BlockOf(H, g), FrontOf(H, a), BehindOf(H, next))
    <2>1. BlockOf(H, g) \in S /\ BlockOf(H, g) < H.end /\ H.mem[BlockOf(H, g)].val > 0 /\ H.mem[BlockOf(H, g)].of = g
        BY <1>2, <1>9 DEF Found, BlockOf
    <2>2. BlockOf(H, g) # a
        BY <1>3, <1>9, <2>1
    <2> QED
        BY <1>8, <2>1, <2>2
<1> QED
    BY <1>3, <1>4, <1>5, <1>8, <1>9 DEF S, a, next

(***************************************************************************)
(* The books of the table, and a good heap.                                *)
(***************************************************************************)
Books(H) ==
    /\ H.first_free <= H.last + 1
    /\ H.end <= Size - H.last
    /\ \A h \in Handles : H.alloc[h] # 0 => h <= H.last
    /\ H.alloc[TestHandle] = 1 /\ H.mem[0].ops = PlainOps
Good(H) == H \in HeapType /\ Sound(H) /\ Books(H)

LEMMA Sizes0 == /\ Size \in Nat /\ Size >= 3 /\ 0 \in Addrs /\ TestHandle \in Handles
                /\ \A a : a \in Addrs <=> a \in Nat /\ a < Size
                /\ \A h : h \in Handles <=> h \in Nat /\ 1 <= h /\ h <= Size
BY SizesAssumption DEF Addrs, Handles, TestHandle

LEMMA HeapFields ==
    ASSUME NEW H \in HeapType
    PROVE  /\ H.mem \in Memory /\ H.alloc \in [Handles -> {Reserved} \cup 0..Size]
           /\ H.first_free \in Handles /\ H.last \in Handles /\ H.end \in 0..Size /\ H.compact \in BOOLEAN
           /\ H = [mem |-> H.mem, alloc |-> H.alloc, first_free |-> H.first_free, last |-> H.last,
                   end |-> H.end, compact |-> H.compact]
BY DEF HeapType

\* The first block is the test allocation.
LEMMA TestBlock ==
    ASSUME NEW H, Good(H)
    PROVE  /\ 0 \in Starts(H) /\ 0 < H.end /\ H.mem[0].val > 0 /\ H.mem[0].of = TestHandle
           /\ \A h \in Handles \ {TestHandle} : H.alloc[h] > 0 => 0 < FrontOf(H, BlockOf(H, h))
<1>1. BlockOf(H, TestHandle) = 0 /\ H.alloc[TestHandle] > 0 /\ TestHandle \in Handles
    BY Sizes0 DEF Good, Books, BlockOf
<1>2. 0 \in Starts(H) /\ 0 < H.end /\ H.mem[0].val > 0 /\ H.mem[0].of = TestHandle
    BY <1>1, BlockIs DEF Good
<1>3. ASSUME NEW h \in Handles \ {TestHandle}, H.alloc[h] > 0 PROVE 0 < FrontOf(H, BlockOf(H, h))
    <2> DEFINE a == BlockOf(H, h)
               next == a + H.mem[a].val
    <2>1. /\ Outside(0, FrontOf(H, a), BehindOf(H, next))
          /\ a \in Starts(H) /\ a \in Nat /\ next \in Starts(H) /\ H.mem[a].val \in Nat \ {0}
        BY <1>1, <1>3, BlockIs DEF Good
    <2>2. next <= BehindOf(H, next) /\ BehindOf(H, next) \in Nat
        BY <2>1, BehindIs, SoundPlaces DEF Good
    <2>3. 0 < BehindOf(H, next)
        BY <2>1, <2>2
    <2> QED
        BY <2>1, <2>2, <2>3 DEF Outside
<1> QED
    BY <1>2, <1>3

\* The table with an entry given back.
LEMMA HandleFreedIs ==
    ASSUME NEW H \in HeapType, Books(H), NEW h \in Handles \ {TestHandle}, H.alloc[h] # 0
    PROVE  LET R == HandleFreed(H, h)
           IN /\ R \in HeapType /\ Books(R)
              /\ R.mem = H.mem /\ R.end = H.end /\ R.alloc = [H.alloc EXCEPT ![h] = 0] /\ R.last <= H.last
<1> DEFINE R == HandleFreed(H, h)
<1>1. /\ H.mem \in Memory /\ H.alloc \in [Handles -> {Reserved} \cup 0..Size]
      /\ H.first_free \in Handles /\ H.last \in Handles /\ H.end \in 0..Size /\ H.compact \in BOOLEAN
    BY HeapFields
<1>2. /\ R.mem = H.mem /\ R.end = H.end /\ R.alloc = [H.alloc EXCEPT ![h] = 0]
      /\ R.first_free = IF h < H.first_free THEN h ELSE H.first_free
      /\ R.last = IF h = H.last THEN H.last - 1 ELSE H.last
      /\ R.compact \in BOOLEAN
      /\ R = [mem |-> R.mem, alloc |-> R.alloc, first_free |-> R.first_free, last |-> R.last,
              end |-> R.end, compact |-> R.compact]
    <2> DEFINE al == [H.alloc EXCEPT ![h] = 0]
               f == IF h < H.first_free THEN h ELSE H.first_free
               l == IF h = H.last THEN H.last - 1 ELSE H.last
               c == H.compact /\ h = H.last
    <2>1. R = [H EXCEPT !.alloc = al, !.first_free = f, !.last = l, !.compact = c]
        BY <1>1, HeapFields DEF HandleFreed
    <2> HIDE DEF al, f, l, c, R
    <2>2. R = [mem |-> H.mem, alloc |-> al, first_free |-> f, last |-> l, end |-> H.end, compact |-> c]
        BY <2>1, <1>1, Zenon DEF HeapType
    <2>3. /\ R.mem = H.mem /\ R.end = H.end /\ R.alloc = al /\ R.first_free = f /\ R.last = l /\ R.compact = c
          /\ R = [mem |-> R.mem, alloc |-> R.alloc, first_free |-> R.first_free, last |-> R.last,
                  end |-> R.end, compact |-> R.compact]
        BY <2>2
    <2>4. R.compact \in BOOLEAN
        BY <2>3 DEF c
    <2> QED
        BY <2>3, <2>4 DEF al, f, l
<1> HIDE DEF R
<1>3. h <= H.last /\ h \in Nat /\ h > 1 /\ H.last \in Nat /\ H.first_free \in Nat /\ 1 <= H.first_free /\ H.last <= Size
    BY <1>1, Sizes0 DEF Books, TestHandle
<1>4. R.first_free \in Handles /\ R.last \in Handles /\ R.first_free <= R.last + 1 /\ R.last <= H.last
    BY <1>1, <1>2, <1>3, Sizes0 DEF Books
<1>5. R.alloc \in [Handles -> {Reserved} \cup 0..Size]
    BY <1>1, <1>2, Sizes0
<1>6. R \in HeapType
    BY <1>1, <1>2, <1>4, <1>5 DEF HeapType
<1>7. \A g \in Handles : R.alloc[g] # 0 => g <= R.last
    <2> SUFFICES ASSUME NEW g \in Handles, R.alloc[g] # 0 PROVE g <= R.last
        OBVIOUS
    <2>1. g # h /\ H.alloc[g] # 0 /\ g \in Nat
        BY <1>1, <1>2, Sizes0
    <2>2. g <= H.last
        BY <2>1 DEF Books
    <2> QED
        BY <2>1, <2>2, <1>2, <1>3
<1>8. R.end <= Size - R.last
    BY <1>1, <1>2, <1>3, <1>4, Sizes0 DEF Books
<1>9. R.alloc[TestHandle] = 1 /\ R.mem[0].ops = PlainOps
    BY <1>1, <1>2, Sizes0 DEF Books
<1> QED
    BY <1>2, <1>4, <1>6, <1>7, <1>8, <1>9 DEF Books, R

\* buflib_free
LEMMA FreedIs ==
    ASSUME NEW H, Good(H), NEW h \in Handles \ {TestHandle}, H.alloc[h] > 0
    PROVE  LET R == Freed(H, h)
           IN /\ Good(R) /\ R.alloc = [H.alloc EXCEPT ![h] = 0] /\ R.end <= H.end
              /\ \A p \in Starts(H) : p < BlockOf(H, h) /\ p + Length(H.mem[p]) = BlockOf(H, h) =>
                    p \in Starts(R) /\ (p = R.end => Length(R.mem[p]) = 0)
<1> DEFINE a == BlockOf(H, h)
           len == H.mem[a].val
           next == a + len
           from == FrontOf(H, a)
           to == BehindOf(H, next)
           G == GivenBack(H, a, len)
           R == Freed(H, h)
           S == Starts(H)
<1>0. H \in HeapType /\ Sound(H)
    BY DEF Good
<1>1. /\ H \in HeapType /\ Sound(H) /\ Books(H)
      /\ H.mem \in Memory /\ H.alloc \in [Handles -> {Reserved} \cup 0..Size]
      /\ H.first_free \in Handles /\ H.last \in Handles /\ H.end \in 0..Size /\ H.compact \in BOOLEAN
      /\ H = [mem |-> H.mem, alloc |-> H.alloc, first_free |-> H.first_free, last |-> H.last,
              end |-> H.end, compact |-> H.compact]
    BY HeapFields DEF Good
<1>2. /\ a \in S /\ a \in Nat /\ a < H.end /\ len \in Nat \ {0} /\ H.mem[a].of = h /\ a \in Addrs
      /\ Length(H.mem[a]) = len /\ next \in S /\ next <= H.end /\ next <= Size
      /\ \A c \in S : c < H.end /\ H.mem[c].val > 0 /\ c # a => H.mem[c].of # h /\ Outside(c, from, to)
      /\ \A g \in Handles \ {h} : H.alloc[g] > 0 => Outside(BlockOf(H, g), from, to)
    BY <1>1, BlockIs
<1>3. 0 < from
    BY TestBlock
<1>4. /\ \A c \in S : c \in Nat /\ c <= H.end
      /\ H.end \in Nat /\ H.end <= Size
    BY <1>1, SoundPlaces DEF Within
<1> HIDE DEF a, len
<1>5. from \in S /\ from <= a /\ ~FreeEnd(H.mem, from, S \cap (0..from))
    BY <1>1, <1>2, FrontIs
<1>6. /\ to \in S /\ next <= to /\ (next < H.end => to < H.end /\ H.mem[to].val > 0)
      /\ next = H.end => to = next
    BY <1>1, <1>2, BehindIs
<1>7. /\ G = IF next = H.end THEN [H EXCEPT !.mem = Erased(H.mem, from, next - from), !.end = from]
             ELSE [H EXCEPT !.mem = SetFree(H.mem, from, to - from), !.compact = FALSE]
      /\ R = HandleFreed(G, h)
    BY DEF GivenBack, Freed, FrontOf, BehindOf, a, len
<1> HIDE DEF from, to, G, R, S, next
<1>8. /\ from \in Nat /\ to \in Nat /\ next \in Nat /\ a \in Nat /\ H.end \in Nat /\ H.end <= Size /\ Size \in Nat
      /\ from < next /\ next <= to /\ to <= H.end /\ from <= a /\ a < next
    <2>1. from \in Nat /\ to \in Nat /\ to <= H.end /\ next \in Nat
        BY <1>2, <1>4, <1>5, <1>6
    <2>2. a < next
        BY <1>2 DEF next
    <2> QED
        BY <1>2, <1>4, <1>5, <1>6, <2>1, <2>2, Sizes0
<1>9. CASE next = H.end
    <2> DEFINE m == Erased(H.mem, from, next - from)
    <2>0. next - from \in Nat /\ from + (next - from) = next
        BY <1>8
    <2>1. m \in Memory /\ \A b \in Addrs : ~(from <= b /\ b < next) => m[b] = H.mem[b]
        <3> DEFINE len0 == next - from
        <3>1. len0 \in Nat /\ from + len0 = next /\ from \in Nat /\ from + len0 <= Size
            BY <1>8, <2>0
        <3>2. m = Erased(H.mem, from, len0)
            OBVIOUS
        <3> HIDE DEF len0, m
        <3>3. /\ Erased(H.mem, from, len0) \in Memory
              /\ \A b \in Addrs : ~(from <= b /\ b < from + len0) => Erased(H.mem, from, len0)[b] = H.mem[b]
            BY <1>1, <3>1, ErasedWords
        <3> QED
            BY <3>1, <3>2, <3>3
    <2>2. Length(m[from]) = 0
        <3>1. from \in Addrs
            BY <1>4, <1>8, Sizes0
        <3>2. m[from] = Junk
            BY <3>1, <1>8 DEF Erased, Filled
        <3> QED
            BY <3>2 DEF Junk, Length
    <2> HIDE DEF m
    <2>3. /\ G = [mem |-> m, alloc |-> H.alloc, first_free |-> H.first_free, last |-> H.last,
                  end |-> from, compact |-> H.compact]
        BY <1>1, <1>7, <1>9 DEF m
    <2>4. G \in HeapType
        BY <1>1, <1>4, <1>8, <2>1, <2>3, Sizes0 DEF HeapType
    <2>5. Books(G)
        <3>1. G.mem[0] = H.mem[0]
            BY <1>3, <1>8, <2>1, <2>3, Sizes0
        <3>2. from <= Size - H.last
            BY <1>1, <1>4, <1>8, Sizes0 DEF Books
        <3> QED
            BY <1>1, <2>3, <3>1, <3>2 DEF Books
    <2>6. G.alloc[h] # 0
        BY <2>3
    <2>7. /\ R \in HeapType /\ Books(R) /\ R.mem = m /\ R.end = from /\ R.alloc = [H.alloc EXCEPT ![h] = 0]
        BY <1>7, <2>3, <2>4, <2>5, <2>6, HandleFreedIs
    <2>8. Segment(R.mem, R.alloc, from, from, {from}) /\ ~FreeEnd(R.mem, from, {from})
        BY <1>8, SegmentEmpty
    <2>9. \A b \in Addrs : Outside(b, from, next) /\ b < H.end => R.mem[b] = H.mem[b]
        <3> SUFFICES ASSUME NEW b \in Addrs, Outside(b, from, next) PROVE R.mem[b] = H.mem[b]
            OBVIOUS
        <3>1. ~(from <= b /\ b < next)
            BY <1>8, Sizes0 DEF Outside
        <3> QED
            BY <3>1, <2>1, <2>7
    <2>10. ASSUME NEW c \in S, c < H.end, Outside(c, from, next), H.mem[c].val > 0
           PROVE  R.alloc[H.mem[c].of] = H.alloc[H.mem[c].of]
        <3>1. c # a
            BY <1>8, <2>10 DEF Outside
        <3>2. H.mem[c].of # h /\ H.mem[c].of \in Handles
            BY <3>1, <2>10, <1>1, <1>2 DEF Sound, Segment, Owned, S
        <3> QED
            BY <3>2, <1>1, <2>7
    <2>11. Handled(H, R, from, next, from, {from})
        <3> SUFFICES ASSUME NEW g \in Handles, R.alloc[g] > 0
                     PROVE  R.alloc[g] = H.alloc[g] /\ Outside(H.alloc[g] - 1, from, next)
            BY DEF Handled
        <3>1. g # h /\ R.alloc[g] = H.alloc[g]
            BY <1>1, <2>7
        <3>2. to = next
            BY <1>6, <1>9
        <3> QED
            BY <3>1, <3>2, <1>2 DEF BlockOf
    <2>12. Within(from, from) /\ from <= next
        BY <1>4, <1>8 DEF Within
    <2>13. Sound(R) /\ Starts(R) = Replaced(H, from, next, {from})
        <3>1. /\ from \in Starts(H) /\ next \in Starts(H) /\ from <= next /\ from \in Nat /\ R \in HeapType
              /\ ~FreeEnd(H.mem, from, Starts(H) \cap (0..from))
              /\ next # H.end => from = next /\ R.end = H.end
              /\ next = H.end => R.end = from
            BY <1>2, <1>5, <1>8, <1>9, <2>7 DEF S
        <3>2. \A c \in Starts(H) : c < H.end /\ Outside(c, from, next) /\ H.mem[c].val > 0
                => R.alloc[H.mem[c].of] = H.alloc[H.mem[c].of]
            BY <2>10 DEF S
        <3> DEFINE M == {from}
        <3>3. Segment(R.mem, R.alloc, from, from, M) /\ ~FreeEnd(R.mem, from, M) /\ Handled(H, R, from, next, from, M)
            BY <2>8, <2>11
        <3> HIDE DEF M
        <3>4. Sound(R) /\ Starts(R) = Replaced(H, from, next, M)
            <4>1. Fits(H, R, from, next, from, M)
                BY <2>9, <2>12, <3>1, <3>2, <3>3 DEF Fits
            <4> QED
                BY <1>0, <3>1, <4>1, Spliced
        <3> QED
            BY <3>4 DEF M
    <2>14. Good(R)
        BY <2>7, <2>13 DEF Good
    <2>15. ASSUME NEW p \in S, p < a, p + Length(H.mem[p]) = a
           PROVE  p \in Starts(R) /\ (p = R.end => Length(R.mem[p]) = 0)
        <3>1. p = R.end => Length(R.mem[p]) = 0
            BY <2>2, <2>7
        <3>2. p \in Nat /\ p < H.end /\ Length(H.mem[p]) \in Nat
            BY <2>15, <1>1, <1>2, <1>4, SoundPlaces DEF S
        <3>3. ~(from < p)
            <4> SUFFICES ASSUME from < p PROVE FALSE
                OBVIOUS
            <4>1. from + Length(H.mem[from]) <= p /\ from # a /\ from < H.end
                BY <1>1, <1>2, <1>4, <1>5, <1>8, <2>15, <3>2 DEF Sound, Segment, Tiles, S
            <4>2. from = BlockBefore(H, a) /\ a # 0
                BY <4>1, <1>3, <1>8, <1>2 DEF from, FrontOf
            <4>3. from + Length(H.mem[from]) = a
                BY <4>2, <1>1, <1>2, BlockBeforeIs DEF S
            <4> QED
                BY <4>1, <4>3, <2>15, <3>2, <1>2
        <3>4. p \in S \cap (0..from)
            BY <3>2, <3>3, <1>8
        <3> QED
            BY <3>1, <3>4, <2>13 DEF Replaced, S
    <2> QED
        BY <1>8, <1>4, <2>7, <2>14, <2>15 DEF R, S, a
<1>10. CASE next # H.end
    <2> DEFINE m == SetFree(H.mem, from, to - from)
               M == {from, to}
    <2>0. next < H.end /\ to < H.end /\ H.mem[to].val > 0 /\ to - from \in Nat \ {0} /\ from + (to - from) = to
        BY <1>2, <1>4, <1>6, <1>8, <1>10
    <2>1. /\ m \in Memory /\ \A b \in Addrs : ~(from <= b /\ b < to) => m[b] = H.mem[b]
          /\ from \in Addrs /\ m[from].val = -(to - from)
        BY <1>1, <1>4, <1>8, <2>0, FreeWords, Sizes0
    <2> HIDE DEF m
    <2>3. /\ G = [mem |-> m, alloc |-> H.alloc, first_free |-> H.first_free, last |-> H.last,
                  end |-> H.end, compact |-> FALSE]
        BY <1>1, <1>7, <1>10 DEF m
    <2>4. G \in HeapType
        BY <1>1, <2>1, <2>3 DEF HeapType
    <2>5. Books(G)
        <3>1. G.mem[0] = H.mem[0]
            BY <1>3, <1>8, <2>1, <2>3, Sizes0
        <3> QED
            BY <1>1, <2>3, <3>1 DEF Books
    <2>6. G.alloc[h] # 0
        BY <2>3
    <2>7. /\ R \in HeapType /\ Books(R) /\ R.mem = m /\ R.end = H.end /\ R.alloc = [H.alloc EXCEPT ![h] = 0]
        BY <1>7, <2>3, <2>4, <2>5, <2>6, HandleFreedIs
    <2>8. Segment(R.mem, R.alloc, from, to, M)
        BY <2>0, <2>1, <2>7, SegmentFree
    <2>9. \A b \in Addrs : Outside(b, from, to) /\ b < H.end => R.mem[b] = H.mem[b]
        <3> SUFFICES ASSUME NEW b \in Addrs, Outside(b, from, to) PROVE R.mem[b] = H.mem[b]
            OBVIOUS
        <3>1. ~(from <= b /\ b < to)
            BY <1>8, Sizes0 DEF Outside
        <3> QED
            BY <3>1, <2>1, <2>7
    <2>10. ASSUME NEW c \in S, c < H.end, Outside(c, from, to), H.mem[c].val > 0
           PROVE  R.alloc[H.mem[c].of] = H.alloc[H.mem[c].of]
        <3>1. c # a
            BY <1>8, <2>10 DEF Outside
        <3>2. H.mem[c].of # h /\ H.mem[c].of \in Handles
            BY <3>1, <2>10, <1>1, <1>2 DEF Sound, Segment, Owned, S
        <3> QED
            BY <3>2, <1>1, <2>7
    <2>11. Handled(H, R, from, to, to, M)
        <3> SUFFICES ASSUME NEW g \in Handles, R.alloc[g] > 0
                     PROVE  R.alloc[g] = H.alloc[g] /\ Outside(H.alloc[g] - 1, from, to)
            BY DEF Handled
        <3>1. g # h /\ R.alloc[g] = H.alloc[g]
            BY <1>1, <2>7
        <3> QED
            BY <3>1, <1>2 DEF BlockOf
    <2>12. Within(from, to) /\ from <= to /\ to # H.end
        BY <1>4, <1>8, <2>0 DEF Within
    <2> HIDE DEF M
    <2>13. Sound(R) /\ Starts(R) = Replaced(H, from, to, M)
        <3>1. /\ from \in Starts(H) /\ to \in Starts(H) /\ from <= to /\ to \in Nat /\ R \in HeapType
              /\ ~FreeEnd(H.mem, from, Starts(H) \cap (0..from))
              /\ to # H.end => to = to /\ R.end = H.end
              /\ to = H.end => R.end = to
              /\ to < H.end /\ H.mem[to].val > 0
            BY <1>5, <1>6, <1>8, <2>0, <2>12, <2>7 DEF S
        <3>2. \A c \in Starts(H) : c < H.end /\ Outside(c, from, to) /\ H.mem[c].val > 0
                => R.alloc[H.mem[c].of] = H.alloc[H.mem[c].of]
            BY <2>10 DEF S
        <3> QED
            <4>1. Fits(H, R, from, to, to, M)
                BY <2>8, <2>9, <2>11, <2>12, <3>1, <3>2 DEF Fits
            <4> QED
                BY <1>0, <3>1, <4>1, Spliced
    <2>14. Good(R)
        BY <2>7, <2>13 DEF Good
    <2>15. ASSUME NEW p \in S, p < a, p + Length(H.mem[p]) = a
           PROVE  p \in Starts(R) /\ (p = R.end => Length(R.mem[p]) = 0)
        <3>2. p \in Nat /\ p < H.end /\ Length(H.mem[p]) \in Nat
            BY <2>15, <1>1, <1>2, <1>4, SoundPlaces DEF S
        <3>1. p # R.end
            BY <3>2, <2>7, <1>4
        <3>3. ~(from < p)
            <4> SUFFICES ASSUME from < p PROVE FALSE
                OBVIOUS
            <4>1. from + Length(H.mem[from]) <= p /\ from # a /\ from < H.end
                BY <1>1, <1>2, <1>4, <1>5, <1>8, <2>15, <3>2 DEF Sound, Segment, Tiles, S
            <4>2. from = BlockBefore(H, a) /\ a # 0
                BY <4>1, <1>3, <1>8, <1>2 DEF from, FrontOf
            <4>3. from + Length(H.mem[from]) = a
                BY <4>2, <1>1, <1>2, BlockBeforeIs DEF S
            <4> QED
                BY <4>1, <4>3, <2>15, <3>2, <1>2
        <3>4. p \in S \cap (0..from)
            BY <3>2, <3>3, <1>8
        <3> QED
            BY <3>1, <3>4, <2>13 DEF Replaced, S
    <2> QED
        BY <1>8, <1>4, <2>7, <2>14, <2>15 DEF R, S, a
<1> QED
    BY <1>9, <1>10

\* The words of a block in use stay its own as long as they are not written.
LEMMA OwnSame ==
    ASSUME NEW m \in Memory, NEW a \in Addrs, NEW len \in Nat \ {0}, a + len <= Size,
           m[a].val = len, Own(m, a), NEW m2,
           \A b \in Addrs : a <= b /\ b < a + len => m2[b] = m[b]
    PROVE  m2[a] = m[a] /\ Own(m2, a)
<1>0. a \in Nat /\ Size \in Nat
    BY SizesAssumption DEF Addrs
<1>1. m2[a] = m[a]
    BY <1>0
<1>2. ASSUME NEW b \in (a + 1)..(a + len - 1) PROVE m2[b] = [Junk EXCEPT !.of = m[a].of]
    <2>1. b \in Addrs /\ a <= b /\ b < a + len
        BY <1>0 DEF Addrs
    <2> QED
        BY <2>1 DEF Own
<1> QED
    BY <1>1, <1>2 DEF Own

\* What buflib_shrink writes: the words around the new block.
ShrunkMemory(m, from, a, new, len, h, ops, behind, end, next, to) ==
    LET m1 == IF new = a THEN m ELSE SetFree(m, from, new - from)
        m2 == SetUsed(m1, new, len, h, ops)
    IN IF behind = 0 THEN m2
       ELSE IF next = end THEN Erased(m2, new + len, behind)
       ELSE SetFree(m2, new + len, to - new - len)

ShrunkArgs(m, from, a, new, len, h, ops, behind, end, next, to) ==
    /\ m \in Memory /\ from \in Nat /\ a \in Nat /\ new \in Nat /\ len \in Nat \ {0}
    /\ behind \in Nat /\ end \in Nat /\ next \in Nat /\ to \in Nat
    /\ from <= a /\ a <= new /\ new + len + behind = next /\ next <= to /\ to <= Size
    /\ h \in Handles /\ ops \in Ops \cup {None}

LEMMA ShrunkMemoryIs ==
    ASSUME NEW m, NEW from, NEW a, NEW new, NEW len, NEW h, NEW ops, NEW behind, NEW end, NEW next, NEW to,
           ShrunkArgs(m, from, a, new, len, h, ops, behind, end, next, to)
    PROVE  LET r == ShrunkMemory(m, from, a, new, len, h, ops, behind, end, next, to)
               x == IF new = a THEN a ELSE from
               y == IF behind = 0 \/ next = end THEN next ELSE to
           IN /\ r \in Memory
              /\ \A b \in Addrs : Outside(b, x, y) => r[b] = m[b]
              /\ new \in Addrs /\ r[new].val = len /\ r[new].of = h /\ r[new].ops = ops /\ Own(r, new)
              /\ new # a => r[x].val = -(new - x) /\ x \in Addrs
              /\ behind # 0 /\ next # end => r[new + len].val = -(to - (new + len)) /\ new + len \in Addrs
<1> USE DEF ShrunkArgs
<1> DEFINE m1 == IF new = a THEN m ELSE SetFree(m, from, new - from)
           m2 == SetUsed(m1, new, len, h, ops)
           r == ShrunkMemory(m, from, a, new, len, h, ops, behind, end, next, to)
           x == IF new = a THEN a ELSE from
           y == IF behind = 0 \/ next = end THEN next ELSE to
           nl == new + len
           first == [val |-> len, of |-> h, ops |-> ops]
<1>0. /\ Size \in Nat /\ x \in Nat /\ y \in Nat /\ x <= new /\ next <= y /\ y <= to /\ from <= x /\ nl \in Nat
      /\ new < nl /\ nl <= next /\ nl <= Size
      /\ \A b \in Addrs : b \in Nat /\ b < Size
    BY Sizes0
<1>1. /\ m1 \in Memory /\ \A b \in Addrs : ~(x <= b /\ b < new) => m1[b] = m[b]
      /\ new # a => m1[x].val = -(new - x) /\ x \in Addrs
    <2>1. CASE new = a
        BY <2>1
    <2>2. CASE new # a
        <3> DEFINE d == new - from
        <3>1. d \in Nat /\ d > 0 /\ from + d = new /\ from + d <= Size /\ x = from
            BY <2>2, <1>0
        <3>2. m1 = SetFree(m, from, d)
            BY <2>2
        <3> HIDE DEF d, m1
        <3>3. /\ SetFree(m, from, d) \in Memory
              /\ \A b \in Addrs : ~(from <= b /\ b < from + d) => SetFree(m, from, d)[b] = m[b]
              /\ from \in Addrs /\ SetFree(m, from, d)[from].val = -d
            BY <3>1, FreeWords
        <3> QED
            BY <3>1, <3>2, <3>3
    <2> QED
        BY <2>1, <2>2
<1> HIDE DEF m1
<1>2. /\ m2 \in Memory /\ \A b \in Addrs : ~(new <= b /\ b < nl) => m2[b] = m1[b]
      /\ new \in Addrs /\ m2[new] = first /\ Own(m2, new)
    BY <1>0, <1>1, UsedWords
<1>3. r = IF behind = 0 THEN m2
          ELSE IF next = end THEN Erased(m2, nl, behind) ELSE SetFree(m2, nl, to - new - len)
    BY DEF ShrunkMemory, m1
<1> HIDE DEF m2, r, nl, y, x
<1>4. /\ r \in Memory /\ \A b \in Addrs : ~(nl <= b /\ b < y) => r[b] = m2[b]
      /\ behind # 0 /\ next # end => r[nl].val = -(to - nl) /\ nl \in Addrs
    <2>1. CASE behind = 0
        BY <1>2, <1>3, <2>1
    <2>2. CASE behind # 0 /\ next = end
        <3>1. nl + behind = next /\ y = next /\ nl + behind <= Size
            BY <2>2, <1>0 DEF nl, y
        <3>2. r = Erased(m2, nl, behind)
            BY <1>3, <2>2
        <3>3. r \in Memory /\ \A b \in Addrs : ~(nl <= b /\ b < nl + behind) => r[b] = m2[b]
            <4>1. m2 \in Memory /\ nl \in Nat /\ nl + behind <= Size
                BY <1>0, <1>2, <3>1
            <4>2. /\ Erased(m2, nl, behind) \in Memory
                  /\ \A b \in Addrs : ~(nl <= b /\ b < nl + behind) => Erased(m2, nl, behind)[b] = m2[b]
                BY <4>1, ErasedWords
            <4> QED
                BY <3>2, <4>2
        <3> QED
            BY <2>2, <3>1, <3>3
    <2>3. CASE behind # 0 /\ next # end
        <3> DEFINE d == to - new - len
        <3>1. d \in Nat /\ d > 0 /\ nl + d = to /\ y = to /\ nl + d <= Size /\ d = to - nl
            BY <2>3, <1>0 DEF nl, y
        <3>2. r = SetFree(m2, nl, d)
            BY <1>3, <2>3
        <3> HIDE DEF d
        <3>3. /\ r \in Memory /\ \A b \in Addrs : ~(nl <= b /\ b < nl + d) => r[b] = m2[b]
              /\ nl \in Addrs /\ r[nl].val = -d
            <4>1. m2 \in Memory /\ nl \in Nat /\ nl + d <= Size /\ d \in Nat /\ d > 0
                BY <1>0, <1>2, <3>1
            <4>2. /\ SetFree(m2, nl, d) \in Memory
                  /\ \A b \in Addrs : ~(nl <= b /\ b < nl + d) => SetFree(m2, nl, d)[b] = m2[b]
                  /\ nl \in Addrs /\ SetFree(m2, nl, d)[nl].val = -d
                BY <4>1, FreeWords
            <4> QED
                BY <3>2, <4>2
        <3> QED
            BY <2>3, <3>1, <3>3
    <2> QED
        BY <2>1, <2>2, <2>3
<1>5. ASSUME NEW b \in Addrs, Outside(b, x, y) PROVE r[b] = m[b]
    <2>1. b \in Nat /\ ~(x <= b /\ b < new) /\ ~(new <= b /\ b < nl) /\ ~(nl <= b /\ b < y)
        BY <1>0, <1>5 DEF Outside
    <2> QED
        BY <2>1, <1>1, <1>2, <1>4
<1>6. r[new] = first /\ Own(r, new)
    <2>1. \A b \in Addrs : new <= b /\ b < new + len => r[b] = m2[b]
        BY <1>0, <1>4 DEF nl
    <2>2. m2[new].val = len
        BY <1>2
    <2>3. new + len <= Size
        BY <1>0 DEF nl
    <2> HIDE DEF first
    <2>4. r[new] = m2[new] /\ Own(r, new)
        BY <1>2, <2>1, <2>2, <2>3, OwnSame
    <2> QED
        BY <1>2, <2>4
<1>7. ASSUME new # a PROVE r[x].val = -(new - x) /\ x \in Addrs
    <2>1. x \in Addrs /\ x < new /\ m1[x].val = -(new - x)
        BY <1>0, <1>1, <1>7 DEF x
    <2>2. m2[x] = m1[x]
        BY <1>0, <1>2, <2>1
    <2>3. r[x] = m2[x]
        BY <1>0, <1>4, <2>1
    <2> QED
        BY <2>1, <2>2, <2>3
<1> QED
    BY <1>2, <1>4, <1>5, <1>6, <1>7 DEF r, x, y, nl, first
\* A block in use with free words in front of it, or none, and behind it, or none.
LEMMA ThreeParts ==
    ASSUME NEW m \in Memory, NEW al, NEW x \in Nat, NEW new \in Addrs, NEW nl \in Nat, NEW e \in Nat,
           x <= new, new < nl, nl <= e, e <= Size,
           x # new => x \in Addrs /\ m[x].val = -(new - x),
           m[new].val = nl - new, m[new].of \in Handles, al[m[new].of] = new + 1, Own(m, new),
           e # nl => nl \in Addrs /\ m[nl].val = -(e - nl)
    PROVE  LET M == ({x, new} \cup {new, nl}) \cup {nl, e}
           IN /\ Segment(m, al, x, e, M) /\ Within(x, e)
              /\ FreeEnd(m, e, M) => e # nl
<1>0. /\ new \in Nat /\ Size \in Nat /\ Within(x, new) /\ Within(new, nl) /\ Within(nl, e) /\ Within(x, nl)
    BY Sizes0 DEF Within
<1>1. Segment(m, al, x, new, {x, new})
    <2>1. CASE x = new
        <3>1. Segment(m, al, new, new, {new})
            BY <1>0, SegmentEmpty
        <3>2. {x, new} = {new}
            BY <2>1
        <3> QED
            BY <2>1, <3>1, <3>2
    <2>2. CASE x # new
        <3> DEFINE d == new - x
        <3>1. d \in Nat \ {0} /\ x \in Addrs /\ m[x].val = -d /\ x + d = new
            BY <1>0, <2>2
        <3> HIDE DEF d
        <3>2. Segment(m, al, x, x + d, {x, x + d})
            BY <3>1, SegmentFree
        <3> QED
            BY <3>1, <3>2
    <2> QED
        BY <2>1, <2>2
<1>2. Segment(m, al, new, nl, {new, nl}) /\ ~FreeEnd(m, nl, {new, nl})
    <2> DEFINE d == nl - new
    <2>1. d \in Nat \ {0} /\ m[new].val = d /\ new + d = nl
        BY <1>0
    <2> HIDE DEF d
    <2>2. Segment(m, al, new, new + d, {new, new + d}) /\ ~FreeEnd(m, new + d, {new, new + d})
        BY <2>1, SegmentUsed
    <2> QED
        BY <2>1, <2>2
<1>3. Segment(m, al, nl, e, {nl, e}) /\ (FreeEnd(m, e, {nl, e}) => e # nl)
    <2>1. CASE e = nl
        <3>1. Segment(m, al, nl, nl, {nl}) /\ ~FreeEnd(m, nl, {nl})
            BY <1>0, SegmentEmpty
        <3>2. {nl, e} = {nl}
            BY <2>1
        <3> QED
            BY <2>1, <3>1, <3>2
    <2>2. CASE e # nl
        <3> DEFINE d == e - nl
        <3>1. d \in Nat \ {0} /\ nl \in Addrs /\ m[nl].val = -d /\ nl + d = e
            BY <1>0, <2>2
        <3> HIDE DEF d
        <3>2. Segment(m, al, nl, nl + d, {nl, nl + d})
            BY <3>1, SegmentFree
        <3> QED
            BY <2>2, <3>1, <3>2
    <2> QED
        BY <2>1, <2>2
<1> DEFINE A == {x, new}
           B == {new, nl}
           C == {nl, e}
           AB == A \cup B
<1>4. m[new].val > 0 /\ new # nl
    BY <1>0
<1> HIDE DEF A, B, C
<1>5. /\ Segment(m, al, x, nl, AB)
      /\ FreeEnd(m, nl, AB) => FreeEnd(m, nl, B) \/ (new = nl /\ FreeEnd(m, new, A))
    <2>1. Segment(m, al, x, new, A) /\ Segment(m, al, new, nl, B)
        BY <1>1, <1>2 DEF A, B
    <2> QED
        BY <1>0, <1>4, <2>1, SegmentJoin
<1>6. ~FreeEnd(m, nl, AB)
    BY <1>2, <1>4, <1>5 DEF B
<1> HIDE DEF AB
<1>7. /\ Segment(m, al, x, e, AB \cup C) /\ Within(x, e)
      /\ FreeEnd(m, e, AB \cup C) => FreeEnd(m, e, C) \/ (nl = e /\ FreeEnd(m, nl, AB))
    <2>1. Segment(m, al, nl, e, C)
        BY <1>3 DEF C
    <2> QED
        BY <1>0, <1>5, <1>6, <2>1, SegmentJoin
<1> QED
    BY <1>3, <1>6, <1>7 DEF A, B, C, AB

\* buflib_shrink
LEMMA ShrunkIs ==
    ASSUME NEW H, Good(H), NEW h \in Handles \ {TestHandle}, H.alloc[h] > 0,
           NEW s \in Shrinkages(H, h)
    PROVE  LET R == Shrunk(H, h, s[1], s[2])
               new == BlockOf(H, h) + s[1]
           IN /\ Good(R) /\ R.alloc = [H.alloc EXCEPT ![h] = new + 1]
              /\ R.mem[new].val < H.mem[BlockOf(H, h)].val
<1> DEFINE a == BlockOf(H, h)
           w == H.mem[a]
           front == s[1]
           behind == s[2]
           new == a + front
           len == w.val - front - behind
           nl == new + len
           next == a + w.val
           from == FrontOf(H, a)
           to == BehindOf(H, next)
           R == Shrunk(H, h, front, behind)
           S == Starts(H)
           x == IF new = a THEN a ELSE from
           y == IF behind = 0 \/ next = H.end THEN next ELSE to
           e == IF behind = 0 THEN next ELSE IF next = H.end THEN nl ELSE to
           m == ShrunkMemory(H.mem, from, a, new, len, h, w.ops, behind, H.end, next, to)
           M == ({x, new} \cup {new, nl}) \cup {nl, e}
<1>0. H \in HeapType /\ Sound(H) /\ Books(H)
    BY DEF Good
<1>1. /\ H.mem \in Memory /\ H.alloc \in [Handles -> {Reserved} \cup 0..Size]
      /\ H.first_free \in Handles /\ H.last \in Handles /\ H.end \in 0..Size /\ H.compact \in BOOLEAN
    BY <1>0, HeapFields
<1>2. /\ a \in S /\ a \in Nat /\ a < H.end /\ w.val \in Nat \ {0} /\ w.of = h /\ a \in Addrs
      /\ Length(w) = w.val /\ next \in S /\ next <= H.end /\ next <= Size
      /\ \A c \in S : c < H.end /\ H.mem[c].val > 0 /\ c # a => H.mem[c].of # h /\ Outside(c, from, to)
      /\ \A g \in Handles \ {h} : H.alloc[g] > 0 => Outside(BlockOf(H, g), from, to)
    BY <1>0, BlockIs
<1>3. 0 < from
    BY TestBlock
<1>4. /\ \A c \in S : c \in Nat /\ c <= H.end
      /\ H.end \in Nat /\ H.end <= Size /\ Size \in Nat
    BY <1>0, SoundPlaces, Sizes0 DEF Within
<1>5. from \in S /\ from <= a /\ ~FreeEnd(H.mem, from, S \cap (0..from))
    BY <1>0, <1>2, FrontIs
<1>6. /\ to \in S /\ next <= to /\ (next < H.end => to < H.end /\ H.mem[to].val > 0)
      /\ next = H.end => to = next
    BY <1>0, <1>2, BehindIs
<1>7. front \in Nat /\ behind \in Nat /\ front + behind \in Nat /\ 1 <= front + behind /\ front + behind <= w.val - 1
    BY <1>2 DEF Shrinkages
<1>8. w.ops \in Ops \cup {None}
    BY <1>1, <1>2, Words
<1> HIDE DEF a, w
<1>9. new = a <=> front = 0
    BY <1>2, <1>7
<1>10. /\ R.mem = m /\ R.alloc = [H.alloc EXCEPT ![h] = new + 1]
       /\ R.first_free = H.first_free /\ R.last = H.last /\ R.compact = H.compact
       /\ R.end = IF next = H.end THEN nl ELSE H.end
       /\ R = [mem |-> R.mem, alloc |-> R.alloc, first_free |-> R.first_free, last |-> R.last,
               end |-> R.end, compact |-> R.compact]
    <2> DEFINE al == [H.alloc EXCEPT ![h] = new + 1]
               en == IF next = H.end THEN nl ELSE H.end
               mm == IF front = 0 THEN H.mem ELSE SetFree(H.mem, from, new - from)
               m2 == SetUsed(mm, new, len, h, w.ops)
               m3 == IF behind = 0 THEN m2 ELSE IF next = H.end THEN Erased(m2, nl, behind)
                     ELSE SetFree(m2, nl, to - new - len)
    <2>1. R = [H EXCEPT !.mem = m3, !.alloc = al, !.end = en]
        BY <1>0 DEF Shrunk, FrontOf, BehindOf, a, w, HeapType
    <2>2. m3 = m
        BY <1>9 DEF ShrunkMemory
    <2> HIDE DEF al, en, m3, R
    <2>3. R = [mem |-> m3, alloc |-> al, first_free |-> H.first_free, last |-> H.last, end |-> en,
               compact |-> H.compact]
        BY <2>1, <1>0, Zenon DEF HeapType
    <2>4. R.mem = m3 /\ R.alloc = al /\ R.end = en
          /\ R.first_free = H.first_free /\ R.last = H.last /\ R.compact = H.compact
          /\ R = [mem |-> R.mem, alloc |-> R.alloc, first_free |-> R.first_free, last |-> R.last,
                  end |-> R.end, compact |-> R.compact]
        BY <2>3
    <2> QED
        BY <2>2, <2>4 DEF al, en
<1> HIDE DEF from, to, R, S
<1>12. /\ from \in Nat /\ to \in Nat /\ next \in Nat /\ new \in Nat /\ len \in Nat \ {0} /\ nl \in Nat
       /\ from <= a /\ a <= new /\ new + len + behind = next /\ next <= to /\ to <= Size /\ to <= H.end
    <2>1. from \in Nat /\ to \in Nat /\ to <= H.end
        BY <1>4, <1>5, <1>6
    <2>2. next \in Nat /\ new \in Nat /\ len \in Nat \ {0}
        BY <1>2, <1>7
    <2> QED
        BY <1>2, <1>4, <1>5, <1>6, <1>7, <2>1, <2>2
<1> HIDE DEF new, len
<1>13. /\ m \in Memory
       /\ \A b \in Addrs : Outside(b, x, y) => m[b] = H.mem[b]
       /\ new \in Addrs /\ m[new].val = len /\ m[new].of = h /\ m[new].ops = w.ops /\ Own(m, new)
       /\ new # a => m[x].val = -(new - x) /\ x \in Addrs
       /\ behind # 0 /\ next # H.end => m[nl].val = -(to - nl) /\ nl \in Addrs
    <2> HIDE DEF next
    <2>1. H.end \in Nat /\ H.mem \in Memory /\ a \in Nat
        BY <1>1, <1>2, <1>4
    <2> QED
        <3>1. h \in Handles /\ w.ops \in Ops \cup {None}
            BY <1>8
        <3>2. LET r == ShrunkMemory(H.mem, from, a, new, len, h, w.ops, behind, H.end, next, to)
                  xx == IF new = a THEN a ELSE from
                  yy == IF behind = 0 \/ next = H.end THEN next ELSE to
              IN /\ r \in Memory
                 /\ \A b \in Addrs : Outside(b, xx, yy) => r[b] = H.mem[b]
                 /\ new \in Addrs /\ r[new].val = len /\ r[new].of = h /\ r[new].ops = w.ops /\ Own(r, new)
                 /\ new # a => r[xx].val = -(new - xx) /\ xx \in Addrs
                 /\ behind # 0 /\ next # H.end => r[new + len].val = -(to - (new + len)) /\ new + len \in Addrs
            <4>1. ShrunkArgs(H.mem, from, a, new, len, h, w.ops, behind, H.end, next, to)
                BY <1>7, <1>12, <2>1, <3>1 DEF ShrunkArgs
            <4> HIDE DEF m, x, y, M, e, nl, front, behind
            <4> QED
                BY <4>1, ShrunkMemoryIs
        <3> QED
            BY <3>2
<1>14. /\ x \in Nat /\ x <= new /\ new < nl /\ nl <= e /\ e \in Nat /\ e <= Size /\ nl = next - behind
       /\ y \in Nat /\ x <= y /\ y <= H.end /\ from <= x /\ y <= to /\ x <= a /\ a < y
    <2> HIDE DEF next
    <2>1. new < nl /\ nl \in Nat /\ nl <= next /\ nl = next - behind
        BY <1>7, <1>12
    <2>2. x \in Nat /\ x <= new /\ from <= x /\ x <= a
        BY <1>2, <1>12
    <2>3. y \in Nat /\ y <= to /\ next <= y
        BY <1>6, <1>12
    <2>4. nl <= e /\ e \in Nat /\ e <= to
        BY <1>7, <1>12, <2>1
    <2>5. a < next
        BY <1>2, <1>7, <1>12
    <2> HIDE DEF nl, x, y, e
    <2> QED
        BY <1>2, <1>4, <1>12, <2>1, <2>2, <2>3, <2>4, <2>5
<1>15. e # nl => nl \in Addrs /\ m[nl].val = -(e - nl)
    <2>1. behind = 0 => e = nl
        BY <1>12
    <2> QED
        BY <1>13, <2>1
<1>16. x # new => x \in Addrs /\ m[x].val = -(new - x)
    BY <1>13
<1>17. m[new].val = nl - new /\ m[new].of = h /\ m[new].val = len
    BY <1>12, <1>13
<1>18. R.alloc[h] = new + 1 /\ \A g \in Handles \ {h} : R.alloc[g] = H.alloc[g]
    BY <1>1, <1>10
<1> HIDE DEF m, x, y, e, nl
<1>19. /\ Segment(R.mem, R.alloc, x, e, M) /\ Within(x, e)
       /\ FreeEnd(R.mem, e, M) => e # nl
    <2>1. m \in Memory /\ new \in Addrs /\ Own(m, new) /\ m[new].of \in Handles /\ R.alloc[m[new].of] = new + 1
        BY <1>13, <1>17, <1>18
    <2>2. /\ Segment(m, R.alloc, x, e, M) /\ Within(x, e)
          /\ FreeEnd(m, e, M) => e # nl
        BY <1>12, <1>14, <1>15, <1>16, <1>17, <2>1, ThreeParts, ZenonT(40)
    <2> QED
        BY <1>10, <2>2
<1>20. R \in HeapType
    <2>1. R.alloc \in [Handles -> {Reserved} \cup 0..Size]
        BY <1>1, <1>10, <1>12, <1>14, <1>4
    <2>2. R.end \in 0..Size
        BY <1>1, <1>10, <1>12, <1>14, <1>4
    <2> QED
        BY <1>1, <1>10, <1>13, <2>1, <2>2 DEF HeapType
<1>21. Books(R)
    <2>1. 0 \in Addrs /\ Outside(0, x, y)
        BY <1>3, <1>12, <1>14, Sizes0 DEF Outside
    <2>2. R.mem[0] = H.mem[0]
        BY <2>1, <1>10, <1>13
    <2>3. R.end <= H.end /\ R.end \in Nat
        BY <1>2, <1>4, <1>7, <1>10, <1>12, <1>14
    <2>4. R.last \in Nat /\ R.end <= Size - R.last
        BY <1>0, <1>1, <1>4, <1>10, <2>3, Sizes0 DEF Books
    <2>5. \A g \in Handles : R.alloc[g] # 0 => g <= R.last
        BY <1>0, <1>10, <1>18 DEF Books
    <2>6. R.alloc[TestHandle] = 1
        BY <1>0, <1>18, Sizes0 DEF Books
    <2> QED
        BY <1>0, <1>10, <2>2, <2>4, <2>5, <2>6 DEF Books
<1>22. Handled(H, R, x, y, e, M)
    <2> SUFFICES ASSUME NEW g \in Handles, R.alloc[g] > 0
                 PROVE  \/ R.alloc[g] = H.alloc[g] /\ Outside(H.alloc[g] - 1, x, y)
                        \/ /\ R.alloc[g] - 1 \in M /\ R.alloc[g] - 1 < e
                           /\ R.mem[R.alloc[g] - 1].val > 0 /\ R.mem[R.alloc[g] - 1].of = g
        BY DEF Handled
    <2>1. CASE g = h
        <3>1. R.alloc[g] - 1 = new
            BY <1>12, <1>18, <2>1
        <3>2. new \in M /\ new < e
            BY <1>12, <1>14
        <3> QED
            BY <3>1, <3>2, <2>1, <1>10, <1>12, <1>17
    <2>2. CASE g # h
        <3>1. R.alloc[g] = H.alloc[g] /\ Outside(H.alloc[g] - 1, from, to) /\ H.alloc[g] \in Int
            BY <1>1, <1>2, <1>18, <2>2 DEF BlockOf, Reserved
        <3> QED
            BY <3>1, <1>12, <1>14 DEF Outside
    <2> QED
        BY <2>1, <2>2
<1> HIDE DEF M
<1>23. Fits(H, R, x, y, e, M)
    <2>1. x \in Starts(H) /\ y \in Starts(H)
        BY <1>2, <1>5, <1>6 DEF x, y, S
    <2>2. (y # H.end => e = y /\ R.end = H.end) /\ (y = H.end => R.end = e)
        <3>1. next = H.end => to = next
            BY <1>6
        <3>2. next # H.end => to # H.end
            BY <1>2, <1>4, <1>6
        <3>3. behind = 0 => nl = next
            BY <1>12 DEF nl
        <3> QED
            BY <1>10, <3>1, <3>2, <3>3 DEF y, e
    <2>3. \A b \in Addrs : Outside(b, x, y) /\ b < H.end => R.mem[b] = H.mem[b]
        BY <1>10, <1>13
    <2>4. ASSUME NEW c \in Starts(H), c < H.end, Outside(c, x, y), H.mem[c].val > 0
          PROVE  R.alloc[H.mem[c].of] = H.alloc[H.mem[c].of]
        <3>1. c # a
            BY <1>2, <1>14, <2>4 DEF Outside
        <3>2. H.mem[c].of # h /\ H.mem[c].of \in Handles
            BY <3>1, <2>4, <1>0, <1>2 DEF Sound, Segment, Owned, S
        <3> QED
            BY <3>2, <1>18
    <2>5. ~FreeEnd(H.mem, x, Starts(H) \cap (0..x)) \/ (x < e /\ R.mem[x].val > 0)
        <3>1. CASE new = a
            <4>1. x = new /\ x < e
                BY <3>1, <1>12, <1>14 DEF x
            <4> QED
                BY <4>1, <1>10, <1>12, <1>17
        <3>2. CASE new # a
            BY <3>2, <1>5 DEF x, S
        <3> QED
            BY <3>1, <3>2
    <2>6. ~FreeEnd(R.mem, e, M) \/ (y < H.end /\ H.mem[y].val > 0)
        <3>1. CASE behind = 0 \/ next = H.end
            <4>1. e = nl
                BY <3>1, <1>12 DEF e, nl
            <4> QED
                BY <4>1, <1>19
        <3>2. CASE ~(behind = 0 \/ next = H.end)
            <4>1. y = to /\ next < H.end
                BY <3>2, <1>2, <1>4 DEF y
            <4> QED
                BY <4>1, <1>6
        <3> QED
            BY <3>1, <3>2
    <2> QED
        BY <1>14, <1>19, <1>22, <2>1, <2>2, <2>3, <2>4, <2>5, <2>6 DEF Fits
<1>24. Sound(R)
    BY <1>0, <1>20, <1>23, Spliced
<1>25. R.mem[new].val < w.val
    BY <1>7, <1>10, <1>12, <1>17, <1>2 DEF len
<1> QED
    BY <1>10, <1>20, <1>21, <1>24, <1>25 DEF Good, R, a, w, new
\* A heap with the same words, whose blocks have the same handles.
LEMMA SoundSame ==
    ASSUME NEW H \in HeapType, Sound(H), NEW R \in HeapType, R.mem = H.mem, R.end = H.end,
           \A h \in Handles : H.alloc[h] > 0 \/ R.alloc[h] > 0 => R.alloc[h] = H.alloc[h]
    PROVE  Sound(R) /\ Starts(R) = Starts(H)
<1> DEFINE S == Starts(H)
<1>1. /\ Segment(H.mem, H.alloc, 0, H.end, S) /\ ~FreeEnd(H.mem, H.end, S)
      /\ Found(H.mem, H.alloc, H.end, S)
    BY DEF Sound
<1>2. Within(0, H.end) /\ H.mem \in Memory /\ \A a \in S : a \in Nat
    BY SoundPlaces, HeapFields
<1> HIDE DEF S
<1>3. \A a \in S : a < H.end /\ H.mem[a].val > 0 => R.alloc[H.mem[a].of] = H.alloc[H.mem[a].of]
    <2> SUFFICES ASSUME NEW a \in S, a < H.end, H.mem[a].val > 0
                 PROVE  R.alloc[H.mem[a].of] = H.alloc[H.mem[a].of]
        OBVIOUS
    <2>1. H.mem[a].of \in Handles /\ H.alloc[H.mem[a].of] = a + 1
        BY <1>1 DEF Segment, Owned
    <2>2. a + 1 > 0
        BY <1>2
    <2> QED
        BY <2>1, <2>2
<1>4. Segment(R.mem, R.alloc, 0, H.end, S) /\ ~FreeEnd(R.mem, H.end, S)
    <2>1. \A b \in Addrs : 0 <= b /\ b < H.end => H.mem[b] = H.mem[b]
        OBVIOUS
    <2>2. Segment(H.mem, R.alloc, 0, H.end, S)
        <3> DEFINE hi == H.end
                   al2 == R.alloc
        <3>1. Segment(H.mem, H.alloc, 0, hi, S) /\ Within(0, hi) /\ H.mem \in Memory
              /\ \A a \in S : a < hi /\ H.mem[a].val > 0 => al2[H.mem[a].of] = H.alloc[H.mem[a].of]
            BY <1>1, <1>2, <1>3
        <3> HIDE DEF hi, al2
        <3>2. Segment(H.mem, al2, 0, hi, S)
            BY <3>1, SegmentSame
        <3> QED
            BY <3>2 DEF hi, al2
    <2> QED
        BY <1>1, <2>2
<1>5. Found(R.mem, R.alloc, H.end, S)
    BY <1>1 DEF Found
<1> QED
    BY <1>4, <1>5, SoundFrom DEF S

\* handle_alloc
LEMMA HandleTakenIs ==
    ASSUME NEW H, Good(H), HandleRoom(H)
    PROVE  LET R == HandleTaken(H)
           IN /\ Good(R) /\ Entry(H) \in Handles /\ H.alloc[Entry(H)] = 0
              /\ R.alloc = [H.alloc EXCEPT ![Entry(H)] = Reserved] /\ R.mem = H.mem
<1> DEFINE h == Entry(H)
           R == HandleTaken(H)
           F == FreeEntries(H)
           last == IF F # {} THEN H.last ELSE H.last + 1
           al == [H.alloc EXCEPT ![h] = Reserved]
<1>0. H \in HeapType /\ Sound(H) /\ Books(H)
    BY DEF Good
<1>1. /\ H.mem \in Memory /\ H.alloc \in [Handles -> {Reserved} \cup 0..Size]
      /\ H.first_free \in Handles /\ H.last \in Handles /\ H.end \in 0..Size /\ H.compact \in BOOLEAN
    BY <1>0, HeapFields
<1>2. /\ H.last \in Nat /\ H.first_free \in Nat /\ H.end \in Nat /\ 1 <= H.first_free /\ H.last <= Size
      /\ H.first_free <= H.last + 1 /\ 1 <= H.last /\ H.end <= Size - H.last /\ Size \in Nat
    BY <1>0, <1>1, Sizes0 DEF Books
<1>3. R = [mem |-> H.mem, alloc |-> al, first_free |-> H.first_free, last |-> last, end |-> H.end,
           compact |-> H.compact]
    <2>1. R = [H EXCEPT !.alloc = al, !.last = last]
        BY <1>0, Zenon DEF HandleTaken, HeapType
    <2> HIDE DEF al, last
    <2> QED
        BY <2>1, <1>0, Zenon DEF HeapType
<1>4. h \in Handles /\ H.alloc[h] = 0 /\ h <= last /\ last \in Handles /\ H.end <= Size - last /\ H.last <= last
    <2>1. CASE F # {}
        <3>1. F \subseteq Nat
            BY <1>2 DEF FreeEntries
        <3>2. h \in F
            BY <2>1, <3>1, LeastIs DEF Entry
        <3>3. h \in Nat /\ h <= H.last /\ H.first_free <= h /\ H.alloc[h] = 0
            BY <3>2, <1>2 DEF FreeEntries
        <3>4. h \in Handles
            BY <3>3, <1>2, Sizes0
        <3> QED
            BY <2>1, <3>3, <3>4, <1>1, <1>2
    <2>2. CASE F = {}
        <3>1. h = H.last + 1
            <4>1. h = Greatest({H.first_free, H.last + 1})
                BY <2>2 DEF Entry
            <4>2. H.first_free \in Int /\ H.last + 1 \in Int
                BY <1>2
            <4>3. h = IF H.first_free <= H.last + 1 THEN H.last + 1 ELSE H.first_free
                BY <4>1, <4>2, GreatestOfTwo
            <4> QED
                BY <4>3, <1>2
        <3>2. Size - h >= H.end
            BY <2>2 DEF HandleRoom
        <3>3. h \in Nat /\ 1 <= h /\ h <= Size
            BY <1>2, <3>1, <3>2
        <3>4. h \in Handles
            BY <3>3, Sizes0
        <3>5. H.alloc[h] = 0
            BY <1>0, <1>2, <3>1, <3>4 DEF Books
        <3> QED
            BY <2>2, <3>1, <3>2, <3>3, <3>4, <3>5, <1>2
    <2> QED
        BY <2>1, <2>2
<1> HIDE DEF h, R, F, last, al
<1>5. /\ R.mem = H.mem /\ R.alloc = al /\ R.first_free = H.first_free /\ R.last = last /\ R.end = H.end
    BY <1>3
<1>6. al[h] = Reserved /\ (\A g \in Handles \ {h} : al[g] = H.alloc[g])
      /\ al \in [Handles -> {Reserved} \cup 0..Size]
    BY <1>1, <1>4 DEF al
<1>7. R \in HeapType
    BY <1>1, <1>3, <1>4, <1>6 DEF HeapType
<1>8. last \in Nat
    BY <1>4, Sizes0
<1>9. Books(R)
    <2>1. \A g \in Handles : R.alloc[g] # 0 => g <= R.last
        <3> TAKE g \in Handles
        <3>1. CASE g = h
            BY <3>1, <1>4, <1>5
        <3>2. CASE g # h
            <4>1. H.alloc[g] # 0 => g <= H.last
                BY <1>0 DEF Books
            <4> QED
                BY <3>2, <4>1, <1>2, <1>4, <1>5, <1>6, <1>8, Sizes0
        <3> QED
            BY <3>1, <3>2
    <2>2. R.alloc[TestHandle] = 1 /\ R.mem[0].ops = PlainOps
        BY <1>0, <1>4, <1>5, <1>6, Sizes0 DEF Books
    <2>3. R.first_free <= R.last + 1 /\ R.end <= Size - R.last
        BY <1>2, <1>4, <1>5, <1>8
    <2> QED
        BY <2>1, <2>2, <2>3 DEF Books
<1>10. \A g \in Handles : H.alloc[g] > 0 \/ R.alloc[g] > 0 => R.alloc[g] = H.alloc[g]
    BY <1>4, <1>5, <1>6 DEF Reserved
<1>11. Sound(R)
    BY <1>0, <1>5, <1>7, <1>10, SoundSame
<1> QED
    BY <1>4, <1>5, <1>7, <1>9, <1>11 DEF Good, R, h, al

\* A failed allocation gives its entry back.
LEMMA EntryGivenBack ==
    ASSUME NEW H, Good(H), NEW h \in Handles, H.alloc[h] = Reserved
    PROVE  Good(HandleFreed(H, h)) /\ HandleFreed(H, h).alloc = [H.alloc EXCEPT ![h] = 0]
           /\ HandleFreed(H, h).mem = H.mem
<1> DEFINE R == HandleFreed(H, h)
<1>0. H \in HeapType /\ Sound(H) /\ Books(H)
    BY DEF Good
<1>1. h # TestHandle
    BY <1>0 DEF Books, Reserved
<1>2. R \in HeapType /\ Books(R) /\ R.mem = H.mem /\ R.end = H.end /\ R.alloc = [H.alloc EXCEPT ![h] = 0]
    BY <1>0, <1>1, HandleFreedIs DEF Reserved
<1> HIDE DEF R
<1>3. \A g \in Handles : H.alloc[g] > 0 \/ R.alloc[g] > 0 => R.alloc[g] = H.alloc[g]
    BY <1>0, <1>2, HeapFields DEF Reserved
<1>4. Sound(R)
    BY <1>0, <1>2, <1>3, SoundSame
<1> QED
    BY <1>2, <1>4 DEF Good, R

\* The first fitting place is taken.
LEMMA PlacedIs ==
    ASSUME NEW H, Good(H), NEW h \in Handles, H.alloc[h] = Reserved, NEW size \in Nat \ {0},
           Fitting(H, size) # {}, NEW ops \in Ops \cup {None}
    PROVE  LET R == Placed(H, h, size, ops)
           IN Good(R) /\ \E a \in Nat : R.alloc = [H.alloc EXCEPT ![h] = a + 1]
<1> DEFINE F == Fitting(H, size)
           a == Least(F)
           left == -H.mem[a].val - size
           m1 == SetUsed(H.mem, a, size, h, ops)
           nl == a + size
           R == Placed(H, h, size, ops)
           S == Starts(H)
           y == IF a = H.end THEN a ELSE a - H.mem[a].val
           e == IF a = H.end THEN nl ELSE y
           m == IF a = H.end THEN m1 ELSE SetFree(m1, nl, left)
           al == [H.alloc EXCEPT ![h] = a + 1]
           en == IF a = H.end THEN nl ELSE H.end
           M == ({a, a} \cup {a, nl}) \cup {nl, e}
<1>0. H \in HeapType /\ Sound(H) /\ Books(H)
    BY DEF Good
<1>1. /\ H.mem \in Memory /\ H.alloc \in [Handles -> {Reserved} \cup 0..Size]
      /\ H.first_free \in Handles /\ H.last \in Handles /\ H.end \in 0..Size /\ H.compact \in BOOLEAN
    BY <1>0, HeapFields
<1>2. /\ 0 \in S /\ H.end \in S
      /\ \A c \in S : /\ c \in Nat /\ c <= H.end
                      /\ c < H.end => /\ c \in Addrs /\ H.mem[c].val \in Int /\ H.mem[c].val # 0
                                      /\ Length(H.mem[c]) = IF H.mem[c].val < 0 THEN -H.mem[c].val ELSE H.mem[c].val
    BY <1>0, SoundPlaces
<1>3. /\ H.end \in Nat /\ H.end <= Size /\ Size \in Nat /\ H.last \in Nat /\ 1 <= H.last
      /\ H.end <= Size - H.last
    BY <1>0, <1>1, Sizes0 DEF Books
<1>4. a \in F
    <2>1. F \subseteq Nat /\ F # {}
        BY <1>2 DEF Fitting
    <2> HIDE DEF F
    <2> QED
        BY <2>1, LeastIs
<1>5. a \in S /\ (a = H.end => Size - H.last - a >= size) /\ (a # H.end => -H.mem[a].val >= size)
    BY <1>4 DEF Fitting
<1>6. R = [mem |-> m, alloc |-> al, first_free |-> H.first_free, last |-> H.last, end |-> en,
           compact |-> H.compact]
    <2>1. R = [H EXCEPT !.mem = m, !.alloc = al, !.end = en]
        BY <1>0 DEF Placed, HeapType
    <2> HIDE DEF m, al, en, R
    <2> QED
        BY <2>1, <1>0, Zenon DEF HeapType
<1> HIDE DEF F, a, R, al
<1>8. a \in Nat /\ a <= H.end
    BY <1>2, <1>5
<1>9. /\ a = H.end => nl <= Size - H.last
      /\ a # H.end => /\ a < H.end /\ H.mem[a].val \in Int /\ H.mem[a].val < 0 /\ nl <= y /\ y = a + Length(H.mem[a])
                      /\ y \in S /\ y < H.end /\ H.mem[y].val > 0 /\ left = y - nl
    <2>1. CASE a = H.end
        BY <2>1, <1>3, <1>5, <1>8
    <2>2. CASE a # H.end
        <3>1. a < H.end
            BY <2>2, <1>3, <1>8
        <3>2. H.mem[a].val \in Int /\ H.mem[a].val < 0 /\ -H.mem[a].val >= size
            BY <3>1, <1>2, <1>5, <2>2
        <3>3. y = a + Length(H.mem[a]) /\ y = BehindOf(H, a)
            BY <2>2, <3>1, <3>2, <1>8 DEF Length, BehindOf, IsFree
        <3>4. y \in S /\ y < H.end /\ H.mem[y].val > 0
            BY <3>1, <3>3, <1>0, <1>5, BehindIs
        <3> QED
            BY <2>2, <3>1, <3>2, <3>3, <3>4, <1>8
    <2> QED
        BY <2>1, <2>2
<1>10. /\ nl \in Nat /\ a < nl /\ y \in Nat /\ e \in Nat /\ nl <= e /\ e <= Size /\ a <= y /\ y <= H.end
       /\ y \in S /\ nl <= Size /\ a \in Addrs /\ (a = H.end => y = a /\ e = nl) /\ (a # H.end => e = y)
    <2>1. nl \in Nat /\ a < nl
        BY <1>8
    <2>2. y \in S
        BY <1>5, <1>9
    <2>3. y \in Nat /\ y <= H.end /\ a <= y
        BY <1>2, <1>9, <2>1, <2>2, <1>8
    <2>4. e \in Nat /\ nl <= e /\ e <= Size
        BY <1>3, <1>9, <2>1, <2>3
    <2>5. nl <= Size
        BY <1>3, <2>1, <2>4
    <2>6. a \in Addrs
        BY <1>8, <2>1, <2>5, Sizes0
    <2> QED
        BY <2>1, <2>2, <2>3, <2>4, <2>5, <2>6
<1> HIDE DEF left
<1>11. /\ m1 \in Memory /\ \A b \in Addrs : ~(a <= b /\ b < nl) => m1[b] = H.mem[b]
       /\ m1[a].val = size /\ m1[a].of = h /\ Own(m1, a)
    <2>1. /\ m1 \in Memory /\ \A b \in Addrs : ~(a <= b /\ b < nl) => m1[b] = H.mem[b]
          /\ m1[a] = [val |-> size, of |-> h, ops |-> ops] /\ Own(m1, a)
        BY <1>1, <1>8, <1>10, UsedWords
    <2>2. m1[a].val = size /\ m1[a].of = h
        <3> HIDE DEF m1
        <3> QED
            BY <2>1
    <2> HIDE DEF m1
    <2> QED
        BY <2>1, <2>2
<1> HIDE DEF m1
<1>12. /\ m \in Memory /\ \A b \in Addrs : ~(nl <= b /\ b < e) => m[b] = m1[b]
       /\ e # nl => nl \in Addrs /\ m[nl].val = -(e - nl)
    <2>1. CASE a = H.end
        BY <2>1, <1>10, <1>11
    <2>2. CASE a # H.end
        <3>1. left \in Nat /\ nl + left = e /\ left = e - nl /\ nl + left <= Size
            BY <2>2, <1>9, <1>10
        <3>2. m = SetFree(m1, nl, left)
            BY <2>2
        <3>3. /\ SetFree(m1, nl, left) \in Memory
              /\ \A b \in Addrs : ~(nl <= b /\ b < nl + left) => SetFree(m1, nl, left)[b] = m1[b]
              /\ left > 0 => nl \in Addrs /\ SetFree(m1, nl, left)[nl].val = -left
            <4>1. m1 \in Memory /\ nl \in Nat /\ left \in Nat /\ nl + left <= Size
                BY <1>10, <1>11, <3>1
            <4> HIDE DEF nl
            <4> QED
                BY <4>1, FreeWords
        <3>4. e # nl => left > 0
            BY <1>10, <3>1
        <3> HIDE DEF m, e, nl
        <3> QED
            BY <3>1, <3>2, <3>3, <3>4
    <2> QED
        BY <2>1, <2>2
<1> HIDE DEF m
<1>13. /\ m[a].val = size /\ m[a].of = h /\ Own(m, a)
       /\ \A b \in Addrs : Outside(b, a, y) /\ b < H.end => m[b] = H.mem[b]
    <2>1. \A b \in Addrs : a <= b /\ b < a + size => m[b] = m1[b]
        BY <1>8, <1>10, <1>12, Sizes0
    <2>2. m1 \in Memory /\ a + size <= Size /\ m1[a].val = size /\ Own(m1, a) /\ a \in Addrs
        BY <1>10, <1>11
    <2>3. m[a] = m1[a] /\ Own(m, a)
        BY <2>1, <2>2, OwnSame
    <2>4. ASSUME NEW b \in Addrs, Outside(b, a, y), b < H.end PROVE m[b] = H.mem[b]
        <3>1. b \in Nat /\ (b < a \/ y <= b)
            BY <2>4, Sizes0 DEF Outside
        <3>2. ~(nl <= b /\ b < e) /\ ~(a <= b /\ b < nl)
            BY <3>1, <2>4, <1>3, <1>8, <1>9, <1>10
        <3> QED
            BY <3>2, <1>11, <1>12
    <2> QED
        BY <2>3, <2>4, <1>11
<1> HIDE DEF nl, y, e
<1>14. /\ R.mem = m /\ R.alloc = al /\ R.first_free = H.first_free /\ R.last = H.last /\ R.end = en
    BY <1>6
<1>15. al[h] = a + 1 /\ (\A g \in Handles \ {h} : al[g] = H.alloc[g])
       /\ al \in [Handles -> {Reserved} \cup 0..Size]
    BY <1>1, <1>3, <1>8, <1>10, Sizes0 DEF al
<1>16. /\ Segment(m, al, a, e, M) /\ Within(a, e)
       /\ FreeEnd(m, e, M) => e # nl
    <2>1. m \in Memory /\ m[a].of \in Handles /\ al[m[a].of] = a + 1 /\ m[a].val = nl - a
        BY <1>8, <1>12, <1>13, <1>15 DEF nl
    <2>2. /\ a \in Nat /\ a \in Addrs /\ nl \in Nat /\ e \in Nat /\ a <= a /\ a < nl /\ nl <= e /\ e <= Size
          /\ Own(m, a) /\ (e # nl => nl \in Addrs /\ m[nl].val = -(e - nl))
          /\ (a # a => a \in Addrs /\ m[a].val = -(a - a))
        BY <1>8, <1>10, <1>12, <1>13
    <2> QED
        BY <2>1, <2>2, ThreeParts
<1>17. en \in Nat /\ en <= Size - H.last /\ en \in 0..Size
    BY <1>3, <1>9, <1>10
<1>18. R \in HeapType
    BY <1>1, <1>6, <1>12, <1>15, <1>17 DEF HeapType
<1>19. h # TestHandle /\ a # 0 /\ 0 < a
    <2>1. h # TestHandle
        BY <1>0 DEF Books, Reserved
    <2>2. 0 < H.end /\ H.mem[0].val > 0
        BY TestBlock
    <2> QED
        BY <2>1, <2>2, <1>8, <1>9
<1>20. Books(R)
    <2>1. 0 \in Addrs /\ Outside(0, a, y) /\ 0 < H.end
        BY <1>3, <1>8, <1>19, Sizes0 DEF Outside
    <2>2. R.mem[0] = H.mem[0]
        BY <2>1, <1>13, <1>14
    <2>3. R.alloc[TestHandle] = 1
        BY <1>0, <1>14, <1>15, <1>19, Sizes0 DEF Books
    <2>4. \A g \in Handles : R.alloc[g] # 0 => g <= R.last
        BY <1>0, <1>14, <1>15 DEF Books, Reserved
    <2> QED
        BY <1>0, <1>14, <1>17, <2>2, <2>3, <2>4 DEF Books
<1>21. /\ Segment(H.mem, H.alloc, 0, H.end, S) /\ ~FreeEnd(H.mem, H.end, S)
       /\ Found(H.mem, H.alloc, H.end, S)
    BY <1>0 DEF Sound
<1> HIDE DEF S
<1>22. ASSUME NEW c \in S, c < H.end, H.mem[c].val > 0 PROVE Outside(c, a, y)
    <2>1. c \in Nat
        BY <1>2
    <2>2. CASE a = H.end
        BY <2>1, <2>2, <1>22 DEF Outside
    <2>3. CASE a # H.end
        <3>1. c # a
            BY <2>3, <1>9, <1>22
        <3>2. a < c => y <= c
            <4>1. a < c => a + Length(H.mem[a]) <= c
                BY <1>5, <1>21 DEF Segment, Tiles
            <4> QED
                BY <4>1, <2>3, <1>9
        <3> QED
            BY <2>1, <3>1, <3>2, <1>8 DEF Outside
    <2> QED
        BY <2>2, <2>3
<1>23. Handled(H, R, a, y, e, M)
    <2> SUFFICES ASSUME NEW g \in Handles, R.alloc[g] > 0
                 PROVE  \/ R.alloc[g] = H.alloc[g] /\ Outside(H.alloc[g] - 1, a, y)
                        \/ /\ R.alloc[g] - 1 \in M /\ R.alloc[g] - 1 < e
                           /\ R.mem[R.alloc[g] - 1].val > 0 /\ R.mem[R.alloc[g] - 1].of = g
        BY DEF Handled
    <2>1. CASE g = h
        <3>1. R.alloc[g] - 1 = a
            BY <1>8, <1>14, <1>15, <2>1
        <3>2. a \in M /\ a < e
            BY <1>8, <1>10
        <3> QED
            BY <3>1, <3>2, <2>1, <1>13, <1>14
    <2>2. CASE g # h
        <3>1. R.alloc[g] = H.alloc[g]
            BY <1>14, <1>15, <2>2
        <3>2. H.alloc[g] - 1 \in S /\ H.alloc[g] - 1 < H.end /\ H.mem[H.alloc[g] - 1].val > 0
            BY <3>1, <1>21 DEF Found
        <3> QED
            BY <3>1, <3>2, <1>22
    <2> QED
        BY <2>1, <2>2
<1> HIDE DEF M
<1>24. Fits(H, R, a, y, e, M)
    <2>1. a \in Starts(H) /\ y \in Starts(H) /\ a <= y /\ e \in Nat
        BY <1>5, <1>10 DEF S
    <2>2. (y # H.end => e = y /\ R.end = H.end) /\ (y = H.end => R.end = e)
        BY <1>3, <1>9, <1>10, <1>14 DEF y, e
    <2>3. \A b \in Addrs : Outside(b, a, y) /\ b < H.end => R.mem[b] = H.mem[b]
        BY <1>13, <1>14
    <2>4. ASSUME NEW c \in Starts(H), c < H.end, Outside(c, a, y), H.mem[c].val > 0
          PROVE  R.alloc[H.mem[c].of] = H.alloc[H.mem[c].of]
        <3>1. H.mem[c].of \in Handles /\ H.alloc[H.mem[c].of] = c + 1
            BY <2>4, <1>21 DEF Segment, Owned, S
        <3>2. c + 1 > 0
            BY <2>4, <1>2 DEF S
        <3>3. H.mem[c].of # h
            BY <3>1, <3>2 DEF Reserved
        <3> QED
            BY <3>1, <3>3, <1>14, <1>15
    <2>5. a < e /\ R.mem[a].val > 0
        BY <1>8, <1>10, <1>13, <1>14
    <2>6. ~FreeEnd(R.mem, e, M) \/ (y < H.end /\ H.mem[y].val > 0)
        BY <1>9, <1>10, <1>14, <1>16 DEF e
    <2> QED
        BY <1>14, <1>16, <1>23, <2>1, <2>2, <2>3, <2>4, <2>5, <2>6 DEF Fits
<1>25. Sound(R)
    BY <1>0, <1>18, <1>24, Spliced
<1> QED
    BY <1>8, <1>14, <1>18, <1>20, <1>25 DEF Good, R, al
(***************************************************************************)
(* Compaction.                                                             *)
(***************************************************************************)
\* A block of len words for the handle h settles at p in a sound heap K: behind
\* its end (x = y = K.end), or in the free block from x to y; what is left of
\* the words from x to e in front of it and behind it is free.
Settles(K, R, h, x, y, e, p, len) ==
    /\ K.alloc[h] = 0 /\ R.alloc[h] = p + 1
    /\ \A g \in Handles \ {h} : R.alloc[g] = K.alloc[g]
    /\ x \in Starts(K) /\ IF x = K.end THEN y = x /\ R.end = e
                          ELSE K.mem[x].val < 0 /\ y = x + Length(K.mem[x]) /\ e = y /\ R.end = K.end
    /\ \A b \in Addrs : Outside(b, x, y) /\ b < K.end => R.mem[b] = K.mem[b]
    /\ p \in Nat /\ len \in Nat \ {0} /\ e \in Nat /\ x <= p /\ p + len <= e /\ e <= Size
    /\ R.mem[p].val = len /\ R.mem[p].of = h /\ Own(R.mem, p)
    /\ x # p => R.mem[x].val = -(p - x)
    /\ e # p + len => R.mem[p + len].val = -(e - (p + len))
    /\ e # p + len => y < K.end
SettledAt(x, e, p, len) == ({x, p} \cup {p, p + len}) \cup {p + len, e}

LEMMA Settled ==
    ASSUME NEW K \in HeapType, Sound(K), NEW R \in HeapType, NEW h \in Handles,
           NEW x, NEW y, NEW e, NEW p, NEW len, Settles(K, R, h, x, y, e, p, len),
           x # p => x = K.end
    PROVE  Sound(R) /\ Starts(R) = Replaced(K, x, y, SettledAt(x, e, p, len)) /\ p \in Starts(R)
<1> DEFINE S == Starts(K)
           M == SettledAt(x, e, p, len)
           nl == p + len
<1>1. /\ K.mem \in Memory /\ K.alloc \in [Handles -> {Reserved} \cup 0..Size] /\ K.end \in 0..Size
      /\ R.mem \in Memory /\ R.alloc \in [Handles -> {Reserved} \cup 0..Size] /\ R.end \in 0..Size
    BY HeapFields
<1>2. /\ K.end \in S
      /\ \A c \in S : /\ c \in Nat /\ c <= K.end
                      /\ c < K.end => /\ c \in Addrs /\ K.mem[c].val \in Int /\ K.mem[c].val # 0
                                      /\ Length(K.mem[c]) \in Nat \ {0}
    BY SoundPlaces
<1>3. /\ Segment(K.mem, K.alloc, 0, K.end, S) /\ ~FreeEnd(K.mem, K.end, S)
      /\ Found(K.mem, K.alloc, K.end, S)
    BY DEF Sound
<1>4. /\ x \in S /\ x \in Nat /\ x <= K.end /\ K.end \in Nat /\ K.end <= Size /\ Size \in Nat
      /\ p \in Nat /\ len \in Nat \ {0} /\ nl \in Nat /\ e \in Nat /\ p < nl /\ x <= p /\ nl <= e /\ e <= Size
    BY <1>1, <1>2, Sizes0 DEF Settles
<1>5. /\ x = K.end => y = x /\ R.end = e
      /\ x # K.end => /\ x < K.end /\ K.mem[x].val < 0 /\ y = x + Length(K.mem[x]) /\ e = y /\ R.end = K.end
                      /\ x = p /\ y = BehindOf(K, x)
    <2>1. x # K.end => x < K.end /\ K.mem[x].val < 0 /\ y = x + Length(K.mem[x]) /\ e = y /\ R.end = K.end
                       /\ K.mem[x].val \in Int
        BY <1>2, <1>4 DEF Settles
    <2>2. x # K.end => y = BehindOf(K, x)
        BY <2>1, <1>4 DEF BehindOf, IsFree, Length
    <2> QED
        BY <2>1, <2>2 DEF Settles
<1>6. /\ y \in S /\ y \in Nat /\ x <= y /\ y <= K.end
      /\ x # K.end => y < K.end /\ K.mem[y].val > 0
    <2>1. CASE x = K.end
        BY <2>1, <1>4, <1>5
    <2>2. CASE x # K.end
        <3>1. y \in S /\ x <= y /\ y < K.end /\ K.mem[y].val > 0
            BY <2>2, <1>4, <1>5, BehindIs
        <3> QED
            BY <3>1, <1>2
    <2> QED
        BY <2>1, <2>2
<1>7. p \in Addrs /\ (x # p => x \in Addrs) /\ (e # nl => nl \in Addrs)
    BY <1>4, Sizes0
<1> HIDE DEF S, M, nl
<1>8. /\ Segment(R.mem, R.alloc, x, e, M) /\ Within(x, e)
      /\ FreeEnd(R.mem, e, M) => e # nl
    <2>1. /\ R.mem[p].val = nl - p /\ R.mem[p].of \in Handles /\ R.alloc[R.mem[p].of] = p + 1 /\ Own(R.mem, p)
        BY <1>4 DEF Settles, nl
    <2>2. /\ x # p => x \in Addrs /\ R.mem[x].val = -(p - x)
          /\ e # nl => nl \in Addrs /\ R.mem[nl].val = -(e - nl)
        BY <1>7 DEF Settles, nl
    <2> QED
        BY <1>1, <1>4, <1>7, <2>1, <2>2, ThreeParts DEF M, SettledAt, nl
<1>9. ASSUME NEW c \in S, c < K.end, K.mem[c].val > 0 PROVE Outside(c, x, y)
    <2>1. c \in Nat
        BY <1>2
    <2>2. CASE x = K.end
        BY <2>1, <2>2, <1>9 DEF Outside
    <2>3. CASE x # K.end
        <3>1. c # x
            BY <2>3, <1>1, <1>2, <1>5, <1>9
        <3>2. x < c => y <= c
            BY <2>3, <1>3, <1>4, <1>5 DEF Segment, Tiles
        <3> QED
            BY <2>1, <3>1, <3>2, <1>4 DEF Outside
    <2> QED
        BY <2>2, <2>3
<1>10. Handled(K, R, x, y, e, M)
    <2> SUFFICES ASSUME NEW g \in Handles, R.alloc[g] > 0
                 PROVE  \/ R.alloc[g] = K.alloc[g] /\ Outside(K.alloc[g] - 1, x, y)
                        \/ /\ R.alloc[g] - 1 \in M /\ R.alloc[g] - 1 < e
                           /\ R.mem[R.alloc[g] - 1].val > 0 /\ R.mem[R.alloc[g] - 1].of = g
        BY DEF Handled
    <2>1. CASE g = h
        <3>1. R.alloc[g] - 1 = p
            BY <1>4, <2>1 DEF Settles
        <3>2. p \in M /\ p < e
            BY <1>4 DEF M, SettledAt
        <3>3. R.mem[p].val > 0 /\ R.mem[p].of = h
            BY <1>4 DEF Settles
        <3> QED
            BY <3>1, <3>2, <3>3, <2>1
    <2>2. CASE g # h
        <3>1. R.alloc[g] = K.alloc[g]
            BY <2>2 DEF Settles
        <3>2. K.alloc[g] - 1 \in S /\ K.alloc[g] - 1 < K.end /\ K.mem[K.alloc[g] - 1].val > 0
            BY <3>1, <1>3 DEF Found
        <3> QED
            BY <3>1, <3>2, <1>9
    <2> QED
        BY <2>1, <2>2
<1>11. Fits(K, R, x, y, e, M)
    <2>1. x \in Starts(K) /\ y \in Starts(K) /\ x <= y /\ e \in Nat
        BY <1>4, <1>6 DEF S
    <2>2. (y # K.end => e = y /\ R.end = K.end) /\ (y = K.end => R.end = e)
        BY <1>4, <1>5, <1>6
    <2>3. \A b \in Addrs : Outside(b, x, y) /\ b < K.end => R.mem[b] = K.mem[b]
        BY DEF Settles
    <2>4. ASSUME NEW c \in Starts(K), c < K.end, Outside(c, x, y), K.mem[c].val > 0
          PROVE  R.alloc[K.mem[c].of] = K.alloc[K.mem[c].of]
        <3>1. K.mem[c].of \in Handles /\ K.alloc[K.mem[c].of] = c + 1
            BY <2>4, <1>3 DEF Segment, Owned, S
        <3>2. c + 1 > 0
            BY <2>4, <1>2 DEF S
        <3>3. K.mem[c].of # h
            BY <3>1, <3>2 DEF Settles
        <3> QED
            BY <3>1, <3>3 DEF Settles
    <2>5. ~FreeEnd(K.mem, x, Starts(K) \cap (0..x)) \/ (x < e /\ R.mem[x].val > 0)
        <3>1. CASE x = p
            <4>1. x < e
                BY <3>1, <1>4
            <4> QED
                BY <3>1, <4>1, <1>4 DEF Settles
        <3>2. CASE x # p
            <4>1. S \cap (0..K.end) = S
                <5>1. S \subseteq 0..K.end
                    BY SoundPlaces DEF S
                <5> QED
                    BY <5>1
            <4> QED
                BY <3>2, <4>1, <1>3, <1>4 DEF S
        <3> QED
            BY <3>1, <3>2
    <2>6. ~FreeEnd(R.mem, e, M) \/ (y < K.end /\ K.mem[y].val > 0)
        <3>1. CASE e = nl
            BY <3>1, <1>8
        <3>2. CASE e # nl
            <4>1. y < K.end
                BY <3>2 DEF Settles, nl
            <4> QED
                BY <4>1, <1>4, <1>5, <1>6
        <3> QED
            BY <3>1, <3>2
    <2> QED
        BY <1>8, <1>10, <2>1, <2>2, <2>3, <2>4, <2>5, <2>6 DEF Fits
<1>12. Sound(R) /\ Starts(R) = Replaced(K, x, y, M)
    BY <1>11, Spliced
<1>13. p \in Starts(R)
    BY <1>12 DEF Replaced, M, SettledAt
<1> QED
    BY <1>12, <1>13 DEF M

\* handle_table_shrink
LEMMA TableShrunkIs ==
    ASSUME NEW H, Good(H)
    PROVE  LET T == TableShrunk(H)
           IN /\ Good(T) /\ T.mem = H.mem /\ T.end = H.end /\ T.alloc = H.alloc /\ Starts(T) = Starts(H)
<1> DEFINE D == {h \in 1..H.last : H.alloc[h] # 0}
           last == Greatest(D)
           ff == IF last < H.first_free THEN last + 1 ELSE H.first_free
           T == TableShrunk(H)
<1>0. H \in HeapType /\ Sound(H) /\ Books(H)
    BY DEF Good
<1>1. /\ H.mem \in Memory /\ H.alloc \in [Handles -> {Reserved} \cup 0..Size]
      /\ H.first_free \in Handles /\ H.last \in Handles /\ H.end \in 0..Size /\ H.compact \in BOOLEAN
    BY <1>0, HeapFields
<1>2. /\ H.last \in Nat /\ H.first_free \in Nat /\ H.end \in Nat /\ 1 <= H.first_free /\ H.last <= Size
      /\ H.first_free <= Size /\ 1 <= H.last /\ H.end <= Size - H.last /\ Size \in Nat
    BY <1>0, <1>1, Sizes0 DEF Books
<1>3. last \in D /\ \A y \in D : y <= last
    <2>1. D \subseteq 0..H.last
        BY <1>2
    <2>2. TestHandle \in D
        BY <1>0, <1>2 DEF Books, TestHandle
    <2> HIDE DEF D
    <2> QED
        BY <2>1, <2>2, <1>2, GreatestIs
<1>4. T = [mem |-> H.mem, alloc |-> H.alloc, first_free |-> ff, last |-> last, end |-> H.end,
           compact |-> H.compact]
    <2>1. T = [H EXCEPT !.last = last, !.first_free = ff]
        BY <1>0, Zenon DEF TableShrunk, HeapType
    <2> HIDE DEF last, ff, T
    <2> QED
        BY <2>1, <1>0, Zenon DEF HeapType
<1>5. last \in Nat /\ 1 <= last /\ last <= H.last
    BY <1>2, <1>3
<1> HIDE DEF last, T
<1>6. ff \in Nat /\ 1 <= ff /\ ff <= Size /\ ff <= last + 1
    BY <1>2, <1>5
<1> HIDE DEF ff
<1>7. T.mem = H.mem /\ T.alloc = H.alloc /\ T.end = H.end /\ T.first_free = ff /\ T.last = last
    BY <1>4
<1>8. T \in HeapType
    <2>1. ff \in Handles /\ last \in Handles
        BY <1>2, <1>5, <1>6, Sizes0
    <2> QED
        BY <1>1, <1>4, <2>1 DEF HeapType
<1>9. Sound(T) /\ Starts(T) = Starts(H)
    BY <1>0, <1>7, <1>8, SoundSame
<1>10. Books(T)
    <2>1. ASSUME NEW h \in Handles, H.alloc[h] # 0 PROVE h <= last
        <3>1. h <= H.last /\ h \in Nat /\ 1 <= h
            BY <1>0, <2>1, Sizes0 DEF Books
        <3>2. h \in D
            BY <3>1, <1>2, <2>1
        <3> QED
            BY <3>2, <1>3
    <2>2. H.end <= Size - last
        BY <1>2, <1>5
    <2> QED
        BY <1>0, <1>6, <1>7, <2>1, <2>2 DEF Books
<1> QED
    BY <1>7, <1>8, <1>9, <1>10 DEF Good, T
CompactState == [heap : HeapType, block : Nat, hole : Int, shift : Int, ret : BOOLEAN]
\* The heap that is packed so far: the blocks in front of the one looked at.
Top(s) == s.block + s.shift
Packed(s) ==
    [mem |-> s.heap.mem, first_free |-> s.heap.first_free, last |-> s.heap.last, end |-> Top(s),
     alloc |-> [h \in Handles |-> IF s.heap.alloc[h] > s.block THEN 0 ELSE s.heap.alloc[h]],
     compact |-> s.heap.compact]
\* Half-way through the compaction of T: the packed blocks are a sound heap, the
\* blocks from this one on are as they were, and the hole is a free block of the
\* packed heap.
Half(T, s) ==
    /\ s.heap.end = T.end /\ s.heap.last = T.last /\ s.heap.first_free = T.first_free
    /\ s.block \in Starts(T) /\ s.shift <= 0 /\ 0 < Top(s)
    /\ Sound(Packed(s))
    /\ \A b \in Addrs : s.block <= b => s.heap.mem[b] = T.mem[b]
    /\ \A h \in Handles :
            IF T.alloc[h] > s.block \/ T.alloc[h] <= 0 THEN s.heap.alloc[h] = T.alloc[h]
            ELSE 0 < s.heap.alloc[h] /\ s.heap.alloc[h] <= s.block
    /\ \A h \in Handles :
            T.alloc[h] > 0 /\ T.mem[T.alloc[h] - 1].ops.move = "never" => s.heap.alloc[h] = T.alloc[h]
    /\ s.hole # NoHole => /\ s.hole \in Starts(Packed(s)) /\ s.hole < Top(s)
                          /\ s.heap.mem[s.hole].val < 0
    /\ s.heap.mem[0] = T.mem[0]

LEMMA PackedType ==
    ASSUME NEW s \in CompactState, s.heap.end <= Size, s.block <= s.heap.end, s.shift <= 0, 0 < Top(s)
    PROVE  /\ Packed(s) \in HeapType /\ Packed(s).mem = s.heap.mem /\ Packed(s).end = Top(s)
           /\ Packed(s).alloc = [h \in Handles |-> IF s.heap.alloc[h] > s.block THEN 0 ELSE s.heap.alloc[h]]
           /\ Top(s) \in Nat /\ Top(s) <= s.block
<1> DEFINE al == [h \in Handles |-> IF s.heap.alloc[h] > s.block THEN 0 ELSE s.heap.alloc[h]]
<1>1. /\ s.heap \in HeapType /\ s.block \in Nat /\ s.shift \in Int
    BY DEF CompactState
<1>2. /\ s.heap.mem \in Memory /\ s.heap.alloc \in [Handles -> {Reserved} \cup 0..Size] /\ s.heap.first_free \in Handles
      /\ s.heap.last \in Handles /\ s.heap.end \in 0..Size /\ s.heap.compact \in BOOLEAN
    BY <1>1, HeapFields
<1>3. al \in [Handles -> {Reserved} \cup 0..Size]
    BY <1>2, Sizes0
<1> HIDE DEF al
<1>4. Top(s) \in 0..Size /\ Top(s) \in Nat /\ Top(s) <= s.block
    BY <1>1, <1>2, Sizes0 DEF Top
<1>5. Packed(s) = [mem |-> s.heap.mem, first_free |-> s.heap.first_free, last |-> s.heap.last, end |-> Top(s),
                   alloc |-> al, compact |-> s.heap.compact]
    BY DEF Packed, al
<1>6. Packed(s) \in HeapType
    BY <1>2, <1>3, <1>4, <1>5 DEF HeapType
<1>7. Packed(s).mem = s.heap.mem /\ Packed(s).end = Top(s) /\ Packed(s).alloc = al
    BY <1>5
<1> QED
    BY <1>4, <1>6, <1>7 DEF al

\* What is known of the block looked at.
LEMMA HalfBlock ==
    ASSUME NEW T, Good(T), NEW s \in CompactState, Half(T, s)
    PROVE  /\ s.block \in Nat /\ s.block <= T.end /\ T.end <= Size /\ Size \in Nat /\ T.end \in Nat
           /\ Packed(s) \in HeapType /\ Packed(s).mem = s.heap.mem /\ Packed(s).end = Top(s)
           /\ Packed(s).alloc = [h \in Handles |-> IF s.heap.alloc[h] > s.block THEN 0 ELSE s.heap.alloc[h]]
           /\ Top(s) \in Nat /\ Top(s) <= s.block
           /\ s.block < T.end =>
                LET w == s.heap.mem[s.block]
                IN /\ w = T.mem[s.block] /\ s.block \in Addrs /\ w.val \in Int /\ w.val # 0
                   /\ Length(w) \in Nat \ {0} /\ Length(w) = IF w.val < 0 THEN -w.val ELSE w.val
                   /\ s.block + Length(w) \in Starts(T) /\ s.block + Length(w) <= T.end
                   /\ \A c \in Starts(T) : s.block < c => s.block + Length(w) <= c
                   /\ w.val > 0 => /\ w.of \in Handles /\ T.alloc[w.of] = s.block + 1
                                   /\ s.heap.alloc[w.of] = s.block + 1 /\ Own(s.heap.mem, s.block)
<1>0. T \in HeapType /\ Sound(T) /\ T.mem \in Memory
    BY HeapFields DEF Good
<1>1. s.block \in Starts(T) /\ s.heap.end = T.end /\ s.shift <= 0 /\ 0 < Top(s)
    BY DEF Half
<1>2. s.block \in Nat /\ s.block <= T.end /\ T.end <= Size /\ Size \in Nat /\ T.end \in Nat
    BY <1>0, <1>1, SoundPlaces, Sizes0 DEF Within
<1>3. /\ Packed(s) \in HeapType /\ Packed(s).mem = s.heap.mem /\ Packed(s).end = Top(s)
      /\ Packed(s).alloc = [h \in Handles |-> IF s.heap.alloc[h] > s.block THEN 0 ELSE s.heap.alloc[h]]
      /\ Top(s) \in Nat /\ Top(s) <= s.block
    BY <1>1, <1>2, PackedType
<1> DEFINE b == s.block
           w == s.heap.mem[b]
<1>4. ASSUME b < T.end
      PROVE  /\ w = T.mem[b] /\ b \in Addrs /\ w.val \in Int /\ w.val # 0
             /\ Length(w) \in Nat \ {0} /\ Length(w) = IF w.val < 0 THEN -w.val ELSE w.val
             /\ b + Length(w) \in Starts(T) /\ b + Length(w) <= T.end
             /\ \A c \in Starts(T) : b < c => b + Length(w) <= c
             /\ w.val > 0 => /\ w.of \in Handles /\ T.alloc[w.of] = b + 1
                             /\ s.heap.alloc[w.of] = b + 1 /\ Own(s.heap.mem, b)
    <2>1. /\ b \in Addrs /\ T.mem[b].val \in Int /\ T.mem[b].val # 0 /\ Length(T.mem[b]) \in Nat \ {0}
          /\ Length(T.mem[b]) = IF T.mem[b].val < 0 THEN -T.mem[b].val ELSE T.mem[b].val
          /\ b + Length(T.mem[b]) \in Starts(T) /\ b + Length(T.mem[b]) <= T.end
        BY <1>0, <1>1, <1>4, SoundPlaces
    <2>2. w = T.mem[b]
        BY <1>2, <2>1 DEF Half
    <2>3. \A c \in Starts(T) : b < c => b + Length(T.mem[b]) <= c
        BY <1>0, <1>1 DEF Sound, Segment, Tiles
    <2>4. ASSUME T.mem[b].val > 0
          PROVE  /\ T.mem[b].of \in Handles /\ T.alloc[T.mem[b].of] = b + 1
                 /\ s.heap.alloc[T.mem[b].of] = b + 1 /\ Own(s.heap.mem, b)
        <3>1. T.mem[b].of \in Handles /\ T.alloc[T.mem[b].of] = b + 1 /\ Own(T.mem, b)
            BY <1>0, <1>1, <1>4, <2>4 DEF Sound, Segment, Owned
        <3>2. s.heap.alloc[T.mem[b].of] = b + 1
            BY <1>2, <3>1 DEF Half
        <3> DEFINE len == T.mem[b].val
        <3>3. len \in Nat \ {0} /\ b + len <= Size
            BY <1>2, <2>1, <2>4
        <3>4. \A d \in Addrs : b <= d /\ d < b + len => s.heap.mem[d] = T.mem[d]
            BY DEF Half
        <3> HIDE DEF len
        <3>5. T.mem[b].val = len
            BY DEF len
        <3>6. Own(s.heap.mem, b)
            BY <1>0, <2>1, <3>1, <3>3, <3>4, <3>5, OwnSame
        <3> QED
            BY <3>1, <3>2, <3>6
    <2> QED
        BY <2>1, <2>2, <2>3, <2>4
<1> QED
    BY <1>2, <1>3, <1>4

\* The block of s lands at p, among the words from x to e; then the state is r.
Lands(s, r, x, y, e, p) ==
    LET w == s.heap.mem[s.block]
        m == r.heap.mem
    IN /\ r.block = s.block + w.val /\ r.shift <= 0
       /\ r.heap.end = s.heap.end /\ r.heap.last = s.heap.last /\ r.heap.first_free = s.heap.first_free
       /\ r.heap.alloc = [s.heap.alloc EXCEPT ![w.of] = p + 1]
       /\ x \in Starts(Packed(s))
       /\ IF x = Top(s) THEN y = x /\ Top(r) = e
          ELSE s.heap.mem[x].val < 0 /\ y = x + Length(s.heap.mem[x]) /\ e = y /\ Top(r) = Top(s)
       /\ p \in Nat /\ e \in Nat /\ x <= p /\ p + w.val <= e /\ e <= Size /\ p <= s.block
       /\ m[p].val = w.val /\ m[p].of = w.of /\ Own(m, p)
       /\ x # p => m[x].val = -(p - x) /\ x = Top(s)
       /\ e # p + w.val => m[p + w.val].val = -(e - (p + w.val)) /\ y < Top(s)
       /\ \A b \in Addrs : Outside(b, x, y) /\ b < Top(s) => m[b] = s.heap.mem[b]
       /\ \A b \in Addrs : r.block <= b => m[b] = s.heap.mem[b]
       /\ r.hole # NoHole => \/ r.hole = s.hole /\ x = Top(s)
                             \/ r.hole = x /\ x # p
                             \/ r.hole = p + w.val /\ e # p + w.val
       /\ w.ops.move # "never" \/ p = s.block

LEMMA Landed ==
    ASSUME NEW T, Good(T), NEW s \in CompactState, Half(T, s), s.block < T.end,
           s.heap.mem[s.block].val > 0,
           NEW r \in CompactState, NEW x, NEW y, NEW e, NEW p, Lands(s, r, x, y, e, p)
    PROVE  Half(T, r)
<1> DEFINE K == Packed(s)
           R == Packed(r)
           w == s.heap.mem[s.block]
           h == w.of
           len == w.val
<1>0. T \in HeapType /\ Sound(T) /\ Books(T)
    BY DEF Good
<1>1. /\ s.block \in Nat /\ s.block <= T.end /\ T.end <= Size /\ Size \in Nat /\ T.end \in Nat
      /\ K \in HeapType /\ K.mem = s.heap.mem /\ K.end = Top(s)
      /\ K.alloc = [g \in Handles |-> IF s.heap.alloc[g] > s.block THEN 0 ELSE s.heap.alloc[g]]
      /\ Top(s) \in Nat /\ Top(s) <= s.block
    BY HalfBlock
<1>2. /\ w = T.mem[s.block] /\ s.block \in Addrs /\ len \in Nat \ {0}
      /\ s.block + len \in Starts(T) /\ s.block + len <= T.end
      /\ \A c \in Starts(T) : s.block < c => s.block + len <= c
      /\ h \in Handles /\ T.alloc[h] = s.block + 1 /\ s.heap.alloc[h] = s.block + 1
    <2>1. len > 0
        OBVIOUS
    <2>2. Length(w) = len /\ len \in Nat \ {0}
        <3>1. len \in Int /\ Length(w) = IF len < 0 THEN -len ELSE len
            BY HalfBlock
        <3> HIDE DEF len
        <3> QED
            BY <2>1, <3>1
    <2> QED
        BY <2>1, <2>2, HalfBlock
<1> HIDE DEF K, R, w
<1>3. /\ r.block = s.block + len /\ r.shift <= 0 /\ r.block \in Nat /\ r.shift \in Int /\ s.block < r.block
      /\ r.heap.end = T.end /\ r.heap.last = T.last /\ r.heap.first_free = T.first_free
      /\ p \in Nat /\ e \in Nat /\ x <= p /\ p + len <= e /\ e <= Size /\ p <= s.block /\ p + 1 <= r.block
    <2>1. r.block \in Nat /\ r.shift \in Int
        BY DEF CompactState
    <2>2. r.block = s.block + len /\ r.shift <= 0 /\ p \in Nat /\ e \in Nat /\ x <= p /\ p + len <= e /\ e <= Size /\ p <= s.block
        BY DEF Lands, w
    <2>3. r.heap.end = T.end /\ r.heap.last = T.last /\ r.heap.first_free = T.first_free
        BY DEF Lands, Half
    <2> QED
        BY <1>1, <1>2, <2>1, <2>2, <2>3
<1>4. x \in Starts(K) /\ x \in Nat /\ x <= Top(s)
      /\ (x = Top(s) => y = x /\ Top(r) = e)
      /\ (x # Top(s) => K.mem[x].val < 0 /\ y = x + Length(K.mem[x]) /\ e = y /\ Top(r) = Top(s))
    <2>1. Sound(K) /\ x \in Starts(K)
        BY DEF Half, Lands, K
    <2>2. x \in Nat /\ x <= K.end
        BY <1>1, <2>1, SoundPlaces
    <2> QED
        BY <1>1, <2>1, <2>2 DEF Lands
<1>5. 0 < x
    <2>1. T.mem[0].val > 0 /\ s.heap.mem[0] = T.mem[0] /\ 0 < Top(s)
        BY TestBlock DEF Half
    <2>2. T.mem[0].val \in Int
        BY <1>0, Sizes0, Words, HeapFields
    <2>3. x # 0
        BY <1>1, <1>4, <2>1, <2>2
    <2> QED
        BY <2>3, <1>4
<1>6. 0 < Top(r)
    <2>1. x = Top(s) => Top(r) = e
        BY <1>4
    <2>2. e > 0
        BY <1>2, <1>3
    <2>3. x # Top(s) => Top(r) = Top(s)
        BY <1>4
    <2> QED
        BY <2>1, <2>2, <2>3, <1>1, <1>4, <1>5
<1>7. /\ R \in HeapType /\ R.mem = r.heap.mem /\ R.end = Top(r)
      /\ R.alloc = [g \in Handles |-> IF r.heap.alloc[g] > r.block THEN 0 ELSE r.heap.alloc[g]]
    BY <1>1, <1>2, <1>3, <1>6, PackedType DEF R
<1>8. /\ s.heap.alloc \in [Handles -> {Reserved} \cup 0..Size] /\ T.alloc \in [Handles -> {Reserved} \cup 0..Size]
      /\ T.mem \in Memory
    BY <1>0, HeapFields DEF CompactState
<1>9. r.heap.alloc[h] = p + 1 /\ \A g \in Handles \ {h} : r.heap.alloc[g] = s.heap.alloc[g]
    BY <1>2, <1>8 DEF Lands, w
<1>10. \A g \in Handles : IF T.alloc[g] > s.block \/ T.alloc[g] <= 0 THEN s.heap.alloc[g] = T.alloc[g]
                          ELSE 0 < s.heap.alloc[g] /\ s.heap.alloc[g] <= s.block
    BY DEF Half
<1>11. ASSUME NEW g \in Handles \ {h}, T.alloc[g] > s.block PROVE T.alloc[g] > r.block
    <2>1. T.alloc[g] > 0 /\ T.alloc[g] \in Nat
        BY <1>1, <1>8, <1>11 DEF Reserved
    <2>2. T.alloc[g] - 1 \in Starts(T) /\ T.mem[T.alloc[g] - 1].of = g
        BY <1>0, <2>1 DEF Sound, Found
    <2>3. T.alloc[g] - 1 # s.block
        BY <1>2, <2>2
    <2>4. s.block < T.alloc[g] - 1
        BY <1>1, <2>1, <2>3, <1>11
    <2>5. s.block + len <= T.alloc[g] - 1
        BY <1>2, <2>2, <2>4
    <2> QED
        BY <1>3, <2>1, <2>5
<1>12. ASSUME NEW g \in Handles \ {h} PROVE R.alloc[g] = K.alloc[g]
    <2>0. s.heap.alloc[g] \in Int /\ T.alloc[g] \in Int /\ s.block \in Int /\ r.block \in Int
        BY <1>1, <1>3, <1>8 DEF Reserved
    <2>1. CASE s.heap.alloc[g] > s.block
        <3>1. T.alloc[g] > s.block /\ s.heap.alloc[g] = T.alloc[g]
            BY <1>1, <1>10, <2>0, <2>1
        <3>2. r.heap.alloc[g] > r.block
            BY <1>9, <1>11, <3>1
        <3> QED
            BY <1>1, <1>7, <2>1, <3>2
    <2>2. CASE ~(s.heap.alloc[g] > s.block)
        <3>1. ~(r.heap.alloc[g] > r.block)
            BY <1>3, <1>9, <2>0, <2>2
        <3> QED
            BY <1>1, <1>7, <1>9, <2>2, <3>1
    <2> QED
        BY <2>1, <2>2
<1>13. K.alloc[h] = 0 /\ R.alloc[h] = p + 1
    <2>1. s.heap.alloc[h] > s.block /\ ~(p + 1 > r.block)
        BY <1>1, <1>2, <1>3
    <2> QED
        BY <1>1, <1>2, <1>7, <1>9, <2>1
<1>14. Settles(K, R, h, x, y, e, p, len)
    <2>1. /\ R.mem[p].val = len /\ R.mem[p].of = h /\ Own(R.mem, p)
          /\ x # p => R.mem[x].val = -(p - x)
          /\ e # p + len => R.mem[p + len].val = -(e - (p + len)) /\ y < K.end
          /\ \A b \in Addrs : Outside(b, x, y) /\ b < K.end => R.mem[b] = K.mem[b]
        BY <1>1, <1>7, ZenonT(40) DEF Lands, w
    <2>2. IF x = K.end THEN y = x /\ R.end = e
          ELSE K.mem[x].val < 0 /\ y = x + Length(K.mem[x]) /\ e = y /\ R.end = K.end
        BY <1>1, <1>4, <1>7
    <2> HIDE DEF len, h
    <2> QED
        BY <1>2, <1>3, <1>4, <1>12, <1>13, <2>1, <2>2 DEF Settles
<1>15. Sound(R) /\ Starts(R) = Replaced(K, x, y, SettledAt(x, e, p, len))
    <2>1. Sound(K)
        BY DEF Half, K
    <2>2. x # p => x = K.end
        BY <1>1 DEF Lands
    <2> QED
        BY <1>1, <1>2, <1>7, <1>14, <2>1, <2>2, Settled
<1>16. \A b \in Addrs : r.block <= b => r.heap.mem[b] = T.mem[b]
    <2> SUFFICES ASSUME NEW b \in Addrs, r.block <= b PROVE r.heap.mem[b] = T.mem[b]
        OBVIOUS
    <2>1. r.heap.mem[b] = s.heap.mem[b]
        BY DEF Lands
    <2>2. s.block <= b
        BY <1>1, <1>3, Sizes0
    <2> QED
        BY <2>1, <2>2 DEF Half
<1>17. \A g \in Handles : IF T.alloc[g] > r.block \/ T.alloc[g] <= 0 THEN r.heap.alloc[g] = T.alloc[g]
                          ELSE 0 < r.heap.alloc[g] /\ r.heap.alloc[g] <= r.block
    <2> TAKE g \in Handles
    <2>0. s.heap.alloc[g] \in Int /\ T.alloc[g] \in Int /\ s.block \in Int /\ r.block \in Int /\ s.block < r.block
        BY <1>1, <1>3, <1>8 DEF Reserved
    <2>1. CASE g = h
        BY <2>1, <1>1, <1>2, <1>3, <1>9
    <2>2. CASE g # h
        BY <2>0, <2>2, <1>9, <1>10, <1>11
    <2> QED
        BY <2>1, <2>2
<1>18. ASSUME NEW g \in Handles, T.alloc[g] > 0, T.mem[T.alloc[g] - 1].ops.move = "never"
       PROVE  r.heap.alloc[g] = T.alloc[g]
    <2>1. s.heap.alloc[g] = T.alloc[g]
        BY <1>18 DEF Half
    <2>2. CASE g = h
        <3>1. T.mem[T.alloc[g] - 1] = w
            BY <1>1, <1>2, <2>2
        <3>2. p = s.block
            BY <1>18, <3>1 DEF Lands, w
        <3> QED
            BY <1>2, <1>9, <2>2, <3>2
    <2>3. CASE g # h
        BY <2>1, <2>3, <1>9
    <2> QED
        BY <2>2, <2>3
<1>19. r.heap.mem[0] = T.mem[0]
    <2>1. 0 \in Addrs /\ Outside(0, x, y) /\ 0 < Top(s)
        BY <1>4, <1>5, Sizes0 DEF Outside, Half
    <2> QED
        BY <2>1 DEF Lands, Half
<1>20. ASSUME r.hole # NoHole
       PROVE  r.hole \in Starts(R) /\ r.hole < Top(r) /\ r.heap.mem[r.hole].val < 0
    <2>0. /\ Starts(R) = (Starts(K) \cap (0..x)) \cup SettledAt(x, e, p, len)
                         \cup (IF y = K.end THEN {} ELSE Starts(K) \cap (y..K.end))
        BY <1>15 DEF Replaced
    <2>1. CASE r.hole = s.hole /\ x = Top(s)
        <3>1. s.hole \in Starts(K) /\ s.hole < Top(s) /\ s.heap.mem[s.hole].val < 0
            BY <1>20, <2>1 DEF Half, K
        <3>2. s.hole \in Nat /\ s.hole < x
            BY <1>1, <2>1, <3>1, SoundPlaces DEF Half, K
        <3>3. s.hole \in Addrs /\ Outside(s.hole, x, y)
            BY <1>1, <1>4, <3>2, Sizes0 DEF Outside
        <3>4. r.heap.mem[s.hole] = s.heap.mem[s.hole]
            BY <3>1, <3>3 DEF Lands
        <3>5. r.hole \in Starts(R)
            BY <2>0, <2>1, <3>1, <3>2, <1>4
        <3>6. Top(r) = e /\ x < e
            BY <1>2, <1>3, <1>4, <2>1
        <3> QED
            BY <2>1, <3>1, <3>2, <3>4, <3>5, <3>6, <1>3, <1>4
    <2>2. CASE r.hole = x /\ x # p
        <3>1. x = Top(s) /\ r.heap.mem[x].val = -(p - x)
            BY <2>2 DEF Lands
        <3>2. x \in Starts(R)
            BY <2>0 DEF SettledAt
        <3>3. x < p /\ p < e /\ Top(r) = e
            BY <1>2, <1>3, <1>4, <2>2, <3>1
        <3> QED
            BY <2>2, <3>1, <3>2, <3>3, <1>3, <1>4
    <2>3. CASE r.hole = p + len /\ e # p + len
        <3>1. y < Top(s) /\ r.heap.mem[p + len].val = -(e - (p + len))
            BY <2>3 DEF Lands, w
        <3>2. p + len \in Starts(R)
            BY <2>0 DEF SettledAt
        <3>3. x # Top(s)
            BY <3>1, <1>1, <1>4
        <3>4. e = y /\ Top(r) = Top(s)
            BY <3>3, <1>4
        <3>5. p + len < e
            BY <1>2, <1>3, <2>3
        <3> QED
            BY <2>3, <3>1, <3>2, <3>4, <3>5, <1>1, <1>2, <1>3
    <2> QED
        BY <1>20, <2>1, <2>2, <2>3 DEF Lands, w
<1> QED
    BY <1>2, <1>3, <1>6, <1>15, <1>16, <1>17, <1>18, <1>19, <1>20 DEF Half, R
\* What one step of the compaction does, case by case.
Put(G, m, h, p) ==
    [mem |-> m, alloc |-> [G.alloc EXCEPT ![h] = p + 1], first_free |-> G.first_free, last |-> G.last,
     end |-> G.end, compact |-> G.compact]

\* Records with one field changed.
LEMMA MemSet ==
    ASSUME NEW G \in HeapType, NEW m
    PROVE  [G EXCEPT !.mem = m] = [mem |-> m, alloc |-> G.alloc, first_free |-> G.first_free, last |-> G.last,
                                   end |-> G.end, compact |-> G.compact]
BY DEF HeapType

LEMMA BlockSet ==
    ASSUME NEW heap0, NEW block0, NEW hole0, NEW shift0, NEW ret0, NEW b, NEW s,
           s = [heap |-> heap0, block |-> block0, hole |-> hole0, shift |-> shift0, ret |-> ret0]
    PROVE  [s EXCEPT !.block = b] = [heap |-> heap0, block |-> b, hole |-> hole0, shift |-> shift0, ret |-> ret0]
OBVIOUS

LEMMA MovedIs ==
    ASSUME NEW s \in CompactState, NEW to
    PROVE  LET w == s.heap.mem[s.block]
           IN Moved(s, to) = [heap |-> Put(s.heap, Copied(s.heap.mem, s.block, w.val, to), w.of, to),
                              block |-> s.block, hole |-> s.hole, shift |-> s.shift, ret |-> TRUE]
<1> DEFINE w == s.heap.mem[s.block]
           c == Copied(s.heap.mem, s.block, w.val, to)
           al == [s.heap.alloc EXCEPT ![w.of] = to + 1]
           G == s.heap
<1>1. G \in HeapType
    BY DEF CompactState
<1>2. Moved(s, to) = [s EXCEPT !.heap = [[@ EXCEPT !.mem = c] EXCEPT !.alloc = al], !.ret = TRUE]
    BY <1>1 DEF Moved, CompactState, HeapType
<1> HIDE DEF c, al, G
<1>3. [[G EXCEPT !.mem = c] EXCEPT !.alloc = al]
      = [mem |-> c, alloc |-> al, first_free |-> G.first_free, last |-> G.last, end |-> G.end, compact |-> G.compact]
    <2>1. [G EXCEPT !.mem = c] = [mem |-> c, alloc |-> G.alloc, first_free |-> G.first_free, last |-> G.last,
                                  end |-> G.end, compact |-> G.compact]
        BY <1>1, MemSet
    <2> DEFINE X == [G EXCEPT !.mem = c]
    <2>2. [X EXCEPT !.alloc = al] = [mem |-> c, alloc |-> al, first_free |-> G.first_free, last |-> G.last,
                                     end |-> G.end, compact |-> G.compact]
        <3> HIDE DEF X
        <3>1. X = [mem |-> c, alloc |-> G.alloc, first_free |-> G.first_free, last |-> G.last,
                   end |-> G.end, compact |-> G.compact]
            BY <2>1 DEF X
        <3> QED
            BY <3>1
    <2> QED
        BY <2>2
<1>4. Moved(s, to) = [s EXCEPT !.heap = [mem |-> c, alloc |-> al, first_free |-> G.first_free, last |-> G.last,
                                         end |-> G.end, compact |-> G.compact], !.ret = TRUE]
    BY <1>2, <1>3 DEF G
<1>5. Moved(s, to) = [heap |-> [mem |-> c, alloc |-> al, first_free |-> G.first_free, last |-> G.last,
                                end |-> G.end, compact |-> G.compact],
                      block |-> s.block, hole |-> s.hole, shift |-> s.shift, ret |-> TRUE]
    BY <1>4, Zenon DEF CompactState
<1> QED
    BY <1>5 DEF Put, c, al, G

LEMMA StepFree ==
    ASSUME NEW s \in CompactState, NEW refuse, s.heap.mem[s.block].val < 0, ~(s.heap.mem[s.block].val >= 0)
    PROVE  LET len == Length(s.heap.mem[s.block])
               r == CompactStep(s, refuse)
           IN r = [heap |-> s.heap, block |-> s.block + len, hole |-> s.hole, shift |-> s.shift - len, ret |-> s.ret]
<1> DEFINE len == Length(s.heap.mem[s.block])
           sh == s.shift - len
<1>1. CompactStep(s, refuse) = [[s EXCEPT !.shift = sh] EXCEPT !.block = s.block + len]
    BY DEF CompactStep, CompactState
<1> HIDE DEF len, sh
<1> QED
    BY <1>1, Zenon DEF CompactState, len, sh

LEMMA StepStays ==
    ASSUME NEW s \in CompactState, NEW refuse, s.heap.mem[s.block].val >= 0, ~(s.heap.mem[s.block].val < 0),
           LET w == s.heap.mem[s.block]
           IN ~(s.hole # NoHole /\ -s.heap.mem[s.hole].val >= Length(w) /\ CanMove(w, refuse)),
           s.shift = 0
    PROVE  LET len == Length(s.heap.mem[s.block])
               r == CompactStep(s, refuse)
           IN r = [heap |-> s.heap, block |-> s.block + len, hole |-> s.hole, shift |-> s.shift, ret |-> s.ret]
<1> DEFINE len == Length(s.heap.mem[s.block])
<1>1. CompactStep(s, refuse) = [s EXCEPT !.block = s.block + len]
    BY DEF CompactStep
<1> HIDE DEF len
<1> QED
    BY <1>1, Zenon DEF CompactState, len

LEMMA StepMoved ==
    ASSUME NEW s \in CompactState, NEW refuse, s.heap.mem[s.block].val >= 0, ~(s.heap.mem[s.block].val < 0),
           LET w == s.heap.mem[s.block]
           IN /\ CanMove(w, refuse)
              /\ ~(s.hole # NoHole /\ -s.heap.mem[s.hole].val >= Length(w) /\ CanMove(w, refuse)),
           s.shift # 0
    PROVE  LET w == s.heap.mem[s.block]
               len == Length(w)
               to == s.block + s.shift
               r == CompactStep(s, refuse)
           IN r = [heap |-> Put(s.heap, Copied(s.heap.mem, s.block, w.val, to), w.of, to),
                   block |-> s.block + len, hole |-> s.hole, shift |-> s.shift, ret |-> TRUE]
<1> DEFINE w == s.heap.mem[s.block]
           len == Length(w)
           to == s.block + s.shift
           G == Put(s.heap, Copied(s.heap.mem, s.block, w.val, to), w.of, to)
<1> DEFINE M == Moved(s, to)
<1>1. CompactStep(s, refuse) = [M EXCEPT !.block = s.block + len]
    BY DEF CompactStep
<1>2. M = [heap |-> G, block |-> s.block, hole |-> s.hole, shift |-> s.shift, ret |-> TRUE]
    BY MovedIs
<1> HIDE DEF G, len, to, M
<1>3. CompactStep(s, refuse) = [heap |-> G, block |-> s.block + len, hole |-> s.hole, shift |-> s.shift, ret |-> TRUE]
    BY <1>1, <1>2, BlockSet, Zenon
<1> QED
    BY <1>3 DEF G, len, to

LEMMA StepLeft ==
    ASSUME NEW s \in CompactState, NEW refuse, s.heap.mem[s.block].val >= 0, ~(s.heap.mem[s.block].val < 0),
           ~CanMove(s.heap.mem[s.block], refuse), s.shift # 0
    PROVE  LET len == Length(s.heap.mem[s.block])
               to == s.block + s.shift
               r == CompactStep(s, refuse)
               G == s.heap
           IN r = [heap |-> [mem |-> SetFree(G.mem, to, -s.shift), alloc |-> G.alloc, first_free |-> G.first_free,
                             last |-> G.last, end |-> G.end, compact |-> G.compact],
                   block |-> s.block + len, hole |-> to, shift |-> 0, ret |-> s.ret]
<1> DEFINE len == Length(s.heap.mem[s.block])
           to == s.block + s.shift
           G == s.heap
           m == SetFree(G.mem, to, -s.shift)
           F == [mem |-> m, alloc |-> G.alloc, first_free |-> G.first_free,
                 last |-> G.last, end |-> G.end, compact |-> G.compact]
<1>1. G \in HeapType
    BY DEF CompactState
<1>2. CompactStep(s, refuse) = [LeftAlone(s) EXCEPT !.block = s.block + len]
    BY DEF CompactStep
<1>3. LeftAlone(s) = [s EXCEPT !.heap = [@ EXCEPT !.mem = m], !.hole = to, !.shift = 0]
    BY <1>1 DEF LeftAlone, CompactState, HeapType
<1> HIDE DEF m, G
<1>4. [G EXCEPT !.mem = m] = F
    BY <1>1, MemSet
<1>5. LeftAlone(s) = [s EXCEPT !.heap = F, !.hole = to, !.shift = 0]
    BY <1>3, <1>4 DEF G
<1> HIDE DEF F, len, to
<1>6. LeftAlone(s) = [heap |-> F, block |-> s.block, hole |-> to, shift |-> 0, ret |-> s.ret]
    BY <1>5, Zenon DEF CompactState
<1> DEFINE M == LeftAlone(s)
<1> HIDE DEF M
<1>7. CompactStep(s, refuse) = [heap |-> F, block |-> s.block + len, hole |-> to, shift |-> 0, ret |-> s.ret]
    <2>1. M = [heap |-> F, block |-> s.block, hole |-> to, shift |-> 0, ret |-> s.ret]
        BY <1>6 DEF M
    <2>2. CompactStep(s, refuse) = [M EXCEPT !.block = s.block + len]
        BY <1>2 DEF M
    <2> QED
        BY <2>1, <2>2, BlockSet, Zenon
<1> QED
    BY <1>7 DEF F, len, to, m, G

LEMMA StepHole ==
    ASSUME NEW s \in CompactState, NEW refuse, s.heap.mem[s.block].val >= 0, ~(s.heap.mem[s.block].val < 0),
           LET w == s.heap.mem[s.block]
           IN s.hole # NoHole /\ -s.heap.mem[s.hole].val >= Length(w) /\ CanMove(w, refuse)
    PROVE  LET w == s.heap.mem[s.block]
               len == Length(w)
               left == -s.heap.mem[s.hole].val - len
               c == Copied(s.heap.mem, s.block, w.val, s.hole)
               r == CompactStep(s, refuse)
           IN r = [heap |-> Put(s.heap, SetFree(SetFree(c, s.hole + len, left), s.block, len), w.of, s.hole),
                   block |-> s.block + len, hole |-> IF left > 0 THEN s.hole + len ELSE NoHole,
                   shift |-> s.shift - len, ret |-> TRUE]
<1> DEFINE w == s.heap.mem[s.block]
           len == Length(w)
           left == -s.heap.mem[s.hole].val - len
           c == Copied(s.heap.mem, s.block, w.val, s.hole)
           m == SetFree(SetFree(c, s.hole + len, left), s.block, len)
           G == Put(s.heap, c, w.of, s.hole)
           F == Put(s.heap, m, w.of, s.hole)
           hole == IF left > 0 THEN s.hole + len ELSE NoHole
           b == s.block + len
           sh == s.shift - len
           M == Moved(s, s.hole)
<1>1. CompactStep(s, refuse) = [IntoHole(s, len) EXCEPT !.block = b]
    BY DEF CompactStep
<1>2. M = [heap |-> G, block |-> s.block, hole |-> s.hole, shift |-> s.shift, ret |-> TRUE]
    BY MovedIs
<1>3. IntoHole(s, len) = [M EXCEPT !.heap.mem = SetFree(SetFree(@, s.hole + len, left), s.block, len),
                                   !.hole = hole, !.shift = @ - len]
    BY DEF IntoHole
<1>4. M.heap = G /\ M.heap.mem = c /\ M.shift = s.shift
    BY <1>2 DEF Put
<1> HIDE DEF M, c, hole, left, len, b
<1>5. IntoHole(s, len) = [M EXCEPT !.heap = [@ EXCEPT !.mem = m], !.hole = hole, !.shift = sh]
    <2> HIDE DEF G
    <2> QED
        BY <1>2, <1>3, <1>4
<1> HIDE DEF m, sh
<1>6. [G EXCEPT !.mem = m] = F
    BY DEF Put
<1> HIDE DEF G, F
<1>7. IntoHole(s, len) = [heap |-> F, block |-> s.block, hole |-> hole, shift |-> sh, ret |-> TRUE]
    BY <1>2, <1>5, <1>6, Zenon
<1>8. CompactStep(s, refuse) = [heap |-> F, block |-> b, hole |-> hole, shift |-> sh, ret |-> TRUE]
    <2> DEFINE N == IntoHole(s, len)
    <2> HIDE DEF N
    <2>1. N = [heap |-> F, block |-> s.block, hole |-> hole, shift |-> sh, ret |-> TRUE]
        BY <1>7 DEF N
    <2>2. CompactStep(s, refuse) = [N EXCEPT !.block = b]
        BY <1>1 DEF N
    <2> QED
        BY <2>1, <2>2, BlockSet, Zenon
<1> QED
    BY <1>8 DEF F, b, hole, sh, len, left, m, c
LEMMA PutIs ==
    ASSUME NEW G \in HeapType, NEW m \in Memory, NEW h, NEW p \in Nat, p < Size
    PROVE  Put(G, m, h, p) \in HeapType
<1> DEFINE al == [G.alloc EXCEPT ![h] = p + 1]
<1>1. p + 1 \in 0..Size
    BY Sizes0
<1>2. al \in [Handles -> {Reserved} \cup 0..Size]
    BY <1>1, HeapFields
<1> HIDE DEF al
<1>3. Put(G, m, h, p) = [mem |-> m, alloc |-> al, first_free |-> G.first_free, last |-> G.last,
                         end |-> G.end, compact |-> G.compact]
    BY DEF Put, al
<1>4. Put(G, m, h, p) \in HeapType
    BY <1>2, <1>3, HeapFields DEF HeapType
<1> QED
    BY <1>4

\* What is known of a block in use.
UsedBlock(T, s) ==
    LET w == s.heap.mem[s.block]
    IN /\ Good(T) /\ s \in CompactState /\ Half(T, s) /\ s.block < T.end /\ w.val > 0
       /\ w.val \in Nat \ {0} /\ Length(w) = w.val /\ s.heap.mem \in Memory
       /\ s.block \in Nat /\ s.block \in Addrs /\ s.block + w.val <= Size /\ s.shift \in Int /\ s.shift <= 0
       /\ w.of \in Handles /\ s.heap.alloc[w.of] = s.block + 1 /\ Own(s.heap.mem, s.block)
       /\ Top(s) \in Nat /\ Top(s) <= s.block /\ Top(s) \in Starts(Packed(s)) /\ Top(s) = s.block + s.shift

LEMMA UsedBlockIs ==
    ASSUME NEW T, Good(T), NEW s \in CompactState, Half(T, s), s.block < T.end, s.heap.mem[s.block].val > 0
    PROVE  UsedBlock(T, s)
<1> DEFINE w == s.heap.mem[s.block]
<1>1. w.val \in Int /\ Length(w) = IF w.val < 0 THEN -w.val ELSE w.val
    BY HalfBlock
<1>2. w.val \in Nat \ {0} /\ Length(w) = w.val
    <2> HIDE DEF w
    <2>1. w.val > 0
        BY DEF w
    <2> QED
        BY <1>1, <2>1
<1>3. /\ s.block \in Nat /\ s.block \in Addrs /\ w.of \in Handles /\ s.heap.alloc[w.of] = s.block + 1
      /\ Own(s.heap.mem, s.block) /\ T.end <= Size
      /\ Top(s) \in Nat /\ Top(s) <= s.block /\ Packed(s) \in HeapType /\ Packed(s).end = Top(s)
      /\ s.block + Length(w) <= T.end /\ T.end \in Nat /\ Size \in Nat
    BY HalfBlock
<1>4. s.block + w.val <= Size
    BY <1>2, <1>3
<1>5. Top(s) \in Starts(Packed(s))
    <2>1. Sound(Packed(s))
        BY DEF Half
    <2> QED
        BY <1>3, <2>1, SoundPlaces
<1>6. s.shift \in Int /\ s.shift <= 0 /\ s.heap.mem \in Memory
    BY HeapFields DEF CompactState, Half
<1> QED
    BY <1>2, <1>3, <1>4, <1>5, <1>6 DEF UsedBlock, Top

LEMMA HalfStays ==
    ASSUME NEW T, NEW s, UsedBlock(T, s), s.shift = 0, NEW r,
           r = [heap |-> s.heap, block |-> s.block + s.heap.mem[s.block].val, hole |-> s.hole,
                shift |-> s.shift, ret |-> s.ret]
    PROVE  r \in CompactState /\ Half(T, r)
<1> DEFINE w == s.heap.mem[s.block]
           b == s.block
           e == b + w.val
<1>1. /\ Good(T) /\ s \in CompactState /\ Half(T, s) /\ b < T.end /\ w.val > 0
      /\ w.val \in Nat \ {0} /\ b \in Nat /\ e <= Size /\ w.of \in Handles
      /\ s.heap.alloc[w.of] = b + 1 /\ Own(s.heap.mem, b) /\ b \in Starts(Packed(s)) /\ Top(s) = b
    BY DEF UsedBlock
<1>2. r.heap = s.heap /\ r.block = e /\ r.hole = s.hole /\ r.shift = 0
    OBVIOUS
<1>3. r \in CompactState
    BY <1>1 DEF CompactState
<1>4. e \in Nat /\ b < e
    BY <1>1
<1>5. s.heap.alloc = [s.heap.alloc EXCEPT ![w.of] = b + 1]
    <2>1. s.heap.alloc \in [Handles -> {Reserved} \cup 0..Size]
        BY <1>1, HeapFields DEF CompactState
    <2> QED
        BY <1>1, <2>1
<1>6. Top(r) = e
    BY <1>2, <1>4 DEF Top
<1> HIDE DEF b, e, w
<1>7. Lands(s, r, b, b, e, b)
    BY <1>1, <1>2, <1>4, <1>5, <1>6 DEF Lands, w, e, b
<1> QED
    BY <1>1, <1>3, <1>7, Landed DEF w, b

LEMMA HalfMoved ==
    ASSUME NEW T, NEW s, UsedBlock(T, s), s.shift # 0, s.heap.mem[s.block].ops.move # "never", NEW r,
           LET w == s.heap.mem[s.block]
               to == s.block + s.shift
           IN r = [heap |-> Put(s.heap, Copied(s.heap.mem, s.block, w.val, to), w.of, to),
                   block |-> s.block + w.val, hole |-> s.hole, shift |-> s.shift, ret |-> TRUE]
    PROVE  r \in CompactState /\ Half(T, r)
<1> DEFINE w == s.heap.mem[s.block]
           b == s.block
           to == Top(s)
           len == w.val
           e == to + len
           m == Copied(s.heap.mem, b, len, to)
           G == Put(s.heap, m, w.of, to)
<1>1. /\ Good(T) /\ s \in CompactState /\ Half(T, s) /\ b < T.end /\ w.val > 0
      /\ len \in Nat \ {0} /\ b \in Nat /\ b + len <= Size /\ w.of \in Handles /\ s.heap.mem \in Memory
      /\ s.heap.alloc[w.of] = b + 1 /\ Own(s.heap.mem, b) /\ to \in Starts(Packed(s))
      /\ to \in Nat /\ to <= b /\ to = b + s.shift /\ s.shift \in Int /\ s.shift <= 0
    BY DEF UsedBlock
<1>2. r = [heap |-> G, block |-> b + len, hole |-> s.hole, shift |-> s.shift, ret |-> TRUE]
    BY <1>1
<1>3. s.heap \in HeapType /\ s.hole \in Int
    BY <1>1 DEF CompactState
<1> HIDE DEF w, to, b
<1>4. to < b /\ e \in Nat /\ to < e /\ e <= b + len /\ e <= Size /\ to < Size /\ Size \in Nat /\ b + len \in Nat
    BY <1>1, Sizes0 DEF b
<1>5. /\ m \in Memory
      /\ \A d \in Addrs : ~(to <= d /\ d < e) /\ ~(b <= d /\ d < b + len) => m[d] = s.heap.mem[d]
      /\ m[to] = s.heap.mem[b] /\ Own(m, to)
    <2>1. s.heap.mem[b].val = len
        BY DEF w, b
    <2> HIDE DEF len
    <2> QED
        BY <1>1, <1>4, <2>1, CopiedWords, SMTT(30)
<1> HIDE DEF m, e
<1>6. /\ G \in HeapType /\ G.mem = m /\ G.alloc = [s.heap.alloc EXCEPT ![w.of] = to + 1]
      /\ G.end = s.heap.end /\ G.last = s.heap.last /\ G.first_free = s.heap.first_free
    <2>1. s.heap \in HeapType /\ m \in Memory /\ to \in Nat /\ to < Size
        BY <1>1, <1>3, <1>4, <1>5
    <2> DEFINE hp == s.heap
               h == w.of
    <2>2. hp \in HeapType /\ G = Put(hp, m, h, to)
        BY <2>1
    <2> HIDE DEF hp, h, G
    <2>3. Put(hp, m, h, to) \in HeapType
        BY <2>1, <2>2, PutIs, Zenon
    <2> DEFINE al == [hp.alloc EXCEPT ![h] = to + 1]
    <2>4. G = [mem |-> m, alloc |-> al, first_free |-> hp.first_free, last |-> hp.last,
               end |-> hp.end, compact |-> hp.compact]
        BY <2>2 DEF Put
    <2> HIDE DEF al
    <2>5. /\ G.mem = m /\ G.alloc = al /\ G.end = hp.end /\ G.last = hp.last /\ G.first_free = hp.first_free
        BY <2>4
    <2> QED
        BY <2>2, <2>3, <2>5 DEF hp, h, al
<1> HIDE DEF G, len
<1>7. r.heap = G /\ r.block = b + len /\ r.hole = s.hole /\ r.shift = s.shift
    BY <1>2
<1>8. r \in CompactState
    BY <1>1, <1>2, <1>3, <1>4, <1>6 DEF CompactState
<1>9. Top(r) = e
    BY <1>1, <1>7 DEF Top, e
<1>10. /\ \A d \in Addrs : Outside(d, to, to) /\ d < to => m[d] = s.heap.mem[d]
       /\ \A d \in Addrs : r.block <= d => m[d] = s.heap.mem[d]
    BY <1>1, <1>4, <1>5, <1>7, Sizes0
<1>11. m[to].val = len /\ m[to].of = w.of /\ w.ops.move # "never" /\ s.heap.mem[s.block] = w
    BY <1>5 DEF w, b, len
<1>12. Lands(s, r, to, to, e, to)
    <2>1. to + w.val = e /\ w.val = len /\ r.block = s.block + w.val
        BY <1>7 DEF e, len, b
    <2>2. to <= to /\ to + w.val <= e /\ to <= s.block /\ r.shift <= 0
        BY <1>1, <1>4, <1>7, <2>1 DEF b
    <2>3. IF to = Top(s) THEN to = to /\ Top(r) = e
          ELSE s.heap.mem[to].val < 0 /\ to = to + Length(s.heap.mem[to]) /\ e = to /\ Top(r) = Top(s)
        BY <1>9 DEF to
    <2>4. \A d \in Addrs : Outside(d, to, to) /\ d < Top(s) => m[d] = s.heap.mem[d]
        BY <1>10 DEF to
    <2>5. r.hole # NoHole => \/ r.hole = s.hole /\ to = Top(s)
                             \/ r.hole = to /\ to # to
                             \/ r.hole = to + w.val /\ e # to + w.val
        BY <1>7 DEF to
    <2> QED
        BY <1>1, <1>4, <1>5, <1>6, <1>7, <1>10, <1>11, <2>1, <2>2, <2>3, <2>4, <2>5 DEF Lands
<1> QED
    BY <1>1, <1>8, <1>12, Landed DEF w, b

LEMMA HalfLeft ==
    ASSUME NEW T, NEW s, UsedBlock(T, s), s.shift # 0, NEW r,
           LET w == s.heap.mem[s.block]
               to == s.block + s.shift
               G == s.heap
           IN r = [heap |-> [mem |-> SetFree(G.mem, to, -s.shift), alloc |-> G.alloc, first_free |-> G.first_free,
                             last |-> G.last, end |-> G.end, compact |-> G.compact],
                   block |-> s.block + w.val, hole |-> to, shift |-> 0, ret |-> s.ret]
    PROVE  r \in CompactState /\ Half(T, r)
<1> DEFINE w == s.heap.mem[s.block]
           b == s.block
           to == Top(s)
           len == w.val
           e == b + len
           m == SetFree(s.heap.mem, to, -s.shift)
           G == [mem |-> m, alloc |-> s.heap.alloc, first_free |-> s.heap.first_free, last |-> s.heap.last,
                 end |-> s.heap.end, compact |-> s.heap.compact]
<1>1. /\ Good(T) /\ s \in CompactState /\ Half(T, s) /\ b < T.end /\ w.val > 0 /\ b \in Addrs
      /\ len \in Nat \ {0} /\ b \in Nat /\ b + len <= Size /\ w.of \in Handles /\ s.heap.mem \in Memory
      /\ s.heap.alloc[w.of] = b + 1 /\ Own(s.heap.mem, b) /\ to \in Starts(Packed(s))
      /\ to \in Nat /\ to <= b /\ to = b + s.shift /\ s.shift \in Int /\ s.shift <= 0
    BY DEF UsedBlock
<1>2. r = [heap |-> G, block |-> b + len, hole |-> to, shift |-> 0, ret |-> s.ret]
    BY <1>1
<1>3. s.heap \in HeapType /\ s.ret \in BOOLEAN
    BY <1>1 DEF CompactState
<1>0. s.heap.alloc \in [Handles -> {Reserved} \cup 0..Size]
    BY <1>3, HeapFields
<1>16. G \in HeapType <=> m \in Memory
    <2> HIDE DEF m
    <2> QED
        BY <1>3, HeapFields DEF HeapType
<1>17. r.block = e /\ r.hole = to /\ r.shift = 0 /\ r.heap.mem = m /\ r.heap.alloc = s.heap.alloc
       /\ r.heap.end = s.heap.end /\ r.heap.last = s.heap.last /\ r.heap.first_free = s.heap.first_free
    BY <1>2
<1> HIDE DEF w, to, b
<1>18. /\ b \in Addrs /\ len \in Nat \ {0} /\ b \in Nat /\ b + len <= Size
       /\ to \in Nat /\ to <= b /\ to = b + s.shift /\ s.shift \in Int /\ s.shift <= 0
    BY <1>1
<1>4. /\ to < b /\ e \in Nat /\ b < e /\ e <= Size /\ Size \in Nat
      /\ -s.shift = b - to /\ -s.shift \in Nat /\ -s.shift > 0 /\ to + (-s.shift) = b /\ b <= Size
    BY <1>1, Sizes0
<1>5. /\ m \in Memory
      /\ \A d \in Addrs : ~(to <= d /\ d < b) => m[d] = s.heap.mem[d]
      /\ m[to].val = -(b - to)
    <2> DEFINE n == -s.shift
    <2>1. n \in Nat /\ n > 0 /\ to + n = b /\ n = b - to /\ to + n <= Size
        BY <1>4
    <2> HIDE DEF n
    <2>2. /\ SetFree(s.heap.mem, to, n) \in Memory
          /\ \A d \in Addrs : ~(to <= d /\ d < to + n) => SetFree(s.heap.mem, to, n)[d] = s.heap.mem[d]
          /\ SetFree(s.heap.mem, to, n)[to].val = -n
        <3>1. s.heap.mem \in Memory /\ to \in Nat /\ n \in Nat /\ to + n <= Size /\ n > 0
            BY <1>1, <2>1
        <3> DEFINE mm == s.heap.mem
        <3> HIDE DEF mm
        <3>2. mm \in Memory
            BY <3>1 DEF mm
        <3>3. /\ SetFree(mm, to, n) \in Memory
              /\ \A d \in Addrs : ~(to <= d /\ d < to + n) => SetFree(mm, to, n)[d] = mm[d]
              /\ SetFree(mm, to, n)[to].val = -n
            BY <3>1, <3>2, FreeWords
        <3> QED
            BY <3>3 DEF mm
    <2>3. m = SetFree(s.heap.mem, to, n)
        BY DEF n
    <2> QED
        BY <2>1, <2>2, <2>3
<1> HIDE DEF m
<1>6. m[b] = w /\ Own(m, b)
    <2>1. s.heap.mem[b].val = len /\ s.heap.mem[b] = w
        BY DEF w, b
    <2>2. \A d \in Addrs : b <= d /\ d < b + len => m[d] = s.heap.mem[d]
        BY <1>1, <1>4, <1>5, Sizes0
    <2> HIDE DEF len
    <2> QED
        BY <1>1, <2>1, <2>2, OwnSame
<1>8. r \in CompactState
    <2>1. G \in HeapType
        BY <1>5, <1>16
    <2>2. e \in Nat /\ to \in Int
        BY <1>4, <1>18
    <2> HIDE DEF G
    <2> QED
        BY <1>2, <1>3, <2>1, <2>2 DEF CompactState
<1> HIDE DEF e
<1>9. Top(r) = e
    BY <1>4, <1>17 DEF Top
<1> HIDE DEF len
<1>10. /\ \A d \in Addrs : Outside(d, to, to) /\ d < to => m[d] = s.heap.mem[d]
       /\ \A d \in Addrs : r.block <= d => m[d] = s.heap.mem[d]
    <2>1. ASSUME NEW d \in Addrs, Outside(d, to, to), d < to PROVE m[d] = s.heap.mem[d]
        BY <1>4, <1>5, <1>18, <2>1, Sizes0
    <2>2. ASSUME NEW d \in Addrs, r.block <= d PROVE m[d] = s.heap.mem[d]
        <3>1. e <= d /\ d \in Nat
            BY <1>17, <2>2, Sizes0
        <3>2. ~(to <= d /\ d < b)
            BY <1>4, <1>18, <3>1
        <3> QED
            BY <3>2, <1>5
    <2> QED
        BY <2>1, <2>2
<1>12. Lands(s, r, to, to, e, b)
    <2>1. b + w.val = e /\ r.block = s.block + w.val /\ s.heap.mem[s.block] = w /\ b = s.block
        BY <1>17 DEF e, len, b, w
    <2>2. to <= b /\ b + w.val <= e /\ b <= s.block /\ r.shift <= 0
        <3>1. b <= s.block
            BY <1>18, <2>1
        <3>2. b + w.val <= e
            BY <1>4, <2>1
        <3>3. r.shift <= 0
            BY <1>17
        <3> QED
            BY <1>18, <3>1, <3>2, <3>3
    <2>3. IF to = Top(s) THEN to = to /\ Top(r) = e
          ELSE s.heap.mem[to].val < 0 /\ to = to + Length(s.heap.mem[to]) /\ e = to /\ Top(r) = Top(s)
        BY <1>9 DEF to
    <2>4. \A d \in Addrs : Outside(d, to, to) /\ d < Top(s) => m[d] = s.heap.mem[d]
        BY <1>10 DEF to
    <2>5. r.hole = to /\ to # b
        <3>1. to # b
            BY <1>4, <1>18
        <3> QED
            BY <1>17, <3>1
    <2>6. r.heap.alloc = [s.heap.alloc EXCEPT ![w.of] = b + 1]
        BY <1>0, <1>1, <1>17
    <2>7. m[b].val = w.val /\ m[b].of = w.of /\ Own(m, b)
        BY <1>6
    <2>8. to = Top(s)
        BY DEF to
    <2> QED
        BY <1>1, <1>4, <1>5, <1>10, <1>17, <2>1, <2>2, <2>3, <2>4, <2>5, <2>6, <2>7, <2>8 DEF Lands
<1> QED
    BY <1>1, <1>8, <1>12, Landed DEF w, b
\* The words of a block that goes into a hole, of what is left of the hole, and of
\* the place that becomes free.
HoleArgs(m, b, hole, len, left) ==
    /\ m \in Memory /\ b \in Nat /\ hole \in Nat /\ len \in Nat \ {0} /\ left \in Nat
    /\ hole + len + left <= b /\ b + len <= Size /\ m[b].val = len /\ Own(m, b)

LEMMA HoleWords ==
    ASSUME NEW m, NEW b, NEW hole, NEW len, NEW left, HoleArgs(m, b, hole, len, left), NEW r,
           r = SetFree(SetFree(Copied(m, b, len, hole), hole + len, left), b, len)
    PROVE  /\ r \in Memory
           /\ \A d \in Addrs : ~(hole <= d /\ d < hole + len + left) /\ ~(b <= d /\ d < b + len) => r[d] = m[d]
           /\ r[hole] = m[b] /\ Own(r, hole)
           /\ left > 0 => hole + len \in Addrs /\ r[hole + len].val = -left
<1> DEFINE Cleared(k, a, n) ==
               /\ SetFree(k, a, n) \in Memory
               /\ \A d \in Addrs : ~(a <= d /\ d < a + n) => SetFree(k, a, n)[d] = k[d]
               /\ n > 0 => a \in Addrs /\ SetFree(k, a, n)[a].val = -n
<1>f. \A k \in Memory, a \in Nat, n \in Nat : a + n <= Size => Cleared(k, a, n)
    <2> SUFFICES ASSUME NEW k \in Memory, NEW a \in Nat, NEW n \in Nat, a + n <= Size
                 PROVE  Cleared(k, a, n)
        OBVIOUS
    <2> QED
        BY FreeWords
<1> HIDE DEF Cleared
<1> DEFINE c == Copied(m, b, len, hole)
           c2 == SetFree(c, hole + len, left)
           nl == hole + len
<1> USE DEF HoleArgs
<1>0. nl \in Nat /\ hole < nl /\ hole < b /\ nl + left <= b /\ nl + left <= Size /\ Size \in Nat /\ b < Size /\ nl <= b
    BY Sizes0
<1>1. /\ c \in Memory
      /\ \A d \in Addrs : ~(hole <= d /\ d < nl) /\ ~(b <= d /\ d < b + len) => c[d] = m[d]
      /\ c[hole] = m[b] /\ Own(c, hole)
    BY <1>0, CopiedWords
<1> HIDE DEF c
<1>2. /\ c2 \in Memory
      /\ \A d \in Addrs : ~(nl <= d /\ d < nl + left) => c2[d] = c[d]
      /\ left > 0 => nl \in Addrs /\ c2[nl].val = -left
    <2>1. c \in Memory /\ nl \in Nat /\ left \in Nat /\ nl + left <= Size
        BY <1>0, <1>1
    <2> HIDE DEF nl, HoleArgs
    <2>2. Cleared(c, nl, left)
        BY <2>1, <1>f
    <2>3. /\ SetFree(c, nl, left) \in Memory
          /\ \A d \in Addrs : ~(nl <= d /\ d < nl + left) => SetFree(c, nl, left)[d] = c[d]
          /\ left > 0 => nl \in Addrs /\ SetFree(c, nl, left)[nl].val = -left
        BY <2>2, Zenon DEF Cleared
    <2>4. c2 = SetFree(c, nl, left)
        BY DEF c2, nl
    <2> QED
        BY <2>3, <2>4
<1>3. r = SetFree(c2, b, len)
    BY DEF c
<1> HIDE DEF c2
<1>4. /\ r \in Memory
      /\ \A d \in Addrs : ~(b <= d /\ d < b + len) => r[d] = c2[d]
    <2>1. c2 \in Memory
        BY <1>2
    <2>2. b \in Nat /\ len \in Nat /\ b + len <= Size
        OBVIOUS
    <2>3. Cleared(c2, b, len)
        BY <2>1, <2>2, <1>f
    <2>4. /\ SetFree(c2, b, len) \in Memory
          /\ \A d \in Addrs : ~(b <= d /\ d < b + len) => SetFree(c2, b, len)[d] = c2[d]
        BY <2>3, Zenon DEF Cleared
    <2> QED
        BY <1>3, <2>4
<1>5. \A d \in Addrs : ~(hole <= d /\ d < nl + left) /\ ~(b <= d /\ d < b + len) => r[d] = m[d]
    <2> SUFFICES ASSUME NEW d \in Addrs, ~(hole <= d /\ d < nl + left), ~(b <= d /\ d < b + len)
                 PROVE  r[d] = m[d]
        OBVIOUS
    <2>1. ~(hole <= d /\ d < nl) /\ ~(nl <= d /\ d < nl + left) /\ d \in Nat
        BY <1>0, Sizes0
    <2> QED
        BY <2>1, <1>1, <1>2, <1>4
<1>6. \A d \in Addrs : hole <= d /\ d < nl => r[d] = c[d]
    <2> SUFFICES ASSUME NEW d \in Addrs, hole <= d, d < nl PROVE r[d] = c[d]
        OBVIOUS
    <2>1. ~(b <= d /\ d < b + len) /\ ~(nl <= d /\ d < nl + left)
        BY <1>0, Sizes0
    <2> QED
        BY <2>1, <1>2, <1>4
<1>7. r[hole] = c[hole] /\ Own(r, hole)
    <2>1. hole \in Addrs /\ hole + len <= Size /\ c[hole].val = len
        BY <1>0, <1>1, Sizes0
    <2>2. \A d \in Addrs : hole <= d /\ d < hole + len => r[d] = c[d]
        BY <1>6
    <2> QED
        BY <1>1, <2>1, <2>2, OwnSame
<1>8. ASSUME left > 0 PROVE nl \in Addrs /\ r[nl].val = -left
    <2>1. nl \in Addrs /\ c2[nl].val = -left
        BY <1>2, <1>8
    <2>2. ~(b <= nl /\ nl < b + len)
        BY <1>0, <1>8
    <2> QED
        BY <2>1, <2>2, <1>4
<1> QED
    BY <1>1, <1>4, <1>5, <1>7, <1>8

LEMMA HalfHole ==
    ASSUME NEW T, NEW s, UsedBlock(T, s), s.heap.mem[s.block].ops.move # "never", s.hole # NoHole,
           -s.heap.mem[s.hole].val >= s.heap.mem[s.block].val, NEW r,
           LET w == s.heap.mem[s.block]
               len == w.val
               left == -s.heap.mem[s.hole].val - len
               c == Copied(s.heap.mem, s.block, w.val, s.hole)
           IN r = [heap |-> Put(s.heap, SetFree(SetFree(c, s.hole + len, left), s.block, len), w.of, s.hole),
                   block |-> s.block + len, hole |-> IF left > 0 THEN s.hole + len ELSE NoHole,
                   shift |-> s.shift - len, ret |-> TRUE]
    PROVE  r \in CompactState /\ Half(T, r)
<1> DEFINE w == s.heap.mem[s.block]
           b == s.block
           to == s.hole
           top == Top(s)
           len == w.val
           v == -s.heap.mem[to].val
           left == v - len
           e == to + v
           m == SetFree(SetFree(Copied(s.heap.mem, b, len, to), to + len, left), b, len)
           G == Put(s.heap, m, w.of, to)
           hole == IF left > 0 THEN to + len ELSE NoHole
           sh == s.shift - len
           nb == b + len
<1>1. /\ Good(T) /\ s \in CompactState /\ Half(T, s) /\ b < T.end /\ w.val > 0
      /\ s.heap.mem \in Memory /\ Own(s.heap.mem, b)
    BY DEF UsedBlock
<1>2. /\ len \in Nat \ {0} /\ b \in Nat /\ b + len <= Size /\ w.of \in Handles
      /\ top \in Nat /\ top <= b /\ top = b + s.shift /\ s.shift \in Int /\ s.shift <= 0
    BY DEF UsedBlock
<1>3. r = [heap |-> G, block |-> nb, hole |-> hole, shift |-> sh, ret |-> TRUE]
    OBVIOUS
<1>4. s.heap \in HeapType /\ s.heap.alloc \in [Handles -> {Reserved} \cup 0..Size]
    BY <1>1, HeapFields DEF CompactState
<1>5. /\ to \in Starts(Packed(s)) /\ to < top /\ s.heap.mem[to].val < 0
      /\ Packed(s) \in HeapType /\ Packed(s).mem = s.heap.mem /\ Packed(s).end = top /\ Sound(Packed(s))
    BY <1>1, HalfBlock DEF Half
<1>6. /\ to \in Nat /\ v \in Nat \ {0} /\ Length(s.heap.mem[to]) = v /\ v >= len
      /\ e \in Starts(Packed(s)) /\ e < top
    <2>1. /\ to \in Nat /\ s.heap.mem[to].val \in Int
          /\ Length(s.heap.mem[to]) = IF s.heap.mem[to].val < 0 THEN -s.heap.mem[to].val ELSE s.heap.mem[to].val
        BY <1>5, SoundPlaces
    <2>2. v \in Nat \ {0} /\ Length(s.heap.mem[to]) = v
        BY <1>5, <2>1
    <2>3. BehindOf(Packed(s), to) = e
        BY <1>5, <2>1 DEF BehindOf, IsFree
    <2>4. e \in Starts(Packed(s)) /\ e < top
        BY <1>5, <2>3, BehindIs
    <2> QED
        BY <2>1, <2>2, <2>4
<1> HIDE DEF w, to, b, top, G
<1>7. r.heap = G /\ r.block = nb /\ r.hole = hole /\ r.shift = sh
    BY <1>3
<1> HIDE DEF hole, sh, nb, v
<1>8. /\ left \in Nat /\ to + len + left = e /\ e \in Nat /\ e < top /\ e <= b /\ to + len <= e /\ to < b
      /\ Size \in Nat /\ e <= Size /\ b < Size /\ to < Size
    BY <1>2, <1>6, Sizes0
<1>9. /\ m \in Memory
      /\ \A d \in Addrs : ~(to <= d /\ d < e) /\ ~(b <= d /\ d < nb) => m[d] = s.heap.mem[d]
      /\ m[to] = w /\ Own(m, to)
      /\ left > 0 => to + len \in Addrs /\ m[to + len].val = -left
    <2> DEFINE mm == s.heap.mem
    <2>1. mm \in Memory /\ mm[b].val = len /\ Own(mm, b) /\ mm[b] = w
        BY <1>1 DEF w, b
    <2>2. m = SetFree(SetFree(Copied(mm, b, len, to), to + len, left), b, len)
        OBVIOUS
    <2> HIDE DEF mm, m, len, left
    <2>3. b \in Nat /\ to \in Nat /\ len \in Nat \ {0} /\ left \in Nat /\ to + len + left <= b /\ b + len <= Size
        BY <1>2, <1>6, <1>8
    <2>5. HoleArgs(mm, b, to, len, left)
        BY <2>1, <2>3 DEF HoleArgs
    <2>4. /\ m \in Memory
          /\ \A d \in Addrs : ~(to <= d /\ d < to + len + left) /\ ~(b <= d /\ d < b + len) => m[d] = mm[d]
          /\ m[to] = mm[b] /\ Own(m, to)
          /\ left > 0 => to + len \in Addrs /\ m[to + len].val = -left
        BY <2>2, <2>5, HoleWords
    <2> QED
        BY <1>8, <2>1, <2>4 DEF mm, nb
<1> HIDE DEF m, e
<1>10. /\ G \in HeapType /\ G.mem = m /\ G.alloc = [s.heap.alloc EXCEPT ![w.of] = to + 1]
       /\ G.end = s.heap.end /\ G.last = s.heap.last /\ G.first_free = s.heap.first_free
    <2> DEFINE hp == s.heap
               h == w.of
    <2>1. hp \in HeapType /\ m \in Memory /\ to \in Nat /\ to < Size /\ G = Put(hp, m, h, to)
        BY <1>4, <1>6, <1>8, <1>9 DEF G
    <2> HIDE DEF hp, h
    <2>3. Put(hp, m, h, to) \in HeapType
        BY <2>1, PutIs, Zenon
    <2> DEFINE al == [hp.alloc EXCEPT ![h] = to + 1]
    <2>4. G = [mem |-> m, alloc |-> al, first_free |-> hp.first_free, last |-> hp.last,
               end |-> hp.end, compact |-> hp.compact]
        BY <2>1 DEF Put
    <2> HIDE DEF al
    <2>5. /\ G.mem = m /\ G.alloc = al /\ G.end = hp.end /\ G.last = hp.last /\ G.first_free = hp.first_free
        BY <2>4
    <2> QED
        BY <2>1, <2>3, <2>5 DEF hp, h, al
<1> HIDE DEF G
<1>11. nb \in Nat /\ sh \in Int /\ sh <= 0 /\ hole \in Int /\ nb = b + len
    BY <1>2, <1>6, <1>8 DEF nb, sh, hole, NoHole
<1>12. r \in CompactState
    BY <1>3, <1>10, <1>11 DEF CompactState
<1>13. Top(r) = top
    BY <1>2, <1>7 DEF Top, nb, sh
<1>14. Lands(s, r, to, e, e, to)
    <2>1. w.val = len /\ r.block = s.block + w.val /\ s.heap.mem[s.block] = w
        BY <1>7, <1>11 DEF len, b, w
    <2> HIDE DEF len
    <2>2. to <= to /\ to + w.val <= e /\ to <= s.block /\ r.shift <= 0 /\ to # top
        <3>1. to + w.val <= e
            BY <1>8, <2>1
        <3>2. to <= s.block /\ to # top /\ to <= to
            BY <1>2, <1>5, <1>6, <1>8 DEF b
        <3> QED
            BY <1>7, <1>11, <3>1, <3>2
    <2>3. IF to = Top(s) THEN e = to /\ Top(r) = e
          ELSE s.heap.mem[to].val < 0 /\ e = to + Length(s.heap.mem[to]) /\ e = e /\ Top(r) = Top(s)
        BY <1>5, <1>6, <1>13, <2>2 DEF top, e
    <2>4. /\ \A d \in Addrs : Outside(d, to, e) /\ d < Top(s) => m[d] = s.heap.mem[d]
          /\ \A d \in Addrs : r.block <= d => m[d] = s.heap.mem[d]
        <3>1. ASSUME NEW d \in Addrs, Outside(d, to, e), d < top PROVE m[d] = s.heap.mem[d]
            <4>1. ~(to <= d /\ d < e) /\ ~(b <= d /\ d < nb)
                BY <1>2, <1>6, <1>8, <3>1, Sizes0 DEF Outside
            <4> QED
                BY <4>1, <1>9
        <3>2. ASSUME NEW d \in Addrs, nb <= d PROVE m[d] = s.heap.mem[d]
            <4>1. ~(to <= d /\ d < e) /\ ~(b <= d /\ d < nb)
                BY <1>2, <1>8, <1>11, <3>2, Sizes0
            <4> QED
                BY <4>1, <1>9
        <3> QED
            BY <3>1, <3>2, <1>7 DEF top
    <2>5. r.hole # NoHole => r.hole = to + w.val /\ e # to + w.val
        <3>1. left > 0 => e # to + len
            BY <1>8
        <3> QED
            BY <1>7, <2>1, <3>1 DEF hole
    <2>6. e # to + w.val => m[to + w.val].val = -(e - (to + w.val)) /\ e < Top(s)
        <3>1. e # to + len => left > 0
            BY <1>2, <1>6, <1>8
        <3>2. left = e - (to + len)
            BY <1>8, <1>2, <1>6
        <3> QED
            BY <2>1, <3>1, <3>2, <1>8, <1>9 DEF top
    <2>7. m[to].val = w.val /\ m[to].of = w.of /\ Own(m, to) /\ w.ops.move # "never"
        BY <1>9 DEF w
    <2>8. to \in Starts(Packed(s)) /\ to \in Nat /\ e \in Nat /\ e <= Size
        BY <1>5, <1>6, <1>8
    <2> QED
        BY <1>7, <1>10, <2>1, <2>2, <2>3, <2>4, <2>5, <2>6, <2>7, <2>8 DEF Lands
<1> QED
    BY <1>1, <1>12, <1>14, Landed DEF w, b

LEMMA HalfFree ==
    ASSUME NEW T, Good(T), NEW s \in CompactState, Half(T, s), s.block < T.end, s.heap.mem[s.block].val < 0,
           NEW r,
           LET len == Length(s.heap.mem[s.block])
           IN r = [heap |-> s.heap, block |-> s.block + len, hole |-> s.hole, shift |-> s.shift - len, ret |-> s.ret]
    PROVE  r \in CompactState /\ Half(T, r) /\ s.block < r.block
<1> DEFINE w == s.heap.mem[s.block]
           len == Length(w)
           b == s.block
<1>0. T \in HeapType /\ Sound(T)
    BY DEF Good
<1>1. /\ b \in Nat /\ w = T.mem[b] /\ len \in Nat \ {0} /\ b + len \in Starts(T)
      /\ \A c \in Starts(T) : b < c => b + len <= c
    BY HalfBlock
<1>2. s.heap \in HeapType /\ s.hole \in Int /\ s.shift \in Int /\ s.ret \in BOOLEAN
    BY DEF CompactState
<1>3. /\ s.heap.alloc \in [Handles -> {Reserved} \cup 0..Size] /\ T.alloc \in [Handles -> {Reserved} \cup 0..Size]
    BY <1>0, <1>2, HeapFields
<1>4. r.heap = s.heap /\ r.block = b + len /\ r.hole = s.hole /\ r.shift = s.shift - len
    OBVIOUS
<1>10. w.val < 0
    OBVIOUS
<1> HIDE DEF len, w
<1>5. r \in CompactState /\ r.block \in Nat /\ b < r.block
    BY <1>1, <1>2 DEF CompactState, len, w
<1>6. Top(r) = Top(s) /\ r.shift <= 0
    <2>1. s.shift <= 0
        BY DEF Half
    <2> QED
        BY <1>1, <1>2, <1>4, <2>1 DEF Top
<1>7. ASSUME NEW g \in Handles, s.heap.alloc[g] > b PROVE s.heap.alloc[g] > r.block
    <2>0. s.heap.alloc[g] \in Int /\ T.alloc[g] \in Int /\ b \in Int
        BY <1>1, <1>3 DEF Reserved
    <2>1. T.alloc[g] > b /\ s.heap.alloc[g] = T.alloc[g] /\ T.alloc[g] > 0
        <3>1. IF T.alloc[g] > b \/ T.alloc[g] <= 0 THEN s.heap.alloc[g] = T.alloc[g]
              ELSE 0 < s.heap.alloc[g] /\ s.heap.alloc[g] <= b
            BY DEF Half
        <3> QED
            BY <1>1, <1>7, <2>0, <3>1
    <2>2. T.alloc[g] - 1 \in Starts(T) /\ T.mem[T.alloc[g] - 1].val > 0
        BY <1>0, <2>1 DEF Sound, Found
    <2>3. T.mem[b].val \in Int
        <3>1. b \in Addrs
            BY HalfBlock
        <3> QED
            BY <1>0, <3>1, HeapFields, Words
    <2>4. T.alloc[g] - 1 # b
        BY <1>1, <1>10, <2>2, <2>3
    <2>5. b + len <= T.alloc[g] - 1
        <3>1. b < T.alloc[g] - 1
            BY <2>0, <2>1, <2>4
        <3> QED
            BY <1>1, <2>2, <3>1
    <2> QED
        BY <1>1, <1>4, <2>0, <2>1, <2>5
<1>8. Packed(r) = Packed(s)
    <2>1. \A g \in Handles : (s.heap.alloc[g] > r.block) <=> (s.heap.alloc[g] > b)
        <3> TAKE g \in Handles
        <3>1. s.heap.alloc[g] \in Int
            BY <1>3 DEF Reserved
        <3>2. s.heap.alloc[g] > r.block => s.heap.alloc[g] > b
            BY <1>1, <1>5, <3>1
        <3> QED
            BY <3>2, <1>7
    <2>2. [g \in Handles |-> IF s.heap.alloc[g] > r.block THEN 0 ELSE s.heap.alloc[g]]
          = [g \in Handles |-> IF s.heap.alloc[g] > b THEN 0 ELSE s.heap.alloc[g]]
        BY <2>1
    <2> HIDE DEF b
    <2> QED
        BY <1>4, <1>6, <2>2 DEF Packed, b
<1>9. \A g \in Handles : IF T.alloc[g] > r.block \/ T.alloc[g] <= 0 THEN s.heap.alloc[g] = T.alloc[g]
                         ELSE 0 < s.heap.alloc[g] /\ s.heap.alloc[g] <= r.block
    <2> TAKE g \in Handles
    <2>0. s.heap.alloc[g] \in Int /\ T.alloc[g] \in Int /\ b \in Nat /\ r.block \in Nat /\ b < r.block
        BY <1>1, <1>3, <1>5 DEF Reserved
    <2>1. IF T.alloc[g] > b \/ T.alloc[g] <= 0 THEN s.heap.alloc[g] = T.alloc[g]
          ELSE 0 < s.heap.alloc[g] /\ s.heap.alloc[g] <= b
        BY DEF Half
    <2> QED
        BY <2>0, <2>1
<1>11. \A d \in Addrs : r.block <= d => s.heap.mem[d] = T.mem[d]
    <2> SUFFICES ASSUME NEW d \in Addrs, r.block <= d PROVE s.heap.mem[d] = T.mem[d]
        OBVIOUS
    <2>1. b <= d
        BY <1>1, <1>5, Sizes0
    <2> QED
        BY <2>1 DEF Half
<1> HIDE DEF b
<1>12. r.block \in Starts(T)
    BY <1>1, <1>4
<1> QED
    BY <1>4, <1>5, <1>6, <1>8, <1>9, <1>11, <1>12 DEF Half, b

\* One step of the compaction keeps what holds half-way, and gets on.
LEMMA HalfStep ==
    ASSUME NEW T, Good(T), NEW s \in CompactState, Half(T, s), s.block < T.end, NEW refuse
    PROVE  /\ CompactStep(s, refuse) \in CompactState /\ Half(T, CompactStep(s, refuse))
           /\ s.block < CompactStep(s, refuse).block
<1> DEFINE w == s.heap.mem[s.block]
           len == Length(w)
           r == CompactStep(s, refuse)
<1>1. w.val \in Int /\ w.val # 0 /\ s.block \in Nat
    BY HalfBlock
<1>2. CASE w.val < 0
    <2>1. ~(w.val >= 0)
        <3> HIDE DEF w
        <3> QED
            BY <1>1, <1>2
    <2>2. r = [heap |-> s.heap, block |-> s.block + len, hole |-> s.hole, shift |-> s.shift - len, ret |-> s.ret]
        BY <1>2, <2>1, StepFree
    <2> HIDE DEF r
    <2>3. r \in CompactState /\ Half(T, r) /\ s.block < r.block
        BY <1>2, <2>2, HalfFree
    <2> QED
        BY <2>3 DEF r
<1>3. CASE w.val > 0
    <2>0. w.val >= 0 /\ ~(w.val < 0)
        <3> HIDE DEF w
        <3> QED
            BY <1>1, <1>3
    <2>1. UsedBlock(T, s)
        BY <1>3, UsedBlockIs
    <2>2. len = w.val /\ w.val \in Nat \ {0} /\ s.shift \in Int
        BY <2>1 DEF UsedBlock
    <2>3. CanMove(w, refuse) => w.ops.move # "never"
        BY DEF CanMove
    <2> DEFINE fits == s.hole # NoHole /\ -s.heap.mem[s.hole].val >= len /\ CanMove(w, refuse)
               nb == s.block + len
               to == s.block + s.shift
               left == -s.heap.mem[s.hole].val - len
    <2>9. r.block = nb => s.block < r.block
        <3> HIDE DEF w, r, len
        <3> QED
            BY <1>1, <2>2
    <2>4. CASE fits
        <3>1. r = [heap |-> Put(s.heap, SetFree(SetFree(Copied(s.heap.mem, s.block, w.val, s.hole), s.hole + len, left),
                                                s.block, len), w.of, s.hole),
                   block |-> nb, hole |-> IF left > 0 THEN s.hole + len ELSE NoHole,
                   shift |-> s.shift - len, ret |-> TRUE]
            BY <2>0, <2>4, StepHole
        <3> HIDE DEF r
        <3>2. r.block = nb
            BY <3>1
        <3>3. r \in CompactState /\ Half(T, r)
            BY <2>1, <2>2, <2>3, <2>4, <3>1, HalfHole
        <3> QED
            BY <2>9, <3>2, <3>3 DEF r
    <2>5. CASE ~fits /\ s.shift = 0
        <3>1. r = [heap |-> s.heap, block |-> nb, hole |-> s.hole, shift |-> s.shift, ret |-> s.ret]
            BY <2>0, <2>5, StepStays
        <3> HIDE DEF r
        <3>2. r.block = nb
            BY <3>1
        <3>3. r \in CompactState /\ Half(T, r)
            BY <2>1, <2>2, <2>5, <3>1, HalfStays
        <3> QED
            BY <2>9, <3>2, <3>3 DEF r
    <2>6. CASE ~fits /\ s.shift # 0 /\ CanMove(w, refuse)
        <3>1. r = [heap |-> Put(s.heap, Copied(s.heap.mem, s.block, w.val, to), w.of, to),
                   block |-> nb, hole |-> s.hole, shift |-> s.shift, ret |-> TRUE]
            BY <2>0, <2>6, StepMoved
        <3> HIDE DEF r
        <3>2. r.block = nb
            BY <3>1
        <3>3. r \in CompactState /\ Half(T, r)
            BY <2>1, <2>2, <2>3, <2>6, <3>1, HalfMoved
        <3> QED
            BY <2>9, <3>2, <3>3 DEF r
    <2>7. CASE s.shift # 0 /\ ~CanMove(w, refuse)
        <3>1. r = [heap |-> [mem |-> SetFree(s.heap.mem, to, -s.shift), alloc |-> s.heap.alloc,
                             first_free |-> s.heap.first_free, last |-> s.heap.last, end |-> s.heap.end,
                             compact |-> s.heap.compact],
                   block |-> nb, hole |-> to, shift |-> 0, ret |-> s.ret]
            BY <2>0, <2>7, StepLeft
        <3> HIDE DEF r
        <3>2. r.block = nb
            BY <3>1
        <3>3. r \in CompactState /\ Half(T, r)
            BY <2>1, <2>2, <2>7, <3>1, HalfLeft
        <3> QED
            BY <2>9, <3>2, <3>3 DEF r
    <2> QED
        BY <2>4, <2>5, <2>6, <2>7
<1> QED
    <2> HIDE DEF w
    <2> QED
        BY <1>1, <1>2, <1>3

\* The compaction starts with everything in front of the first free block packed.
LEMMA HalfStart ==
    ASSUME NEW T, Good(T), NEW short \in BOOLEAN, NEW s,
           s = [heap |-> T, block |-> FindFirstFree(T), hole |-> NoHole, shift |-> 0, ret |-> short]
    PROVE  s \in CompactState /\ Half(T, s)
<1> DEFINE f == FindFirstFree(T)
           S == Starts(T)
           K == Packed(s)
           A == S \cap (0..f)
<1>0. T \in HeapType /\ Sound(T) /\ T.mem \in Memory /\ T.alloc \in [Handles -> {Reserved} \cup 0..Size]
      /\ T.end \in 0..Size /\ T.end \in Nat /\ Size \in Nat
    BY HeapFields, Sizes0 DEF Good
<1>1. s.heap = T /\ s.block = f /\ s.hole = NoHole /\ s.shift = 0
    OBVIOUS
<1>2. /\ f \in S /\ f \in Nat /\ f <= T.end
      /\ f < T.end => T.mem[f].val < 0
      /\ \A a \in S : a < f => T.mem[a].val > 0
    BY <1>0, FindFirstFreeIs, SoundPlaces
<1>3. s \in CompactState
    BY <1>0, <1>2 DEF CompactState, NoHole
<1>4. 0 < f
    <2>1. 0 < T.end /\ T.mem[0].val > 0 /\ T.mem[0].val \in Int
        BY <1>0, TestBlock, Sizes0, Words
    <2> HIDE DEF f
    <2>2. f # 0
        BY <1>2, <2>1
    <2> QED
        BY <1>2, <2>2
<1> HIDE DEF f
<1>5. Top(s) = f
    BY <1>1, <1>2 DEF Top
<1>6. /\ K \in HeapType /\ K.mem = T.mem /\ K.end = f
      /\ K.alloc = [h \in Handles |-> IF T.alloc[h] > f THEN 0 ELSE T.alloc[h]]
    <2>1. s.heap.end <= Size /\ s.block <= s.heap.end /\ s.shift <= 0 /\ 0 < Top(s)
        BY <1>0, <1>1, <1>2, <1>4, <1>5
    <2> HIDE DEF K
    <2> QED
        BY <1>1, <1>3, <1>5, <2>1, PackedType DEF K
<1> HIDE DEF K, S
<1>7. Segment(T.mem, T.alloc, 0, f, A) /\ Within(0, f)
    <2>1. Segment(T.mem, T.alloc, 0, T.end, S) /\ Within(0, T.end)
        BY <1>0, SoundPlaces DEF Sound, S
    <2> QED
        BY <1>0, <1>2, <2>1, SegmentSplit
<1>8. \A a \in A : a \in S /\ a \in Nat /\ a <= f
    BY <1>2
<1>9. ASSUME NEW a \in A, a < f, T.mem[a].val > 0 PROVE K.alloc[T.mem[a].of] = T.alloc[T.mem[a].of]
    <2>1. T.mem[a].of \in Handles /\ T.alloc[T.mem[a].of] = a + 1
        BY <1>7, <1>9 DEF Segment, Owned
    <2>2. ~(a + 1 > f)
        BY <1>2, <1>8, <1>9
    <2> QED
        BY <1>6, <2>1, <2>2
<1> HIDE DEF A
<1>10. Segment(K.mem, K.alloc, 0, f, A) /\ ~FreeEnd(K.mem, f, A)
    <2>1. Segment(T.mem, K.alloc, 0, f, A)
        BY <1>0, <1>7, <1>9, SegmentSame
    <2>2. \A a \in A : a < f => ~(T.mem[a].val < 0)
        <3> SUFFICES ASSUME NEW a \in A, a < f PROVE ~(T.mem[a].val < 0)
            OBVIOUS
        <3>1. T.mem[a].val > 0 /\ a < T.end
            BY <1>0, <1>2, <1>8
        <3>2. T.mem[a].val \in Int
            BY <1>0, <1>8, <3>1, SoundPlaces DEF S
        <3> QED
            BY <3>1, <3>2
    <2> QED
        BY <1>6, <2>1, <2>2 DEF FreeEnd
<1>11. Found(K.mem, K.alloc, f, A)
    <2> SUFFICES ASSUME NEW h \in Handles, K.alloc[h] > 0
                 PROVE  /\ K.alloc[h] - 1 \in A /\ K.alloc[h] - 1 < f
                        /\ K.mem[K.alloc[h] - 1].val > 0 /\ K.mem[K.alloc[h] - 1].of = h
        BY DEF Found
    <2>0. T.alloc[h] \in Int
        BY <1>0 DEF Reserved
    <2>1. K.alloc[h] = T.alloc[h] /\ ~(T.alloc[h] > f) /\ T.alloc[h] > 0
        BY <1>6, <2>0
    <2>2. T.alloc[h] - 1 \in S /\ T.mem[T.alloc[h] - 1].val > 0 /\ T.mem[T.alloc[h] - 1].of = h
        BY <1>0, <2>1 DEF Sound, Found, S
    <2>3. T.alloc[h] - 1 \in Nat /\ T.alloc[h] - 1 < f
        BY <1>2, <2>0, <2>1
    <2> QED
        BY <1>2, <1>6, <2>1, <2>2, <2>3 DEF A
<1>12. Sound(K)
    BY <1>6, <1>10, <1>11, SoundFrom
<1>13. \A h \in Handles : IF T.alloc[h] > f \/ T.alloc[h] <= 0 THEN T.alloc[h] = T.alloc[h]
                          ELSE 0 < T.alloc[h] /\ T.alloc[h] <= f
    <2> TAKE h \in Handles
    <2>1. T.alloc[h] \in Int
        BY <1>0 DEF Reserved
    <2> QED
        BY <1>2, <2>1
<1> QED
    BY <1>1, <1>2, <1>3, <1>4, <1>5, <1>12, <1>13 DEF Half, K, S

\* Compaction of the heap T, whose table is as short as it can be.
Packing(T, s, refuse) ==
    LET run[i \in 0..Size] == IF i = 0 THEN s ELSE CompactOn(T, run[i - 1], refuse) IN run[Size]

LEMMA PackingIs ==
    ASSUME NEW T, Good(T), NEW s \in CompactState, Half(T, s), NEW refuse
    PROVE  LET r == Packing(T, s, refuse)
           IN r \in CompactState /\ Half(T, r) /\ r.block = T.end
<1> DEFINE S == {r \in CompactState : Half(T, r)}
           G == [i \in 0..Size |-> [r \in S |-> CompactOn(T, r, refuse)]]
           run == CHOOSE run : run = [i \in 0..Size |-> IF i = 0 THEN s ELSE CompactOn(T, run[i - 1], refuse)]
<1>0. T \in HeapType /\ Sound(T) /\ T.end \in Nat /\ T.end <= Size /\ Size \in Nat
    BY HeapFields, Sizes0 DEF Good
<1>1. Packing(T, s, refuse) = run[Size]
    BY DEF Packing
<1>2. \A r \in S : CompactOn(T, r, refuse) \in S
    <2> SUFFICES ASSUME NEW r \in S PROVE CompactOn(T, r, refuse) \in S
        OBVIOUS
    <2>1. CASE r.block < T.end
        BY <2>1, HalfStep DEF CompactOn
    <2>2. CASE ~(r.block < T.end)
        BY <2>2 DEF CompactOn
    <2> QED
        BY <2>1, <2>2
<1>3. s \in S
    OBVIOUS
<1>4. \A r \in S : /\ r \in CompactState /\ Half(T, r) /\ r.block \in Nat /\ r.block <= T.end
                   /\ r.block < T.end => r.block < CompactStep(r, refuse).block
    <2> TAKE r \in S
    <2>1. r \in CompactState /\ Half(T, r)
        OBVIOUS
    <2> HIDE DEF S
    <2>2. r.block \in Nat /\ r.block <= T.end
        BY <2>1, HalfBlock
    <2>3. r.block < T.end => r.block < CompactStep(r, refuse).block
        BY <2>1, HalfStep
    <2> QED
        BY <2>1, <2>2, <2>3
<1> HIDE DEF S
<1>5. G \in [0..Size -> [S -> S]] /\ \A i \in 0..Size, r \in S : G[i][r] = CompactOn(T, r, refuse)
    BY <1>2
<1> HIDE DEF G
<1>6. PICK f \in [0..Size -> S] : Follows(f, Size, s, G)
    BY <1>0, <1>3, <1>5, Recursion
<1>7. \A i \in 1..Size : f[i] = CompactOn(T, f[i - 1], refuse)
    BY <1>0, <1>5, <1>6 DEF Follows
<1>8. f = [i \in 0..Size |-> IF i = 0 THEN s ELSE CompactOn(T, f[i - 1], refuse)]
    BY <1>0, <1>6, <1>7 DEF Follows
<1>9. run = [i \in 0..Size |-> IF i = 0 THEN s ELSE CompactOn(T, run[i - 1], refuse)]
    BY <1>8
<1> HIDE DEF run
<1>10. run[0] = s /\ \A i \in 1..Size : run[i] = CompactOn(T, run[i - 1], refuse)
    <2> DEFINE Go(x) == CompactOn(T, x, refuse)
    <2> HIDE DEF Go
    <2>1. run = [i \in 0..Size |-> IF i = 0 THEN s ELSE Go(run[i - 1])]
        BY <1>9 DEF Go
    <2>2. run[0] = s /\ \A i \in 1..Size : run[i] = Go(run[i - 1])
        <3>1. 0 \in 0..Size /\ \A i \in 1..Size : i \in 0..Size /\ i # 0
            BY <1>0
        <3>2. run[0] = s
            BY <2>1, <3>1
        <3>3. ASSUME NEW i \in 1..Size PROVE run[i] = Go(run[i - 1])
            BY <2>1, <3>1
        <3> QED
            BY <3>2, <3>3
    <2> QED
        BY <2>2 DEF Go
<1>11. \A i \in 0..Size : run[i] \in S
    <2>1. \A i \in 1..Size : run[i - 1] \in S => run[i] \in S
        BY <1>2, <1>10
    <2> QED
        BY <1>0, <1>3, <1>10, <2>1, RecursionStays
<1>12. \A i \in 0..Size : run[i].block < T.end => i <= run[i].block
    <2> DEFINE N == {i \in 0..Size : ~(run[i].block < T.end => i <= run[i].block)}
    <2>1. SUFFICES ASSUME N # {} PROVE FALSE
        OBVIOUS
    <2>2. PICK k \in N : \A y \in N : k <= y
        <3>1. N \subseteq Nat
            BY <1>0
        <3> HIDE DEF N
        <3> QED
            BY <2>1, <3>1, LeastNumber
    <2>3. k \in 0..Size /\ run[k].block < T.end /\ ~(k <= run[k].block)
        OBVIOUS
    <2>4. run[k].block \in Nat
        BY <1>4, <1>11, <2>3
    <2>5. k \in 1..Size /\ k - 1 \in 0..Size /\ ~(k <= k - 1)
        BY <1>0, <2>3, <2>4
    <2>6. run[k - 1].block < T.end => k - 1 <= run[k - 1].block
        BY <2>2, <2>5
    <2>7. run[k] = CompactOn(T, run[k - 1], refuse)
        BY <1>10, <2>5
    <2>8. run[k - 1] \in S /\ run[k - 1].block \in Nat
        BY <1>4, <1>11, <2>5
    <2>9. CASE run[k - 1].block < T.end
        <3>1. run[k - 1].block < run[k].block
            BY <1>4, <2>7, <2>8, <2>9 DEF CompactOn
        <3> QED
            BY <2>3, <2>4, <2>5, <2>6, <2>8, <2>9, <3>1
    <2>10. CASE ~(run[k - 1].block < T.end)
        <3>1. run[k] = run[k - 1]
            BY <2>7, <2>10 DEF CompactOn
        <3> QED
            BY <2>3, <2>10, <3>1
    <2> QED
        BY <2>9, <2>10
<1>13. run[Size] \in S /\ Size \in 0..Size
    BY <1>0, <1>11
<1>14. run[Size].block \in Nat /\ run[Size].block <= T.end /\ (run[Size].block < T.end => Size <= run[Size].block)
    BY <1>4, <1>12, <1>13
<1>15. run[Size].block = T.end
    BY <1>0, <1>14
<1> QED
    BY <1>1, <1>4, <1>13, <1>15

\* What the compaction leaves when it comes to the end of the allocations.
PackedHeap(T, s) ==
    [s.heap EXCEPT !.end = T.end + s.shift, !.compact = TRUE, !.mem = Erased(@, T.end + s.shift, -s.shift)]

LEMMA PackedHeapIs ==
    ASSUME NEW T, Good(T), NEW s \in CompactState, Half(T, s), s.block = T.end
    PROVE  LET R == PackedHeap(T, s)
           IN /\ Good(R) /\ R.alloc = s.heap.alloc
              /\ \A h \in Handles : (R.alloc[h] > 0 <=> T.alloc[h] > 0) /\ (T.alloc[h] <= 0 => R.alloc[h] = T.alloc[h])
              /\ \A h \in Handles : T.alloc[h] > 0 /\ T.mem[T.alloc[h] - 1].ops.move = "never"
                        => R.alloc[h] = T.alloc[h]
<1> DEFINE R == PackedHeap(T, s)
           K == Packed(s)
           end == T.end + s.shift
           m == Erased(s.heap.mem, end, -s.shift)
<1>0. T \in HeapType /\ Sound(T) /\ T.alloc \in [Handles -> {Reserved} \cup 0..Size] /\ Books(T)
      /\ T.last \in Handles /\ T.first_free \in Handles
    BY HeapFields DEF Good
<1>1. /\ T.end \in Nat /\ T.end <= Size /\ Size \in Nat
      /\ K \in HeapType /\ K.mem = s.heap.mem /\ K.end = Top(s)
      /\ K.alloc = [h \in Handles |-> IF s.heap.alloc[h] > s.block THEN 0 ELSE s.heap.alloc[h]]
      /\ Top(s) \in Nat /\ Top(s) <= T.end
    BY HalfBlock
<1>2. Top(s) = end /\ s.shift \in Int /\ s.shift <= 0 /\ 0 < end
    BY DEF Top, Half, CompactState
<1>3. s.heap \in HeapType /\ s.heap.mem \in Memory /\ s.heap.alloc \in [Handles -> {Reserved} \cup 0..Size]
      /\ s.heap.end = T.end /\ s.heap.last = T.last /\ s.heap.first_free = T.first_free
    BY HeapFields DEF CompactState, Half
<1>4. end \in Nat /\ end <= T.end /\ end <= Size /\ -s.shift \in Nat
    BY <1>1, <1>2
<1>5. /\ m \in Memory
      /\ \A b \in Addrs : ~(end <= b /\ b < end + (-s.shift)) => m[b] = s.heap.mem[b]
    <2> DEFINE n == -s.shift
    <2>1. n \in Nat /\ end \in Nat /\ s.heap.mem \in Memory
        BY <1>3, <1>4
    <2> HIDE DEF n, end
    <2>2. /\ Erased(s.heap.mem, end, n) \in Memory
          /\ \A b \in Addrs : ~(end <= b /\ b < end + n) => Erased(s.heap.mem, end, n)[b] = s.heap.mem[b]
        BY <2>1, ErasedWords
    <2> QED
        BY <2>2 DEF n
<1> HIDE DEF m
<1>6. R = [mem |-> m, alloc |-> s.heap.alloc, first_free |-> s.heap.first_free, last |-> s.heap.last,
           end |-> end, compact |-> TRUE]
    <2> DEFINE G == s.heap
    <2>1. G \in HeapType
        BY <1>3
    <2>2. R = [G EXCEPT !.end = end, !.compact = TRUE, !.mem = m]
        BY <2>1 DEF PackedHeap, HeapType, m
    <2> HIDE DEF G, R, end
    <2>3. R = [mem |-> m, alloc |-> G.alloc, first_free |-> G.first_free, last |-> G.last, end |-> end, compact |-> TRUE]
        BY <2>1, <2>2, Zenon DEF HeapType
    <2> QED
        BY <2>3 DEF G
<1> HIDE DEF R
<1>7. R.mem = m /\ R.alloc = s.heap.alloc /\ R.first_free = T.first_free /\ R.last = T.last /\ R.end = end
    BY <1>3, <1>6
<1>8. R \in HeapType
    BY <1>0, <1>3, <1>4, <1>5, <1>6 DEF HeapType
<1>9. \A h \in Handles : /\ T.alloc[h] \in Int /\ s.heap.alloc[h] \in Int
                         /\ T.alloc[h] <= T.end
                         /\ IF T.alloc[h] <= 0 THEN s.heap.alloc[h] = T.alloc[h]
                            ELSE 0 < s.heap.alloc[h] /\ s.heap.alloc[h] <= T.end
    <2> TAKE h \in Handles
    <2>1. T.alloc[h] \in Int /\ s.heap.alloc[h] \in Int
        BY <1>0, <1>3 DEF Reserved
    <2>2. T.alloc[h] <= T.end
        <3>1. T.alloc[h] > 0 => T.alloc[h] - 1 < T.end
            BY <1>0 DEF Sound, Found
        <3> QED
            BY <1>1, <2>1, <3>1
    <2>3. IF T.alloc[h] > s.block \/ T.alloc[h] <= 0 THEN s.heap.alloc[h] = T.alloc[h]
          ELSE 0 < s.heap.alloc[h] /\ s.heap.alloc[h] <= s.block
        BY DEF Half
    <2> QED
        BY <1>1, <2>1, <2>2, <2>3
<1>10. \A h \in Handles : K.alloc[h] = R.alloc[h]
    <2> TAKE h \in Handles
    <2>1. ~(s.heap.alloc[h] > s.block)
        BY <1>1, <1>9
    <2> QED
        BY <1>1, <1>7, <2>1
<1>11. Sound(K)
    BY DEF Half, K
<1> HIDE DEF K, end
<1>12. Sound(R) /\ Starts(R) = Starts(K)
    <2> DEFINE S == Starts(K)
    <2>1. Within(0, end) /\ \A a \in S : a < end => a \in Addrs
        BY <1>1, <1>2, <1>11, SoundPlaces
    <2>2. Segment(K.mem, K.alloc, 0, end, S) /\ ~FreeEnd(K.mem, end, S) /\ Found(K.mem, K.alloc, end, S)
        BY <1>1, <1>2, <1>11 DEF Sound
    <2>3. K.mem \in Memory /\ m \in Memory
        BY <1>1, <1>3, <1>5
    <2>4. \A b \in Addrs : 0 <= b /\ b < end => m[b] = K.mem[b]
        <3> SUFFICES ASSUME NEW b \in Addrs, b < end PROVE m[b] = K.mem[b]
            OBVIOUS
        <3>1. ~(end <= b /\ b < end + (-s.shift))
            BY <1>4, Sizes0
        <3> QED
            BY <1>1, <1>5, <3>1
    <2>5. \A a \in S : a < end /\ K.mem[a].val > 0 => R.alloc[K.mem[a].of] = K.alloc[K.mem[a].of]
        BY <1>10, <2>2 DEF Segment, Owned
    <2>6. Segment(m, R.alloc, 0, end, S) /\ ~FreeEnd(m, end, S)
        BY <2>1, <2>2, <2>3, <2>4, <2>5, SegmentSame, SMTT(30)
    <2>7. Found(m, R.alloc, end, S)
        <3> SUFFICES ASSUME NEW h \in Handles, R.alloc[h] > 0
                     PROVE  /\ R.alloc[h] - 1 \in S /\ R.alloc[h] - 1 < end
                            /\ m[R.alloc[h] - 1].val > 0 /\ m[R.alloc[h] - 1].of = h
            BY DEF Found
        <3>1. /\ R.alloc[h] - 1 \in S /\ R.alloc[h] - 1 < end
              /\ K.mem[R.alloc[h] - 1].val > 0 /\ K.mem[R.alloc[h] - 1].of = h
            BY <1>10, <2>2 DEF Found
        <3>2. R.alloc[h] - 1 \in Addrs
            BY <2>1, <3>1
        <3>3. 0 <= R.alloc[h] - 1
            BY <3>2, Sizes0
        <3> QED
            BY <2>4, <3>1, <3>2, <3>3
    <2> HIDE DEF S
    <2>8. Sound(R) /\ Starts(R) = S
        BY <1>7, <1>8, <2>6, <2>7, SoundFrom
    <2> QED
        BY <2>8 DEF S
<1>13. R.mem[0] = T.mem[0]
    <2>1. ~(end <= 0) /\ 0 \in Addrs
        BY <1>2, <1>4, Sizes0
    <2>2. m[0] = s.heap.mem[0]
        BY <1>5, <2>1
    <2> QED
        BY <1>7, <2>2 DEF Half
<1>14. Books(R)
    <2>1. R.first_free <= R.last + 1
        BY <1>0, <1>7 DEF Books
    <2>2. R.end <= Size - R.last
        <3>1. T.end <= Size - T.last /\ T.last \in Nat
            BY <1>0, Sizes0 DEF Books
        <3> QED
            BY <1>1, <1>4, <1>7, <3>1
    <2>3. \A h \in Handles : R.alloc[h] # 0 => h <= R.last
        BY <1>0, <1>7, <1>9 DEF Books
    <2>4. R.mem[0].ops = PlainOps
        BY <1>0, <1>13 DEF Books
    <2>5. R.alloc[TestHandle] = 1
        <3>1. 0 \in Starts(R) /\ 0 < R.end
            BY <1>2, <1>7, <1>8, <1>12, SoundPlaces
        <3>2. R.mem[0].val > 0 /\ R.mem[0].of = TestHandle
            BY <1>13, TestBlock
        <3>3. R.alloc[R.mem[0].of] = 0 + 1
            BY <1>12, <3>1, <3>2 DEF Sound, Segment, Owned
        <3> QED
            BY <3>2, <3>3
    <2> QED
        BY <2>1, <2>2, <2>3, <2>4, <2>5 DEF Books
<1>15. \A h \in Handles : (R.alloc[h] > 0 <=> T.alloc[h] > 0) /\ (T.alloc[h] <= 0 => R.alloc[h] = T.alloc[h])
    <2> TAKE h \in Handles
    <2> QED
        BY <1>7, <1>9
<1>16. \A h \in Handles : T.alloc[h] > 0 /\ T.mem[T.alloc[h] - 1].ops.move = "never" => R.alloc[h] = T.alloc[h]
    BY <1>7 DEF Half
<1> QED
    BY <1>7, <1>8, <1>12, <1>14, <1>15, <1>16 DEF Good, R

\* Compaction: a good heap stays good, the same handles have blocks, and the
\* blocks that must not be moved are where they were.
LEMMA CompactIs ==
    ASSUME NEW H, Good(H), NEW refuse
    PROVE  LET R == Compact(H, refuse).heap
           IN /\ Good(R)
              /\ \A h \in Handles : (R.alloc[h] > 0 <=> H.alloc[h] > 0) /\ (H.alloc[h] <= 0 => R.alloc[h] = H.alloc[h])
              /\ \A h \in Handles : H.alloc[h] > 0 /\ H.mem[H.alloc[h] - 1].ops.move = "never"
                        => R.alloc[h] = H.alloc[h]
<1> DEFINE T == TableShrunk(H)
           start == [heap |-> T, block |-> FindFirstFree(T), hole |-> NoHole, shift |-> 0, ret |-> T.last # H.last]
           s == Packing(T, start, refuse)
<1>1. Good(T) /\ T.mem = H.mem /\ T.alloc = H.alloc
    BY TableShrunkIs
<1>2. Compact(H, refuse).heap = PackedHeap(T, s)
    BY DEF Compact, PackedHeap, Packing
<1> HIDE DEF T
<1>3. start \in CompactState /\ Half(T, start)
    <2> DEFINE short == T.last # H.last
    <2>1. short \in BOOLEAN
        OBVIOUS
    <2>2. start = [heap |-> T, block |-> FindFirstFree(T), hole |-> NoHole, shift |-> 0, ret |-> short]
        OBVIOUS
    <2> HIDE DEF short, start
    <2> QED
        BY <1>1, <2>1, <2>2, HalfStart
<1> HIDE DEF start
<1>4. s \in CompactState /\ Half(T, s) /\ s.block = T.end
    BY <1>1, <1>3, PackingIs
<1> HIDE DEF s
<1> QED
    BY <1>1, <1>2, <1>4, PackedHeapIs

(***************************************************************************)
(* The words buflib_allocatable tells are a number.                        *)
(***************************************************************************)
LEMMA GreatestOfFour ==
    ASSUME NEW a \in Int, NEW b \in Int, NEW c \in Int, NEW d \in Int
    PROVE  Greatest({a, b, c, d}) \in Int /\ d <= Greatest({a, b, c, d})
<1> DEFINE S == {a, b, c, d}
<1>1. \E x \in S : \A y \in S : y <= x
    <2>1. CASE b <= a /\ c <= a /\ d <= a
        BY <2>1
    <2>2. CASE a <= b /\ c <= b /\ d <= b
        BY <2>2
    <2>3. CASE a <= c /\ b <= c /\ d <= c
        BY <2>3
    <2>4. CASE a <= d /\ b <= d /\ c <= d
        BY <2>4
    <2> QED
        BY <2>1, <2>2, <2>3, <2>4
<1>2. Greatest(S) \in S /\ \A y \in S : y <= Greatest(S)
    <2> HIDE DEF S
    <2> QED
        BY <1>1 DEF Greatest
<1> QED
    BY <1>2

RoomState == [this : Nat, free : Int, max : Int]

LEMMA RoomStays ==
    ASSUME NEW H \in HeapType, NEW w \in RoomState
    PROVE  RoomOn(H, w) \in RoomState
<1> DEFINE word == H.mem[w.this]
           next == w.this + Length(word)
<1>0. w.this \in Nat /\ w.free \in Int /\ w.max \in Int
    BY DEF RoomState
<1>1. CASE ~(w.this < H.end)
    BY <1>1 DEF RoomOn
<1>2. CASE w.this < H.end
    <2>1. word.val \in Int /\ Length(word) \in Nat
        <3>1. w.this \in Addrs /\ H.mem \in Memory
            BY <1>0, <1>2, HeapFields, Sizes0
        <3> QED
            BY <3>1, Words
    <2>2. next \in Nat
        BY <1>0, <2>1
    <2>3. RoomOn(H, w) = CASE word.val < 0 -> [w EXCEPT !.this = next, !.free = @ - word.val]
                           [] word.val >= 0 /\ MovableAt(H, w.this) -> [w EXCEPT !.this = next]
                           [] OTHER -> [this |-> next, free |-> 0, max |-> Greatest({w.max, w.free})]
        BY <1>2 DEF RoomOn, RoomStep
    <2>4. Greatest({w.max, w.free}) \in Int
        BY <1>0, GreatestOfTwo
    <2>5. w.free - word.val \in Int
        BY <1>0, <2>1
    <2> HIDE DEF next
    <2>6. CASE word.val < 0
        <3>1. ~(word.val >= 0)
            BY <2>1, <2>6
        <3>2. RoomOn(H, w) = [w EXCEPT !.this = next, !.free = @ - word.val]
            <4> HIDE DEF word
            <4> QED
                BY <2>3, <2>6, <3>1
        <3> QED
            BY <2>2, <2>5, <3>2 DEF RoomState
    <2>7. CASE word.val >= 0 /\ MovableAt(H, w.this)
        <3>1. ~(word.val < 0)
            BY <2>1, <2>7
        <3>2. RoomOn(H, w) = [w EXCEPT !.this = next]
            <4> HIDE DEF word
            <4> QED
                BY <2>3, <2>7, <3>1
        <3> QED
            BY <2>2, <3>2 DEF RoomState
    <2>8. CASE ~(word.val < 0) /\ ~(word.val >= 0 /\ MovableAt(H, w.this))
        <3>2. RoomOn(H, w) = [this |-> next, free |-> 0, max |-> Greatest({w.max, w.free})]
            <4> HIDE DEF word
            <4> QED
                BY <2>3, <2>8
        <3> QED
            BY <2>2, <2>4, <3>2 DEF RoomState
    <2> QED
        BY <2>6, <2>7, <2>8
<1> QED
    BY <1>1, <1>2

LEMMA AllocatableWordsIs ==
    ASSUME NEW H, Good(H)
    PROVE  AllocatableWords(H) \in Nat
<1> DEFINE n == H.end
           G == [i \in 0..n |-> [w \in RoomState |-> RoomOn(H, w)]]
           first == [this |-> FindFirstFree(H), free |-> 0, max |-> 0]
           walk == CHOOSE walk : walk = [i \in 0..H.end |-> IF i = 0 THEN [this |-> FindFirstFree(H), free |-> 0, max |-> 0]
                                                            ELSE RoomOn(H, walk[i - 1])]
           w == walk[n]
<1>0. H \in HeapType /\ H.end \in Nat /\ H.last \in Int /\ Size \in Int /\ EndReserve \in Int
    BY HeapFields, Sizes0, SizesAssumption DEF Good
<1>1. first \in RoomState
    <2>1. FindFirstFree(H) \in Nat
        BY <1>0, FindFirstFreeIs, SoundPlaces DEF Good
    <2> QED
        BY <2>1 DEF RoomState
<1>2. G \in [0..n -> [RoomState -> RoomState]] /\ \A i \in 0..n, r \in RoomState : G[i][r] = RoomOn(H, r)
    BY <1>0, RoomStays
<1>3. AllocatableWords(H) = Greatest({w.max, w.free, Size - H.last - H.end - EndReserve, 0})
    BY DEF AllocatableWords
<1> HIDE DEF G
<1>4. PICK f \in [0..n -> RoomState] : Follows(f, n, first, G)
    BY <1>0, <1>1, <1>2, Recursion
<1> DEFINE Go(x) == RoomOn(H, x)
<1> HIDE DEF Go
<1>5. \A i \in 1..n : f[i] = Go(f[i - 1])
    <2> SUFFICES ASSUME NEW i \in 1..n PROVE f[i] = Go(f[i - 1])
        OBVIOUS
    <2>1. i - 1 \in 0..n /\ f[i] = G[i - 1][f[i - 1]]
        BY <1>0, <1>4 DEF Follows
    <2>2. f[i - 1] \in RoomState
        BY <2>1, <1>4
    <2> QED
        BY <2>1, <2>2, <1>2 DEF Go
<1>6. f[0] = first
    BY <1>4 DEF Follows
<1>7. walk = CHOOSE wk : wk = [i \in 0..n |-> IF i = 0 THEN first ELSE Go(wk[i - 1])]
    BY DEF Go
<1> HIDE DEF walk, first
<1>8. f = [i \in 0..n |-> IF i = 0 THEN first ELSE Go(f[i - 1])]
    BY <1>0, <1>5, <1>6
<1>9. walk = [i \in 0..n |-> IF i = 0 THEN first ELSE Go(walk[i - 1])]
    BY <1>7, <1>8
<1> HIDE DEF n
<1>10. n \in Nat /\ 0 \in 0..n /\ n \in 0..n /\ \A i \in 1..n : i \in 0..n /\ i # 0
    BY <1>0 DEF n
<1>11. walk[0] = first
    BY <1>9, <1>10
<1>12. ASSUME NEW i \in 1..n PROVE walk[i] = Go(walk[i - 1])
    BY <1>9, <1>10
<1>13. \A i \in 1..n : walk[i - 1] \in RoomState => walk[i] \in RoomState
    BY <1>0, <1>12, RoomStays DEF Go
<1>14. \A i \in 0..n : walk[i] \in RoomState
    BY <1>1, <1>10, <1>11, <1>13, RecursionStays
<1>15. w \in RoomState
    BY <1>10, <1>14
<1> HIDE DEF w
<1>16. w.max \in Int /\ w.free \in Int
    BY <1>15 DEF RoomState
<1> DEFINE room == Size - H.last - H.end - EndReserve
<1>17. room \in Int
    BY <1>0
<1> HIDE DEF room
<1>18. Greatest({w.max, w.free, room, 0}) \in Int /\ 0 <= Greatest({w.max, w.free, room, 0})
    <2> DEFINE a == w.max
               b == w.free
    <2>1. a \in Int /\ b \in Int /\ 0 \in Int
        BY <1>16
    <2> HIDE DEF a, b
    <2>2. Greatest({a, b, room, 0}) \in Int /\ 0 <= Greatest({a, b, room, 0})
        BY <1>17, <2>1, GreatestOfFour
    <2> QED
        BY <2>2 DEF a, b
<1> QED
    BY <1>3, <1>18 DEF room

(***************************************************************************)
(* The inductive invariant: at every step of every call the heap is good,  *)
(* only the entry of the call under way has no block yet, and the round    *)
(* that asks the blocks to shrink stands at a block, with the one before   *)
(* it, however much has been freed and shrunk since it started.            *)
(***************************************************************************)
CallType == [pc : {"idle", "handle", "buffer", "shrink", "maximum", "size"},
             back : {"idle", "handle", "buffer", "maximum"},
             size : Nat, ops : Ops \cup {None}, handle : {0} \cup Handles,
             this : 0..Size, before : 0..Size, front : BOOLEAN,
             want : Nat, result : BOOLEAN]

\* Where the round over the blocks of H is.
RoundAt(H, this, before) ==
    /\ this \in Starts(H) /\ before \in Starts(H)
    /\ \/ before = this /\ this \in {0, H.end}
       \/ before < this /\ before + Length(H.mem[before]) = this

WithHandle(c) == c.pc = "buffer" \/ (c.pc = "shrink" /\ c.back = "buffer")
WithSize(c) == c.pc \in {"handle", "buffer"} \/ (c.pc = "shrink" /\ c.back \in {"handle", "buffer"})
CallKept(H, c) ==
    /\ \A h \in Handles : H.alloc[h] = Reserved <=> h = c.handle
    /\ c.handle # 0 <=> WithHandle(c)
    /\ WithSize(c) => c.size > 0
    /\ c.pc = "shrink" => c.back # "idle" /\ RoundAt(H, c.this, c.before)

HeapInv == Good(heap) /\ call \in CallType /\ CallKept(heap, call)

\* What FixedStays asks of a step that makes R of the heap H.
Fixed(H, R) ==
    \A h \in Handles :
        H.alloc[h] > 0 /\ H.mem[H.alloc[h] - 1].ops.move = "never" /\ R.alloc[h] > 0 =>
            \/ R.alloc[h] = H.alloc[h]
            \/ R.mem[R.alloc[h] - 1].val < H.mem[H.alloc[h] - 1].val

\* What the runs check of the heap follows.
LEMMA HeapKeptHolds == HeapInv => HeapKept
<1> SUFFICES ASSUME HeapInv PROVE HeapKept
    OBVIOUS
<1> DEFINE H == heap
<1>0. H \in HeapType /\ Sound(H) /\ Books(H) /\ call \in CallType /\ CallKept(H, call)
    BY DEF HeapInv, Good
<1>1. HeapTypeOK
    BY <1>0 DEF HeapTypeOK, HeapType, Memory, CallType
<1>2. Segment(H.mem, H.alloc, 0, H.end, Starts(H)) /\ ~FreeEnd(H.mem, H.end, Starts(H))
      /\ Found(H.mem, H.alloc, H.end, Starts(H))
    BY <1>0 DEF Sound
<1> HIDE DEF H
<1>3. \A a \in Starts(H) : a < H.end => H.mem[a].val # 0 /\ a + Length(H.mem[a]) <= H.end
    BY <1>0, SoundPlaces
<1>4. H.end <= Size - H.last
    BY <1>0 DEF Books
<1>5. \A a \in Starts(H) : a < H.end /\ H.mem[a].val > 0 =>
            /\ H.alloc[H.mem[a].of] = a + 1
            /\ \A b \in (a + 1)..(a + H.mem[a].val - 1) : H.mem[b] = [Junk EXCEPT !.of = H.mem[a].of]
    BY <1>2 DEF Segment, Owned, Own
<1>6. \A h \in Live(H) : BlockOf(H, h) \in Starts(H) /\ H.mem[BlockOf(H, h)].of = h
    BY <1>2 DEF Live, BlockOf, Found
<1>7. ASSUME NEW a \in Starts(H), IsFree(H, a)
      PROVE  a - H.mem[a].val < H.end /\ H.mem[a - H.mem[a].val].val > 0
    <2>1. a < H.end /\ H.mem[a].val < 0
        BY <1>7 DEF IsFree
    <2>2. /\ a \in Nat /\ H.mem[a].val \in Int /\ a + Length(H.mem[a]) <= H.end
          /\ Length(H.mem[a]) = IF H.mem[a].val < 0 THEN -H.mem[a].val ELSE H.mem[a].val
        BY <1>0, <2>1, SoundPlaces
    <2>3. a - H.mem[a].val = a + Length(H.mem[a]) /\ H.end \in Nat
        BY <1>0, <2>1, <2>2, HeapFields, Sizes0
    <2>4. a + Length(H.mem[a]) # H.end
        BY <1>2, <2>1 DEF FreeEnd
    <2>5. a + Length(H.mem[a]) < H.end
        BY <2>1, <2>2, <2>3, <2>4
    <2>6. H.mem[a + Length(H.mem[a])].val > 0
        BY <1>2, <2>1, <2>5 DEF Segment, Merged
    <2> QED
        BY <2>3, <2>5, <2>6
<1>8. \A h \in Handles : H.alloc[h] # 0 => h <= H.last /\ (H.alloc[h] = Reserved => h = call.handle)
    BY <1>0 DEF Books, CallKept
<1>9. Tiled
    BY <1>3, <1>4, <1>5, <1>6 DEF Tiled, H
<1>10. NoFreeNeighbours
    BY <1>7 DEF NoFreeNeighbours, H
<1>11. HandlesKept
    BY <1>8 DEF HandlesKept, H
<1> QED
    BY <1>1, <1>9, <1>10, <1>11 DEF HeapKept

\* Nothing that must stay where it is moves when the heap does not change.
LEMMA FixedSame ==
    ASSUME NEW H, NEW R, \A h \in Handles : H.alloc[h] > 0 /\ R.alloc[h] > 0 => R.alloc[h] = H.alloc[h]
    PROVE  Fixed(H, R)
BY DEF Fixed

LEMMA HeapInitHolds == HeapInit => HeapInv
<1> SUFFICES ASSUME HeapInit PROVE HeapInv
    OBVIOUS
<1> DEFINE m0 == [a \in Addrs |-> Junk]
           m == SetUsed(m0, 0, TestLen, TestHandle, PlainOps)
           al == [h \in Handles |-> IF h = TestHandle THEN 1 ELSE 0]
           H == heap
           S == {0, TestLen}
<1>1. H = [mem |-> m, alloc |-> al, first_free |-> 1, last |-> 1, end |-> TestLen, compact |-> TRUE] /\ call = NoCall
    BY DEF HeapInit
<1>2. m0 \in Memory
    BY Sizes0 DEF Memory, Word, Junk
<1>3. PlainOps \in Ops /\ TestLen \in Nat \ {0} /\ 0 + TestLen <= Size /\ 0 \in Nat /\ 0 + TestLen = TestLen
    BY OpsAssumption, Sizes0 DEF PlainOps, TestLen
<1> HIDE DEF m0
<1>4. /\ m \in Memory /\ Own(m, 0)
      /\ m[0] = [val |-> TestLen, of |-> TestHandle, ops |-> PlainOps]
    <2>1. TestHandle \in Handles /\ PlainOps \in Ops \cup {None}
        BY <1>3, Sizes0
    <2> QED
        BY <1>2, <1>3, <2>1, UsedWords
<1>5. m[0].val = TestLen /\ m[0].of = TestHandle /\ m[0].ops = PlainOps
    BY <1>4
<1>6. al \in [Handles -> {Reserved} \cup 0..Size] /\ al[TestHandle] = 1 /\ \A h \in Handles : al[h] # 0 => h = TestHandle
    BY Sizes0
<1> HIDE DEF m, al, H
<1>7. H.mem = m /\ H.alloc = al /\ H.first_free = 1 /\ H.last = 1 /\ H.end = TestLen
    BY <1>1
<1>8. H \in HeapType
    <2>1. 1 \in Handles /\ TestLen \in 0..Size
        BY Sizes0 DEF TestLen
    <2> QED
        BY <1>1, <1>4, <1>6, <2>1 DEF HeapType
<1>9. Segment(H.mem, H.alloc, 0, H.end, S) /\ ~FreeEnd(H.mem, H.end, S)
    <2>1. /\ m \in Memory /\ 0 \in Addrs /\ TestLen \in Nat \ {0} /\ m[0].val = TestLen /\ m[0].of \in Handles
          /\ al[m[0].of] = 0 + 1 /\ Own(m, 0)
        BY <1>3, <1>4, <1>5, <1>6, Sizes0
    <2>2. Segment(m, al, 0, 0 + TestLen, {0, 0 + TestLen}) /\ ~FreeEnd(m, 0 + TestLen, {0, 0 + TestLen})
        BY <2>1, SegmentUsed
    <2> QED
        BY <1>3, <1>7, <2>2
<1>10. Found(H.mem, H.alloc, H.end, S)
    BY <1>5, <1>6, <1>7 DEF Found, TestLen
<1>11. Sound(H)
    BY <1>8, <1>9, <1>10, SoundFrom
<1>12. Books(H)
    BY <1>5, <1>6, <1>7, Sizes0 DEF Books, TestLen, TestHandle
<1>13. call \in CallType
    BY <1>1, Sizes0 DEF CallType, NoCall
<1>14. CallKept(H, call)
    <2>1. \A h \in Handles : al[h] # Reserved /\ h # 0
        BY <1>6, Sizes0 DEF Reserved
    <2> QED
        BY <1>1, <1>7, <2>1 DEF CallKept, NoCall, WithHandle, WithSize
<1> QED
    BY <1>8, <1>11, <1>12, <1>13, <1>14 DEF HeapInv, Good, H

LEMMA CallIdle ==
    ASSUME NEW H, \A h \in Handles : H.alloc[h] # Reserved
    PROVE  NoCall \in CallType /\ CallKept(H, NoCall)
<1>1. NoCall \in CallType
    BY Sizes0 DEF CallType, NoCall
<1>2. \A h \in Handles : h # 0
    BY Sizes0
<1> QED
    BY <1>1, <1>2 DEF CallKept, NoCall, WithHandle, WithSize

LEMMA FreeKeeps ==
    ASSUME HeapInv, NEW h \in Handles, Free(h)
    PROVE  HeapInv' /\ Fixed(heap, heap')
<1>1. /\ call = NoCall /\ h \in Handles \ {TestHandle} /\ heap.alloc[h] > 0
      /\ heap' = Freed(heap, h) /\ call' = call
    BY DEF Free, Live
<1>2. Good(heap') /\ heap'.alloc = [heap.alloc EXCEPT ![h] = 0]
    BY <1>1, FreedIs DEF HeapInv
<1>3. heap.alloc \in [Handles -> {Reserved} \cup 0..Size]
    BY HeapFields DEF HeapInv, Good
<1>4. \A g \in Handles : heap.alloc[g] # Reserved
    <2>1. \A g \in Handles : g # 0
        BY Sizes0
    <2> QED
        BY <1>1, <2>1 DEF HeapInv, CallKept, NoCall
<1>5. \A g \in Handles : heap'.alloc[g] = IF g = h THEN 0 ELSE heap.alloc[g]
    BY <1>2, <1>3
<1>6. \A g \in Handles : heap'.alloc[g] # Reserved
    BY <1>4, <1>5 DEF Reserved
<1>7. Fixed(heap, heap')
    <2>1. \A g \in Handles : heap.alloc[g] > 0 /\ heap'.alloc[g] > 0 => heap'.alloc[g] = heap.alloc[g]
        BY <1>5
    <2> QED
        BY <2>1, FixedSame
<1> QED
    BY <1>1, <1>2, <1>6, <1>7, CallIdle DEF HeapInv

\* A block that shrinks stays or gets shorter, and the others stay.
LEMMA ShrunkFixed ==
    ASSUME NEW H, Good(H), NEW h \in Handles \ {TestHandle}, H.alloc[h] > 0, NEW s \in Shrinkages(H, h),
           NEW R, R = Shrunk(H, h, s[1], s[2])
    PROVE  /\ Good(R) /\ Fixed(H, R) /\ R.alloc[h] > 0
           /\ \A g \in Handles \ {h} : R.alloc[g] = H.alloc[g]
<1> DEFINE new == BlockOf(H, h) + s[1]
<1>1. Good(R) /\ R.alloc = [H.alloc EXCEPT ![h] = new + 1] /\ R.mem[new].val < H.mem[BlockOf(H, h)].val
    BY ShrunkIs
<1>2. H.alloc \in [Handles -> {Reserved} \cup 0..Size]
    BY HeapFields DEF Good
<1>3. new \in Nat
    <2>1. BlockOf(H, h) \in Nat /\ H.mem[BlockOf(H, h)].val \in Nat
        BY BlockIs DEF Good
    <2>2. s[1] \in Nat
        BY <2>1 DEF Shrinkages
    <2> QED
        BY <2>1, <2>2
<1> HIDE DEF new
<1>4. R.alloc[h] = new + 1 /\ \A g \in Handles \ {h} : R.alloc[g] = H.alloc[g]
    BY <1>1, <1>2
<1>5. R.alloc[h] - 1 = new /\ R.alloc[h] > 0
    BY <1>3, <1>4
<1>6. Fixed(H, R)
    BY <1>1, <1>4, <1>5 DEF Fixed, BlockOf
<1> QED
    BY <1>1, <1>4, <1>5, <1>6

LEMMA ShrinkKeeps ==
    ASSUME HeapInv, NEW h \in Handles, Shrink(h)
    PROVE  HeapInv' /\ Fixed(heap, heap')
<1>1. /\ call = NoCall /\ h \in Handles \ {TestHandle} /\ heap.alloc[h] > 0 /\ call' = call
    BY DEF Shrink, Live
<1>2. PICK s \in Shrinkages(heap, h) : heap' = Shrunk(heap, h, s[1], s[2])
    BY DEF Shrink
<1>3. /\ Good(heap') /\ Fixed(heap, heap') /\ heap'.alloc[h] > 0
      /\ \A g \in Handles \ {h} : heap'.alloc[g] = heap.alloc[g]
    BY <1>1, <1>2, ShrunkFixed DEF HeapInv
<1>4. \A g \in Handles : heap.alloc[g] # Reserved
    <2>1. \A g \in Handles : g # 0
        BY Sizes0
    <2> QED
        BY <1>1, <2>1 DEF HeapInv, CallKept, NoCall
<1>5. \A g \in Handles : heap'.alloc[g] # Reserved
    BY <1>3, <1>4 DEF Reserved
<1> QED
    BY <1>1, <1>3, <1>5, CallIdle DEF HeapInv

LEMMA CallsKeep ==
    ASSUME HeapInv, NEW ops \in Ops, AllocMaximum(ops) \/ \E size \in Sizes : Alloc(size, ops)
    PROVE  HeapInv' /\ Fixed(heap, heap')
<1>1. call = NoCall /\ heap' = heap
    BY DEF AllocMaximum, Alloc
<1>2. \A g \in Handles : heap.alloc[g] # Reserved
    <2>1. \A g \in Handles : g # 0
        BY Sizes0
    <2> QED
        BY <1>1, <2>1 DEF HeapInv, CallKept, NoCall
<1>3. NoCall \in CallType
    BY <1>1 DEF HeapInv
<1>4. Fixed(heap, heap')
    BY <1>1, FixedSame
<1>0. \A g \in Handles : g # 0
    BY Sizes0
<1>5. CASE AllocMaximum(ops)
    <2>1. call' = [NoCall EXCEPT !.pc = "maximum", !.ops = ops]
        BY <1>5 DEF AllocMaximum
    <2>2. call' \in CallType
        BY <1>3, <2>1 DEF CallType
    <2>3. call'.pc = "maximum" /\ call'.handle = 0
        BY <2>1 DEF NoCall
    <2>4. CallKept(heap', call')
        BY <1>0, <1>1, <1>2, <2>3 DEF CallKept, WithHandle, WithSize
    <2> QED
        BY <1>1, <1>4, <2>2, <2>4 DEF HeapInv
<1>6. ASSUME NEW size \in Sizes, Alloc(size, ops) PROVE HeapInv' /\ Fixed(heap, heap')
    <2>0. size \in Nat
        BY SizesAssumption
    <2>1. call' = [NoCall EXCEPT !.pc = "handle", !.size = size + 1, !.ops = ops]
        BY <1>6 DEF Alloc
    <2>2. call' \in CallType
        <3> DEFINE n == size + 1
        <3>1. n \in Nat
            BY <2>0
        <3> HIDE DEF n
        <3>2. call' = [NoCall EXCEPT !.pc = "handle", !.size = n, !.ops = ops]
            BY <2>1 DEF n
        <3> QED
            BY <1>3, <3>1, <3>2 DEF CallType
    <2>3. call'.pc = "handle" /\ call'.handle = 0 /\ call'.size = size + 1
        BY <2>1 DEF NoCall
    <2>4. CallKept(heap', call')
        BY <1>0, <1>1, <1>2, <2>0, <2>3 DEF CallKept, WithHandle, WithSize
    <2> QED
        BY <1>1, <1>4, <2>2, <2>4 DEF HeapInv
<1> QED
    BY <1>5, <1>6

\* What a compaction keeps besides the heap.
LEMMA CompactKeeps ==
    ASSUME NEW H, Good(H), NEW refuse, NEW R, R = Compact(H, refuse).heap
    PROVE  Good(R) /\ Fixed(H, R) /\ \A h \in Handles : R.alloc[h] = Reserved <=> H.alloc[h] = Reserved
<1>1. /\ Good(R)
      /\ \A h \in Handles : (R.alloc[h] > 0 <=> H.alloc[h] > 0) /\ (H.alloc[h] <= 0 => R.alloc[h] = H.alloc[h])
      /\ \A h \in Handles : H.alloc[h] > 0 /\ H.mem[H.alloc[h] - 1].ops.move = "never"
                => R.alloc[h] = H.alloc[h]
    BY CompactIs
<1>2. Fixed(H, R)
    BY <1>1 DEF Fixed
<1>3. H.alloc \in [Handles -> {Reserved} \cup 0..Size] /\ R.alloc \in [Handles -> {Reserved} \cup 0..Size]
    BY <1>1, HeapFields DEF Good
<1>4. ASSUME NEW h \in Handles PROVE R.alloc[h] = Reserved <=> H.alloc[h] = Reserved
    <2>1. H.alloc[h] \in Int /\ R.alloc[h] \in Int
        BY <1>3 DEF Reserved
    <2> QED
        BY <1>1, <2>1 DEF Reserved
<1> QED
    BY <1>1, <1>2, <1>4

LEMMA AllocatableKeeps ==
    ASSUME HeapInv, Allocatable
    PROVE  HeapInv' /\ Fixed(heap, heap')
<1>1. PICK refuse \in Refusals : heap' = Compact(heap, refuse).heap
    BY DEF Allocatable
<1>2. Good(heap') /\ Fixed(heap, heap') /\ \A h \in Handles : heap'.alloc[h] = Reserved <=> heap.alloc[h] = Reserved
    BY <1>1, CompactKeeps DEF HeapInv
<1>3. call = NoCall /\ call' = call
    BY DEF Allocatable
<1>4. CallKept(heap', call')
    <2>1. call.pc # "shrink"
        BY <1>3 DEF NoCall
    <2> QED
        BY <1>2, <1>3, <2>1 DEF HeapInv, CallKept
<1> QED
    BY <1>2, <1>3, <1>4 DEF HeapInv

\* The round starts at the first block.
LEMMA RoundStart ==
    ASSUME NEW H, Good(H)
    PROVE  RoundAt(H, 0, 0)
BY SoundPlaces DEF Good, RoundAt

\* buflib_compact_and_shrink, whoever calls it
LEMMA MakeRoomKeeps ==
    ASSUME HeapInv, call.pc \in {"handle", "buffer", "maximum"}, NEW front \in BOOLEAN, NEW want \in Nat,
           MakeRoom(front, want)
    PROVE  HeapInv' /\ Fixed(heap, heap')
<1> DEFINE asking == [call EXCEPT !.pc = "shrink", !.back = call.pc, !.front = front,
                                  !.want = want, !.this = 0, !.before = 0, !.result = FALSE]
<1>0. Good(heap) /\ call \in CallType /\ CallKept(heap, call)
    BY DEF HeapInv
<1>1. asking \in CallType
    <2>1. 0 \in 0..Size
        BY Sizes0
    <2> QED
        BY <1>0, <2>1 DEF CallType
<1>2. /\ asking.pc = "shrink" /\ asking.back = call.pc /\ asking.this = 0 /\ asking.before = 0
      /\ asking.handle = call.handle /\ asking.size = call.size
    BY <1>0 DEF CallType
<1>3. \/ heap' = heap /\ call' = asking
      \/ \E refuse \in Refusals : heap' = Compact(heap, refuse).heap /\ (call' = call \/ call' = asking)
    BY DEF MakeRoom
<1> HIDE DEF asking
<1>4. Good(heap') /\ Fixed(heap, heap') /\ \A h \in Handles : heap'.alloc[h] = Reserved <=> heap.alloc[h] = Reserved
    <2>1. CASE heap' = heap
        BY <1>0, <2>1, FixedSame
    <2>2. ASSUME NEW refuse \in Refusals, heap' = Compact(heap, refuse).heap
          PROVE  Good(heap') /\ Fixed(heap, heap')
                 /\ \A h \in Handles : heap'.alloc[h] = Reserved <=> heap.alloc[h] = Reserved
        BY <1>0, <2>2, CompactKeeps
    <2> QED
        BY <1>3, <2>1, <2>2
<1>5. \A h \in Handles : heap'.alloc[h] = Reserved <=> h = call.handle
    BY <1>0, <1>4 DEF CallKept
<1>6. CASE call' = call
    <2>1. CallKept(heap', call')
        BY <1>0, <1>5, <1>6 DEF CallKept
    <2> QED
        BY <1>0, <1>4, <1>6, <2>1 DEF HeapInv
<1>7. CASE call' = asking
    <2>1. RoundAt(heap', 0, 0)
        BY <1>4, RoundStart
    <2>2. CallKept(heap', call')
        BY <1>0, <1>2, <1>5, <1>7, <2>1 DEF CallKept, WithHandle, WithSize
    <2> QED
        BY <1>1, <1>4, <1>7, <2>2 DEF HeapInv
<1> QED
    BY <1>3, <1>6, <1>7

LEMMA TakeHandleKeeps ==
    ASSUME HeapInv, TakeHandle
    PROVE  HeapInv' /\ Fixed(heap, heap')
<1> DEFINE e == Entry(heap)
<1>0. Good(heap) /\ call \in CallType /\ CallKept(heap, call)
    BY DEF HeapInv
<1>1. call.pc = "handle" /\ HandleRoom(heap) /\ heap' = HandleTaken(heap)
      /\ call' = [call EXCEPT !.pc = "buffer", !.handle = e]
    BY DEF TakeHandle
<1>2. Good(heap') /\ e \in Handles /\ heap.alloc[e] = 0 /\ heap'.alloc = [heap.alloc EXCEPT ![e] = Reserved]
    BY <1>0, <1>1, HandleTakenIs
<1>3. heap.alloc \in [Handles -> {Reserved} \cup 0..Size]
    BY <1>0, HeapFields DEF Good
<1> HIDE DEF e
<1>4. \A h \in Handles : heap'.alloc[h] = IF h = e THEN Reserved ELSE heap.alloc[h]
    BY <1>2, <1>3
<1>5. \A h \in Handles : heap.alloc[h] # Reserved /\ h # 0
    <2>1. call.handle = 0
        BY <1>0, <1>1 DEF CallKept, WithHandle
    <2>2. \A h \in Handles : h # 0
        BY Sizes0
    <2> QED
        BY <1>0, <2>1, <2>2 DEF CallKept
<1>6. call' \in CallType /\ call'.pc = "buffer" /\ call'.handle = e /\ call'.size = call.size
    BY <1>0, <1>1, <1>2 DEF CallType
<1>7. CallKept(heap', call')
    BY <1>0, <1>1, <1>2, <1>4, <1>5, <1>6 DEF CallKept, WithHandle, WithSize
<1>8. Fixed(heap, heap')
    <2>1. \A h \in Handles : heap.alloc[h] > 0 /\ heap'.alloc[h] > 0 => heap'.alloc[h] = heap.alloc[h]
        BY <1>2, <1>4
    <2> QED
        BY <2>1, FixedSame
<1> QED
    BY <1>2, <1>6, <1>7, <1>8 DEF HeapInv

LEMMA NoHandleKeeps ==
    ASSUME HeapInv, NoHandle
    PROVE  HeapInv' /\ Fixed(heap, heap')
<1> DEFINE a == BlockBefore(heap, heap.end)
           last == heap.mem[a]
           front == ~last.ops.shrink
           want == IF last.ops.shrink THEN 0 ELSE Length(last)
<1>1. call.pc = "handle" /\ MakeRoom(front, want)
    BY DEF NoHandle
<1>2. Length(last) \in Nat
    <2>1. heap \in HeapType /\ Sound(heap) /\ heap.end \in Starts(heap) /\ heap.end # 0
        BY TestBlock, SoundPlaces, Sizes0 DEF HeapInv, Good
    <2>2. a \in Starts(heap) /\ a < heap.end
        BY <2>1, BlockBeforeIs
    <2> QED
        BY <2>1, <2>2, SoundPlaces
<1>3. front \in BOOLEAN /\ want \in Nat
    BY <1>2
<1> HIDE DEF front, want
<1> QED
    BY <1>1, <1>3, MakeRoomKeeps

LEMMA TakeBufferKeeps ==
    ASSUME HeapInv, TakeBuffer
    PROVE  HeapInv' /\ Fixed(heap, heap')
<1> DEFINE g == call.handle
<1>0. Good(heap) /\ call \in CallType /\ CallKept(heap, call)
    BY DEF HeapInv
<1>1. call.pc = "buffer" /\ Fitting(heap, call.size) # {} /\ heap' = Placed(heap, g, call.size, call.ops)
      /\ call' = NoCall
    BY DEF TakeBuffer
<1>2. /\ g \in Handles /\ heap.alloc[g] = Reserved /\ call.size \in Nat \ {0} /\ call.ops \in Ops \cup {None}
      /\ \A h \in Handles : heap.alloc[h] = Reserved <=> h = g
    <2>1. g # 0 /\ call.size > 0 /\ \A h \in Handles : heap.alloc[h] = Reserved <=> h = g
        BY <1>0, <1>1 DEF CallKept, WithHandle, WithSize
    <2>2. g \in {0} \cup Handles /\ call.size \in Nat /\ call.ops \in Ops \cup {None}
        BY <1>0 DEF CallType
    <2> QED
        BY <2>1, <2>2
<1>3. Good(heap') /\ \E a \in Nat : heap'.alloc = [heap.alloc EXCEPT ![g] = a + 1]
    BY <1>0, <1>1, <1>2, PlacedIs
<1>4. PICK a \in Nat : heap'.alloc = [heap.alloc EXCEPT ![g] = a + 1]
    BY <1>3
<1>5. heap.alloc \in [Handles -> {Reserved} \cup 0..Size]
    BY <1>0, HeapFields DEF Good
<1> HIDE DEF g
<1>6. \A h \in Handles : heap'.alloc[h] = IF h = g THEN a + 1 ELSE heap.alloc[h]
    BY <1>2, <1>4, <1>5
<1>7. \A h \in Handles : heap'.alloc[h] # Reserved
    BY <1>2, <1>6 DEF Reserved
<1>8. Fixed(heap, heap')
    <2>1. \A h \in Handles : heap.alloc[h] > 0 /\ heap'.alloc[h] > 0 => heap'.alloc[h] = heap.alloc[h]
        BY <1>2, <1>6 DEF Reserved
    <2> QED
        BY <2>1, FixedSame
<1> QED
    BY <1>1, <1>3, <1>7, <1>8, CallIdle DEF HeapInv

LEMMA NoBufferKeeps ==
    ASSUME HeapInv, NoBuffer
    PROVE  HeapInv' /\ Fixed(heap, heap')
<1>1. call.pc = "buffer" /\ MakeRoom(TRUE, call.size) /\ call.size \in Nat
    BY DEF NoBuffer, HeapInv, CallType
<1> QED
    BY <1>1, MakeRoomKeeps

LEMMA GatherKeeps ==
    ASSUME HeapInv, Gather
    PROVE  HeapInv' /\ Fixed(heap, heap')
<1>1. call.pc = "maximum" /\ MakeRoom(FALSE, Size) /\ Size \in Nat
    BY Sizes0 DEF Gather
<1> QED
    BY <1>1, MakeRoomKeeps

LEMMA TakeSizeKeeps ==
    ASSUME HeapInv, TakeSize
    PROVE  HeapInv' /\ Fixed(heap, heap')
<1> DEFINE n == AllocatableWords(heap)
           m == n + 1
<1>0. Good(heap) /\ call \in CallType /\ CallKept(heap, call)
    BY DEF HeapInv
<1>1. call.pc = "size" /\ heap' = heap
      /\ call' = IF n = 0 THEN NoCall ELSE [call EXCEPT !.pc = "handle", !.back = "idle", !.size = m]
    BY DEF TakeSize
<1>2. m \in Nat /\ m > 0
    BY <1>0, AllocatableWordsIs
<1>3. Fixed(heap, heap')
    BY <1>1, FixedSame
<1>4. \A h \in Handles : heap.alloc[h] # Reserved
    <2>1. call.handle = 0
        BY <1>0, <1>1 DEF CallKept, WithHandle
    <2>2. \A h \in Handles : h # 0
        BY Sizes0
    <2> QED
        BY <1>0, <2>1, <2>2 DEF CallKept
<1> HIDE DEF n, m
<1>5. CASE n = 0
    BY <1>0, <1>1, <1>3, <1>4, <1>5, CallIdle DEF HeapInv
<1>6. CASE n # 0
    <2>1. call' = [call EXCEPT !.pc = "handle", !.back = "idle", !.size = m]
        BY <1>1, <1>6
    <2>2. call' \in CallType /\ call'.pc = "handle" /\ call'.handle = call.handle /\ call'.size = m
        BY <1>0, <1>2, <2>1 DEF CallType
    <2>3. CallKept(heap', call')
        BY <1>0, <1>1, <1>2, <2>2 DEF CallKept, WithHandle, WithSize
    <2> QED
        BY <1>0, <1>1, <1>3, <2>2, <2>3 DEF HeapInv
<1> QED
    BY <1>5, <1>6

\* From one block the round goes on to the next.
LEMMA RoundOn ==
    ASSUME NEW H, Good(H), NEW a \in Starts(H), a < H.end
    PROVE  RoundAt(H, a + Length(H.mem[a]), a) /\ a + Length(H.mem[a]) \in 0..Size /\ a \in 0..Size
<1>0. H \in HeapType /\ Sound(H) /\ H.end \in 0..Size
    BY HeapFields DEF Good
<1>1. /\ a \in Nat /\ Length(H.mem[a]) \in Nat \ {0} /\ a + Length(H.mem[a]) \in Starts(H)
      /\ a + Length(H.mem[a]) <= H.end
    BY <1>0, SoundPlaces
<1>2. a < a + Length(H.mem[a]) /\ a + Length(H.mem[a]) \in 0..Size /\ a \in 0..Size
    BY <1>0, <1>1, Sizes0
<1> QED
    BY <1>1, <1>2 DEF RoundAt

\* What is wanted after the answer: the space in front was not more.
LEMMA WantStays ==
    ASSUME HeapInv, call.pc = "shrink", ~Enough
    PROVE  (IF call.front THEN call.want - SpaceInFront ELSE call.want) \in Nat
<1> DEFINE b == call.before
           s == SpaceInFront
<1>0. heap \in HeapType /\ Sound(heap) /\ b \in Starts(heap) /\ call.want \in Nat /\ heap.end \in Nat
    BY HeapFields, Sizes0 DEF HeapInv, Good, CallKept, RoundAt, CallType
<1>1. s \in Nat
    <2>1. CASE b # call.this /\ IsFree(heap, b)
        <3>1. heap.mem[b].val < 0 /\ b < heap.end
            BY <2>1 DEF IsFree
        <3>2. heap.mem[b].val \in Int
            BY <1>0, <3>1, SoundPlaces
        <3>3. s = -heap.mem[b].val
            BY <2>1 DEF SpaceInFront
        <3> QED
            BY <3>1, <3>2, <3>3
    <2>2. CASE ~(b # call.this /\ IsFree(heap, b))
        BY <2>2 DEF SpaceInFront
    <2> QED
        BY <2>1, <2>2
<1>2. ASSUME call.front PROVE ~(s > 0 /\ call.want < s)
    BY <1>2 DEF Enough
<1> HIDE DEF s
<1>3. ASSUME call.front PROVE call.want - s \in Nat
    BY <1>0, <1>1, <1>2, <1>3
<1> QED
    BY <1>0, <1>3 DEF s

\* After an answer the round stands at block `this' of the heap R.
LEMMA AnswerKeeps ==
    ASSUME HeapInv, call.pc = "shrink", ~Enough, NEW ok \in BOOLEAN, NEW R, NEW b,
           b + Length(R.mem[b]) \in 0..Size, b \in 0..Size, RoundAt(R, b + Length(R.mem[b]), b),
           \A h \in Handles : R.alloc[h] = Reserved <=> heap.alloc[h] = Reserved
    PROVE  Answered(R, b, ok) \in CallType /\ CallKept(R, Answered(R, b, ok))
<1> DEFINE next == b + Length(R.mem[b])
           want == IF call.front THEN call.want - SpaceInFront ELSE call.want
           res == call.result \/ ok
           c == Answered(R, b, ok)
<1>0. call \in CallType /\ CallKept(heap, call)
    BY DEF HeapInv
<1>1. want \in Nat
    BY WantStays
<1>2. res \in BOOLEAN
    OBVIOUS
<1>3. c = [call EXCEPT !.this = next, !.before = b, !.want = want, !.result = res]
    BY <1>0 DEF Answered, GoOn, CallType
<1> HIDE DEF want, res, c
<1>4. c \in CallType
    BY <1>0, <1>1, <1>2, <1>3 DEF CallType
<1>5. /\ c.pc = call.pc /\ c.back = call.back /\ c.handle = call.handle /\ c.size = call.size
      /\ c.this = next /\ c.before = b
    BY <1>0, <1>3 DEF CallType
<1> HIDE DEF next
<1>6. CallKept(R, c)
    <2>1. RoundAt(R, c.this, c.before)
        BY <1>5 DEF next
    <2>2. \A h \in Handles : R.alloc[h] = Reserved <=> h = c.handle
        BY <1>0, <1>5 DEF CallKept
    <2>3. (c.handle # 0 <=> WithHandle(c)) /\ (WithSize(c) => c.size > 0) /\ c.back # "idle"
        BY <1>0, <1>5 DEF CallKept, WithHandle, WithSize
    <2> QED
        BY <2>1, <2>2, <2>3 DEF CallKept
<1> QED
    BY <1>4, <1>6 DEF c

LEMMA PassOverKeeps ==
    ASSUME HeapInv, PassOver
    PROVE  HeapInv' /\ Fixed(heap, heap')
<1> DEFINE a == call.this
           next == a + Length(heap.mem[a])
<1>0. Good(heap) /\ call \in CallType /\ CallKept(heap, call)
    BY DEF HeapInv
<1>1. call.pc = "shrink" /\ a < heap.end /\ heap' = heap
    BY DEF PassOver
<1>2. call' = [call EXCEPT !.this = next, !.before = a]
    BY DEF PassOver, GoOn
<1>3. a \in Starts(heap)
    BY <1>0, <1>1 DEF CallKept, RoundAt
<1>4. RoundAt(heap, next, a) /\ next \in 0..Size /\ a \in 0..Size
    BY <1>0, <1>1, <1>3, RoundOn
<1> HIDE DEF next, a
<1>5. call' \in CallType
    BY <1>0, <1>2, <1>4 DEF CallType
<1>6. /\ call'.pc = call.pc /\ call'.back = call.back /\ call'.handle = call.handle /\ call'.size = call.size
      /\ call'.this = next /\ call'.before = a
    BY <1>0, <1>2 DEF CallType
<1>7. CallKept(heap', call')
    BY <1>0, <1>1, <1>4, <1>6 DEF CallKept, WithHandle, WithSize
<1> QED
    BY <1>0, <1>1, <1>5, <1>7, FixedSame DEF HeapInv

LEMMA AskToShrinkKeeps ==
    ASSUME HeapInv, AskToShrink
    PROVE  HeapInv' /\ Fixed(heap, heap')
<1> DEFINE a == call.this
           p == call.before
           h == heap.mem[a].of
<1>0. Good(heap) /\ call \in CallType /\ CallKept(heap, call) /\ heap \in HeapType /\ Sound(heap) /\ Books(heap)
    BY DEF HeapInv, Good
<1>1. call.pc = "shrink" /\ a < heap.end /\ ~Enough /\ heap.mem[a].val > 0 /\ heap.mem[a].ops.shrink
    BY DEF AskToShrink, Asked, Looked
<1>2. RoundAt(heap, a, p) /\ a \in Starts(heap) /\ p \in Starts(heap)
    BY <1>0, <1>1 DEF CallKept, RoundAt
<1>3. h \in Handles /\ heap.alloc[h] = a + 1 /\ a \in Nat /\ heap.alloc[h] > 0 /\ BlockOf(heap, h) = a
    <2>1. h \in Handles /\ heap.alloc[h] = a + 1
        BY <1>0, <1>1, <1>2 DEF Sound, Segment, Owned
    <2>2. a \in Nat
        BY <1>0, <1>2, SoundPlaces
    <2> QED
        BY <2>1, <2>2 DEF BlockOf
<1>4. a # 0
    <2> SUFFICES ASSUME a = 0 PROVE FALSE
        OBVIOUS
    <2>1. heap.mem[0].ops = PlainOps /\ ~PlainOps.shrink
        BY <1>0 DEF Books, PlainOps
    <2> QED
        BY <1>1, <2>1
<1>5. h \in Handles \ {TestHandle}
    <2>1. heap.alloc[TestHandle] = 1
        BY <1>0 DEF Books
    <2> QED
        BY <1>3, <1>4, <2>1
<1>6. \/ heap' = heap /\ call' = Answered(heap, a, FALSE)
      \/ \E s \in Shrinkages(heap, h) :
            heap' = Shrunk(heap, h, s[1], s[2]) /\ call' = Answered(heap', BlockOf(heap', h), TRUE)
      \/ heap' = Freed(heap, h) /\ call' = Answered(heap', p, TRUE)
    BY DEF AskToShrink, Looked
<1> HIDE DEF h, a, p
<1>7. CASE heap' = heap /\ call' = Answered(heap, a, FALSE)
    <2>1. RoundAt(heap, a + Length(heap.mem[a]), a) /\ a + Length(heap.mem[a]) \in 0..Size /\ a \in 0..Size
        BY <1>0, <1>1, <1>2, RoundOn
    <2>2. Answered(heap, a, FALSE) \in CallType /\ CallKept(heap, Answered(heap, a, FALSE))
        BY <1>1, <2>1, AnswerKeeps
    <2> QED
        BY <1>0, <1>7, <2>2, FixedSame DEF HeapInv
<1>8. ASSUME NEW s \in Shrinkages(heap, h), heap' = Shrunk(heap, h, s[1], s[2]),
             call' = Answered(heap', BlockOf(heap', h), TRUE)
      PROVE  HeapInv' /\ Fixed(heap, heap')
    <2> DEFINE R == heap'
               b == BlockOf(R, h)
    <2>1. /\ Good(R) /\ Fixed(heap, R) /\ R.alloc[h] > 0
          /\ \A g \in Handles \ {h} : R.alloc[g] = heap.alloc[g]
        BY <1>0, <1>3, <1>5, <1>8, ShrunkFixed
    <2>2. \A g \in Handles : R.alloc[g] = Reserved <=> heap.alloc[g] = Reserved
        BY <1>3, <2>1 DEF Reserved
    <2> HIDE DEF R
    <2>3. b \in Starts(R) /\ b < R.end
        BY <1>3, <2>1, BlockIs DEF Good
    <2>4. RoundAt(R, b + Length(R.mem[b]), b) /\ b + Length(R.mem[b]) \in 0..Size /\ b \in 0..Size
        BY <2>1, <2>3, RoundOn
    <2> HIDE DEF b
    <2>5. Answered(R, b, TRUE) \in CallType /\ CallKept(R, Answered(R, b, TRUE))
        BY <1>1, <2>2, <2>4, AnswerKeeps
    <2>6. call' = Answered(R, b, TRUE)
        BY <1>8 DEF R, b
    <2> QED
        BY <2>1, <2>5, <2>6 DEF HeapInv, R
<1>9. CASE heap' = Freed(heap, h) /\ call' = Answered(heap', p, TRUE)
    <2> DEFINE R == heap'
    <2>1. p < a /\ p + Length(heap.mem[p]) = a
        BY <1>1, <1>2, <1>3, <1>4 DEF RoundAt
    <2>2. /\ Good(R) /\ R.alloc = [heap.alloc EXCEPT ![h] = 0]
          /\ p \in Starts(R) /\ (p = R.end => Length(R.mem[p]) = 0)
        <3> DEFINE F == Freed(heap, h)
        <3>1. /\ Good(F) /\ F.alloc = [heap.alloc EXCEPT ![h] = 0]
              /\ \A q \in Starts(heap) : q < BlockOf(heap, h) /\ q + Length(heap.mem[q]) = BlockOf(heap, h) =>
                    q \in Starts(F) /\ (q = F.end => Length(F.mem[q]) = 0)
            BY <1>0, <1>3, <1>5, FreedIs
        <3>2. R = F
            BY <1>9
        <3> HIDE DEF F, R
        <3>3. p \in Starts(heap) /\ p < BlockOf(heap, h) /\ p + Length(heap.mem[p]) = BlockOf(heap, h)
            BY <1>2, <1>3, <2>1
        <3> QED
            BY <3>1, <3>2, <3>3
    <2>3. heap.alloc \in [Handles -> {Reserved} \cup 0..Size]
        BY <1>0, HeapFields
    <2> HIDE DEF R
    <2>4. \A g \in Handles : R.alloc[g] = IF g = h THEN 0 ELSE heap.alloc[g]
        BY <2>2, <2>3
    <2>5. \A g \in Handles : R.alloc[g] = Reserved <=> heap.alloc[g] = Reserved
        BY <1>3, <2>4 DEF Reserved
    <2>6. Fixed(heap, R)
        <3>1. \A g \in Handles : heap.alloc[g] > 0 /\ R.alloc[g] > 0 => R.alloc[g] = heap.alloc[g]
            BY <2>4
        <3> QED
            BY <3>1, FixedSame
    <2>7. RoundAt(R, p + Length(R.mem[p]), p) /\ p + Length(R.mem[p]) \in 0..Size /\ p \in 0..Size
        <3>1. p \in Nat /\ p <= R.end /\ R.end \in 0..Size
            BY <2>2, SoundPlaces, HeapFields DEF Good
        <3>2. CASE p < R.end
            BY <2>2, <3>2, RoundOn
        <3>3. CASE p = R.end
            <4>1. p + Length(R.mem[p]) = p
                BY <2>2, <3>1, <3>3
            <4> QED
                BY <2>2, <3>1, <3>3, <4>1 DEF RoundAt
        <3> QED
            BY <3>1, <3>2, <3>3, Sizes0
    <2>8. Answered(R, p, TRUE) \in CallType /\ CallKept(R, Answered(R, p, TRUE))
        BY <1>1, <2>5, <2>7, AnswerKeeps
    <2>9. call' = Answered(R, p, TRUE)
        BY <1>9 DEF R
    <2> QED
        BY <2>2, <2>6, <2>8, <2>9 DEF HeapInv, R
<1> QED
    BY <1>6, <1>7, <1>8, <1>9

LEMMA EndRoundKeeps ==
    ASSUME HeapInv, EndRound
    PROVE  HeapInv' /\ Fixed(heap, heap')
<1>0. Good(heap) /\ call \in CallType /\ CallKept(heap, call)
    BY DEF HeapInv
<1>1. call.pc = "shrink" /\ call.back \in {"handle", "buffer", "maximum"}
    <2>1. call.pc = "shrink"
        BY DEF EndRound
    <2> QED
        BY <1>0, <2>1 DEF CallKept, CallType
<1>2. /\ \A h \in Handles : heap.alloc[h] = Reserved <=> h = call.handle
      /\ call.handle # 0 <=> call.back = "buffer"
      /\ call.back \in {"handle", "buffer"} => call.size > 0
    BY <1>0, <1>1 DEF CallKept, WithHandle, WithSize
<1>3. \A h \in Handles : h # 0
    BY Sizes0
<1>4. CASE ~call.result
    <2>0. Failed
        BY <1>4 DEF EndRound
    <2>1. CASE call.back = "handle"
        <3>1. heap' = heap /\ call' = NoCall
            BY <2>0, <2>1 DEF Failed
        <3>2. \A h \in Handles : heap.alloc[h] # Reserved
            BY <1>2, <1>3, <2>1
        <3> QED
            BY <1>0, <3>1, <3>2, CallIdle, FixedSame DEF HeapInv
    <2>2. CASE call.back = "buffer"
        <3> DEFINE g == call.handle
        <3>1. heap' = HandleFreed(heap, g) /\ call' = NoCall
            BY <2>0, <2>2 DEF Failed
        <3>2. g \in Handles /\ heap.alloc[g] = Reserved
            BY <1>0, <1>2, <2>2 DEF CallType
        <3>3. Good(heap') /\ heap'.alloc = [heap.alloc EXCEPT ![g] = 0]
            BY <1>0, <3>1, <3>2, EntryGivenBack
        <3>4. heap.alloc \in [Handles -> {Reserved} \cup 0..Size]
            BY <1>0, HeapFields DEF Good
        <3> HIDE DEF g
        <3>5. \A h \in Handles : heap'.alloc[h] = IF h = g THEN 0 ELSE heap.alloc[h]
            BY <3>3, <3>4
        <3>6. \A h \in Handles : heap'.alloc[h] # Reserved
            BY <1>2, <3>5 DEF Reserved, g
        <3>7. Fixed(heap, heap')
            <4>1. \A h \in Handles : heap.alloc[h] > 0 /\ heap'.alloc[h] > 0 => heap'.alloc[h] = heap.alloc[h]
                BY <3>5
            <4> QED
                BY <4>1, FixedSame
        <3> QED
            BY <3>1, <3>3, <3>6, <3>7, CallIdle DEF HeapInv
    <2>3. CASE call.back = "maximum"
        <3>1. heap' = heap /\ call' = [call EXCEPT !.pc = "size"]
            BY <2>0, <2>3 DEF Failed
        <3>2. call' \in CallType /\ call'.pc = "size" /\ call'.handle = call.handle
            BY <1>0, <3>1 DEF CallType
        <3>3. CallKept(heap', call')
            BY <1>2, <1>3, <2>3, <3>1, <3>2 DEF CallKept, WithHandle, WithSize
        <3> QED
            BY <1>0, <3>1, <3>2, <3>3, FixedSame DEF HeapInv
    <2> QED
        BY <1>1, <2>1, <2>2, <2>3
<1>5. CASE call.result
    <2>1. PICK refuse \in Refusals : heap' = Compact(heap, refuse).heap
        BY <1>5 DEF EndRound
    <2>2. call' = [call EXCEPT !.pc = call.back, !.this = 0, !.before = 0, !.front = FALSE,
                               !.want = 0, !.result = FALSE, !.back = "idle"]
        BY <1>5 DEF EndRound
    <2>3. Good(heap') /\ Fixed(heap, heap') /\ \A h \in Handles : heap'.alloc[h] = Reserved <=> heap.alloc[h] = Reserved
        BY <1>0, <2>1, CompactKeeps
    <2>4. call' \in CallType
        <3>1. 0 \in 0..Size
            BY Sizes0
        <3> QED
            BY <1>0, <1>1, <2>2, <3>1 DEF CallType
    <2>5. call'.pc = call.back /\ call'.handle = call.handle /\ call'.size = call.size
        BY <1>0, <2>2 DEF CallType
    <2>6. CallKept(heap', call')
        BY <1>1, <1>2, <2>3, <2>5 DEF CallKept, WithHandle, WithSize
    <2> QED
        BY <2>3, <2>4, <2>6 DEF HeapInv
<1> QED
    BY <1>4, <1>5

LEMMA HeapStepKeeps ==
    ASSUME HeapInv, HeapNext
    PROVE  HeapInv' /\ Fixed(heap, heap')
<1>1. ASSUME NEW h \in Handles, Free(h) PROVE HeapInv' /\ Fixed(heap, heap')
    BY <1>1, FreeKeeps
<1>2. ASSUME NEW h \in Handles, Shrink(h) PROVE HeapInv' /\ Fixed(heap, heap')
    BY <1>2, ShrinkKeeps
<1>3. ASSUME NEW ops \in Ops, AllocMaximum(ops) \/ \E size \in Sizes : Alloc(size, ops)
      PROVE  HeapInv' /\ Fixed(heap, heap')
    BY <1>3, CallsKeep
<1>4. ASSUME Step PROVE HeapInv' /\ Fixed(heap, heap')
    BY <1>4, TakeHandleKeeps, NoHandleKeeps, TakeBufferKeeps, NoBufferKeeps, GatherKeeps, TakeSizeKeeps,
       PassOverKeeps, AskToShrinkKeeps, EndRoundKeeps DEF Step
<1> QED
    BY <1>1, <1>2, <1>3, <1>4, AllocatableKeeps DEF HeapNext

LEMMA HeapStutters == HeapInv /\ UNCHANGED heapVars => HeapInv'
BY DEF HeapInv, heapVars

LEMMA HeapInvHolds == HeapSpec => []HeapInv
<1>1. HeapInv /\ [HeapNext]_heapVars => HeapInv'
    BY HeapStepKeeps, HeapStutters
<1> QED
    BY <1>1, HeapInitHolds, PTL DEF HeapSpec

\* For any buffer, sizes and callbacks: the blocks tile the buffer, no two free
\* ones are side by side, each handle finds its own words and no entry of the
\* table is lost, at every step of every call and at every callback (buflib.c).
THEOREM HeapAlwaysKept == HeapSpec => []HeapKept
BY HeapInvHolds, HeapKeptHolds, PTL

\* For any buffer, sizes and callbacks: the round that asks the blocks to shrink
\* goes on at a block, with the one in front of it behind it, also when the block
\* asked has moved its start, shrunk or been freed (buflib_compact_and_shrink).
THEOREM RoundAtABlock == HeapSpec => [](call.pc = "shrink" => RoundAt(heap, call.this, call.before))
<1>1. HeapInv => (call.pc = "shrink" => RoundAt(heap, call.this, call.before))
    BY DEF HeapInv, CallKept
<1> QED
    BY <1>1, HeapInvHolds, PTL

\* For any buffer, sizes and callbacks: an allocation that must not be moved
\* stays where it is unless its owner shrinks it, through every compaction and
\* whoever else refuses to move (buflib.h, move_block, buflib_compact).
THEOREM FixedAlwaysStay == HeapSpec => FixedStays
<1> DEFINE A == \A h \in Live(heap) :
                LET a == BlockOf(heap, h) IN
                heap.mem[a].ops.move = "never" /\ heap'.alloc[h] > 0 =>
                    \/ heap'.alloc[h] = heap.alloc[h]
                    \/ heap'.mem[heap'.alloc[h] - 1].val < heap.mem[a].val
<1>1. ASSUME HeapInv, HeapNext PROVE A
    BY <1>1, HeapStepKeeps DEF Fixed, Live, BlockOf
<1>2. HeapInv /\ [HeapNext]_heapVars => [A]_heap
    BY <1>1 DEF heapVars
<1> QED
    BY <1>2, HeapInvHolds, PTL DEF HeapSpec, FixedStays
=============================================================================
