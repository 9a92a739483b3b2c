---------------------------- MODULE KernelProofs ----------------------------
(***************************************************************************)
(* Proofs about two parts of the kernel.  Of Mutex, for any threads and    *)
(* any depth of recursion: types, mutual exclusion, that waiters always    *)
(* have an owner to wait for, and that nobody overtakes them.  Of Timeout, *)
(* for any timeouts, tick tasks and numbers of slots: the lists a tick     *)
(* walks are kept while what it calls changes them, and how late a timeout *)
(* may be.                                                                 *)
(***************************************************************************)
EXTENDS Mutex, Timeout, ThreadsProofs, WellFoundedInduction

\* Queued threads are inside mutex_lock, and a thread inside holds nothing.
Waiting == \A t \in Threads : /\ Queued(t) => pc[t] = "wait"
                              /\ pc[t] = "wait" => depth[t] = 0

\* blocker.thread is the thread that has locked the mutex, or the one it has
\* been handed to and that has not run since.
OwnerIs(t) == depth[t] > 0 \/ (pc[t] = "wait" /\ ~Queued(t))
OwnerKnown == \A t \in Threads : owner = t <=> OwnerIs(t)

\* recursion counts the owner's locks but one.
RecursionKnown ==
    /\ owner = NoThread => recursion = 0
    /\ \A t \in Threads : owner = t =>
        recursion = IF pc[t] = "wait" THEN 0 ELSE depth[t] - 1

MutexTypeOK ==
    /\ owner \in Threads \cup {NoThread}
    /\ recursion \in Nat
    /\ pc \in [Threads -> {"out", "wait"}]
    /\ depth \in [Threads -> 0..MaxDepth]

Inv ==
    /\ ThreadsOK /\ Apart /\ MutexTypeOK
    /\ Waiting /\ OwnerKnown /\ RecursionKnown /\ WaitersHaveOwner

\* The initial states satisfy the invariant.
LEMMA InitInv == Init => Inv
<1> SUFFICES ASSUME Init PROVE Inv
    OBVIOUS
<1>1. ThreadsOK /\ Range(wq) = {} /\ wq = <<>>
    BY InitKeeps DEF Init, ThreadsInit
<1>3. Apart
    BY InitApart DEF Init
<1>2. MutexTypeOK
    BY DepthAssumption DEF Init, MutexTypeOK
<1> QED
    BY <1>1, <1>2, <1>3, NoThreadAssumption DEF Init, Inv, Waiting, OwnerKnown, OwnerIs,
        RecursionKnown, WaitersHaveOwner, Queued

\* Steps that leave the threads alone.
LEMMA QuietInv ==
    ASSUME Inv, NEW t \in Threads,
           LockAgain(t) \/ LockOpen(t) \/ Locked(t) \/ UnlockRecursive(t) \/ UnlockOpen(t)
    PROVE  Inv'
<1>1. UNCHANGED threadVars
    BY DEF LockAgain, LockOpen, Locked, UnlockRecursive, UnlockOpen
<1>2. ThreadsOK' /\ Apart' /\ wq' = wq /\ \A u \in Threads : Queued(u)' <=> Queued(u)
    BY <1>1 DEF threadVars, core, Inv, ThreadsOK, ThreadsTypeOK, WqDistinct, Queued, Apart, RtrDistinct
<1>3. CASE LockAgain(t)
    BY <1>2, <1>3, NoThreadAssumption, DepthAssumption DEF LockAgain, Calls, Inv, MutexTypeOK, Waiting,
        OwnerKnown, OwnerIs, RecursionKnown, WaitersHaveOwner
<1>4. CASE LockOpen(t)
    BY <1>2, <1>4, NoThreadAssumption, DepthAssumption DEF LockOpen, Calls, Inv, MutexTypeOK, Waiting,
        OwnerKnown, OwnerIs, RecursionKnown, WaitersHaveOwner
<1>5. CASE Locked(t)
    BY <1>2, <1>5, RunnerNotQueued, NoThreadAssumption, DepthAssumption DEF Locked, Inv, MutexTypeOK, Waiting,
        OwnerKnown, OwnerIs, RecursionKnown, WaitersHaveOwner
<1>6. CASE UnlockRecursive(t)
    <2>1. owner = t /\ pc[t] = "out" /\ recursion = depth[t] - 1 /\ depth[t] \in 2..MaxDepth
        BY <1>6 DEF UnlockRecursive, Leave, Calls, Inv, MutexTypeOK, OwnerKnown, OwnerIs,
            RecursionKnown
    <2>2. /\ recursion' = recursion - 1 /\ owner' = owner /\ pc' = pc
          /\ depth' = [depth EXCEPT ![t] = depth[t] - 1]
        BY <1>6 DEF UnlockRecursive, Leave
    <2>3. /\ depth' \in [Threads -> 0..MaxDepth] /\ depth'[t] = depth[t] - 1
          /\ \A u \in Threads \ {t} : depth'[u] = depth[u]
        BY <2>1, <2>2, DepthAssumption DEF Inv, MutexTypeOK
    <2>4. MutexTypeOK'
        BY <2>1, <2>2, <2>3 DEF Inv, MutexTypeOK
    <2>5. Waiting' /\ OwnerKnown' /\ WaitersHaveOwner'
        BY <1>2, <2>1, <2>2, <2>3, NoThreadAssumption DEF Inv, Waiting, OwnerKnown, OwnerIs,
            WaitersHaveOwner
    <2>6. RecursionKnown'
        BY <2>1, <2>2, <2>3, NoThreadAssumption DEF Inv, RecursionKnown
    <2> QED
        BY <1>2, <2>4, <2>5, <2>6 DEF Inv
<1>7. CASE UnlockOpen(t)
    <2>1. owner = t /\ pc[t] = "out" /\ depth[t] = 1 /\ wq = <<>>
        BY <1>7 DEF UnlockOpen, Leave, Calls, Inv, MutexTypeOK, OwnerKnown, OwnerIs,
            RecursionKnown
    <2>2. /\ recursion' = 0 /\ recursion' = recursion /\ owner' = NoThread /\ pc' = pc
          /\ depth' = [depth EXCEPT ![t] = depth[t] - 1]
        BY <1>7 DEF UnlockOpen, Leave
    <2>3. /\ depth' \in [Threads -> 0..MaxDepth] /\ depth'[t] = 0
          /\ \A u \in Threads \ {t} : depth'[u] = depth[u]
        BY <2>1, <2>2, DepthAssumption DEF Inv, MutexTypeOK
    <2>4. MutexTypeOK'
        BY <2>2, <2>3 DEF Inv, MutexTypeOK
    <2>5. \A u \in Threads : ~OwnerIs(u)'
        BY <1>2, <2>1, <2>2, <2>3 DEF Inv, OwnerKnown, OwnerIs
    <2>6. Waiting' /\ OwnerKnown' /\ WaitersHaveOwner' /\ RecursionKnown'
        BY <1>2, <2>1, <2>2, <2>3, <2>5, NoThreadAssumption DEF Inv, Waiting, OwnerKnown,
            WaitersHaveOwner, RecursionKnown
    <2> QED
        BY <1>2, <2>4, <2>6 DEF Inv
<1> QED
    BY <1>3, <1>4, <1>5, <1>6, <1>7

\* A thread that finds an owner joins the queue and leaves the processor.
LEMMA LockBlockInv ==
    ASSUME Inv, NEW t \in Threads, LockBlock(t)
    PROVE  Inv'
<1>1. Runs(t) /\ pc[t] = "out" /\ BlockThread(t, "blocked") /\ "blocked" \in States
    BY DEF LockBlock, Calls, States
<1>2. ~Queued(t) /\ depth[t] = 0 /\ owner # NoThread
    BY <1>1 DEF Inv, Waiting, LockBlock, OwnerKnown, OwnerIs, MutexTypeOK
<1>3. ThreadsOK' /\ Range(wq') = Range(wq) \cup {t}
    BY <1>1, <1>2, BlockKeeps DEF Inv
<1>4. Apart'
    BY <1>1, <1>2, BlockApart DEF Inv
<1>5. /\ owner' = owner /\ recursion' = recursion /\ depth' = depth
      /\ pc' = [pc EXCEPT ![t] = "wait"]
    BY DEF LockBlock
<1>6. MutexTypeOK' /\ pc'[t] = "wait" /\ \A u \in Threads \ {t} : pc'[u] = pc[u]
    BY <1>5 DEF Inv, MutexTypeOK
<1>7. /\ Queued(t)' /\ ~OwnerIs(t)
      /\ \A u \in Threads \ {t} : Queued(u)' <=> Queued(u)
    BY <1>1, <1>2, <1>3 DEF Queued, OwnerIs
<1>8. \A u \in Threads : OwnerIs(u)' <=> OwnerIs(u)
    BY <1>2, <1>5, <1>6, <1>7 DEF OwnerIs
<1>9. owner # t
    BY <1>7 DEF Inv, OwnerKnown
<1> QED
    BY <1>2, <1>3, <1>4, <1>5, <1>6, <1>7, <1>8, <1>9 DEF Inv, Waiting, OwnerKnown,
        RecursionKnown, WaitersHaveOwner

\* The mutex goes to the first waiter, which is out of the queue from then on.
LEMMA TransferInv ==
    ASSUME Inv, NEW t \in Threads, UnlockTransfer(t)
    PROVE  Inv'
<1>0. PICK w \in Threads : w = Head(wq)
    BY WakeupKeeps DEF UnlockTransfer, Inv
<1>1. owner = t /\ pc[t] = "out" /\ depth[t] = 1 /\ recursion = 0
    BY DEF UnlockTransfer, Leave, Calls, Inv, MutexTypeOK, OwnerKnown, OwnerIs, RecursionKnown
<1>2. ThreadsOK' /\ Queued(w) /\ Range(wq') = Range(wq) \ {w}
    BY <1>0, WakeupKeeps DEF UnlockTransfer, Inv
<1>3. Apart'
    BY WakeupApart DEF UnlockTransfer, Inv
<1>4. /\ owner' = w /\ recursion' = 0 /\ pc' = pc
      /\ depth' = [depth EXCEPT ![t] = depth[t] - 1]
    BY <1>0, <1>1 DEF UnlockTransfer, Leave
<1>5. /\ depth' \in [Threads -> 0..MaxDepth] /\ depth'[t] = 0
      /\ \A u \in Threads \ {t} : depth'[u] = depth[u]
    BY <1>1, <1>4, DepthAssumption DEF Inv, MutexTypeOK
<1>6. /\ pc[w] = "wait" /\ w # t /\ ~Queued(w)'
      /\ \A u \in Threads \ {w} : Queued(u)' <=> Queued(u)
    BY <1>1, <1>2 DEF Inv, Waiting, Queued
<1>7. \A u \in Threads : OwnerIs(u)' <=> u = w
    BY <1>1, <1>4, <1>5, <1>6 DEF Inv, OwnerKnown, OwnerIs
<1>8. MutexTypeOK'
    BY <1>2, <1>4, <1>5 DEF Inv, MutexTypeOK
<1>9. Waiting' /\ OwnerKnown'
    BY <1>1, <1>2, <1>4, <1>5, <1>6, <1>7 DEF Inv, Waiting, OwnerKnown
<1>10. RecursionKnown' /\ WaitersHaveOwner'
    BY <1>2, <1>4, <1>6, NoThreadAssumption DEF RecursionKnown, WaitersHaveOwner
<1> QED
    BY <1>2, <1>3, <1>8, <1>9, <1>10 DEF Inv

\* The switcher changes neither the queue nor the mutex.
LEMMA SwitchInv ==
    ASSUME Inv, UNCHANGED mutexVars,
           Idle \/ Switch \/ \E t \in Threads : Yield(t)
    PROVE  Inv'
<1>1. ThreadsOK' /\ wq' = wq
    <2>1. CASE Idle \/ Switch
        <3>1. CASE Threads = {}
            BY <2>1, <3>1, HeadTailProperties DEF Inv, ThreadsOK, ThreadsTypeOK, Switch
        <3>2. CASE Threads # {}
            BY <2>1, <3>2, SwitcherKeeps DEF Inv
        <3> QED
            BY <3>1, <3>2
    <2>2. CASE \E t \in Threads : Yield(t)
        BY <2>2, SwitcherKeeps DEF Inv
    <2> QED
        BY <2>1, <2>2
<1>2. Apart'
    BY SwitchApart DEF Inv, Idle, Yield, Apart, RtrDistinct
<1> QED
    BY <1>1, <1>2 DEF Inv, mutexVars, MutexTypeOK, Waiting, OwnerKnown, OwnerIs, Queued,
        RecursionKnown, WaitersHaveOwner

\* Every step keeps the invariant.
LEMMA NextInv == Inv /\ [Next]_vars => Inv'
<1> SUFFICES ASSUME Inv, [Next]_vars PROVE Inv'
    OBVIOUS
<1>1. ASSUME NEW t \in Threads, Lock(t) \/ Locked(t) \/ Unlock(t) \/ GiveUpProcessor(t)
      PROVE  Inv'
    BY <1>1, QuietInv, LockBlockInv, TransferInv, SwitchInv DEF Lock, Unlock, GiveUpProcessor
<1>2. CASE SwitchThread
    BY <1>2, SwitchInv DEF SwitchThread
<1>3. CASE UNCHANGED vars
    BY <1>3 DEF vars, threadVars, core, mutexVars, Inv, ThreadsOK, ThreadsTypeOK, WqDistinct, Apart,
        RtrDistinct, MutexTypeOK, Waiting, OwnerKnown, OwnerIs, Queued, RecursionKnown,
        WaitersHaveOwner
<1> QED
    BY <1>1, <1>2, <1>3 DEF Next

\* The invariant holds in every behaviour.
LEMMA Invariance == Spec => []Inv
<1> QED
    BY InitInv, NextInv, PTL DEF Spec

-----------------------------------------------------------------------------
\* The mutex keeps its types; recursion stays one below the deepest lock.
THEOREM TypeCorrect == Spec => []TypeOK
<1>1. Inv => TypeOK
    <2> SUFFICES ASSUME Inv PROVE TypeOK
        OBVIOUS
    <2>1. recursion \in 0..(MaxDepth - 1)
        <3>1. CASE owner = NoThread
            BY <3>1, DepthAssumption DEF Inv, RecursionKnown
        <3>2. CASE owner \in Threads
            BY <3>2, DepthAssumption DEF Inv, RecursionKnown, OwnerKnown, OwnerIs, MutexTypeOK
        <3> QED
            BY <3>1, <3>2 DEF Inv, MutexTypeOK
    <2> QED
        BY <2>1 DEF Inv, ThreadsOK, MutexTypeOK, TypeOK
<1> QED
    BY <1>1, Invariance, PTL

\* At most one thread is between mutex_lock and mutex_unlock.
THEOREM Excludes == Spec => []MutualExclusion
<1>1. Inv => MutualExclusion
    BY DEF Inv, OwnerKnown, OwnerIs, MutexTypeOK, MutualExclusion
<1> QED
    BY <1>1, Invariance, PTL

\* Threads wait only for a mutex that somebody owns.
THEOREM NeverOpenWithWaiters == Spec => []WaitersHaveOwner
<1>1. Inv => WaitersHaveOwner
    BY DEF Inv
<1> QED
    BY <1>1, Invariance, PTL

\* A thread that did not wait gets the mutex only when nobody waits: an open
\* mutex has an empty queue, and nobody it has been handed to either.
THEOREM WaitersFirst == Spec => NotOvertaken
<1> DEFINE Overtakes == \A u \in Threads : depth[u] = 0 /\ depth'[u] > 0 /\ pc[u] = "out"
                            => \A t \in Threads : pc[t] = "out"
<1>1. ASSUME Inv, Next, NEW u \in Threads, depth[u] = 0, depth'[u] > 0, pc[u] = "out"
      PROVE  \A t \in Threads : pc[t] = "out"
    <2>1. LockOpen(u)
        BY <1>1 DEF Inv, MutexTypeOK, OwnerKnown, OwnerIs, Next, Lock, LockAgain, LockOpen, LockBlock, Locked, Unlock,
            UnlockRecursive, UnlockOpen, UnlockTransfer, Leave, GiveUpProcessor, SwitchThread,
            mutexVars
    <2>2. wq = <<>> /\ \A t \in Threads : ~OwnerIs(t)
        BY <1>1, <2>1, NoThreadAssumption DEF LockOpen, Inv, WaitersHaveOwner, OwnerKnown
    <2> QED
        BY <1>1, <2>2 DEF OwnerIs, Queued, Range, Inv, MutexTypeOK
<1>2. Inv /\ [Next]_vars => [Overtakes]_vars
    BY <1>1 DEF vars, mutexVars
<1> QED
    BY <1>2, Invariance, PTL DEF Spec, NotOvertaken

(***************************************************************************)
(* Natural numbers: the least member of a set.                             *)
(***************************************************************************)
Below == {ss \in Nat \X Nat : ss[1] < ss[2]}

\* y < x as a pair of the relation.
LEMMA BelowPairs ==
    ASSUME NEW x \in Nat, NEW y \in Nat, y < x
    PROVE  <<y, x>> \in Below
<1> DEFINE z == <<y, x>>
<1>1. z \in Nat \X Nat /\ z[1] = y /\ z[2] = x
    OBVIOUS
<1>2. z \in Below
    <2> HIDE DEF z
    <2> QED
        BY <1>1 DEF Below
<1> QED
    BY <1>2

\* A set of naturals that is not empty has a least member: the induction used here.
LEMMA LeastNumber ==
    ASSUME NEW T, T \subseteq Nat, T # {}
    PROVE  \E x \in T : \A y \in T : x <= y
<1>1. IsWellFoundedOn(Below, Nat)
    BY NatLessThanWellFounded DEF OpToRel, Below
<1>2. PICK x \in T : \A y \in T : ~ (<<y, x>> \in Below)
    BY <1>1, WFMin, Zenon
<1>3. \A y \in T : ~(y < x)
    BY <1>2, BelowPairs
<1> QED
    BY <1>3

(***************************************************************************)
(* Lists of pointers: n is the slot of the first null.                     *)
(***************************************************************************)
Shape(arr, N, S, n) ==
    /\ arr \in [1..(N + 1) -> S \cup {None}] /\ n \in 1..(N + 1)
    /\ \A i \in 1..(N + 1) : arr[i] = None <=> i >= n
    /\ \A i, j \in 1..(N + 1) : arr[i] = arr[j] /\ arr[i] # None => i = j

\* A compact list has such a slot.
LEMMA CompactShape ==
    ASSUME NEW N \in Nat, NEW S, NEW arr \in [1..(N + 1) -> S \cup {None}], CompactList(arr)
    PROVE  \E n : Shape(arr, N, S, n)
<1> DEFINE Nulls == {i \in 1..(N + 1) : arr[i] = None}
<1>1. Nulls # {} /\ Nulls \subseteq Nat
    BY DEF CompactList, Listed
<1>2. PICK n \in Nulls : \A i \in Nulls : n <= i
    <2> HIDE DEF Nulls
    <2> QED
        BY <1>1, LeastNumber
<1>3. ASSUME NEW i \in 1..(N + 1) PROVE arr[i] = None <=> i >= n
    BY <1>2 DEF CompactList
<1>4. ASSUME NEW i \in 1..(N + 1), NEW j \in 1..(N + 1), arr[i] = arr[j], arr[i] # None PROVE i = j
    BY <1>4 DEF CompactList
<1>5. Shape(arr, N, S, n)
    BY <1>2, <1>3, <1>4 DEF Shape
<1> QED
    BY <1>5

\* What has one is compact.
LEMMA ShapeCompact ==
    ASSUME NEW N \in Nat, NEW S, NEW arr, NEW n, Shape(arr, N, S, n)
    PROVE  arr \in [1..(N + 1) -> S \cup {None}] /\ CompactList(arr)
BY DEF Shape, CompactList, Listed

\* find_array_ptr finds an entry, or the null if there is none.
LEMMA FindsEntry ==
    ASSUME NEW N \in Nat, NEW S, NEW arr, NEW n, Shape(arr, N, S, n),
           NEW i \in 1..(N + 1), arr[i] # None
    PROVE  Find(arr, arr[i]) = i
<1>1. DOMAIN arr = 1..(N + 1)
    BY DEF Shape
<1>2. \A j \in 1..(i - 1) : arr[j] \notin {arr[i], None}
    BY DEF Shape
<1>3. ASSUME NEW k \in DOMAIN arr, arr[k] \in {arr[i], None},
             \A j \in 1..(k - 1) : arr[j] \notin {arr[i], None}
      PROVE  k = i
    BY <1>1, <1>3 DEF Shape
<1> QED
    BY <1>1, <1>2, <1>3 DEF Find
LEMMA FindsNull ==
    ASSUME NEW N \in Nat, NEW S, NEW arr, NEW n, Shape(arr, N, S, n),
           NEW x, \A i \in 1..(N + 1) : arr[i] = x => x = None
    PROVE  Find(arr, x) = n
<1>1. DOMAIN arr = 1..(N + 1) /\ n \in 1..(N + 1)
    BY DEF Shape
<1>2. arr[n] = None /\ \A j \in 1..(n - 1) : arr[j] \notin {x, None}
    BY DEF Shape
<1>3. ASSUME NEW k \in DOMAIN arr, arr[k] \in {x, None},
             \A j \in 1..(k - 1) : arr[j] \notin {x, None}
      PROVE  k = n
    <2>1. arr[k] = None
        BY <1>1, <1>3
    <2>2. k >= n /\ ~(k > n)
        BY <1>1, <1>2, <1>3, <2>1 DEF Shape
    <2> QED
        BY <1>1, <2>2
<1> QED
    BY <1>1, <1>2, <1>3 DEF Find

\* An entry is put in its place, or in the slot of the null if one is left
\* for the null.
LEMMA Puts ==
    ASSUME NEW N \in Nat, NEW S, NEW arr, NEW n, Shape(arr, N, S, n), None \notin S,
           NEW x \in S, Find(arr, x) <= N
    PROVE  LET p == Find(arr, x)
               new == [arr EXCEPT ![p] = x]
           IN  /\ p \in 1..N /\ p <= n /\ arr[p] \in {x, None}
               /\ \E m : Shape(new, N, S, m) /\ m > 1
<1> DEFINE p == Find(arr, x)
           new == [arr EXCEPT ![p] = x]
<1>0. x # None
    OBVIOUS
<1>1. CASE \E i \in 1..(N + 1) : arr[i] = x
    <2>1. PICK i \in 1..(N + 1) : arr[i] = x
        BY <1>1
    <2>2. p = i /\ i <= n
        <3>1. Find(arr, arr[i]) = i
            BY <1>0, <2>1, FindsEntry
        <3> QED
            BY <1>0, <2>1, <3>1 DEF Shape
    <2>3. new = arr
        BY <2>1, <2>2 DEF Shape
    <2>4. n > 1
        BY <1>0, <2>1, <2>2 DEF Shape
    <2> QED
        BY <2>1, <2>2, <2>3, <2>4
<1>2. CASE \A i \in 1..(N + 1) : arr[i] # x
    <2>1. p = n /\ n \in 1..N /\ arr[n] = None
        <3>1. p = n
            BY <1>2, FindsNull
        <3> QED
            BY <3>1 DEF Shape
    <2>2. new = [arr EXCEPT ![n] = x]
        BY <2>1
    <2>3. Shape(new, N, S, n + 1)
        <3> HIDE DEF new, p
        <3>1. new \in [1..(N + 1) -> S \cup {None}] /\ n + 1 \in 1..(N + 1)
            BY <2>1, <2>2 DEF Shape
        <3>2. \A i \in 1..(N + 1) : new[i] = IF i = n THEN x ELSE arr[i]
            BY <2>1, <2>2 DEF Shape
        <3>3. \A i \in 1..(N + 1) : new[i] = None <=> i >= n + 1
            BY <1>0, <2>1, <3>2 DEF Shape
        <3>4. \A i, j \in 1..(N + 1) : new[i] = new[j] /\ new[i] # None => i = j
            BY <1>2, <3>2 DEF Shape
        <3> QED
            BY <3>1, <3>3, <3>4 DEF Shape
    <2> QED
        BY <2>1, <2>3
<1> QED
    BY <1>1, <1>2

\* remove_array_ptr of what is not in the list changes nothing.
LEMMA RemovesNothing ==
    ASSUME NEW N \in Nat, NEW S, NEW arr, NEW n, Shape(arr, N, S, n),
           NEW x, \A i \in 1..(N + 1) : arr[i] # x
    PROVE  Removed(arr, x) = arr
<1>1. Find(arr, x) = n /\ Find(arr, None) = n /\ n \in Nat
    <2>1. Find(arr, x) = n
        BY FindsNull
    <2>2. Find(arr, None) = n
        BY FindsNull
    <2> QED
        BY <2>1, <2>2 DEF Shape
<1>2. Removed(arr, x) = [i \in DOMAIN arr |-> arr[i]]
    BY <1>1 DEF Removed, Shape
<1> QED
    BY <1>2 DEF Shape
\* Of an entry, it moves those behind it up.
LEMMA Removes ==
    ASSUME NEW N \in Nat, NEW S, NEW arr, NEW n, Shape(arr, N, S, n),
           NEW k \in 1..(N + 1), arr[k] # None
    PROVE  LET new == Removed(arr, arr[k])
           IN  /\ n > 1 /\ k < n /\ Shape(new, N, S, n - 1)
               /\ \A i \in 1..(N + 1) : new[i] = IF k <= i /\ i < n THEN arr[i + 1] ELSE arr[i]
<1> DEFINE new == Removed(arr, arr[k])
<1>1. Find(arr, arr[k]) = k /\ Find(arr, None) = n
    BY FindsEntry, FindsNull
<1>2. new = [i \in 1..(N + 1) |-> IF k <= i /\ i < n THEN arr[i + 1] ELSE arr[i]]
    BY <1>1 DEF Removed, Shape
<1>3. k < n /\ n > 1 /\ n - 1 \in 1..(N + 1)
    BY DEF Shape
<1>4. ASSUME NEW i \in 1..(N + 1), k <= i, i < n PROVE i + 1 \in 1..(N + 1)
    BY <1>3, <1>4 DEF Shape
<1>5. \A i \in 1..(N + 1) : new[i] = IF k <= i /\ i < n THEN arr[i + 1] ELSE arr[i]
    <2> HIDE DEF new
    <2> QED
        BY <1>2
<1>6. new \in [1..(N + 1) -> S \cup {None}]
    <2>1. \A i \in 1..(N + 1) : (IF k <= i /\ i < n THEN arr[i + 1] ELSE arr[i]) \in S \cup {None}
        BY <1>4 DEF Shape
    <2> HIDE DEF new
    <2> QED
        BY <1>2, <2>1
<1>7. \A i \in 1..(N + 1) : new[i] = None <=> i >= n - 1
    <2> HIDE DEF new
    <2> QED
        BY <1>3, <1>4, <1>5 DEF Shape
<1>8. \A i, j \in 1..(N + 1) : new[i] = new[j] /\ new[i] # None => i = j
    <2> HIDE DEF new
    <2> SUFFICES ASSUME NEW i \in 1..(N + 1), NEW j \in 1..(N + 1), new[i] = new[j], new[i] # None
                 PROVE  i = j
        OBVIOUS
    <2>1. i < n - 1 /\ j < n - 1
        BY <1>3, <1>7
    <2> DEFINE a == IF k <= i THEN i + 1 ELSE i
               b == IF k <= j THEN j + 1 ELSE j
    <2>2. a \in 1..(N + 1) /\ b \in 1..(N + 1) /\ new[i] = arr[a] /\ new[j] = arr[b]
        BY <1>3, <1>5, <2>1 DEF Shape
    <2>3. a = b
        BY <2>2 DEF Shape
    <2> QED
        BY <2>3
<1> QED
    BY <1>3, <1>5, <1>6, <1>7, <1>8 DEF Shape

\* The list of tick tasks has room for each of them.
LEMMA Room ==
    ASSUME NEW arr, NEW n, Shape(arr, MaxTasks, Tasks, n), NEW f \in Tasks
    PROVE  Find(arr, f) <= MaxTasks
<1>0. MaxTasks \in Nat /\ None \notin Tasks
    BY RoomAssumption, PointersAssumption
<1>1. CASE \E i \in 1..(MaxTasks + 1) : arr[i] = f
    <2>1. PICK i \in 1..(MaxTasks + 1) : arr[i] = f
        BY <1>1
    <2>2. Find(arr, arr[i]) = i
        BY <1>0, <2>1, FindsEntry
    <2>3. i < n /\ n <= MaxTasks + 1
        BY <1>0, <2>1 DEF Shape
    <2> QED
        BY <1>0, <2>1, <2>2, <2>3 DEF Shape
<1>2. CASE \A i \in 1..(MaxTasks + 1) : arr[i] # f
    <2>1. Find(arr, f) = n /\ n \in 1..(MaxTasks + 1)
        <3>1. Find(arr, f) = n
            BY <1>0, <1>2, FindsNull
        <3> QED
            BY <3>1 DEF Shape
    <2>2. ASSUME n = MaxTasks + 1 PROVE FALSE
        <3> DEFINE T == Tasks \ {f}
                   g == [i \in 1..MaxTasks |-> arr[i]]
        <3>1. IsFiniteSet(Tasks) /\ Cardinality(Tasks) = Cardinality(Others) + 1
            BY FS_AddElement, RoomAssumption, PointersAssumption DEF Tasks
        <3>2. IsFiniteSet(T) /\ Cardinality(T) = Cardinality(Others)
            <4>1. Cardinality(Others) \in Nat
                BY RoomAssumption, FS_CardinalityType
            <4>2. /\ IsFiniteSet(Tasks \ {f})
                  /\ Cardinality(Tasks \ {f}) = IF f \in Tasks THEN Cardinality(Tasks) - 1 ELSE Cardinality(Tasks)
                BY <3>1, FS_RemoveElement
            <4> QED
                BY <3>1, <4>1, <4>2
        <3>3. IsFiniteSet(1..MaxTasks) /\ Cardinality(1..MaxTasks) = MaxTasks
            BY <1>0, FS_Interval
        <3>4. g \in [1..MaxTasks -> T]
            BY <1>0, <1>2, <2>2 DEF Shape
        <3>5. PICK i, j \in 1..MaxTasks : i # j /\ g[i] = g[j]
            <4> HIDE DEF T, g
            <4> QED
                BY <3>2, <3>3, <3>4, RoomAssumption, FS_PigeonHole
        <3>6. arr[i] = arr[j] /\ arr[i] # None
            BY <1>0, <2>2, <3>5 DEF Shape
        <3> QED
            BY <1>0, <3>5, <3>6 DEF Shape
    <2> QED
        BY <1>0, <2>1, <2>2
<1> QED
    BY <1>1, <1>2

(***************************************************************************)
(* Ticks that wrap.                                                        *)
(***************************************************************************)
LEMMA Half ==
    /\ Wrap \in Nat \ {0} /\ MaxDelay \in Nat /\ MaxTimeouts \in Nat
    /\ Wrap \div 2 \in Nat /\ Wrap >= 2 * (Wrap \div 2) /\ MaxDelay + MaxTimeouts < Wrap \div 2
BY HalfRangeAssumption, SlotsAssumption

\* What current_tick is ahead of an expiry.
LEMMA Ahead ==
    ASSUME NEW x \in Ticks, NEW y \in Ticks
    PROVE  (x - y) % Wrap = IF y <= x THEN x - y ELSE x - y + Wrap
BY Half DEF Ticks

\* A tick further on.
LEMMA Further ==
    ASSUME NEW x \in Ticks, NEW k \in 0..MaxDelay
    PROVE  /\ (x + k) % Wrap = IF x + k < Wrap THEN x + k ELSE x + k - Wrap
           /\ (x + k) % Wrap \in Ticks
BY Half DEF Ticks

\* What has been set just now is pending.
LEMMA SetIsPending ==
    ASSUME NEW x \in Ticks, NEW k \in 1..MaxDelay
    PROVE  Before(x, (x + k) % Wrap)
<1> DEFINE y == (x + k) % Wrap
<1>1. y = (IF x + k < Wrap THEN x + k ELSE x + k - Wrap) /\ y \in Ticks
    BY Half, Further
<1>2. (x - y) % Wrap = IF y <= x THEN x - y ELSE x - y + Wrap
    BY <1>1, Ahead
<1>3. k \in Nat /\ k > 0 /\ x \in Nat
    BY Half DEF Ticks
<1>4. (x - y) % Wrap = Wrap - k
    <2> HIDE DEF y
    <2> QED
        BY <1>1, <1>2, <1>3, Half
<1> HIDE DEF y
<1>5. Wrap - k >= Wrap \div 2
    BY Half
<1>6. Before(x, y)
    BY <1>4, <1>5 DEF Before
<1> QED
    BY <1>6 DEF y

\* With one more tick it is one tick further.
LEMMA OneTickOn ==
    ASSUME NEW x \in Ticks, NEW y \in Ticks
    PROVE  LET d == (x - y) % Wrap
           IN  d \in Ticks /\ (((x + 1) % Wrap) - y) % Wrap = IF d + 1 = Wrap THEN 0 ELSE d + 1
<1> DEFINE d == (x - y) % Wrap
           z == (x + 1) % Wrap
<1>1. 1 \in 0..MaxDelay
    BY HalfRangeAssumption
<1>2. z = (IF x + 1 < Wrap THEN x + 1 ELSE x + 1 - Wrap) /\ z \in Ticks
    BY <1>1, Further
<1>3. d = IF y <= x THEN x - y ELSE x - y + Wrap
    BY Ahead
<1>4. (z - y) % Wrap = IF y <= z THEN z - y ELSE z - y + Wrap
    BY <1>2, Ahead
<1> HIDE DEF d, z
<1>5. d \in Ticks /\ (z - y) % Wrap = IF d + 1 = Wrap THEN 0 ELSE d + 1
    BY <1>2, <1>3, <1>4, Half DEF Ticks
<1> QED
    BY <1>5 DEF d, z

(***************************************************************************)
(* The invariant.  Where the walks of a tick are; and what each timeout is *)
(* late by: one that this tick's walk has still to look at by one more.    *)
(* While a callback runs, the walk is at its timeout, unless that has left *)
(* its slot; what is in the slot then has moved up and is not looked at.   *)
(***************************************************************************)
WalkKnown ==
    /\ fn # None => taskAt \in 1..MaxTasks
    /\ at > 0 <=> fn = TimeoutTick
    /\ callback # None => at \in 1..MaxTimeouts
Within(t, n) == ~Pending(t) => (current_tick - expires[t]) % Wrap < n
ToWalk(i) ==
    /\ taskAt > 0
    /\ IF at > 0 THEN i > at \/ (i = at /\ callback \in {None, tmo_list[i]})
       ELSE \E k \in TaskSlots :
                tick_funcs[k] = TimeoutTick /\ (k > taskAt \/ (k = taskAt /\ fn = None))
InTime(i) ==
    \/ Within(tmo_list[i], MaxTimeouts - i)
    \/ ToWalk(i) /\ Within(tmo_list[i], MaxTimeouts - i + 1)
OnTime == \A i \in Slots : tmo_list[i] # None => InTime(i)
TimersInv == ListsKept /\ WalkKnown /\ OnTime

\* The lists as they are kept.
LEMMA Shapes ==
    ASSUME TimersTypeOK, ListsCompact
    PROVE  /\ \E n : Shape(tmo_list, MaxTimeouts, Timeouts, n)
           /\ \E m : Shape(tick_funcs, MaxTasks, Tasks, m)
<1>1. MaxTimeouts \in Nat /\ MaxTasks \in Nat
    BY SlotsAssumption, RoomAssumption
<1>2. tmo_list \in [1..(MaxTimeouts + 1) -> Timeouts \cup {None}]
    BY DEF TimersTypeOK, Slots
<1>3. tick_funcs \in [1..(MaxTasks + 1) -> Tasks \cup {None}]
    BY DEF TimersTypeOK, TaskSlots
<1> QED
    BY <1>1, <1>2, <1>3, CompactShape DEF ListsCompact

\* A list is empty when its first slot is.
LEMMA EmptyIs ==
    ASSUME NEW N \in Nat, NEW S, NEW arr, NEW n, Shape(arr, N, S, n)
    PROVE  Empty(arr) <=> n = 1
BY DEF Empty, Shape

\* timeout_register: an entry in a slot that was its own or the null's, and
\* timeout_tick among the tasks.
LEMMA Registers ==
    ASSUME ListsKept, NEW t \in Timeouts, NEW ticks, Register(t, ticks)
    PROVE  LET p == Find(tmo_list, t)
           IN  /\ p \in Slots /\ tmo_list[p] \in {t, None}
               /\ tmo_list' = [tmo_list EXCEPT ![p] = t]
               /\ tmo_list' \in [Slots -> Timeouts \cup {None}]
               /\ tick_funcs' \in [TaskSlots -> Tasks \cup {None}]
               /\ ListsCompact' /\ TickTaskMatches'
               /\ tick_funcs' = tick_funcs \/ \A i \in Slots : tmo_list[i] = None
<1> DEFINE p == Find(tmo_list, t)
           q == Find(tick_funcs, TimeoutTick)
<1>0. MaxTimeouts \in Nat /\ MaxTasks \in Nat /\ None \notin Timeouts /\ None \notin Tasks /\ TimeoutTick \in Tasks
    BY SlotsAssumption, RoomAssumption, PointersAssumption DEF Tasks
<1>1. PICK n : Shape(tmo_list, MaxTimeouts, Timeouts, n)
    BY Shapes DEF ListsKept
<1>2. PICK m : Shape(tick_funcs, MaxTasks, Tasks, m)
    BY Shapes DEF ListsKept
<1>3. p <= MaxTimeouts /\ tmo_list' = [tmo_list EXCEPT ![p] = t]
    BY DEF Register
<1>4. /\ p \in 1..MaxTimeouts /\ tmo_list[p] \in {t, None}
      /\ \E k : Shape([tmo_list EXCEPT ![p] = t], MaxTimeouts, Timeouts, k) /\ k > 1
    BY <1>0, <1>1, <1>3, Puts
<1>5. PICK k : Shape(tmo_list', MaxTimeouts, Timeouts, k) /\ k > 1
    BY <1>3, <1>4
<1>6. ~Empty(tmo_list')
    <2>1. Empty(tmo_list') <=> k = 1
        BY <1>0, <1>5, EmptyIs
    <2> QED
        BY <1>5, <2>1
<1>7. \E l : Shape(tick_funcs', MaxTasks, Tasks, l)
    <2>1. CASE Empty(tmo_list)
        <3>1. q <= MaxTasks
            BY <1>0, <1>2, Room
        <3>2. \E l : Shape([tick_funcs EXCEPT ![q] = TimeoutTick], MaxTasks, Tasks, l)
            BY <1>0, <1>2, <3>1, Puts
        <3> QED
            BY <2>1, <3>2 DEF Register
    <2>2. CASE ~Empty(tmo_list)
        BY <1>2, <2>2 DEF Register
    <2> QED
        BY <2>1, <2>2
<1>8. Listed(tick_funcs', TimeoutTick)
    <2>1. CASE Empty(tmo_list)
        <3>1. q <= MaxTasks
            BY <1>0, <1>2, Room
        <3>2. q \in 1..MaxTasks
            BY <1>0, <1>2, <3>1, Puts
        <3>3. tick_funcs'[q] = TimeoutTick /\ q \in DOMAIN tick_funcs'
            BY <1>0, <1>2, <2>1, <3>2 DEF Register, Shape
        <3> QED
            BY <3>3 DEF Listed
    <2>2. CASE ~Empty(tmo_list)
        BY <2>2 DEF Register, ListsKept, TickTaskMatches
    <2> QED
        BY <2>1, <2>2
<1>9. tick_funcs' = tick_funcs \/ \A i \in Slots : tmo_list[i] = None
    <2>1. CASE Empty(tmo_list)
        <3>1. n = 1
            BY <1>0, <1>1, <2>1, EmptyIs
        <3> QED
            BY <1>0, <1>1, <3>1 DEF Shape, Slots
    <2>2. CASE ~Empty(tmo_list)
        BY <2>2 DEF Register
    <2> QED
        BY <2>1, <2>2
<1>10. /\ tmo_list' \in [Slots -> Timeouts \cup {None}] /\ CompactList(tmo_list')
       /\ tick_funcs' \in [TaskSlots -> Tasks \cup {None}] /\ CompactList(tick_funcs')
    BY <1>0, <1>5, <1>7, ShapeCompact DEF Slots, TaskSlots
<1>11. ListsCompact' /\ TickTaskMatches' /\ p \in Slots
    BY <1>0, <1>4, <1>6, <1>8, <1>10 DEF ListsCompact, TickTaskMatches, Slots
<1> QED
    BY <1>3, <1>4, <1>9, <1>10, <1>11

\* timeout_cancel: if the timeout is listed, those behind it move up; and
\* timeout_tick leaves when none is left.
Slid(k) ==
    \A i \in Slots :
        tmo_list'[i] = IF k <= i /\ tmo_list[i] # None THEN tmo_list[i + 1] ELSE tmo_list[i]
LEMMA Cancels ==
    ASSUME ListsKept, NEW t \in Timeouts, Cancel(t)
    PROVE  /\ tmo_list' \in [Slots -> Timeouts \cup {None}]
           /\ tick_funcs' \in [TaskSlots -> Tasks \cup {None}]
           /\ ListsCompact' /\ TickTaskMatches'
           /\ tick_funcs' = tick_funcs \/ \A i \in Slots : tmo_list'[i] = None
           /\ \/ (\A i \in Slots : tmo_list[i] # t) /\ UNCHANGED <<tmo_list, tick_funcs>>
              \/ \E k \in Slots : tmo_list[k] = t /\ Slid(k)
<1>0. MaxTimeouts \in Nat /\ MaxTasks \in Nat /\ None \notin Timeouts /\ None \notin Tasks /\ TimeoutTick \in Tasks
    BY SlotsAssumption, RoomAssumption, PointersAssumption DEF Tasks
<1>1. PICK n : Shape(tmo_list, MaxTimeouts, Timeouts, n)
    BY Shapes DEF ListsKept
<1>2. PICK m : Shape(tick_funcs, MaxTasks, Tasks, m)
    BY Shapes DEF ListsKept
<1>3. DOMAIN tmo_list = Slots /\ Slots = 1..(MaxTimeouts + 1) /\ DOMAIN tick_funcs = 1..(MaxTasks + 1)
    BY <1>1, <1>2 DEF Shape, Slots
<1>4. tmo_list' = Removed(tmo_list, t)
    BY DEF Cancel
<1>5. CASE \A i \in Slots : tmo_list[i] # t
    <2>1. tmo_list' = tmo_list
        BY <1>0, <1>1, <1>3, <1>4, <1>5, RemovesNothing
    <2>2. tick_funcs' = tick_funcs
        BY <1>3, <1>5 DEF Cancel, Listed
    <2>3. ListsCompact' /\ TickTaskMatches'
        BY <2>1, <2>2 DEF ListsKept, ListsCompact, TickTaskMatches
    <2> QED
        BY <1>5, <2>1, <2>2, <2>3 DEF ListsKept, TimersTypeOK
<1>6. CASE \E k \in Slots : tmo_list[k] = t
    <2>1. PICK k \in Slots : tmo_list[k] = t
        BY <1>6
    <2>2. k \in 1..(MaxTimeouts + 1) /\ tmo_list[k] # None
        BY <1>0, <1>3, <2>1
    <2>3. /\ n > 1 /\ k < n /\ Shape(tmo_list', MaxTimeouts, Timeouts, n - 1)
          /\ \A i \in 1..(MaxTimeouts + 1) :
                 tmo_list'[i] = IF k <= i /\ i < n THEN tmo_list[i + 1] ELSE tmo_list[i]
        BY <1>0, <1>1, <1>4, <2>1, <2>2, Removes
    <2>4. Slid(k)
        BY <1>0, <1>1, <1>3, <2>3 DEF Slid, Shape
    <2>5. Empty(tmo_list') <=> n = 2
        <3>1. n \in Nat
            BY <1>0, <1>1 DEF Shape
        <3>2. Empty(tmo_list') <=> n - 1 = 1
            BY <1>0, <2>3, <3>1 DEF Empty, Shape
        <3> QED
            BY <3>1, <3>2
    <2>6. Listed(tmo_list, t) /\ ~Empty(tmo_list) /\ Listed(tick_funcs, TimeoutTick)
        <3>1. ~Empty(tmo_list)
            BY <1>0, <1>1, <2>3, EmptyIs
        <3> QED
            BY <1>3, <2>1, <3>1 DEF Listed, ListsKept, TickTaskMatches
    <2>7. /\ \E l : Shape(tick_funcs', MaxTasks, Tasks, l)
          /\ Listed(tick_funcs', TimeoutTick) <=> ~Empty(tmo_list')
          /\ tick_funcs' = tick_funcs \/ \A i \in Slots : tmo_list'[i] = None
        <3>1. CASE Empty(tmo_list')
            <4>1. tick_funcs' = Removed(tick_funcs, TimeoutTick)
                BY <2>6, <3>1 DEF Cancel
            <4>2. PICK j \in 1..(MaxTasks + 1) : tick_funcs[j] = TimeoutTick
                BY <1>3, <2>6 DEF Listed
            <4>3. /\ m > 1 /\ j < m /\ Shape(tick_funcs', MaxTasks, Tasks, m - 1)
                  /\ \A i \in 1..(MaxTasks + 1) :
                         tick_funcs'[i] = IF j <= i /\ i < m THEN tick_funcs[i + 1] ELSE tick_funcs[i]
                BY <1>0, <1>2, <4>1, <4>2, Removes
            <4>4. ~Listed(tick_funcs', TimeoutTick)
                <5> SUFFICES ASSUME NEW i \in 1..(MaxTasks + 1), tick_funcs'[i] = TimeoutTick
                             PROVE  FALSE
                    BY <4>3 DEF Listed, Shape
                <5>1. \A e \in 1..(MaxTasks + 1) : tick_funcs[e] = TimeoutTick => e = j
                    BY <1>0, <1>2, <4>2 DEF Shape
                <5>2. m \in 1..(MaxTasks + 1)
                    BY <1>2 DEF Shape
                <5>3. CASE j <= i /\ i < m
                    BY <1>0, <4>3, <5>1, <5>2, <5>3
                <5>4. CASE ~(j <= i /\ i < m)
                    BY <1>0, <4>3, <5>1, <5>2, <5>4
                <5> QED
                    BY <5>3, <5>4
            <4>5. \A i \in Slots : tmo_list'[i] = None
                BY <1>0, <1>3, <2>3, <2>5, <3>1 DEF Shape
            <4> QED
                BY <3>1, <4>3, <4>4, <4>5
        <3>2. CASE ~Empty(tmo_list')
            <4>1. tick_funcs' = tick_funcs
                BY <3>2 DEF Cancel
            <4> QED
                BY <1>2, <2>6, <3>2, <4>1
        <3> QED
            BY <3>1, <3>2
    <2>8. /\ tmo_list' \in [Slots -> Timeouts \cup {None}] /\ CompactList(tmo_list')
          /\ tick_funcs' \in [TaskSlots -> Tasks \cup {None}] /\ CompactList(tick_funcs')
        BY <1>0, <2>3, <2>7, ShapeCompact DEF Slots, TaskSlots
    <2>9. ListsCompact' /\ TickTaskMatches'
        BY <2>7, <2>8 DEF ListsCompact, TickTaskMatches
    <2> QED
        BY <2>1, <2>4, <2>7, <2>8, <2>9
<1> QED
    BY <1>5, <1>6

\* What does not depend on the lists.
LEMMA StillWithin ==
    ASSUME NEW t \in Timeouts, NEW n, Within(t, n), current_tick' = current_tick,
           expires'[t] = expires[t]
    PROVE  Within(t, n)'
BY DEF Within, Pending

\* What has been set in this step is not late.
LEMMA SetWithin ==
    ASSUME TimersTypeOK, NEW t \in Timeouts, NEW ticks \in 1..MaxDelay, NEW n,
           current_tick' = current_tick,
           expires' = [expires EXCEPT ![t] = (current_tick + ticks) % Wrap]
    PROVE  Within(t, n)' /\ expires' \in [Timeouts -> Ticks]
<1>1. ticks \in 0..MaxDelay /\ current_tick \in Ticks
    BY DEF TimersTypeOK
<1>2. expires' \in [Timeouts -> Ticks] /\ expires'[t] = (current_tick + ticks) % Wrap
    BY <1>1, Further DEF TimersTypeOK
<1>3. Before(current_tick, (current_tick + ticks) % Wrap)
    BY <1>1, SetIsPending
<1> QED
    BY <1>2, <1>3 DEF Within, Pending

\* A slot that is as it was, in a walk that has not got further.
LEMMA StillInTime ==
    ASSUME NEW i, InTime(i), tmo_list[i] \in Timeouts, tmo_list'[i] = tmo_list[i],
           current_tick' = current_tick, expires'[tmo_list[i]] = expires[tmo_list[i]],
           ToWalk(i) => ToWalk(i)'
    PROVE  InTime(i)'
BY StillWithin DEF InTime

\* Less is late, and what is late by less is late by less than more.
LEMMA WithinMore ==
    ASSUME TimersTypeOK, NEW t \in Timeouts, NEW n \in Int, NEW m \in Int, n <= m, Within(t, n)
    PROVE  Within(t, m)
<1>1. (current_tick - expires[t]) % Wrap \in Int
    BY OneTickOn DEF TimersTypeOK, Ticks
<1> QED
    BY <1>1 DEF Within

\* An entry that has moved up is late by less than its new slot allows.
LEMMA MovedUp ==
    ASSUME TimersTypeOK, NEW i \in Slots, i + 1 \in Slots, InTime(i + 1),
           tmo_list[i + 1] \in Timeouts, tmo_list'[i] = tmo_list[i + 1],
           current_tick' = current_tick, expires' = expires
    PROVE  Within(tmo_list[i], MaxTimeouts - i)'
<1> DEFINE t == tmo_list[i + 1]
<1>1. i \in Nat /\ MaxTimeouts \in Nat
    BY Half DEF Slots
<1>2. Within(t, MaxTimeouts - i)
    <2>1. CASE Within(t, MaxTimeouts - (i + 1))
        BY <1>1, <2>1, WithinMore
    <2>2. CASE Within(t, MaxTimeouts - (i + 1) + 1)
        <3>1. MaxTimeouts - (i + 1) + 1 = MaxTimeouts - i
            BY <1>1
        <3> QED
            BY <2>2, <3>1
    <2> QED
        BY <2>1, <2>2 DEF InTime
<1> QED
    BY <1>2, StillWithin

\* Setting a timeout, while a walk is where it is.
LEMMA RegisterKeeps ==
    ASSUME TimersInv, NEW t \in Timeouts, NEW ticks \in 1..MaxDelay, Register(t, ticks),
           UNCHANGED <<current_tick, walkVars>>
    PROVE  TimersInv'
<1> DEFINE p == Find(tmo_list, t)
<1>1. /\ p \in Slots /\ tmo_list[p] \in {t, None}
      /\ tmo_list' = [tmo_list EXCEPT ![p] = t]
      /\ tmo_list' \in [Slots -> Timeouts \cup {None}]
      /\ tick_funcs' \in [TaskSlots -> Tasks \cup {None}]
      /\ ListsCompact' /\ TickTaskMatches'
      /\ tick_funcs' = tick_funcs \/ \A i \in Slots : tmo_list[i] = None
    BY Registers DEF TimersInv
<1>2. TimersTypeOK /\ UNCHANGED <<current_tick, taskAt, fn, at, callback>>
    BY DEF TimersInv, ListsKept, walkVars
<1>3. expires' = [expires EXCEPT ![t] = (current_tick + ticks) % Wrap]
    BY DEF Register
<1>4. expires' \in [Timeouts -> Ticks] /\ \A n : Within(t, n)'
    BY <1>2, <1>3, SetWithin
<1>5. ListsKept'
    BY <1>1, <1>2, <1>4 DEF ListsKept, TimersTypeOK
<1>6. WalkKnown'
    BY <1>2 DEF TimersInv, WalkKnown
<1>7. ASSUME NEW i \in Slots, tmo_list'[i] # None PROVE InTime(i)'
    <2>1. CASE tmo_list'[i] = t
        BY <1>4, <2>1 DEF InTime
    <2>2. CASE tmo_list'[i] # t
        <3>1. i # p /\ tmo_list'[i] = tmo_list[i] /\ tmo_list[i] \in Timeouts
            BY <1>1, <1>2, <1>7, <2>2 DEF TimersTypeOK
        <3>2. tick_funcs' = tick_funcs /\ expires'[tmo_list[i]] = expires[tmo_list[i]]
            BY <1>1, <1>2, <1>3, <2>2, <3>1, PointersAssumption DEF TimersTypeOK
        <3>3. InTime(i)
            BY <3>1, <1>7 DEF TimersInv, OnTime
        <3>4. ToWalk(i) => ToWalk(i)'
            BY <1>2, <3>1, <3>2 DEF ToWalk
        <3> QED
            BY <1>2, <3>1, <3>2, <3>3, <3>4, StillInTime
    <2> QED
        BY <2>1, <2>2
<1> QED
    BY <1>5, <1>6, <1>7 DEF TimersInv, OnTime

\* The slot behind the last timeout holds the null.
LEMMA LastIsNull ==
    ASSUME TimersInv, NEW i \in Slots, tmo_list[i] # None
    PROVE  i + 1 \in Slots /\ i \in 1..MaxTimeouts
<1>1. PICK n : Shape(tmo_list, MaxTimeouts, Timeouts, n)
    BY Shapes DEF TimersInv, ListsKept
<1> QED
    BY <1>1, SlotsAssumption DEF Shape, Slots

\* A timeout has one slot.
LEMMA OncePerList ==
    ASSUME TimersInv, NEW i \in Slots, NEW j \in Slots, tmo_list[i] = tmo_list[j], tmo_list[i] # None
    PROVE  i = j
<1>1. PICK n : Shape(tmo_list, MaxTimeouts, Timeouts, n)
    BY Shapes DEF TimersInv, ListsKept
<1> QED
    BY <1>1 DEF Shape, Slots

\* Taking one out, while a walk is where it is.
LEMMA CancelKeeps ==
    ASSUME TimersInv, NEW t \in Timeouts, Cancel(t),
           UNCHANGED <<expires, current_tick, walkVars>>
    PROVE  TimersInv'
<1>1. /\ tmo_list' \in [Slots -> Timeouts \cup {None}]
      /\ tick_funcs' \in [TaskSlots -> Tasks \cup {None}]
      /\ ListsCompact' /\ TickTaskMatches'
      /\ tick_funcs' = tick_funcs \/ \A i \in Slots : tmo_list'[i] = None
      /\ \/ (\A i \in Slots : tmo_list[i] # t) /\ UNCHANGED <<tmo_list, tick_funcs>>
         \/ \E k \in Slots : tmo_list[k] = t /\ Slid(k)
    BY Cancels DEF TimersInv
<1>2. TimersTypeOK /\ UNCHANGED <<current_tick, expires, taskAt, fn, at, callback>>
    BY DEF TimersInv, ListsKept, walkVars
<1>3. ListsKept' /\ WalkKnown'
    BY <1>1, <1>2 DEF ListsKept, TimersTypeOK, TimersInv, WalkKnown
<1>4. ASSUME NEW i \in Slots, tmo_list'[i] # None PROVE InTime(i)'
    <2>1. tick_funcs' = tick_funcs
        BY <1>1, <1>4
    <2>2. CASE tmo_list'[i] = tmo_list[i]
        <3>1. tmo_list[i] \in Timeouts /\ InTime(i)
            BY <1>2, <1>4, <2>2 DEF TimersTypeOK, TimersInv, OnTime
        <3>2. ToWalk(i) => ToWalk(i)'
            BY <1>2, <2>1, <2>2 DEF ToWalk
        <3> QED
            BY <1>2, <2>2, <3>1, <3>2, StillInTime
    <2>3. CASE tmo_list'[i] # tmo_list[i]
        <3>1. tmo_list'[i] = tmo_list[i + 1] /\ tmo_list[i] # None
            BY <1>1, <2>3 DEF Slid
        <3>2. i + 1 \in Slots
            BY <1>2, <3>1, LastIsNull
        <3>3. tmo_list[i + 1] \in Timeouts /\ InTime(i + 1)
            BY <1>2, <1>4, <3>1, <3>2 DEF TimersTypeOK, TimersInv, OnTime
        <3> QED
            BY <1>2, <3>1, <3>2, <3>3, MovedUp DEF InTime
    <2> QED
        BY <2>2, <2>3
<1> QED
    BY <1>3, <1>4 DEF TimersInv, OnTime

\* A callback that returns zero.
LEMMA StopKeeps ==
    ASSUME TimersInv, Stop
    PROVE  TimersInv'
<1>0. /\ callback \in Timeouts /\ at \in 1..MaxTimeouts /\ at \in Nat /\ fn = TimeoutTick
      /\ at' = at + 1 /\ callback' = None /\ at + 1 > 0 /\ at + 1 \in {0} \cup Slots
      /\ taskAt \in 1..MaxTasks
    BY SlotsAssumption, PointersAssumption DEF Stop, TimersInv, ListsKept, TimersTypeOK, WalkKnown, Slots, Tasks
<1>1. /\ tmo_list' \in [Slots -> Timeouts \cup {None}]
      /\ tick_funcs' \in [TaskSlots -> Tasks \cup {None}]
      /\ ListsCompact' /\ TickTaskMatches'
      /\ \/ (\A i \in Slots : tmo_list[i] # callback) /\ UNCHANGED <<tmo_list, tick_funcs>>
         \/ \E k \in Slots : tmo_list[k] = callback /\ Slid(k)
    <2>1. Cancel(callback)
        BY DEF Stop
    <2> QED
        BY <1>0, <2>1, Cancels DEF TimersInv
<1>2. TimersTypeOK /\ UNCHANGED <<current_tick, expires, taskAt, fn>>
    BY DEF TimersInv, ListsKept, Stop
<1>3. ListsKept' /\ WalkKnown'
    BY <1>0, <1>1, <1>2 DEF ListsKept, TimersTypeOK, WalkKnown
<1>4. ASSUME NEW i \in Slots, tmo_list'[i] # None PROVE InTime(i)'
    <2>2. CASE tmo_list'[i] = tmo_list[i] /\ tmo_list[i] # callback
        <3>1. tmo_list[i] \in Timeouts /\ InTime(i)
            BY <1>2, <1>4, <2>2 DEF TimersTypeOK, TimersInv, OnTime
        <3>2. ToWalk(i) => ToWalk(i)'
            BY <1>0, <1>2, <2>2, <3>1, PointersAssumption DEF ToWalk, Slots
        <3> QED
            BY <1>2, <2>2, <3>1, <3>2, StillInTime
    <2>3. CASE tmo_list'[i] # tmo_list[i] \/ tmo_list[i] = callback
        <3>1. PICK k \in Slots : tmo_list[k] = callback /\ Slid(k)
            BY <1>1, <2>3
        <3>2. k <= i
            <4>1. CASE tmo_list[i] = callback
                <5>1. k = i
                    BY <1>0, <3>1, <4>1, OncePerList, PointersAssumption
                <5> QED
                    BY <5>1 DEF Slots
            <4>2. CASE tmo_list'[i] # tmo_list[i]
                BY <3>1, <4>2 DEF Slid
            <4> QED
                BY <2>3, <4>1, <4>2
        <3>3. tmo_list'[i] = tmo_list[i + 1] /\ tmo_list[i] # None
            BY <1>4, <3>1, <3>2 DEF Slid
        <3>4. i + 1 \in Slots
            BY <1>2, <3>3, LastIsNull
        <3>5. tmo_list[i + 1] \in Timeouts /\ InTime(i + 1)
            BY <1>2, <1>4, <3>3, <3>4 DEF TimersTypeOK, TimersInv, OnTime
        <3> QED
            BY <1>2, <3>3, <3>4, <3>5, MovedUp DEF InTime
    <2> QED
        BY <2>2, <2>3
<1> QED
    BY <1>3, <1>4 DEF TimersInv, OnTime

\* A callback that returns the ticks to its next call.
LEMMA ReloadKeeps ==
    ASSUME TimersInv, NEW ticks \in 1..MaxDelay, Reload(ticks)
    PROVE  TimersInv'
<1>0. /\ callback \in Timeouts /\ at \in 1..MaxTimeouts /\ at \in Nat /\ fn = TimeoutTick
      /\ at' = at + 1 /\ callback' = None /\ at + 1 > 0 /\ at + 1 \in {0} \cup Slots
      /\ taskAt \in 1..MaxTasks
    BY SlotsAssumption, PointersAssumption DEF Reload, TimersInv, ListsKept, TimersTypeOK, WalkKnown, Slots, Tasks
<1>1. /\ TimersTypeOK /\ UNCHANGED <<current_tick, tmo_list, tick_funcs, taskAt, fn>>
      /\ expires' = [expires EXCEPT ![callback] = (current_tick + ticks) % Wrap]
    BY DEF TimersInv, ListsKept, Reload
<1>2. expires' \in [Timeouts -> Ticks]
    BY <1>0, <1>1, SetWithin
<1>3. ListsKept' /\ WalkKnown'
    BY <1>0, <1>1, <1>2 DEF ListsKept, TimersTypeOK, WalkKnown, TimersInv, ListsCompact, TickTaskMatches
<1>4. ASSUME NEW i \in Slots, tmo_list'[i] # None PROVE InTime(i)'
    <2>1. CASE tmo_list[i] = callback
        <3>1. expires'[tmo_list[i]] = (current_tick + ticks) % Wrap
            BY <1>0, <1>1, <2>1 DEF TimersTypeOK
        <3>2. Before(current_tick, (current_tick + ticks) % Wrap)
            BY <1>1, SetIsPending DEF TimersTypeOK
        <3>3. tmo_list'[i] = tmo_list[i] /\ current_tick' = current_tick
            BY <1>1
        <3> QED
            BY <3>1, <3>2, <3>3 DEF InTime, Within, Pending
    <2>2. CASE tmo_list[i] # callback
        <3>1. tmo_list[i] \in Timeouts /\ InTime(i) /\ tmo_list'[i] = tmo_list[i]
            BY <1>1, <1>4 DEF TimersTypeOK, TimersInv, OnTime
        <3>2. expires'[tmo_list[i]] = expires[tmo_list[i]]
            BY <1>1, <2>2, <3>1 DEF TimersTypeOK
        <3>3. ToWalk(i) => ToWalk(i)'
            BY <1>0, <1>1, <2>2, PointersAssumption DEF ToWalk, Slots
        <3> QED
            BY <1>1, <3>1, <3>2, <3>3, StillInTime
    <2> QED
        BY <2>1, <2>2
<1> QED
    BY <1>3, <1>4 DEF TimersInv, OnTime

\* A step that leaves lists and times alone: what was still to be looked at is
\* so yet, or is not late.
LEMMA WalksOn ==
    ASSUME TimersInv, UNCHANGED <<current_tick, tmo_list, expires, tick_funcs>>, WalkKnown',
           taskAt' \in {0} \cup TaskSlots, fn' \in Tasks \cup {None}, at' \in {0} \cup Slots,
           callback' \in Timeouts \cup {None},
           \A i \in Slots : ToWalk(i) /\ tmo_list[i] # None => ToWalk(i)' \/ Pending(tmo_list[i])
    PROVE  TimersInv'
<1>1. ListsKept'
    BY DEF TimersInv, ListsKept, TimersTypeOK, ListsCompact, TickTaskMatches
<1>2. ASSUME NEW i \in Slots, tmo_list'[i] # None PROVE InTime(i)'
    BY <1>2 DEF TimersInv, OnTime, InTime, Within, Pending
<1> QED
    BY <1>1, <1>2 DEF TimersInv, OnTime

\* The steps of the two walks.
LEMMA WalkKeeps ==
    ASSUME TimersInv, CallTask \/ TaskReturns \/ TickEnds \/ PassPending \/ CallExpired
    PROVE  TimersInv'
<1>0. TimersTypeOK /\ WalkKnown /\ MaxTasks \in Nat /\ MaxTimeouts \in Nat
    BY RoomAssumption, SlotsAssumption DEF TimersInv, ListsKept
<1>1. PICK m : Shape(tick_funcs, MaxTasks, Tasks, m)
    BY Shapes DEF TimersInv, ListsKept
<1>2. PICK n : Shape(tmo_list, MaxTimeouts, Timeouts, n)
    BY Shapes DEF TimersInv, ListsKept
<1>3. CASE CallTask
    <2>1. /\ taskAt \in 1..MaxTasks /\ fn = None /\ at = 0 /\ callback = None /\ taskAt' = taskAt
          /\ fn' = tick_funcs[taskAt] /\ fn' \in Tasks
          /\ at' = (IF fn' = TimeoutTick THEN 1 ELSE 0) /\ callback' = callback
          /\ UNCHANGED <<current_tick, tmo_list, expires, tick_funcs>>
        BY <1>0, <1>1, <1>3, PointersAssumption DEF CallTask, WalkKnown, TimersTypeOK, Shape, TaskSlots, Slots, Tasks
    <2>2. WalkKnown' /\ at' \in {0} \cup Slots
        BY <1>0, <2>1 DEF WalkKnown, Slots
    <2>3. \A i \in Slots : ToWalk(i) => ToWalk(i)'
        BY <1>0, <2>1, PointersAssumption DEF ToWalk, TaskSlots, Slots, Tasks
    <2> QED
        BY <1>0, <2>1, <2>2, <2>3, WalksOn DEF TimersTypeOK
<1>4. CASE TaskReturns
    <2>1. /\ taskAt \in 1..MaxTasks /\ fn' = None /\ at' = 0 /\ taskAt' = taskAt + 1
          /\ callback = None /\ callback' = None /\ fn # None
          /\ UNCHANGED <<current_tick, tmo_list, expires, tick_funcs>>
          /\ (at = 0 /\ fn \in Others) \/ (at > 0 /\ tmo_list[at] = None)
        BY <1>0, <1>4, PointersAssumption DEF TaskReturns, WalkKnown, TimersTypeOK, Tasks, Slots
    <2>2. WalkKnown' /\ taskAt' \in TaskSlots
        BY <1>0, <2>1, PointersAssumption DEF WalkKnown, TaskSlots, Tasks
    <2>3. ASSUME NEW i \in Slots, ToWalk(i), tmo_list[i] # None PROVE ToWalk(i)'
        <3>1. CASE at = 0
            BY <1>0, <2>1, <2>3, <3>1 DEF ToWalk, TaskSlots
        <3>2. CASE at > 0
            <4>1. i \in Nat /\ at \in Slots /\ i >= at
                BY <1>0, <2>3, <3>2 DEF ToWalk, Slots, TimersTypeOK
            <4> QED
                BY <1>0, <1>2, <2>1, <2>3, <3>2, <4>1 DEF Shape, Slots
        <3> QED
            BY <1>0, <3>1, <3>2 DEF TimersTypeOK, Slots
    <2> QED
        BY <1>0, <2>1, <2>2, <2>3, WalksOn
<1>5. CASE TickEnds
    <2>1. /\ taskAt > 0 /\ fn = None /\ at = 0 /\ callback = None /\ tick_funcs[taskAt] = None
          /\ taskAt' = 0 /\ fn' = fn /\ at' = at /\ callback' = callback
          /\ UNCHANGED <<current_tick, tmo_list, expires, tick_funcs>>
        BY <1>0, <1>5, PointersAssumption DEF TickEnds, WalkKnown, TimersTypeOK, Tasks, Slots
    <2>2. WalkKnown'
        BY <1>0, <2>1 DEF WalkKnown
    <2>3. ASSUME NEW i \in Slots, ToWalk(i) PROVE FALSE
        <3>1. PICK k \in TaskSlots : tick_funcs[k] = TimeoutTick /\ k >= taskAt
            BY <1>0, <2>1, <2>3 DEF ToWalk, TaskSlots, TimersTypeOK
        <3> QED
            BY <1>0, <1>1, <2>1, <3>1, PointersAssumption DEF Shape, TaskSlots, TimersTypeOK, Tasks
    <2> QED
        BY <1>0, <2>1, <2>2, <2>3, WalksOn DEF TimersTypeOK
<1>6. CASE PassPending
    <2>1. /\ at > 0 /\ at \in 1..MaxTimeouts /\ callback = None /\ Pending(tmo_list[at])
          /\ at' = at + 1 /\ taskAt' = taskAt /\ fn' = fn /\ callback' = callback
          /\ UNCHANGED <<current_tick, tmo_list, expires, tick_funcs>>
        BY <1>0, <1>2, <1>6 DEF PassPending, AtTimeout, Shape, Slots, TimersTypeOK
    <2>2. WalkKnown' /\ at' \in Slots
        BY <1>0, <2>1 DEF WalkKnown, Slots
    <2>3. ASSUME NEW i \in Slots, ToWalk(i) PROVE ToWalk(i)' \/ Pending(tmo_list[i])
        BY <1>0, <2>1, <2>3 DEF ToWalk, Slots
    <2> QED
        BY <1>0, <2>1, <2>2, <2>3, WalksOn DEF TimersTypeOK
<1>7. CASE CallExpired
    <2>1. /\ at > 0 /\ at \in 1..MaxTimeouts /\ callback = None /\ callback' = tmo_list[at]
          /\ at' = at /\ taskAt' = taskAt /\ fn' = fn /\ callback' \in Timeouts
          /\ UNCHANGED <<current_tick, tmo_list, expires, tick_funcs>>
        BY <1>0, <1>2, <1>7 DEF CallExpired, AtTimeout, Shape, Slots, TimersTypeOK
    <2>2. WalkKnown'
        BY <1>0, <2>1 DEF WalkKnown, Slots
    <2>3. ASSUME NEW i \in Slots, ToWalk(i) PROVE ToWalk(i)'
        BY <1>0, <2>1, <2>3 DEF ToWalk, Slots
    <2> QED
        BY <1>0, <2>1, <2>2, <2>3, WalksOn DEF TimersTypeOK
<1> QED
    BY <1>3, <1>4, <1>5, <1>6, <1>7

\* The tick: each timeout is late by one more, and its walk is still to come.
LEMMA TickKeeps ==
    ASSUME TimersInv, Tick
    PROVE  TimersInv'
<1>0. TimersTypeOK /\ WalkKnown /\ MaxTasks \in Nat /\ MaxTimeouts \in Nat
    BY RoomAssumption, SlotsAssumption DEF TimersInv, ListsKept
<1>1. /\ taskAt = 0 /\ taskAt' = 1 /\ fn = None /\ fn' = fn /\ at = 0 /\ at' = at
      /\ callback = None /\ callback' = callback /\ current_tick' = (current_tick + 1) % Wrap
      /\ UNCHANGED <<tmo_list, expires, tick_funcs>>
    BY <1>0, PointersAssumption DEF Tick, WalkKnown, TimersTypeOK, Slots, Tasks
<1>2. current_tick' \in Ticks
    <2>1. 1 \in 0..MaxDelay
        BY HalfRangeAssumption
    <2> QED
        BY <1>0, <1>1, <2>1, Further DEF TimersTypeOK
<1>3. ListsKept' /\ WalkKnown'
    BY <1>0, <1>1, <1>2 DEF TimersInv, ListsKept, TimersTypeOK, ListsCompact, TickTaskMatches,
                            WalkKnown, TaskSlots
<1>4. ASSUME NEW i \in Slots, tmo_list'[i] # None PROVE InTime(i)'
    <2>1. tmo_list[i] \in Timeouts /\ InTime(i) /\ i \in 1..MaxTimeouts
        BY <1>0, <1>1, <1>4, LastIsNull DEF TimersInv, OnTime, TimersTypeOK
    <2> DEFINE t == tmo_list[i]
               d == (current_tick - expires[t]) % Wrap
    <2>2. Within(t, MaxTimeouts - i)
        BY <1>1, <2>1 DEF InTime, ToWalk
    <2>3. ToWalk(i)'
        <3>1. ~Empty(tmo_list)
            <4>1. PICK n : Shape(tmo_list, MaxTimeouts, Timeouts, n)
                BY Shapes DEF TimersInv, ListsKept
            <4> QED
                BY <1>0, <1>1, <1>4, <4>1 DEF Shape, Empty, Slots
        <3>2. PICK k \in TaskSlots : tick_funcs[k] = TimeoutTick
            BY <1>0, <3>1 DEF TimersInv, ListsKept, TickTaskMatches, Listed, TimersTypeOK
        <3> QED
            BY <1>0, <1>1, <3>2 DEF ToWalk, TaskSlots
    <2>4. d \in Ticks /\ (current_tick' - expires'[t]) % Wrap = IF d + 1 = Wrap THEN 0 ELSE d + 1
        BY <1>0, <1>1, <2>1, OneTickOn DEF TimersTypeOK
    <2>5. tmo_list'[i] = t
        BY <1>1
    <2>6. Within(t, MaxTimeouts - i + 1)'
        <3> DEFINE h == Wrap \div 2
        <3>1. h \in Nat /\ MaxTimeouts - i \in Nat /\ d \in Nat
            BY <1>0, <2>1, <2>4, Half DEF Ticks
        <3>2. d >= h \/ d < MaxTimeouts - i
            BY <2>2 DEF Within, Pending, Before
        <3>3. CASE (current_tick' - expires'[t]) % Wrap >= h
            BY <1>1, <3>3 DEF Within, Pending, Before
        <3>4. CASE ~((current_tick' - expires'[t]) % Wrap >= h)
            <4> DEFINE e == (current_tick' - expires'[t]) % Wrap
            <4>1. e < MaxTimeouts - i + 1
                <5> HIDE DEF d, e, h
                <5>1. e = IF d + 1 = Wrap THEN 0 ELSE d + 1
                    BY <2>4 DEF e
                <5>2. ~(e >= h)
                    BY <3>4 DEF e
                <5> QED
                    BY <3>1, <3>2, <5>1, <5>2
            <4> QED
                BY <1>1, <4>1 DEF Within
        <3> QED
            BY <3>3, <3>4
    <2> QED
        BY <2>3, <2>5, <2>6 DEF InTime
<1> QED
    BY <1>3, <1>4 DEF TimersInv, OnTime

\* What threads do to the tick tasks, between ticks.
LEMMA TasksKeep ==
    ASSUME TimersInv, NEW f \in Others, AddTask(f) \/ RemoveTask(f)
    PROVE  TimersInv'
<1>0. /\ TimersTypeOK /\ MaxTasks \in Nat /\ None \notin Tasks /\ f \in Tasks /\ f # TimeoutTick
      /\ TimeoutTick \in Tasks
    BY RoomAssumption, PointersAssumption DEF TimersInv, ListsKept, Tasks
<1>1. PICK m : Shape(tick_funcs, MaxTasks, Tasks, m)
    BY Shapes DEF TimersInv, ListsKept
<1>2. /\ \E l : Shape(tick_funcs', MaxTasks, Tasks, l)
      /\ Listed(tick_funcs', TimeoutTick) <=> Listed(tick_funcs, TimeoutTick)
    <2>1. CASE AddTask(f)
        <3> DEFINE q == Find(tick_funcs, f)
        <3>1. q <= MaxTasks
            BY <1>0, <1>1, Room
        <3>2. /\ q \in 1..MaxTasks /\ tick_funcs[q] \in {f, None}
              /\ \E l : Shape([tick_funcs EXCEPT ![q] = f], MaxTasks, Tasks, l)
            BY <1>0, <1>1, <3>1, Puts
        <3>3. tick_funcs' = [tick_funcs EXCEPT ![q] = f]
            BY <2>1 DEF AddTask
        <3> HIDE DEF q
        <3>4. Listed(tick_funcs', TimeoutTick) <=> Listed(tick_funcs, TimeoutTick)
            BY <1>0, <1>1, <3>2, <3>3 DEF Listed, Shape
        <3> QED
            BY <3>2, <3>3, <3>4
    <2>2. CASE RemoveTask(f)
        <3>1. tick_funcs' = Removed(tick_funcs, f)
            BY <2>2 DEF RemoveTask
        <3>2. CASE \A i \in 1..(MaxTasks + 1) : tick_funcs[i] # f
            <4>1. tick_funcs' = tick_funcs
                BY <1>0, <1>1, <3>1, <3>2, RemovesNothing
            <4> QED
                BY <1>1, <4>1
        <3>3. CASE \E i \in 1..(MaxTasks + 1) : tick_funcs[i] = f
            <4>1. PICK j \in 1..(MaxTasks + 1) : tick_funcs[j] = f
                BY <3>3
            <4>2. /\ m > 1 /\ j < m /\ Shape(tick_funcs', MaxTasks, Tasks, m - 1)
                  /\ \A i \in 1..(MaxTasks + 1) :
                         tick_funcs'[i] = IF j <= i /\ i < m THEN tick_funcs[i + 1] ELSE tick_funcs[i]
                BY <1>0, <1>1, <3>1, <4>1, Removes
            <4>3. m \in 1..(MaxTasks + 1) /\ DOMAIN tick_funcs = 1..(MaxTasks + 1)
                  /\ DOMAIN tick_funcs' = 1..(MaxTasks + 1)
                BY <1>1, <4>2 DEF Shape
            <4>4. ASSUME NEW i \in 1..(MaxTasks + 1), tick_funcs'[i] = TimeoutTick
                  PROVE  Listed(tick_funcs, TimeoutTick)
                BY <1>0, <4>2, <4>3, <4>4 DEF Listed
            <4>5. ASSUME NEW i \in 1..(MaxTasks + 1), tick_funcs[i] = TimeoutTick
                  PROVE  Listed(tick_funcs', TimeoutTick)
                <5>1. i # j /\ i < m
                    BY <1>0, <1>1, <4>1, <4>5 DEF Shape
                <5>2. CASE i < j
                    BY <4>2, <4>3, <4>5, <5>2 DEF Listed
                <5>3. CASE i > j
                    <6>1. i - 1 \in 1..(MaxTasks + 1) /\ j <= i - 1 /\ i - 1 < m /\ (i - 1) + 1 = i
                        BY <1>0, <4>3, <5>1, <5>3
                    <6>2. tick_funcs'[i - 1] = TimeoutTick
                        BY <4>2, <4>5, <6>1
                    <6> QED
                        BY <4>3, <6>1, <6>2 DEF Listed
                <5> QED
                    BY <5>1, <5>2, <5>3
            <4> QED
                BY <4>2, <4>3, <4>4, <4>5 DEF Listed
        <3> QED
            BY <3>2, <3>3
    <2> QED
        BY <2>1, <2>2
<1>3. taskAt = 0 /\ UNCHANGED <<current_tick, tmo_list, expires, taskAt, fn, at, callback>>
    BY DEF AddTask, RemoveTask, walkVars
<1>4. tick_funcs' \in [TaskSlots -> Tasks \cup {None}] /\ CompactList(tick_funcs')
    BY <1>0, <1>2, ShapeCompact DEF TaskSlots
<1>5. ListsKept' /\ WalkKnown'
    BY <1>0, <1>2, <1>3, <1>4 DEF TimersInv, ListsKept, TimersTypeOK, ListsCompact, TickTaskMatches,
                                  WalkKnown
<1>6. ASSUME NEW i \in Slots, tmo_list'[i] # None PROVE InTime(i)'
    <2>1. Within(tmo_list[i], MaxTimeouts - i)
        BY <1>0, <1>3, <1>6 DEF TimersInv, OnTime, InTime, ToWalk
    <2> QED
        BY <1>3, <2>1 DEF InTime, Within, Pending
<1> QED
    BY <1>5, <1>6 DEF TimersInv, OnTime

\* It holds at first, and each step keeps it.
LEMMA TimersInvKept == (TimersInit => TimersInv) /\ (TimersInv /\ [TimersNext]_timersVars => TimersInv')
<1>1. ASSUME TimersInit PROVE TimersInv
    <2>1. MaxTasks \in Nat /\ MaxTimeouts \in Nat /\ Wrap \in Nat \ {0} /\ TimeoutTick # None /\ None \notin Tasks
        BY RoomAssumption, SlotsAssumption, Half, PointersAssumption DEF Tasks
    <2>2. TimersTypeOK /\ WalkKnown
        BY <1>1, <2>1 DEF TimersInit, TimersTypeOK, WalkKnown, Slots, TaskSlots, Ticks, Tasks
    <2>3. ListsCompact /\ TickTaskMatches /\ \A i \in Slots : tmo_list[i] = None
        BY <1>1, <2>1 DEF TimersInit, ListsCompact, TickTaskMatches, CompactList, Listed, Empty, Slots, TaskSlots
    <2> QED
        BY <2>2, <2>3 DEF TimersInv, ListsKept, OnTime
<1>2. ASSUME TimersInv, [TimersNext]_timersVars PROVE TimersInv'
    <2>1. CASE CallRegister
        BY <1>2, <2>1, RegisterKeeps DEF CallRegister
    <2>2. CASE CallCancel
        BY <1>2, <2>2, CancelKeeps DEF CallCancel
    <2>3. CASE \E f \in Others : AddTask(f) \/ RemoveTask(f)
        BY <1>2, <2>3, TasksKeep
    <2>4. CASE Tick
        BY <1>2, <2>4, TickKeeps
    <2>5. CASE CallTask \/ TaskReturns \/ TickEnds \/ PassPending \/ CallExpired
        BY <1>2, <2>5, WalkKeeps
    <2>6. CASE Stop
        BY <1>2, <2>6, StopKeeps
    <2>7. CASE \E ticks \in 1..MaxDelay : Reload(ticks)
        BY <1>2, <2>7, ReloadKeeps
    <2>8. CASE UNCHANGED timersVars
        BY <1>2, <2>8 DEF timersVars, walkVars, TimersInv, ListsKept, TimersTypeOK, ListsCompact, TickTaskMatches,
                          WalkKnown, OnTime, InTime, Within, Pending, ToWalk
    <2> QED
        BY <1>2, <2>1, <2>2, <2>3, <2>4, <2>5, <2>6, <2>7, <2>8 DEF TimersNext
<1> QED
    BY <1>1, <1>2

(***************************************************************************)
(* Whatever callbacks and tick tasks set and cancel in the middle of a     *)
(* tick, the lists that the tick interrupt walks are without gaps and      *)
(* duplicates and end in null, and timeout_tick is among the tick tasks    *)
(* exactly while timeouts are set; for any numbers of them and slots.      *)
(***************************************************************************)
THEOREM TimerListsKept == TimersSpec => []ListsKept
<1>1. TimersInv => ListsKept
    BY DEF TimersInv
<1> QED
    BY <1>1, TimersInvKept, PTL DEF TimersSpec

(***************************************************************************)
(* A timeout in slot i is late by less than MaxTimeouts - i ticks, although*)
(* timeout_tick passes over what moves up into the slot it has left, and   *)
(* across the wrap of current_tick.                                        *)
(***************************************************************************)
THEOREM NeverTooLate == TimersSpec => []LatenessBounded
<1>1. TimersInv => LatenessBounded
    BY DEF TimersInv, OnTime, InTime, ToWalk, Within, LatenessBounded
<1> QED
    BY <1>1, TimersInvKept, PTL DEF TimersSpec
=============================================================================
