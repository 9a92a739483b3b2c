--------------------------- MODULE MrswLockProofs ---------------------------
(***************************************************************************)
(* Proofs about MrswLock, for any threads and any depth of recursion: a    *)
(* writer excludes everybody, the one signed count is exact over every     *)
(* hand-over, and behind readers a writer is first in line.                *)
(***************************************************************************)
EXTENDS MrswLock, ThreadsProofs

LockTypeOK ==
    /\ writer \in Threads \cup {NoThread}
    /\ count \in Int
    /\ retval \in [Threads -> {0, 1}]
    /\ pc \in [Threads -> {"out", "wait"}]
    /\ reads \subseteq Threads \X Depths
    /\ writes \in [Threads -> 0..MaxDepth]

\* Queued threads are inside an acquire, where nobody holds write access, and
\* one that asks for it holds nothing.
Waiting == \A t \in Threads :
    /\ Queued(t) => pc[t] = "wait"
    /\ pc[t] = "wait" => writes[t] = 0
    /\ pc[t] = "wait" /\ retval[t] = 0 => ~Reads(t)

\* blocker.thread is the thread with write access, or the one that has been
\* given it and has not run since.
WriterKnown == \A t \in Threads : writer = t <=> writes[t] > 0 \/ t \in LetIn(0)

\* While there is a writer nobody else reads or has been let in to read.
Alone == writer # NoThread => LetIn(1) = {} /\ \A t \in Threads : Reads(t) => t = writer

LockOK == Waiting /\ WriterKnown /\ Alone /\ CountAccurate /\ WriterWaitsFirst
Inv == ThreadsOK /\ Apart /\ LockTypeOK /\ LockOK

-----------------------------------------------------------------------------
\* The sets that are counted are finite.
LEMMA Finite ==
    ASSUME LockTypeOK
    PROVE  /\ IsFiniteSet(reads) /\ Cardinality(reads) \in Nat
           /\ \A k \in {0, 1} : IsFiniteSet(LetIn(k)) /\ Cardinality(LetIn(k)) \in Nat
<1>1. IsFiniteSet(Depths)
    BY DepthAssumption, FS_Interval DEF Depths
<1>2. IsFiniteSet(Threads \X Depths)
    BY <1>1, ThreadsAssumption, FS_Product
<1>3. IsFiniteSet(reads)
    BY <1>2, FS_Subset DEF LockTypeOK
<1>4. \A k \in {0, 1} : IsFiniteSet(LetIn(k))
    BY ThreadsAssumption, FS_Subset DEF LetIn
<1> QED
    BY <1>3, <1>4, FS_CardinalityType

\* One read access more.
LEMMA DeeperFacts ==
    ASSUME LockTypeOK, NEW t \in Threads, Deeper(t)
    PROVE  /\ reads' \subseteq Threads \X Depths
           /\ Cardinality(reads') = Cardinality(reads) + 1
           /\ \A u \in Threads \ {t} : Reads(u)' <=> Reads(u)
<1>1. PICK d \in Depths : reads' = reads \cup {<<t, d>>} /\ (<<t, d>> \in reads <=> d < d)
    BY DEF Deeper
<1>2. <<t, d>> \notin reads
    BY <1>1, DepthAssumption DEF Depths
<1>3. Cardinality(reads') = Cardinality(reads) + 1
    BY <1>1, <1>2, Finite, FS_AddElement
<1>4. reads' \subseteq Threads \X Depths
    BY <1>1 DEF LockTypeOK
<1>5. ASSUME NEW u \in Threads \ {t}, NEW e \in Depths
      PROVE  <<u, e>> \in reads' <=> <<u, e>> \in reads
    BY <1>1
<1> QED
    BY <1>3, <1>4, <1>5 DEF Reads

\* One read access less.
LEMMA ShallowerFacts ==
    ASSUME LockTypeOK, NEW t \in Threads, Shallower(t)
    PROVE  /\ reads' \subseteq Threads \X Depths
           /\ Cardinality(reads') = Cardinality(reads) - 1
           /\ Reads(t)
           /\ \A u \in Threads : Reads(u)' => Reads(u)
           /\ Cardinality(reads) = 1 => reads' = {}
           /\ Cardinality(reads) > 0
<1>1. PICK d \in Depths : reads' = reads \ {<<t, d>>} /\ (<<t, d>> \in reads <=> d <= d)
    BY DEF Shallower
<1>2. <<t, d>> \in reads
    BY <1>1, DepthAssumption DEF Depths
<1>3. Cardinality(reads') = Cardinality(reads) - 1 /\ IsFiniteSet(reads')
    BY <1>1, <1>2, Finite, FS_RemoveElement
<1>4. Cardinality(reads) = 1 => reads' = {}
    BY <1>3, FS_EmptySet
<1>5. Cardinality(reads) > 0
    BY <1>2, Finite, FS_EmptySet
<1> QED
    BY <1>1, <1>2, <1>3, <1>4, <1>5 DEF LockTypeOK, Reads

\* No access is held or granted where the count of both is zero.
LEMMA NobodyReads ==
    ASSUME LockTypeOK, Cardinality(reads) + Cardinality(LetIn(1)) = 0
    PROVE  reads = {} /\ LetIn(1) = {}
BY Finite, FS_EmptySet

\* What the writer tells of the count and of everybody else.
LEMMA WriterFacts ==
    ASSUME Inv
    PROVE  /\ count < 0 <=> writer # NoThread
           /\ writer = NoThread => LetIn(0) = {} /\ \A t \in Threads : writes[t] = 0
           /\ \A t \in Threads : writes[t] > 0 \/ t \in LetIn(0) => writer = t
           /\ \A t \in Threads : writes[t] > 0 => count = -writes[t] /\ pc[t] = "out"
           /\ count >= 0 => count = Cardinality(reads) + Cardinality(LetIn(1))
<1>1. writer = NoThread => LetIn(0) = {} /\ \A t \in Threads : writes[t] = 0
    BY NoThreadAssumption, DepthAssumption DEF Inv, LockOK, LockTypeOK, WriterKnown, LetIn
<1>2. writer = NoThread => count \in Nat /\ count = Cardinality(reads) + Cardinality(LetIn(1))
    BY Finite DEF Inv, LockOK, CountAccurate
<1>3. ASSUME writer # NoThread PROVE count < 0
    <2>1. writer \in Threads
        BY <1>3 DEF Inv, LockTypeOK
    <2>2. writes[writer] > 0 \/ writer \in LetIn(0)
        BY <2>1 DEF Inv, LockOK, WriterKnown
    <2> QED
        BY <1>3, <2>1, <2>2, DepthAssumption DEF Inv, LockOK, LockTypeOK, CountAccurate
<1>4. \A t \in Threads : writes[t] > 0 \/ t \in LetIn(0) => writer = t
    BY DEF Inv, LockOK, WriterKnown
<1>5. ASSUME NEW t \in Threads, writes[t] > 0
      PROVE  count = -writes[t] /\ pc[t] = "out"
    <2>1. pc[t] = "out" /\ writer = t /\ t # NoThread
        BY <1>4, <1>5, NoThreadAssumption DEF Inv, LockOK, LockTypeOK, Waiting
    <2>2. t \notin LetIn(0)
        BY <2>1 DEF LetIn
    <2> QED
        BY <2>1, <2>2, DepthAssumption DEF Inv, LockOK, LockTypeOK, CountAccurate
<1> QED
    BY <1>1, <1>2, <1>3, <1>4, <1>5 DEF Inv, LockTypeOK

-----------------------------------------------------------------------------
\* The initial states satisfy the invariant.
LEMMA InitInv == Init => Inv
<1> SUFFICES ASSUME Init PROVE Inv
    OBVIOUS
<1>1. ThreadsOK /\ Range(wq) = {} /\ wq = <<>> /\ Apart
    BY InitKeeps, InitApart DEF Init, ThreadsInit
<1>2. LockTypeOK
    BY DepthAssumption DEF Init, LockTypeOK
<1>3. reads = {} /\ LetIn(0) = {} /\ LetIn(1) = {} /\ \A t \in Threads : ~Reads(t)
    BY DEF Init, LetIn, Reads
<1> QED
    BY <1>1, <1>2, <1>3, NoThreadAssumption, FS_EmptySet DEF Init, Inv, LockOK, Waiting, WriterKnown,
        Alone, CountAccurate, WriterWaitsFirst, Queued

\* A step that leaves the threads alone leaves the queue and those let in alone,
\* but for a thread that returns from its wait.
LEMMA Quiet ==
    ASSUME Inv, UNCHANGED threadVars
    PROVE  /\ ThreadsOK' /\ Apart' /\ wq' = wq
           /\ \A u \in Threads : Queued(u)' <=> Queued(u)
           /\ UNCHANGED <<pc, retval>> => \A k \in {0, 1} : LetIn(k)' = LetIn(k)
BY DEF threadVars, core, Inv, ThreadsOK, ThreadsTypeOK, WqDistinct, Queued, Apart, RtrDistinct, LetIn

\* The writer reads, or stops reading, inside its own write.
LEMMA PassInv ==
    ASSUME Inv, NEW t \in Threads, ReadPass(t) \/ ReadReleasePass(t)
    PROVE  Inv'
<1>1. /\ UNCHANGED <<threadVars, writer, count, retval, pc, writes>>
      /\ writer = t /\ writer # NoThread /\ pc[t] = "out"
    BY NoThreadAssumption DEF ReadPass, ReadReleasePass, Calls
<1>2. /\ ThreadsOK' /\ Apart' /\ wq' = wq
      /\ \A u \in Threads : Queued(u)' <=> Queued(u)
      /\ \A k \in {0, 1} : LetIn(k)' = LetIn(k)
    BY <1>1, Quiet
<1>3. reads' \subseteq Threads \X Depths /\ \A u \in Threads \ {t} : Reads(u)' => Reads(u)
    BY DeeperFacts, ShallowerFacts DEF Inv, ReadPass, ReadReleasePass
<1>4. LockTypeOK'
    BY <1>1, <1>3 DEF Inv, LockTypeOK
<1>5. Waiting' /\ WriterKnown' /\ Alone'
    BY <1>1, <1>2, <1>3 DEF Inv, LockOK, Waiting, WriterKnown, Alone
<1>6. CountAccurate' /\ WriterWaitsFirst'
    BY <1>1, <1>2 DEF Inv, LockOK, CountAccurate, WriterWaitsFirst
<1> QED
    BY <1>2, <1>4, <1>5, <1>6 DEF Inv, LockOK

\* A reader finds no writer and nobody waiting.
LEMMA ReadOpenInv ==
    ASSUME Inv, NEW t \in Threads, ReadOpen(t)
    PROVE  Inv'
<1>1. /\ UNCHANGED <<threadVars, writer, retval, pc, writes>>
      /\ count' = count + 1 /\ count >= 0 /\ wq = <<>> /\ pc[t] = "out"
    BY DEF ReadOpen, ReadCall, Calls, OpenToReaders
<1>2. /\ ThreadsOK' /\ Apart' /\ wq' = wq
      /\ \A u \in Threads : Queued(u)' <=> Queued(u)
      /\ \A k \in {0, 1} : LetIn(k)' = LetIn(k)
    BY <1>1, Quiet
<1>3. /\ reads' \subseteq Threads \X Depths
      /\ Cardinality(reads') = Cardinality(reads) + 1
      /\ \A u \in Threads \ {t} : Reads(u)' <=> Reads(u)
    BY DeeperFacts DEF Inv, ReadOpen
<1>4. writer = NoThread /\ count = Cardinality(reads) + Cardinality(LetIn(1))
    BY <1>1, WriterFacts DEF Inv, LockTypeOK
<1>5. LockTypeOK'
    BY <1>1, <1>3 DEF Inv, LockTypeOK
<1>6. Waiting' /\ WriterKnown' /\ Alone' /\ WriterWaitsFirst'
    BY <1>1, <1>2, <1>3, <1>4 DEF Inv, LockOK, Waiting, WriterKnown, Alone, WriterWaitsFirst
<1>7. CountAccurate'
    <2>1. Cardinality(LetIn(1))' = Cardinality(LetIn(1))
        BY <1>2
    <2> QED
        BY <1>1, <1>3, <1>4, <2>1, Finite DEF Inv, CountAccurate
<1> QED
    BY <1>2, <1>5, <1>6, <1>7 DEF Inv, LockOK

\* A thread that has to wait joins the queue and leaves the processor.
LEMMA BlockInv ==
    ASSUME Inv, NEW t \in Threads, ReadBlock(t) \/ WriteBlock(t)
    PROVE  Inv'
<1>1. PICK multi \in {0, 1} : /\ Wait(t, multi) /\ Calls(t) /\ writer # t
                              /\ multi = 0 => ~Reads(t)
                              /\ multi = 1 /\ count > 0 => wq # <<>>
    BY DEF ReadBlock, WriteBlock, ReadCall, WriteCall, OpenToReaders, Inv, LockTypeOK
<1>2. Runs(t) /\ pc[t] = "out" /\ BlockThread(t, "blocked") /\ "blocked" \in States
    BY <1>1 DEF Wait, Calls, States
<1>3. ~Queued(t)
    BY <1>2, RunnerNotQueued DEF Inv
<1>4. ThreadsOK' /\ Apart' /\ Range(wq') = Range(wq) \cup {t} /\ wq' # <<>>
    BY <1>2, <1>3, BlockKeeps, BlockApart DEF Inv
<1>5. /\ UNCHANGED <<writer, count, reads, writes>>
      /\ retval' = [retval EXCEPT ![t] = multi]
      /\ pc' = [pc EXCEPT ![t] = "wait"]
    BY <1>1 DEF Wait
<1>6. /\ LockTypeOK'
      /\ retval'[t] = multi /\ pc'[t] = "wait"
      /\ \A u \in Threads \ {t} : retval'[u] = retval[u] /\ pc'[u] = pc[u]
    BY <1>5 DEF Inv, LockTypeOK
<1>7. Queued(t)' /\ \A u \in Threads \ {t} : Queued(u)' <=> Queued(u)
    BY <1>4 DEF Queued
<1>8. \A k \in {0, 1} : LetIn(k)' = LetIn(k)
    BY <1>2, <1>6, <1>7 DEF LetIn
<1>9. writes[t] = 0 /\ \A u \in Threads : Reads(u)' <=> Reads(u)
    BY <1>1, <1>5, WriterFacts, DepthAssumption DEF Inv, LockTypeOK, Reads
<1>10. Waiting' /\ WriterKnown' /\ Alone'
    BY <1>1, <1>5, <1>6, <1>7, <1>8, <1>9 DEF Inv, LockOK, Waiting, WriterKnown, Alone
<1>11. CountAccurate'
    BY <1>5, <1>8 DEF Inv, LockOK, CountAccurate
<1>12. WriterWaitsFirst'
    <2> SUFFICES ASSUME count > 0 PROVE retval'[Head(wq')] = 0
        BY <1>5 DEF WriterWaitsFirst
    <2>1. wq \in Seq(Threads) /\ wq' = Append(wq, t)
        BY <1>2 DEF BlockThread, Inv, ThreadsOK, ThreadsTypeOK
    <2>2. CASE wq = <<>>
        BY <1>1, <1>6, <2>1, <2>2
    <2>3. CASE wq # <<>>
        <3>1. Head(wq') = Head(wq)
            BY <2>1, <2>3
        <3>2. Head(wq) \in Threads \ {t} /\ retval[Head(wq)] = 0
            BY <1>3, <2>1, <2>3, TailFacts DEF Queued, Inv, ThreadsOK, WqDistinct, LockOK, WriterWaitsFirst
        <3> QED
            BY <1>6, <3>1, <3>2
    <2> QED
        BY <2>2, <2>3
<1> QED
    BY <1>4, <1>6, <1>10, <1>11, <1>12 DEF Inv, LockOK

\* A thread that was let in returns from its acquire.
LEMMA AcquiredInv ==
    ASSUME Inv, NEW t \in Threads, Acquired(t)
    PROVE  Inv'
<1>1. /\ Runs(t) /\ pc[t] = "wait" /\ pc' = [pc EXCEPT ![t] = "out"]
      /\ UNCHANGED <<threadVars, writer, count, retval>>
    BY DEF Acquired
<1>2. /\ ThreadsOK' /\ Apart' /\ wq' = wq
      /\ \A u \in Threads : Queued(u)' <=> Queued(u)
    BY <1>1, Quiet
<1>3. ~Queued(t) /\ writes[t] = 0
    BY <1>1, RunnerNotQueued DEF Inv, LockOK, Waiting
<1>4. \A u \in Threads : pc'[u] = IF u = t THEN "out" ELSE pc[u]
    BY <1>1 DEF Inv, LockTypeOK
<1>5. \A k \in {0, 1} : LetIn(k)' = LetIn(k) \ {t} /\ (t \in LetIn(k) <=> retval[t] = k)
    BY <1>1, <1>2, <1>3, <1>4 DEF LetIn
<1>6. CASE retval[t] = 1
    <2>1. Deeper(t) /\ writes' = writes
        BY <1>6 DEF Acquired
    <2>2. t \in LetIn(1) /\ t \notin LetIn(0) /\ LetIn(0)' = LetIn(0) /\ LetIn(1)' = LetIn(1) \ {t}
        BY <1>5, <1>6
    <2>3. /\ reads' \subseteq Threads \X Depths
          /\ Cardinality(reads') = Cardinality(reads) + 1
          /\ \A u \in Threads \ {t} : Reads(u)' <=> Reads(u)
        BY <2>1, DeeperFacts DEF Inv
    <2>4. writer = NoThread
        BY <2>2 DEF Inv, LockOK, Alone
    <2>5. Cardinality(LetIn(1)') = Cardinality(LetIn(1)) - 1
        BY <2>2, Finite, FS_RemoveElement DEF Inv
    <2>6. LockTypeOK'
        BY <1>1, <2>1, <2>3 DEF Inv, LockTypeOK
    <2>7. Waiting'
        BY <1>1, <1>2, <1>3, <1>4, <2>1, <2>3 DEF Inv, LockOK, Waiting
    <2>9. WriterKnown'
        BY <1>1, <2>1, <2>2 DEF Inv, LockOK, WriterKnown
    <2>10. Alone'
        BY <1>1, <2>4 DEF Alone
    <2>11. WriterWaitsFirst'
        BY <1>1, <1>2 DEF Inv, LockOK, WriterWaitsFirst
    <2>8. CountAccurate'
        BY <1>1, <2>3, <2>4, <2>5, Finite DEF Inv, LockOK, CountAccurate
    <2> QED
        BY <1>2, <2>6, <2>7, <2>8, <2>9, <2>10, <2>11 DEF Inv, LockOK
<1>7. CASE retval[t] = 0
    <2>1. writes' = [writes EXCEPT ![t] = @ + 1] /\ reads' = reads
        BY <1>7 DEF Acquired
    <2>2. t \in LetIn(0) /\ t \notin LetIn(1) /\ LetIn(0)' = LetIn(0) \ {t} /\ LetIn(1)' = LetIn(1)
        BY <1>5, <1>7
    <2>3. writer = t /\ t # NoThread /\ count = -1
        BY <2>2, NoThreadAssumption DEF Inv, LockOK, LockTypeOK, WriterKnown, CountAccurate
    <2>4. writes' \in [Threads -> 0..MaxDepth] /\ \A u \in Threads : writes'[u] = IF u = t THEN 1 ELSE writes[u]
        BY <1>3, <2>1, DepthAssumption DEF Inv, LockTypeOK
    <2>5. \A u \in Threads : Reads(u)' <=> Reads(u)
        BY <2>1 DEF Reads
    <2>6. LockTypeOK'
        BY <1>1, <2>1, <2>4 DEF Inv, LockTypeOK
    <2>7. Waiting'
        BY <1>1, <1>2, <1>3, <1>4, <2>4, <2>5 DEF Inv, LockOK, Waiting
    <2>9. WriterKnown'
        BY <1>1, <2>2, <2>3, <2>4 DEF Inv, LockOK, WriterKnown
    <2>10. Alone'
        BY <1>1, <2>2, <2>5 DEF Inv, LockOK, Alone
    <2>11. WriterWaitsFirst'
        BY <1>1, <1>2 DEF Inv, LockOK, WriterWaitsFirst
    <2>8. CountAccurate'
        BY <1>1, <2>2, <2>3, <2>4 DEF CountAccurate
    <2> QED
        BY <1>2, <2>6, <2>7, <2>8, <2>9, <2>10, <2>11 DEF Inv, LockOK
<1> QED
    BY <1>6, <1>7 DEF Acquired

\* A reader leaves, and others stay or nobody waits.
LEMMA ReadReleaseInv ==
    ASSUME Inv, NEW t \in Threads, ReadRelease(t)
    PROVE  Inv'
<1>1. /\ UNCHANGED <<threadVars, writer, retval, pc, writes>>
      /\ writer # t /\ Shallower(t) /\ count' = count - 1
    BY DEF ReadRelease
<1>2. /\ ThreadsOK' /\ Apart' /\ wq' = wq
      /\ \A u \in Threads : Queued(u)' <=> Queued(u)
      /\ \A k \in {0, 1} : LetIn(k)' = LetIn(k)
    BY <1>1, Quiet
<1>3. /\ reads' \subseteq Threads \X Depths
      /\ Cardinality(reads') = Cardinality(reads) - 1
      /\ Reads(t) /\ \A u \in Threads : Reads(u)' => Reads(u)
    BY <1>1, ShallowerFacts DEF Inv
<1>4. writer = NoThread
    BY <1>1, <1>3 DEF Inv, LockOK, Alone
<1>5. LockTypeOK'
    BY <1>1, <1>3 DEF Inv, LockTypeOK
<1>6. Waiting' /\ WriterKnown' /\ Alone' /\ WriterWaitsFirst'
    BY <1>1, <1>2, <1>3, <1>4 DEF Inv, LockOK, LockTypeOK, Waiting, WriterKnown, Alone, WriterWaitsFirst
<1>7. CountAccurate'
    <2>1. Cardinality(LetIn(1))' = Cardinality(LetIn(1))
        BY <1>2
    <2> QED
        BY <1>1, <1>3, <1>4, <2>1, Finite DEF Inv, LockOK, CountAccurate
<1> QED
    BY <1>2, <1>5, <1>6, <1>7 DEF Inv, LockOK

\* Waking the first waiter lets it in, as what it asked to be.
LEMMA FirstLetIn ==
    ASSUME Inv, WakeupFirst, UNCHANGED <<pc, retval>>
    PROVE  /\ ThreadsOK' /\ Apart'
           /\ Head(wq) \in Threads /\ Head(wq) \notin LetIn(0) /\ Head(wq) \notin LetIn(1)
           /\ pc[Head(wq)] = "wait" /\ writes[Head(wq)] = 0
           /\ \A u \in Threads : Queued(u)' <=> Queued(u) /\ u # Head(wq)
           /\ \A k \in {0, 1} :
                LetIn(k)' = IF retval[Head(wq)] = k THEN LetIn(k) \cup {Head(wq)} ELSE LetIn(k)
<1>1. /\ ThreadsOK' /\ Head(wq) \in Threads /\ Queued(Head(wq))
      /\ Range(wq') = Range(wq) \ {Head(wq)}
    BY WakeupKeeps DEF Inv
<1>2. Apart'
    BY WakeupApart DEF Inv
<1>3. pc[Head(wq)] = "wait" /\ writes[Head(wq)] = 0
    BY <1>1 DEF Inv, LockOK, Waiting
<1>4. \A u \in Threads : Queued(u)' <=> Queued(u) /\ u # Head(wq)
    BY <1>1 DEF Queued
<1> QED
    BY <1>1, <1>2, <1>3, <1>4 DEF LetIn

\* The last reader hands over to a writer: it waits first.
LEMMA ReadReleaseLastInv ==
    ASSUME Inv, NEW t \in Threads, ReadReleaseLast(t)
    PROVE  Inv'
<1> DEFINE w == Head(wq)
<1>1. /\ WakeupFirst /\ UNCHANGED <<retval, pc, writes>>
      /\ writer # t /\ Shallower(t) /\ count = 1 /\ count' = -1 /\ writer' = w /\ wq # <<>>
    BY DEF ReadReleaseLast
<1>2. /\ ThreadsOK' /\ Apart' /\ w \in Threads
      /\ pc[w] = "wait" /\ writes[w] = 0
      /\ \A u \in Threads : Queued(u)' <=> Queued(u) /\ u # w
      /\ \A k \in {0, 1} : LetIn(k)' = IF retval[w] = k THEN LetIn(k) \cup {w} ELSE LetIn(k)
    BY <1>1, FirstLetIn
<1>3. retval[w] = 0
    BY <1>1 DEF Inv, LockOK, WriterWaitsFirst
<1> HIDE DEF w
<1>4. /\ writer = NoThread /\ LetIn(0) = {} /\ \A u \in Threads : writes[u] = 0
      /\ 1 = Cardinality(reads) + Cardinality(LetIn(1))
    BY <1>1, WriterFacts DEF Inv, LockTypeOK
<1>5. Cardinality(reads) = 1 /\ Cardinality(LetIn(1)) = 0
    BY <1>1, <1>4, ShallowerFacts, Finite DEF Inv
<1>6. reads' = {} /\ LetIn(1) = {}
    BY <1>1, <1>5, ShallowerFacts, Finite, FS_EmptySet DEF Inv
<1>7. LetIn(0)' = {w} /\ LetIn(1)' = {}
    BY <1>2, <1>3, <1>4, <1>6
<1>8. LockTypeOK'
    BY <1>1, <1>2, <1>6 DEF Inv, LockTypeOK
<1>9. \A u \in Threads : ~Reads(u)'
    BY <1>6 DEF Reads
<1>10. Waiting' /\ WriterKnown' /\ Alone' /\ WriterWaitsFirst'
    BY <1>1, <1>2, <1>4, <1>7, <1>9
    DEF Inv, LockOK, Waiting, WriterKnown, Alone, WriterWaitsFirst
<1>11. CountAccurate'
    <2>1. writer' # NoThread
        BY <1>1, <1>2, NoThreadAssumption
    <2>2. (writer \in LetIn(0))'
        BY <1>1, <1>7
    <2>3. -count' = 1
        <3>1. \A n \in Int : n + 1 = 0 => -n = 1
            OBVIOUS
        <3>2. count' \in Int /\ count' + 1 = 0
            BY <1>1
        <3> QED
            BY <3>1, <3>2
    <2> QED
        BY <2>1, <2>2, <2>3 DEF CountAccurate
<1> QED
    BY <1>2, <1>8, <1>10, <1>11 DEF Inv, LockOK

\* The writer goes one level deeper, or comes back one that is not the last.
LEMMA WriteDepthInv ==
    ASSUME Inv, NEW t \in Threads, WriteAgain(t) \/ WriteReleaseRecursive(t)
    PROVE  Inv'
<1>1. /\ UNCHANGED <<threadVars, writer, retval, pc, reads>>
      /\ pc[t] = "out"
    BY DEF WriteAgain, WriteReleaseRecursive, WriteLeave, WriteCall, Calls
<1>2. /\ ThreadsOK' /\ Apart' /\ wq' = wq
      /\ \A u \in Threads : Queued(u)' <=> Queued(u)
      /\ \A k \in {0, 1} : LetIn(k)' = LetIn(k)
    BY <1>1, Quiet
<1>3. t \notin LetIn(0) /\ (writer = t \/ writes[t] > 0)
    BY <1>1 DEF LetIn, WriteAgain, WriteReleaseRecursive, WriteLeave
<1>4. writer = t /\ t # NoThread /\ writes[t] > 0 /\ count = -writes[t] /\ writes[t] \in 0..MaxDepth
    BY <1>3, WriterFacts, NoThreadAssumption DEF Inv, LockOK, LockTypeOK, WriterKnown
<1>5. /\ writes'[t] \in 1..MaxDepth /\ count' = -writes'[t] /\ count' \in Int
      /\ writes' \in [Threads -> 0..MaxDepth]
      /\ \A u \in Threads \ {t} : writes'[u] = writes[u]
    <2>1. CASE WriteAgain(t)
        BY <1>4, <2>1, DepthAssumption DEF WriteAgain, Inv, LockTypeOK
    <2>2. CASE WriteReleaseRecursive(t)
        BY <1>4, <2>2, DepthAssumption DEF WriteReleaseRecursive, WriteLeave, Inv, LockTypeOK
    <2> QED
        BY <2>1, <2>2
<1>6. LockTypeOK'
    BY <1>1, <1>5 DEF Inv, LockTypeOK
<1>7. Waiting'
    BY <1>1, <1>2, <1>5 DEF Inv, LockOK, Waiting, Reads
<1>8. WriterKnown'
    BY <1>1, <1>2, <1>4, <1>5 DEF Inv, LockOK, WriterKnown
<1>9. Alone'
    BY <1>1, <1>2 DEF Inv, LockOK, Alone, Reads
<1>10. CountAccurate'
    <2>1. (writer = t /\ writer # NoThread /\ writer \notin LetIn(0))'
        BY <1>1, <1>2, <1>3, <1>4
    <2>2. -count' = writes'[t]
        BY <1>5
    <2> QED
        BY <2>1, <2>2 DEF CountAccurate
<1>11. WriterWaitsFirst'
    BY <1>4, <1>5 DEF WriterWaitsFirst
<1> QED
    BY <1>2, <1>6, <1>7, <1>8, <1>9, <1>10, <1>11 DEF Inv, LockOK

\* A writer finds the lock free, whoever may be in the queue.
LEMMA WriteOpenInv ==
    ASSUME Inv, NEW t \in Threads, WriteOpen(t)
    PROVE  Inv'
<1>1. /\ UNCHANGED <<threadVars, retval, pc, reads>>
      /\ count = 0 /\ count' = -1 /\ writer' = t /\ t # NoThread /\ pc[t] = "out"
      /\ writes' = [writes EXCEPT ![t] = @ + 1]
    BY NoThreadAssumption DEF WriteOpen, WriteCall, Calls
<1>2. /\ ThreadsOK' /\ Apart' /\ wq' = wq
      /\ \A u \in Threads : Queued(u)' <=> Queued(u)
      /\ \A k \in {0, 1} : LetIn(k)' = LetIn(k)
    BY <1>1, Quiet
<1>3. /\ writer = NoThread /\ LetIn(0) = {} /\ \A u \in Threads : writes[u] = 0
      /\ reads = {} /\ LetIn(1) = {}
    BY <1>1, WriterFacts, NobodyReads DEF Inv, LockTypeOK
<1>4. /\ writes' \in [Threads -> 0..MaxDepth]
      /\ \A u \in Threads : writes'[u] = IF u = t THEN 1 ELSE 0
    BY <1>1, <1>3, DepthAssumption DEF Inv, LockTypeOK
<1>5. LockTypeOK'
    BY <1>1, <1>4 DEF Inv, LockTypeOK
<1>6. \A u \in Threads : ~Reads(u)'
    BY <1>1, <1>3 DEF Reads
<1>7. Waiting'
    BY <1>1, <1>2, <1>4, <1>6 DEF Inv, LockOK, Waiting
<1>8. WriterKnown'
    BY <1>1, <1>2, <1>3, <1>4 DEF WriterKnown
<1>9. Alone'
    BY <1>2, <1>3, <1>6 DEF Alone
<1>10. CountAccurate'
    <2>1. (writer = t /\ writer # NoThread /\ writer \notin LetIn(0))'
        BY <1>1, <1>2, <1>3
    <2>2. -count' = writes'[t]
        <3>1. \A n \in Int : n + 1 = 0 => -n = 1
            OBVIOUS
        <3>2. count' \in Int /\ count' + 1 = 0
            BY <1>1
        <3> QED
            BY <1>4, <3>1, <3>2
    <2> QED
        BY <2>1, <2>2 DEF CountAccurate
<1>11. WriterWaitsFirst'
    BY <1>1 DEF WriterWaitsFirst
<1> QED
    BY <1>2, <1>5, <1>7, <1>8, <1>9, <1>10, <1>11 DEF Inv, LockOK

\* The last release of a writer: it was alone, and nothing is left of it.
LEMMA LastWrite ==
    ASSUME Inv, NEW t \in Threads, WriteLeave(t), count >= -1
    PROVE  /\ UNCHANGED <<retval, pc, reads>>
           /\ pc[t] = "out" /\ count = -1
           /\ reads = {} /\ LetIn(0) = {} /\ LetIn(1) = {}
           /\ writes' \in [Threads -> 0..MaxDepth] /\ \A u \in Threads : writes'[u] = 0
<1>1. /\ UNCHANGED <<retval, pc, reads>> /\ pc[t] = "out" /\ ~Reads(t)
      /\ writes[t] > 0 /\ writes' = [writes EXCEPT ![t] = @ - 1]
    BY DEF WriteLeave, WriteCall, Calls
<1>2. writer = t /\ t # NoThread /\ count = -writes[t] /\ writes[t] \in 0..MaxDepth
    BY <1>1, WriterFacts, NoThreadAssumption DEF Inv, LockTypeOK
<1>3. count = -1 /\ writes[t] = 1
    BY <1>1, <1>2, DepthAssumption
<1>4. \A u \in Threads \ {t} : writes[u] = 0 /\ u \notin LetIn(0) /\ ~Reads(u)
    BY <1>2, WriterFacts, DepthAssumption DEF Inv, LockOK, LockTypeOK, Alone
<1>5. LetIn(0) = {} /\ LetIn(1) = {}
    BY <1>1, <1>2, <1>4 DEF Inv, LockOK, Alone, LetIn
<1>6. reads = {}
    BY <1>1, <1>4 DEF Inv, LockTypeOK, Reads
<1>7. writes' \in [Threads -> 0..MaxDepth] /\ \A u \in Threads : writes'[u] = 0
    BY <1>1, <1>3, <1>4, DepthAssumption DEF Inv, LockTypeOK
<1> QED
    BY <1>1, <1>3, <1>5, <1>6, <1>7

\* The writer leaves and nobody waits.
LEMMA WriteReleaseOpenInv ==
    ASSUME Inv, NEW t \in Threads, WriteReleaseOpen(t)
    PROVE  Inv'
<1>1. /\ UNCHANGED <<threadVars, retval, pc, reads>> /\ writer' = NoThread /\ count' = 0
      /\ reads = {} /\ LetIn(0) = {} /\ LetIn(1) = {}
      /\ writes' \in [Threads -> 0..MaxDepth] /\ \A u \in Threads : writes'[u] = 0
    BY LastWrite DEF WriteReleaseOpen
<1>2. /\ ThreadsOK' /\ Apart' /\ wq' = wq
      /\ \A u \in Threads : Queued(u)' <=> Queued(u)
      /\ \A k \in {0, 1} : LetIn(k)' = LetIn(k)
    BY <1>1, Quiet
<1>3. LockTypeOK'
    BY <1>1 DEF Inv, LockTypeOK
<1>4. Waiting'
    BY <1>1, <1>2 DEF Inv, LockOK, Waiting, Reads
<1>5. WriterKnown'
    BY <1>1, <1>2, NoThreadAssumption DEF WriterKnown
<1>6. Alone' /\ WriterWaitsFirst'
    BY <1>1 DEF Alone, WriterWaitsFirst
<1>7. CountAccurate'
    <2>1. Cardinality(reads)' = 0 /\ Cardinality(LetIn(1))' = 0
        BY <1>1, <1>2, FS_EmptySet
    <2> QED
        BY <1>1, <2>1 DEF CountAccurate
<1> QED
    BY <1>2, <1>3, <1>4, <1>5, <1>6, <1>7 DEF Inv, LockOK

\* The writer hands over to a writer.
LEMMA WriteReleaseToWriterInv ==
    ASSUME Inv, NEW t \in Threads, WriteReleaseToWriter(t)
    PROVE  Inv'
<1> DEFINE w == Head(wq)
<1>1. /\ WakeupFirst /\ UNCHANGED <<retval, pc, reads>>
      /\ writer' = w /\ retval[w] = 0 /\ count' = -1
      /\ reads = {} /\ LetIn(0) = {} /\ LetIn(1) = {}
      /\ writes' \in [Threads -> 0..MaxDepth] /\ \A u \in Threads : writes'[u] = 0
    BY LastWrite DEF WriteReleaseToWriter
<1>2. /\ ThreadsOK' /\ Apart' /\ w \in Threads
      /\ \A u \in Threads : Queued(u)' <=> Queued(u) /\ u # w
      /\ \A k \in {0, 1} : LetIn(k)' = IF retval[w] = k THEN LetIn(k) \cup {w} ELSE LetIn(k)
    BY <1>1, FirstLetIn
<1> HIDE DEF w
<1>3. LetIn(0)' = {w} /\ LetIn(1)' = {}
    BY <1>1, <1>2
<1>4. LockTypeOK'
    BY <1>1, <1>2 DEF Inv, LockTypeOK
<1>5. Waiting'
    BY <1>1, <1>2 DEF Inv, LockOK, Waiting, Reads
<1>6. WriterKnown'
    BY <1>1, <1>2, <1>3 DEF WriterKnown
<1>7. \A u \in Threads : ~Reads(u)'
    BY <1>1 DEF Reads
<1>8. Alone' /\ WriterWaitsFirst'
    BY <1>1, <1>3, <1>7 DEF Alone, WriterWaitsFirst
<1>9. CountAccurate'
    <2>1. writer' # NoThread
        BY <1>1, <1>2, NoThreadAssumption
    <2>2. (writer \in LetIn(0))'
        BY <1>1, <1>3
    <2>3. -count' = 1
        <3>1. \A n \in Int : n + 1 = 0 => -n = 1
            OBVIOUS
        <3>2. count' \in Int /\ count' + 1 = 0
            BY <1>1
        <3> QED
            BY <3>1, <3>2
    <2> QED
        BY <2>1, <2>2, <2>3 DEF CountAccurate
<1> QED
    BY <1>2, <1>4, <1>5, <1>6, <1>8, <1>9 DEF Inv, LockOK

-----------------------------------------------------------------------------
\* Cutting a list that holds each thread once in two.
LEMMA CutFacts ==
    ASSUME NEW S, NEW s \in Seq(S), NEW n \in 1..Len(s),
           \A i, j \in DOMAIN s : s[i] = s[j] => i = j
    PROVE  LET a == SubSeq(s, 1, n)
               b == SubSeq(s, n + 1, Len(s))
           IN  /\ a \in Seq(S) /\ b \in Seq(S)
               /\ Range(a) \cap Range(b) = {} /\ Range(a) \cup Range(b) = Range(s)
               /\ Range(a) = {s[i] : i \in 1..n}
               /\ \A i, j \in DOMAIN a : a[i] = a[j] => i = j
               /\ \A i, j \in DOMAIN b : b[i] = b[j] => i = j
               /\ Cardinality(Range(a)) = n
               /\ b # <<>> => n < Len(s) /\ Head(b) = s[n + 1]
<1> DEFINE a == SubSeq(s, 1, n)
           b == SubSeq(s, n + 1, Len(s))
<1>1. Len(s) \in Nat /\ DOMAIN s = 1..Len(s) /\ \A i \in 1..Len(s) : s[i] \in S
    BY LenProperties, ElementOfSeq
<1>2. a \in Seq(S) /\ Len(a) = n /\ DOMAIN a = 1..n /\ \A i \in 1..n : a[i] = s[i]
    <2>1. \A i \in 1..n : s[i] \in S
        BY <1>1
    <2>2. a \in Seq(S) /\ Len(a) = n /\ \A i \in 1..n : a[i] = s[1 + i - 1]
        BY <1>1, <2>1, SubSeqProperties
    <2> QED
        BY <2>2, LenProperties
<1>3. /\ b \in Seq(S) /\ Len(b) = Len(s) - n /\ DOMAIN b = 1..(Len(s) - n)
      /\ \A i \in 1..(Len(s) - n) : b[i] = s[i + n]
    <2>1. n \in Int /\ n + 1 \in Int /\ Len(s) \in Int /\ n <= Len(s) /\ n >= 1
        BY <1>1
    <2>2. \A i \in (n + 1)..Len(s) : s[i] \in S
        BY <1>1, <2>1
    <2>3. /\ b \in Seq(S)
          /\ Len(b) = IF n + 1 <= Len(s) THEN Len(s) - (n + 1) + 1 ELSE 0
          /\ \A i \in 1..(Len(s) - (n + 1) + 1) : b[i] = s[(n + 1) + i - 1]
        BY <2>1, <2>2, SubSeqProperties
    <2>4. /\ Len(s) - (n + 1) + 1 = Len(s) - n
          /\ \A i \in Int : (n + 1) + i - 1 = i + n
          /\ Len(b) = Len(s) - n
        BY <2>1, <2>3
    <2>5. ASSUME NEW i \in 1..(Len(s) - n) PROVE b[i] = s[i + n]
        <3> HIDE DEF b
        <3>0. i \in Int /\ i >= 1 /\ i <= Len(s) - n
            BY <2>1
        <3>1. i \in 1..(Len(s) - (n + 1) + 1) /\ i \in Int
            BY <2>1, <3>0
        <3>2. b[i] = s[(n + 1) + i - 1]
            BY <2>3, <3>1
        <3>3. (n + 1) + i - 1 = i + n
            BY <2>4, <3>1
        <3> QED
            BY <3>2, <3>3
    <2>6. DOMAIN b = 1..(Len(s) - n)
        BY <2>3, <2>4, LenProperties
    <2> QED
        BY <2>3, <2>4, <2>5, <2>6
<1>4. b # <<>> => n < Len(s) /\ Head(b) = s[n + 1]
    <2> SUFFICES ASSUME b # <<>> PROVE n < Len(s) /\ Head(b) = s[n + 1]
        OBVIOUS
    <2>1. Len(b) \in Nat /\ Len(b) > 0
        BY <1>3, EmptySeq, LenProperties
    <2>2. n < Len(s) /\ 1 \in 1..(Len(s) - n) /\ 1 + n = n + 1
        <3>1. n \in Int /\ Len(s) \in Int
            BY <1>1
        <3>2. Len(s) - n > 0
            BY <1>3, <2>1
        <3> QED
            BY <3>1, <3>2
    <2>3. b[1] = s[n + 1]
        BY <1>3, <2>2
    <2>4. Head(b) = b[1]
        BY <1>3, <2>1
    <2> QED
        BY <2>2, <2>3, <2>4
<1> HIDE DEF a, b
<1>5. \A i, j \in 1..n : a[i] = a[j] => i = j
    BY <1>1, <1>2
<1>6. \A i, j \in 1..(Len(s) - n) : b[i] = b[j] => i = j
    <2> TAKE i, j \in 1..(Len(s) - n)
    <2>1. i + n \in DOMAIN s /\ j + n \in DOMAIN s /\ (i + n = j + n => i = j)
        BY <1>1
    <2> QED
        BY <1>3, <2>1
<1>7. Range(a) \cap Range(b) = {}
    <2>1. ASSUME NEW i \in 1..n, NEW j \in 1..(Len(s) - n) PROVE a[i] # b[j]
        <3>1. i \in DOMAIN s /\ j + n \in DOMAIN s /\ i # j + n
            BY <1>1
        <3> QED
            BY <1>2, <1>3, <3>1, ZenonT(60)
    <2> QED
        BY <1>2, <1>3, <2>1 DEF Range
<1>8. Range(a) \cup Range(b) = Range(s)
    <2>1. \A i \in 1..n : i \in DOMAIN s
        BY <1>1
    <2>2. \A i \in 1..(Len(s) - n) : i + n \in DOMAIN s
        BY <1>1
    <2>3. ASSUME NEW i \in DOMAIN s PROVE s[i] \in Range(a) \cup Range(b)
        <3>1. CASE i <= n
            BY <1>1, <1>2, <3>1 DEF Range
        <3>2. CASE i > n
            <4>1. i - n \in 1..(Len(s) - n) /\ (i - n) + n = i
                BY <1>1, <3>2
            <4> QED
                BY <1>3, <4>1 DEF Range
        <3> QED
            BY <1>1, <3>1, <3>2
    <2>4. Range(a) \subseteq Range(s)
        BY <1>2, <2>1 DEF Range
    <2>5. Range(b) \subseteq Range(s)
        <3>1. \A i \in DOMAIN b : i + n \in DOMAIN s /\ b[i] = s[i + n]
            BY <1>3, <2>2
        <3> QED
            BY <3>1 DEF Range
    <2>6. Range(s) \subseteq Range(a) \cup Range(b)
        BY <2>3 DEF Range
    <2> QED
        BY <2>4, <2>5, <2>6
<1>9. Range(a) = {s[i] : i \in 1..n}
    BY <1>2 DEF Range
<1>10. Cardinality(Range(a)) = n
    <2>1. a \in [1..n -> Range(a)]
        BY <1>2 DEF Range
    <2>2. a \in Surjection(1..n, Range(a)) /\ a \in Injection(1..n, Range(a))
        BY <1>2, <1>5, <2>1 DEF Surjection, Injection, IsInjective, Range
    <2>3. IsFiniteSet(1..n) /\ Cardinality(1..n) = n
        BY <1>1, FS_Interval
    <2> QED
        BY <2>2, <2>3, FS_Surjection
<1> QED
    BY <1>2, <1>3, <1>4, <1>5, <1>6, <1>7, <1>8, <1>9, <1>10 DEF a, b

\* Waking the first n waiters takes just these off the queue.
LEMMA FrontLetIn ==
    ASSUME Inv, NEW n \in 1..Len(wq), WakeupFront(n)
    PROVE  LET woken == {wq[i] : i \in 1..n} IN
           /\ ThreadsOK' /\ Apart'
           /\ woken \subseteq {t \in Threads : Queued(t)}
           /\ Cardinality(woken) = n
           /\ \A u \in Threads : Queued(u)' <=> Queued(u) /\ u \notin woken
           /\ wq' # <<>> => n < Len(wq) /\ Head(wq') = wq[n + 1]
<1> DEFINE a == SubSeq(wq, 1, n)
<1>1. wq \in Seq(Threads) /\ rtr \in Seq(Threads) /\ Range(wq) \subseteq Threads
    BY RangeOfSeq DEF Inv, ThreadsOK, ThreadsTypeOK
<1>2. /\ wq' = SubSeq(wq, n + 1, Len(wq)) /\ rtr' = rtr \o a /\ UNCHANGED core
      /\ state' = [t \in Threads |-> IF t \in Range(a) THEN "running" ELSE state[t]]
    BY DEF WakeupFront
<1>3. /\ a \in Seq(Threads) /\ wq' \in Seq(Threads)
      /\ Range(a) \cap Range(wq') = {} /\ Range(a) \cup Range(wq') = Range(wq)
      /\ Range(a) = {wq[i] : i \in 1..n}
      /\ \A i, j \in DOMAIN a : a[i] = a[j] => i = j
      /\ WqDistinct'
      /\ Cardinality(Range(a)) = n
      /\ wq' # <<>> => n < Len(wq) /\ Head(wq') = wq[n + 1]
    <2>1. \A i, j \in DOMAIN wq : wq[i] = wq[j] => i = j
        BY DEF Inv, ThreadsOK, WqDistinct
    <2> DEFINE b == SubSeq(wq, n + 1, Len(wq))
    <2>2. /\ a \in Seq(Threads) /\ b \in Seq(Threads)
          /\ Range(a) \cap Range(b) = {} /\ Range(a) \cup Range(b) = Range(wq)
          /\ Range(a) = {wq[i] : i \in 1..n}
          /\ \A i, j \in DOMAIN a : a[i] = a[j] => i = j
          /\ \A i, j \in DOMAIN b : b[i] = b[j] => i = j
          /\ Cardinality(Range(a)) = n
          /\ b # <<>> => n < Len(wq) /\ Head(b) = wq[n + 1]
        BY <1>1, <2>1, CutFacts
    <2> QED
        BY <1>2, <2>2 DEF WqDistinct
<1> HIDE DEF a
<1>4. state' \in [Threads -> States]
    BY <1>2 DEF Inv, ThreadsOK, ThreadsTypeOK, States
<1>5. rtr' \in Seq(Threads) /\ Range(rtr') = Range(rtr) \cup Range(a)
    BY <1>1, <1>2, <1>3, ConcatProperties, RangeConcatenation
<1>6. ThreadsOK'
    BY <1>2, <1>3, <1>4, <1>5 DEF core, Inv, ThreadsOK, ThreadsTypeOK
<1>7. Range(rtr) \cap Range(a) = {}
    BY <1>3 DEF Inv, Apart
<1>8. RtrDistinct'
    <2>1. /\ Len(rtr) \in Nat /\ DOMAIN rtr = 1..Len(rtr) /\ Len(a) \in Nat /\ DOMAIN a = 1..Len(a)
          /\ DOMAIN rtr' = 1..(Len(rtr) + Len(a))
        BY <1>1, <1>2, <1>3, <1>5, LenProperties, ConcatProperties
    <2>2. \A i \in 1..(Len(rtr) + Len(a)) :
            rtr'[i] = IF i <= Len(rtr) THEN rtr[i] ELSE a[i - Len(rtr)]
        BY <1>1, <1>2, <1>3, ConcatProperties
    <2>3. \A i \in 1..Len(rtr), j \in 1..Len(a) : rtr[i] # a[j]
        BY <1>7, <2>1 DEF Range
    <2> SUFFICES ASSUME NEW i \in 1..(Len(rtr) + Len(a)), NEW j \in 1..(Len(rtr) + Len(a)),
                        rtr'[i] = rtr'[j]
                 PROVE  i = j
        BY <2>1 DEF RtrDistinct
    <2>4. CASE i <= Len(rtr) /\ j <= Len(rtr)
        BY <2>1, <2>2, <2>4 DEF Inv, Apart, RtrDistinct
    <2>5. CASE i > Len(rtr) /\ j > Len(rtr)
        <3>1. i - Len(rtr) \in DOMAIN a /\ j - Len(rtr) \in DOMAIN a
            BY <2>1, <2>5
        <3>2. a[i - Len(rtr)] = a[j - Len(rtr)]
            BY <2>1, <2>2, <2>5
        <3>3. i - Len(rtr) = j - Len(rtr)
            BY <1>3, <3>1, <3>2
        <3> QED
            BY <2>1, <3>3
    <2>6. CASE i <= Len(rtr) /\ j > Len(rtr)
        <3>1. i \in 1..Len(rtr) /\ j - Len(rtr) \in 1..Len(a)
            BY <2>1, <2>6
        <3> QED
            BY <2>1, <2>2, <2>3, <2>6, <3>1
    <2>7. CASE i > Len(rtr) /\ j <= Len(rtr)
        <3>1. j \in 1..Len(rtr) /\ i - Len(rtr) \in 1..Len(a)
            BY <2>1, <2>7
        <3> QED
            BY <2>1, <2>2, <2>3, <2>7, <3>1
    <2> QED
        BY <2>1, <2>4, <2>5, <2>6, <2>7
<1>9. Apart'
    BY <1>3, <1>5, <1>8 DEF Inv, Apart
<1>10. \A u \in Threads : Queued(u)' <=> Queued(u) /\ u \notin Range(a)
    BY <1>3 DEF Queued
<1>11. Range(a) \subseteq {t \in Threads : Queued(t)}
    BY <1>1, <1>3 DEF Queued
<1> QED
    BY <1>3, <1>6, <1>9, <1>10, <1>11

\* The writer hands over to the readers in front of the next writer.
LEMMA WriteReleaseToReadersInv ==
    ASSUME Inv, NEW t \in Threads, WriteReleaseToReaders(t)
    PROVE  Inv'
<1>1. PICK n \in 1..Len(wq) : LeadingReaders(n) /\ count' = n /\ WakeupFront(n)
    BY DEF WriteReleaseToReaders
<1>2. /\ UNCHANGED <<retval, pc, reads>> /\ writer' = NoThread
      /\ reads = {} /\ LetIn(0) = {} /\ LetIn(1) = {}
      /\ writes' \in [Threads -> 0..MaxDepth] /\ \A u \in Threads : writes'[u] = 0
    BY LastWrite DEF WriteReleaseToReaders
<1> DEFINE woken == {wq[i] : i \in 1..n}
<1>3. /\ ThreadsOK' /\ Apart'
      /\ woken \subseteq {u \in Threads : Queued(u)}
      /\ Cardinality(woken) = n
      /\ \A u \in Threads : Queued(u)' <=> Queued(u) /\ u \notin woken
      /\ wq' # <<>> => n < Len(wq) /\ Head(wq') = wq[n + 1]
    BY <1>1, FrontLetIn
<1>4. \A u \in woken : retval[u] = 1
    BY <1>1 DEF LeadingReaders
<1>5. n \in Nat /\ n > 0
    BY <1>1 DEF Inv, ThreadsOK, ThreadsTypeOK
<1> HIDE DEF woken
<1>6. \A u \in woken : u \in Threads /\ Queued(u) /\ pc[u] = "wait"
    BY <1>3 DEF Inv, LockOK, Waiting
<1>7. LetIn(0)' = {} /\ LetIn(1)' = woken
    BY <1>2, <1>3, <1>4, <1>6 DEF LetIn
<1>8. LockTypeOK'
    BY <1>1, <1>2, <1>5 DEF Inv, LockTypeOK
<1>9. Waiting'
    BY <1>2, <1>3 DEF Inv, LockOK, Waiting, Reads
<1>10. WriterKnown'
    BY <1>2, <1>7, NoThreadAssumption DEF WriterKnown
<1>11. Alone'
    BY <1>2 DEF Alone
<1>12. CountAccurate'
    <2>1. Cardinality(reads)' = 0 /\ Cardinality(LetIn(1))' = n
        BY <1>2, <1>3, <1>7, FS_EmptySet
    <2> QED
        BY <1>1, <1>2, <1>5, <2>1 DEF CountAccurate
<1>13. WriterWaitsFirst'
    BY <1>1, <1>2, <1>3 DEF WriterWaitsFirst, LeadingReaders
<1> QED
    BY <1>3, <1>8, <1>9, <1>10, <1>11, <1>12, <1>13 DEF Inv, LockOK

\* switch_thread moves nothing that the lock looks at.
LEMMA SwitcherInv ==
    ASSUME Inv, SwitchThread \/ \E t \in Threads : GiveUpProcessor(t)
    PROVE  Inv'
<1>1. UNCHANGED lockVars /\ \E t \in Threads : Idle \/ Switch \/ Yield(t)
    BY ThreadsAssumption DEF SwitchThread, GiveUpProcessor
<1>2. ThreadsOK' /\ wq' = wq
    BY <1>1, SwitcherKeeps DEF Inv
<1>3. Apart'
    <2>1. CASE Switch
        BY <2>1, SwitchApart DEF Inv
    <2>2. CASE Idle \/ \E t \in Threads : Yield(t)
        BY <1>2, <2>2 DEF Idle, Yield, Inv, Apart, RtrDistinct
    <2> QED
        BY <1>1, <2>1, <2>2
<1>4. \A u \in Threads : Queued(u)' <=> Queued(u)
    BY <1>2 DEF Queued
<1>5. \A k \in {0, 1} : LetIn(k)' = LetIn(k)
    BY <1>1, <1>4 DEF lockVars, LetIn
<1>6. LockTypeOK'
    BY <1>1 DEF lockVars, Inv, LockTypeOK
<1>7. Waiting' /\ WriterKnown' /\ Alone'
    BY <1>1, <1>4, <1>5 DEF lockVars, Inv, LockOK, Waiting, WriterKnown, Alone, Reads
<1>8. CountAccurate' /\ WriterWaitsFirst'
    BY <1>1, <1>2, <1>5 DEF lockVars, Inv, LockOK, CountAccurate, WriterWaitsFirst
<1> QED
    BY <1>2, <1>3, <1>6, <1>7, <1>8 DEF Inv, LockOK

\* Every step keeps the invariant.
LEMMA NextInv ==
    ASSUME Inv, [Next]_vars
    PROVE  Inv'
<1>1. CASE UNCHANGED vars
    <2>1. UNCHANGED threadVars /\ UNCHANGED lockVars
        BY <1>1 DEF vars
    <2>2. /\ ThreadsOK' /\ Apart' /\ wq' = wq
          /\ \A u \in Threads : Queued(u)' <=> Queued(u)
          /\ \A k \in {0, 1} : LetIn(k)' = LetIn(k)
        BY <2>1, Quiet DEF lockVars
    <2>3. LockTypeOK'
        BY <2>1 DEF lockVars, Inv, LockTypeOK
    <2>4. Waiting' /\ WriterKnown' /\ Alone'
        BY <2>1, <2>2 DEF lockVars, Inv, LockOK, Waiting, WriterKnown, Alone, Reads
    <2>5. CountAccurate' /\ WriterWaitsFirst'
        BY <2>1, <2>2 DEF lockVars, Inv, LockOK, CountAccurate, WriterWaitsFirst
    <2> QED
        BY <2>2, <2>3, <2>4, <2>5 DEF Inv, LockOK
<1>2. CASE SwitchThread
    BY <1>2, SwitcherInv
<1>3. ASSUME NEW t \in Threads,
             \/ ReadAcquire(t) \/ WriteAcquire(t) \/ Acquired(t)
             \/ ReadLeave(t) \/ WriteReleaseRecursive(t) \/ WriteReleaseLast(t)
             \/ GiveUpProcessor(t)
      PROVE  Inv'
    <2>1. CASE ReadAcquire(t) \/ WriteAcquire(t)
        BY <2>1, PassInv, ReadOpenInv, BlockInv, WriteDepthInv, WriteOpenInv
        DEF ReadAcquire, WriteAcquire
    <2>2. CASE Acquired(t)
        BY <2>2, AcquiredInv
    <2>3. CASE ReadLeave(t)
        BY <2>3, PassInv, ReadReleaseLastInv, ReadReleaseInv DEF ReadLeave
    <2>4. CASE WriteReleaseRecursive(t)
        BY <2>4, WriteDepthInv
    <2>5. CASE WriteReleaseLast(t)
        BY <2>5, WriteReleaseOpenInv, WriteReleaseToWriterInv, WriteReleaseToReadersInv
        DEF WriteReleaseLast
    <2>6. CASE GiveUpProcessor(t)
        BY <2>6, SwitcherInv
    <2> QED
        BY <1>3, <2>1, <2>2, <2>3, <2>4, <2>5, <2>6
<1> QED
    BY <1>1, <1>2, <1>3 DEF Next

LEMMA Invariance == Spec => []Inv
<1>1. Init => Inv
    BY InitInv
<1>2. Inv /\ [Next]_vars => Inv'
    BY NextInv
<1> QED
    BY <1>1, <1>2, PTL DEF Spec

\* The lock's variables keep their types, count is exact over every hand-over,
\* and behind readers a writer is first in line.
THEOREM AlwaysAccounted == Spec => []Accounted
<1>1. Inv => Accounted
    BY DEF Inv, LockOK, LockTypeOK, ThreadsOK, Accounted, TypeOK
<1> QED
    BY <1>1, Invariance, PTL

\* While a thread has write access no other has any.
THEOREM WriterExcludes == Spec => []Exclusion
<1>1. Inv => Exclusion
    <2> SUFFICES ASSUME Inv, NEW t \in Threads, NEW u \in Threads, writes[t] > 0, t # u
                 PROVE  writes[u] = 0 /\ ~Reads(u)
        BY DEF Exclusion
    <2>1. writer = t /\ t # NoThread /\ ~(writes[u] > 0)
        BY WriterFacts, NoThreadAssumption
    <2>2. writes[u] = 0
        BY <2>1, DepthAssumption DEF Inv, LockTypeOK
    <2>3. ~Reads(u)
        BY <2>1 DEF Inv, LockOK, Alone
    <2> QED
        BY <2>2, <2>3
<1> QED
    BY <1>1, Invariance, PTL
=============================================================================
