------------------------------ MODULE MrswLock ------------------------------
(***************************************************************************)
(* The multi-reader, single-writer lock of the kernel, as it is built      *)
(* without priorities: count tracks how often readers hold it.  The lock   *)
(* is used by threads only, and each releases what it has acquired.        *)
(***************************************************************************)
EXTENDS Threads, Integers

CONSTANTS
    NoThread,       \* blocker.thread while no writer owns the lock
    MaxDepth        \* bound on the depth of recursion
ASSUME NoThreadAssumption == NoThread \notin Threads
ASSUME DepthAssumption == MaxDepth \in Nat \ {0}

VARIABLES
    writer,     \* splay.blocker.thread
    count,      \* > 0: read accesses granted; < 0: the writer's depth
    retval,     \* per thread: 1 when it queues as a reader, 0 as a writer
    pc,         \* per thread: "out", or "wait" in switch_thread of an acquire
    reads,      \* read accesses that threads hold: <<thread, depth>>
    writes      \* per thread: depth of the write access it holds

lockVars == <<writer, count, retval, pc, reads, writes>>
vars == <<threadVars, lockVars>>

Depths == 1..MaxDepth

TypeOK ==
    /\ ThreadsTypeOK
    /\ writer \in Threads \cup {NoThread}
    /\ count \in Int
    /\ retval \in [Threads -> {0, 1}]
    /\ pc \in [Threads -> {"out", "wait"}]
    /\ reads \subseteq Threads \X Depths
    /\ writes \in [Threads -> 0..MaxDepth]

Init ==
    /\ ThreadsInit
    /\ writer = NoThread
    /\ count = 0
    /\ retval = [t \in Threads |-> 0]
    /\ pc = [t \in Threads |-> "out"]
    /\ reads = {}
    /\ writes = [t \in Threads |-> 0]

Reads(t) == \E d \in Depths : <<t, d>> \in reads

\* t holds one read access more, or one less.
Deeper(t) == \E d \in Depths :
    /\ reads' = reads \cup {<<t, d>>}
    /\ \A e \in Depths : <<t, e>> \in reads <=> e < d
Shallower(t) == \E d \in Depths :
    /\ reads' = reads \ {<<t, d>>}
    /\ \A e \in Depths : <<t, e>> \in reads <=> e <= d

Calls(t) == Runs(t) /\ pc[t] = "out"
Wait(t, multi) ==
    /\ retval' = [retval EXCEPT ![t] = multi]
    /\ pc' = [pc EXCEPT ![t] = "wait"]
    /\ BlockThread(t, "blocked")
    /\ UNCHANGED <<writer, count, reads, writes>>
-----------------------------------------------------------------------------
\* mrsw_read_acquire by the writer: granted, the lock is not changed.
ReadPass(t) ==
    /\ Calls(t) /\ writer = t
    /\ ~Reads(t)                    \* bound: one read inside a write
    /\ Deeper(t)
    /\ UNCHANGED <<threadVars, writer, count, retval, pc, writes>>

ReadCall(t) ==
    /\ Calls(t) /\ writer # t
    /\ <<t, MaxDepth>> \notin reads

OpenToReaders == count >= 0 /\ wq = <<>>

\* Mutant of ReadOpen: only the owner is looked at, not the queue.
ReadBarge(t) ==
    /\ ReadCall(t) /\ count >= 0
    /\ count' = count + 1
    /\ Deeper(t)
    /\ UNCHANGED <<threadVars, writer, retval, pc, writes>>

\* Mutant of ReadOpen: only the queue is looked at, not the owner.
ReadIntrude(t) ==
    /\ ReadCall(t) /\ wq = <<>>
    /\ count' = count + 1
    /\ Deeper(t)
    /\ UNCHANGED <<threadVars, writer, retval, pc, writes>>

ReadOpen(t) ==
    /\ ReadCall(t) /\ OpenToReaders
    /\ count' = count + 1
    /\ Deeper(t)
    /\ UNCHANGED <<threadVars, writer, retval, pc, writes>>

ReadBlock(t) == ReadCall(t) /\ ~OpenToReaders /\ Wait(t, 1)

\* An acquire returns after switch_thread without looking at the lock again.
Acquired(t) ==
    /\ Runs(t) /\ pc[t] = "wait"
    /\ pc' = [pc EXCEPT ![t] = "out"]
    /\ \/ retval[t] = 1 /\ Deeper(t) /\ UNCHANGED writes
       \/ retval[t] = 0 /\ writes' = [writes EXCEPT ![t] = @ + 1] /\ UNCHANGED reads
    /\ UNCHANGED <<threadVars, writer, count, retval>>

\* mrsw_read_release by the writer is ignored.
ReadReleasePass(t) ==
    /\ Calls(t) /\ writer = t
    /\ Shallower(t)
    /\ UNCHANGED <<threadVars, writer, count, retval, pc, writes>>

\* The last reader hands the lock to the thread that waits first.
ReadReleaseLast(t) ==
    /\ Calls(t) /\ writer # t
    /\ Shallower(t)
    /\ count = 1 /\ wq # <<>>
    /\ count' = -1
    /\ writer' = Head(wq)
    /\ WakeupFirst
    /\ UNCHANGED <<retval, pc, writes>>

ReadRelease(t) ==
    /\ Calls(t) /\ writer # t
    /\ Shallower(t)
    /\ ~(count = 1 /\ wq # <<>>)
    /\ count' = count - 1
    /\ UNCHANGED <<threadVars, writer, retval, pc, writes>>
-----------------------------------------------------------------------------
\* A writer's own reads are innermost, and a reader does not ask to write: the
\* code documents that it would deadlock.
WriteCall(t) == Calls(t) /\ ~Reads(t)

WriteAgain(t) ==
    /\ WriteCall(t) /\ writer = t
    /\ writes[t] < MaxDepth
    /\ count' = count - 1
    /\ writes' = [writes EXCEPT ![t] = @ + 1]
    /\ UNCHANGED <<threadVars, writer, retval, pc, reads>>

WriteOpen(t) ==
    /\ WriteCall(t) /\ count = 0
    /\ count' = -1
    /\ writer' = t
    /\ writes' = [writes EXCEPT ![t] = @ + 1]
    /\ UNCHANGED <<threadVars, retval, pc, reads>>

WriteBlock(t) == WriteCall(t) /\ writer # t /\ count # 0 /\ Wait(t, 0)

WriteLeave(t) ==
    /\ WriteCall(t) /\ writes[t] > 0
    /\ writes' = [writes EXCEPT ![t] = @ - 1]
    /\ UNCHANGED <<retval, pc, reads>>

WriteReleaseRecursive(t) ==
    /\ WriteLeave(t) /\ count < -1
    /\ count' = count + 1
    /\ UNCHANGED <<threadVars, writer>>

WriteReleaseOpen(t) ==
    /\ WriteLeave(t) /\ count >= -1
    /\ wq = <<>>
    /\ writer' = NoThread
    /\ count' = 0
    /\ UNCHANGED threadVars

WriteReleaseToWriter(t) ==
    /\ WriteLeave(t) /\ count >= -1
    /\ wq # <<>> /\ retval[Head(wq)] = 0
    /\ writer' = Head(wq)
    /\ WakeupFirst
    /\ UNCHANGED count

\* The first n waiters, and no more, are readers.
LeadingReaders(n) ==
    /\ \A i \in 1..n : retval[wq[i]] = 1
    /\ n < Len(wq) => retval[wq[n + 1]] = 0

\* wakeup_thread of the first n waiters, one after the other.
WakeupFront(n) ==
    LET woken == SubSeq(wq, 1, n) IN
    /\ wq' = SubSeq(wq, n + 1, Len(wq))
    /\ rtr' = rtr \o woken
    /\ state' = [t \in Threads |-> IF t \in Range(woken) THEN "running" ELSE state[t]]
    /\ UNCHANGED core

\* Mutant of WriteReleaseToReaders: the count does not include the first one.
WriteReleaseMiscounts(t) ==
    /\ WriteLeave(t) /\ count >= -1
    /\ writer' = NoThread
    /\ \E n \in 1..Len(wq) :
        LeadingReaders(n) /\ count' = n - 1 /\ WakeupFront(n)

WriteReleaseToReaders(t) ==
    /\ WriteLeave(t) /\ count >= -1
    /\ writer' = NoThread
    /\ \E n \in 1..Len(wq) :
        LeadingReaders(n) /\ count' = n /\ WakeupFront(n)
-----------------------------------------------------------------------------
ReadAcquire(t) == ReadPass(t) \/ ReadOpen(t) \/ ReadBlock(t)
WriteAcquire(t) == WriteAgain(t) \/ WriteOpen(t) \/ WriteBlock(t)
ReadLeave(t) == ReadReleasePass(t) \/ ReadReleaseLast(t) \/ ReadRelease(t)
WriteReleaseLast(t) ==
    WriteReleaseOpen(t) \/ WriteReleaseToWriter(t) \/ WriteReleaseToReaders(t)

\* A thread lets others run, holding the lock or not.
GiveUpProcessor(t) == Calls(t) /\ Yield(t) /\ UNCHANGED lockVars
SwitchThread == (Idle \/ Switch) /\ UNCHANGED lockVars

Next ==
    \/ \E t \in Threads :
        \/ ReadAcquire(t) \/ WriteAcquire(t) \/ Acquired(t)
        \/ ReadLeave(t) \/ WriteReleaseRecursive(t) \/ WriteReleaseLast(t)
        \/ GiveUpProcessor(t)
    \/ SwitchThread

Spec == Init /\ [][Next]_vars

\* The processor does not stop, no thread keeps it for ever, and one that has
\* access releases it at last.
Fairness ==
    /\ WF_vars(SwitchThread)
    /\ \A t \in Threads :
        /\ WF_vars(Acquired(t))
        /\ WF_vars(ReadBlock(t) \/ WriteBlock(t) \/ GiveUpProcessor(t))
        /\ SF_vars(ReadLeave(t))
        /\ SF_vars(WriteReleaseRecursive(t))
        /\ SF_vars(WriteReleaseLast(t))

FairSpec == Spec /\ Fairness
-----------------------------------------------------------------------------
\* While a thread has write access no other has any.
Exclusion ==
    \A t, u \in Threads : writes[t] > 0 /\ t # u => writes[u] = 0 /\ ~Reads(u)

\* Threads that have been let in by a release and have not run since.
LetIn(kind) == {t \in Threads : pc[t] = "wait" /\ ~Queued(t) /\ retval[t] = kind}

\* count is what the readers hold and what they have been granted, or the depth
\* of the writer: a count that is off by one keeps writers out for ever or lets
\* them in early.
CountAccurate ==
    IF writer = NoThread
    THEN count = Cardinality(reads) + Cardinality(LetIn(1))
    ELSE -count = IF writer \in LetIn(0) THEN 1 ELSE writes[writer]

\* While readers have the lock the thread that waits first is a writer: the last
\* reader makes it the owner without looking.
WriterWaitsFirst == count > 0 /\ wq # <<>> => retval[Head(wq)] = 0

\* Every reader and every writer that waits gets in, provided those inside
\* leave: readers that keep coming do not hold a writer up for ever.  The one
\* exception is a reader that asks again while a writer waits for it.
Stuck == \E t \in Threads : Reads(t) /\ pc[t] = "wait"
Entered == \A t \in Threads : pc[t] = "wait" ~> pc[t] = "out" \/ Stuck

\* The lock's own state is right over every hand-over: its variables keep their
\* types, count says who is inside, and behind readers a writer is first in line
\* (mrsw_lock.c, mrsw_wakeup_writer and mrsw_wakeup_readers).
Accounted == TypeOK /\ CountAccurate /\ WriterWaitsFirst
=============================================================================
