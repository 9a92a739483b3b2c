--------------------------- MODULE ThreadsProofs ---------------------------
(***************************************************************************)
(* Lemmas about the thread switcher of Threads, for any number of threads: *)
(* what its operators do to the types, to the order of the wait queue and  *)
(* to the set of threads in it.                                            *)
(***************************************************************************)
EXTENDS Threads, SequenceTheorems, FiniteSetTheorems, TLAPS

\* No thread is in the wait queue twice.
WqDistinct == \A i, j \in DOMAIN wq : wq[i] = wq[j] => i = j

\* Taking the i-th element out of a sequence (SequencesExt).
LEMMA RemoveAtFacts ==
    ASSUME NEW S, NEW s \in Seq(S), NEW i \in DOMAIN s
    PROVE  /\ RemoveAt(s, i) \in Seq(S)
           /\ Len(RemoveAt(s, i)) = Len(s) - 1
           /\ \A j \in 1..(Len(s) - 1) :
                RemoveAt(s, i)[j] = IF j < i THEN s[j] ELSE s[j + 1]
<1>1. Len(s) \in Nat /\ DOMAIN s = 1..Len(s) /\ i \in 1..Len(s)
    BY LenProperties
<1>2. \A j \in 1..Len(s) : s[j] \in S
    BY ElementOfSeq
<1> DEFINE a == SubSeq(s, 1, i - 1)
           b == SubSeq(s, i + 1, Len(s))
<1>3. a \in Seq(S) /\ Len(a) = i - 1 /\ \A j \in 1..(i - 1) : a[j] = s[j]
    BY <1>1, <1>2, SubSeqProperties
<1>4. b \in Seq(S) /\ Len(b) = Len(s) - i /\ \A j \in 1..(Len(s) - i) : b[j] = s[j + i]
    BY <1>1, <1>2, SubSeqProperties
<1>5. /\ a \o b \in Seq(S)
      /\ Len(a \o b) = Len(a) + Len(b)
      /\ \A j \in 1..(Len(a) + Len(b)) :
            (a \o b)[j] = IF j <= Len(a) THEN a[j] ELSE b[j - Len(a)]
    BY <1>3, <1>4, ConcatProperties
<1>6. RemoveAt(s, i) = a \o b
    BY DEF RemoveAt
<1> HIDE DEF a, b
<1>7. \A j \in 1..(Len(s) - 1) : (a \o b)[j] = IF j < i THEN s[j] ELSE s[j + 1]
    <2> TAKE j \in 1..(Len(s) - 1)
    <2>1. CASE j < i
        BY <2>1, <1>1, <1>3, <1>4, <1>5
    <2>2. CASE ~(j < i)
        <3>1. j - Len(a) \in 1..(Len(s) - i) /\ ~(j <= Len(a)) /\ j - Len(a) + i = j + 1
            BY <2>2, <1>1, <1>3
        <3>2. j \in 1..(Len(a) + Len(b))
            BY <1>1, <1>3, <1>4
        <3>3. (a \o b)[j] = b[j - Len(a)]
            BY <3>1, <3>2, <1>5
        <3>4. b[j - Len(a)] = s[j + 1]
            BY <3>1, <1>4
        <3> QED
            BY <3>3, <3>4, <2>2
    <2> QED
        BY <2>1, <2>2
<1>8. Len(a \o b) = Len(s) - 1
    BY <1>1, <1>3, <1>4, <1>5
<1> QED
    BY <1>5, <1>6, <1>7, <1>8

\* Adding a thread to a wait queue or to the run list.
LEMMA AppendFacts ==
    ASSUME NEW S, NEW s \in Seq(S), NEW e \in S
    PROVE  /\ Append(s, e) \in Seq(S)
           /\ Range(Append(s, e)) = Range(s) \cup {e}
           /\ DOMAIN Append(s, e) = 1..(Len(s) + 1)
           /\ Len(s) \in Nat /\ DOMAIN s = 1..Len(s)
           /\ \A i \in 1..Len(s) : Append(s, e)[i] = s[i]
           /\ Append(s, e)[Len(s) + 1] = e
<1>1. Len(s) \in Nat /\ DOMAIN s = 1..Len(s)
    BY LenProperties
<1>2. /\ Append(s, e) \in Seq(S)
      /\ Len(Append(s, e)) = Len(s) + 1
      /\ \A i \in 1..Len(s) : Append(s, e)[i] = s[i]
      /\ Append(s, e)[Len(s) + 1] = e
    BY AppendProperties
<1>3. DOMAIN Append(s, e) = 1..(Len(s) + 1)
    BY <1>2, LenProperties
<1>4. Range(Append(s, e)) = Range(s) \cup {e}
    BY <1>1, <1>2, <1>3 DEF Range
<1> QED
    BY <1>1, <1>2, <1>3, <1>4

\* Taking the first thread off a list that holds each thread once.
LEMMA TailFacts ==
    ASSUME NEW S, NEW s \in Seq(S), s # <<>>,
           \A i, j \in DOMAIN s : s[i] = s[j] => i = j
    PROVE  /\ Tail(s) \in Seq(S) /\ Head(s) \in S /\ Head(s) \in Range(s)
           /\ Range(Tail(s)) = Range(s) \ {Head(s)}
           /\ \A i, j \in DOMAIN Tail(s) : Tail(s)[i] = Tail(s)[j] => i = j
<1>1. Len(s) \in Nat /\ DOMAIN s = 1..Len(s) /\ Len(s) > 0
    BY LenProperties, EmptySeq
<1>2. /\ Head(s) \in S /\ Tail(s) \in Seq(S) /\ Len(Tail(s)) = Len(s) - 1
      /\ \A i \in 1..Len(Tail(s)) : Tail(s)[i] = s[i + 1]
    BY HeadTailProperties
<1>3. DOMAIN Tail(s) = 1..(Len(s) - 1)
    BY <1>2, LenProperties
<1>4. Head(s) = s[1]
    BY <1>1
<1>5. \A i \in DOMAIN Tail(s) : i + 1 \in DOMAIN s /\ Tail(s)[i] = s[i + 1] /\ i + 1 # 1
    BY <1>1, <1>2, <1>3
<1>6. \A i, j \in DOMAIN Tail(s) : Tail(s)[i] = Tail(s)[j] => i = j
    <2> TAKE i, j \in DOMAIN Tail(s)
    <2>1. i + 1 = j + 1 => i = j
        BY <1>1, <1>3
    <2> QED
        BY <1>5, <2>1
<1>7. Range(Tail(s)) \subseteq Range(s) \ {Head(s)}
    <2> SUFFICES ASSUME NEW i \in DOMAIN Tail(s)
                 PROVE  Tail(s)[i] \in Range(s) /\ Tail(s)[i] # Head(s)
        BY DEF Range
    <2> QED
        BY <1>1, <1>4, <1>5 DEF Range
<1>8. Range(s) \ {Head(s)} \subseteq Range(Tail(s))
    <2> SUFFICES ASSUME NEW k \in DOMAIN s, s[k] # Head(s)
                 PROVE  s[k] \in Range(Tail(s))
        BY DEF Range
    <2>1. k - 1 \in DOMAIN Tail(s) /\ (k - 1) + 1 = k
        BY <1>1, <1>3, <1>4
    <2> QED
        BY <2>1, <1>5 DEF Range
<1>9. Head(s) \in Range(s)
    BY <1>1, <1>4 DEF Range
<1> QED
    BY <1>2, <1>6, <1>7, <1>8, <1>9

\* Taking any thread out of a list that holds each thread once.
LEMMA RemoveFacts ==
    ASSUME NEW S, NEW s \in Seq(S), NEW i \in DOMAIN s,
           \A j, k \in DOMAIN s : s[j] = s[k] => j = k
    PROVE  /\ RemoveAt(s, i) \in Seq(S)
           /\ Range(RemoveAt(s, i)) = Range(s) \ {s[i]}
           /\ \A j, k \in DOMAIN RemoveAt(s, i) :
                RemoveAt(s, i)[j] = RemoveAt(s, i)[k] => j = k
<1> DEFINE r == RemoveAt(s, i)
           From(j) == IF j < i THEN j ELSE j + 1
<1>1. /\ r \in Seq(S) /\ Len(r) = Len(s) - 1
      /\ \A j \in 1..(Len(s) - 1) : r[j] = IF j < i THEN s[j] ELSE s[j + 1]
    BY RemoveAtFacts
<1>2. Len(s) \in Nat /\ DOMAIN s = 1..Len(s) /\ DOMAIN r = 1..(Len(s) - 1) /\ i \in 1..Len(s)
    BY <1>1, LenProperties
<1> HIDE DEF r
<1>3. \A j \in DOMAIN r : From(j) \in DOMAIN s /\ From(j) # i /\ r[j] = s[From(j)]
    BY <1>1, <1>2
<1>4. \A j, k \in DOMAIN r : From(j) = From(k) => j = k
    BY <1>2
<1>5. \A k \in DOMAIN s : k # i => \E j \in DOMAIN r : From(j) = k
    <2> SUFFICES ASSUME NEW k \in DOMAIN s, k # i
                 PROVE  \E j \in DOMAIN r : From(j) = k
        OBVIOUS
    <2>1. CASE k < i
        BY <2>1, <1>2
    <2>2. CASE k > i
        <3>1. k - 1 \in DOMAIN r /\ From(k - 1) = k
            BY <2>2, <1>2
        <3> QED
            BY <3>1
    <2> QED
        BY <2>1, <2>2, <1>2
<1> HIDE DEF From
<1>6. \A j, k \in DOMAIN r : r[j] = r[k] => j = k
    BY <1>3, <1>4
<1>7. Range(r) = Range(s) \ {s[i]}
    <2>1. Range(r) \subseteq Range(s) \ {s[i]}
        BY <1>3 DEF Range
    <2>2. Range(s) \ {s[i]} \subseteq Range(r)
        BY <1>3, <1>5 DEF Range
    <2> QED
        BY <2>1, <2>2
<1> QED
    BY <1>1, <1>6, <1>7 DEF r

\* Adding a thread that is not in the list keeps it free of duplicates.
LEMMA AppendDistinct ==
    ASSUME NEW S, NEW s \in Seq(S), NEW e \in S, e \notin Range(s),
           \A i, j \in DOMAIN s : s[i] = s[j] => i = j
    PROVE  \A i, j \in DOMAIN Append(s, e) : Append(s, e)[i] = Append(s, e)[j] => i = j
<1>1. /\ DOMAIN Append(s, e) = 1..(Len(s) + 1)
      /\ Len(s) \in Nat /\ DOMAIN s = 1..Len(s)
      /\ \A i \in 1..Len(s) : Append(s, e)[i] = s[i]
      /\ Append(s, e)[Len(s) + 1] = e
    BY AppendFacts
<1>2. \A i \in 1..Len(s) : Append(s, e)[i] # e
    BY <1>1 DEF Range
<1> QED
    BY <1>1, <1>2

\* Seen from behind its i-th thread a list holds the same threads.
LEMMA AfterFacts ==
    ASSUME NEW S, NEW s \in Seq(S), NEW i \in DOMAIN s
    PROVE  /\ After(s, i) \in Seq(S) /\ After(s, i) # <<>>
           /\ Head(After(s, i)) \in S
           /\ Range(After(s, i)) = Range(s)
           /\ (\A j, k \in DOMAIN s : s[j] = s[k] => j = k) =>
              (\A j, k \in DOMAIN After(s, i) : After(s, i)[j] = After(s, i)[k] => j = k)
<1>1. Len(s) \in Nat /\ DOMAIN s = 1..Len(s) /\ i \in 1..Len(s)
    BY LenProperties
<1>2. \A j \in 1..Len(s) : s[j] \in S
    BY ElementOfSeq
<1> DEFINE a == SubSeq(s, i + 1, Len(s))
           b == SubSeq(s, 1, i)
           r == a \o b
           From(j) == IF j <= Len(s) - i THEN j + i ELSE j - (Len(s) - i)
<1>3. a \in Seq(S) /\ Len(a) = Len(s) - i /\ \A j \in 1..(Len(s) - i) : a[j] = s[j + i]
    BY <1>1, <1>2, SubSeqProperties
<1>4. b \in Seq(S) /\ Len(b) = i /\ \A j \in 1..i : b[j] = s[j]
    BY <1>1, <1>2, SubSeqProperties
<1>5. /\ r \in Seq(S)
      /\ Len(r) = Len(a) + Len(b)
      /\ \A j \in 1..(Len(a) + Len(b)) :
            r[j] = IF j <= Len(a) THEN a[j] ELSE b[j - Len(a)]
    BY <1>3, <1>4, ConcatProperties
<1>6. After(s, i) = r
    BY DEF After
<1> HIDE DEF a, b, r
<1>7. Len(r) = Len(s) /\ DOMAIN r = 1..Len(s)
    BY <1>1, <1>3, <1>4, <1>5, LenProperties
<1>8. \A j \in 1..Len(s) : From(j) \in 1..Len(s) /\ r[j] = s[From(j)]
    <2> TAKE j \in 1..Len(s)
    <2>1. CASE j <= Len(s) - i
        BY <2>1, <1>1, <1>3, <1>4, <1>5
    <2>2. CASE ~(j <= Len(s) - i)
        <3>1. j - Len(a) \in 1..i /\ ~(j <= Len(a)) /\ j - Len(a) = From(j)
            BY <2>2, <1>1, <1>3
        <3>2. r[j] = b[j - Len(a)]
            BY <3>1, <1>1, <1>3, <1>4, <1>5
        <3> QED
            BY <3>1, <3>2, <1>1, <1>4
    <2> QED
        BY <2>1, <2>2
<1>9. /\ \A j, k \in 1..Len(s) : From(j) = From(k) => j = k
      /\ \A k \in 1..Len(s) : \E j \in 1..Len(s) : From(j) = k
    <2>1. \A j, k \in 1..Len(s) : From(j) = From(k) => j = k
        BY <1>1
    <2>2. ASSUME NEW k \in 1..Len(s), k > i
          PROVE  \E j \in 1..Len(s) : From(j) = k
        <3>1. k - i \in 1..Len(s) /\ From(k - i) = k
            BY <1>1, <2>2
        <3> QED
            BY <3>1
    <2>3. ASSUME NEW k \in 1..Len(s), ~(k > i)
          PROVE  \E j \in 1..Len(s) : From(j) = k
        <3>1. k + (Len(s) - i) \in 1..Len(s) /\ From(k + (Len(s) - i)) = k
            BY <1>1, <2>3
        <3> QED
            BY <3>1
    <2> QED
        BY <2>1, <2>2, <2>3
<1> HIDE DEF From
<1>10. Range(r) = Range(s)
    <2>1. Range(r) \subseteq Range(s)
        BY <1>1, <1>7, <1>8 DEF Range
    <2>2. Range(s) \subseteq Range(r)
        <3> SUFFICES ASSUME NEW k \in 1..Len(s) PROVE s[k] \in Range(r)
            BY <1>1 DEF Range
        <3>1. PICK j \in 1..Len(s) : From(j) = k
            BY <1>9
        <3>2. r[j] = s[k] /\ j \in DOMAIN r
            BY <3>1, <1>7, <1>8
        <3> QED
            BY <3>2 DEF Range
    <2> QED
        BY <2>1, <2>2
<1>11. ASSUME \A j, k \in DOMAIN s : s[j] = s[k] => j = k
       PROVE  \A j, k \in DOMAIN r : r[j] = r[k] => j = k
    <2> SUFFICES ASSUME NEW j \in 1..Len(s), NEW k \in 1..Len(s), r[j] = r[k]
                 PROVE  j = k
        BY <1>7
    <2>1. s[From(j)] = s[From(k)] /\ From(j) \in DOMAIN s /\ From(k) \in DOMAIN s
        BY <1>1, <1>8
    <2>2. From(j) = From(k)
        BY <2>1, <1>11
    <2> QED
        BY <2>2, <1>9
<1>12. r # <<>> /\ Head(r) \in S
    <2>1. r # <<>>
        BY <1>1, <1>7, EmptySeq
    <2> QED
        BY <2>1, <1>5, HeadTailProperties
<1> QED
    BY <1>5, <1>6, <1>10, <1>11, <1>12

\* What every step of the switcher keeps.
ThreadsOK == ThreadsTypeOK /\ WqDistinct

\* Initially nobody waits.
LEMMA InitKeeps == ThreadsInit => ThreadsOK /\ Range(wq) = {}
<1> SUFFICES ASSUME ThreadsInit PROVE ThreadsOK /\ Range(wq) = {}
    OBVIOUS
<1>1. rtr \in Seq(Threads)
    <2>1. Cardinality(Threads) \in Nat
        BY ThreadsAssumption, FS_CardinalityType
    <2>2. rtr \in [1..Cardinality(Threads) -> Threads]
        BY DEF ThreadsInit, Injection
    <2> QED
        BY <2>1, <2>2, SeqDef
<1>3. running \in Threads
    <2>1. Cardinality(Threads) \in Nat /\ Cardinality(Threads) # 0
        BY ThreadsAssumption, FS_CardinalityType, FS_EmptySet
    <2>2. rtr \in [1..Cardinality(Threads) -> Threads] /\ 1 \in 1..Cardinality(Threads)
        BY <2>1 DEF ThreadsInit, Injection
    <2> QED
        BY <2>2 DEF ThreadsInit
<1>2. wq \in Seq(Threads) /\ Range(wq) = {} /\ WqDistinct
    BY DEF ThreadsInit, Range, WqDistinct
<1> QED
    BY <1>1, <1>2, <1>3 DEF ThreadsInit, ThreadsOK, ThreadsTypeOK, States

\* block_thread appends the running thread to the wait queue.
LEMMA BlockKeeps ==
    ASSUME ThreadsOK, NEW t \in Threads, ~Queued(t), Runs(t),
           NEW st \in States, BlockThread(t, st)
    PROVE  ThreadsOK' /\ Range(wq') = Range(wq) \cup {t} /\ wq' # <<>>
<1>1. rtr' \in Seq(Threads)
    BY HeadTailProperties DEF ThreadsOK, ThreadsTypeOK, BlockThread, Runs
<1>2. wq \in Seq(Threads) /\ wq' = Append(wq, t) /\ t \notin Range(wq)
    BY DEF ThreadsOK, ThreadsTypeOK, BlockThread, Queued
<1>3. wq' \in Seq(Threads) /\ Range(wq') = Range(wq) \cup {t} /\ wq' # <<>>
    BY <1>2, AppendFacts, AppendProperties
<1>4. WqDistinct'
    BY <1>2, AppendDistinct DEF WqDistinct, ThreadsOK
<1> QED
    BY <1>1, <1>3, <1>4 DEF ThreadsOK, ThreadsTypeOK, BlockThread

\* wakeup_thread takes the first waiter, and only it, off the queue.
LEMMA WakeupKeeps ==
    ASSUME ThreadsOK, WakeupFirst
    PROVE  /\ ThreadsOK'
           /\ Head(wq) \in Threads /\ Queued(Head(wq))
           /\ Range(wq') = Range(wq) \ {Head(wq)}
<1>1. wq \in Seq(Threads) /\ wq # <<>> /\ wq' = Tail(wq)
    BY DEF ThreadsOK, ThreadsTypeOK, WakeupFirst
<1>2. /\ wq' \in Seq(Threads) /\ Head(wq) \in Threads /\ Head(wq) \in Range(wq)
      /\ Range(wq') = Range(wq) \ {Head(wq)}
      /\ WqDistinct'
    BY <1>1, TailFacts DEF ThreadsOK, WqDistinct
<1>3. rtr' \in Seq(Threads) /\ state' \in [Threads -> States] /\ UNCHANGED core
    <2>1. CASE state[Head(wq)] = "running"
        BY <2>1 DEF ThreadsOK, ThreadsTypeOK, WakeupFirst
    <2>2. CASE state[Head(wq)] # "running"
        <3>1. rtr \in Seq(Threads) /\ state \in [Threads -> States]
            BY DEF ThreadsOK, ThreadsTypeOK
        <3>2. /\ rtr' = Append(rtr, Head(wq))
              /\ state' = [state EXCEPT ![Head(wq)] = "running"]
              /\ UNCHANGED core
            BY <2>2 DEF WakeupFirst, ScheduleWakeup
        <3>3. rtr' \in Seq(Threads)
            BY <3>1, <3>2, <1>2, AppendProperties
        <3> QED
            BY <3>1, <3>2, <3>3 DEF States
    <2> QED
        BY <2>1, <2>2
<1> QED
    BY <1>2, <1>3 DEF ThreadsOK, ThreadsTypeOK, Queued, core

\* wait_queue_try_remove takes at most the thread itself off the queue.
LEMMA TryRemoveKeeps ==
    ASSUME ThreadsOK, NEW t \in Threads, TryRemove(t), UNCHANGED <<rtr, core, state>>
    PROVE  ThreadsOK' /\ Range(wq') = Range(wq) \ {t}
<1>1. CASE Queued(t)
    <2>1. PICK i \in DOMAIN wq : wq[i] = t /\ wq' = RemoveAt(wq, i)
        BY <1>1 DEF TryRemove
    <2>2. wq' \in Seq(Threads) /\ Range(wq') = Range(wq) \ {t} /\ WqDistinct'
        BY <2>1, RemoveFacts DEF ThreadsOK, ThreadsTypeOK, WqDistinct
    <2> QED
        BY <2>2 DEF ThreadsOK, ThreadsTypeOK, core
<1>2. CASE ~Queued(t)
    BY <1>2 DEF TryRemove, ThreadsOK, ThreadsTypeOK, WqDistinct, Queued, core
<1> QED
    BY <1>1, <1>2

\* Expiry, switch_thread and yield leave the wait queue alone.
LEMMA SwitcherKeeps ==
    ASSUME ThreadsOK, NEW t \in Threads, Expire(t) \/ Idle \/ Switch \/ Yield(t)
    PROVE  ThreadsOK' /\ wq' = wq
<1>1. CASE Expire(t)
    <2>1. Append(rtr, t) \in Seq(Threads)
        BY AppendProperties DEF ThreadsOK, ThreadsTypeOK
    <2> QED
        BY <1>1, <2>1 DEF Expire, ScheduleWakeup, core, ThreadsOK, ThreadsTypeOK, WqDistinct,
            States
<1>2. CASE Switch
    <2>1. rtr \in Seq(Threads) /\ rtr # <<>>
        BY <1>2 DEF Switch, ThreadsOK, ThreadsTypeOK
    <2>2. rtr' \in Seq(Threads) /\ Head(rtr') \in Threads
        <3>1. CASE rtr' = rtr
            BY <2>1, <3>1, HeadTailProperties
        <3>2. CASE \E i \in DOMAIN rtr : rtr' = After(rtr, i)
            BY <2>1, <3>2, AfterFacts
        <3> QED
            BY <1>2, <3>1, <3>2 DEF Switch
    <2> QED
        BY <1>2, <2>2 DEF Switch, ThreadsOK, ThreadsTypeOK, WqDistinct
<1>3. CASE Yield(t) \/ Idle
    BY <1>3 DEF Yield, Idle, ThreadsOK, ThreadsTypeOK, WqDistinct
<1> QED
    BY <1>1, <1>2, <1>3

-----------------------------------------------------------------------------
\* Where no wait has a timeout, no thread is both runnable and queued.
RtrDistinct == \A i, j \in DOMAIN rtr : rtr[i] = rtr[j] => i = j
Apart == RtrDistinct /\ Range(rtr) \cap Range(wq) = {}

\* Initially every thread is on the run list once.
LEMMA InitApart == ThreadsInit => Apart
BY DEF ThreadsInit, Apart, RtrDistinct, Injection, IsInjective, Range

\* The running thread leaves the run list when it joins the queue.
LEMMA BlockApart ==
    ASSUME ThreadsOK, Apart, NEW t \in Threads, Runs(t), ~Queued(t),
           NEW st \in States, BlockThread(t, st)
    PROVE  Apart'
<1>1. rtr \in Seq(Threads) /\ rtr # <<>> /\ Head(rtr) = t /\ rtr' = Tail(rtr)
    BY DEF ThreadsOK, ThreadsTypeOK, Runs, BlockThread
<1>2. Range(rtr') = Range(rtr) \ {t} /\ RtrDistinct'
    BY <1>1, TailFacts DEF Apart, RtrDistinct
<1>3. Range(wq') = Range(wq) \cup {t}
    BY BlockKeeps
<1> QED
    BY <1>2, <1>3 DEF Apart

\* A thread that is woken moves from the queue to the end of the run list.
LEMMA WakeupApart ==
    ASSUME ThreadsOK, Apart, WakeupFirst
    PROVE  Apart'
<1>1. /\ Head(wq) \in Threads /\ Head(wq) \in Range(wq)
      /\ Range(wq') = Range(wq) \ {Head(wq)}
    BY WakeupKeeps DEF Queued
<1>2. CASE state[Head(wq)] = "running"
    <2>1. rtr' = rtr
        BY <1>2 DEF WakeupFirst
    <2> QED
        BY <1>1, <2>1 DEF Apart, RtrDistinct
<1>3. CASE state[Head(wq)] # "running"
    <2>1. rtr' = Append(rtr, Head(wq)) /\ rtr \in Seq(Threads)
        BY <1>3 DEF WakeupFirst, ScheduleWakeup, ThreadsOK, ThreadsTypeOK
    <2>2. Head(wq) \notin Range(rtr)
        BY <1>1 DEF Apart
    <2>3. RtrDistinct'
        BY <1>1, <2>1, <2>2, AppendDistinct DEF Apart, RtrDistinct
    <2>4. Range(rtr') = Range(rtr) \cup {Head(wq)}
        BY <1>1, <2>1, AppendFacts
    <2> QED
        BY <1>1, <2>3, <2>4 DEF Apart
<1> QED
    BY <1>2, <1>3

\* Round robin only reorders the run list.
LEMMA SwitchApart ==
    ASSUME ThreadsOK, Apart, Switch
    PROVE  Apart'
<1>1. rtr \in Seq(Threads) /\ wq' = wq
    BY DEF Switch, ThreadsOK, ThreadsTypeOK
<1>2. CASE rtr' = rtr
    BY <1>1, <1>2 DEF Apart, RtrDistinct
<1>3. CASE \E i \in DOMAIN rtr : rtr' = After(rtr, i)
    <2>1. PICK i \in DOMAIN rtr : rtr' = After(rtr, i)
        BY <1>3
    <2>2. Range(rtr') = Range(rtr) /\ RtrDistinct'
        BY <1>1, <2>1, AfterFacts DEF Apart, RtrDistinct
    <2> QED
        BY <1>1, <2>2 DEF Apart
<1> QED
    BY <1>2, <1>3 DEF Switch

\* The thread that runs is not queued.
LEMMA RunnerNotQueued ==
    ASSUME ThreadsOK, Apart, NEW t \in Threads, Runs(t)
    PROVE  ~Queued(t)
<1>1. rtr \in Seq(Threads) /\ rtr # <<>> /\ Head(rtr) = t
    BY DEF ThreadsOK, ThreadsTypeOK, Runs
<1>2. t \in Range(rtr)
    BY <1>1, TailFacts DEF Apart, RtrDistinct
<1> QED
    BY <1>2 DEF Apart, Queued
=============================================================================
