--------------------------- MODULE SemaphoreSpec ---------------------------
(***************************************************************************)
(* What a semaphore promises: units are available, or owed to threads that *)
(* have been handed one, and threads are handed units in their order.      *)
(* With interrupt handlers releasing (Lossy) one promise is missing: a     *)
(* unit handed to a thread whose wait has just expired is lost.            *)
(***************************************************************************)
EXTENDS Naturals, Sequences, SequencesExt

CONSTANTS Threads, MaxCount, Lossy

VARIABLES
    avail,      \* units nobody has taken
    queue,      \* waiting threads, longest first
    owed,       \* threads handed a unit that have not returned with it
    ret         \* the result of each thread's last wait

vars == <<avail, queue, owed, ret>>

Init ==
    /\ avail \in 0..MaxCount
    /\ queue = <<>>
    /\ owed = {}
    /\ ret \in [Threads -> {"succeeded", "timedout"}]

Take(t) ==
    /\ avail > 0 /\ queue = <<>>
    /\ avail' = avail - 1
    /\ ret' = [ret EXCEPT ![t] = "succeeded"]
    /\ UNCHANGED <<queue, owed>>

\* A thread that asks without waiting.
Refuse(t) ==
    /\ avail = 0
    /\ ret' = [ret EXCEPT ![t] = "timedout"]
    /\ UNCHANGED <<avail, queue, owed>>

Enqueue(t) ==
    /\ avail = 0
    /\ t \notin Range(queue) \cup owed
    /\ queue' = Append(queue, t)
    /\ UNCHANGED <<avail, owed, ret>>

\* A wait that ends with nothing.
GiveUp(t) ==
    /\ \E i \in DOMAIN queue : queue[i] = t /\ queue' = RemoveAt(queue, i)
    /\ ret' = [ret EXCEPT ![t] = "timedout"]
    /\ UNCHANGED <<avail, owed>>

Collect(t) ==
    /\ t \in owed
    /\ owed' = owed \ {t}
    /\ ret' = [ret EXCEPT ![t] = "succeeded"]
    /\ UNCHANGED <<avail, queue>>

\* A thread returns without the unit it has been handed.
Lose(t) ==
    /\ Lossy /\ t \in owed
    /\ owed' = owed \ {t}
    /\ ret' = [ret EXCEPT ![t] = "timedout"]
    /\ UNCHANGED <<avail, queue>>

Release ==
    /\ UNCHANGED ret
    /\ \/ /\ queue # <<>>
          /\ owed' = owed \cup {Head(queue)}
          /\ queue' = Tail(queue)
          /\ UNCHANGED avail
       \/ /\ queue = <<>> /\ avail < MaxCount
          /\ avail' = avail + 1
          /\ UNCHANGED <<queue, owed>>

Next ==
    \/ \E t \in Threads :
        Take(t) \/ Refuse(t) \/ Enqueue(t) \/ GiveUp(t) \/ Collect(t) \/ Lose(t)
    \/ Release

Spec == Init /\ [][Next]_vars
=============================================================================
