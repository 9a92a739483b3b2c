------------------------------ MODULE Threads ------------------------------
(***************************************************************************)
(* The thread switcher of the Rockbox kernel as a kernel object with one   *)
(* wait queue sees it: one core, cooperative threads, no priorities.  A    *)
(* thread runs until it calls switch_thread; interrupts come in between.   *)
(***************************************************************************)
EXTENDS Naturals, FiniteSets, Sequences, SequencesExt

CONSTANT Threads        \* the threads that use the object
ASSUME ThreadsAssumption == IsFiniteSet(Threads) /\ Threads # {}

VARIABLES
    rtr,        \* the run list from its head: threads that may run
    running,    \* the thread that runs, or that ran last
    cpu,        \* "thread": the head of rtr runs; "switch": switch_thread was
                \* called; "idle": it has found the run list empty
    state,      \* per thread: "running", "blocked" or "blocked_w_tmo"
    wq          \* the object's wait queue: a thread is in it iff its wqp is set

core == <<running, cpu>>
threadVars == <<rtr, core, state, wq>>

States == {"running", "blocked", "blocked_w_tmo"}
Queued(t) == t \in Range(wq)
Runs(t) == cpu = "thread" /\ rtr # <<>> /\ Head(rtr) = t

ThreadsTypeOK ==
    /\ rtr \in Seq(Threads)
    /\ running \in Threads
    /\ cpu \in {"thread", "switch", "idle"}
    /\ state \in [Threads -> States]
    /\ wq \in Seq(Threads)

\* All threads are created and runnable, in some order.
ThreadsInit ==
    /\ rtr \in Injection(1..Cardinality(Threads), Threads)
    /\ running = Head(rtr)
    /\ cpu = "thread"
    /\ state = [t \in Threads |-> "running"]
    /\ wq = <<>>

\* The running thread t joins the wait queue and leaves the processor.
BlockThread(t, newState) ==
    /\ wq' = Append(wq, t)
    /\ rtr' = Tail(rtr)
    /\ state' = [state EXCEPT ![t] = newState]
    /\ cpu' = "switch"
    /\ UNCHANGED running

ScheduleWakeup(t) ==
    /\ rtr' = Append(rtr, t)
    /\ state' = [state EXCEPT ![t] = "running"]

\* wakeup_thread of the head of the wait queue.  A thread whose wait has
\* expired is runnable already: it only leaves the queue.
WakeupFirst ==
    /\ wq # <<>>
    /\ wq' = Tail(wq)
    /\ IF state[Head(wq)] = "running"
       THEN UNCHANGED <<rtr, state>>
       ELSE ScheduleWakeup(Head(wq))
    /\ UNCHANGED core

\* wait_queue_try_remove
TryRemove(t) ==
    IF Queued(t)
    THEN \E i \in DOMAIN wq : wq[i] = t /\ wq' = RemoveAt(wq, i)
    ELSE UNCHANGED wq

\* Timeouts are looked at in switch_thread only.  The thread becomes runnable
\* and stays in the wait queue.
Expire(t) ==
    /\ cpu # "thread"
    /\ state[t] = "blocked_w_tmo"
    /\ ScheduleWakeup(t)
    /\ UNCHANGED <<core, wq>>

\* switch_thread finds no thread to run and waits for an interrupt.
Idle ==
    /\ cpu = "switch"
    /\ rtr = <<>>
    /\ cpu' = "idle"
    /\ UNCHANGED <<rtr, running, state, wq>>

\* The run list seen from the thread behind its i-th one.
After(list, i) == SubSeq(list, i + 1, Len(list)) \o SubSeq(list, 1, i)

\* The end of switch_thread: the thread behind the one that ran last when that
\* one may run still, or again, and the head of the list otherwise.
Switch ==
    /\ cpu # "thread"
    /\ rtr # <<>>
    /\ IF cpu = "switch" /\ state[running] = "running"
       THEN \E i \in DOMAIN rtr : rtr[i] = running /\ rtr' = After(rtr, i)
       ELSE rtr' = rtr
    /\ running' = Head(rtr')
    /\ cpu' = "thread"
    /\ UNCHANGED <<state, wq>>

Yield(t) ==
    /\ Runs(t)
    /\ cpu' = "switch"
    /\ UNCHANGED <<rtr, running, state, wq>>
=============================================================================
