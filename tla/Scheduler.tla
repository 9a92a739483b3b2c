----------------------------- MODULE Scheduler ------------------------------
(***************************************************************************)
(* The kernel's threads on one core, without priorities: slots that are    *)
(* taken and given back, the run list, the list of threads with a timeout  *)
(* and its walk inside switch_thread, which lets interrupts in between two *)
(* of its entries.  Interrupts are disabled from the call that gives the   *)
(* processor up to that walk.                                              *)
(* What BtLink and DeviceList have under the same name is called Sched...  *)
(* here: one module, BootProofs, extends the three.                        *)
(***************************************************************************)
EXTENDS Integers, FiniteSets, Sequences, SequencesExt

CONSTANTS
    MaxThreads,     \* MAXTHREADS
    Wrap,           \* values of current_tick: 2^32
    Period,         \* the longest time between two walks: 60 * HZ
    MaxDelay,       \* bound on the ticks a thread sleeps or waits for
    MaxLate,        \* bound on the ticks a thread keeps the processor too long
    None,           \* no thread, no queue
    Object          \* a kernel object's wait queue

Slots == 0..(MaxThreads - 1)
Main == 0
Queues == Slots \cup {Object}       \* thread->queue of every thread, and the object's
Ticks == 0..(Wrap - 1)

ASSUME NamesAssumption == None \notin Queues /\ Object \notin Slots
ASSUME SizesAssumption == MaxThreads \in Nat \ {0}
ASSUME HalfRangeAssumption ==
    /\ Period \in Nat \ {0} /\ MaxDelay \in Nat /\ MaxLate \in Nat /\ Wrap \in Nat
    /\ Period + MaxLate < Wrap \div 2 /\ MaxDelay + 1 + MaxLate < Wrap \div 2

VARIABLES
    state, wqp,                 \* per slot: fields of struct thread_entry
    tmo_tick,                   \* the same, 0 while its value is not read any more
    avail,                      \* threadalloc.avail
    queue,                      \* per queue, from its head
    rtr, tmo,                   \* the run list and the timeout list, from their heads
    running,                    \* the thread that runs; in switch_thread its variable thread
    next_tmo_check,
    current_tick,
    cpu,                        \* "thread", "switch" (interrupts disabled), "walk", "idle"
                                \* or "awake" (an interrupt has ended the idling)
    walk                        \* check_tmo_expired_inner: tick, next_tmo_check and
                                \* the place of the entry it looks at next

slotVars == <<state, tmo_tick, wqp>>
schedVars == <<slotVars, avail, queue, rtr, tmo, running, next_tmo_check, current_tick, cpu, walk>>

States == {"killed", "running", "blocked", "sleeping", "blocked_w_tmo", "frozen"}
Timed == {"sleeping", "blocked_w_tmo"}      \* state >= TIMEOUT_STATE_FIRST, but frozen
NoWalk == [tick |-> 0, check |-> 0, at |-> 0]

\* TIME_BEFORE, on the signed difference.
Before(a, b) == (a - b) % Wrap >= Wrap \div 2

SchedTypeOK ==
    /\ state \in [Slots -> States]
    /\ tmo_tick \in [Slots -> Ticks]
    /\ wqp \in [Slots -> Queues \cup {None}]
    /\ avail \subseteq Slots
    /\ queue \in [Queues -> Seq(Slots)]
    /\ rtr \in Seq(Slots) /\ tmo \in Seq(Slots)
    /\ running \in Slots \cup {None}
    /\ next_tmo_check \in Ticks /\ current_tick \in Ticks
    /\ cpu \in {"thread", "switch", "walk", "idle", "awake"}
    /\ walk \in [tick : Ticks, check : Ticks, at : Nat]

\* init_threads: the main thread runs, in the first slot.
SchedInit ==
    /\ state = [s \in Slots |-> IF s = Main THEN "running" ELSE "killed"]
    /\ tmo_tick = [s \in Slots |-> 0]
    /\ wqp = [s \in Slots |-> None]
    /\ avail = Slots \ {Main}
    /\ queue = [q \in Queues |-> <<>>]
    /\ rtr = <<Main>> /\ tmo = <<>>
    /\ running = Main
    /\ next_tmo_check = 0 /\ current_tick = 0
    /\ cpu = "thread"
    /\ walk = NoWalk
-----------------------------------------------------------------------------
(* Lists *)

\* ll_remove
Without(list, s) ==
    IF s \in Range(list) THEN RemoveAt(list, CHOOSE i \in DOMAIN list : list[i] = s) ELSE list
After(list, i) == SubSeq(list, i + 1, Len(list)) \o SubSeq(list, 1, i)

\* Mutant of Registered: an entry left over is not looked for.
RegisteredAgain(s) == Append(tmo, s)
\* tmo_queue_register: an entry left over from an earlier wait is used again.
Registered(s) == IF s \in Range(tmo) THEN tmo ELSE Append(tmo, s)

\* Mutant of PrepareBlock: the next check stays where it is.
PrepareBlockLeaves(s, newState, timeout) ==
    LET due == (current_tick + timeout) % Wrap IN
    /\ rtr' = Without(rtr, s)
    /\ tmo_tick' = [tmo_tick EXCEPT ![s] = due]
    /\ UNCHANGED next_tmo_check
    /\ tmo' = Registered(s)
    /\ state' = [state EXCEPT ![s] = newState]
    /\ cpu' = "switch"

\* prepare_block, and switch_thread's entry
PrepareBlock(s, newState, timeout) ==
    LET due == (current_tick + timeout) % Wrap IN
    /\ rtr' = Without(rtr, s)
    /\ tmo_tick' = [tmo_tick EXCEPT ![s] = due]
    /\ next_tmo_check' = IF Before(due, next_tmo_check) THEN due ELSE next_tmo_check
    /\ tmo' = Registered(s)
    /\ state' = [state EXCEPT ![s] = newState]
    /\ cpu' = "switch"

\* the same without a timeout
PrepareBlockForever(s, newState) ==
    /\ rtr' = Without(rtr, s)
    /\ state' = [state EXCEPT ![s] = newState]
    /\ cpu' = "switch"
    /\ UNCHANGED <<tmo_tick, next_tmo_check>>

\* core_schedule_wakeup of the threads in list, one after the other
Schedule(list) ==
    /\ rtr' = rtr \o list
    /\ state' = [s \in Slots |-> IF s \in Range(list) THEN "running" ELSE state[s]]
    /\ tmo_tick' = [s \in Slots |-> IF s \in Range(list) THEN 0 ELSE tmo_tick[s]]
-----------------------------------------------------------------------------
(* What the thread that runs calls.  After a wait that has expired it takes *)
(* itself off the wait queue before it calls anything else.                 *)

Calls(t) == cpu = "thread" /\ running = t /\ wqp[t] = None

Sleep(t, ticks) ==
    /\ Calls(t)
    /\ PrepareBlock(t, "sleeping", ticks + 1)
    /\ UNCHANGED <<wqp, avail, queue, running, current_tick, walk>>

\* block_thread on q
Register(t, q) ==
    /\ wqp' = [wqp EXCEPT ![t] = q]
    /\ queue' = [queue EXCEPT ![q] = Append(@, t)]

BlockWithTimeout(t, ticks) ==
    /\ Calls(t)
    /\ Register(t, Object)
    /\ PrepareBlock(t, "blocked_w_tmo", ticks)
    /\ UNCHANGED <<avail, running, current_tick, walk>>

Block(t) ==
    /\ Calls(t)
    /\ Register(t, Object)
    /\ PrepareBlockForever(t, "blocked")
    /\ UNCHANGED <<avail, tmo, running, current_tick, walk>>

\* thread_wait with the id of a thread that has not exited yet: with any other
\* id it returns at once.
ThreadWait(t, s) ==
    /\ Calls(t)
    /\ t # s /\ state[s] # "killed"
    /\ Register(t, s)
    /\ PrepareBlockForever(t, "blocked")
    /\ UNCHANGED <<avail, tmo, running, current_tick, walk>>

Yield(t) ==
    /\ Calls(t)
    /\ cpu' = "switch"
    /\ UNCHANGED <<slotVars, avail, queue, rtr, tmo, running, next_tmo_check, current_tick, walk>>

\* wait_queue_try_remove, by a thread whose wait may have expired
TryRemove(t) ==
    /\ cpu = "thread" /\ running = t /\ wqp[t] # None
    /\ queue' = [queue EXCEPT ![wqp[t]] = Without(@, t)]
    /\ wqp' = [wqp EXCEPT ![t] = None]
    /\ UNCHANGED <<state, tmo_tick, avail, rtr, tmo, running, next_tmo_check,
                   current_tick, cpu, walk>>

\* create_thread takes the first free slot.
Create(t, frozen) ==
    /\ Calls(t)
    /\ \E s \in avail :
       /\ \A u \in avail : s <= u
       /\ avail' = avail \ {s}
       /\ queue' = [queue EXCEPT ![s] = <<>>]
       /\ wqp' = [wqp EXCEPT ![s] = None]
       /\ IF frozen
          THEN state' = [state EXCEPT ![s] = "frozen"] /\ UNCHANGED <<rtr, tmo_tick>>
          ELSE Schedule(<<s>>)
    /\ UNCHANGED <<tmo, running, next_tmo_check, current_tick, cpu, walk>>

ThreadThaw(t, s) ==
    /\ Calls(t)
    /\ state[s] = "frozen"
    /\ Schedule(<<s>>)
    /\ UNCHANGED <<wqp, avail, queue, tmo, running, next_tmo_check,
                   current_tick, cpu, walk>>

\* thread_exit and thread_exit_final: every thread that waits for this one is
\* woken, and the slot is free for the next.  The main thread stays.
ThreadExit(t) ==
    /\ Calls(t)
    /\ t # Main
    /\ tmo' = Without(tmo, t)
    /\ rtr' = Without(rtr, t) \o queue[t]
    /\ state' = [s \in Slots |-> IF s = t THEN "killed"
                                 ELSE IF s \in Range(queue[t]) THEN "running" ELSE state[s]]
    /\ wqp' = [s \in Slots |-> IF s \in Range(queue[t]) THEN None ELSE wqp[s]]
    /\ queue' = [queue EXCEPT ![t] = <<>>]
    /\ avail' = avail \cup {t}
    /\ running' = None
    /\ cpu' = "switch"
    /\ UNCHANGED <<tmo_tick, next_tmo_check, current_tick, walk>>
-----------------------------------------------------------------------------
(* Interrupts, and wakeups from threads and interrupt handlers *)

IrqEnabled == cpu \in {"thread", "idle", "awake"} \/ (cpu = "walk" /\ walk.at <= Len(tmo))
Interrupted == cpu' = IF cpu = "idle" THEN "awake" ELSE cpu

\* wakeup_thread of the first thread in the object's queue: one whose wait has
\* expired runs already and only leaves the queue.
WakeFirst ==
    /\ IrqEnabled
    /\ queue[Object] # <<>>
    /\ LET s == Head(queue[Object]) IN
       /\ queue' = [queue EXCEPT ![Object] = Tail(@)]
       /\ wqp' = [wqp EXCEPT ![s] = None]
       /\ IF state[s] = "running" THEN UNCHANGED <<state, tmo_tick, rtr>> ELSE Schedule(<<s>>)
    /\ Interrupted
    /\ UNCHANGED <<avail, tmo, running, next_tmo_check, current_tick, walk>>

\* The tick interrupt.  MaxLate bounds how long a thread keeps the processor.
Tick ==
    /\ IrqEnabled
    /\ Before(current_tick, (next_tmo_check + MaxLate) % Wrap)
    /\ current_tick' = (current_tick + 1) % Wrap
    /\ Interrupted
    /\ UNCHANGED <<slotVars, avail, queue, rtr, tmo, running, next_tmo_check, walk>>
-----------------------------------------------------------------------------
(* switch_thread *)

Looking == cpu \in {"switch", "awake"}

\* Mutant of Elect: the first thread is taken, whoever gave the processor up.
ElectFirst ==
    /\ rtr # <<>>
    /\ running' = Head(rtr)
    /\ cpu' = "thread"
    /\ UNCHANGED rtr

\* The thread after the one that gave the processor up, if that one is still
\* or again on the run list, and the first one otherwise.
Elect ==
    /\ rtr # <<>>
    /\ IF running # None /\ state[running] = "running"
       THEN \E i \in DOMAIN rtr : rtr[i] = running /\ rtr' = After(rtr, i)
       ELSE rtr' = rtr
    /\ running' = Head(rtr')
    /\ cpu' = "thread"

Idle ==
    /\ rtr = <<>>
    /\ running' = None
    /\ cpu' = "idle"
    /\ UNCHANGED rtr

SwitchThread ==
    /\ Looking
    /\ Before(current_tick, next_tmo_check)
    /\ Elect \/ Idle
    /\ UNCHANGED <<slotVars, avail, queue, tmo, next_tmo_check, current_tick, walk>>

BeginWalk ==
    /\ Looking
    /\ ~Before(current_tick, next_tmo_check)
    /\ walk' = [tick |-> current_tick, check |-> (current_tick + Period) % Wrap, at |-> 1]
    /\ cpu' = "walk"
    /\ UNCHANGED <<slotVars, avail, queue, rtr, tmo, running, next_tmo_check, current_tick>>

Looked == tmo[walk.at]

\* An entry whose timeout is still to come.
WalkPast ==
    /\ cpu = "walk" /\ walk.at <= Len(tmo)
    /\ state[Looked] \in Timed /\ Before(walk.tick, tmo_tick[Looked])
    /\ walk' = [walk EXCEPT !.at = @ + 1,
                            !.check = IF Before(tmo_tick[Looked], @) THEN tmo_tick[Looked] ELSE @]
    /\ UNCHANGED <<slotVars, avail, queue, rtr, tmo, running, next_tmo_check, current_tick, cpu>>

\* Mutant of WalkRemove: an entry leaves the list whether it is due or not.
WalkRemoveAny ==
    /\ cpu = "walk" /\ walk.at <= Len(tmo)
    /\ tmo' = RemoveAt(tmo, walk.at)
    /\ IF state[Looked] \in Timed THEN Schedule(<<Looked>>) ELSE UNCHANGED <<state, tmo_tick, rtr>>
    /\ UNCHANGED <<wqp, avail, queue, running, next_tmo_check, current_tick,
                   cpu, walk>>

\* An entry whose timeout is over, or that is garbage, leaves the list.
WalkRemove ==
    /\ cpu = "walk" /\ walk.at <= Len(tmo)
    /\ ~(state[Looked] \in Timed /\ Before(walk.tick, tmo_tick[Looked]))
    /\ tmo' = RemoveAt(tmo, walk.at)
    /\ IF state[Looked] \in Timed THEN Schedule(<<Looked>>) ELSE UNCHANGED <<state, tmo_tick, rtr>>
    /\ UNCHANGED <<wqp, avail, queue, running, next_tmo_check, current_tick,
                   cpu, walk>>

EndWalk ==
    /\ cpu = "walk" /\ walk.at > Len(tmo)
    /\ next_tmo_check' = walk.check
    /\ walk' = NoWalk
    /\ Elect \/ Idle
    /\ UNCHANGED <<slotVars, avail, queue, tmo, current_tick>>

Switcher == SwitchThread \/ BeginWalk \/ WalkPast \/ WalkRemove \/ EndWalk

ThreadNext(t) ==
    \/ \E ticks \in 0..MaxDelay : Sleep(t, ticks)
    \/ \E ticks \in 1..MaxDelay : BlockWithTimeout(t, ticks)
    \/ Block(t) \/ TryRemove(t) \/ Yield(t) \/ ThreadExit(t)
    \/ \E s \in Slots : ThreadWait(t, s) \/ ThreadThaw(t, s)
    \/ \E frozen \in BOOLEAN : Create(t, frozen)

SchedNext == (\E t \in Slots : ThreadNext(t)) \/ WakeFirst \/ Tick \/ Switcher

SchedSpec == SchedInit /\ [][SchedNext]_schedVars

\* switch_thread goes on, the timer's interrupt stays pending until it is
\* taken, and no thread keeps the processor for ever.
SchedFairness ==
    /\ WF_schedVars(Switcher)
    /\ SF_schedVars(Tick)
    /\ WF_schedVars(\E t \in Slots : Yield(t) \/ TryRemove(t))

SchedFairSpec == SchedSpec /\ SchedFairness
-----------------------------------------------------------------------------
\* The lists and the states tell the same: a thread is on the run list, once,
\* exactly while its state says so; one that is to be woken by time is on the
\* timeout list, once; a thread is in the queue its wqp names and in no other;
\* a slot is free exactly while its state says so, and then on no list, so that
\* whoever gets it starts clean (thread.c, thread-common.c).
Once(list) == \A i, j \in DOMAIN list : list[i] = list[j] => i = j
ListsAgree ==
    /\ Once(rtr) /\ \A s \in Slots : s \in Range(rtr) <=> state[s] = "running"
    /\ Once(tmo) /\ \A s \in Slots : state[s] \in Timed => s \in Range(tmo)
    /\ \A q \in Queues : Once(queue[q]) /\ \A s \in Slots : s \in Range(queue[q]) <=> wqp[s] = q
    /\ avail = {s \in Slots : state[s] = "killed"}
    /\ avail \cap Range(tmo) = {}

\* The next look at the timeouts is never later than the first of them, what
\* a walk under way has still to find included (prepare_block,
\* check_tmo_expired_inner).
CheckCovers ==
    \A i \in DOMAIN tmo : state[tmo[i]] \in Timed =>
        IF cpu = "walk"
        THEN i < walk.at => ~Before(tmo_tick[tmo[i]], walk.check)
        ELSE ~Before(tmo_tick[tmo[i]], next_tmo_check)

\* Nobody waits for a thread that has exited: its waiters would wait for ever,
\* or for the next thread in its slot (thread_wait, thread_exit_final).
NobodyWaitsForDead == \A s \in Slots : state[s] = "killed" => queue[s] = <<>>

\* Time alone wakes no thread before its time, however the ticks wrap and
\* whatever a walk found in the list (sleep, check_tmo_expired_inner).
NeverEarly ==
    [][\A s \in Slots :
        state[s] \in Timed /\ state'[s] = "running" /\ wqp'[s] = wqp[s]
            => ~Before(current_tick, tmo_tick[s])]_schedVars

\* A thread that may run gets its turn, and one with a timeout may run again in
\* time, whatever the others and the interrupts do: stated for the main thread,
\* which switch_thread does not treat apart.
Turn == state[Main] \in Timed \cup {"running"} ~> cpu = "thread" /\ running = Main

\* The switcher's lists are right at every interrupt: they agree with the states,
\* and the slot of a thread that is gone is left by all (thread.c).
ListsKept == SchedTypeOK /\ ListsAgree /\ NobodyWaitsForDead
=============================================================================
