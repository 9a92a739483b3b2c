------------------------------ MODULE Timeout -------------------------------
(***************************************************************************)
(* Tick tasks and the interval timers that run on them: two lists of       *)
(* pointers, each ended by a null pointer, that the tick interrupt walks   *)
(* by position while what it calls may take entries out and put others in. *)
(* Interrupts do not nest: within a tick only what the tick calls runs.    *)
(* What Mutex has under the same name is called Timers... here: one module,*)
(* KernelProofs, extends the two.                                          *)
(***************************************************************************)
EXTENDS Integers, FiniteSets

CONSTANTS
    Timeouts,       \* the struct timeout objects
    Others,         \* the tick tasks besides timeout_tick
    TimeoutTick,    \* the tick task timeout_tick
    None,           \* the null pointer
    MaxTimeouts,    \* MAX_NUM_TIMEOUTS
    MaxTasks,       \* MAX_NUM_TICK_TASKS
    Wrap,           \* values of current_tick: 2^32
    MaxDelay        \* bound on the ticks a timeout is set for

Tasks == Others \cup {TimeoutTick}
ASSUME PointersAssumption == None \notin Timeouts \cup Tasks /\ TimeoutTick \notin Others
ASSUME SlotsAssumption == MaxTimeouts \in Nat \ {0}
ASSUME RoomAssumption ==
    IsFiniteSet(Others) /\ MaxTasks \in Nat /\ Cardinality(Others) < MaxTasks
ASSUME HalfRangeAssumption ==
    /\ MaxDelay \in Nat \ {0}
    /\ Wrap \in Nat
    /\ MaxDelay + MaxTimeouts < Wrap \div 2

VARIABLES
    current_tick,
    tmo_list,       \* slots 1..MaxTimeouts + 1, the last one for the null
    expires,        \* per timeout
    tick_funcs,     \* slots 1..MaxTasks + 1
    taskAt,         \* p of call_tick_tasks, 0 between ticks
    fn,             \* the tick task that runs, None between tasks
    at,             \* p of timeout_tick, 0 when it does not run
    callback        \* the timeout whose callback runs, or None

walkVars == <<taskAt, fn, at, callback>>
timersVars == <<current_tick, tmo_list, expires, tick_funcs, walkVars>>

Slots == 1..(MaxTimeouts + 1)
TaskSlots == 1..(MaxTasks + 1)
Ticks == 0..(Wrap - 1)

TimersTypeOK ==
    /\ current_tick \in Ticks
    /\ tmo_list \in [Slots -> Timeouts \cup {None}]
    /\ expires \in [Timeouts -> Ticks]
    /\ tick_funcs \in [TaskSlots -> Tasks \cup {None}]
    /\ taskAt \in {0} \cup TaskSlots
    /\ fn \in Tasks \cup {None}
    /\ at \in {0} \cup Slots
    /\ callback \in Timeouts \cup {None}

TimersInit ==
    /\ current_tick = 0
    /\ tmo_list = [i \in Slots |-> None]
    /\ expires = [t \in Timeouts |-> 0]
    /\ tick_funcs = [i \in TaskSlots |-> None]
    /\ taskAt = 0 /\ fn = None /\ at = 0 /\ callback = None
-----------------------------------------------------------------------------
(* Lists of pointers *)

\* find_array_ptr: the slot of x, or that of the terminating null.
Find(arr, x) ==
    CHOOSE i \in DOMAIN arr :
        /\ arr[i] \in {x, None}
        /\ \A j \in 1..(i - 1) : arr[j] \notin {x, None}

RemovedLeavingLast(arr, x) ==
    [i \in DOMAIN arr |->
        IF Find(arr, x) <= i /\ i < Find(arr, None) - 1 THEN arr[i + 1] ELSE arr[i]]
\* remove_array_ptr: the items behind x, and the null, slide up by one.
Removed(arr, x) ==
    [i \in DOMAIN arr |->
        IF Find(arr, x) <= i /\ i < Find(arr, None) THEN arr[i + 1] ELSE arr[i]]

Listed(arr, x) == \E i \in DOMAIN arr : arr[i] = x
Empty(arr) == arr[1] = None

BeforeUnsigned(a, b) == a < b
\* TIME_BEFORE, on the signed difference.
Before(a, b) == (a - b) % Wrap >= Wrap \div 2
-----------------------------------------------------------------------------
(* What threads, interrupt handlers, tick tasks and callbacks call *)

Caller == taskAt = 0 \/ fn \in Others \/ callback # None

\* timeout_register: a timeout that finds no room is dropped.
Register(t, ticks) ==
    LET p == Find(tmo_list, t) IN
    /\ p <= MaxTimeouts
    /\ tmo_list' = [tmo_list EXCEPT ![p] = t]
    /\ tick_funcs' = IF Empty(tmo_list)
                     THEN [tick_funcs EXCEPT ![Find(tick_funcs, TimeoutTick)] = TimeoutTick]
                     ELSE tick_funcs
    /\ expires' = [expires EXCEPT ![t] = (current_tick + ticks) % Wrap]

\* timeout_cancel
Cancel(t) ==
    /\ tmo_list' = Removed(tmo_list, t)
    /\ tick_funcs' = IF Listed(tmo_list, t) /\ Empty(tmo_list')
                     THEN Removed(tick_funcs, TimeoutTick)
                     ELSE tick_funcs

CallRegister == \E t \in Timeouts, ticks \in 1..MaxDelay :
    /\ Caller
    /\ Register(t, ticks)
    /\ UNCHANGED <<current_tick, walkVars>>

CallCancel == \E t \in Timeouts :
    /\ Caller
    /\ Cancel(t)
    /\ UNCHANGED <<expires, current_tick, walkVars>>

\* tick_add_task and tick_remove_task, which threads call.
AddTask(f) ==
    /\ taskAt = 0
    /\ tick_funcs' = [tick_funcs EXCEPT ![Find(tick_funcs, f)] = f]
    /\ UNCHANGED <<current_tick, tmo_list, expires, walkVars>>

RemoveTask(f) ==
    /\ taskAt = 0
    /\ tick_funcs' = Removed(tick_funcs, f)
    /\ UNCHANGED <<current_tick, tmo_list, expires, walkVars>>
-----------------------------------------------------------------------------
(* The tick interrupt: call_tick_tasks *)

Tick ==
    /\ taskAt = 0
    /\ current_tick' = (current_tick + 1) % Wrap
    /\ taskAt' = 1
    /\ UNCHANGED <<tmo_list, expires, tick_funcs, fn, at, callback>>

CallTask ==
    /\ taskAt > 0 /\ fn = None
    /\ tick_funcs[taskAt] # None
    /\ fn' = tick_funcs[taskAt]
    /\ at' = IF fn' = TimeoutTick THEN 1 ELSE 0
    /\ UNCHANGED <<current_tick, tmo_list, expires, tick_funcs, taskAt, callback>>

TaskReturns ==
    /\ fn \in Others \/ (at > 0 /\ callback = None /\ tmo_list[at] = None)
    /\ fn' = None
    /\ at' = 0
    /\ taskAt' = taskAt + 1
    /\ UNCHANGED <<current_tick, tmo_list, expires, tick_funcs, callback>>

TickEnds ==
    /\ taskAt > 0 /\ fn = None
    /\ tick_funcs[taskAt] = None
    /\ taskAt' = 0
    /\ UNCHANGED <<current_tick, tmo_list, expires, tick_funcs, fn, at, callback>>
-----------------------------------------------------------------------------
(* timeout_tick *)

Pending(t) == Before(current_tick, expires[t])
AtTimeout == at > 0 /\ callback = None /\ tmo_list[at] # None

PassPending ==
    /\ AtTimeout /\ Pending(tmo_list[at])
    /\ at' = at + 1
    /\ UNCHANGED <<current_tick, tmo_list, expires, tick_funcs, taskAt, fn, callback>>

CallExpired ==
    /\ AtTimeout /\ ~Pending(tmo_list[at])
    /\ callback' = tmo_list[at]
    /\ UNCHANGED <<current_tick, tmo_list, expires, tick_funcs, taskAt, fn, at>>

\* The callback returns the ticks to its next call.
Reload(ticks) ==
    /\ callback # None
    /\ expires' = [expires EXCEPT ![callback] = (current_tick + ticks) % Wrap]
    /\ callback' = None
    /\ at' = at + 1
    /\ UNCHANGED <<current_tick, tmo_list, tick_funcs, taskAt, fn>>

\* The callback returns zero: the list closes up, and p moves on all the same.
Stop ==
    /\ callback # None
    /\ Cancel(callback)
    /\ callback' = None
    /\ at' = at + 1
    /\ UNCHANGED <<current_tick, expires, taskAt, fn>>

TimersNext ==
    \/ CallRegister \/ CallCancel
    \/ \E f \in Others : AddTask(f) \/ RemoveTask(f)
    \/ Tick \/ CallTask \/ TaskReturns \/ TickEnds
    \/ PassPending \/ CallExpired \/ Stop
    \/ \E ticks \in 1..MaxDelay : Reload(ticks)

TimersSpec == TimersInit /\ [][TimersNext]_timersVars
-----------------------------------------------------------------------------
(* Properties *)

\* Both lists stay without gaps and duplicates, whatever callbacks take out
\* in the middle of a walk: the slots behind the null hold null as well, so
\* that a walk whose list shrinks under it still stops (general.c:226-232).
CompactList(arr) ==
    /\ \A i \in DOMAIN arr, j \in DOMAIN arr :
         i < j /\ arr[j] # None => arr[i] \notin {None, arr[j]}
    /\ Listed(arr, None)
ListsCompact == CompactList(tmo_list) /\ CompactList(tick_funcs)

\* timeout_tick is among the tick tasks exactly while timeouts are set: else
\* they never expire, or a tick is spent on nothing (timeout.c:52, 83).
TickTaskMatches == Listed(tick_funcs, TimeoutTick) <=> ~Empty(tmo_list)

\* A walk passes over the entry that slides into a slot it has left, but a
\* timeout is passed over at most once for each slot it moves up: between
\* ticks, one in slot i is overdue by less than MaxTimeouts - i ticks
\* (timeout.c:26-42).
LatenessBounded ==
    taskAt = 0 =>
        \A i \in Slots : tmo_list[i] # None =>
            LET t == tmo_list[i] IN
            ~Pending(t) => (current_tick - expires[t]) % Wrap < MaxTimeouts - i

\* Timeouts and tick tasks are where the tick interrupt looks for them, whatever
\* their callbacks set and cancel under it (timeout.c, tick.c).
ListsKept == TimersTypeOK /\ ListsCompact /\ TickTaskMatches
=============================================================================
