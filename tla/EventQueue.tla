----------------------------- MODULE EventQueue -----------------------------
(***************************************************************************)
(* An event queue of the kernel: a ring of messages that threads and       *)
(* interrupt handlers post, that threads send and wait for an answer to,   *)
(* and that one thread receives.  Each step is one section that runs with  *)
(* interrupts off; steps of threads and of handlers interleave.            *)
(***************************************************************************)
EXTENDS Naturals, FiniteSets, Sequences, SequencesExt, FiniteSetsExt

CONSTANTS
    Ids,            \* message identifiers
    Senders,        \* threads that send
    None,           \* NULL
    Builds          \* how the kernel is built and used
\* length is QUEUE_LENGTH; read and write count modulo wrap, 2^32 in the code;
\* pending bounds write - read: length unless the queue overflows; extended is
\* HAVE_EXTENDED_MESSAGING_AND_NAME; sends: queue_enable_queue_send is called;
\* deep: queue_peek_ex also removes messages behind the head, which no queue of
\* the source does, and one that threads send to must not: a copy of a sender is
\* left in the slot that was the head.
Build == [length : Nat, wrap : Nat, pending : Nat,
          extended : BOOLEAN, sends : BOOLEAN, deep : BOOLEAN]
ASSUME BuildsAssumption ==
    /\ Builds \subseteq Build
    /\ \A b \in Builds :
        /\ b.length > 0 /\ b.pending > 0
        /\ b.wrap % b.length = 0 /\ b.wrap > b.pending
        /\ b.sends => b.extended
        /\ b.deep => b.extended /\ b.pending <= b.length /\ ~b.sends
ASSUME NoneAssumption == None \notin Senders

VARIABLES
    build,      \* the build that runs
    events,     \* per slot: the message [id, from]
    senders,    \* per slot: the thread that waits for an answer to it
    read,       \* q->read
    write,      \* q->write
    sending,    \* q->send # NULL
    curr,       \* curr_sender
    sender,     \* per sender: "run", "waiting", or answered "zero" or "reply"
    receiver,   \* "run"; "blocked": in q->queue; "expired": in q->queue still,
                \* but runnable; "woken": runnable and out of q->queue
    call,       \* the arguments of the receiver's wait: a timeout, an ev
    got         \* the receiver's *ev: a message, or None for SYS_TIMEOUT

ringVars == <<events, senders, read, write>>
sendVars == <<sending, curr, sender>>
receiverVars == <<receiver, call, got>>
vars == <<build, ringVars, sendVars, receiverVars>>

Length == build.length
Wrap == build.wrap
Slots == 0..(Length - 1)
Message == [id : Ids, from : Senders \cup {None}]
Calls == [tmo : BOOLEAN, ev : BOOLEAN]

TypeOK ==
    /\ build \in Builds
    /\ events \in [Slots -> Message]
    /\ senders \in [Slots -> Senders \cup {None}]
    /\ read \in 0..(Wrap - 1) /\ write \in 0..(Wrap - 1)
    /\ sending \in BOOLEAN
    /\ curr \in Senders \cup {None}
    /\ sender \in [Senders -> {"run", "waiting", "zero", "reply"}]
    /\ receiver \in {"run", "blocked", "expired", "woken"}
    /\ call \in Calls
    /\ got \in Message \cup {None}

\* queue_init: what the counters start with is irrelevant.
Init ==
    /\ build \in Builds
    /\ events \in {[i \in Slots |-> [id |-> id, from |-> None]] : id \in Ids}
    /\ senders = [i \in Slots |-> None]
    /\ read \in 0..(Wrap - 1) /\ write = read
    /\ sending = FALSE
    /\ curr = None
    /\ sender = [s \in Senders |-> "run"]
    /\ receiver = "run"
    /\ call = [tmo |-> FALSE, ev |-> FALSE]
    /\ got = None

Pending == (write + Wrap - read) % Wrap
Slot(n) == n % Length
Nth(i) == Slot(read + i - 1)                    \* the slot of the i-th message
Window == {Nth(i) : i \in 1..Pending}
Msgs == [i \in 1..Pending |-> events[Nth(i)]]

\* queue_release_sender: threads S get value and wake up.
Answered(S, value) ==
    [s \in Senders |-> IF s \in S /\ sender[s] # "run" THEN value ELSE sender[s]]

\* queue_wake_waiter
WakeReceiver ==
    /\ receiver' = IF receiver \in {"blocked", "expired"} THEN "woken" ELSE receiver
    /\ UNCHANGED <<call, got>>
-----------------------------------------------------------------------------
EnableSend ==
    /\ build.sends /\ ~sending
    /\ sending' = TRUE
    /\ senders' = [i \in Slots |-> None]
    /\ curr' = None
    /\ UNCHANGED <<events, read, write, sender, receiverVars>>

\* The slot at write gets the message; a thread that waits at that index, which
\* only an overflow leaves there, is answered.
Put(message, waiter) ==
    LET slot == Slot(write)
        woken == Answered({senders[slot]}, "zero")
    IN  /\ Pending < build.pending
        /\ write' = (write + 1) % Wrap
        /\ events' = [events EXCEPT ![slot] = message]
        /\ senders' = IF sending THEN [senders EXCEPT ![slot] = waiter] ELSE senders
        /\ sender' = [s \in Senders |-> IF s = waiter THEN "waiting"
                                        ELSE IF sending THEN woken[s] ELSE sender[s]]
        /\ UNCHANGED <<read, sending, curr>>

Post(id) == Put([id |-> id, from |-> None], None) /\ WakeReceiver

\* Without a sender list queue_send posts and returns at once.
Send(s, id) ==
    /\ build.extended /\ sender[s] = "run"
    /\ IF sending
       THEN Put([id |-> id, from |-> s], s)
       ELSE Put([id |-> id, from |-> None], None)
    /\ WakeReceiver

\* queue_send returns.
Return(s) ==
    /\ sender[s] \in {"zero", "reply"}
    /\ sender' = [sender EXCEPT ![s] = "run"]
    /\ UNCHANGED <<ringVars, sending, curr, receiverVars>>
-----------------------------------------------------------------------------
NoCall == [tmo |-> FALSE, ev |-> FALSE]
Empty == Pending = 0

\* The message whose handling ends without a reply is answered with zero.
AutoReply == sender' = Answered({curr}, "zero")

\* queue_do_fetch_sender: who waits for an answer to the message at slot becomes
\* the current sender.
Fetch(slot, otherwise) ==
    IF sending /\ senders[slot] # None
    THEN curr' = senders[slot] /\ senders' = [senders EXCEPT ![slot] = None]
    ELSE curr' = otherwise /\ UNCHANGED senders

\* Mutant of Dequeue: the sender stays with the slot.
DequeueOnly(otherwise) ==
    /\ got' = Head(Msgs)
    /\ read' = (read + 1) % Wrap
    /\ curr' = otherwise
    /\ UNCHANGED <<events, senders, write>>

Dequeue(otherwise) ==
    /\ got' = Head(Msgs)
    /\ read' = (read + 1) % Wrap
    /\ Fetch(Slot(read), otherwise)
    /\ UNCHANGED <<events, write>>

\* queue_wait, queue_wait_w_tmo with a message in the queue.
WaitTake(ev) ==
    /\ receiver = "run" /\ ~Empty
    /\ ev \/ build.extended
    /\ AutoReply
    /\ IF ev THEN Dequeue(None) ELSE curr' = None /\ UNCHANGED <<ringVars, got>>
    /\ UNCHANGED <<sending, receiver, call>>

\* Mutant of WaitBlock: the current sender is kept waiting.
WaitBlockSilent(c) ==
    /\ receiver = "run" /\ Empty
    /\ c.ev \/ build.extended
    /\ receiver' = "blocked" /\ call' = c
    /\ UNCHANGED <<ringVars, sendVars, got>>

WaitBlock(c) ==
    /\ receiver = "run" /\ Empty
    /\ c.ev \/ build.extended
    /\ AutoReply /\ curr' = None
    /\ receiver' = "blocked" /\ call' = c
    /\ UNCHANGED <<ringVars, sending, got>>

\* queue_wait_w_tmo with no ticks to wait.
Poll ==
    /\ receiver = "run" /\ Empty
    /\ AutoReply /\ curr' = None
    /\ got' = None \/ (build.extended /\ got' = got)      \* ev is NULL
    /\ UNCHANGED <<ringVars, sending, receiver, call>>

\* The timeout makes the receiver runnable and leaves it in the queue.
Expire ==
    /\ receiver = "blocked" /\ call.tmo
    /\ receiver' = "expired"
    /\ UNCHANGED <<ringVars, sendVars, call, got>>

Resumes == receiver \in {"expired", "woken"}

ResumeTake ==
    /\ Resumes /\ ~Empty
    /\ receiver' = "run" /\ call' = NoCall
    /\ IF call.ev THEN Dequeue(curr) ELSE UNCHANGED <<ringVars, curr, got>>
    /\ UNCHANGED <<sending, sender>>

\* The message that woke it has gone, and there is time left.
ResumeBlock ==
    /\ receiver = "woken" /\ Empty
    /\ receiver' = "blocked"
    /\ UNCHANGED <<ringVars, sendVars, call, got>>

ResumeTimeout ==
    /\ Resumes /\ Empty /\ call.tmo
    /\ receiver' = "run" /\ call' = NoCall
    /\ got' = IF call.ev THEN None ELSE got
    /\ UNCHANGED <<ringVars, sendVars>>

Reply ==
    /\ receiver = "run" /\ sending /\ curr # None
    /\ sender' = Answered({curr}, "reply")
    /\ curr' = None
    /\ UNCHANGED <<ringVars, sending, receiverVars>>
-----------------------------------------------------------------------------
\* The i-th message is the first one that passes some filter; a search that is
\* not deep ends at the head.
Found(i) ==
    /\ i = 1 \/ build.deep
    /\ \A j \in 1..(i - 1) : Msgs[j].id # Msgs[i].id

\* The messages before the i-th move one slot towards the tail.
Slide(slots, i) ==
    [s \in Slots |-> IF s \in {Nth(k) : k \in 2..i} THEN slots[Slot(s + Length - 1)]
                                                   ELSE slots[s]]

\* queue_peek_ex removes the i-th message: its slot has no sender any more.
CloseGap(i) ==
    /\ read' = (read + 1) % Wrap
    /\ events' = Slide(events, i)
    /\ senders' = IF sending THEN Slide([senders EXCEPT ![Nth(i)] = None], i) ELSE senders
    /\ UNCHANGED write

\* queue_peek_ex, called by the receiver for the message.
PeekTake(i) ==
    /\ build.extended /\ receiver = "run"
    /\ Found(i)
    /\ got' = Msgs[i]
    /\ AutoReply
    /\ curr' = IF sending THEN senders[Nth(i)] ELSE curr
    /\ CloseGap(i)
    /\ UNCHANGED <<sending, receiver, call>>

\* queue_peek_ex, called by anybody to drop the message: queue_remove_from_head
\* is a loop of these at the head.
PeekDrop(i) ==
    /\ build.extended /\ Found(i)
    /\ sender' = Answered(IF sending THEN {senders[Nth(i)]} ELSE {}, "zero")
    /\ CloseGap(i)
    /\ UNCHANGED <<sending, curr, receiverVars>>

\* queue_remove_from_head of the smaller build: every leading message with id.
RemoveFromHead(id) ==
    /\ ~build.extended
    /\ \E n \in 1..Pending :
        /\ \A i \in 1..n : Msgs[i].id = id
        /\ n < Pending => Msgs[n + 1].id # id
        /\ read' = (read + n) % Wrap
    /\ UNCHANGED <<events, senders, write, sendVars, receiverVars>>

\* queue_release_all_senders
ReleaseAll(others) ==
    IF sending
    THEN /\ sender' = Answered({senders[s] : s \in Window} \cup others, "zero")
         /\ senders' = [s \in Slots |-> IF s \in Window THEN None ELSE senders[s]]
    ELSE UNCHANGED <<sender, senders>>

Clear ==
    /\ read' = write
    /\ ReleaseAll({})
    /\ UNCHANGED <<events, write, sending, curr, receiverVars>>

\* Mutant of Delete: the sender of the message being handled is forgotten.
DeleteForgets ==
    /\ read' = write
    /\ ReleaseAll({})
    /\ sending' = FALSE
    /\ curr' = None
    /\ WakeReceiver
    /\ UNCHANGED <<events, write>>

Delete ==
    /\ read' = write
    /\ ReleaseAll({curr})
    /\ sending' = FALSE
    /\ curr' = None
    /\ WakeReceiver
    /\ UNCHANGED <<events, write>>
-----------------------------------------------------------------------------
Step ==
    \/ EnableSend
    \/ \E id \in Ids : Post(id) \/ RemoveFromHead(id)
    \/ \E s \in Senders : (\E id \in Ids : Send(s, id)) \/ Return(s)
    \/ \E ev \in BOOLEAN : WaitTake(ev)
    \/ \E c \in Calls : WaitBlock(c)
    \/ Poll \/ Expire \/ ResumeTake \/ ResumeBlock \/ ResumeTimeout \/ Reply
    \/ \E i \in 1..Pending : PeekTake(i) \/ PeekDrop(i)
    \/ Clear \/ Delete

Next == Step /\ UNCHANGED build

Spec == Init /\ [][Next]_vars

\* The receiver is a loop round queue_wait, and runnable threads run.
QueueWait == WaitTake(TRUE) \/ \E tmo \in BOOLEAN : WaitBlock([tmo |-> tmo, ev |-> TRUE])
Fairness ==
    /\ WF_vars((ResumeTake \/ ResumeBlock \/ ResumeTimeout) /\ UNCHANGED build)
    /\ SF_vars(QueueWait /\ UNCHANGED build)

FairSpec == Spec /\ Fairness
-----------------------------------------------------------------------------
\* The receiver is in the wait queue only while there is no message: otherwise it
\* would sleep on a message, or leave with one and still be linked in the queue.
QueuedOnlyWhenEmpty == receiver \in {"blocked", "expired"} => Empty

\* A thread that waits for an answer is in one place where an answer comes from:
\* the slot of one message in the queue, or curr_sender.
SenderTracked ==
    \A s \in Senders : sender[s] = "waiting" =>
        Cardinality({i \in Window : senders[i] = s}) + (IF curr = s THEN 1 ELSE 0) = 1

\* The queue does what EventQueueSpec promises.  Nothing is promised of one that
\* may overflow: the source calls that a fatal error.
Fits == build.pending <= build.length
Promise == INSTANCE EventQueueSpec WITH
    msgs <- IF Fits THEN Msgs ELSE <<>>,
    got <- IF Fits THEN got ELSE None,
    current <- IF Fits THEN curr ELSE None,
    sender <- IF Fits THEN sender ELSE [s \in Senders |-> "run"]
Implements == Promise!Spec

\* A thread that sends a message is answered, even when the queue overflows,
\* provided its receiver goes on waiting for messages.
AnswerComes == \A s \in Senders : sender[s] = "waiting" ~> sender[s] # "waiting"

\* Where the receiver and the senders are is right whatever was posted, removed
\* or timed out (queue.c): the two above and the types of the variables.
Tracked == TypeOK /\ QueuedOnlyWhenEmpty /\ SenderTracked
=============================================================================
