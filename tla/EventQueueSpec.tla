--------------------------- MODULE EventQueueSpec ---------------------------
(***************************************************************************)
(* What an event queue of the kernel promises: messages come out in the    *)
(* order they were put in, and a thread that sends one is answered for     *)
(* that message, once: with the reply to it, or with zero when it is       *)
(* dropped or when its receiver goes on without replying.                  *)
(***************************************************************************)
EXTENDS Naturals, Sequences, SequencesExt

CONSTANTS Ids, Senders, None

VARIABLES
    msgs,       \* the messages in the queue: [id, from]
    got,        \* the message that was received last, None on a timeout
    current,    \* the sender of the message being handled, or None
    sender      \* per sender: "run", "waiting", or answered "zero" or "reply"

vars == <<msgs, got, current, sender>>

Message == [id : Ids, from : Senders \cup {None}]

Init ==
    /\ msgs = <<>>
    /\ got = None
    /\ current = None
    /\ sender = [s \in Senders |-> "run"]

\* The senders of S among those that wait are answered.
Answer(S, value) ==
    [s \in Senders |-> IF s \in S /\ sender[s] = "waiting" THEN value ELSE sender[s]]

Post(id) ==
    /\ msgs' = Append(msgs, [id |-> id, from |-> None])
    /\ UNCHANGED <<got, current, sender>>

Send(s, id) ==
    /\ sender[s] = "run"
    /\ msgs' = Append(msgs, [id |-> id, from |-> s])
    /\ sender' = [sender EXCEPT ![s] = "waiting"]
    /\ UNCHANGED <<got, current>>

FirstOfKind(i) == \A j \in 1..(i - 1) : msgs[j].id # msgs[i].id

\* The receiver goes on: it takes message i, or waits for one.
Take(i) ==
    /\ FirstOfKind(i)
    /\ got' = msgs[i]
    /\ msgs' = RemoveAt(msgs, i)
    /\ current' = msgs[i].from
    /\ sender' = Answer({current}, "zero")

GoOn ==
    /\ got' = got \/ (got' = None /\ msgs = <<>>)
    /\ current' = None
    /\ sender' = Answer({current}, "zero")
    /\ UNCHANGED msgs

Reply ==
    /\ current' = None
    /\ sender' = Answer({current}, "reply")
    /\ UNCHANGED <<msgs, got>>

\* Message i is dropped; or the first n: all, or the leading ones of one kind.
Drop(i) ==
    /\ FirstOfKind(i)
    /\ msgs' = RemoveAt(msgs, i)
    /\ sender' = Answer({msgs[i].from}, "zero")
    /\ UNCHANGED <<got, current>>

DropFirst(n) ==
    /\ \/ n = Len(msgs)
       \/ msgs[n].id # msgs[n + 1].id /\ \A i \in 1..n : msgs[i].id = msgs[n].id
    /\ msgs' = SubSeq(msgs, n + 1, Len(msgs))
    /\ sender' = Answer({msgs[i].from : i \in 1..n}, "zero")
    /\ UNCHANGED <<got, current>>

\* The queue is deleted: nobody is left waiting.
Close ==
    /\ msgs' = <<>>
    /\ current' = None
    /\ sender' = Answer(Senders, "zero")
    /\ UNCHANGED got

Return(s) ==
    /\ sender[s] \in {"zero", "reply"}
    /\ sender' = [sender EXCEPT ![s] = "run"]
    /\ UNCHANGED <<msgs, got, current>>

Next ==
    \/ \E id \in Ids : Post(id)
    \/ \E s \in Senders : (\E id \in Ids : Send(s, id)) \/ Return(s)
    \/ \E i \in DOMAIN msgs : Take(i) \/ Drop(i) \/ DropFirst(i)
    \/ GoOn \/ Reply \/ Close

Spec == Init /\ [][Next]_vars
=============================================================================
