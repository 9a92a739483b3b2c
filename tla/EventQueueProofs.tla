--------------------------- MODULE EventQueueProofs ---------------------------
(***************************************************************************)
(* Proofs about EventQueue, for any builds, messages and senders: who      *)
(* waits is always where an answer comes from, and the queue does what     *)
(* EventQueueSpec promises.                                                *)
(***************************************************************************)
EXTENDS EventQueue, SequenceTheorems, FiniteSetTheorems, TLAPS

(***************************************************************************)
(* Counters that wrap, and the slots of the ring they name.                *)
(***************************************************************************)
LEMMA Quotient ==
    ASSUME NEW a \in Nat, NEW n \in Nat \ {0}
    PROVE  /\ a \div n \in Nat /\ a % n \in 0..(n - 1)
           /\ a = n * (a \div n) + (a % n)
OBVIOUS

LEMMA Remainder ==
    ASSUME NEW n \in Nat \ {0}, NEW k \in Nat, NEW r \in 0..(n - 1)
    PROVE  (n * k + r) % n = r
OBVIOUS

\* The slot of a counter does not change when the counter wraps.
LEMMA SlotWraps ==
    ASSUME NEW L \in Nat \ {0}, NEW W \in Nat \ {0}, W % L = 0, NEW a \in Nat
    PROVE  (a % W) % L = a % L
<1> DEFINE q == a \div W
           k == W \div L
           m == (a % W) \div L
           r == (a % W) % L
<1>1. q \in Nat /\ k \in Nat /\ a % W \in Nat /\ a = W * q + (a % W) /\ W = L * k
    BY Quotient
<1>2. m \in Nat /\ r \in 0..(L - 1) /\ a % W = L * m + r
    BY <1>1, Quotient
<1> HIDE DEF q, k, m, r
<1>3. a = (L * k) * q + L * m + r
    BY <1>1, <1>2
<1>4. k * q + m \in Nat /\ (L * k) * q = L * (k * q)
    BY <1>1, <1>2
<1>5. L * (k * q + m) = L * (k * q) + L * m
    BY <1>1, <1>2
<1>6. a = L * (k * q + m) + r
    BY <1>1, <1>2, <1>3, <1>4, <1>5
<1>7. a % L = r
    BY <1>2, <1>4, <1>6, Remainder
<1> QED
    BY <1>7 DEF r

LEMMA SlotShifts ==
    ASSUME NEW L \in Nat \ {0}, NEW W \in Nat \ {0}, W % L = 0, NEW a \in Nat, NEW k \in Nat
    PROVE  ((a % W) + k) % L = (a + k) % L
<1>1. a \div W \in Nat /\ a % W \in Nat /\ a = W * (a \div W) + (a % W)
    BY Quotient
<1> DEFINE q == a \div W
           r == a % W
<1> HIDE DEF q, r
<1>2. q \in Nat /\ r \in Nat /\ a = W * q + r
    BY <1>1 DEF q, r
<1>3. PICK t \in Nat : t = r + k
    BY <1>2
<1> DEFINE x == t \div W
           y == t % W
<1>4. x \in Nat /\ y \in 0..(W - 1) /\ t = W * x + y
    BY Quotient
<1> HIDE DEF x, y
<1>5. a + k = W * q + (W * x + y)
    BY <1>2, <1>3, <1>4
<1>6. W * (q + x) = W * q + W * x /\ q + x \in Nat
    BY <1>2, <1>4
<1>7. a + k = W * (q + x) + y
    BY <1>2, <1>4, <1>5, <1>6
<1>8. (a + k) % W = y
    BY <1>4, <1>6, <1>7, Remainder
<1>9. (r + k) % L = y % L
    BY <1>3, SlotWraps DEF y
<1>10. PICK u \in Nat : u = a + k
    OBVIOUS
<1>11. u % L = y % L
    BY <1>8, <1>10, SlotWraps
<1> QED
    BY <1>9, <1>10, <1>11 DEF r

\* Fewer than L consecutive numbers have different remainders by L.
LEMMA SlotsDiffer ==
    ASSUME NEW L \in Nat \ {0}, NEW a \in Nat, NEW b \in Nat,
           a <= b, b < a + L, a % L = b % L
    PROVE  a = b
<1> DEFINE x == a \div L
           y == b \div L
<1>1. x \in Nat /\ a % L \in 0..(L - 1) /\ a = L * x + (a % L)
    BY Quotient
<1>2. y \in Nat /\ b = L * y + (b % L)
    BY Quotient
<1> HIDE DEF x, y
<1>3. L * x <= L * y /\ L * y < L * x + L
    BY <1>1, <1>2
<1>4. CASE y > x
    <2>1. L * y >= L * (x + 1) /\ L * (x + 1) = L * x + L
        BY <1>4, <1>1, <1>2
    <2> QED
        BY <2>1, <1>1, <1>2, <1>3
<1>5. CASE y < x
    <2>1. L * x >= L * (y + 1) /\ L * (y + 1) = L * y + L
        BY <1>5, <1>1, <1>2
    <2> QED
        BY <2>1, <1>1, <1>2, <1>3
<1>6. CASE x = y
    BY <1>6, <1>1, <1>2
<1> QED
    BY <1>1, <1>2, <1>4, <1>5, <1>6

\* What lies between two counters, when the one behind goes on.
LEMMA GapShrinks ==
    ASSUME NEW W \in Nat \ {0}, NEW r \in 0..(W - 1), NEW w \in 0..(W - 1),
           NEW n \in 0..((w + W - r) % W)
    PROVE  /\ (r + n) % W \in 0..(W - 1)
           /\ (w + W - ((r + n) % W)) % W = ((w + W - r) % W) - n
<1> DEFINE p == (w + W - r) % W
<1>1. p = IF w >= r THEN w - r ELSE w + W - r
    OBVIOUS
<1>2. p \in 0..(W - 1) /\ n \in 0..p
    BY <1>1
<1> HIDE DEF p
<1>3. (r + n) % W = IF r + n < W THEN r + n ELSE r + n - W
    BY <1>2
<1>4. CASE r + n < W
    <2>1. (r + n) % W = r + n
        BY <1>3, <1>4
    <2>2. w + W - (r + n) = IF w >= r THEN W + (p - n) ELSE p - n
        BY <1>1, <1>2
    <2>3. CASE w >= r
        <3>1. (W + (p - n)) % W = p - n
            BY <1>2
        <3> QED
            BY <3>1, <2>1, <2>2, <2>3 DEF p
    <2>4. CASE ~(w >= r)
        <3>1. (p - n) % W = p - n
            BY <1>2
        <3> QED
            BY <3>1, <2>1, <2>2, <2>4 DEF p
    <2> QED
        BY <2>1, <2>3, <2>4
<1>5. CASE r + n >= W
    <2>1. (r + n) % W = r + n - W
        BY <1>2, <1>3, <1>5
    <2>2. w < r /\ w + W - (r + n - W) = W + (p - n)
        BY <1>1, <1>2, <1>5
    <2>3. (W + (p - n)) % W = p - n
        BY <1>2
    <2> QED
        BY <2>1, <2>2, <2>3 DEF p
<1> QED
    BY <1>2, <1>3, <1>4, <1>5

LEMMA GapKnown ==
    ASSUME NEW W \in Nat \ {0}, NEW r \in 0..(W - 1), NEW w \in 0..(W - 1)
    PROVE  /\ (w + W - r) % W \in 0..(W - 1)
           /\ (w + W - r) % W = 0 <=> r = w
           /\ w = (r + ((w + W - r) % W)) % W
<1> DEFINE p == (w + W - r) % W
<1>1. p = IF w >= r THEN w - r ELSE w + W - r
    OBVIOUS
<1>2. p \in 0..(W - 1) /\ (p = 0 <=> r = w)
    BY <1>1
<1> HIDE DEF p
<1>3. w = (r + p) % W
    BY <1>1, <1>2
<1> QED
    BY <1>2, <1>3 DEF p

\* And when the one in front does.
LEMMA GapGrows ==
    ASSUME NEW W \in Nat \ {0}, NEW r \in 0..(W - 1), NEW w \in 0..(W - 1),
           ((w + W - r) % W) + 1 < W
    PROVE  /\ (w + 1) % W \in 0..(W - 1)
           /\ (((w + 1) % W) + W - r) % W = ((w + W - r) % W) + 1
<1> DEFINE p == (w + W - r) % W
<1>1. p = IF w >= r THEN w - r ELSE w + W - r
    OBVIOUS
<1>2. p \in 0..(W - 1) /\ p + 1 < W
    BY <1>1
<1> HIDE DEF p
<1>3. (w + 1) % W = IF w + 1 < W THEN w + 1 ELSE 0
    OBVIOUS
<1>4. (((w + 1) % W) + W - r) % W = p + 1
    <2>1. CASE w + 1 < W
        BY <2>1, <1>1, <1>2, <1>3
    <2>2. CASE ~(w + 1 < W)
        BY <2>2, <1>1, <1>2, <1>3
    <2> QED
        BY <2>1, <2>2
<1> QED
    BY <1>3, <1>4 DEF p
-----------------------------------------------------------------------------
(***************************************************************************)
(* The window of messages between read and write.                          *)
(***************************************************************************)
LEMMA BuildFacts ==
    ASSUME TypeOK
    PROVE  /\ build \in Build
           /\ Length \in Nat \ {0} /\ Wrap \in Nat \ {0} /\ Wrap % Length = 0
           /\ build.pending \in Nat \ {0} /\ build.pending < Wrap
           /\ build.sends => build.extended /\ ~build.deep
           /\ build.deep => build.extended /\ Fits
BY BuildsAssumption DEF TypeOK, Build, Length, Wrap, Fits

LEMMA WindowFacts ==
    ASSUME TypeOK
    PROVE  /\ Pending \in Nat /\ Pending < Wrap
           /\ Pending = 0 <=> read = write
           /\ \A i \in Nat \ {0} : Nth(i) \in Slots
           /\ Slot(write) = Nth(Pending + 1)
           /\ \A i, j \in 1..Length : Nth(i) = Nth(j) => i = j
<1>1. /\ Length \in Nat \ {0} /\ Wrap \in Nat \ {0} /\ Wrap % Length = 0
      /\ read \in 0..(Wrap - 1) /\ write \in 0..(Wrap - 1)
    BY BuildFacts DEF TypeOK
<1>2. Pending \in 0..(Wrap - 1) /\ (Pending = 0 <=> read = write) /\ write = (read + Pending) % Wrap
    <2>1. Wrap \in Nat \ {0} /\ read \in 0..(Wrap - 1) /\ write \in 0..(Wrap - 1)
        BY <1>1
    <2> QED
        BY <2>1, GapKnown, ZenonT(60) DEF Pending
<1>3. \A a \in Nat : a % Length \in 0..(Length - 1)
    BY <1>1, Quotient
<1>4. \A i \in Nat \ {0} : Nth(i) \in Slots
    BY <1>1, <1>3 DEF Nth, Slot, Slots
<1>5. Slot(write) = Nth(Pending + 1)
    <2>1. (read + Pending) \in Nat /\ read + (Pending + 1) - 1 = read + Pending
        BY <1>1, <1>2
    <2>2. ((read + Pending) % Wrap) % Length = (read + Pending) % Length
        BY <2>1, <1>1, SlotWraps
    <2> QED
        BY <2>1, <2>2, <1>2 DEF Slot, Nth
<1>6. ASSUME NEW i \in 1..Length, NEW j \in 1..Length, Nth(i) = Nth(j), i <= j
      PROVE  i = j
    <2>1. /\ read + i - 1 \in Nat /\ read + j - 1 \in Nat
          /\ read + i - 1 <= read + j - 1 /\ read + j - 1 < (read + i - 1) + Length
        BY <1>1, <1>6
    <2>2. read + i - 1 = read + j - 1
        BY <2>1, <1>1, <1>6, SlotsDiffer DEF Nth, Slot
    <2> QED
        BY <2>2, <1>1
<1>7. \A i, j \in 1..Length : Nth(i) = Nth(j) => i = j
    <2> TAKE i, j \in 1..Length
    <2>1. i <= j \/ j <= i
        BY <1>1
    <2> QED
        BY <2>1, <1>6
<1> QED
    BY <1>1, <1>2, <1>4, <1>5, <1>7

\* The slots seen from a counter n messages further on.
LEMMA SlotsMove ==
    ASSUME TypeOK, NEW n \in Nat, NEW i \in Nat \ {0}
    PROVE  Slot(((read + n) % Wrap) + i - 1) = Nth(i + n)
<1>1. Length \in Nat \ {0} /\ Wrap \in Nat \ {0} /\ Wrap % Length = 0
    BY BuildFacts
<1>2. read \in Nat
    BY BuildFacts DEF TypeOK
<1>3. \A a \in Nat, k \in Nat : ((a % Wrap) + k) % Length = (a + k) % Length
    BY <1>1, SlotShifts
<1>4. read + n \in Nat /\ i - 1 \in Nat
    BY <1>2
<1>5. (((read + n) % Wrap) + (i - 1)) % Length = ((read + n) + (i - 1)) % Length
    BY <1>3, <1>4
<1>6. (read + n) % Wrap \in Nat
    BY <1>1, <1>4, Quotient
<1>7. ((read + n) % Wrap) + i - 1 = ((read + n) % Wrap) + (i - 1)
    BY <1>4, <1>6
<1>8. read + (i + n) - 1 = (read + n) + (i - 1)
    BY <1>2
<1> QED
    BY <1>5, <1>7, <1>8 DEF Slot, Nth

LEMMA CountersMove ==
    ASSUME TypeOK
    PROVE  /\ Pending + 1 < Wrap =>
                /\ (write + 1) % Wrap \in 0..(Wrap - 1)
                /\ (((write + 1) % Wrap) + Wrap - read) % Wrap = Pending + 1
           /\ \A n \in 0..Pending :
                /\ (read + n) % Wrap \in 0..(Wrap - 1)
                /\ (write + Wrap - ((read + n) % Wrap)) % Wrap = Pending - n
<1>1. Wrap \in Nat \ {0} /\ read \in 0..(Wrap - 1) /\ write \in 0..(Wrap - 1)
    BY BuildFacts DEF TypeOK
<1>2. ASSUME Pending + 1 < Wrap
      PROVE  /\ (write + 1) % Wrap \in 0..(Wrap - 1)
             /\ (((write + 1) % Wrap) + Wrap - read) % Wrap = Pending + 1
    BY <1>1, <1>2, GapGrows DEF Pending
<1>3. ASSUME NEW n \in 0..Pending
      PROVE  /\ (read + n) % Wrap \in 0..(Wrap - 1)
             /\ (write + Wrap - ((read + n) % Wrap)) % Wrap = Pending - n
    BY <1>1, <1>3, GapShrinks DEF Pending
<1> QED
    BY <1>2, <1>3

\* n messages leave the queue at its head.
LEMMA ReadMoves ==
    ASSUME TypeOK, NEW n \in 0..Pending, read' = (read + n) % Wrap, UNCHANGED <<build, write>>
    PROVE  /\ read' \in 0..(Wrap - 1)
           /\ Pending' = Pending - n
           /\ \A i \in Nat \ {0} : Nth(i)' = Nth(i + n)
<1>1. Wrap' = Wrap /\ Length' = Length /\ write' = write /\ read' = (read + n) % Wrap
    BY DEF Wrap, Length
<1>2. read' \in 0..(Wrap - 1) /\ Pending' = Pending - n
    <2>1. /\ (read + n) % Wrap \in 0..(Wrap - 1)
          /\ (write + Wrap - ((read + n) % Wrap)) % Wrap = Pending - n
        BY CountersMove
    <2>2. Pending' = (write' + Wrap' - read') % Wrap'
        BY DEF Pending
    <2>3. Pending' = (write + Wrap - ((read + n) % Wrap)) % Wrap
        BY <2>2, <1>1, Zenon
    <2> QED
        BY <2>1, <2>3
<1>3. ASSUME NEW i \in Nat \ {0}
      PROVE  Nth(i)' = Nth(i + n)
    <2>1. n \in Nat
        BY WindowFacts
    <2>2. Nth(i)' = Slot(((read + n) % Wrap) + i - 1)
        BY <1>1 DEF Nth, Slot
    <2> QED
        BY <2>1, <2>2, SlotsMove
<1> QED
    BY <1>2, <1>3

\* A message is put behind the last one.
LEMMA WriteMoves ==
    ASSUME TypeOK, Pending < build.pending, write' = (write + 1) % Wrap, UNCHANGED <<build, read>>
    PROVE  /\ write' \in 0..(Wrap - 1)
           /\ Pending' = Pending + 1
           /\ \A i : Nth(i)' = Nth(i)
<1>1. Wrap' = Wrap /\ Length' = Length
    BY DEF Wrap, Length
<1>2. Pending + 1 < Wrap
    BY BuildFacts, WindowFacts
<1>3. write' \in 0..(Wrap - 1) /\ Pending' = Pending + 1
    BY <1>1, <1>2, CountersMove DEF Pending
<1>4. \A i : Nth(i)' = Nth(i)
    BY <1>1 DEF Nth, Slot
<1> QED
    BY <1>3, <1>4
-----------------------------------------------------------------------------
(***************************************************************************)
(* The inductive invariant.                                                *)
(***************************************************************************)
\* Only a queue that is sent to has threads that wait, and none of them has its
\* message handled while the receiver waits for another one.
SendersKnown ==
    /\ curr # None => sending
    /\ \A s \in Senders : sender[s] = "waiting" => sending
    /\ receiver # "run" => curr = None
    /\ sending => build.sends
    /\ Pending <= build.pending

\* A slot with a sender is that of a message in the queue, and a thread that
\* waits is in one slot, or is curr_sender.
OneWaiter ==
    /\ \A i \in Slots : senders[i] # None => i \in Window /\ sender[senders[i]] = "waiting"
    /\ \A i, j \in Slots : senders[i] = senders[j] /\ senders[i] # None => i = j
    /\ curr # None => sender[curr] = "waiting" /\ \A i \in Slots : senders[i] # curr
    /\ \A s \in Senders : sender[s] = "waiting" => curr = s \/ \E i \in Slots : senders[i] = s

\* The slot of a message has the sender that sent it.
FromKnown ==
    Fits => \A i \in 1..Pending :
        events[Nth(i)].from = IF sending THEN senders[Nth(i)] ELSE None

Inv == TypeOK /\ QueuedOnlyWhenEmpty /\ SendersKnown /\ (sending => OneWaiter) /\ FromKnown

LEMMA AnsweredFacts ==
    ASSUME TypeOK, NEW S, NEW v \in {"run", "waiting", "zero", "reply"}
    PROVE  Answered(S, v) \in [Senders -> {"run", "waiting", "zero", "reply"}]
BY DEF TypeOK, Answered

\* What a step that leaves the ring alone leaves alone.
LEMMA RingStays ==
    ASSUME UNCHANGED <<build, ringVars>>
    PROVE  /\ Slots' = Slots /\ Pending' = Pending /\ Window' = Window /\ Msgs' = Msgs
           /\ \A i : Nth(i)' = Nth(i)
           /\ Empty' = Empty /\ (Fits' <=> Fits)
<1>1. Wrap' = Wrap /\ Length' = Length /\ Slots' = Slots /\ (Fits' <=> Fits)
    BY DEF ringVars, Wrap, Length, Slots, Fits
<1>2. Pending' = Pending /\ Empty' = Empty
    BY <1>1 DEF ringVars, Pending, Empty
<1>3. \A i : Nth(i)' = Nth(i)
    BY <1>1 DEF ringVars, Nth, Slot
<1>4. Window' = Window /\ Msgs' = Msgs
    BY <1>2, <1>3 DEF ringVars, Window, Msgs
<1> QED
    BY <1>1, <1>2, <1>3, <1>4

LEMMA Initially ==
    ASSUME Init
    PROVE  Inv
<1>1. build \in Build /\ Length \in Nat \ {0} /\ Wrap \in Nat \ {0}
    BY BuildsAssumption DEF Init, Build, Length, Wrap
<1>2. TypeOK
    <2>1. events \in [Slots -> Message]
        BY DEF Init, Message
    <2>2. call \in Calls
        BY DEF Init, Calls
    <2>3. read \in 0..(Wrap - 1) /\ write \in 0..(Wrap - 1)
        BY DEF Init
    <2> QED
        BY <2>1, <2>2, <2>3 DEF Init, TypeOK
<1>3. Pending = 0
    BY <1>2, WindowFacts DEF Init
<1>4. SendersKnown /\ FromKnown
    BY <1>1, <1>3 DEF Init, SendersKnown, FromKnown, Build
<1> QED
    BY <1>2, <1>3, <1>4 DEF Init, Inv, QueuedOnlyWhenEmpty

\* The receiver goes on without the thread whose message it handled.
LEMMA ReceiverForgets ==
    ASSUME Inv, UNCHANGED <<build, ringVars, sending>>,
           NEW v \in {"zero", "reply"}, sender' = Answered({curr}, v), curr' = None
    PROVE  SendersKnown' /\ (sending => OneWaiter)' /\ FromKnown'
<1> USE DEF Inv
<1>1. /\ Slots' = Slots /\ Pending' = Pending /\ Window' = Window
      /\ \A i : Nth(i)' = Nth(i)
      /\ (Fits' <=> Fits)
    BY RingStays
<1>2. events' = events /\ senders' = senders /\ sending' = sending /\ build' = build
    BY DEF ringVars
<1>3. FromKnown'
    BY <1>1, <1>2 DEF FromKnown
<1>4. \A s \in Senders : sender'[s] = IF s = curr /\ sender[s] # "run" THEN v ELSE sender[s]
    BY DEF Answered
<1>5. SendersKnown'
    BY <1>1, <1>2, <1>4 DEF SendersKnown
<1>6. ASSUME sending'
      PROVE  OneWaiter'
    <2>1. OneWaiter
        BY <1>2, <1>6
    <2>2. \A i \in Slots : senders[i] \in Senders \cup {None}
        BY DEF TypeOK
    <2>3. \A s \in Senders : sender'[s] = "waiting" <=> s # curr /\ sender[s] = "waiting"
        BY <1>4, <2>1 DEF OneWaiter
    <2> QED
        BY <1>1, <1>2, <2>1, <2>2, <2>3, NoneAssumption DEF OneWaiter
<1> QED
    BY <1>3, <1>5, <1>6

\* A message is put into the queue, with the thread that waits for its answer.
LEMMA PutKeeps ==
    ASSUME Inv, UNCHANGED build,
           NEW message \in Message, NEW waiter \in Senders \cup {None},
           Put(message, waiter), WakeReceiver,
           message.from = waiter, ~sending => waiter = None,
           waiter # None => sender[waiter] = "run"
    PROVE  Inv'
<1> USE DEF Inv
<1> DEFINE slot == Slot(write)
<1>1. /\ Pending < build.pending
      /\ write' = (write + 1) % Wrap /\ read' = read /\ build' = build
      /\ events' = [events EXCEPT ![slot] = message]
      /\ senders' = IF sending THEN [senders EXCEPT ![slot] = waiter] ELSE senders
      /\ \A s \in Senders : sender'[s] =
            IF s = waiter THEN "waiting"
            ELSE IF sending /\ s = senders[slot] /\ sender[s] # "run" THEN "zero" ELSE sender[s]
      /\ sending' = sending /\ curr' = curr
    BY DEF Put, Answered
<1>2. /\ write' \in 0..(Wrap - 1) /\ Pending' = Pending + 1
      /\ \A i : Nth(i)' = Nth(i)
    BY <1>1, WriteMoves
<1>3. /\ Pending \in Nat /\ \A i \in Nat \ {0} : Nth(i) \in Slots
      /\ slot = Nth(Pending + 1) /\ slot \in Slots
      /\ \A i, j \in 1..Length : Nth(i) = Nth(j) => i = j
    BY WindowFacts
<1> HIDE DEF slot
<1>4. Slots' = Slots /\ Wrap' = Wrap /\ (Fits' <=> Fits)
    BY <1>1 DEF Slots, Wrap, Length, Fits
<1>5. TypeOK'
    <2>1. events' \in [Slots -> Message] /\ senders' \in [Slots -> Senders \cup {None}]
        BY <1>1, <1>3 DEF TypeOK
    <2>2. sender' \in [Senders -> {"run", "waiting", "zero", "reply"}]
        BY DEF Put, Answered, TypeOK
    <2>3. receiver' \in {"run", "blocked", "expired", "woken"} /\ call' = call /\ got' = got
        BY DEF WakeReceiver, TypeOK
    <2> QED
        BY <1>1, <1>2, <1>4, <2>1, <2>2, <2>3 DEF TypeOK
<1>6. QueuedOnlyWhenEmpty'
    BY DEF WakeReceiver, QueuedOnlyWhenEmpty
<1>7. SendersKnown'
    <2>1. Pending' <= build'.pending
        BY <1>1, <1>2, <1>3, BuildFacts
    <2>2. receiver' # "run" => curr' = None
        BY <1>1 DEF WakeReceiver, SendersKnown
    <2>3. \A s \in Senders : sender'[s] = "waiting" => sending'
        BY <1>1, NoneAssumption DEF SendersKnown
    <2> QED
        BY <1>1, <2>1, <2>2, <2>3 DEF SendersKnown
<1>8. Window' = Window \cup {slot}
    <2>1. Window' = {Nth(i) : i \in 1..(Pending + 1)}
        BY <1>2 DEF Window
    <2>2. 1..(Pending + 1) = (1..Pending) \cup {Pending + 1}
        BY <1>3
    <2> QED
        BY <2>1, <2>2, <1>3 DEF Window
<1>9. ASSUME sending'
      PROVE  OneWaiter'
    <2>1. OneWaiter /\ sending
        BY <1>1, <1>9
    <2>2. /\ \A i \in Slots : senders[i] \in Senders \cup {None}
          /\ \A i \in Slots : senders'[i] = IF i = slot THEN waiter ELSE senders[i]
          /\ curr \in Senders \cup {None}
        BY <1>1, <2>1 DEF TypeOK
    <2>3. \A i \in Slots : waiter # None => senders[i] # waiter /\ curr # waiter
        BY <2>1, <2>2 DEF OneWaiter
    <2>4. \A i \in Slots : senders'[i] # None => i \in Window' /\ sender'[senders'[i]] = "waiting"
        <3> SUFFICES ASSUME NEW i \in Slots, senders'[i] # None
                     PROVE  i \in Window' /\ sender'[senders'[i]] = "waiting"
            OBVIOUS
        <3>1. CASE i = slot
            BY <3>1, <1>1, <1>8, <2>2
        <3>2. CASE i # slot
            <4>1. senders'[i] = senders[i] /\ senders[i] \in Senders
                BY <3>2, <2>2
            <4>2. i \in Window /\ sender[senders[i]] = "waiting" /\ senders[i] # senders[slot]
                BY <4>1, <3>2, <2>1, <1>3 DEF OneWaiter
            <4> QED
                BY <4>1, <4>2, <1>1, <1>8
        <3> QED
            BY <3>1, <3>2
    <2>5. \A i, j \in Slots : senders'[i] = senders'[j] /\ senders'[i] # None => i = j
        BY <2>1, <2>2, <2>3 DEF OneWaiter
    <2>6. curr' # None => sender'[curr'] = "waiting" /\ \A i \in Slots : senders'[i] # curr'
        BY <1>1, <1>3, <2>1, <2>2, <2>3 DEF OneWaiter
    <2>7. \A s \in Senders : sender'[s] = "waiting" => curr' = s \/ \E i \in Slots : senders'[i] = s
        <3> SUFFICES ASSUME NEW s \in Senders, sender'[s] = "waiting", curr # s
                     PROVE  \E i \in Slots : senders'[i] = s
            BY <1>1
        <3>1. CASE s = waiter
            BY <3>1, <1>3, <2>2
        <3>2. CASE s # waiter
            <4>1. sender[s] = "waiting" /\ s # senders[slot]
                BY <3>2, <1>1, <2>1
            <4>2. PICK i \in Slots : senders[i] = s
                BY <4>1, <2>1 DEF OneWaiter
            <4> QED
                BY <4>1, <4>2, <2>2
        <3> QED
            BY <3>1, <3>2
    <2> QED
        BY <1>4, <2>4, <2>5, <2>6, <2>7 DEF OneWaiter
<1>10. FromKnown'
    <2> SUFFICES ASSUME Fits, NEW i \in 1..(Pending + 1)
                 PROVE  events'[Nth(i)].from = IF sending THEN senders'[Nth(i)] ELSE None
        BY <1>1, <1>2, <1>4 DEF FromKnown
    <2>1. CASE i = Pending + 1
        BY <2>1, <1>1, <1>3 DEF TypeOK
    <2>2. CASE i \in 1..Pending
        <3>1. i \in 1..Length /\ Pending + 1 \in 1..Length /\ i # Pending + 1
            BY <2>2, <1>1, <1>3, BuildFacts DEF Fits, Length
        <3>2. Nth(i) # slot /\ Nth(i) \in Slots
            BY <3>1, <1>3
        <3>3. events'[Nth(i)] = events[Nth(i)] /\ senders'[Nth(i)] = senders[Nth(i)]
            BY <3>2, <1>1 DEF TypeOK
        <3> QED
            BY <3>3, <2>2 DEF FromKnown
    <2> QED
        BY <2>1, <2>2, <1>3
<1> QED
    BY <1>5, <1>6, <1>7, <1>9, <1>10

LEMMA HeadFacts ==
    ASSUME TypeOK, ~Empty
    PROVE  /\ Pending \in Nat /\ 1 \in 1..Pending
           /\ Slot(read) = Nth(1) /\ Nth(1) \in Slots /\ Nth(1) \in Window
           /\ Head(Msgs) = events[Nth(1)] /\ Head(Msgs) \in Message
           /\ Msgs[1] = events[Nth(1)]
<1>1. Pending \in Nat /\ 1 \in 1..Pending /\ Nth(1) \in Slots
    BY WindowFacts DEF Empty
<1>2. Slot(read) = Nth(1)
    BY BuildFacts DEF TypeOK, Nth
<1>3. Nth(1) \in Window
    BY <1>1 DEF Window
<1>4. Msgs[1] = events[Nth(1)] /\ Head(Msgs) = Msgs[1]
    BY <1>1 DEF Msgs
<1> QED
    BY <1>1, <1>2, <1>3, <1>4 DEF TypeOK

\* The head leaves the window; only its slot may.
LEMMA WindowShrinks ==
    ASSUME TypeOK, ~Empty, read' = (read + 1) % Wrap, UNCHANGED <<build, write>>
    PROVE  /\ read' \in 0..(Wrap - 1) /\ Pending' = Pending - 1
           /\ \A i \in Nat \ {0} : Nth(i)' = Nth(i + 1)
           /\ Window \subseteq Window' \cup {Nth(1)}
<1>1. Pending \in Nat /\ 1 \in 0..Pending
    BY HeadFacts
<1>2. /\ read' \in 0..(Wrap - 1) /\ Pending' = Pending - 1
      /\ \A i \in Nat \ {0} : Nth(i)' = Nth(i + 1)
    BY <1>1, ReadMoves
<1>3. ASSUME NEW i \in 1..Pending, i # 1
      PROVE  Nth(i) \in Window'
    <2>1. i - 1 \in 1..Pending' /\ i - 1 \in Nat \ {0} /\ (i - 1) + 1 = i
        BY <1>1, <1>2, <1>3
    <2>2. Nth(i - 1)' = Nth(i)
        BY <2>1, <1>2
    <2>3. Window' = {Nth(k)' : k \in 1..Pending'}
        BY DEF Window
    <2> QED
        BY <2>1, <2>2, <2>3
<1> QED
    BY <1>2, <1>3 DEF Window

\* The head leaves the queue: with its sender, who is now answered or curr_sender.
LEMMA HeadLeaves ==
    ASSUME Inv, ~Empty, UNCHANGED <<build, events, write, sending>>,
           read' = (read + 1) % Wrap,
           senders' = IF sending THEN [senders EXCEPT ![Nth(1)] = None] ELSE senders
    PROVE  /\ read' \in 0..(Wrap - 1) /\ senders' \in [Slots -> Senders \cup {None}]
           /\ Slots' = Slots /\ Wrap' = Wrap /\ Pending' <= build.pending
           /\ FromKnown'
           /\ sending => \A i \in Slots :
                /\ senders'[i] = IF i = Nth(1) THEN None ELSE senders[i]
                /\ i \in Window => i \in Window' \/ i = Nth(1)
<1> USE DEF Inv
<1>1. /\ Pending \in Nat /\ 1 \in 1..Pending /\ Nth(1) \in Slots
      /\ \A i, j \in 1..Length : Nth(i) = Nth(j) => i = j
    BY HeadFacts, WindowFacts
<1>2. /\ read' \in 0..(Wrap - 1) /\ Pending' = Pending - 1
      /\ \A i \in Nat \ {0} : Nth(i)' = Nth(i + 1)
      /\ Window \subseteq Window' \cup {Nth(1)}
    BY WindowShrinks
<1>3. senders' \in [Slots -> Senders \cup {None}]
    BY <1>1 DEF TypeOK
<1>4. sending => \A i \in Slots : senders'[i] = IF i = Nth(1) THEN None ELSE senders[i]
    BY <1>1 DEF TypeOK
<1>5. Slots' = Slots /\ Wrap' = Wrap /\ (Fits' <=> Fits) /\ Pending' <= build.pending
    BY <1>1, <1>2, BuildFacts DEF Slots, Length, Wrap, Fits, SendersKnown
<1>6. FromKnown'
    <2> SUFFICES ASSUME Fits, NEW i \in 1..Pending'
                 PROVE  events[Nth(i)'].from = IF sending THEN senders'[Nth(i)'] ELSE None
        BY <1>5 DEF FromKnown
    <2>1. i \in Nat \ {0} /\ i + 1 \in 1..Pending /\ Nth(i)' = Nth(i + 1)
        BY <1>1, <1>2
    <2>2. i + 1 \in 1..Length /\ 1 \in 1..Length /\ i + 1 # 1
        BY <2>1, <1>1, BuildFacts DEF Fits, Length, SendersKnown
    <2>3. Nth(i + 1) # Nth(1) /\ Nth(i + 1) \in Slots
        BY <2>1, <2>2, <1>1, WindowFacts
    <2>4. events[Nth(i + 1)].from = IF sending THEN senders[Nth(i + 1)] ELSE None
        BY <2>1 DEF FromKnown
    <2> QED
        BY <2>1, <2>3, <2>4, <1>4
<1> QED
    BY <1>2, <1>3, <1>4, <1>5, <1>6

\* The receiver takes the head, and with it the sender that waits for an answer.
LEMMA DequeueKeeps ==
    ASSUME Inv, ~Empty, UNCHANGED <<build, sending>>, AutoReply, Dequeue(None),
           receiver' = "run", call' \in Calls
    PROVE  Inv'
<1> USE DEF Inv
<1>1. /\ Slot(read) = Nth(1) /\ Nth(1) \in Slots /\ Head(Msgs) \in Message
    BY HeadFacts
<1>2. /\ got' = Head(Msgs) /\ read' = (read + 1) % Wrap
      /\ events' = events /\ write' = write /\ build' = build /\ sending' = sending
      /\ senders' = IF sending THEN [senders EXCEPT ![Nth(1)] = None] ELSE senders
      /\ curr' = IF sending THEN senders[Nth(1)] ELSE None
    <2>1. senders[Nth(1)] = None => senders = [senders EXCEPT ![Nth(1)] = None]
        BY <1>1 DEF TypeOK
    <2> QED
        BY <1>1, <2>1 DEF Dequeue, Fetch
<1>3. /\ read' \in 0..(Wrap - 1) /\ senders' \in [Slots -> Senders \cup {None}]
      /\ Slots' = Slots /\ Wrap' = Wrap /\ Pending' <= build.pending
      /\ FromKnown'
      /\ sending => \A i \in Slots :
           /\ senders'[i] = IF i = Nth(1) THEN None ELSE senders[i]
           /\ i \in Window => i \in Window' \/ i = Nth(1)
    BY <1>2, HeadLeaves
<1>4. \A s \in Senders :
        sender'[s] = IF s = curr /\ sender[s] # "run" THEN "zero" ELSE sender[s]
    BY DEF AutoReply, Answered
<1>5. TypeOK'
    <2>1. sender' \in [Senders -> {"run", "waiting", "zero", "reply"}]
        BY AnsweredFacts DEF AutoReply
    <2>2. curr' \in Senders \cup {None}
        BY <1>1, <1>2 DEF TypeOK
    <2> QED
        BY <1>1, <1>2, <1>3, <2>1, <2>2 DEF TypeOK
<1>6. SendersKnown'
    BY <1>2, <1>3, <1>4 DEF SendersKnown
<1>7. ASSUME sending'
      PROVE  OneWaiter'
    <2>1. OneWaiter /\ sending /\ curr' = senders[Nth(1)]
        BY <1>2, <1>7
    <2>2. \A i \in Slots : senders[i] \in Senders \cup {None}
        BY DEF TypeOK
    <2>3. \A s \in Senders : sender'[s] = "waiting" <=> s # curr /\ sender[s] = "waiting"
        BY <1>4, <2>1 DEF OneWaiter
    <2>4. \A i \in Slots : senders[i] # None => i \in Window /\ sender'[senders[i]] = "waiting"
        BY <2>1, <2>2, <2>3 DEF OneWaiter
    <2>5. \A i \in Slots : senders'[i] # None => i \in Window' /\ sender'[senders'[i]] = "waiting"
        BY <2>1, <2>4, <1>3
    <2>6. \A i, j \in Slots : senders'[i] = senders'[j] /\ senders'[i] # None => i = j
        BY <2>1, <1>3 DEF OneWaiter
    <2>7. curr' # None => sender'[curr'] = "waiting" /\ \A i \in Slots : senders'[i] # curr'
        BY <1>1, <1>3, <2>1, <2>4 DEF OneWaiter
    <2>8. \A s \in Senders : sender'[s] = "waiting" => curr' = s \/ \E i \in Slots : senders'[i] = s
        <3> SUFFICES ASSUME NEW s \in Senders, sender'[s] = "waiting", curr' # s
                     PROVE  \E i \in Slots : senders'[i] = s
            OBVIOUS
        <3>1. PICK i \in Slots : senders[i] = s
            BY <2>1, <2>3 DEF OneWaiter
        <3> QED
            BY <3>1, <2>1, <1>3
    <2> QED
        BY <1>3, <2>5, <2>6, <2>7, <2>8 DEF OneWaiter
<1> QED
    BY <1>3, <1>5, <1>6, <1>7 DEF QueuedOnlyWhenEmpty

\* The head is dropped: its sender is answered.
LEMMA DropKeeps ==
    ASSUME Inv, ~Empty, UNCHANGED <<build, events, write, sending, curr, receiverVars>>,
           read' = (read + 1) % Wrap,
           senders' = IF sending THEN [senders EXCEPT ![Nth(1)] = None] ELSE senders,
           sender' = Answered(IF sending THEN {senders[Nth(1)]} ELSE {}, "zero")
    PROVE  Inv'
<1> USE DEF Inv
<1>1. /\ curr' = curr /\ build' = build /\ sending' = sending /\ events' = events /\ write' = write
      /\ receiver' = receiver /\ call' = call /\ got' = got
    BY DEF receiverVars
<1>2. Nth(1) \in Slots
    BY HeadFacts
<1>3. /\ read' \in 0..(Wrap - 1) /\ senders' \in [Slots -> Senders \cup {None}]
      /\ Slots' = Slots /\ Wrap' = Wrap /\ Pending' <= build.pending
      /\ FromKnown'
      /\ sending => \A i \in Slots :
           /\ senders'[i] = IF i = Nth(1) THEN None ELSE senders[i]
           /\ i \in Window => i \in Window' \/ i = Nth(1)
    BY HeadLeaves
<1>4. \A s \in Senders : sender'[s] =
        IF sending /\ s = senders[Nth(1)] /\ sender[s] # "run" THEN "zero" ELSE sender[s]
    BY DEF Answered
<1>5. TypeOK'
    <2>1. sender' \in [Senders -> {"run", "waiting", "zero", "reply"}]
        BY AnsweredFacts
    <2> QED
        BY <1>1, <1>3, <2>1 DEF TypeOK
<1>6. SendersKnown'
    BY <1>1, <1>3, <1>4 DEF SendersKnown
<1>7. ASSUME sending'
      PROVE  OneWaiter'
    <2>1. OneWaiter /\ sending
        BY <1>1, <1>7
    <2>2. \A i \in Slots : senders[i] \in Senders \cup {None}
        BY DEF TypeOK
    <2>3. \A i \in Slots : senders[i] # None /\ i # Nth(1) =>
            i \in Window /\ sender'[senders[i]] = "waiting"
        BY <1>2, <1>4, <2>1, <2>2 DEF OneWaiter
    <2>4. \A i \in Slots : senders'[i] # None => i \in Window' /\ sender'[senders'[i]] = "waiting"
        BY <2>1, <2>3, <1>3
    <2>5. \A i, j \in Slots : senders'[i] = senders'[j] /\ senders'[i] # None => i = j
        BY <2>1, <1>3 DEF OneWaiter
    <2>6. curr' # None => sender'[curr'] = "waiting" /\ \A i \in Slots : senders'[i] # curr'
        BY <1>1, <1>2, <1>3, <1>4, <2>1, ZenonT(60) DEF OneWaiter, TypeOK
    <2>7. \A s \in Senders : sender'[s] = "waiting" => curr' = s \/ \E i \in Slots : senders'[i] = s
        <3> SUFFICES ASSUME NEW s \in Senders, sender'[s] = "waiting", curr # s
                     PROVE  \E i \in Slots : senders'[i] = s
            BY <1>1
        <3>1. sender[s] = "waiting" /\ s # senders[Nth(1)]
            BY <1>4, <2>1
        <3>2. PICK i \in Slots : senders[i] = s
            BY <3>1, <2>1 DEF OneWaiter
        <3> QED
            BY <3>1, <3>2, <2>1, <1>3
    <2> QED
        BY <1>3, <2>4, <2>5, <2>6, <2>7 DEF OneWaiter
<1>8. QueuedOnlyWhenEmpty'
    BY <1>1 DEF QueuedOnlyWhenEmpty
<1> QED
    BY <1>3, <1>5, <1>6, <1>7, <1>8

\* The slot before that of a message is the slot of the message before it.
LEMMA SlotBefore ==
    ASSUME TypeOK, NEW k \in Nat \ {0}
    PROVE  Slot(Nth(k + 1) + Length - 1) = Nth(k)
<1>1. Length \in Nat \ {0} /\ Length % Length = 0
    BY BuildFacts
<1>2. PICK a \in Nat : a = read + k - 1
    BY BuildFacts DEF TypeOK
<1>3. read \in Nat
    BY BuildFacts DEF TypeOK
<1>4. Nth(k + 1) = (a + 1) % Length /\ Nth(k) = a % Length
    <2>1. read + (k + 1) - 1 = a + 1
        BY <1>2, <1>3
    <2> QED
        BY <2>1, <1>2 DEF Nth, Slot
<1>5. \A b \in Nat, c \in Nat : ((b % Length) + c) % Length = (b + c) % Length
    BY <1>1, SlotShifts
<1>6. a + 1 \in Nat /\ Length - 1 \in Nat /\ (a + 1) + (Length - 1) = a + Length
    BY <1>1
<1>7. (((a + 1) % Length) + (Length - 1)) % Length = (a + Length) % Length
    BY <1>5, <1>6
<1>8. (a + Length) % Length = a % Length
    <2>1. a \div Length \in Nat /\ a % Length \in 0..(Length - 1)
          /\ a = Length * (a \div Length) + (a % Length)
        BY <1>1, Quotient
    <2> DEFINE q == a \div Length
               r == a % Length
    <2> HIDE DEF q, r
    <2>2. q \in Nat /\ r \in 0..(Length - 1) /\ a = Length * q + r
        BY <2>1 DEF q, r
    <2>3. Length * (q + 1) = Length * q + Length
        BY <1>1, <2>2
    <2>4. a + Length = Length * (q + 1) + r /\ q + 1 \in Nat
        BY <1>1, <2>2, <2>3
    <2>5. (a + Length) % Length = r
        BY <1>1, <2>2, <2>4, Remainder
    <2> QED
        BY <2>5 DEF r
<1>9. (a + 1) % Length \in Nat
    BY <1>1, <1>6, Quotient
<1>10. ((a + 1) % Length) + Length - 1 = ((a + 1) % Length) + (Length - 1)
    BY <1>1, <1>9
<1> QED
    BY <1>4, <1>7, <1>8, <1>10 DEF Slot

\* The ring with the i-th message taken out of it.
LEMMA SlideFacts ==
    ASSUME TypeOK, NEW S, NEW slots \in [Slots -> S], NEW i \in 1..Pending
    PROVE  /\ Slide(slots, i) \in [Slots -> S]
           /\ Slide(slots, 1) = slots
           /\ Pending <= Length =>
                \A k \in 1..(Pending - 1) :
                    Slide(slots, i)[Nth(k + 1)] = IF k < i THEN slots[Nth(k)] ELSE slots[Nth(k + 1)]
<1>1. /\ Length \in Nat \ {0} /\ Pending \in Nat
      /\ \A k \in Nat \ {0} : Nth(k) \in Slots
      /\ \A j, k \in 1..Length : Nth(j) = Nth(k) => j = k
    BY BuildFacts, WindowFacts
<1>2. \A s \in Slots : Slot(s + Length - 1) \in Slots
    <2>1. \A a \in Nat : a % Length \in 0..(Length - 1)
        BY <1>1, Quotient
    <2>2. \A s \in Slots : s + Length - 1 \in Nat
        BY <1>1 DEF Slots
    <2> QED
        BY <2>1, <2>2 DEF Slot, Slots
<1>3. Slide(slots, i) \in [Slots -> S]
    BY <1>2 DEF Slide
<1>4. Slide(slots, 1) = slots
    <2>1. {Nth(k) : k \in 2..1} = {}
        OBVIOUS
    <2> QED
        BY <2>1 DEF Slide
<1>5. ASSUME Pending <= Length, NEW k \in 1..(Pending - 1)
      PROVE  Slide(slots, i)[Nth(k + 1)] = IF k < i THEN slots[Nth(k)] ELSE slots[Nth(k + 1)]
    <2>1. k \in Nat \ {0} /\ k + 1 \in 1..Length /\ k + 1 \in Nat \ {0} /\ i \in 1..Length
        BY <1>1, <1>5
    <2>2. Nth(k + 1) \in Slots /\ Slot(Nth(k + 1) + Length - 1) = Nth(k)
        BY <2>1, <1>1, SlotBefore
    <2>3. Nth(k + 1) \in {Nth(j) : j \in 2..i} <=> k < i
        <3>1. k < i => k + 1 \in 2..i
            BY <2>1
        <3>2. ASSUME NEW j \in 2..i, Nth(k + 1) = Nth(j)
              PROVE  k < i
            <4>1. j \in 1..Length
                BY <2>1, <1>1
            <4>2. j = k + 1
                BY <4>1, <2>1, <1>1, <3>2
            <4> QED
                BY <4>2, <2>1
        <3> QED
            BY <3>1, <3>2
    <2> QED
        BY <2>2, <2>3 DEF Slide
<1> QED
    BY <1>3, <1>4, <1>5

\* A message is taken out of a queue that nobody sends to.
LEMMA GapKeeps ==
    ASSUME Inv, UNCHANGED <<build, sending, curr, receiver>>, ~sending,
           NEW i \in 1..Pending, i = 1 \/ build.deep, CloseGap(i),
           sender' = [s \in Senders |-> sender[s]],
           got' \in Message \cup {None}, call' \in Calls
    PROVE  Inv'
<1> USE DEF Inv
<1>1. /\ read' = (read + 1) % Wrap /\ write' = write /\ build' = build
      /\ events' = Slide(events, i) /\ senders' = senders
      /\ sending' = sending /\ curr' = curr /\ receiver' = receiver
    BY DEF CloseGap
<1>2. sender' = sender
    BY DEF TypeOK
<1>3. Pending \in Nat /\ ~Empty
    BY WindowFacts DEF Empty
<1>4. /\ read' \in 0..(Wrap - 1) /\ Pending' = Pending - 1
      /\ \A k \in Nat \ {0} : Nth(k)' = Nth(k + 1)
    BY <1>1, <1>3, WindowShrinks
<1>5. Slots' = Slots /\ Wrap' = Wrap /\ (Fits' <=> Fits)
    BY <1>1 DEF Slots, Length, Wrap, Fits
<1>6. events' \in [Slots -> Message]
    BY <1>1, SlideFacts DEF TypeOK
<1>7. TypeOK'
    BY <1>1, <1>2, <1>4, <1>5, <1>6 DEF TypeOK
<1>8. SendersKnown'
    BY <1>1, <1>2, <1>3, <1>4, BuildFacts DEF SendersKnown
<1>9. FromKnown'
    <2> SUFFICES ASSUME Fits, NEW k \in 1..(Pending - 1)
                 PROVE  events'[Nth(k)'].from = None
        BY <1>1, <1>4, <1>5 DEF FromKnown
    <2>1. k \in Nat \ {0} /\ Nth(k)' = Nth(k + 1) /\ k \in 1..Pending /\ k + 1 \in 1..Pending
        BY <1>3, <1>4
    <2>2. Pending <= Length
        BY <1>3, BuildFacts DEF SendersKnown, Fits, Length
    <2>3. events'[Nth(k + 1)] = IF k < i THEN events[Nth(k)] ELSE events[Nth(k + 1)]
        BY <2>2, <1>1, SlideFacts DEF TypeOK
    <2> QED
        BY <2>1, <2>3 DEF FromKnown
<1>10. QueuedOnlyWhenEmpty'
    BY <1>1, <1>3 DEF QueuedOnlyWhenEmpty
<1> QED
    BY <1>1, <1>7, <1>8, <1>9, <1>10

\* The queue is emptied, and all senders with a message in it are answered, the
\* threads of others as well.
LEMMA AllLeave ==
    ASSUME Inv, UNCHANGED <<build, events, write>>, read' = write,
           NEW others, ReleaseAll(others)
    PROVE  /\ read' \in 0..(Wrap' - 1) /\ write' \in 0..(Wrap' - 1)
           /\ senders' \in [Slots' -> Senders \cup {None}]
           /\ events' \in [Slots' -> Message]
           /\ sender' \in [Senders -> {"run", "waiting", "zero", "reply"}]
           /\ Slots' = Slots /\ Pending' = 0 /\ Pending' <= build'.pending
           /\ FromKnown' /\ QueuedOnlyWhenEmpty'
           /\ sending =>
                /\ \A i \in Slots : senders'[i] = None
                /\ \A s \in Senders : sender'[s] =
                      IF (s \in others \/ \E i \in Slots : senders[i] = s) /\ sender[s] # "run"
                      THEN "zero" ELSE sender[s]
           /\ ~sending => sender' = sender
<1> USE DEF Inv
<1>1. /\ Slots' = Slots /\ Wrap' = Wrap /\ Length' = Length /\ build' = build /\ write' = write
      /\ events' = events
    BY DEF Slots, Wrap, Length
<1>2. read' \in 0..(Wrap - 1) /\ write \in 0..(Wrap - 1) /\ Wrap \in Nat \ {0}
    BY BuildFacts DEF TypeOK
<1>3. Pending' = 0
    <2>1. Pending' = (write' + Wrap' - read') % Wrap'
        BY DEF Pending
    <2>2. Pending' = (write + Wrap - write) % Wrap
        BY <2>1, <1>1, Zenon
    <2>3. write + Wrap - write = Wrap /\ Wrap % Wrap = 0
        BY <1>2
    <2> QED
        BY <2>2, <2>3
<1>4. senders' \in [Slots -> Senders \cup {None}]
    BY DEF ReleaseAll, TypeOK
<1>5. sender' \in [Senders -> {"run", "waiting", "zero", "reply"}]
    BY AnsweredFacts DEF ReleaseAll, TypeOK
<1>6. ASSUME sending
      PROVE  /\ \A i \in Slots : senders'[i] = None
             /\ \A s \in Senders : sender'[s] =
                    IF (s \in others \/ \E i \in Slots : senders[i] = s) /\ sender[s] # "run"
                    THEN "zero" ELSE sender[s]
    <2>1. OneWaiter /\ \A i \in Slots : senders[i] \in Senders \cup {None}
        BY <1>6 DEF TypeOK
    <2>2. Window \subseteq Slots
        BY WindowFacts DEF Window
    <2>3. \A i \in Slots : senders'[i] = None
        BY <1>6, <2>1 DEF ReleaseAll, OneWaiter
    <2>4. \A s \in Senders : s \in {senders[k] : k \in Window} <=> \E i \in Slots : senders[i] = s
        BY <2>1, <2>2, NoneAssumption DEF OneWaiter
    <2> QED
        BY <1>6, <2>3, <2>4 DEF ReleaseAll, Answered
<1>7. ~sending => sender' = sender
    BY DEF ReleaseAll
<1>8. FromKnown' /\ QueuedOnlyWhenEmpty'
    BY <1>3 DEF FromKnown, QueuedOnlyWhenEmpty, Empty
<1>9. Pending' <= build'.pending
    BY <1>1, <1>3, BuildFacts
<1> QED
    BY <1>1, <1>2, <1>3, <1>4, <1>5, <1>6, <1>7, <1>8, <1>9 DEF TypeOK

LEMMA ClearKeeps ==
    ASSUME Inv, Clear, UNCHANGED build
    PROVE  Inv'
<1> USE DEF Inv
<1>1. /\ curr' = curr /\ build' = build /\ sending' = sending
      /\ receiver' = receiver /\ call' = call /\ got' = got
    BY DEF Clear, receiverVars
<1>2. /\ read' \in 0..(Wrap' - 1) /\ write' \in 0..(Wrap' - 1)
      /\ senders' \in [Slots' -> Senders \cup {None}]
      /\ events' \in [Slots' -> Message]
      /\ sender' \in [Senders -> {"run", "waiting", "zero", "reply"}]
      /\ Slots' = Slots /\ Pending' <= build'.pending
      /\ FromKnown' /\ QueuedOnlyWhenEmpty'
      /\ sending =>
           /\ \A i \in Slots : senders'[i] = None
           /\ \A s \in Senders : sender'[s] =
                 IF (s \in {} \/ \E i \in Slots : senders[i] = s) /\ sender[s] # "run"
                 THEN "zero" ELSE sender[s]
      /\ ~sending => sender' = sender
    BY AllLeave DEF Clear
<1>3. TypeOK'
    BY <1>1, <1>2 DEF TypeOK
<1>4. SendersKnown'
    BY <1>1, <1>2 DEF SendersKnown
<1>5. sending' => OneWaiter'
    BY <1>1, <1>2 DEF OneWaiter, TypeOK
<1> QED
    BY <1>2, <1>3, <1>4, <1>5

LEMMA DeleteKeeps ==
    ASSUME Inv, Delete, UNCHANGED build
    PROVE  Inv'
<1> USE DEF Inv
<1>1. /\ curr' = None /\ build' = build /\ sending' = FALSE
      /\ receiver' \in {"run", "blocked", "expired", "woken"} /\ call' = call /\ got' = got
    BY DEF Delete, WakeReceiver, TypeOK
<1>2. /\ read' \in 0..(Wrap' - 1) /\ write' \in 0..(Wrap' - 1)
      /\ senders' \in [Slots' -> Senders \cup {None}]
      /\ events' \in [Slots' -> Message]
      /\ sender' \in [Senders -> {"run", "waiting", "zero", "reply"}]
      /\ Slots' = Slots /\ Pending' <= build'.pending
      /\ FromKnown' /\ QueuedOnlyWhenEmpty'
      /\ sending =>
           /\ \A i \in Slots : senders'[i] = None
           /\ \A s \in Senders : sender'[s] =
                 IF (s \in {curr} \/ \E i \in Slots : senders[i] = s) /\ sender[s] # "run"
                 THEN "zero" ELSE sender[s]
      /\ ~sending => sender' = sender
    BY AllLeave DEF Delete
<1>3. TypeOK'
    BY <1>1, <1>2 DEF TypeOK
<1>4. \A s \in Senders : sender'[s] # "waiting"
    BY <1>2 DEF OneWaiter, SendersKnown
<1>5. SendersKnown'
    BY <1>1, <1>2, <1>4 DEF SendersKnown
<1> QED
    BY <1>1, <1>2, <1>3, <1>5

LEMMA RemoveFromHeadKeeps ==
    ASSUME Inv, NEW id \in Ids, RemoveFromHead(id), UNCHANGED build
    PROVE  Inv'
<1> USE DEF Inv
<1>1. PICK n \in 1..Pending : read' = (read + n) % Wrap
    BY DEF RemoveFromHead
<1>2. /\ ~build.extended /\ build' = build /\ write' = write
      /\ events' = events /\ senders' = senders /\ curr' = curr /\ sending' = sending
      /\ sender' = sender /\ receiver' = receiver /\ call' = call /\ got' = got
    BY DEF RemoveFromHead, sendVars, receiverVars
<1>3. ~sending /\ Pending \in Nat /\ n \in 0..Pending
    BY <1>2, BuildFacts, WindowFacts DEF SendersKnown
<1>4. /\ read' \in 0..(Wrap - 1) /\ Pending' = Pending - n
      /\ \A i \in Nat \ {0} : Nth(i)' = Nth(i + n)
    BY <1>1, <1>2, <1>3, ReadMoves
<1>5. Slots' = Slots /\ Wrap' = Wrap /\ (Fits' <=> Fits)
    BY <1>2 DEF Slots, Length, Wrap, Fits
<1>6. TypeOK'
    BY <1>2, <1>4, <1>5 DEF TypeOK
<1>7. SendersKnown'
    BY <1>2, <1>3, <1>4, BuildFacts DEF SendersKnown
<1>8. FromKnown'
    <2> SUFFICES ASSUME Fits, NEW i \in 1..Pending'
                 PROVE  events[Nth(i)'].from = None
        BY <1>2, <1>3, <1>5 DEF FromKnown
    <2>1. Nth(i)' = Nth(i + n) /\ i + n \in 1..Pending
        BY <1>3, <1>4
    <2> QED
        BY <2>1, <1>3 DEF FromKnown
<1>9. QueuedOnlyWhenEmpty'
    BY <1>2, <1>3 DEF QueuedOnlyWhenEmpty, Empty
<1> QED
    BY <1>2, <1>3, <1>6, <1>7, <1>8, <1>9

LEMMA EnableSendKeeps ==
    ASSUME Inv, EnableSend, UNCHANGED build
    PROVE  Inv'
<1> USE DEF Inv
<1>1. /\ build.sends /\ ~sending /\ sending' = TRUE /\ build' = build
      /\ senders' = [i \in Slots |-> None] /\ curr' = None
      /\ events' = events /\ read' = read /\ write' = write /\ sender' = sender
      /\ receiver' = receiver /\ call' = call /\ got' = got
    BY DEF EnableSend, receiverVars
<1>2. /\ Slots' = Slots /\ Wrap' = Wrap /\ Length' = Length /\ (Fits' <=> Fits)
      /\ Pending' = Pending /\ \A i : Nth(i)' = Nth(i)
    BY <1>1 DEF Slots, Wrap, Length, Fits, Pending, Nth, Slot
<1>3. TypeOK'
    BY <1>1, <1>2 DEF TypeOK
<1>4. SendersKnown'
    BY <1>1, <1>2 DEF SendersKnown
<1>5. OneWaiter'
    BY <1>1, <1>2 DEF OneWaiter, SendersKnown
<1>6. FromKnown'
    <2>1. \A i \in 1..Pending : Nth(i) \in Slots
        BY WindowFacts
    <2> QED
        BY <2>1, <1>1, <1>2 DEF FromKnown
<1>7. QueuedOnlyWhenEmpty'
    BY <1>1, <1>2 DEF QueuedOnlyWhenEmpty, Empty
<1> QED
    BY <1>3, <1>4, <1>5, <1>6, <1>7

LEMMA ReturnKeeps ==
    ASSUME Inv, NEW s \in Senders, Return(s), UNCHANGED build
    PROVE  Inv'
<1> USE DEF Inv
<1>1. UNCHANGED <<build, ringVars>>
    BY DEF Return
<1>2. /\ Slots' = Slots /\ Pending' = Pending /\ Window' = Window
      /\ \A i : Nth(i)' = Nth(i)
      /\ Empty' = Empty /\ (Fits' <=> Fits)
    BY <1>1, RingStays
<1>3. /\ sender[s] # "waiting" /\ sender' = [sender EXCEPT ![s] = "run"]
      /\ build' = build /\ events' = events /\ senders' = senders
      /\ read' = read /\ write' = write /\ sending' = sending /\ curr' = curr
      /\ receiver' = receiver /\ call' = call /\ got' = got
    BY DEF Return, ringVars, receiverVars
<1>4. \A t \in Senders : sender'[t] = "waiting" <=> sender[t] = "waiting"
    BY <1>3 DEF TypeOK
<1>5. TypeOK'
    BY <1>2, <1>3 DEF TypeOK, Wrap
<1>6. SendersKnown' /\ FromKnown' /\ QueuedOnlyWhenEmpty'
    BY <1>2, <1>3, <1>4 DEF SendersKnown, FromKnown, QueuedOnlyWhenEmpty
<1>7. sending' => OneWaiter'
    BY <1>2, <1>3, <1>4 DEF OneWaiter, TypeOK
<1> QED
    BY <1>5, <1>6, <1>7

\* Steps of the receiver that leave the messages and the senders alone.
LEMMA ReceiverKeeps ==
    ASSUME Inv, UNCHANGED <<build, ringVars, sendVars>>, receiver # "run",
           receiver' \in {"run", "blocked", "expired"}, receiver' # "run" => Empty,
           call' \in Calls, got' \in Message \cup {None}
    PROVE  Inv'
<1> USE DEF Inv
<1>1. /\ Slots' = Slots /\ Pending' = Pending /\ Window' = Window
      /\ \A i : Nth(i)' = Nth(i)
      /\ Empty' = Empty /\ (Fits' <=> Fits)
    BY RingStays
<1>2. /\ build' = build /\ events' = events /\ senders' = senders /\ sender' = sender
      /\ read' = read /\ write' = write /\ sending' = sending /\ curr' = curr
    BY DEF ringVars, sendVars
<1>3. TypeOK'
    BY <1>1, <1>2 DEF TypeOK, Wrap
<1>4. SendersKnown' /\ FromKnown' /\ QueuedOnlyWhenEmpty'
    BY <1>1, <1>2 DEF SendersKnown, FromKnown, QueuedOnlyWhenEmpty
<1>5. sending' => OneWaiter'
    BY <1>1, <1>2 DEF OneWaiter
<1> QED
    BY <1>3, <1>4, <1>5

\* Steps of the receiver that only part with the message it handled.
LEMMA ForgettingKeeps ==
    ASSUME Inv, UNCHANGED <<build, ringVars, sending>>,
           NEW v \in {"zero", "reply"}, sender' = Answered({curr}, v), curr' = None,
           receiver' \in {"run", "blocked"}, receiver' # "run" => Empty,
           call' \in Calls, got' \in Message \cup {None}
    PROVE  Inv'
<1> USE DEF Inv
<1>1. Slots' = Slots /\ Empty' = Empty
    BY RingStays
<1>2. /\ build' = build /\ events' = events /\ senders' = senders
      /\ read' = read /\ write' = write /\ sending' = sending
    BY DEF ringVars
<1>3. SendersKnown' /\ (sending => OneWaiter)' /\ FromKnown'
    BY ReceiverForgets
<1>4. sender' \in [Senders -> {"run", "waiting", "zero", "reply"}]
    BY AnsweredFacts
<1>5. TypeOK'
    BY <1>1, <1>2, <1>4 DEF TypeOK, Wrap
<1>6. QueuedOnlyWhenEmpty'
    BY <1>1 DEF QueuedOnlyWhenEmpty
<1> QED
    BY <1>3, <1>5, <1>6

\* Until somebody sends, no answer is due.
LEMMA NobodyAnswered ==
    ASSUME TypeOK, curr = None, NEW v
    PROVE  Answered({curr}, v) = sender /\ sender = [s \in Senders |-> sender[s]]
BY NoneAssumption DEF TypeOK, Answered

LEMMA WaitTakeKeeps ==
    ASSUME Inv, NEW ev \in BOOLEAN, WaitTake(ev), UNCHANGED build
    PROVE  Inv'
<1> USE DEF Inv
<1>1. /\ receiver' = "run" /\ ~Empty /\ AutoReply /\ sending' = sending /\ call' = call
    BY DEF WaitTake
<1>2. CASE ev
    BY <1>1, <1>2, DequeueKeeps DEF WaitTake, TypeOK
<1>3. CASE ~ev
    <2>1. UNCHANGED <<build, ringVars, sending>> /\ got' = got /\ curr' = None
        BY <1>1, <1>3 DEF WaitTake
    <2>2. sender' = Answered({curr}, "zero")
        BY <1>1 DEF AutoReply
    <2> QED
        BY <1>1, <2>1, <2>2, ForgettingKeeps DEF TypeOK
<1> QED
    BY <1>2, <1>3

LEMMA ResumeTakeKeeps ==
    ASSUME Inv, ResumeTake, UNCHANGED build
    PROVE  Inv'
<1> USE DEF Inv
<1>1. /\ receiver # "run" /\ receiver' = "run" /\ ~Empty /\ curr = None
      /\ sending' = sending /\ sender' = sender
    BY DEF ResumeTake, Resumes, SendersKnown
<1>2. call' \in Calls
    BY DEF ResumeTake, NoCall, Calls
<1>3. AutoReply
    BY <1>1, NobodyAnswered DEF AutoReply
<1>4. CASE call.ev
    <2>1. Dequeue(None)
        BY <1>1, <1>4 DEF ResumeTake
    <2> QED
        BY <1>1, <1>2, <1>3, <2>1, DequeueKeeps
<1>5. CASE ~call.ev
    <2>1. UNCHANGED <<build, ringVars, sendVars>> /\ got' = got
        BY <1>1, <1>5 DEF ResumeTake, sendVars
    <2> QED
        BY <1>1, <1>2, <2>1, ReceiverKeeps DEF TypeOK
<1> QED
    BY <1>4, <1>5

\* Behind the head nothing is taken out while threads may send.
LEMMA FoundWhere ==
    ASSUME TypeOK, sending => build.sends, NEW i \in 1..Pending, Found(i)
    PROVE  /\ i = 1 \/ build.deep
           /\ sending => i = 1
           /\ ~Empty /\ Pending \in Nat /\ Nth(i) \in Slots
           /\ Msgs[i] = events[Nth(i)] /\ Msgs[i] \in Message
<1>1. i = 1 \/ build.deep
    BY DEF Found
<1>2. sending => i = 1
    BY <1>1, BuildFacts
<1>3. ~Empty /\ Pending \in Nat /\ Nth(i) \in Slots
    BY WindowFacts DEF Empty
<1>4. Msgs[i] = events[Nth(i)]
    BY DEF Msgs
<1> QED
    BY <1>1, <1>2, <1>3, <1>4 DEF TypeOK

\* To take the head out of a queue that is sent to is to dequeue it.
LEMMA PeekIsDequeue ==
    ASSUME Inv, sending, NEW i \in 1..Pending, PeekTake(i), UNCHANGED build
    PROVE  i = 1 /\ ~Empty /\ AutoReply /\ Dequeue(None)
<1> USE DEF Inv
<1>1. i = 1 /\ ~Empty
    BY FoundWhere DEF PeekTake, SendersKnown
<1>2. /\ Slot(read) = Nth(1) /\ Nth(1) \in Slots /\ Head(Msgs) = Msgs[1]
    BY <1>1, HeadFacts
<1>3. /\ got' = Msgs[1] /\ AutoReply /\ curr' = senders[Nth(1)]
      /\ read' = (read + 1) % Wrap /\ write' = write
      /\ events' = Slide(events, 1)
      /\ senders' = Slide([senders EXCEPT ![Nth(1)] = None], 1)
    BY <1>1 DEF PeekTake, CloseGap
<1>4. events' = events /\ senders' = [senders EXCEPT ![Nth(1)] = None]
    <2>1. events \in [Slots -> Message]
          /\ [senders EXCEPT ![Nth(1)] = None] \in [Slots -> Senders \cup {None}]
        BY DEF TypeOK
    <2> QED
        BY <2>1, <1>1, <1>3, SlideFacts
<1>5. Fetch(Slot(read), None)
    <2>1. CASE senders[Nth(1)] # None
        BY <2>1, <1>2, <1>3, <1>4 DEF Fetch
    <2>2. CASE senders[Nth(1)] = None
        <3>1. senders' = senders
            BY <2>2, <1>2, <1>4 DEF TypeOK
        <3> QED
            BY <2>2, <3>1, <1>2, <1>3 DEF Fetch
    <2> QED
        BY <2>1, <2>2
<1> QED
    BY <1>1, <1>2, <1>3, <1>4, <1>5 DEF Dequeue

LEMMA PeekTakeKeeps ==
    ASSUME Inv, NEW i \in 1..Pending, PeekTake(i), UNCHANGED build
    PROVE  Inv'
<1> USE DEF Inv
<1>1. /\ receiver = "run" /\ receiver' = receiver /\ call' = call /\ sending' = sending
      /\ got' = Msgs[i] /\ CloseGap(i)
    BY DEF PeekTake
<1>2. /\ i = 1 \/ build.deep
      /\ Msgs[i] \in Message
    BY FoundWhere DEF PeekTake, SendersKnown
<1>3. CASE sending
    <2>1. ~Empty /\ AutoReply /\ Dequeue(None)
        BY <1>3, PeekIsDequeue
    <2> QED
        BY <1>1, <2>1, DequeueKeeps DEF TypeOK
<1>4. CASE ~sending
    <2>1. curr = None /\ curr' = curr
        BY <1>4 DEF PeekTake, SendersKnown
    <2>2. sender' = [s \in Senders |-> sender[s]]
        BY <2>1, NobodyAnswered DEF PeekTake, AutoReply
    <2> QED
        BY <1>1, <1>2, <1>4, <2>1, <2>2, GapKeeps DEF TypeOK
<1> QED
    BY <1>3, <1>4

LEMMA PeekDropKeeps ==
    ASSUME Inv, NEW i \in 1..Pending, PeekDrop(i), UNCHANGED build
    PROVE  Inv'
<1> USE DEF Inv
<1>1. /\ UNCHANGED <<sending, curr, receiverVars>> /\ CloseGap(i)
      /\ sender' = Answered(IF sending THEN {senders[Nth(i)]} ELSE {}, "zero")
    BY DEF PeekDrop
<1>2. /\ i = 1 \/ build.deep
      /\ sending => i = 1
      /\ ~Empty
    BY FoundWhere DEF PeekDrop, SendersKnown
<1>3. CASE sending
    <2>1. /\ read' = (read + 1) % Wrap /\ write' = write
          /\ events' = Slide(events, 1)
          /\ senders' = Slide([senders EXCEPT ![Nth(1)] = None], 1)
        BY <1>1, <1>2, <1>3 DEF CloseGap
    <2>2. events \in [Slots -> Message]
          /\ [senders EXCEPT ![Nth(1)] = None] \in [Slots -> Senders \cup {None}]
        BY DEF TypeOK
    <2>3. events' = events /\ senders' = [senders EXCEPT ![Nth(1)] = None]
        BY <2>1, <2>2, <1>2, <1>3, SlideFacts
    <2> QED
        BY <1>1, <1>2, <1>3, <2>1, <2>3, DropKeeps
<1>4. CASE ~sending
    <2>1. sender' = [s \in Senders |-> sender[s]]
        BY <1>1, <1>4 DEF Answered
    <2>2. receiver' = receiver /\ call' = call /\ got' = got
        BY <1>1 DEF receiverVars
    <2> QED
        BY <1>1, <1>2, <1>4, <2>1, <2>2, GapKeeps DEF TypeOK
<1> QED
    BY <1>3, <1>4

LEMMA SendKeeps ==
    ASSUME Inv, NEW s \in Senders, NEW id \in Ids, Send(s, id), UNCHANGED build
    PROVE  Inv'
<1>1. TypeOK /\ sender[s] = "run" /\ WakeReceiver
    BY DEF Send, Inv
<1>2. CASE sending
    <2> DEFINE message == [id |-> id, from |-> s]
    <2>1. message \in Message /\ message.from = s
        BY DEF Message
    <2>2. Put(message, s)
        BY <1>2 DEF Send
    <2> HIDE DEF message
    <2> QED
        BY <1>1, <1>2, <2>1, <2>2, PutKeeps
<1>3. CASE ~sending
    <2> DEFINE message == [id |-> id, from |-> None]
    <2>1. message \in Message /\ message.from = None
        BY DEF Message
    <2>2. Put(message, None)
        BY <1>3 DEF Send
    <2> HIDE DEF message
    <2> QED
        BY <1>1, <1>3, <2>1, <2>2, PutKeeps
<1> QED
    BY <1>2, <1>3

LEMMA PostKeeps ==
    ASSUME Inv, NEW id \in Ids, Post(id), UNCHANGED build
    PROVE  Inv'
<1> DEFINE message == [id |-> id, from |-> None]
<1>1. message \in Message /\ message.from = None
    BY DEF Message
<1>2. Put(message, None) /\ WakeReceiver
    BY DEF Post
<1> HIDE DEF message
<1> QED
    BY <1>1, <1>2, PutKeeps

LEMMA NextKeeps ==
    ASSUME Inv, [Next]_vars
    PROVE  Inv'
<1>1. CASE UNCHANGED vars
    BY <1>1 DEF vars, ringVars, sendVars, receiverVars, Inv, TypeOK, QueuedOnlyWhenEmpty,
        SendersKnown, OneWaiter, FromKnown, Fits, Empty, Pending, Window, Nth, Slot, Slots,
        Length, Wrap
<1>2. CASE Next
    <2>1. Step /\ UNCHANGED build /\ TypeOK
        BY <1>2 DEF Next, Inv
    <2>2. CASE EnableSend
        BY <2>1, <2>2, EnableSendKeeps
    <2>3. CASE \E id \in Ids : Post(id) \/ RemoveFromHead(id)
        BY <2>1, <2>3, PostKeeps, RemoveFromHeadKeeps
    <2>4. CASE \E s \in Senders : (\E id \in Ids : Send(s, id)) \/ Return(s)
        BY <2>1, <2>4, SendKeeps, ReturnKeeps
    <2>5. CASE \E ev \in BOOLEAN : WaitTake(ev)
        BY <2>1, <2>5, WaitTakeKeeps
    <2>6. CASE \E c \in Calls : WaitBlock(c)
        <3>1. PICK c \in Calls : WaitBlock(c)
            BY <2>6
        <3>2. /\ UNCHANGED <<build, ringVars, sending>> /\ Empty
              /\ sender' = Answered({curr}, "zero") /\ curr' = None
              /\ receiver' = "blocked" /\ call' \in Calls /\ got' = got
            BY <2>1, <3>1 DEF WaitBlock, AutoReply
        <3> QED
            BY <2>1, <3>2, ForgettingKeeps DEF TypeOK
    <2>7. CASE Poll
        <3>1. /\ UNCHANGED <<build, ringVars, sending>> /\ Empty
              /\ sender' = Answered({curr}, "zero") /\ curr' = None
              /\ receiver' = "run" /\ call' = call /\ (got' = None \/ got' = got)
            BY <2>1, <2>7 DEF Poll, AutoReply
        <3> QED
            BY <2>1, <3>1, ForgettingKeeps DEF TypeOK
    <2>8. CASE Expire
        <3>1. /\ UNCHANGED <<build, ringVars, sendVars>> /\ receiver # "run"
              /\ receiver' = "expired" /\ Empty /\ call' = call /\ got' = got
            BY <2>1, <2>8 DEF Expire, Inv, QueuedOnlyWhenEmpty
        <3> QED
            BY <2>1, <3>1, ReceiverKeeps DEF TypeOK
    <2>9. CASE ResumeTake
        BY <2>1, <2>9, ResumeTakeKeeps
    <2>10. CASE ResumeBlock
        <3>1. /\ UNCHANGED <<build, ringVars, sendVars>> /\ receiver # "run"
              /\ receiver' = "blocked" /\ Empty /\ call' = call /\ got' = got
            BY <2>1, <2>10 DEF ResumeBlock
        <3> QED
            BY <2>1, <3>1, ReceiverKeeps DEF TypeOK
    <2>11. CASE ResumeTimeout
        <3>1. /\ UNCHANGED <<build, ringVars, sendVars>> /\ receiver # "run"
              /\ receiver' = "run" /\ call' \in Calls /\ (got' = None \/ got' = got)
            BY <2>1, <2>11 DEF ResumeTimeout, Resumes, NoCall, Calls
        <3> QED
            BY <2>1, <3>1, ReceiverKeeps DEF TypeOK
    <2>12. CASE Reply
        <3>1. /\ UNCHANGED <<build, ringVars, sending>>
              /\ sender' = Answered({curr}, "reply") /\ curr' = None
              /\ receiver' = "run" /\ call' = call /\ got' = got
            BY <2>1, <2>12 DEF Reply, receiverVars
        <3> QED
            BY <2>1, <3>1, ForgettingKeeps DEF TypeOK
    <2>13. CASE \E i \in 1..Pending : PeekTake(i) \/ PeekDrop(i)
        BY <2>1, <2>13, PeekTakeKeeps, PeekDropKeeps
    <2>14. CASE Clear
        BY <2>1, <2>14, ClearKeeps
    <2>15. CASE Delete
        BY <2>1, <2>15, DeleteKeeps
    <2> QED
        BY <2>1, <2>2, <2>3, <2>4, <2>5, <2>6, <2>7, <2>8, <2>9, <2>10, <2>11, <2>12, <2>13,
           <2>14, <2>15 DEF Step
<1> QED
    BY <1>1, <1>2

\* A thread that waits for an answer is in exactly one place.
LEMMA InvTracks ==
    ASSUME Inv
    PROVE  Tracked
<1> USE DEF Inv
<1>1. SenderTracked
    <2> SUFFICES ASSUME NEW s \in Senders, sender[s] = "waiting",
                        NEW places, places = {i \in Window : senders[i] = s}
                 PROVE  Cardinality(places) + (IF curr = s THEN 1 ELSE 0) = 1
        BY DEF SenderTracked
    <2>1. OneWaiter /\ Window \subseteq Slots
        BY WindowFacts DEF SendersKnown, Window
    <2>2. CASE curr = s
        <3>1. places = {}
            BY <2>2, <2>1, NoneAssumption DEF OneWaiter
        <3>2. Cardinality(places) = 0
            BY <3>1, FS_EmptySet
        <3> QED
            BY <3>2, <2>2
    <2>3. CASE curr # s
        <3>1. PICK i \in Slots : senders[i] = s
            BY <2>1, <2>3 DEF OneWaiter
        <3>2. places = {i}
            BY <3>1, <2>1, NoneAssumption DEF OneWaiter
        <3>3. Cardinality(places) = 1
            BY <3>2, FS_Singleton
        <3> QED
            BY <3>3, <2>3
    <2> QED
        BY <2>2, <2>3
<1> QED
    BY <1>1 DEF Tracked

\* The inductive invariant holds of every build.
THEOREM Invariant == Spec => []Inv
<1> QED
    BY Initially, NextKeeps, PTL DEF Spec

\* Where the receiver and the senders are is right whatever was posted, sent,
\* removed or timed out: the receiver is in the wait queue only while there is no
\* message, and a thread that waits for an answer is in one place it comes from.
THEOREM QueueTracked == Spec => []Tracked
<1> QED
    BY Invariant, InvTracks, PTL
-----------------------------------------------------------------------------
(***************************************************************************)
(* The messages as a sequence, and what a step of EventQueue is to it.     *)
(***************************************************************************)
\* Taking the i-th element out of a sequence (SequencesExt).
LEMMA RemoveAtFacts ==
    ASSUME NEW S, NEW s \in Seq(S), NEW i \in DOMAIN s
    PROVE  /\ RemoveAt(s, i) \in Seq(S)
           /\ Len(RemoveAt(s, i)) = Len(s) - 1
           /\ \A j \in 1..(Len(s) - 1) :
                RemoveAt(s, i)[j] = IF j < i THEN s[j] ELSE s[j + 1]
<1>1. Len(s) \in Nat /\ DOMAIN s = 1..Len(s) /\ i \in 1..Len(s)
    BY LenProperties
<1>2. \A j \in 1..Len(s) : s[j] \in S
    BY ElementOfSeq
<1> DEFINE a == SubSeq(s, 1, i - 1)
           b == SubSeq(s, i + 1, Len(s))
<1>3. a \in Seq(S) /\ Len(a) = i - 1 /\ \A j \in 1..(i - 1) : a[j] = s[j]
    BY <1>1, <1>2, SubSeqProperties
<1>4. b \in Seq(S) /\ Len(b) = Len(s) - i /\ \A j \in 1..(Len(s) - i) : b[j] = s[j + i]
    BY <1>1, <1>2, SubSeqProperties
<1>5. /\ a \o b \in Seq(S)
      /\ Len(a \o b) = Len(a) + Len(b)
      /\ \A j \in 1..(Len(a) + Len(b)) :
            (a \o b)[j] = IF j <= Len(a) THEN a[j] ELSE b[j - Len(a)]
    BY <1>3, <1>4, ConcatProperties
<1>6. RemoveAt(s, i) = a \o b
    BY DEF RemoveAt
<1> HIDE DEF a, b
<1>7. \A j \in 1..(Len(s) - 1) : (a \o b)[j] = IF j < i THEN s[j] ELSE s[j + 1]
    <2> TAKE j \in 1..(Len(s) - 1)
    <2>1. CASE j < i
        BY <2>1, <1>1, <1>3, <1>4, <1>5
    <2>2. CASE ~(j < i)
        <3>1. j - Len(a) \in 1..(Len(s) - i) /\ ~(j <= Len(a)) /\ j - Len(a) + i = j + 1
            BY <2>2, <1>1, <1>3
        <3>2. j \in 1..(Len(a) + Len(b))
            BY <1>1, <1>3, <1>4
        <3>3. (a \o b)[j] = b[j - Len(a)]
            BY <3>1, <3>2, <1>5
        <3>4. b[j - Len(a)] = s[j + 1]
            BY <3>1, <1>4
        <3> QED
            BY <3>3, <3>4, <2>2
    <2> QED
        BY <2>1, <2>2
<1>8. Len(a \o b) = Len(s) - 1
    BY <1>1, <1>3, <1>4, <1>5
<1> QED
    BY <1>5, <1>6, <1>7, <1>8

MsgsSeq ==
    /\ Msgs \in Seq(Message) /\ Len(Msgs) = Pending /\ DOMAIN Msgs = 1..Pending
    /\ \A i \in 1..Pending : Msgs[i] = events[Nth(i)] /\ Msgs[i] \in Message
    /\ Empty <=> Msgs = <<>>

LEMMA MsgsFacts == TypeOK => MsgsSeq
<1> SUFFICES ASSUME TypeOK
             PROVE  MsgsSeq
    OBVIOUS
<1>1. Pending \in Nat /\ \A i \in 1..Pending : Nth(i) \in Slots
    BY WindowFacts
<1>2. \A i \in 1..Pending : events[Nth(i)] \in Message
    BY <1>1 DEF TypeOK
<1>3. Msgs \in [1..Pending -> Message]
    BY <1>2 DEF Msgs
<1>4. Msgs \in Seq(Message) /\ Len(Msgs) = Pending
    BY <1>1, <1>3, LenProperties, SeqDef
<1>5. Empty <=> Msgs = <<>>
    BY <1>4, EmptySeq DEF Empty
<1> QED
    BY <1>2, <1>3, <1>4, <1>5 DEF Msgs, MsgsSeq

\* The first n messages are gone.
LEMMA MsgsDropped ==
    ASSUME TypeOK, TypeOK', NEW n \in 1..Pending, read' = (read + n) % Wrap,
           UNCHANGED <<build, write, events>>
    PROVE  /\ Msgs' = SubSeq(Msgs, n + 1, Len(Msgs))
           /\ n = 1 => Msgs' = RemoveAt(Msgs, 1)
<1>1. /\ Msgs \in Seq(Message) /\ Len(Msgs) = Pending /\ DOMAIN Msgs = 1..Pending
      /\ \A i \in 1..Pending : Msgs[i] = events[Nth(i)] /\ Msgs[i] \in Message
      /\ Pending \in Nat
    BY MsgsFacts, WindowFacts DEF MsgsSeq
<1>2. n \in 0..Pending /\ events' = events
    BY <1>1
<1>3. Pending' = Pending - n /\ \A i \in Nat \ {0} : Nth(i)' = Nth(i + n)
    BY <1>2, ReadMoves
<1>4. /\ Msgs' \in Seq(Message) /\ Len(Msgs') = Pending - n
      /\ \A i \in 1..(Pending - n) : Msgs'[i] = Msgs[i + n]
    <2>1. MsgsSeq'
        BY MsgsFacts, PTL
    <2>2. \A i \in 1..(Pending - n) : i \in Nat \ {0} /\ i + n \in 1..Pending
        BY <1>1, <1>2
    <2>3. /\ Msgs' \in Seq(Message) /\ Len(Msgs') = Pending'
          /\ \A i \in 1..(Pending - n) : Msgs'[i] = events'[Nth(i)']
        BY <2>1, <1>3 DEF MsgsSeq, Message
    <2> QED
        BY <2>2, <2>3, <1>1, <1>2, <1>3
<1>5. /\ SubSeq(Msgs, n + 1, Len(Msgs)) \in Seq(Message)
      /\ Len(SubSeq(Msgs, n + 1, Len(Msgs))) = Pending - n
      /\ \A i \in 1..(Pending - n) : SubSeq(Msgs, n + 1, Len(Msgs))[i] = Msgs[i + n]
    <2>1. n + 1 \in 1..(Pending + 1)
        BY <1>1
    <2>2. \A i \in (n + 1)..Pending : Msgs[i] \in Message
        BY <1>1
    <2> QED
        BY <2>1, <2>2, <1>1, SubSeqProperties
<1>6. Msgs' = SubSeq(Msgs, n + 1, Len(Msgs))
    BY <1>4, <1>5, SeqEqual
<1>7. ASSUME n = 1
      PROVE  Msgs' = RemoveAt(Msgs, 1)
    <2>1. /\ RemoveAt(Msgs, 1) \in Seq(Message) /\ Len(RemoveAt(Msgs, 1)) = Pending - 1
          /\ \A i \in 1..(Pending - 1) : RemoveAt(Msgs, 1)[i] = IF i < 1 THEN Msgs[i] ELSE Msgs[i + 1]
        BY <1>1, <1>7, RemoveAtFacts, ZenonT(60)
    <2> QED
        BY <2>1, <1>4, <1>7, SeqEqual
<1> QED
    BY <1>6, <1>7

\* The i-th message is taken out.
LEMMA MsgsClosed ==
    ASSUME Inv, TypeOK', Fits, NEW i \in 1..Pending, CloseGap(i), UNCHANGED build
    PROVE  Msgs' = RemoveAt(Msgs, i)
<1>1. /\ Msgs \in Seq(Message) /\ Len(Msgs) = Pending /\ DOMAIN Msgs = 1..Pending
      /\ \A k \in 1..Pending : Msgs[k] = events[Nth(k)]
      /\ Pending \in Nat /\ ~Empty /\ TypeOK
    BY MsgsFacts, WindowFacts DEF Inv, Empty, MsgsSeq
<1>2. /\ read' = (read + 1) % Wrap /\ write' = write /\ events' = Slide(events, i)
    BY DEF CloseGap
<1>3. Pending' = Pending - 1 /\ \A k \in Nat \ {0} : Nth(k)' = Nth(k + 1)
    BY <1>1, <1>2, WindowShrinks
<1>4. Pending <= Length
    BY <1>1, BuildFacts DEF Inv, SendersKnown, Fits, Length
<1>5. \A k \in 1..(Pending - 1) :
        Slide(events, i)[Nth(k + 1)] = IF k < i THEN events[Nth(k)] ELSE events[Nth(k + 1)]
    BY <1>1, <1>4, SlideFacts, ZenonT(60) DEF TypeOK
<1>6. /\ Msgs' \in Seq(Message) /\ Len(Msgs') = Pending - 1
      /\ \A k \in 1..(Pending - 1) : Msgs'[k] = IF k < i THEN Msgs[k] ELSE Msgs[k + 1]
    <2>1. MsgsSeq'
        BY MsgsFacts, PTL
    <2>2. \A k \in 1..(Pending - 1) : k \in Nat \ {0} /\ k \in 1..Pending /\ k + 1 \in 1..Pending
        BY <1>1
    <2>3. /\ Msgs' \in Seq(Message) /\ Len(Msgs') = Pending'
          /\ \A k \in 1..(Pending - 1) : Msgs'[k] = events'[Nth(k)']
        BY <2>1, <1>3 DEF MsgsSeq, Message
    <2>4. \A k \in 1..(Pending - 1) : Msgs'[k] = Slide(events, i)[Nth(k + 1)]
        BY <2>2, <2>3, <1>2, <1>3
    <2> QED
        BY <2>2, <2>3, <2>4, <1>1, <1>3, <1>5
<1>7. /\ RemoveAt(Msgs, i) \in Seq(Message) /\ Len(RemoveAt(Msgs, i)) = Pending - 1
      /\ \A k \in 1..(Pending - 1) : RemoveAt(Msgs, i)[k] = IF k < i THEN Msgs[k] ELSE Msgs[k + 1]
    BY <1>1, RemoveAtFacts, ZenonT(60)
<1> QED
    BY <1>6, <1>7, SeqEqual

\* A message is put behind the others; it only answers a thread when an overflow
\* left that thread in the slot.
LEMMA MsgsPut ==
    ASSUME Inv, TypeOK', Fits, UNCHANGED build,
           NEW message \in Message, NEW waiter \in Senders \cup {None}, Put(message, waiter)
    PROVE  /\ Msgs' = Append(Msgs, message)
           /\ \A s \in Senders : sender'[s] = IF s = waiter THEN "waiting" ELSE sender[s]
<1>1. /\ Msgs \in Seq(Message) /\ Len(Msgs) = Pending
      /\ \A k \in 1..Pending : Msgs[k] = events[Nth(k)]
      /\ Pending \in Nat /\ TypeOK
      /\ \A i \in Nat \ {0} : Nth(i) \in Slots
      /\ Slot(write) = Nth(Pending + 1)
      /\ \A i, j \in 1..Length : Nth(i) = Nth(j) => i = j
    BY MsgsFacts, WindowFacts DEF Inv, MsgsSeq
<1> DEFINE slot == Slot(write)
<1>2. /\ Pending < build.pending
      /\ write' = (write + 1) % Wrap /\ read' = read
      /\ events' = [events EXCEPT ![slot] = message]
      /\ \A s \in Senders : sender'[s] =
            IF s = waiter THEN "waiting"
            ELSE IF sending /\ s = senders[slot] /\ sender[s] # "run" THEN "zero" ELSE sender[s]
    BY DEF Put, Answered
<1> HIDE DEF slot
<1>3. Pending' = Pending + 1 /\ \A i : Nth(i)' = Nth(i)
    BY <1>1, <1>2, WriteMoves
<1>4. Length \in Nat /\ Pending + 1 <= Length
    BY <1>1, <1>2, BuildFacts DEF Fits, Length
<1>5. slot \in Slots /\ \A k \in 1..Pending : Nth(k) \in Slots /\ Nth(k) # slot
    <2>1. \A k \in 1..Pending : k \in 1..Length /\ Pending + 1 \in 1..Length /\ k # Pending + 1
        BY <1>1, <1>4
    <2> QED
        BY <2>1, <1>1 DEF slot
<1>6. Msgs' = Append(Msgs, message)
    <2>1. MsgsSeq'
        BY MsgsFacts, PTL
    <2>2. /\ Msgs' \in Seq(Message) /\ Len(Msgs') = Pending + 1
          /\ \A k \in 1..(Pending + 1) : Msgs'[k] = events'[Nth(k)]
        BY <2>1, <1>3 DEF MsgsSeq, Message
    <2>3. /\ Append(Msgs, message) \in Seq(Message) /\ Len(Append(Msgs, message)) = Pending + 1
          /\ \A k \in 1..Pending : Append(Msgs, message)[k] = Msgs[k]
          /\ Append(Msgs, message)[Pending + 1] = message
        BY <1>1, AppendProperties
    <2>4. \A k \in 1..Pending : Msgs'[k] = Msgs[k]
        BY <2>2, <1>1, <1>2, <1>5 DEF TypeOK
    <2>5. Msgs'[Pending + 1] = message
        BY <2>2, <1>1, <1>2, <1>5 DEF TypeOK, slot
    <2>6. \A k \in 1..(Pending + 1) : k = Pending + 1 \/ k \in 1..Pending
        BY <1>1
    <2> QED
        BY <2>2, <2>3, <2>4, <2>5, <2>6, SeqEqual
<1>7. sending => senders[slot] = None
    BY <1>5 DEF Inv, OneWaiter, Window
<1> QED
    BY <1>2, <1>6, <1>7, NoneAssumption

\* Who is answered when curr_sender is, or the sender of a message.
LEMMA CurrAnswered ==
    ASSUME Inv, NEW v
    PROVE  Answered({curr}, v) =
                [s \in Senders |-> IF s \in {curr} /\ sender[s] = "waiting" THEN v ELSE sender[s]]
<1>1. \A s \in Senders : s \in {curr} /\ sender[s] # "run" <=> s \in {curr} /\ sender[s] = "waiting"
    BY NoneAssumption DEF Inv, SendersKnown, OneWaiter
<1> QED
    BY <1>1 DEF Answered

LEMMA FromFacts ==
    ASSUME Inv, Fits
    PROVE  /\ \A i \in 1..Pending :
                Msgs[i].from = IF sending THEN senders[Nth(i)] ELSE None
           /\ sending => \A i \in 1..Pending : Nth(i) \in Slots
           /\ sending => \A s \in Senders :
                (\E i \in Slots : senders[i] = s) <=> (\E i \in 1..Pending : Msgs[i].from = s)
           /\ sending => \A s \in Senders, i \in Slots : senders[i] = s => sender[s] = "waiting"
<1>1. \A i \in 1..Pending : Msgs[i].from = IF sending THEN senders[Nth(i)] ELSE None
    BY MsgsFacts DEF Inv, FromKnown, MsgsSeq
<1>2. \A i \in 1..Pending : Nth(i) \in Slots
    BY WindowFacts DEF Inv
<1>3. ASSUME sending, NEW s \in Senders
      PROVE  (\E i \in Slots : senders[i] = s) <=> (\E i \in 1..Pending : Msgs[i].from = s)
    BY <1>1, <1>2, <1>3, NoneAssumption DEF Inv, OneWaiter, Window
<1>4. ASSUME sending
      PROVE  \A s \in Senders, i \in Slots : senders[i] = s => sender[s] = "waiting"
    BY <1>4, NoneAssumption DEF Inv, OneWaiter
<1> QED
    BY <1>1, <1>2, <1>3, <1>4

(***************************************************************************)
(* The steps of the promise, when the queue fits.                          *)
(***************************************************************************)
LEMMA AsTake ==
    ASSUME Inv, Fits, UNCHANGED build, NEW i \in 1..Pending,
           \A j \in 1..(i - 1) : Msgs[j].id # Msgs[i].id,
           got' = Msgs[i], Msgs' = RemoveAt(Msgs, i), curr' = Msgs[i].from, AutoReply
    PROVE  Promise!Next
<1>1. Fits' /\ i \in DOMAIN Msgs
    BY MsgsFacts DEF Fits, Inv, MsgsSeq
<1>2. sender' = [s \in Senders |->
                    IF s \in {curr} /\ sender[s] = "waiting" THEN "zero" ELSE sender[s]]
    BY CurrAnswered DEF AutoReply
<1>3. Promise!FirstOfKind(i)
    BY <1>1 DEF Promise!FirstOfKind
<1>4. sender' = Promise!Answer({curr}, "zero")
    BY <1>2 DEF Promise!Answer
<1>5. Promise!RemoveAt(Msgs, i) = RemoveAt(Msgs, i)
    BY DEF Promise!RemoveAt, RemoveAt
<1>6. Promise!Take(i)
    BY <1>1, <1>3, <1>4, <1>5 DEF Promise!Take
<1> QED
    BY <1>1, <1>6 DEF Promise!Next

LEMMA AsGoOn ==
    ASSUME Inv, Fits, UNCHANGED <<build, ringVars>>,
           got' = got \/ (got' = None /\ Empty), curr' = None, AutoReply
    PROVE  Promise!Next
<1>1. Fits' /\ (Empty <=> Msgs = <<>>) /\ Msgs' = Msgs
    BY MsgsFacts, RingStays DEF Fits, Inv, MsgsSeq
<1>2. sender' = [s \in Senders |->
                    IF s \in {curr} /\ sender[s] = "waiting" THEN "zero" ELSE sender[s]]
    BY CurrAnswered DEF AutoReply
<1>3. Promise!GoOn
    BY <1>1, <1>2 DEF Promise!GoOn, Promise!Answer
<1> QED
    BY <1>3 DEF Promise!Next

LEMMA AsDropFirst ==
    ASSUME Inv, Fits, UNCHANGED <<build, got, curr>>, NEW n \in 1..Pending,
           \/ n = Pending
           \/ Msgs[n].id # Msgs[n + 1].id /\ \A i \in 1..n : Msgs[i].id = Msgs[n].id,
           Msgs' = SubSeq(Msgs, n + 1, Len(Msgs)),
           sender' = [s \in Senders |->
                        IF s \in {Msgs[i].from : i \in 1..n} /\ sender[s] = "waiting"
                        THEN "zero" ELSE sender[s]]
    PROVE  Promise!Next
<1>1. Fits' /\ n \in DOMAIN Msgs /\ Len(Msgs) = Pending
    BY MsgsFacts DEF Fits, Inv, MsgsSeq
<1>2. Promise!DropFirst(n)
    BY <1>1 DEF Promise!DropFirst, Promise!Answer
<1> QED
    BY <1>1, <1>2 DEF Promise!Next

LEMMA AsStutter ==
    ASSUME UNCHANGED <<build, Msgs, got, curr, sender>>
    PROVE  UNCHANGED Promise!vars
BY DEF Promise!vars, Fits

LEMMA AsNothing ==
    ASSUME ~Fits, UNCHANGED build
    PROVE  UNCHANGED Promise!vars
BY DEF Promise!vars, Fits

(***************************************************************************)
(* Each step of the queue is a step of the promise, or none.               *)
(***************************************************************************)
LEMMA PostPromised ==
    ASSUME Inv, TypeOK', Fits, UNCHANGED build, NEW id \in Ids,
           Put([id |-> id, from |-> None], None), UNCHANGED got
    PROVE  Promise!Next
<1> DEFINE message == [id |-> id, from |-> None]
<1>1. message \in Message /\ Put(message, None)
    BY DEF Message
<1> HIDE DEF message
<1>2. /\ Msgs' = Append(Msgs, message)
      /\ \A s \in Senders : sender'[s] = IF s = None THEN "waiting" ELSE sender[s]
    BY <1>1, MsgsPut
<1>3. sender' = sender
    BY <1>2, NoneAssumption DEF TypeOK, Inv
<1>4. Fits' /\ curr' = curr
    BY DEF Put, Fits
<1>5. Promise!Post(id)
    BY <1>2, <1>3, <1>4 DEF Promise!Post, message
<1> QED
    BY <1>5 DEF Promise!Next

LEMMA SendPromised ==
    ASSUME Inv, TypeOK', Fits, UNCHANGED build, NEW s \in Senders, NEW id \in Ids, Send(s, id)
    PROVE  Promise!Next
<1>1. got' = got
    BY DEF Send, WakeReceiver
<1>2. CASE sending
    <2> DEFINE message == [id |-> id, from |-> s]
    <2>1. message \in Message /\ Put(message, s) /\ sender[s] = "run"
        BY <1>2 DEF Message, Send
    <2> HIDE DEF message
    <2>2. /\ Msgs' = Append(Msgs, message)
          /\ \A t \in Senders : sender'[t] = IF t = s THEN "waiting" ELSE sender[t]
        BY <2>1, MsgsPut
    <2>3. sender' = [sender EXCEPT ![s] = "waiting"]
        BY <2>2 DEF TypeOK, Inv
    <2>4. Fits' /\ curr' = curr
        BY <2>1 DEF Put, Fits
    <2>5. Promise!Send(s, id)
        BY <2>1, <2>2, <2>3, <2>4, <1>1 DEF Promise!Send, message
    <2> QED
        BY <2>5 DEF Promise!Next
<1>3. CASE ~sending
    BY <1>1, <1>3, PostPromised DEF Send
<1> QED
    BY <1>2, <1>3

LEMMA DequeuePromised ==
    ASSUME Inv, TypeOK', Fits, UNCHANGED build, ~Empty, AutoReply, Dequeue(None)
    PROVE  Promise!Next
<1>1. /\ Slot(read) = Nth(1) /\ 1 \in 1..Pending /\ Head(Msgs) = Msgs[1]
    BY HeadFacts DEF Inv
<1>2. /\ got' = Msgs[1] /\ read' = (read + 1) % Wrap /\ UNCHANGED <<build, write, events>>
      /\ curr' = IF sending THEN senders[Nth(1)] ELSE None
    BY <1>1 DEF Dequeue, Fetch
<1>3. Msgs' = RemoveAt(Msgs, 1)
    BY <1>1, <1>2, MsgsDropped DEF Inv
<1>4. curr' = Msgs[1].from
    BY <1>1, <1>2, FromFacts
<1> QED
    BY <1>1, <1>2, <1>3, <1>4, AsTake

LEMMA PeekTakePromised ==
    ASSUME Inv, TypeOK', Fits, NEW i \in 1..Pending, PeekTake(i), UNCHANGED build
    PROVE  Promise!Next
<1>1. /\ got' = Msgs[i] /\ AutoReply /\ CloseGap(i)
      /\ \A j \in 1..(i - 1) : Msgs[j].id # Msgs[i].id
      /\ curr' = IF sending THEN senders[Nth(i)] ELSE curr
    BY DEF PeekTake, Found
<1>2. Msgs' = RemoveAt(Msgs, i)
    BY <1>1, MsgsClosed
<1>3. curr' = Msgs[i].from
    BY <1>1, FromFacts DEF Inv, SendersKnown
<1> QED
    BY <1>1, <1>2, <1>3, AsTake

LEMMA PeekDropPromised ==
    ASSUME Inv, TypeOK', Fits, NEW i \in 1..Pending, PeekDrop(i), UNCHANGED build
    PROVE  Promise!Next
<1>1. /\ CloseGap(i) /\ got' = got /\ curr' = curr
      /\ \A j \in 1..(i - 1) : Msgs[j].id # Msgs[i].id
      /\ sender' = Answered(IF sending THEN {senders[Nth(i)]} ELSE {}, "zero")
    BY DEF PeekDrop, Found, receiverVars
<1>2. Msgs' = RemoveAt(Msgs, i)
    BY <1>1, MsgsClosed
<1>3. sender' = [s \in Senders |->
                    IF s \in {Msgs[i].from} /\ sender[s] = "waiting" THEN "zero" ELSE sender[s]]
    <2>1. /\ Msgs[i].from = IF sending THEN senders[Nth(i)] ELSE None
          /\ sending => Nth(i) \in Slots /\ \A s \in Senders : senders[Nth(i)] = s => sender[s] = "waiting"
        BY FromFacts
    <2>2. CASE sending
        BY <2>1, <2>2, <1>1 DEF Answered
    <2>3. CASE ~sending
        BY <2>1, <2>3, <1>1, NoneAssumption DEF Answered
    <2> QED
        BY <2>2, <2>3
<1>4. Fits' /\ i \in DOMAIN Msgs
    BY MsgsFacts DEF Fits, Inv, MsgsSeq
<1>5. Promise!RemoveAt(Msgs, i) = RemoveAt(Msgs, i)
    BY DEF Promise!RemoveAt, RemoveAt
<1>6. Promise!FirstOfKind(i)
    BY <1>1, <1>4 DEF Promise!FirstOfKind
<1>7. sender' = Promise!Answer({Msgs[i].from}, "zero")
    BY <1>3 DEF Promise!Answer
<1>8. Promise!Drop(i)
    BY <1>1, <1>2, <1>4, <1>5, <1>6, <1>7 DEF Promise!Drop
<1> QED
    BY <1>4, <1>8 DEF Promise!Next

LEMMA RemoveFromHeadPromised ==
    ASSUME Inv, TypeOK', Fits, NEW id \in Ids, RemoveFromHead(id), UNCHANGED build
    PROVE  Promise!Next
<1>1. PICK n \in 1..Pending :
        /\ \A i \in 1..n : Msgs[i].id = id
        /\ n < Pending => Msgs[n + 1].id # id
        /\ read' = (read + n) % Wrap
    BY DEF RemoveFromHead
<1>2. /\ ~build.extended /\ sender' = sender /\ UNCHANGED <<build, write, events, got, curr>>
    BY DEF RemoveFromHead, sendVars, receiverVars
<1>3. ~sending /\ Pending \in Nat
    BY <1>2, BuildFacts, WindowFacts DEF SendersKnown, Inv
<1>4. Msgs' = SubSeq(Msgs, n + 1, Len(Msgs))
    BY <1>1, <1>2, MsgsDropped DEF Inv
<1>5. {Msgs[i].from : i \in 1..n} \subseteq {None}
    <2>1. \A i \in 1..n : i \in 1..Pending
        BY <1>3
    <2> QED
        BY <2>1, <1>3, FromFacts
<1>6. sender' = [s \in Senders |->
                    IF s \in {Msgs[i].from : i \in 1..n} /\ sender[s] = "waiting"
                    THEN "zero" ELSE sender[s]]
    <2>1. \A s \in Senders : s \notin {Msgs[i].from : i \in 1..n}
        BY <1>5, NoneAssumption
    <2> QED
        BY <2>1, <1>2 DEF TypeOK, Inv
<1>7. /\ \/ n = Pending
         \/ Msgs[n].id # Msgs[n + 1].id /\ \A i \in 1..n : Msgs[i].id = Msgs[n].id
    BY <1>1, <1>3
<1> QED
    BY <1>2, <1>4, <1>6, <1>7, AsDropFirst

LEMMA ClearPromised ==
    ASSUME Inv, TypeOK', Fits, Clear, UNCHANGED build
    PROVE  Promise!Next \/ UNCHANGED Promise!vars
<1>1. /\ read' = write /\ UNCHANGED <<build, write, events, got, curr>> /\ ReleaseAll({})
    BY DEF Clear, receiverVars
<1>2. /\ Pending' = 0
      /\ sending => \A s \in Senders : sender'[s] =
            IF (s \in {} \/ \E i \in Slots : senders[i] = s) /\ sender[s] # "run"
            THEN "zero" ELSE sender[s]
      /\ ~sending => sender' = sender
    BY <1>1, AllLeave
<1>3. MsgsSeq /\ MsgsSeq' /\ Pending \in Nat
    BY MsgsFacts, WindowFacts, PTL DEF Inv
<1>4. Msgs' = <<>>
    BY <1>2, <1>3 DEF MsgsSeq, Empty
<1>5. sender' \in [Senders -> {"run", "waiting", "zero", "reply"}]
    BY DEF TypeOK
<1>6. sender' = [s \in Senders |->
                    IF s \in {Msgs[i].from : i \in 1..Pending} /\ sender[s] = "waiting"
                    THEN "zero" ELSE sender[s]]
    <2>1. CASE sending
        <3>1. \A s \in Senders :
                (\E i \in Slots : senders[i] = s) <=> s \in {Msgs[i].from : i \in 1..Pending}
            BY <2>1, FromFacts
        <3>2. \A s \in Senders : (\E i \in Slots : senders[i] = s) => sender[s] = "waiting"
            BY <2>1, FromFacts
        <3>3. \A s \in Senders : sender'[s] =
                IF s \in {Msgs[i].from : i \in 1..Pending} /\ sender[s] = "waiting"
                THEN "zero" ELSE sender[s]
            BY <2>1, <3>1, <3>2, <1>2
        <3> QED
            BY <3>3, <1>5
    <2>2. CASE ~sending
        <3>1. {Msgs[i].from : i \in 1..Pending} \subseteq {None}
            BY <2>2, FromFacts
        <3>2. \A s \in Senders : s \notin {Msgs[i].from : i \in 1..Pending}
            BY <3>1, NoneAssumption
        <3> QED
            BY <2>2, <3>2, <1>2 DEF TypeOK, Inv
    <2> QED
        BY <2>1, <2>2
<1>7. CASE Empty
    <2>1. \A s \in Senders : s \notin {Msgs[i].from : i \in 1..Pending}
        BY <1>7 DEF Empty
    <2>2. sender' = sender
        BY <2>1, <1>6 DEF TypeOK, Inv
    <2>3. Msgs' = Msgs
        BY <1>3, <1>4, <1>7 DEF MsgsSeq
    <2> QED
        BY <2>2, <2>3, <1>1, AsStutter
<1>8. CASE ~Empty
    <2>1. Pending \in 1..Pending /\ Len(Msgs) = Pending
        BY <1>3, <1>8 DEF MsgsSeq, Empty
    <2>2. SubSeq(Msgs, Pending + 1, Len(Msgs)) = <<>>
        BY <2>1, <1>3, SubSeqEmpty
    <2> QED
        BY <2>1, <2>2, <1>1, <1>4, <1>6, AsDropFirst
<1> QED
    BY <1>7, <1>8

LEMMA DeletePromised ==
    ASSUME Inv, TypeOK', Fits, Delete, UNCHANGED build
    PROVE  Promise!Next
<1>1. /\ read' = write /\ UNCHANGED <<build, write, events, got>> /\ curr' = None
      /\ ReleaseAll({curr})
    BY DEF Delete, WakeReceiver
<1>2. /\ Pending' = 0
      /\ sending => \A s \in Senders : sender'[s] =
            IF (s \in {curr} \/ \E i \in Slots : senders[i] = s) /\ sender[s] # "run"
            THEN "zero" ELSE sender[s]
      /\ ~sending => sender' = sender
    BY <1>1, AllLeave
<1>3. MsgsSeq'
    BY MsgsFacts, PTL
<1>4. Msgs' = <<>> /\ Fits'
    BY <1>1, <1>2, <1>3 DEF MsgsSeq, Empty, Fits
<1>5. \A s \in Senders : sender'[s] = IF sender[s] = "waiting" THEN "zero" ELSE sender[s]
    <2>1. CASE sending
        <3>1. \A s \in Senders : (s = curr \/ \E i \in Slots : senders[i] = s) <=> sender[s] = "waiting"
            BY <2>1, NoneAssumption DEF Inv, OneWaiter
        <3> QED
            BY <3>1, <2>1, <1>2
    <2>2. CASE ~sending
        BY <2>2, <1>2 DEF Inv, SendersKnown
    <2> QED
        BY <2>1, <2>2
<1>6. sender' = Promise!Answer(Senders, "zero")
    <2>1. Promise!Answer(Senders, "zero") =
            [s \in Senders |-> IF s \in Senders /\ sender[s] = "waiting" THEN "zero" ELSE sender[s]]
        BY DEF Promise!Answer
    <2>2. sender' \in [Senders -> {"run", "waiting", "zero", "reply"}]
        BY DEF TypeOK
    <2> QED
        BY <2>1, <2>2, <1>5
<1>7. Promise!Close
    BY <1>1, <1>4, <1>6 DEF Promise!Close
<1> QED
    BY <1>7 DEF Promise!Next

LEMMA ReplyPromised ==
    ASSUME Inv, Fits, Reply, UNCHANGED build
    PROVE  Promise!Next
<1>1. /\ UNCHANGED <<build, ringVars, got>> /\ curr' = None
      /\ sender' = Answered({curr}, "reply")
    BY DEF Reply, receiverVars
<1>2. Fits' /\ Msgs' = Msgs
    BY <1>1, RingStays DEF Fits
<1>3. sender' = [s \in Senders |->
                    IF s \in {curr} /\ sender[s] = "waiting" THEN "reply" ELSE sender[s]]
    BY <1>1, CurrAnswered
<1>4. Promise!Reply
    BY <1>1, <1>2, <1>3 DEF Promise!Reply, Promise!Answer
<1> QED
    BY <1>4 DEF Promise!Next

LEMMA ReturnPromised ==
    ASSUME Inv, Fits, NEW s \in Senders, Return(s), UNCHANGED build
    PROVE  Promise!Next
<1>1. /\ UNCHANGED <<build, ringVars, got, curr>>
      /\ sender[s] \in {"zero", "reply"} /\ sender' = [sender EXCEPT ![s] = "run"]
    BY DEF Return, receiverVars
<1>2. Fits' /\ Msgs' = Msgs
    BY <1>1, RingStays DEF Fits
<1>3. Promise!Return(s)
    BY <1>1, <1>2 DEF Promise!Return
<1> QED
    BY <1>3 DEF Promise!Next

LEMMA InitPromised ==
    ASSUME Init
    PROVE  Promise!Init
<1>1. Inv
    BY Initially
<1>2. Empty
    BY <1>1, WindowFacts DEF Inv, Init, Empty
<1>3. Msgs = <<>>
    BY <1>1, <1>2, MsgsFacts DEF Inv, MsgsSeq
<1> QED
    BY <1>3 DEF Init, Promise!Init

LEMMA StepPromised ==
    ASSUME Inv, Inv', [Next]_vars
    PROVE  [Promise!Next]_(Promise!vars)
<1>1. CASE UNCHANGED vars
    <2>1. UNCHANGED <<build, ringVars, got, curr, sender>>
        BY <1>1 DEF vars, sendVars, receiverVars
    <2> QED
        BY <2>1, RingStays, AsStutter
<1>2. CASE Next /\ ~Fits
    BY <1>2, AsNothing DEF Next
<1>3. CASE Next /\ Fits
    <2>1. Step /\ UNCHANGED build /\ Fits /\ TypeOK /\ TypeOK'
        BY <1>3 DEF Next, Inv
    <2>2. CASE EnableSend
        <3>1. UNCHANGED <<build, events, read, write, got, sender>> /\ curr' = curr
            BY <2>1, <2>2 DEF EnableSend, receiverVars, Inv, SendersKnown
        <3>2. Msgs' = Msgs
            BY <3>1 DEF Msgs, Pending, Nth, Slot, Length, Wrap
        <3> QED
            BY <3>1, <3>2, AsStutter
    <2>3. CASE \E id \in Ids : Post(id) \/ RemoveFromHead(id)
        <3>1. \A id \in Ids : Post(id) => Promise!Next
            BY <2>1, PostPromised DEF Post, WakeReceiver
        <3> QED
            BY <2>1, <2>3, <3>1, RemoveFromHeadPromised
    <2>4. CASE \E s \in Senders : (\E id \in Ids : Send(s, id)) \/ Return(s)
        BY <2>1, <2>4, SendPromised, ReturnPromised
    <2>5. CASE \E ev \in BOOLEAN : WaitTake(ev)
        <3>1. PICK ev \in BOOLEAN : WaitTake(ev)
            BY <2>5
        <3>2. CASE ev
            BY <2>1, <3>1, <3>2, DequeuePromised DEF WaitTake
        <3>3. CASE ~ev
            <4>1. UNCHANGED <<build, ringVars, got>> /\ curr' = None /\ AutoReply
                BY <2>1, <3>1, <3>3 DEF WaitTake
            <4> QED
                BY <2>1, <4>1, AsGoOn
        <3> QED
            BY <3>2, <3>3
    <2>6. CASE \E c \in Calls : WaitBlock(c)
        <3>1. UNCHANGED <<build, ringVars, got>> /\ curr' = None /\ AutoReply
            BY <2>1, <2>6 DEF WaitBlock
        <3> QED
            BY <2>1, <3>1, AsGoOn
    <2>7. CASE Poll
        <3>1. /\ UNCHANGED <<build, ringVars>> /\ curr' = None /\ AutoReply /\ Empty
              /\ got' = got \/ got' = None
            BY <2>1, <2>7 DEF Poll
        <3> QED
            BY <2>1, <3>1, AsGoOn
    <2>8. CASE Expire
        <3>1. UNCHANGED <<build, ringVars, got, curr, sender>>
            BY <2>1, <2>8 DEF Expire, sendVars
        <3> QED
            BY <3>1, RingStays, AsStutter
    <2>9. CASE ResumeTake
        <3>1. curr = None /\ sender' = sender /\ ~Empty
            BY <2>1, <2>9 DEF ResumeTake, Resumes, Inv, SendersKnown
        <3>2. AutoReply
            BY <2>1, <3>1, NobodyAnswered DEF AutoReply
        <3>3. CASE call.ev
            <4>1. Dequeue(None)
                BY <2>9, <3>1, <3>3 DEF ResumeTake
            <4> QED
                BY <2>1, <3>1, <3>2, <4>1, DequeuePromised
        <3>4. CASE ~call.ev
            <4>1. UNCHANGED <<build, ringVars, got, curr, sender>>
                BY <2>1, <2>9, <3>4 DEF ResumeTake
            <4> QED
                BY <4>1, RingStays, AsStutter
        <3> QED
            BY <3>3, <3>4
    <2>10. CASE ResumeBlock
        <3>1. UNCHANGED <<build, ringVars, got, curr, sender>>
            BY <2>1, <2>10 DEF ResumeBlock, sendVars
        <3> QED
            BY <3>1, RingStays, AsStutter
    <2>11. CASE ResumeTimeout
        <3>1. /\ UNCHANGED <<build, ringVars, sender>> /\ curr = None /\ curr' = None /\ Empty
              /\ got' = got \/ got' = None
            BY <2>1, <2>11 DEF ResumeTimeout, Resumes, sendVars, Inv, SendersKnown
        <3>2. AutoReply
            BY <2>1, <3>1, NobodyAnswered DEF AutoReply
        <3> QED
            BY <2>1, <3>1, <3>2, AsGoOn
    <2>12. CASE Reply
        BY <2>1, <2>12, ReplyPromised
    <2>13. CASE \E i \in 1..Pending : PeekTake(i) \/ PeekDrop(i)
        BY <2>1, <2>13, PeekTakePromised, PeekDropPromised
    <2>14. CASE Clear
        BY <2>1, <2>14, ClearPromised
    <2>15. CASE Delete
        BY <2>1, <2>15, DeletePromised
    <2> QED
        BY <2>1, <2>2, <2>3, <2>4, <2>5, <2>6, <2>7, <2>8, <2>9, <2>10, <2>11, <2>12, <2>13,
           <2>14, <2>15 DEF Step
<1> QED
    BY <1>1, <1>2, <1>3

\* Messages come out of a queue in the order they were put in, and a thread that
\* sends one is answered for that message, once: a queue that can't overflow
\* implements EventQueueSpec.
THEOREM Refinement == Spec => Implements
<1>1. Init => Promise!Init
    BY InitPromised
<1>2. Inv /\ Inv' /\ [Next]_vars => [Promise!Next]_(Promise!vars)
    BY StepPromised
<1> QED
    BY <1>1, <1>2, Invariant, PTL DEF Spec, Implements, Promise!Spec
=============================================================================
