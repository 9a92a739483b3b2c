------------------------------- MODULE Buflib -------------------------------
(***************************************************************************)
(* The allocator behind core_alloc: blocks that tile the buffer from its   *)
(* start, a table of handles that grows down from its end, compaction and  *)
(* the callbacks it asks.  Lengths are in words; the words that describe a *)
(* block (length, handle, callbacks, name, checksum) are one word here.    *)
(***************************************************************************)
EXTENDS Integers

CONSTANTS
    Size,           \* words in the buffer
    Sizes,          \* words asked for
    EndReserve,     \* words buflib_allocatable leaves at the end of the buffer
    Ops,            \* callbacks: [move : {"free", "asks", "never"}, shrink : BOOLEAN]
    None            \* no callbacks here

\* There is room for core_alloc.c's test allocation and its handle.
ASSUME SizesAssumption == Size \in Nat /\ Size >= 3 /\ Sizes \subseteq Nat /\ EndReserve \in Nat
ASSUME OpsAssumption == /\ Ops \subseteq [move : {"free", "asks", "never"}, shrink : BOOLEAN]
                        /\ [move |-> "free", shrink |-> FALSE] \in Ops

VARIABLES
    heap,           \* struct buflib_context, the table and the words of the buffer
    call            \* the call under way: buflib_alloc_ex, buflib_alloc_maximum

heapVars == <<heap, call>>

Addrs == 0..(Size - 1)
Handles == 1..Size
Reserved == -1              \* a handle without a block yet
TestHandle == 1             \* test_alloc of core_alloc.c, which nothing frees
TestLen == 2
NoHole == -1

\* A word: a block's first one has its length, negative while it is free, and
\* the others, like those of a block in use, tell only whose they are.
Word == [val : -Size..Size, of : {0} \cup Handles, ops : Ops \cup {None}]
Junk == [val |-> 0, of |-> 0, ops |-> None]

Filled(mem, a, len, first, rest) ==
    [b \in Addrs |-> IF b = a /\ len > 0 THEN first
                     ELSE IF b \in (a + 1)..(a + len - 1) THEN rest ELSE mem[b]]
SetFree(mem, a, len) == Filled(mem, a, len, [Junk EXCEPT !.val = -len], Junk)
SetUsed(mem, a, len, h, ops) ==
    Filled(mem, a, len, [val |-> len, of |-> h, ops |-> ops], [Junk EXCEPT !.of = h])
Erased(mem, a, len) == Filled(mem, a, len, Junk, Junk)
Copied(mem, from, len, to) ==
    [b \in Addrs |-> IF b \in to..(to + len - 1) THEN mem[b - to + from]
                     ELSE IF b \in from..(from + len - 1) THEN Junk ELSE mem[b]]

NoCall == [pc |-> "idle", back |-> "idle", size |-> 0, ops |-> None, handle |-> 0,
         this |-> 0, before |-> 0, front |-> FALSE, want |-> 0, result |-> FALSE]

HeapTypeOK ==
    /\ heap \in [mem : [Addrs -> Word], alloc : [Handles -> {Reserved} \cup 0..Size],
                 first_free : Handles, last : Handles, end : 0..Size, compact : BOOLEAN]
    /\ call \in [pc : {"idle", "handle", "buffer", "shrink", "maximum", "size"},
                 back : {"idle", "handle", "buffer", "maximum"},
                 size : Nat, ops : Ops \cup {None}, handle : {0} \cup Handles,
                 this : 0..Size, before : 0..Size, front : BOOLEAN,
                 want : Nat, result : BOOLEAN]

PlainOps == [move |-> "free", shrink |-> FALSE]     \* no callbacks: it may always be moved

\* core_allocator_init
HeapInit ==
    /\ heap = [mem |-> SetUsed([a \in Addrs |-> Junk], 0, TestLen, TestHandle, PlainOps),
               alloc |-> [h \in Handles |-> IF h = TestHandle THEN 1 ELSE 0],
               first_free |-> 1, last |-> 1, end |-> TestLen, compact |-> TRUE]
    /\ call = NoCall
-----------------------------------------------------------------------------
(* Walking the blocks *)

Length(w) == IF w.val < 0 THEN -w.val ELSE w.val
IsFree(H, a) == a < H.end /\ H.mem[a].val < 0

NextStart(H, a) == IF a < H.end THEN a + Length(H.mem[a]) ELSE a

\* The blocks' first words and the place where the walk ends.
Starts(H) ==
    LET at[i \in 0..H.end] == IF i = 0 THEN 0 ELSE NextStart(H, at[i - 1])
    IN {at[i] : i \in 0..H.end}

Least(S) == CHOOSE x \in S : \A y \in S : x <= y
Greatest(S) == CHOOSE x \in S : \A y \in S : y <= x

FindFirstFree(H) == Least({a \in Starts(H) : a >= H.end \/ H.mem[a].val < 0})
BlockBefore(H, b) == Greatest({a \in Starts(H) : a < b})
FreeBefore(H, b) == b > 0 /\ IsFree(H, BlockBefore(H, b))
BlockOf(H, h) == H.alloc[h] - 1
Live(H) == {h \in Handles : H.alloc[h] > 0}
-----------------------------------------------------------------------------
(* The handle table *)

\* handle_alloc: the entry it takes, and whether the table must grow for it
FreeEntries(H) == {h \in H.first_free..H.last : H.alloc[h] = 0}
Entry(H) == IF FreeEntries(H) # {} THEN Least(FreeEntries(H))
            ELSE Greatest({H.first_free, H.last + 1})
HandleRoom(H) == FreeEntries(H) # {} \/ Size - Entry(H) >= H.end
HandleTaken(H) ==
    [H EXCEPT !.alloc[Entry(H)] = Reserved,
              !.last = IF FreeEntries(H) # {} THEN @ ELSE @ + 1]

\* handle_free
HandleFreed(H, h) ==
    [H EXCEPT !.alloc[h] = 0,
              !.first_free = IF h < @ THEN h ELSE @,
              !.last = IF h = @ THEN @ - 1 ELSE @,
              !.compact = @ /\ h = H.last]

\* handle_table_shrink
TableShrunk(H) ==
    LET last == Greatest({h \in 1..H.last : H.alloc[h] # 0}) IN
    [H EXCEPT !.last = last, !.first_free = IF last < @ THEN last + 1 ELSE @]
-----------------------------------------------------------------------------
(* buflib_compact, with the set of handles whose move_callback refuses *)

\* move_block
Moved(s, to) ==
    LET w == s.heap.mem[s.block] IN
    [s EXCEPT !.heap.mem = Copied(@, s.block, w.val, to),
              !.heap.alloc[w.of] = to + 1,
              !.ret = TRUE]

\* Mutant of IntoHole: the rest of the hole is not marked.
IntoHoleWhole(s, len) ==
    LET m == Moved(s, s.hole) IN
    [m EXCEPT !.heap.mem = SetFree(@, s.block, len), !.hole = NoHole, !.shift = @ - len]

\* A block goes into the hole, which becomes shorter, and leaves its place free.
IntoHole(s, len) ==
    LET left == -s.heap.mem[s.hole].val - len
        m == Moved(s, s.hole)
    IN [m EXCEPT !.heap.mem = SetFree(SetFree(@, s.hole + len, left), s.block, len),
                 !.hole = IF left > 0 THEN s.hole + len ELSE NoHole,
                 !.shift = @ - len]

\* Mutant of LeftAlone: the blocks behind are moved over the one that stays.
LeftAloneRuns(s) ==
    [s EXCEPT !.heap.mem = SetFree(@, s.block + s.shift, -s.shift),
              !.hole = s.block + s.shift]

\* A block that stays where it is: the free space in front of it is the hole.
LeftAlone(s) ==
    [s EXCEPT !.heap.mem = SetFree(@, s.block + s.shift, -s.shift),
              !.hole = s.block + s.shift, !.shift = 0]

\* Mutant of CanMove: a block without a move_callback is moved as well.
CanMoveAny(w, refuse) == w.of \notin refuse
\* IS_MOVABLE, and what move_callback answers
CanMove(w, refuse) == w.ops.move # "never" /\ w.of \notin refuse

\* The loop's body, for a block that is free or in use
CompactStep(s, refuse) ==
    LET w == s.heap.mem[s.block]
        len == Length(w)
        movable == CanMove(w, refuse)
        fits == s.hole # NoHole /\ -s.heap.mem[s.hole].val >= len
        done == CASE w.val < 0 -> [s EXCEPT !.shift = @ - len]
                  [] w.val >= 0 /\ fits /\ movable -> IntoHole(s, len)
                  [] w.val >= 0 /\ ~(fits /\ movable) /\ s.shift # 0 ->
                        IF movable THEN Moved(s, s.block + s.shift) ELSE LeftAlone(s)
                  [] OTHER -> s
    IN [done EXCEPT !.block = s.block + len]

CompactOn(T, s, refuse) == IF s.block < T.end THEN CompactStep(s, refuse) ELSE s

Compact(H, refuse) ==
    LET T == TableShrunk(H)
        start == [heap |-> T, block |-> FindFirstFree(T), hole |-> NoHole,
                  shift |-> 0, ret |-> T.last # H.last]
        run[i \in 0..Size] == IF i = 0 THEN start ELSE CompactOn(T, run[i - 1], refuse)
        s == run[Size]
        end == T.end + s.shift
    IN [heap |-> [s.heap EXCEPT !.end = end, !.compact = TRUE,
                                !.mem = Erased(@, end, -s.shift)],
        gained |-> s.ret \/ s.shift # 0]

Refusals == SUBSET {h \in Live(heap) : heap.mem[BlockOf(heap, h)].ops.move = "asks"}
-----------------------------------------------------------------------------
(* Freeing and shrinking *)

\* The words from a on are free: they join the free block in front of them and
\* the one, or the end, behind them.
GivenBack(H, a, len) ==
    LET from == IF FreeBefore(H, a) THEN BlockBefore(H, a) ELSE a
        next == a + len
        to == IF IsFree(H, next) THEN next - H.mem[next].val ELSE next
    IN IF next = H.end THEN [H EXCEPT !.mem = Erased(@, from, next - from), !.end = from]
       ELSE [H EXCEPT !.mem = SetFree(@, from, to - from), !.compact = FALSE]

\* buflib_free
Freed(H, h) ==
    LET a == BlockOf(H, h) IN HandleFreed(GivenBack(H, a, H.mem[a].val), h)

\* buflib_shrink by some words in front and some behind. What it does with them
\* differs from buflib_free in one thing: the buffer still counts as compact.
Shrunk(H, h, front, behind) ==
    LET a == BlockOf(H, h)
        w == H.mem[a]
        new == a + front
        next == a + w.val
        from == IF FreeBefore(H, a) THEN BlockBefore(H, a) ELSE a
        to == IF IsFree(H, next) THEN next - H.mem[next].val ELSE next
        len == w.val - front - behind
        mem1 == IF front = 0 THEN H.mem ELSE SetFree(H.mem, from, new - from)
        mem2 == SetUsed(mem1, new, len, h, w.ops)
        mem3 == IF behind = 0 THEN mem2
                ELSE IF next = H.end THEN Erased(mem2, new + len, behind)
                ELSE SetFree(mem2, new + len, to - new - len)
    IN [H EXCEPT !.mem = mem3, !.alloc[h] = new + 1,
                 !.end = IF next = @ THEN new + len ELSE @]

Shrinkages(H, h) ==
    LET words == H.mem[BlockOf(H, h)].val - 1 IN
    {s \in (0..words) \X (0..words) : s[1] + s[2] \in 1..words}
-----------------------------------------------------------------------------
(* The calls *)

Free(h) ==
    /\ call = NoCall
    /\ h # TestHandle /\ h \in Live(heap)
    /\ heap' = Freed(heap, h)
    /\ UNCHANGED call

Shrink(h) ==
    /\ call = NoCall
    /\ h # TestHandle /\ h \in Live(heap)
    /\ \E s \in Shrinkages(heap, h) : heap' = Shrunk(heap, h, s[1], s[2])
    /\ UNCHANGED call

Alloc(size, ops) ==
    /\ call = NoCall
    /\ call' = [NoCall EXCEPT !.pc = "handle", !.size = size + 1, !.ops = ops]
    /\ UNCHANGED heap

AllocMaximum(ops) ==
    /\ call = NoCall
    /\ call' = [NoCall EXCEPT !.pc = "maximum", !.ops = ops]
    /\ UNCHANGED heap

\* buflib_allocatable
Allocatable ==
    /\ call = NoCall /\ ~heap.compact
    /\ \E refuse \in Refusals : heap' = Compact(heap, refuse).heap
    /\ UNCHANGED call

\* buflib_compact_and_shrink: on success the caller tries again, and otherwise
\* the blocks are asked to shrink.
MakeRoom(front, want) ==
    LET asking == [call EXCEPT !.pc = "shrink", !.back = call.pc, !.front = front,
                               !.want = want, !.this = 0, !.before = 0, !.result = FALSE]
    IN IF heap.compact THEN call' = asking /\ UNCHANGED heap
       ELSE \E refuse \in Refusals :
                LET c == Compact(heap, refuse) IN
                /\ heap' = c.heap
                /\ call' = IF c.gained THEN call ELSE asking

TakeHandle ==
    /\ call.pc = "handle"
    /\ HandleRoom(heap)
    /\ heap' = HandleTaken(heap)
    /\ call' = [call EXCEPT !.pc = "buffer", !.handle = Entry(heap)]

NoHandle ==
    /\ call.pc = "handle"
    /\ ~HandleRoom(heap)
    /\ LET last == heap.mem[BlockBefore(heap, heap.end)] IN
       MakeRoom(~last.ops.shrink, IF last.ops.shrink THEN 0 ELSE Length(last))

Fitting(H, size) ==
    {a \in Starts(H) : IF a = H.end THEN Size - H.last - a >= size ELSE -H.mem[a].val >= size}

\* The first fitting place; what is left of a free block stays free.
Placed(H, h, size, ops) ==
    LET a == Least(Fitting(H, size))
        left == -H.mem[a].val - size
        mem == SetUsed(H.mem, a, size, h, ops)
    IN IF a = H.end THEN [H EXCEPT !.mem = mem, !.alloc[h] = a + 1, !.end = a + size]
       ELSE [H EXCEPT !.mem = SetFree(mem, a + size, left), !.alloc[h] = a + 1]

TakeBuffer ==
    /\ call.pc = "buffer"
    /\ Fitting(heap, call.size) # {}
    /\ heap' = Placed(heap, call.handle, call.size, call.ops)
    /\ call' = NoCall

NoBuffer ==
    /\ call.pc = "buffer"
    /\ Fitting(heap, call.size) = {}
    /\ MakeRoom(TRUE, call.size)

\* buflib_alloc_maximum asks everyone until nothing is gained any more, and
\* then allocates what buflib_allocatable tells.
Gather == call.pc = "maximum" /\ MakeRoom(FALSE, Size)

MovableAt(H, a) == H.mem[a].ops.move # "never"

\* buflib_allocatable: free words since the last block that cannot be moved
RoomStep(H, w) ==
    LET word == H.mem[w.this]
        next == w.this + Length(word)
    IN CASE word.val < 0 -> [w EXCEPT !.this = next, !.free = @ - word.val]
         [] word.val >= 0 /\ MovableAt(H, w.this) -> [w EXCEPT !.this = next]
         [] OTHER -> [this |-> next, free |-> 0, max |-> Greatest({w.max, w.free})]
RoomOn(H, w) == IF w.this < H.end THEN RoomStep(H, w) ELSE w
AllocatableWords(H) ==
    LET walk[i \in 0..H.end] == IF i = 0 THEN [this |-> FindFirstFree(H), free |-> 0, max |-> 0]
                                ELSE RoomOn(H, walk[i - 1])
        w == walk[H.end]
    IN Greatest({w.max, w.free, Size - H.last - H.end - EndReserve, 0})

TakeSize ==
    /\ call.pc = "size"
    /\ UNCHANGED heap
    /\ call' = IF AllocatableWords(heap) = 0 THEN NoCall
               ELSE [call EXCEPT !.pc = "handle", !.back = "idle",
                                 !.size = AllocatableWords(heap) + 1]
-----------------------------------------------------------------------------
(* buflib_compact_and_shrink's round over the blocks *)

Looked == heap.mem[call.this]
SpaceInFront == IF call.before # call.this /\ IsFree(heap, call.before)
                THEN -heap.mem[call.before].val ELSE 0
Asked == Looked.val > 0 /\ Looked.ops.shrink
\* The free space in front is more than what is wanted.
Enough == call.front /\ SpaceInFront > 0 /\ call.want < SpaceInFront

GoOn(H, this, before) == [call EXCEPT !.this = this + Length(H.mem[this]), !.before = before]

PassOver ==
    /\ call.pc = "shrink" /\ call.this < heap.end
    /\ ~Asked \/ Enough
    /\ call' = GoOn(heap, call.this, call.this)
    /\ UNCHANGED heap

\* Mutant of Answered: a refusal counts as a success.
AnsweredOk(H, this, ok) ==
    [GoOn(H, this, this) EXCEPT
        !.want = IF call.front THEN @ - SpaceInFront ELSE @, !.result = TRUE]

Answered(H, this, ok) ==
    [GoOn(H, this, this) EXCEPT
        !.want = IF call.front THEN @ - SpaceInFront ELSE @, !.result = @ \/ ok]

\* shrink_callback: it refuses, shrinks the block, or frees it, and then the
\* round goes on behind the block before.
AskToShrink ==
    /\ call.pc = "shrink" /\ call.this < heap.end
    /\ Asked /\ ~Enough
    /\ LET h == Looked.of IN
       \/ heap' = heap /\ call' = Answered(heap, call.this, FALSE)
       \/ \E s \in Shrinkages(heap, h) :
            /\ heap' = Shrunk(heap, h, s[1], s[2])
            /\ call' = Answered(heap', BlockOf(heap', h), TRUE)
       \/ heap' = Freed(heap, h) /\ call' = Answered(heap', call.before, TRUE)

\* What a call that has failed leaves
Failed ==
    CASE call.back = "handle" -> heap' = heap /\ call' = NoCall
      [] call.back = "buffer" -> heap' = HandleFreed(heap, call.handle) /\ call' = NoCall
      [] call.back = "maximum" -> heap' = heap /\ call' = [call EXCEPT !.pc = "size"]

EndRound ==
    /\ call.pc = "shrink" /\ call.this >= heap.end
    /\ IF ~call.result THEN Failed
       ELSE /\ \E refuse \in Refusals : heap' = Compact(heap, refuse).heap
            /\ call' = [call EXCEPT !.pc = call.back, !.this = 0, !.before = 0, !.front = FALSE,
                                    !.want = 0, !.result = FALSE, !.back = "idle"]

Step == TakeHandle \/ NoHandle \/ TakeBuffer \/ NoBuffer \/ Gather \/ TakeSize
        \/ PassOver \/ AskToShrink \/ EndRound

HeapNext ==
    \/ \E h \in Handles : Free(h) \/ Shrink(h)
    \/ \E ops \in Ops : AllocMaximum(ops) \/ \E size \in Sizes : Alloc(size, ops)
    \/ Allocatable
    \/ Step

HeapSpec == HeapInit /\ [][HeapNext]_heapVars

\* A call runs to its end: weak fairness of Step, which can be taken as long as
\* a call is under way.
HeapFairSpec == HeapSpec /\ ([]<>(call = NoCall) \/ []<><<Step>>_heapVars)
-----------------------------------------------------------------------------
\* The blocks tile the buffer up to the end of the allocations, which the table
\* of handles does not reach; each block in use belongs to one handle, which
\* knows where it is, and all its words are its own (buflib.c, the comment at
\* the top; a move, a hole or a shrink over a neighbour breaks this).
Tiled ==
    /\ \A a \in Starts(heap) : a < heap.end => heap.mem[a].val # 0 /\ a + Length(heap.mem[a]) <= heap.end
    /\ heap.end <= Size - heap.last
    /\ \A a \in Starts(heap) : a < heap.end /\ heap.mem[a].val > 0 =>
            /\ heap.alloc[heap.mem[a].of] = a + 1
            /\ \A b \in (a + 1)..(a + heap.mem[a].val - 1) :
                    heap.mem[b] = [Junk EXCEPT !.of = heap.mem[a].of]
    /\ \A h \in Live(heap) : BlockOf(heap, h) \in Starts(heap) /\ heap.mem[BlockOf(heap, h)].of = h

\* No two free blocks side by side and none at the end: otherwise a request
\* that would fit both together fails (buflib_free, buflib_shrink, the end of
\* buflib_compact).
NoFreeNeighbours ==
    \A a \in Starts(heap) : IsFree(heap, a) =>
        a - heap.mem[a].val < heap.end /\ heap.mem[a - heap.mem[a].val].val > 0

\* An entry of the table is in use only for an allocation that exists or that
\* is under way, and within the table's length: an entry that is not given back
\* is lost for good, one beyond the end is overwritten by an allocation
\* (buflib_alloc_ex, handle_free, handle_table_shrink).
HandlesKept ==
    \A h \in Handles : heap.alloc[h] # 0 =>
        h <= heap.last /\ (heap.alloc[h] = Reserved => h = call.handle)

\* An allocation that must not be moved stays where it is as long as its owner
\* keeps it as it is, whatever is allocated, freed and compacted around it
\* (buflib.h: if NULL, this allocation must not be moved around).
FixedStays ==
    [][\A h \in Live(heap) :
        LET a == BlockOf(heap, h) IN
        heap.mem[a].ops.move = "never" /\ heap'.alloc[h] > 0 =>
            \/ heap'.alloc[h] = heap.alloc[h]
            \/ heap'.mem[heap'.alloc[h] - 1].val < heap.mem[a].val]_heap

\* Every call returns, however often it compacts, asks and tries again
\* (buflib_alloc_ex, buflib_alloc_maximum).
Returns == call # NoCall ~> call = NoCall

\* The buffer and the table are well formed at every callback, where the owner of
\* a block may look at it or change it (buflib.c).
HeapKept == HeapTypeOK /\ Tiled /\ NoFreeNeighbours /\ HandlesKept
=============================================================================
