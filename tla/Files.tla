------------------------------- MODULE Files -------------------------------
(***************************************************************************)
(* Open files: the streams that threads hold on a file, the object they    *)
(* share, the sector each of them caches and the file's chain on the disk, *)
(* as file.c, file_internal.c and fileobj_mgr.c change them.  Each call is *)
(* one step: calls on one file exclude each other (its mutex, or the       *)
(* filesystem's lock as WRITER), and what a call shares with those on      *)
(* other files is only the free space.  The disk never fails, it is only   *)
(* full; module Fat is about the chains when it does.  There is one name.  *)
(*                                                                         *)
(* Of the bytes only this is kept: which units of a sector's copy hold     *)
(* what was last written there.                                            *)
(***************************************************************************)
EXTENDS Integers, FiniteSets, Sequences, SequencesExt, FiniteSetsExt

CONSTANTS
    Streams,        \* open_streams
    Temp,           \* the stream that remove() opens for itself
    Files,          \* fobindings, each with the file on the disk it is for
    SectorSize,     \* in units
    MaxSize,        \* FILE_SIZE_MAX
    TruncThresh,    \* O_TRUNC_THRESH
    NumBuffers,     \* sector buffers that the disk cache can lend
    Modes           \* bounds: [calls, free, size, lengths, flags, files]

VARIABLES
    fs,             \* [file, str, free, lent, orphans, oom], see Init
    mode,           \* the one of Modes that this behaviour is about
    left            \* calls that are left to it

vars == <<fs, mode, left>>

None == 0                   \* no file
NoEntry == -1               \* the file has no entry in the directory
Invalid == -1               \* INVALID_SECNUM
Units == 0..(SectorSize - 1)
Sectors(n) == n \div SectorSize + (IF n % SectorSize = 0 THEN 0 ELSE 1)
Least(a, b) == IF a < b THEN a ELSE b

NoCache == [held |-> FALSE, sector |-> Invalid, flags |-> {}, data |-> {}]
Reset(c) == [c EXCEPT !.sector = Invalid, !.flags = {}, !.data = {}]
NoFile == [entry |-> NoEntry, chain |-> <<>>, size |-> 0, writers |-> 0,
           flags |-> {}, cache |-> NoCache]
NoStream == [of |-> None, flags |-> {}, offset |-> 0, pos |-> 0, eof |-> FALSE,
             shared |-> FALSE, own |-> NoCache]

StreamsOf(w, f) == {s \in DOMAIN w.str : w.str[s].of = f}
FileOf(w, s) == w.file[w.str[s].of]
CacheOf(w, s) == IF w.str[s].shared THEN FileOf(w, s).cache ELSE w.str[s].own
SetCache(w, s, c) ==
    IF w.str[s].shared THEN [w EXCEPT !.file[w.str[s].of].cache = c]
    ELSE [w EXCEPT !.str[s].own = c]
SetFlags(w, s, flags) == SetCache(w, s, [CacheOf(w, s) EXCEPT !.flags = flags])

\* file_cache_alloc and file_cache_free, on the count of buffers lent
Taken(w) == IF w.lent = NumBuffers THEN [w EXCEPT !.oom = TRUE] ELSE [w EXCEPT !.lent = @ + 1]
Returned(w, c) == IF c.held THEN [w EXCEPT !.lent = @ - 1] ELSE w

(***************************************************************************)
(* The driver: fat_seek and fat_readwrite of one sector at stream s.  A    *)
(* sector is a cluster, appended to the chain as long as there is space.   *)
(***************************************************************************)
FatSeek(w, s, n) ==
    IF n > Len(FileOf(w, s).chain) THEN [w |-> [w EXCEPT !.str[s].eof = FALSE], rc |-> "eio"]
    ELSE [w |-> [w EXCEPT !.str[s].pos = n, !.str[s].eof = FALSE], rc |-> "ok"]
FatRead(w, s) ==
    LET p == w.str[s].pos
        chain == FileOf(w, s).chain
    IN CASE w.str[s].eof -> [w |-> w, data |-> {}]
         [] ~w.str[s].eof /\ p >= Len(chain) -> [w |-> [w EXCEPT !.str[s].eof = TRUE], data |-> {}]
         [] OTHER -> [w |-> [w EXCEPT !.str[s].pos = p + 1], data |-> chain[p + 1]]
FatWrite(w, s, data) ==
    LET f == w.str[s].of
        p == w.str[s].pos
        go == [w EXCEPT !.str[s].pos = p + 1, !.str[s].eof = FALSE]
    IN CASE p < Len(w.file[f].chain) ->
                [w |-> [go EXCEPT !.file[f].chain[p + 1] = data], rc |-> "ok"]
         [] p >= Len(w.file[f].chain) /\ w.free > 0 ->
                [w |-> [go EXCEPT !.file[f].chain = Append(@, data), !.free = @ - 1], rc |-> "ok"]
         [] OTHER -> [w |-> [w EXCEPT !.str[s].eof = TRUE], rc |-> "enospc"]
CutTo(w, f, n) ==
    [w EXCEPT !.file[f].chain = SubSeq(@, 1, n), !.free = @ + Len(w.file[f].chain) - n]

(***************************************************************************)
(* What was written before at these units of sector k is no longer what    *)
(* the file holds; nor is anything beyond the file's size.                 *)
(***************************************************************************)
Only(w, f, keep) ==
    LET kept(c) == IF c.sector = Invalid THEN c ELSE [c EXCEPT !.data = @ \cap keep[c.sector]]
    IN [w EXCEPT
          !.file[f].cache = kept(@),
          !.file[f].chain = [i \in DOMAIN @ |-> @[i] \cap keep[i - 1]],
          !.str = [s \in DOMAIN @ |-> IF @[s].of = f THEN [@[s] EXCEPT !.own = kept(@)] ELSE @[s]]]
Overwritten(w, f, k, units) ==
    Only(w, f, [i \in 0..MaxSize |-> IF i = k THEN Units \ units ELSE Units])
Clipped(w, f) ==
    Only(w, f, [i \in 0..MaxSize |-> {u \in Units : i * SectorSize + u < w.file[f].size}])

(***************************************************************************)
(* The cached sector.                                                      *)
(***************************************************************************)
\* A step's result r = [w, rc]; the next one is taken while rc is "ok".
Ok(w) == [w |-> w, rc |-> "ok"]
SeekFrom(r, s, k) == IF r.rc # "ok" \/ r.w.str[s].pos = k THEN r ELSE FatSeek(r.w, s, k)
Put(r, s) == IF r.rc = "ok" THEN FatWrite(r.w, s, CacheOf(r.w, s).data) ELSE r
Cleaned(r, s) == IF r.rc = "ok" THEN [r EXCEPT !.w = SetFlags(@, s, {})] ELSE r
FlushCache(w, s) == Cleaned(Put(SeekFrom(Ok(w), s, CacheOf(w, s).sector), s), s)

\* readwrite_fill_cache; "sectors" is the file's length before the call.
Held(w, s) ==
    IF CacheOf(w, s).held THEN w
    ELSE SetCache(Taken(w), s, [CacheOf(w, s) EXCEPT !.held = TRUE])
FlushDirty(w, s) == IF "dirty" \in CacheOf(w, s).flags THEN FlushCache(w, s) ELSE Ok(w)
Holding(w, s, k, flags, data) ==
    SetCache(w, s, [CacheOf(w, s) EXCEPT !.sector = k, !.flags = flags, !.data = data])
Filled(r, s, k, read) ==
    CASE r.rc # "ok" -> r
      [] r.rc = "ok" /\ read ->
            LET got == FatRead(r.w, s)
            IN Ok(Holding(got.w, s, k, CacheOf(got.w, s).flags, got.data))
      [] OTHER -> Ok(Holding(r.w, s, k, {"new"}, {}))
FillCache(w, s, k, sectors, write) ==
    Filled(SeekFrom(FlushDirty(Held(w, s), s), s, k), s, k, ~write \/ k < sectors)

ThroughCache(w, s, units, write) ==
    LET k == CacheOf(w, s).sector
        o == Overwritten(w, w.str[s].of, k, units)
    IN IF ~write THEN w
       ELSE SetCache(o, s, [CacheOf(o, s) EXCEPT !.flags = @ \cup {"dirty"}, !.data = @ \cup units])

(***************************************************************************)
(* readwrite(): head, whole sectors, tail.  A transfer a = [w, rc, done]   *)
(* goes on while its rc is "ok"; whole sectors go around the cache, except *)
(* for the one it holds.                                                   *)
(***************************************************************************)
Transferred(r, s, units, write) ==
    IF r.rc = "ok" THEN [r EXCEPT !.w = ThroughCache(@, s, units, write)] ELSE r
After(a, r, n) == [w |-> r.w, rc |-> r.rc, done |-> IF r.rc = "ok" THEN a.done + n ELSE a.done]
Partial(a, s, k, units, sectors, write) ==
    LET r == IF CacheOf(a.w, s).sector = k THEN Ok(a.w) ELSE FillCache(a.w, s, k, sectors, write)
    IN IF a.rc # "ok" \/ units = {} THEN a
       ELSE After(a, Transferred(r, s, units, write), Cardinality(units))

Run(a, s, k, n, sectors, write) ==
    LET pending == k >= sectors /\ CacheOf(a.w, s).flags = {"new", "dirty"}
        there == CASE a.w.str[s].pos = k -> Ok(a.w)
                   [] a.w.str[s].pos # k /\ pending -> FlushCache(a.w, s)
                   [] OTHER -> FatSeek(a.w, s, k)
        one(b, i) ==
            CASE b.rc # "ok" -> b
              [] b.rc = "ok" /\ write ->
                    FatWrite(Overwritten(b.w, b.w.str[s].of, k + i - 1, Units), s, Units)
              [] OTHER -> Ok(FatRead(b.w, s).w)
    IN IF a.rc # "ok" \/ n = 0 THEN a
       ELSE After(a, FoldLeft(one, there, [i \in 1..n |-> i]), n * SectorSize)

Cached(a, s, write) ==
    IF a.rc = "ok" THEN After(a, Transferred(a, s, Units, write), SectorSize) ELSE a
MutWhole(a, s, k, n, sectors, write) ==     \* around the cache throughout
    Run(a, s, k, n, sectors, write)
Whole(a, s, k, n, sectors, write) ==
    LET c == CacheOf(a.w, s).sector
    IN IF c \in k..(k + n - 1)
       THEN Run(Cached(Run(a, s, k, c - k, sectors, write), s, write),
                s, c + 1, k + n - 1 - c, sectors, write)
       ELSE Run(a, s, k, n, sectors, write)

Finished(a, s, at, write) ==
    LET f == a.w.str[s].of
        end == at + a.done
    IN Clipped([a.w EXCEPT !.str[s].offset = end,
                           !.file[f].size = IF write /\ end > @ THEN end ELSE @], f)
ReadWrite(w, s, n, write) ==
    LET size == FileOf(w, s).size
        at == IF write /\ "append" \in w.str[s].flags THEN size ELSE w.str[s].offset
        len == Least(n, (IF write THEN MaxSize ELSE size) - at)
        head == IF at % SectorSize = 0 THEN 0 ELSE Least(len, SectorSize - (at % SectorSize))
        k == Sectors(at)
        whole == (len - head) \div SectorSize
        tail == (len - head) % SectorSize
        start == [w |-> [w EXCEPT !.str[s].offset = at], rc |-> "ok", done |-> 0]
        first == IF head = 0 THEN start
                 ELSE Partial(start, s, at \div SectorSize,
                              (at % SectorSize)..((at % SectorSize) + head - 1), Sectors(size), write)
        middle == Whole(first, s, k, whole, Sectors(size), write)
        last == Partial(middle, s, k + whole, 0..(tail - 1), Sectors(size), write)
    IN IF len <= 0 THEN start.w ELSE Finished(last, s, at, write)

(***************************************************************************)
(* Truncation and synchronisation.                                         *)
(***************************************************************************)
\* handle_truncate: every stream of the file is brought inside its new size
MutHandleTruncate(w, s, size) ==
    [w EXCEPT !.str = [t \in DOMAIN @ |->
        IF @[t].of = w.str[s].of /\ @[t].pos > Sectors(size)
        THEN [@[t] EXCEPT !.pos = w.str[s].pos, !.eof = w.str[s].eof] ELSE @[t]]]
HandleTruncate(w, s, size) ==
    LET f == w.str[s].of
        beyond(c) == c.sector # Invalid /\ c.sector >= Sectors(size)
        kept(c) == IF beyond(c) THEN Reset(c) ELSE c
        inside(t) ==
            LET t0 == [t EXCEPT !.own = kept(@), !.offset = Least(@, size)]
            IN IF t.pos > Sectors(size) THEN [t0 EXCEPT !.pos = w.str[s].pos, !.eof = w.str[s].eof] ELSE t0
    IN [w EXCEPT !.file[f].cache = kept(@),
                 !.str = [t \in DOMAIN @ |-> IF @[t].of = f THEN inside(@[t]) ELSE @[t]]]

\* a sector that was never added to the chain, just before the new end
AtEnd(w, s, n) ==
    LET c == CacheOf(w, s) IN c.flags = {"new", "dirty"} /\ c.sector + 1 = Sectors(n)
MutAlignDown(n) == n
AlignDown(n) == (n \div SectorSize) * SectorSize
FtruncateInternal(w, s, size, now) ==
    LET f == w.str[s].of
        cur == w.file[f].size
        len == Least(size, cur)
        r == IF now /\ AtEnd(w, s, len) THEN FlushCache(w, s) ELSE [w |-> w, rc |-> "ok"]
        full == r.rc = "enospc"
        dropped == IF full THEN SetFlags(r.w, s, {}) ELSE r.w
        to == IF full THEN AlignDown(len - 1) ELSE len
        sought == FatSeek(dropped, s, Sectors(to))
        cut == [CutTo(sought.w, f, Least(Len(FileOf(sought.w, s).chain),
                                         IF Sectors(to) = 0 THEN 1 ELSE Sectors(to)))
                    EXCEPT !.file[f].flags = @ \ {"trunc"}]
        v == IF now THEN cut ELSE w
        shorter == Clipped(HandleTruncate([v EXCEPT !.file[f].size = to], s, to), f)
    IN CASE r.rc = "eio" -> [w |-> r.w, rc |-> "eio"]
         [] r.rc # "eio" /\ now /\ sought.rc # "ok" -> [w |-> sought.w, rc |-> "eio"]
         [] OTHER -> [w |-> IF to < cur THEN shorter ELSE v, rc |-> r.rc]

\* fat_closewrite: an empty file's first cluster, and the file's entry
CloseWrite(w, s, size) ==
    LET f == w.str[s].of
        v == IF size = 0 /\ w.file[f].chain # <<>>
             THEN [w EXCEPT !.file[f].chain = <<>>, !.free = @ + 1,
                            !.str[s].pos = 0, !.str[s].eof = FALSE]
             ELSE w
    IN IF v.file[f].entry = NoEntry THEN v ELSE [v EXCEPT !.file[f].entry = size]

MutTruncPending(w, f) == FALSE
TruncPending(w, f) == "trunc" \in w.file[f].flags
FsyncInternal(w, s) ==
    LET f == w.str[s].of
        c == CacheOf(w, s)
        r == IF "dirty" \in c.flags THEN FlushCache(w, s) ELSE [w |-> w, rc |-> "ok"]
        full == r.rc = "enospc" /\ "new" \in c.flags
        size == IF full THEN AlignDown(w.file[f].size - 1) ELSE w.file[f].size
        dropped == IF full THEN SetFlags(r.w, s, {}) ELSE r.w
        v == IF (r.rc = "ok" /\ TruncPending(w, f)) \/ full
             THEN FtruncateInternal(dropped, s, size, ~full).w ELSE dropped
    IN CloseWrite(v, s, size)

(***************************************************************************)
(* fileobj_mgr.c: the first writer makes all streams of the file use one   *)
(* cache; when the last one closes, the readers go on with copies of it.   *)
(***************************************************************************)
Assigned(w, s) ==
    IF w.str[s].shared THEN w
    ELSE [Returned(w, w.str[s].own) EXCEPT !.str[s].shared = TRUE, !.str[s].own = NoCache]

FileopOpen(w, s, f, flags) ==
    LET first == StreamsOf(w, f) = {}
        v == [w EXCEPT !.str[s] = [NoStream EXCEPT !.of = f, !.flags = (flags \ {"trunc"}) \cup {"busy"}],
                       !.file[f].flags = (IF first THEN {"single"} ELSE @ \ {"single"})
                                         \cup (flags \cap {"trunc"}),
                       !.file[f].writers = IF "write" \in flags THEN @ + 1 ELSE @]
        writers == v.file[f].writers
    IN CASE "write" \in flags /\ writers = 1 ->
                FoldLeft(Assigned, [v EXCEPT !.file[f].cache = NoCache], SetToSeq(StreamsOf(v, f)))
         [] writers > 0 /\ ~("write" \in flags /\ writers = 1) -> Assigned(v, s)
         [] OTHER -> v

Copied(w, t) ==             \* filestr_copy_cache
    LET c == FileOf(w, t).cache
    IN [(IF c.held THEN Taken(w) ELSE w) EXCEPT !.str[t].shared = FALSE, !.str[t].own = c]
Destroyed(w, s) == [Returned(w, w.str[s].own) EXCEPT !.str[s] = NoStream]

Single(w, f) ==
    IF Cardinality(StreamsOf(w, f)) = 1 THEN [w EXCEPT !.file[f].flags = @ \cup {"single"}] ELSE w
FileopClose(w, s) ==
    LET f == w.str[s].of
        file == w.file[f]
        out == [w EXCEPT !.str[s].of = None]
        freed(v) == [Returned(v, v.file[f].cache) EXCEPT !.file[f].cache = NoCache]
        lastwriter == "write" \in w.str[s].flags /\ file.writers = 1
        fewer == IF "write" \in w.str[s].flags THEN [out EXCEPT !.file[f].writers = @ - 1] ELSE out
        alone == IF lastwriter THEN freed(FoldLeft(Copied, fewer, SetToSeq(StreamsOf(fewer, f)))) ELSE fewer
        unbound(v) == [v EXCEPT !.file[f] = [NoFile EXCEPT !.entry = file.entry, !.chain = file.chain]]
    IN CASE "busy" \notin w.str[s].flags -> Destroyed(w, s)
         [] "busy" \in w.str[s].flags /\ "single" \in file.flags ->
                Destroyed(unbound(IF file.writers > 0 THEN freed(out) ELSE out), s)
         [] OTHER -> Destroyed(Single(alone, f), s)

\* close_stream_internal: nobody else can reach a removed file's data
CloseStream(w, s) ==
    LET f == w.str[s].of
    IN FileopClose(IF f # None /\ {"single", "removed"} \subseteq w.file[f].flags
                   THEN CutTo(w, f, 0) ELSE w, s)
CloseInternal(w, s) ==
    CloseStream(IF "write" \in w.str[s].flags THEN FsyncInternal(w, s) ELSE w, s)

(***************************************************************************)
(* The calls.                                                              *)
(***************************************************************************)
Call == left > 0 /\ left' = left - 1 /\ mode' = mode /\ ~fs.oom
IsOpen(s) == "busy" \in fs.str[s].flags
Writable(s) == {"busy", "write"} \subseteq fs.str[s].flags
Named == {f \in Files : fs.file[f].entry # NoEntry}
Unused == {f \in mode.files : f \notin Named /\ StreamsOf(fs, f) = {}}

Opened(w, s, f, flags) ==
    LET first == StreamsOf(w, f) = {}
        v == FileopOpen(w, s, f, flags)
        sized == IF first THEN [v EXCEPT !.file[f].size = v.file[f].entry] ELSE v
    IN IF "trunc" \notin flags THEN sized
       ELSE FtruncateInternal(sized, s, 0, sized.file[f].size >= TruncThresh).w
Open(s) ==
    /\ Call /\ fs.str[s].flags = {}
    /\ \E f \in Named, flags \in mode.flags : fs' = Opened(fs, s, f, flags)
\* O_CREAT | O_EXCL on a file that is there: it is opened, and closed again.
OpenExclusive(s) ==
    /\ Call /\ fs.str[s].flags = {}
    /\ \E f \in Named, flags \in mode.flags :
           fs' = CloseStream(FileopOpen(fs, s, f, flags), s)
Create(s) ==
    /\ Call /\ fs.str[s].flags = {} /\ Named = {}
    /\ \E f \in Unused, flags \in {g \in mode.flags : "trunc" \notin g} :
           fs' = FileopOpen([fs EXCEPT !.file[f].entry = 0], s, f, flags)
Close(s) ==
    /\ Call /\ fs.str[s].flags # {}
    /\ fs' = CloseInternal(fs, s)
Read(s) ==
    /\ Call /\ IsOpen(s)
    /\ \E n \in mode.lengths : fs' = ReadWrite(fs, s, n, FALSE)
Write(s) ==
    /\ Call /\ Writable(s)
    /\ \E n \in mode.lengths : fs' = ReadWrite(fs, s, n, TRUE)
Lseek(s) ==
    /\ Call /\ IsOpen(s)
    /\ \E to \in 0..FileOf(fs, s).size : fs' = [fs EXCEPT !.str[s].offset = to]
Ftruncate(s) ==
    /\ Call /\ Writable(s)
    /\ \E to \in 0..FileOf(fs, s).size : fs' = FtruncateInternal(fs, s, to, TRUE).w
Fsync(s) ==
    /\ Call /\ Writable(s)
    /\ fs' = FsyncInternal(fs, s)

\* remove(): through a stream of its own
RemoveFile ==
    /\ Call
    /\ \E f \in Named :
           LET v == FileopOpen(fs, Temp, f, {})
           IN fs' = CloseStream([v EXCEPT !.file[f].entry = NoEntry,
                                          !.file[f].flags = @ \cup {"removed"}], Temp)

(***************************************************************************)
(* The volume unmounted under its open files, and mounted again: streams   *)
(* are closed in the order they were opened in, here any, and their        *)
(* descriptors stay taken.  Readers are closed without close_stream's      *)
(* care for removed files: the clusters of one they held last are lost.    *)
(***************************************************************************)
Gone(w, s) ==
    LET v == IF "write" \in w.str[s].flags THEN CloseInternal(w, s) ELSE FileopClose(w, s)
    IN [v EXCEPT !.str[s].flags = {"nonexist"}]
Unmount ==
    /\ Call
    /\ \E order \in SetToSeqs({s \in Streams : IsOpen(s)}) :
           LET v == FoldLeft(Gone, fs, order)
               lost == {f \in Files : v.file[f].entry = NoEntry}
           IN fs' = [v EXCEPT !.orphans = @ + MapThenSumSet(LAMBDA f : Len(v.file[f].chain), lost),
                              !.file = [f \in Files |-> IF f \in lost THEN NoFile ELSE @[f]]]

Stopped == (left = 0 \/ fs.oom) /\ UNCHANGED vars

Fresh(size, k) == {u \in Units : k * SectorSize + u < size}
Init ==
    /\ mode \in Modes
    /\ left = mode.calls
    /\ \E f \in mode.files :
           /\ \A g \in mode.files : f <= g
           /\ fs = [file |-> [g \in Files |->
                        IF g # f THEN NoFile
                        ELSE [NoFile EXCEPT !.entry = mode.size,
                                            !.chain = [i \in 1..Sectors(mode.size) |-> Fresh(mode.size, i - 1)]]],
                     str |-> [s \in Streams \cup {Temp} |-> NoStream],
                     free |-> mode.free, lent |-> 0, orphans |-> 0, oom |-> FALSE]

Next ==
    \/ \E s \in Streams :
          \/ Open(s) \/ OpenExclusive(s) \/ Create(s) \/ Close(s) \/ Read(s) \/ Write(s)
          \/ Lseek(s) \/ Ftruncate(s) \/ Fsync(s)
    \/ RemoveFile \/ Unmount \/ Stopped
Spec == Init /\ [][Next]_vars

Caches(f) == {fs.file[f].cache} \cup {fs.str[s].own : s \in StreamsOf(fs, f)}
TypeOK ==
    /\ fs.lent \in 0..NumBuffers /\ fs.free \in Nat
    /\ \A s \in Streams : /\ fs.str[s].of \in {None} \cup Files
                          /\ fs.str[s].offset \in 0..MaxSize
    /\ \A f \in Files : /\ fs.file[f].size \in 0..MaxSize
                        /\ fs.file[f].writers \in 0..Cardinality(Streams)
                        /\ \A c \in Caches(f) : c.data \subseteq Units
    /\ fs.str[Temp] = NoStream

(***************************************************************************)
(* Whatever a stream reads below the file's size is what was last written  *)
(* there through any stream: in the sector it caches, or else on the disk. *)
(* That goes for a file that was removed while it is open as well.  It is  *)
(* not so where a stream was refused a cluster and another file then frees *)
(* space: the stream's end-of-file mark stays and its next fill reads      *)
(* nothing (fat.c:2396).  That needs a full disk with two files; the full  *)
(* disk here has one.                                                      *)
(***************************************************************************)
Sees(s, u) ==
    LET c == CacheOf(fs, s)
        k == u \div SectorSize
        chain == FileOf(fs, s).chain
    IN u % SectorSize \in (IF c.sector = k THEN c.data ELSE IF k < Len(chain) THEN chain[k + 1] ELSE {})
ReadsLastWritten ==
    \A s \in Streams : IsOpen(s) => \A u \in 0..(FileOf(fs, s).size - 1) : Sees(s, u)

(***************************************************************************)
(* The buffers lent are those the caches hold, and there is always one for *)
(* a cache that needs it: "if this fails, it is a bug; check for leaks and *)
(* that the cache has enough buffers for the worst case"                   *)
(* (file_internal.c:70).                                                   *)
(***************************************************************************)
BuffersKept ==
    /\ ~fs.oom
    /\ fs.lent = Cardinality({s \in Streams : fs.str[s].own.held})
                 + Cardinality({f \in Files : fs.file[f].cache.held})

(***************************************************************************)
(* The object knows how many streams and writers it has; all its streams   *)
(* use its cache while there is a writer and none does otherwise, and only *)
(* the shared cache may hold what is not on the disk.                      *)
(***************************************************************************)
Counted ==
    \A f \in Files :
        LET streams == StreamsOf(fs, f)
        IN /\ fs.file[f].writers = Cardinality({s \in streams : "write" \in fs.str[s].flags})
           /\ ("single" \in fs.file[f].flags) <=> Cardinality(streams) = 1
           /\ \A s \in streams : /\ fs.str[s].shared <=> fs.file[f].writers > 0
                                 /\ "dirty" \notin fs.str[s].own.flags

(***************************************************************************)
(* Once a file's last writer has closed, though it was closed by force or  *)
(* the disk is full, all is on the disk: the entry has the file's size,    *)
(* the chain is as long as that says, and no sector is stale.              *)
(***************************************************************************)
Saved ==
    \A f \in Named :
        fs.file[f].writers = 0 =>
            LET file == fs.file[f]
            IN /\ Len(file.chain) = Sectors(file.entry)
               /\ \A k \in DOMAIN file.chain : Fresh(file.entry, k - 1) \subseteq file.chain[k]
               /\ StreamsOf(fs, f) # {} => file.size = file.entry

(***************************************************************************)
(* Every cluster is free or in the chain of a file that has a name or a    *)
(* stream: what is removed while it is open is freed at the last close.    *)
(***************************************************************************)
NothingLost ==
    /\ fs.free + fs.orphans + MapThenSumSet(LAMBDA f : Len(fs.file[f].chain), Files)
           = mode.free + Sectors(mode.size)
    /\ \A f \in Files \ Named : StreamsOf(fs, f) = {} => fs.file[f].chain = <<>>

(***************************************************************************)
(* No stream is beyond the file: its offset, from which read() takes the   *)
(* unsigned rest of the size, nor its place in the chain, where what       *)
(* follows is another file's, whichever stream has cut the file.           *)
(***************************************************************************)
InBounds ==
    \A s \in Streams : IsOpen(s) =>
        /\ fs.str[s].offset <= FileOf(fs, s).size
        /\ fs.str[s].pos <= Len(FileOf(fs, s).chain)

(***************************************************************************)
(* Synchronising or closing a file, and reading it, never shortens it, but *)
(* for a last sector for which a full disk had no cluster.                 *)
(***************************************************************************)
OnlyTailLost ==
    [][\A s \in Streams : (Read(s) \/ Fsync(s) \/ Close(s)) /\ IsOpen(s) =>
          LET f == fs.str[s].of
              size == fs.file[f].size
          IN StreamsOf(fs', f) # {} =>
                 \/ fs'.file[f].size = size
                 \/ fs.free = 0 /\ size > 0 /\ fs'.file[f].size = (Sectors(size) - 1) * SectorSize]_vars

(***************************************************************************)
(* The books of the file layer are right after every call: buffers, streams*)
(* and writers are counted, and no stream is left outside its file.        *)
(***************************************************************************)
CachesKept == TypeOK /\ BuffersKept /\ Counted /\ InBounds

(***************************************************************************)
(* What a file was given reaches the disk, and its space comes back: over  *)
(* a full disk, a removal or a forced close as well.                       *)
(***************************************************************************)
AllSaved == Saved /\ NothingLost
=============================================================================
