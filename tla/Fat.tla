-------------------------------- MODULE Fat --------------------------------
(***************************************************************************)
(* Files on a FAT volume: the chains of clusters in the table, the entries *)
(* of the root directory and the open files, as drivers/fat.c, file.c and  *)
(* file_internal.c change them through the sector cache (DiskCache).  One  *)
(* step is one section under the cache's lock.  Calls that change the      *)
(* directory hold the filesystem's lock alone (WRITER); reads, writes and  *)
(* truncations share it and are one at a time per file.  A cluster is one  *)
(* sector here, a file's entry is one slot of the directory, and sectors   *)
(* may become unreadable for a while.                                      *)
(***************************************************************************)
EXTENDS DiskCache

CONSTANTS
    Procs,          \* threads, each with at most one file open
    Names,          \* names of files
    NoName,         \* a free slot of the directory
    NumClusters,    \* data clusters: 2..NumClusters + 1
    PerSector,      \* table entries, or directory slots, in a sector
    Bindings,       \* file objects
    Images,         \* what may be on the disk at first: [table, slots]
    Breakable,      \* sectors that may become unreadable
    Budgets         \* [calls, loans, faults]: how many of each there may be

VARIABLES
    vol,            \* the mounted volume: its sector cache and disk, fsinfo
    broken,         \* sectors that have been unreadable; Far once a stream has lost its place
    file,           \* fobindings: the open files
    str,            \* the stream a thread has open
    op,             \* the call a thread is in
    writer,         \* the thread that has the filesystem lock alone
    left            \* what is left of one of the Budgets (a plain open is free)

vars == <<vol, broken, file, str, op, writer, left>>

None == 0                   \* no cluster, no file object, no thread
Failed == -1                \* what get_next_cluster returns on an error
EndMark == -2               \* FAT_EOF_MARK
NoSlot == -1
Clusters == 2..(NumClusters + 1)
Slots == 0..(PerSector - 1)
FatSize == ((NumClusters + 1) \div PerSector) + 1
Info == 1
FatSectors == 2..(FatSize + 1)
Dir == FatSize + 2
Far == FatSize + 3          \* where the table would have entry 0xffffffff
Sectors == {Info, Dir} \cup FatSectors
FreeSlot == [name |-> NoName, first |-> None, size |-> 0]
NoFile == [slot |-> NoSlot, first |-> None, size |-> 0, removed |-> FALSE, trunc |-> FALSE]
NoStream == [of |-> None, pos |-> 0, last |-> None]
Idle == [pc |-> "idle", job |-> "none", of |-> None, victim |-> None,
         cur |-> None, next |-> None, len |-> 0, name |-> NoName]

\* What an entry of the table, a slot of the directory and a sector hold.
Link == {None, Failed} \cup Clusters
Word == {None, EndMark} \cup Clusters
DirSlot == [name : Names \cup {NoName}, first : {None} \cup Clusters, size : Nat]
Data(s) == IF s = Dir THEN [Slots -> DirSlot]
           ELSE IF s = Info THEN [free : Nat, next : Nat] ELSE [Slots -> Word]
Object == [slot : {NoSlot} \cup Slots, first : {None} \cup Clusters, size : Nat,
           removed : BOOLEAN, trunc : BOOLEAN]
Stream == [of : {None} \cup Bindings, pos : Nat, last : Link]
Op == [pc : {"idle", "alloc", "cut", "mark", "free", "unlink", "closewrite", "entry", "commit",
             "newentry", "oldentry", "remove", "release"},
       job : {"none", "trunc", "sync", "close", "discard"},
       of : {None} \cup Bindings, victim : {None} \cup Bindings,
       cur : Int, next : Int, len : Nat, name : Names \cup {NoName}]

ASSUME SizesAssumption == NumClusters \in Nat \ {0} /\ PerSector \in Nat \ {0}
ASSUME ProcsAssumption == None \notin Procs /\ Procs # {}
ASSUME NamesAssumption == NoName \notin Names
ASSUME BindingsAssumption == Bindings \subseteq Nat \ {None}
ASSUME BreakableAssumption == Breakable \subseteq Sectors
ASSUME BudgetsAssumption ==         \* two entries of the cache are never lent
    /\ Budgets \subseteq [calls : Nat, loans : Nat, faults : Nat]
    /\ \A b \in Budgets : b.loans + 2 <= NumEntries
ASSUME ImagesAssumption ==
    \A image \in Images :
        /\ image.table \in [Clusters -> Word] /\ image.slots \in [Slots -> DirSlot]
        /\ \A s, t \in Slots : image.slots[s].name = image.slots[t].name =>
               s = t \/ image.slots[s].name = NoName

\* The chains a table holds: each cluster that is in one with the first of its
\* chain and how far along it stands.  What is in none may still be linked.
Chained(table, root, at) ==
    /\ root \in [Clusters -> {None} \cup Clusters] /\ at \in [Clusters -> Nat]
    /\ \A c \in Clusters : root[c] # None =>
           /\ table[c] # None
           /\ root[root[c]] = root[c] /\ at[root[c]] <= at[c]
           /\ c = root[c] \/ \E e \in Clusters : table[e] = c
    /\ \A c \in Clusters : table[c] \in Clusters =>
           /\ table[table[c]] # None /\ root[table[c]] = root[c]
           /\ root[c] # None => at[table[c]] = at[c] + 1
    /\ \A c, e \in Clusters : table[c] = table[e] /\ table[c] \in Clusters => c = e
    /\ \A c, e \in Clusters : root[c] = root[e] /\ root[c] # None /\ at[c] = at[e] => c = e
\* A sound volume: each file has a chain of its own, from its first cluster on.
ASSUME VolumesAssumption ==
    \A image \in Images :
        \E root \in [Clusters -> {None} \cup Clusters], at \in [Clusters -> 0..NumClusters] :
            /\ Chained(image.table, root, at)
            /\ \A s, t \in Slots :
                   LET f == image.slots[s].first
                   IN image.slots[s].name # NoName /\ f # None =>
                          /\ root[f] = f /\ at[f] = 1
                          /\ s = t \/ image.slots[t].name = NoName \/ image.slots[t].first # f

(***************************************************************************)
(* The table.                                                              *)
(***************************************************************************)
SectorOf(c) == IF c < 0 THEN Far ELSE 2 + (c \div PerSector)

NextIn(p, c) ==
    IF p.e = NoEntry THEN Failed
    ELSE LET v == p.d.buffer[p.e][c % PerSector] IN IF v = EndMark THEN None ELSE v
GetNextIn(p, c) == [d |-> p.d, r |-> NextIn(p, c)]
GetNext(d, c) == GetNextIn(CacheSector(d, SectorOf(c)), c)

\* The free clusters of sector nr from offset on, and then from its start.
FreeFrom(data, nr, offset) ==
    LET at(j) == (j + offset) % PerSector
        free == {j \in 0..(PerSector - 1) :
                    data[at(j)] = None /\ (nr * PerSector) + at(j) \in Clusters}
    IN IF free = {} THEN None ELSE (nr * PerSector) + at(Lowest(free))
SearchIn(p, nr, offset) ==
    LET c == IF p.e = NoEntry THEN None ELSE FreeFrom(p.d.buffer[p.e], nr, offset)
    IN [d |-> IF c = None THEN p.d ELSE [p.d EXCEPT !.next = c], r |-> c,
        over |-> p.e = NoEntry \/ c # None]
Look(acc, i, start) ==
    LET nr == (i + (start \div PerSector)) % FatSize
    IN IF acc.over THEN acc
       ELSE SearchIn(CacheSector(acc.d, 2 + nr), nr, IF i = 0 THEN start % PerSector ELSE 0)
FindFree(d, start) ==
    LET look[i \in 0..FatSize] ==
            IF i = 0 THEN [d |-> d, r |-> None, over |-> FALSE] ELSE Look(look[i - 1], i - 1, start)
    IN look[FatSize]

UpdateIn(p, c, v) ==
    LET old == p.d.buffer[p.e][c % PerSector]
        count == CASE v # None /\ old = None /\ p.d.free > 0 -> p.d.free - 1
                   [] v = None /\ old # None -> p.d.free + 1
                   [] OTHER -> p.d.free
    IN IF p.e = NoEntry THEN [d |-> p.d, ok |-> FALSE]
       ELSE [d |-> DirtyBuf([p.d EXCEPT !.free = count], p.e,
                            [p.d.buffer[p.e] EXCEPT ![c % PerSector] = v]),
             ok |-> TRUE]
UpdateFat(d, c, v) ==
    IF c = v \/ c \in {0, 1} THEN [d |-> [d EXCEPT !.panic = TRUE], ok |-> FALSE]
    ELSE UpdateIn(CacheSector(d, SectorOf(c)), c, v)

Linked(f, old) ==
    IF f.r = None THEN f
    ELSE [f EXCEPT !.d = UpdateFat(IF old # None THEN UpdateFat(@, old, f.r).d ELSE @, f.r, EndMark).d]
\* next_write_cluster, once the chain has been found to end at old
NextWriteCluster(d, old) ==
    Linked(FindFree(d, IF old # None THEN old + 1 ELSE d.next), old)

(***************************************************************************)
(* The directory, and what a commit writes.                                *)
(***************************************************************************)
SlotNamed(n) == {s \in Slots : vol.disk[Dir][s].name = n}
FreeSlots(data) == {s \in Slots : data[s].name = NoName}
PutIn(p, s, entry) ==
    IF p.e = NoEntry THEN [d |-> p.d, ok |-> FALSE]
    ELSE [d |-> DirtyBuf(p.d, p.e, [p.d.buffer[p.e] EXCEPT ![s] = entry]), ok |-> TRUE]
PutSlot(d, s, entry) == PutIn(CacheSector(d, Dir), s, entry)
UpdateFsinfoIn(p) ==
    IF p.e = NoEntry THEN p.d ELSE DirtyBuf(p.d, p.e, [free |-> p.d.free, next |-> p.d.next])
UpdateFsinfo(d) == UpdateFsinfoIn(CacheSector(d, Info))
MutCommitNothing(d) == UpdateFsinfo(d)
Commit(d) == CommitAll(UpdateFsinfo(d))

(***************************************************************************)
(* Open files.                                                             *)
(***************************************************************************)
Users(b) == {p \in Procs : str[p].of = b}
Unbound == {b \in Bindings : Users(b) = {} /\ \A p \in Procs : b \notin {op[p].of, op[p].victim}}
BoundTo(s) == {b \in Bindings \ Unbound : ~file[b].removed /\ file[b].slot = s}
\* binding_assign: the object of a file that is open, or else an unused one
Binding(s, taken) == IF BoundTo(s) # {} THEN Lowest(BoundTo(s)) ELSE Lowest(Unbound \ taken)
Bound(fs, b, s) ==
    IF BoundTo(s) # {} THEN fs
    ELSE [fs EXCEPT ![b] = [NoFile EXCEPT !.slot = s, !.first = vol.disk[Dir][s].first,
                                          !.size = vol.disk[Dir][s].size]]

\* handle_truncate: streams beyond the new end take the place of stream p's
MutRewoundNone(st, p, len) == st
Rewound(st, p, len) ==
    [q \in Procs |-> IF st[q].of = st[p].of /\ st[q].pos > len
                     THEN [st[q] EXCEPT !.pos = st[p].pos, !.last = st[p].last] ELSE st[q]]

AtRest(p) == op[p].pc = "idle" /\ ~vol.panic
Spend(what) == left[what] > 0 /\ left' = [left EXCEPT ![what] = @ - 1]
Calls == Spend("calls")
Shared(p) ==
    /\ AtRest(p) /\ Calls
    /\ writer = None
    /\ str[p].of # None
    /\ \A q \in Procs : op[q].pc # "idle" => op[q].of # str[p].of
NoCall(p) == AtRest(p) /\ \A q \in Procs : op[q].pc = "idle"
Alone(p) == NoCall(p) /\ Calls
At(p, pc) == op[p].pc = pc /\ ~vol.panic /\ UNCHANGED <<left, broken>>
Goto(p, pc) == op' = [op EXCEPT ![p].pc = pc]

(***************************************************************************)
(* read and write: the next sector from where the stream is, or after a    *)
(* seek.  A failed read leaves the stream at the driver's sector 0, which  *)
(* it takes for the first of the file.                                     *)
(***************************************************************************)
Moved(p, c) == str' = [str EXCEPT ![p].pos = @ + 1, ![p].last = c]
File(p) == file[str[p].of]
NextOf(p) ==
    IF str[p].pos = 0 THEN [d |-> vol, r |-> File(p).first]
    ELSE GetNext(vol, IF str[p].last = Failed THEN File(p).first ELSE str[p].last)

Hop(acc) == IF acc.r = None THEN acc ELSE GetNext(acc.d, acc.r)
SeekTo(p, len) ==
    LET at == IF str[p].pos = 0 THEN 0 ELSE str[p].pos - 1
        near == at # 0 /\ len - 1 >= at
        hops == IF len = 0 THEN 0 ELSE IF near THEN len - 1 - at ELSE len - 1
        sought[i \in 0..hops] ==
            IF i = 0 THEN [d |-> vol, r |-> IF near THEN str[p].last ELSE File(p).first]
            ELSE Hop(sought[i - 1])
    IN sought[hops]
Eof(p, len) == len > 0 /\ SeekTo(p, len).r = None
\* A stream whose cluster could not be read has lost its place.
Noted(r) == broken' = IF r = Failed THEN broken \cup {Far} ELSE broken
SoughtTo(p, len) ==
    /\ vol' = SeekTo(p, len).d
    /\ Noted(SeekTo(p, len).r)
    /\ str' = IF Eof(p, len) THEN str ELSE [str EXCEPT ![p].pos = len, ![p].last = SeekTo(p, len).r]

Seek(p) ==
    /\ Shared(p)
    /\ \E len \in 0..File(p).size : len # str[p].pos /\ SoughtTo(p, len)
    /\ UNCHANGED <<file, op, writer>>

Read(p) ==
    /\ Shared(p)
    /\ str[p].pos < File(p).size
    /\ vol' = NextOf(p).d
    /\ Noted(NextOf(p).r)
    /\ IF NextOf(p).r = None THEN str' = str ELSE Moved(p, NextOf(p).r)
    /\ UNCHANGED <<file, op, writer>>

\* On an error the sector before the data would be written: transfer() panics.
Longer(p) == file' = [file EXCEPT ![str[p].of].size = IF str[p].pos + 1 > @ THEN str[p].pos + 1 ELSE @]
Write(p) ==
    LET g == NextOf(p)
    IN /\ Shared(p)
       /\ vol' = IF g.r = Failed THEN [g.d EXCEPT !.panic = TRUE] ELSE g.d
       /\ IF g.r = None
          THEN /\ op' = [op EXCEPT ![p] = [Idle EXCEPT !.pc = "alloc", !.of = str[p].of]]
               /\ UNCHANGED <<file, str>>
          ELSE op' = op /\ Moved(p, g.r) /\ Longer(p)
       /\ UNCHANGED <<broken, writer>>

Alloc(p) ==
    LET b == str[p].of
        last == IF str[p].last = Failed THEN File(p).first ELSE str[p].last
        a == NextWriteCluster(vol, IF str[p].pos = 0 THEN None ELSE last)
    IN /\ At(p, "alloc")
       /\ vol' = a.d
       /\ op' = [op EXCEPT ![p] = Idle]
       /\ IF a.r = None THEN UNCHANGED <<file, str>>
          ELSE /\ Moved(p, a.r)
               /\ file' = [file EXCEPT ![b].first = IF str[p].pos = 0 THEN a.r ELSE @,
                                       ![b].size = IF str[p].pos + 1 > @ THEN str[p].pos + 1 ELSE @]
       /\ UNCHANGED writer

(***************************************************************************)
(* ftruncate_internal with write_now: go to the new end, cut the chain     *)
(* there and free what follows, head first.                                *)
(***************************************************************************)
\* On to the next step of the call when nothing can be truncated.
GiveUp(p, job) ==
    IF job = "trunc" THEN op' = [op EXCEPT ![p] = Idle]
    ELSE op' = [op EXCEPT ![p] = [Idle EXCEPT !.pc = "closewrite", !.job = job, !.of = str[p].of]]
StartTruncate(p, job, len) ==
    /\ SoughtTo(p, len)
    /\ IF Eof(p, len) THEN GiveUp(p, job)
       ELSE op' = [op EXCEPT ![p] = [Idle EXCEPT !.pc = "cut", !.job = job, !.of = str[p].of, !.len = len]]

Truncate(p) ==
    /\ Shared(p)
    /\ \E len \in 0..File(p).size : StartTruncate(p, "trunc", len)
    /\ UNCHANGED <<file, writer>>

MutCutUnmarked(p) ==        \* what follows is freed, the link to it stays
    LET g == GetNext(vol, str[p].last)
    IN /\ At(p, "cut")
       /\ IF str[p].last = None THEN Goto(p, "free") /\ vol' = vol
          ELSE vol' = g.d /\ op' = [op EXCEPT ![p].pc = "free", ![p].cur = g.r]
       /\ UNCHANGED <<file, str, writer>>
Cut(p) ==
    LET g == GetNext(vol, str[p].last)
    IN /\ At(p, "cut")
       /\ IF str[p].last = None THEN Goto(p, "free") /\ vol' = vol
          ELSE vol' = g.d /\ op' = [op EXCEPT ![p].pc = "mark", ![p].cur = g.r]
       /\ UNCHANGED <<file, str, writer>>
Mark(p) ==
    LET u == UpdateFat(vol, str[p].last, EndMark)
    IN /\ At(p, "mark")
       /\ vol' = u.d
       /\ IF u.ok THEN Goto(p, "free") ELSE GiveUp(p, op[p].job)
       /\ UNCHANGED <<file, str, writer>>

\* free_cluster_chain: a chain that can't be followed is left as it is.
FreeNext(p) ==
    LET g == GetNext(vol, op[p].cur)
    IN /\ At(p, "free") /\ op[p].cur # None
       /\ vol' = g.d
       /\ op' = [op EXCEPT ![p].pc = "unlink", ![p].next = g.r]
       /\ UNCHANGED <<file, str, writer>>
Unlink(p) ==
    LET u == UpdateFat(vol, op[p].cur, None)
    IN /\ At(p, "unlink")
       /\ vol' = u.d
       /\ op' = [op EXCEPT ![p].pc = "free", ![p].next = None,
                           ![p].cur = IF u.ok THEN op[p].next ELSE None]
       /\ UNCHANGED <<file, str, writer>>

Freed(p) ==
    LET b == op[p].of
        len == op[p].len
    IN /\ At(p, "free") /\ op[p].cur = None
       /\ CASE op[p].job = "discard" -> Goto(p, "commit") /\ UNCHANGED <<file, str>>
            [] op[p].job \in {"close", "sync"} ->
                   /\ file' = [file EXCEPT ![b].trunc = FALSE]
                   /\ Goto(p, "closewrite") /\ UNCHANGED str
            [] OTHER ->
                   /\ file' = [file EXCEPT ![b].trunc = FALSE, ![b].size = len]
                   /\ str' = IF len < file[b].size THEN Rewound(str, p, len) ELSE str
                   /\ op' = [op EXCEPT ![p] = Idle]
       /\ UNCHANGED <<vol, writer>>

(***************************************************************************)
(* fsync and close: the pending truncation, the cluster of an empty file,  *)
(* the file's entry, a commit; and the data once nobody can reach it.      *)
(***************************************************************************)
Sync(p, job) ==
    /\ Alone(p) /\ str[p].of # None
    /\ writer' = p
    /\ IF File(p).trunc THEN StartTruncate(p, job, File(p).size)
       ELSE GiveUp(p, job) /\ UNCHANGED <<vol, str, broken>>
    /\ file' = file
Fsync(p) == Sync(p, "sync")
Close(p) == Sync(p, "close")

CloseWrite(p) ==
    LET b == op[p].of
        u == UpdateFat(vol, file[b].first, None)
    IN /\ At(p, "closewrite")
       /\ IF file[b].size = 0 /\ file[b].first # None
          THEN /\ vol' = u.d
               /\ Goto(p, IF u.ok THEN "entry" ELSE "commit")
               /\ file' = IF u.ok THEN [file EXCEPT ![b].first = None] ELSE file
               /\ str' = IF u.ok THEN [str EXCEPT ![p].pos = 0, ![p].last = None] ELSE str
          ELSE Goto(p, "entry") /\ UNCHANGED <<vol, file, str>>
       /\ UNCHANGED writer
WriteEntry(p) ==
    LET f == file[op[p].of]
        c == CacheSector(vol, Dir)
        old == c.d.buffer[c.e][f.slot]
    IN /\ At(p, "entry")
       /\ vol' = CASE f.slot = NoSlot -> vol
                   [] f.slot # NoSlot /\ c.e = NoEntry -> c.d
                   [] f.slot # NoSlot /\ c.e # NoEntry /\ old.name = NoName -> [c.d EXCEPT !.panic = TRUE]
                   [] OTHER -> PutSlot(vol, f.slot, [old EXCEPT !.first = f.first, !.size = f.size]).d
       /\ Goto(p, "commit")
       /\ UNCHANGED <<file, str, writer>>

Done(p) == op' = [op EXCEPT ![p] = Idle] /\ writer' = None
\* close_stream_internal on object b, which users still have open
Released(p, b, users) ==
    IF users = {} /\ file[b].removed /\ file[b].first # None
    THEN /\ op' = [op EXCEPT ![p] = [Idle EXCEPT !.pc = "free", !.job = "discard", !.of = b,
                                                 !.cur = file[b].first]]
         /\ UNCHANGED <<file, writer>>
    ELSE /\ Done(p)
         /\ file' = IF users = {} THEN [file EXCEPT ![b] = NoFile] ELSE file
MutCommitStepKeepsData(p) ==     \* only remove itself frees what it removed
    LET b == op[p].of
    IN /\ At(p, "commit")
       /\ vol' = Commit(vol)
       /\ Done(p)
       /\ file' = IF op[p].job # "sync" /\ Users(b) \subseteq {p} THEN [file EXCEPT ![b] = NoFile] ELSE file
       /\ str' = IF op[p].job = "close" THEN [str EXCEPT ![p] = NoStream] ELSE str
CommitStep(p) ==
    LET b == op[p].of
    IN /\ At(p, "commit")
       /\ vol' = Commit(vol)
       /\ CASE op[p].job = "sync" -> Done(p) /\ UNCHANGED <<file, str>>
            [] op[p].job = "close" -> /\ Released(p, b, Users(b) \ {p})
                                      /\ str' = [str EXCEPT ![p] = NoStream]
            [] OTHER -> Done(p) /\ file' = [file EXCEPT ![b] = NoFile] /\ str' = str

(***************************************************************************)
(* open and creat.  The entry is read from the disk, around the cache.     *)
(* O_TRUNC on a small file only takes its size away; the clusters go when  *)
(* it is synced or closed.                                                 *)
(***************************************************************************)
Open(p) ==
    /\ NoCall(p) /\ left.calls > 0 /\ str[p].of = None
    /\ \E n \in Names, trunc \in BOOLEAN : \E s \in SlotNamed(n) :
           /\ IF trunc THEN Calls ELSE left' = left
           /\ BoundTo(s) \cup Unbound # {}
           /\ LET b == Binding(s, {})
                  fs == Bound(file, b, s)
                  st == [str EXCEPT ![p] = [of |-> b, pos |-> 0, last |-> fs[b].first]]
              IN /\ file' = IF trunc THEN [fs EXCEPT ![b].trunc = TRUE, ![b].size = 0] ELSE fs
                 /\ str' = IF trunc THEN Rewound(st, p, 0) ELSE st
    /\ UNCHANGED <<vol, broken, op, writer>>

Create(p) ==
    /\ Alone(p) /\ str[p].of = None /\ Unbound # {}
    /\ FreeSlots(vol.disk[Dir]) # {}
    /\ \E n \in Names :
           /\ SlotNamed(n) = {}
           /\ LET s == Lowest(FreeSlots(Contents(vol, Dir)))
                  u == PutSlot(vol, s, [FreeSlot EXCEPT !.name = n])
                  b == Lowest(Unbound)
              IN /\ vol' = Commit(u.d)
                 /\ IF u.ok THEN /\ file' = [file EXCEPT ![b] = [NoFile EXCEPT !.slot = s]]
                                 /\ str' = [str EXCEPT ![p] = [NoStream EXCEPT !.of = b]]
                    ELSE UNCHANGED <<file, str>>
    /\ UNCHANGED <<broken, op, writer>>

(***************************************************************************)
(* remove and rename.  A name that is taken is given up only after the new *)
(* entry is in place.                                                      *)
(***************************************************************************)
RemoveFile(p) ==
    /\ Alone(p)
    /\ \E n \in Names : \E s \in SlotNamed(n) :
           /\ BoundTo(s) \cup Unbound # {}
           /\ op' = [op EXCEPT ![p] = [Idle EXCEPT !.pc = "remove", !.of = Binding(s, {})]]
           /\ file' = Bound(file, Binding(s, {}), s)
    /\ writer' = p
    /\ UNCHANGED <<vol, broken, str>>

Rename(p) ==
    /\ Alone(p)
    /\ FreeSlots(vol.disk[Dir]) # {}
    /\ \E old \in Names : \E new \in Names \ {old} : \E s \in SlotNamed(old) :
           LET b == Binding(s, {})
               t == SlotNamed(new)
               v == IF t = {} THEN None ELSE Binding(Lowest(t), {b})
               fs == Bound(file, b, s)
           IN /\ BoundTo(s) \cup Unbound # {}
              /\ t # {} => BoundTo(Lowest(t)) \cup (Unbound \ {b}) # {}
              /\ file' = IF t = {} THEN fs ELSE Bound(fs, v, Lowest(t))
              /\ op' = [op EXCEPT ![p] = [Idle EXCEPT !.pc = "newentry", !.of = b, !.victim = v,
                                                      !.name = new]]
    /\ writer' = p
    /\ UNCHANGED <<vol, broken, str>>

NewEntry(p) ==
    LET f == file[op[p].of]
        s == Lowest(FreeSlots(Contents(vol, Dir)))
        old == Contents(vol, Dir)[f.slot]
        u == PutSlot(vol, s, [old EXCEPT !.name = op[p].name, !.first = f.first])
    IN /\ At(p, "newentry")
       /\ vol' = IF u.ok THEN u.d ELSE Commit(u.d)
       /\ op' = IF u.ok THEN [op EXCEPT ![p].pc = "oldentry", ![p].cur = s]
                ELSE [op EXCEPT ![p].pc = "release"]
       /\ UNCHANGED <<file, str, writer>>
\* The new entry is undone when the old one can't be freed (in a directory of
\* one sector, in the cache since NewEntry, the old one always can).
OldFreed(p) ==
    LET u == PutSlot(vol, file[op[p].of].slot, FreeSlot)
    IN [u EXCEPT !.d = Commit(IF u.ok THEN @ ELSE PutSlot(@, op[p].cur, FreeSlot).d)]
MutOldEntryStale(p) ==     \* the file's object keeps the place of its old entry
    LET u == OldFreed(p)
    IN /\ At(p, "oldentry")
       /\ vol' = u.d
       /\ Goto(p, IF u.ok /\ op[p].victim # None THEN "remove" ELSE "release")
       /\ UNCHANGED <<file, str, writer>>
OldEntry(p) ==
    LET u == OldFreed(p)
    IN /\ At(p, "oldentry")
       /\ vol' = u.d
       /\ file' = IF u.ok THEN [file EXCEPT ![op[p].of].slot = op[p].cur] ELSE file
       /\ Goto(p, IF u.ok /\ op[p].victim # None THEN "remove" ELSE "release")
       /\ UNCHANGED <<str, writer>>

\* fat_remove with FAT_RM_DIRENTRIES, of what is removed or written over
Gone(p) == IF op[p].victim = None THEN op[p].of ELSE op[p].victim
RemoveEntry(p) ==
    LET u == PutSlot(vol, file[Gone(p)].slot, FreeSlot)
    IN /\ At(p, "remove")
       /\ vol' = Commit(u.d)
       /\ file' = IF u.ok THEN [file EXCEPT ![Gone(p)].slot = NoSlot, ![Gone(p)].removed = TRUE]
                  ELSE file
       /\ Goto(p, "release")
       /\ UNCHANGED <<str, writer>>
\* The streams of the call itself: that on the file renamed closes first.
Release(p) ==
    /\ At(p, "release")
    /\ IF op[p].victim = None THEN Released(p, op[p].of, Users(op[p].of))
       ELSE /\ op' = [op EXCEPT ![p] = [Idle EXCEPT !.pc = "release", !.of = op[p].victim]]
            /\ file' = IF Users(op[p].of) = {} THEN [file EXCEPT ![op[p].of] = NoFile] ELSE file
            /\ UNCHANGED writer
    /\ UNCHANGED <<vol, str>>

(***************************************************************************)
(* The volume unmounted, with no file open, and mounted again; entries of  *)
(* the cache lent to others; sectors that can't be read.                   *)
(***************************************************************************)
Remount ==
    /\ \A p \in Procs : AtRest(p) /\ str[p].of = None
    /\ Calls
    /\ Info \notin vol.bad
    /\ vol' = [DiscardAll(vol) EXCEPT !.free = vol.disk[Info].free, !.next = vol.disk[Info].next]
    /\ UNCHANGED <<broken, file, str, op, writer>>
Lent == {e \in Entries : "buf" \in vol.flags[e]}
Lend ==
    /\ CanLend(vol) /\ ~vol.panic
    /\ Spend("loans")
    /\ vol' = GetBuffer(vol)
    /\ UNCHANGED <<broken, file, str, op, writer>>
Return ==
    /\ ~vol.panic
    /\ \E e \in Lent : vol' = ReleaseBuffer(vol, e)
    /\ UNCHANGED <<broken, file, str, op, writer, left>>
Break ==
    /\ ~vol.panic
    /\ Spend("faults")
    /\ \E s \in Breakable \ broken :
           broken' = broken \cup {s} /\ vol' = [vol EXCEPT !.bad = @ \cup {s}]
    /\ UNCHANGED <<file, str, op, writer>>
Heal ==
    /\ ~vol.panic
    /\ Spend("faults")
    /\ \E s \in (vol.bad \cap broken) \ {Far} : vol' = [vol EXCEPT !.bad = @ \ {s}]
    /\ UNCHANGED <<broken, file, str, op, writer>>

Stopped ==
    /\ vol.panic \/ (left.calls = 0 /\ \A p \in Procs : op[p].pc = "idle")
    /\ UNCHANGED vars

Table == [c \in Clusters |-> Contents(vol, SectorOf(c))[c % PerSector]]
FreeClusters == LET table == Table IN {c \in Clusters : table[c] = None}

DiskOf(image) ==
    [s \in Sectors |->
        CASE s = Dir -> image.slots
          [] s = Info -> [free |-> Cardinality({c \in Clusters : image.table[c] = None}), next |-> 2]
          [] OTHER -> [k \in Slots |-> LET c == (s - 2) * PerSector + k
                                       IN IF c \in Clusters THEN image.table[c]
                                          ELSE IF c < 2 THEN EndMark ELSE None]]
Mounted(c, info) ==
    [flags |-> c.flags, sector |-> c.sector, buffer |-> c.buffer, lru |-> c.lru, map |-> c.map,
     used |-> c.used, disk |-> c.disk, bad |-> {Far},
     free |-> info.free, next |-> info.next, panic |-> FALSE]
Init ==
    /\ \E image \in Images :
           LET d == DiskOf(image)
           IN vol = Mounted(CacheInit(d), d[Info])
    /\ broken = {}
    /\ file = [b \in Bindings |-> NoFile]
    /\ str = [p \in Procs |-> NoStream]
    /\ op = [p \in Procs |-> Idle]
    /\ writer = None /\ left \in Budgets

Call(p) ==
    \/ Seek(p) \/ Read(p) \/ Write(p) \/ Truncate(p) \/ Fsync(p) \/ Close(p)
    \/ Open(p) \/ Create(p) \/ RemoveFile(p) \/ Rename(p)
Continue(p) ==
    \/ Alloc(p) \/ Cut(p) \/ Mark(p) \/ FreeNext(p) \/ Unlink(p) \/ Freed(p)
    \/ CloseWrite(p) \/ WriteEntry(p) \/ CommitStep(p)
    \/ NewEntry(p) \/ OldEntry(p) \/ RemoveEntry(p) \/ Release(p)
Next ==
    \/ \E p \in Procs : Call(p) \/ Continue(p)
    \/ Remount \/ Lend \/ Return \/ Break \/ Heal \/ Stopped
Spec == Init /\ [][Next]_vars

TypeOK ==
    /\ vol.flags \in [Entries -> SUBSET Flags] /\ vol.used \subseteq Entries
    /\ vol.lru \in Seq(Entries) /\ vol.map \in [0..(MapSize - 1) -> SUBSET Entries]
    /\ \A s \in Sectors : vol.disk[s] \in Data(s)
    /\ \A e \in vol.used : vol.sector[e] \in Sectors /\ vol.buffer[e] \in Data(vol.sector[e])
    /\ vol.bad \subseteq broken \cup {Far}
    /\ vol.free \in Nat /\ vol.next \in Nat /\ vol.panic \in BOOLEAN
    /\ broken \subseteq Breakable \cup {Far}
    /\ file \in [Bindings -> Object]
    /\ str \in [Procs -> Stream]
    /\ op \in [Procs -> Op]
    /\ writer \in {None} \cup Procs
    /\ left \in [calls : Nat, loans : Nat, faults : Nat]

(***************************************************************************)
(* Chains, and who points at them: files that are open or being worked on, *)
(* the entries of the others, and a call that is freeing what it cut off.  *)
(***************************************************************************)
ChainFrom(c) ==
    LET table == Table
        grown(q) == IF table[Last(q)] \in Clusters THEN Append(q, table[Last(q)]) ELSE q
        from[i \in 0..NumClusters] == IF i = 0 THEN <<c>> ELSE grown(from[i - 1])
    IN IF c \in Clusters THEN from[NumClusters] ELSE <<>>
Entry(s) == Contents(vol, Dir)[s]
Named == {s \in Slots : Entry(s).name # NoName}
Busy(b) == \E p \in Procs : op[p].pc # "idle" /\ b \in {op[p].of, op[p].victim}
Discarding(b) == \E p \in Procs : op[p].job = "discard" /\ op[p].of = b
Renaming(s) == \E p \in Procs : op[p].pc = "oldentry" /\ op[p].cur = s
Closed == {s \in Named : BoundTo(s) = {} /\ ~Renaming(s)}
Owners == {[kind |-> "file", nr |-> b, first |-> file[b].first] :
               b \in {a \in Bindings \ Unbound : ~Discarding(a)}}
          \cup {[kind |-> "entry", nr |-> s, first |-> Entry(s).first] : s \in Closed}

(***************************************************************************)
(* While the directory is legible and no stream has lost its place.  (An   *)
(* entry that could not be written when its file was emptied points at a   *)
(* free cluster; a truncation by a stream that is nearer the start than it *)
(* believes frees what another stream stands on.)                          *)
(***************************************************************************)
Intact == broken \cap {Dir, Far} = {}

(***************************************************************************)
(* No cluster belongs to two files, whatever was removed, truncated or     *)
(* renamed while it was open elsewhere, and whichever sector of the table  *)
(* could not be read: the second entry next_write_cluster updates is still *)
(* in the cache.                                                           *)
(***************************************************************************)
NoCrossLinks ==
    Intact =>
        LET claims == UNION {{o} \X ToSet(ChainFrom(o.first)) : o \in Owners}
        IN Cardinality(claims) = Cardinality({a[2] : a \in claims})

(***************************************************************************)
(* With nothing unreadable, a file's chain is just as long as its size     *)
(* says: the assertions "Cluster chain is too long" and "too short" that   *)
(* fat.c makes of every file in the driver's test build (TEST_FAT).        *)
(***************************************************************************)
Whole(first, size) ==
    LET chain == ChainFrom(first)
    IN Len(chain) = size /\ (size > 0 => Table[Last(chain)] = EndMark)
ChainsWhole ==
    broken = {} =>
        /\ \A s \in Closed : Whole(Entry(s).first, Entry(s).size)
        /\ \A b \in Bindings \ Unbound :
               ~Busy(b) /\ ~file[b].trunc /\ file[b].size > 0 => Whole(file[b].first, file[b].size)

(***************************************************************************)
(* With nothing unreadable, a cluster that is not free is a file's, or is  *)
(* about to be freed by the call that cut it off: the clusters of a file   *)
(* removed while it is open are freed when its last stream closes.         *)
(***************************************************************************)
NothingLost ==
    broken = {} =>
        Clusters \ FreeClusters =
            UNION ({ToSet(ChainFrom(o.first)) : o \in Owners}
                   \cup {ToSet(ChainFrom(op[p].cur)) :
                            p \in {a \in Procs : op[a].pc \in {"mark", "free", "unlink"}}})

(***************************************************************************)
(* The count of free clusters that the player shows is exact, over         *)
(* remounts too, while the sector it is kept in can be read.               *)
(***************************************************************************)
FreeCountRight == Info \notin broken => vol.free = Cardinality(FreeClusters)

(***************************************************************************)
(* A stream that has read or written n sectors stands on the n-th cluster  *)
(* of its file's chain, though another stream may have cut it short since  *)
(* (handle_truncate).                                                      *)
(***************************************************************************)
StreamsInChain ==
    broken \subseteq {Info} =>
        \A p \in Procs : str[p].pos > 0 /\ ~Busy(str[p].of) =>
            LET chain == ChainFrom(File(p).first)
            IN str[p].pos <= Len(chain) /\ chain[str[p].pos] = str[p].last

(***************************************************************************)
(* With nothing unreadable, none of the driver's panics is reached:        *)
(* "Creating FAT32 loop", "Updating reserved FAT32 entry", "Updating size  *)
(* on empty dir entry", "Write before data".                               *)
(***************************************************************************)
NoPanic == broken = {} => ~vol.panic

(***************************************************************************)
(* Between calls the directory is on the disk, where fat_readdir reads it  *)
(* around the cache; with no file open everything is, and the power may go.*)
(***************************************************************************)
Stored ==
    /\ writer = None => Settled(vol, Dir)
    /\ (\A p \in Procs : str[p].of = None /\ op[p].pc = "idle") => \A s \in Sectors : Settled(vol, s)

(***************************************************************************)
(* While the directory is legible, a file that was not removed has the     *)
(* entry its object points at, and so has one being renamed over: "there's *)
(* never a time that the victim's data has no reference in the directory   *)
(* tree, that is, until everything else first succeeds" (rename, file.c).  *)
(***************************************************************************)
NeverNameless ==
    Dir \notin broken => \A b \in Bindings \ Unbound : ~file[b].removed => file[b].slot \in Named

\* Between calls no two entries have one name, so that an open finds the file.
UniqueNames ==
    Dir \notin broken /\ writer = None => \A s, t \in Named : Entry(s).name = Entry(t).name => s = t

(***************************************************************************)
(* As seen through the cache, the table changes only as FatTable allows:   *)
(* no eviction, loan, commit, remount or failed read shows in it, a linked *)
(* cluster was free and hangs behind the end of a chain, and one is freed  *)
(* when nothing points at it.                                              *)
(***************************************************************************)
Chains == INSTANCE FatTable WITH
    Free <- None, EndOfChain <- EndMark, table <- Table, intact <- Intact
KeepsTable == Chains!Spec

(***************************************************************************)
(* With nothing unreadable, chains are as long as their files say and each *)
(* stream stands where it believes to be, whoever truncates what; and none *)
(* of the driver's panics is reached.                                      *)
(***************************************************************************)
ChainsKept == ChainsWhole /\ StreamsInChain /\ NoPanic

(***************************************************************************)
(* The space of a file comes back, and is counted, once it is not used.    *)
(***************************************************************************)
SpaceKept == NothingLost /\ FreeCountRight

(***************************************************************************)
(* Every file that was not removed has an entry, and each name one file,   *)
(* at whichever step a rename is or fails (fat_rename).  The directory is  *)
(* one sector: that the old entry can't be freed is not among the failures.*)
(***************************************************************************)
DirectoryKept == NeverNameless /\ UniqueNames

(***************************************************************************)
(* The cache's own bookkeeping holds at every point a caller can see, also *)
(* after a sector could not be read and with entries lent; and what the    *)
(* driver keeps of files, streams and calls under way is of their types.   *)
(***************************************************************************)
CacheKept == TypeOK /\ CacheSound(vol)
=============================================================================
