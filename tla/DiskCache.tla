------------------------------ MODULE DiskCache ------------------------------
(***************************************************************************)
(* The sector cache under the FAT driver (common/disk_cache.c and the code *)
(* of fat.c that fills and writes it): entries in order of use, bit maps   *)
(* that find a sector, dirty sectors that are written when their entry is  *)
(* wanted or at a commit, and entries lent out as buffers.  Every call is  *)
(* made with disk_cache_mutex held, so each is a function of the cache and *)
(* its disk, the record d:                                                 *)
(*   flags, sector, buffer   one of each per entry                         *)
(*   lru                     the entries not lent, least recently used first*)
(*   map, used               cache_map_entry and cache_vol_map              *)
(*   disk, bad               what is stored, and what can't be read now    *)
(***************************************************************************)
EXTENDS Integers, FiniteSets, Sequences, SequencesExt

CONSTANTS
    NumEntries,     \* DC_NUM_ENTRIES
    MapSize,        \* DC_MAP_NUM_ENTRIES
    NoSector,       \* an entry that holds none
    NoData          \* the contents of a buffer nothing reads

ASSUME EntriesAssumption == NumEntries \in Nat \ {0}
ASSUME MapSizeAssumption == MapSize \in Nat \ {0}

Entries == 1..NumEntries
NoEntry == 0
Flags == {"inuse", "dirty", "buf"}
MapSector(s) == s % MapSize
Lowest(S) == CHOOSE e \in S : \A f \in S : e <= f

CacheInit(disk) ==
    [flags |-> [e \in Entries |-> {}], sector |-> [e \in Entries |-> NoSector],
     buffer |-> [e \in Entries |-> NoData],
     lru |-> [e \in Entries |-> e],
     map |-> [n \in 0..(MapSize - 1) |-> {}], used |-> {}, disk |-> disk, bad |-> {}]

(***************************************************************************)
(* The maps.  An entry whose flags are clear keeps its old sector number   *)
(* and bytes in the code, where nothing reads them; here they are erased.  *)
(***************************************************************************)
SetBit(d, s, e) == [d EXCEPT !.map[MapSector(s)] = @ \cup {e}, !.used = @ \cup {e}]
ClearBit(d, s, e) == [d EXCEPT !.map[MapSector(s)] = @ \ {e}, !.used = @ \ {e}]

DiscardEntry(d, e) ==
    [ClearBit(d, d.sector[e], e) EXCEPT !.flags[e] = {}, !.sector[e] = NoSector,
                                        !.buffer[e] = NoData]
WriteBack(d, e) ==
    IF "dirty" \in d.flags[e] THEN [d EXCEPT !.disk[d.sector[e]] = d.buffer[e]] ELSE d
Place(d, e) == CHOOSE i \in DOMAIN d.lru : d.lru[i] = e
Touch(d, e) == [d EXCEPT !.lru = Append(RemoveAt(@, Place(d, e)), e)]

Found(d, s) == {e \in d.map[MapSector(s)] : d.sector[e] = s}

(***************************************************************************)
(* dc_cache_probe: the entry of the sector, or else that of the least      *)
(* recently used one, which is written if dirty and now has to be filled.  *)
(***************************************************************************)
Evicted(d, e) ==
    IF d.flags[e] = {} THEN d ELSE LET w == WriteBack(d, e) IN ClearBit(w, w.sector[e], e)
Victim(d, s, e) ==
    [d |-> [SetBit(Evicted(Touch(d, e), e), s, e) EXCEPT
                !.flags[e] = {"inuse"}, !.sector[e] = s, !.buffer[e] = NoData],
     e |-> e, hit |-> FALSE]
Hit(d, e) == [d |-> Touch(d, e), e |-> e, hit |-> TRUE]
Probe(d, s) ==
    IF Found(d, s) # {} THEN Hit(d, Lowest(Found(d, s))) ELSE Victim(d, s, Head(d.lru))

\* A sector that can't be read is not left in the cache; its entry is free.
DiscardBuf(d, e) == IF "inuse" \in d.flags[e] THEN DiscardEntry(d, e) ELSE d
MutFilledLeft(s, p) ==      \* a sector that can't be read stays in the cache
    CASE p.hit -> p
      [] ~p.hit /\ s \in p.d.bad -> [p EXCEPT !.e = NoEntry]
      [] OTHER -> [p EXCEPT !.d.buffer[p.e] = p.d.disk[s]]
Filled(s, p) ==
    CASE p.hit -> p
      [] ~p.hit /\ s \in p.d.bad -> [p EXCEPT !.d = DiscardBuf(p.d, p.e), !.e = NoEntry]
      [] OTHER -> [p EXCEPT !.d.buffer[p.e] = p.d.disk[s]]
CacheSector(d, s) == Filled(s, Probe(d, s))

\* The caller writes its bytes into the entry and calls dc_dirty_buf.
DirtyBuf(d, e, data) ==
    [d EXCEPT !.buffer[e] = data,
              !.flags[e] = IF "inuse" \in @ THEN @ \cup {"dirty"} ELSE @]

CommitAll(d) ==
    LET dirty == {e \in d.used : "dirty" \in d.flags[e]}
        holder(s) == CHOOSE e \in dirty : d.sector[e] = s
    IN [d EXCEPT !.disk = [s \in DOMAIN @ |-> IF \E e \in dirty : d.sector[e] = s
                                              THEN d.buffer[holder(s)] ELSE @[s]],
                 !.flags = [e \in Entries |-> IF e \in dirty THEN @[e] \ {"dirty"} ELSE @[e]]]

\* Every entry in use, one after the other.
DiscardAll(d) ==
    LET kept(value, e, empty) == IF e \in d.used THEN empty ELSE value[e]
    IN [d EXCEPT !.flags = [e \in Entries |-> kept(@, e, {})],
                 !.sector = [e \in Entries |-> kept(@, e, NoSector)],
                 !.buffer = [e \in Entries |-> kept(@, e, NoData)],
                 !.map = [n \in DOMAIN @ |->
                              @[n] \ {e \in d.used : MapSector(d.sector[e]) = n}],
                 !.used = {}]

(***************************************************************************)
(* dc_get_buffer and dc_release_buffer: the least recently used entry is   *)
(* lent, unless it is the last one; it returns as the next to be used.     *)
(***************************************************************************)
CanLend(d) == Len(d.lru) > 1
Unlisted(d, e) == IF d.flags[e] # {} THEN DiscardEntry(d, e) ELSE d
MutGetBufferUnwritten(d) ==     \* a dirty entry is lent without being written
    LET e == Head(d.lru)
    IN [Unlisted([d EXCEPT !.lru = Tail(@)], e) EXCEPT !.flags[e] = {"buf"}]
GetBuffer(d) ==
    LET e == Head(d.lru)
    IN [Unlisted(WriteBack([d EXCEPT !.lru = Tail(@)], e), e) EXCEPT !.flags[e] = {"buf"}]
ReleaseBuffer(d, e) ==
    IF "buf" \in d.flags[e] THEN [d EXCEPT !.flags[e] = {}, !.lru = <<e>> \o @] ELSE d

(***************************************************************************)
(* What the driver sees of a sector, and what the cache has to keep true   *)
(* of itself: each entry is lent or in the list, once; the maps name just  *)
(* the entries in use, where their sector hashes; no sector is in two      *)
(* entries; and one that is not dirty is as stored.                        *)
(***************************************************************************)
Holders(d, s) == {e \in Entries : d.sector[e] = s /\ "inuse" \in d.flags[e]}
Contents(d, s) == LET h == Holders(d, s) IN IF h = {} THEN d.disk[s] ELSE d.buffer[Lowest(h)]
Settled(d, s) == \A e \in Holders(d, s) : "dirty" \notin d.flags[e]

ListSound(d) ==
    /\ IsInjective(d.lru)
    /\ ToSet(d.lru) = {e \in Entries : "buf" \notin d.flags[e]}
    /\ d.lru # <<>>
MapsSound(d) ==
    /\ d.used = {e \in Entries : "inuse" \in d.flags[e]}
    /\ \A n \in DOMAIN d.map :
           d.map[n] = {e \in d.used : MapSector(d.sector[e]) = n}
CacheSound(d) ==
    /\ ListSound(d)
    /\ MapsSound(d)
    /\ \A e \in Entries : d.flags[e] \in {{}, {"inuse"}, {"inuse", "dirty"}, {"buf"}}
    /\ \A e, f \in d.used : d.sector[e] = d.sector[f] => e = f
    /\ \A e \in d.used : "dirty" \notin d.flags[e] => d.buffer[e] = d.disk[d.sector[e]]
==============================================================================
